CONSTANT Programs <- Programs1
SPECIFICATION Spec
INVARIANTS MeansTheSame CodeHolds
