---------------------------- MODULE MCSharedDict ----------------------------
(* Instances of SharedDict for TLC. *)
EXTENDS SharedDict, TLC

CONSTANTS k1, k2, k3, v1, v2, v3, c1, c2, c3, c4, c5, w1, w2

\* A short string, a long one, and one that does not fit even in an empty zone.
MCSizeOf == (v1 :> 1) @@ (v2 :> 2) @@ (v3 :> 5)
\* incr() by one, or back by one.
MCDeltas == {-1, 1}
KeySymmetry == Permutations(Keys)

====
