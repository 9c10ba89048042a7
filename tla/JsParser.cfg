CONSTANT Samples <- AllSamples
SPECIFICATION Spec
INVARIANTS TextsAreRead
CHECK_DEADLOCK FALSE
