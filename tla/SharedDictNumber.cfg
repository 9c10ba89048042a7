\* A zone of numbers shared by two workers whose cached times differ.
SPECIFICATION Spec
CONSTANTS
    w1 = w1  w2 = w2  k1 = k1  k2 = k2  k3 = k3  v1 = v1  v2 = v2  v3 = v3
    c1 = c1  c2 = c2  c3 = c3  c4 = c4  c5 = c5
    NULL = NULL
    Workers = {w1, w2}
    Engines = {"njs", "qjs"}
    Keys = {k1, k2}
    Values = {0, 1}
    SizeOf = {}
    Chunk = {c1}
    DictType = "number"
    Timeout = 2
    TimeoutArgs = {0, 1}
    Evict = FALSE
    EvictBatch = 2
    Deltas = {1}
    Inits = {0}
    MaxTime = 2
SYMMETRY KeySymmetry
INVARIANTS ReadersAgree
PROPERTIES IncrKeepsExpiry
