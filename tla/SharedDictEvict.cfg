\* A zone of strings with timeout= and evict, short of memory.
SPECIFICATION Spec
CONSTANTS
    w1 = w1  w2 = w2  k1 = k1  k2 = k2  k3 = k3  v1 = v1  v2 = v2  v3 = v3
    c1 = c1  c2 = c2  c3 = c3  c4 = c4  c5 = c5
    NULL = NULL
    Workers = {w1}
    Engines = {"njs", "qjs"}
    Keys = {k1, k2, k3}
    Values = {v1, v2, v3}
    SizeOf <- MCSizeOf
    Chunk = {c1, c2, c3, c4, c5}
    DictType = "string"
    Timeout = 2
    TimeoutArgs = {0}
    Evict = TRUE
    EvictBatch = 1
    Deltas = {}
    Inits = {}
    MaxTime = 2
SYMMETRY KeySymmetry
INVARIANTS TreesAgree NoLeak
PROPERTIES FailedCallKeepsEntry ImplementsMap
