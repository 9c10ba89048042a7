SPECIFICATION Spec
CONSTANTS
    Confs <- MCConfs
    Calls <- MCCalls
    MaxOps = 3
    MaxChunks = 2
INVARIANTS WaitsForSomething NothingLost EnginesAgree
PROPERTIES PhaseDecides DecisionsCount
CHECK_DEADLOCK FALSE
