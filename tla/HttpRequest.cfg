SPECIFICATION Spec
CONSTANTS
    Locations <- MCLocations
    Calls <- MCCalls
    Habits = {"reject"}
    MaxOps = 3
INVARIANTS OwnersKnown Answered EnginesAgree
PROPERTIES AccessDecides Finishes
CHECK_DEADLOCK FALSE
