SPECIFICATION Spec
CONSTANTS
    Locations <- MCLocations
    Calls <- MCCalls
    Habits = {"reject"}
    MaxOps = 2
PROPERTY RejectionStops
CHECK_DEADLOCK FALSE
