\* Failures, exits, deaths and restarts.
SPECIFICATION FairSpec
CONSTANTS
    w1 = w1  w2 = w2  w3 = w3  NoOne = NoOne
    Workers = {w1, w2}
    First = w1
    Indivisible = TRUE
    MaxCalls = 2
    MaxErrors = 2
    Quitters = {w1, w2}
    MaxKills = 1
    MaxRestarts = 1
INVARIANTS OneWriter FileComplete CleanMeansSaved
PROPERTIES FileAdvances EventuallySaved
CHECK_DEADLOCK FALSE
