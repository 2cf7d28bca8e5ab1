CONSTANTS
    Keys = {k1, k2}
    IdOf <- OwnIds
    Filters = {TRUE}
    FromSnapshot = FALSE
    Compaction = FALSE
    MaxFaults = 0
    Capacity = 1
    MaxRev = 3
SPECIFICATION Spec
INVARIANTS CaughtUpIsComplete
CHECK_DEADLOCK FALSE
