CONSTANTS
    Keys = {k1, k2}
    IdOf <- OwnIds
    Filters = {TRUE}
    FromSnapshot = TRUE
    Compaction = FALSE
    MaxFaults = 0
    Capacity = 1
    MaxRev = 3
SPECIFICATION Spec
INVARIANTS CaughtUpIsCurrent
CHECK_DEADLOCK FALSE
