CONSTANTS
    Keys = {k1, k2}
    IdOf <- OwnIds
    Filters = {TRUE, FALSE}
    FromSnapshot = TRUE
    Compaction = TRUE
    MaxFaults = 1
    Capacity = 1
    MaxRev = 4
SPECIFICATION FairSpec
INVARIANTS TypeOK CaughtUpAsAsked
PROPERTIES CacheSettles
CHECK_DEADLOCK FALSE
