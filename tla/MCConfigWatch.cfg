CONSTANTS
    Values = {v1, v2}
    NoValue = NoValue
    Writable = {"service"}
    Initially <- GlobalDefault
    Transports = {"grpc", "http"}
    Compaction = TRUE
    MaxFaults = 1
    Capacity = 2
    MaxRev = 3
SPECIFICATION FairSpec
INVARIANTS TypeOK CaughtUpIsCurrent
PROPERTIES CacheSettles
CHECK_DEADLOCK FALSE
