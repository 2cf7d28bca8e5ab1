CONSTANTS
    Nil = Nil
    NoLease = NoLease
    NoValue = NoValue
    Leases = {}
    Keys <- MCKeys
    SortedKeys <- MCSortedKeys
    NamespaceNames <- MCNamespaceNames
    ServiceNames <- MCServiceNames
    InstanceIDs <- MCInstanceIDs
    MetadataKeys <- MCMetadataKeys
    Hosts <- MCHosts
    IntBits = 18
    Registrations <- MCRegistrations
    Updates <- MCUpdates
    Asked <- MCAsked
    Filters <- MCFilters
    Transports = {"http", "grpc"}
    Pickers = {p1, p2}
    HashKeys = {"h1", "h2"}
    Score <- MCScore
    Concurrent = FALSE
    MaxRev = 3
    MaxTurns = 3
    MaxFaults = 1
SPECIFICATION Spec
INVARIANTS ConsumerTypeOK SyncedAsAsked SettledIsStored
PROPERTIES StoredAsAsked PicksAreFair
CHECK_DEADLOCK FALSE
