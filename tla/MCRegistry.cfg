CONSTANTS
    Procs = {p1, p2}
    Keys = {k1, k2}
    Leases = {l1, l2}
    NoLease = NoLease
    NoValue = NoValue
    NoRequest = NoRequest
    NoInstance = NoInstance
    Namespaces = {n1}
    NamespaceOf <- OneNamespace
    Modes = {"heartbeat", "probe"}
    Counters <- OneClaim
    Data = {d1}
    Policies <- QuickPolicy
    Ops = {"register", "update", "heartbeat", "deregister", "probe"}
    MaxRequests = 4
    MaxModeRev = 2
SPECIFICATION SeenSpec
SYMMETRY Symmetry
INVARIANTS TypeOK LeaseBinding LeaseExclusive HealthyBelowThreshold
PROPERTIES UpdateIsAtomic IsInstanceTable
CHECK_DEADLOCK FALSE
