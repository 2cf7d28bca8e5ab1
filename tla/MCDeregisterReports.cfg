CONSTANTS
    Procs = {p1}
    Keys = {k1}
    Leases = {l1, l2}
    NoLease = NoLease
    NoValue = NoValue
    NoRequest = NoRequest
    NoInstance = NoInstance
    Namespaces = {n1}
    NamespaceOf <- OneNamespace
    Modes = {"heartbeat", "probe"}
    Counters <- Unclaimed
    Data = {d1}
    Policies <- QuickPolicy
    Ops = {"register", "deregister"}
    MaxRequests = 2
    MaxModeRev = 2
SPECIFICATION Spec
PROPERTIES DeregisterReportsSuccess
CHECK_DEADLOCK FALSE
