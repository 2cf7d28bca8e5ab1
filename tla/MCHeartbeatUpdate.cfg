CONSTANTS
    Procs = {p1, p2}
    Keys = {k1}
    Leases = {l1, l2}
    NoLease = NoLease
    NoValue = NoValue
    NoRequest = NoRequest
    NoInstance = NoInstance
    Namespaces = {n1}
    NamespaceOf <- OneNamespace
    Modes = {"heartbeat"}
    Counters <- Unclaimed
    Data = {d1, d2}
    Policies <- QuickPolicy
    Ops = {"register", "update", "heartbeat"}
    MaxRequests = 3
    MaxModeRev = 2
SPECIFICATION Spec
PROPERTIES OnlyUpdateChangesData
CHECK_DEADLOCK FALSE
