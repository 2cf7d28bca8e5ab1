CONSTANTS
    Procs = {p1}
    Keys = {k1, k2}
    Leases = {l1}
    NoLease = NoLease
    NoValue = NoValue
    NoRequest = NoRequest
    NoInstance = NoInstance
    Namespaces = {n1}
    NamespaceOf <- OneNamespace
    Modes = {"heartbeat", "probe"}
    Counters <- Unclaimed
    Data = {d1}
    Policies <- QuickPolicy
    Ops = {"register"}
    MaxRequests = 2
    MaxModeRev = 2
SPECIFICATION Spec
INVARIANTS ProbesUnbound
CHECK_DEADLOCK FALSE
