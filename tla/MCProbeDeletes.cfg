CONSTANTS
    Procs = {p1}
    Keys = {k1}
    Leases = {l1}
    NoLease = NoLease
    NoValue = NoValue
    NoRequest = NoRequest
    NoInstance = NoInstance
    Namespaces = {n1}
    NamespaceOf <- OneNamespace
    Modes = {"probe"}
    Counters <- OneClaim
    Data = {d1}
    Policies <- QuickPolicy
    Ops = {"register", "probe"}
    MaxRequests = 2
    MaxModeRev = 2
SPECIFICATION Spec
PROPERTIES OnlyUnhealthyDeleted
CHECK_DEADLOCK FALSE
