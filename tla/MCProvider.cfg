CONSTANTS
    p1 = p1
    p2 = p2
    k1 = k1
    k2 = k2
    k3 = k3
    Procs = {p1, p2}
    Keys = {k1, k2, k3}
    Leases = {l1, l2}
    NoLease = NoLease
    NoValue = NoValue
    NoRequest = NoRequest
    NoInstance = NoInstance
    Namespaces = {n1}
    NamespaceOf <- OneNamespace
    Modes = {"heartbeat"}
    Counters <- Unclaimed
    Data = {d1}
    Policies <- QuickPolicy
    Ops = {"register", "update", "heartbeat", "deregister"}
    MaxRequests = 3
    MaxModeRev = 2
    Prompt = {p1}
    Generated <- TwoIds
    Named <- OwnName
    AskedTTL <- NoTTLGiven
    DefaultTTL = 4
    Interval = 1
    Delay = 1
    MaxRestarts = 1
SPECIFICATION FairProviderSpec
INVARIANTS ProviderTypeOK StaysRegistered
PROPERTIES OwnHeartbeats RequestsAnswered SilentDisappear
CHECK_DEADLOCK FALSE
