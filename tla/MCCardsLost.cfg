CONSTANTS
    Procs = {p1, p2}
    Capabilities = {c1, c2}
    Services = {s1}
    Protocols = {"http"}
    AnyProtocol = AnyProtocol
    Offered <- ValidCards
    Queries <- BusinessQueries
    Running <- MCRunning
    Keys <- MCKeys
    Leases = {}
    NoLease = NoLease
    NoValue = NoValue
    NoRequest = NoRequest
    NoCard = NoCard
    NoAnswer = NoAnswer
    InitialModes = {"read_write"}
    MaxAborts = 0
    MaxRev = 9
SPECIFICATION Spec
INVARIANTS IndexIsExact
