CONSTANTS
    Procs = {p1, p2}
    Capabilities = {c1, c2}
    Services = {s1}
    Protocols = {"http"}
    AnyProtocol = AnyProtocol
    Offered <- MCOffered
    Queries <- MCQueries
    Running <- MCRunning
    Keys <- MCKeys
    Leases = {}
    NoLease = NoLease
    NoValue = NoValue
    NoRequest = NoRequest
    NoCard = NoCard
    NoAnswer = NoAnswer
    InitialModes = {"read_write", "read_only", "write_only", "no_read_no_write"}
    MaxAborts = 1
    MaxRev = 7
SPECIFICATION Spec
INVARIANTS TypeOK SerialIndexIsExact AcknowledgedIsIndexed AnswersAreRight
PROPERTIES PreviousWasReplaced
SYMMETRY Symmetry
