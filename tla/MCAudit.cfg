CONSTANTS
    Procs = {p1, p2}
    Servers = {s1}
    ServerOf <- OneServer
    Nil = Nil
    NamespaceNames <- MCNamespaces
    ServiceNames <- MCServices
    InstanceIDs = {}
    MetadataKeys = {}
    Hosts = {}
    Texts <- MCTexts
    ConfigNames <- MCNames
    Parses <- MCParses
    NotANumber = NotANumber
    NoSettings = NoSettings
    Requests <- MCRequests
    Files <- MCFiles
    Envs <- MCEnvs
    Keys <- MCKeys
    Leases = {}
    NoLease = NoLease
    NoValue = NoValue
    NoRequest = NoRequest
    NoNamespace = NoNamespace
    MaxId = 3
    MaxRestarts = 1
    MaxFaults = 1
    MaxRev = 4
SYMMETRY Symmetry
SPECIFICATION Spec
INVARIANTS TypeOK AuditedWhileUp AnsweredAsDone TokenNeeded ListedBelong
PROPERTIES AuditAppendOnly
CHECK_DEADLOCK FALSE
