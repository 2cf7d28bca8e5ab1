CONSTANTS
    Procs = {p1, p2}
    Servers = {s1}
    ServerOf <- OneServer
    Nil = Nil
    NamespaceNames <- MCNamespaces
    ServiceNames <- MCServices
    InstanceIDs = {}
    MetadataKeys = {}
    Hosts = {}
    Texts <- MCTexts
    ConfigNames <- MCNames
    Parses <- MCParses
    NotANumber = NotANumber
    NoSettings = NoSettings
    Requests <- MCFewRequests
    Files <- OneFile
    Envs <- OneEnv
    Keys <- MCKeys
    Leases = {}
    NoLease = NoLease
    NoValue = NoValue
    NoRequest = NoRequest
    NoNamespace = NoNamespace
    MaxId = 3
    MaxRestarts = 1
    MaxFaults = 0
    MaxRev = 5
SYMMETRY Symmetry
SPECIFICATION Spec
INVARIANTS EveryChangeAudited
CHECK_DEADLOCK FALSE
