CONSTANTS
    Procs = {p1, p2}
    Names = {n1}
    Values = {v1, v2}
    Keys <- MCKeys
    Writable = {"global", "namespace", "service"}
    Initially <- Nothing
    Leases = {}
    NoLease = NoLease
    NoValue = NoValue
    NoRequest = NoRequest
    MaxRev = 4
    MaxModeRev = 3
SPECIFICATION Spec
SYMMETRY Symmetry
INVARIANTS TypeOK ResolvedAsInForce
PROPERTIES NothingOverwritten AccessRespected
