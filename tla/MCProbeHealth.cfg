CONSTANTS
    Policies <- AllPolicies
    Counters <- SomeClaims
    Targets <- AllTargets
    MaxProbes = 8
SPECIFICATION ProbeSpec
INVARIANTS StatusMatchesHistory DeletedMatchesHistory FollowsTarget
CHECK_DEADLOCK FALSE
