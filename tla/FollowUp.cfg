SPECIFICATION FairSpec
CONSTANTS
    target = target
    guard = guard
    Probes = {target, guard}
    Targets = {target}
    Threshold <- MCThreshold
    FastRounds = 2
    StableRounds = 2
    SuccessConsecutive = 3
    None = None
INVARIANTS
    VerdictIsProven
PROPERTIES
    Concludes
    FollowsGraph
CHECK_DEADLOCK
    FALSE
