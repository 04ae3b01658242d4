CONSTANTS
    U32Max = 1000000
    MaxLen = 2
    WindowLen = 5
    Counts <- MCCounts
    FewCounts <- MCFewCounts
    Peers = {1, 2}
SPECIFICATION Spec
INVARIANTS
    DamageLocated
    VerdictsFollowTheNumbers
    CachesReadBackFromLog
CHECK_DEADLOCK FALSE
