SPECIFICATION Spec
CONSTANTS
    Peers = {1, 2}
    Bound <- SmallBound
INVARIANTS
    DispatchReachesAdmitted
    PeersTrustOnlySeals
PROPERTIES
    SealTellsTampering
    PeerCatchesUp
CHECK_DEADLOCK FALSE
