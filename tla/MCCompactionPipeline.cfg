CONSTANTS
    U32Max = 40
    U64Max = 4000
    PRUNE_ALERT_THRESHOLD = 4
    HIGH_PRUNE_THRESHOLD = 2
    MISSED_ALERT_THRESHOLD = 3
    CAPACITY_CEILING = 8
    GOSSIP_DELIVERY_CEILING = 9
    MaxEpochs = 6
    PruneInputs <- MCPruneInputs
    GossipInputs <- MCGossipInputs
SPECIFICATION Spec
INVARIANTS
    AlarmsFollowHistory
    AlarmReachesDashboard
    TotalsTelescope
CHECK_DEADLOCK FALSE
