SPECIFICATION FairSpec
CONSTANTS
    FailureThreshold = 3
    EpochIds = {1, 2}
    NoSnapshot = NoSnapshot
    Ingesters = {t1, t2}
    MaxLog = 2
    MaxIngested = 3
INVARIANTS
    FailsafeTypeOK
    FrozenAtThreshold
    CorruptionCountMatchesLog
    FallbacksIntact
    AtMostOneLateEvent
PROPERTIES
    FreezesOnlyWithoutSnapshot
    QuarantineSettles
