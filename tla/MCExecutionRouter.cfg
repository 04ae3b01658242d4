SPECIFICATION RouterSpec
CONSTANTS
    Threads = {t1, t2}
    Classes = {"governance", "telemetry"}
    VERIFIER_MAP <- MCVerifierMap
    Verifiers = {"empty", "00", "02", "ff"}
    DefaultClass = "governance"
    MAX_AUDIT_TRAIL = 2
    MaxRoutes = 4
SYMMETRY Symmetry
CHECK_DEADLOCK FALSE
INVARIANTS
    SequencesUnique
    AuditIsRecent
