SPECIFICATION Spec
CONSTANTS
    Streams = {s1, s2}
    EventIds = {e1, e2, e3, e4}
    Appenders = {a1, a2}
SYMMETRY Symmetry
CHECK_DEADLOCK FALSE
INVARIANTS
    TypeOK
    CounterMatchesIndex
    ChainVerifies
    OutcomeTruthful
PROPERTY
    ImplementsEventLog
