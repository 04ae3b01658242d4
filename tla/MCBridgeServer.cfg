SPECIFICATION FairSpec
CONSTANTS
    Clients = {c1, c2}
    MaxEpoch = 3
INVARIANTS
    AtMostOneAutosave
PROPERTIES
    AutosaveCatchesUp
    EveryRequestAnswered
