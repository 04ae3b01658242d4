SPECIFICATION Spec
CONSTANTS
    Proposals = {p1, p2}
    NoProposal = NoProposal
    WINDOW_SIZE = 3
    MaxSequence = 4
    MaxRequests = 5
INVARIANTS
    GuardsAgree
    WindowIsRecent
    VerdictMatchesHistory
