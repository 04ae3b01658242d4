SPECIFICATION Spec
CONSTANTS
    RegionLen = 11
    EntryLen = 5
    EpochLength = 2
    Payloads = {0, 1}
    NoFile = NoFile
    MaxSequence = 6
    MaxSplits = 2
INVARIANTS
    CountersAgree
    CheckpointIsCut
    DurableNumbersKept
PROPERTY
    RestartResumesChain
