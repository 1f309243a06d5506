SPECIFICATION Spec
CONSTANTS
    Writers = {w1}
    None = None
    MaxDelta = 2
    MaxSequence = 3
    Anchors = {1}
    Durations = {1}
    SealThreshold = 2
    MaxSkippedSequences = 1
    StoreFails = TRUE
    Exclusive = TRUE
    SealCalls = "fresh"
INVARIANTS
    TypeOK
    AckedReadable
    PayloadFirst
    TipKnown
    NoGapBelowHead
PROPERTY ImplementsCommitLog
