SPECIFICATION Spec
CONSTANTS
    Writers = {w1, w2}
    None = None
    MaxDelta = 2
    MaxSequence = 2
    Anchors <- NoInputs
    Durations = {1}
    SealThreshold = 2
    MaxSkippedSequences = 1
    StoreFails = FALSE
    Exclusive = FALSE
    SealCalls = "fresh"
SYMMETRY Interchangeable
INVARIANTS
    RefsTile
    RefsDescribeManifests
    FencedUntilSealed
