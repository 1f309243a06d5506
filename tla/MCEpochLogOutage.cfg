SPECIFICATION OutageSpec
CONSTANTS
    Writers = {w1}
    None = None
    MaxDelta = 2
    MaxSequence = 4
    Anchors <- NoInputs
    Durations = {1}
    SealThreshold = 2
    MaxSkippedSequences = 2
    StoreFails = TRUE
    Exclusive = TRUE
    SealCalls = "never"
    MaxFaults = 2
PROPERTIES
    
    TrackGoesOn
CHECK_DEADLOCK FALSE
