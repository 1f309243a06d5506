SPECIFICATION Spec
CONSTANTS
    MaxEpoch = 2
    MaxGroups = 2
    StrayEpoch = FALSE
    NoLog = NoLog
    RecheckEvery = 1
CONSTRAINT Whole
INVARIANTS
    TypeOK
    NothingSkipped
    OldEpochsFinal
