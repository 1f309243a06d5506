SPECIFICATION TailSpec
CONSTANTS
    MaxEpoch = 2
    MaxGroups = 2
    StrayEpoch = FALSE
    NoLog = NoLog
    RecheckEvery = 2
PROPERTY Delivered
