SPECIFICATION Spec
CONSTANTS
    p1 = p1
    p2 = p2
    Processes <- MCProcesses
    MaxEpoch = 3
    MaxDelta = 3
    GroupSequences = {1, 2}
    NoWriter = NoWriter
SYMMETRY Symmetry
CONSTRAINT FewWhenShared
INVARIANTS
    AppendedReadable
    EpochsExist
    RetryUnneeded
PROPERTY LatestNeverFalls
