SPECIFICATION FairSpec
CONSTANTS
    c1 = c1
    Callers <- OneCaller
    MaxProcs = 3
    MaxRestarts = 0
    CleanupLoop = FALSE
    Unkillable <- NoProcess
INVARIANTS
    NoOrphan
    ManagedStopIsNoFailure
PROPERTIES
    StopEndsFFmpeg
    StopReturns
