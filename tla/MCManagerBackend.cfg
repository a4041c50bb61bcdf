SPECIFICATION FairSpec
CONSTANTS
    c1 = c1
    Callers <- OneCaller
    MaxProcs = 2
    MaxRestarts = 1
    CleanupLoop = TRUE
    Unkillable <- NoProcess
INVARIANTS
    TypeOK
    RestartBudget
PROPERTIES
    CrashSurfaces
