SPECIFICATION FairSpec
CONSTANTS
    Absent = Absent
    None = None
    Launcher = Launcher
    Requests = {r1}
    Worlds <- MCWorlds
    MaxCrashes = 1
    MaxAsked = 2
    DayHours = 3
    Week = 2
    Springs = 4
    Falls = 7
INVARIANTS
    TypeOK
    LaunchIsSound
PROPERTIES
    OccurrenceLaunchedOnce
    NextStartIsRight
    RecurrenceGoesOn
CHECK_DEADLOCK FALSE
