SPECIFICATION FairSpec
CONSTANTS
    Absent = Absent
    None = None
    Launcher = Launcher
    Requests = {r1}
    Worlds <- StopWorlds
    MaxCrashes = 0
    MaxAsked = 2
    DayHours = 3
    Week = 2
    Springs = 4
    Falls = 7
PROPERTIES
    StopsEnd
CHECK_DEADLOCK FALSE
