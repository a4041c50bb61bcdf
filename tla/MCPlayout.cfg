CONSTANTS
    a = a
    b = b
    c = c
    None = None
    Assets = {a, b, c}
    Edits = {e1, e2}
    Requests <- SomeRequests
    Initial <- TwoLooping
    MaxSlots = 2
    MaxLaunches = 1
SPECIFICATION FairSpec
INVARIANTS TypeOK OneEditWins
PROPERTIES DepletionNoticed QueuedIsCommitted RequestsEnd RotationRecurs
CHECK_DEADLOCK FALSE
