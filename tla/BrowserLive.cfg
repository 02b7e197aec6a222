SPECIFICATION Spec
CONSTANTS
    None = None
    QueueLimit = 3
    RotateAt = 2
    MaxOutput = 5
    MaxRecoveries = 2
    Kinds = {"serial", "adb"}
    Call = {c1, c2}
    Chunks = 2
    MaxTyped = 1
    MaxPastes = 1
    MaxOpens = 2
    MaxLeaves = 1
    MaxErrors = 1
    Filter = {x, y}
    Unread = Unread
    MaxMoves = 2
    MaxChanges = 3
    MaxFailures = 1
CHECK_DEADLOCK FALSE
INVARIANTS TypeOK FileIsOutput StoppedIsSaved NothingReplayed EnterEndsWholePaste NoOrphanLink
PROPERTIES NeverForgotten RequestsEnd CatchesUp
