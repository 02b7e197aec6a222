SPECIFICATION Spec
CONSTANTS
    File = {f1}
    Ticket = {t1}
    None = None
    MaxFaults = 0
    MaxCrashes = 1
CHECK_DEADLOCK FALSE
INVARIANT MovesUndone
