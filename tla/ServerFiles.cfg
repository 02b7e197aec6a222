SPECIFICATION PartsSpec
CONSTANTS
    Outside = Outside
    None = None
    Task = {t1, t2}
    Bytes <- MCBytes
    Parts = 1
    Capacity = 2
    MaxName = 2
    MaxOutside = 1
    MaxCrashes = 1
    MaxLost = 1
    File = {t1, t2}
    Ticket = {k1}
    MaxFaults = 1
SYMMETRY Symmetry
CHECK_DEADLOCK FALSE
INVARIANTS FilesTypeOK PartsKept RowsHaveFiles OneCopyPerCrash
