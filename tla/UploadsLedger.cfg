SPECIFICATION Spec
CONSTANTS
    Outside = Outside
    None = None
    Task = {t1}
    Bytes <- MCBytes
    Parts = 1
    Capacity = 2
    MaxName = 2
    MaxOutside = 1
    MaxCrashes = 0
    MaxLost = 0
PROPERTY LedgerUntilGone
