SPECIFICATION Spec
CONSTANTS
    MaxIds = 3
    Body = {x, y}
    Absent = Absent
    MaxOthers = 1
    MaxSaves = 3
CHECK_DEADLOCK FALSE
PROPERTY UnrelatedKept
