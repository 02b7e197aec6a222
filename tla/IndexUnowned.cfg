SPECIFICATION Spec
CONSTANTS
    Op = {o1, o2}
    Page = {p1, p2}
    None = None
    MaxVersions = 2
    MaxCrashes = 0
CHECK_DEADLOCK FALSE
INVARIANT EditOwnsIndex
