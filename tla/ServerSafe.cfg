SPECIFICATION PartsSpec
CONSTANTS
    Message = {m1, m2}
    Job = {j1, j2}
    Worker = {w1, w2}
    Client = {c1}
    Plans <- MCOnePlan
    None = None
    MaxVisits = 2
    MaxCrashes = 1
    User = {u1, u2}
    Scheduled = {u1}
    Checker = {w1, w2}
    Requester = {j1, j2}
    Free = Free
    Mail = Mail
    MaxLosses = 2
    MaxSyncs = 1
    Draft = {m1, m2}
    Request = {r1, r2, r3}
    NoDraft = NoDraft
    Op = {o1, o2}
    Page = {m1, m2}
    MaxVersions = 2
SYMMETRY SymmetryOfMessages
CHECK_DEADLOCK FALSE
INVARIANTS StoresTypeOK OneRunningJob  SentOnce IndexIsCurrent
PROPERTIES TickOnlyWhenIdle
