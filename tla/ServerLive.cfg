SPECIFICATION PartsSpec
CONSTANTS
    Message = {m1}
    Job = {j1}
    Worker = {w1}
    Client = {c1}
    Plans <- MCPlans
    None = None
    MaxVisits = 2
    MaxCrashes = 1
    User = {u1, u2}
    Checker = {k1, k2}
    Requester = {q1, q2}
    Free = Free
    Mail = Mail
    MaxLosses = 2
    MaxSyncs = 1
    u1 = u1
    u2 = u2
    a1 = a1
    a2 = a2
    a3 = a3
    b1 = b1
    Automation = {a1, a2, a3, b1}
    MaxQueue = 3
    MaxReorders = 1
INVARIANTS TicketOnce BoundedOvertaking
PROPERTIES CompletedPrefixFixed QueuedJobEnds UpdateSurfaces EveryCheckEnds EveryAutomationServed
