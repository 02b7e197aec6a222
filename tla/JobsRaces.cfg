SPECIFICATION Spec
CONSTANTS
    Message = {m1}
    Job = {j1, j2}
    Worker = {w1, w2}
    Client = {c1, c2}
    Plans <- MCOnePlan
    None = None
    MaxVisits = 2
    MaxCrashes = 1
SYMMETRY Symmetry
INVARIANTS TypeOK OneActiveJob UpdateNeverHidden
PROPERTIES OnlyFailedRequeued ImplementsInbox
