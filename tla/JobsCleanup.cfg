SPECIFICATION FairSpec
CONSTANTS
    Message = {m1}
    Job = {j1}
    Worker = {w1}
    Client = {c1}
    Plans <- MCOnePlan
    None = None
    MaxVisits = 2
    MaxCrashes = 1
PROPERTY ActiveJobKept
