SPECIFICATION Spec
CONSTANTS
    MaxAttempts = 2
    MaxWrites = 2
    MaxOutputs = 1
    Job = {j1}
    Nobody = Nobody
    Parts = 2
    MaxBreaks = 1
    MaxExpiries = 1
    MaxSessions = 1
    File = {f1, f2}
    Raw = {f2}
    Nothing = Nothing
    MaxTexts = 2
    Uploads = 1
    MaxIds = 3
    Body = {x, y}
    Absent = Absent
    MaxOthers = 2
    MaxSaves = 3
    None = None
    Queries = 2
    MaxChanges = 4
    m1 = m1
    m2 = m2
    g1 = g1
    g2 = g2
    Folder = {g1, g2}
    Letter = {m1, m2}
    Nowhere = Nowhere
    MaxSteps = 5
    Limit = 3
    Piece = 2
    Burst = 2
    MaxEmitted = 7
    MaxClears = 2
    MaxMounts = 2
    Providers = 2
    Retries = 1
    Chunks = 2
    MaxHistory = 1
    MaxAsked = 2
    Attachment = {a1, a2}
    Ticket = {t1}
    MaxRevision = 2
    MaxLosses = 1
    MaxForms = 2
    MaxPresses = 3
    MaxPlugs = 3
CHECK_DEADLOCK FALSE
INVARIANTS TypeOK AckMatchesWrite InterfaceFreed NothingTwice  ShownIsCurrent ScreenFollows AnswerFromOneAttempt
PROPERTIES NoBlindOverwrite
