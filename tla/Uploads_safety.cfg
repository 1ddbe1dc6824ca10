\* one document, two worker slots, one sweep at a time
SPECIFICATION FairSpec
CONSTANTS
    d1 = d1
    w1 = w1
    w2 = w2
    Docs = {d1}
    Workers = {w1, w2}
    Sweeps = {cron, manual}
    cron = cron
    manual = manual
    MaxAttempts = 3
    MaxStalled = 1
    MaxTries = 3
    None = None
INVARIANT IInv
INVARIANT ReadyHasText
INVARIANT AcceptedIsStored
PROPERTY VerdictStands
PROPERTY UploadSettles
CHECK_DEADLOCK FALSE
