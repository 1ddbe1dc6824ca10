\* one funnel, two worker slots that may lose the job lock, renames
SPECIFICATION FairSpec
CONSTANTS
    f1 = f1
    w1 = w1
    w2 = w2
    k1 = k1
    Funnels = {f1}
    Owner <- OneUser
    Keys = {k1}
    Workers = {w1, w2}
    Sweeps = {cron}
    cron = cron
    MaxAttempts = 2
    MaxStalled = 1
    LockLoss = TRUE
    Renames = TRUE
    None = None
PROPERTY GenerationSettles
PROPERTY JobsEnd
CHECK_DEADLOCK FALSE
