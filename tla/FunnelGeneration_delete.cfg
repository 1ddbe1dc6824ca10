\* two concurrent deletions by one user
SPECIFICATION Spec
CONSTANTS
    f1 = f1
    f2 = f2
    w1 = w1
    k1 = k1
    k2 = k2
    Funnels = {f1, f2}
    Owner <- OneUser
    Keys = {k1, k2}
    Workers = {w1}
    Sweeps = {cron}
    cron = cron
    MaxAttempts = 2
    MaxStalled = 1
    LockLoss = FALSE
    Renames = FALSE
    None = None
PROPERTY KeepsAnActiveFunnel
CHECK_DEADLOCK FALSE
