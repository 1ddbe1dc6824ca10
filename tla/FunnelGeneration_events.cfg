\* a sweep that overlaps the worker it gives up on
SPECIFICATION Spec
CONSTANTS
    f1 = f1
    w1 = w1
    k1 = k1
    Funnels = {f1}
    Owner <- OneUser
    Keys = {k1}
    Workers = {w1}
    Sweeps = {cron}
    cron = cron
    MaxAttempts = 2
    MaxStalled = 1
    LockLoss = FALSE
    Renames = FALSE
    None = None
PROPERTY FailedEventsFollowWrite
CHECK_DEADLOCK FALSE
