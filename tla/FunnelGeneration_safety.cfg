\* two POSTs of one user with their own or the same key, two worker slots
SPECIFICATION Spec
CONSTANTS
    f1 = f1
    f2 = f2
    w1 = w1
    w2 = w2
    k1 = k1
    k2 = k2
    Funnels = {f1, f2}
    Owner <- OneUser
    Keys = {k1, k2}
    Workers = {w1, w2}
    Sweeps = {cron}
    cron = cron
    MaxAttempts = 2
    MaxStalled = 1
    LockLoss = FALSE
    Renames = FALSE
    None = None
SYMMETRY Interchangeable
INVARIANT IInv
INVARIANT OneFunnelPerKey
INVARIANT TasksMatchStatus
INVARIANT GeneratedEventsHold
PROPERTY ActiveIsFinal
PROPERTY RefinesLifecycle
CHECK_DEADLOCK FALSE
