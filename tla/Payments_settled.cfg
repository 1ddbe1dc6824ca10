\* one charge, a verification and a webhook
SPECIFICATION Spec
CONSTANTS
    p1 = p1
    t1 = t1
    h1 = h1
    h2 = h2
    Payments = {p1}
    Owner <- OneUser
    Hours = {t1}
    Handlers = {h1, h2}
    None = None
PROPERTY SettledIsFinal
CHECK_DEADLOCK FALSE
