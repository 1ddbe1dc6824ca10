\* two charges of one user in the same or in two hours, two handlers
SPECIFICATION Spec
CONSTANTS
    p1 = p1
    p2 = p2
    t1 = t1
    t2 = t2
    h1 = h1
    h2 = h2
    Payments = {p1, p2}
    Owner <- OneUser
    Hours = {t1, t2}
    Handlers = {h1, h2}
    None = None
SYMMETRY Interchangeable
INVARIANT IInv
INVARIANT OneOpenSubscription
INVARIANT OneCheckoutPerKey
INVARIANT SuccessIsEarned
INVARIANT PaidMeansPro
PROPERTY RefinesProPlan
CHECK_DEADLOCK FALSE
