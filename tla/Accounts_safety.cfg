\* two requests at a time on two sessions
SPECIFICATION Spec
CONSTANTS
    s1 = s1
    s2 = s2
    r1 = r1
    r2 = r2
    Sessions = {s1, s2}
    Requests = {r1, r2}
    None = None
INVARIANT IInv
INVARIANT PasswordClosesSessions
PROPERTY ClosedForGood
SYMMETRY MCSymmetry
CHECK_DEADLOCK FALSE
