\* three stages, one task each, two requests at a time
SPECIFICATION Spec
CONSTANTS
    r1 = r1
    r2 = r2
    t1 = t1
    StageCount = 3
    Tasks = {t1}
    Requests = {r1, r2}
    None = None
SYMMETRY Interchangeable
INVARIANT IInv
INVARIANT StagesInOrder
INVARIANT AnnouncedOnce
INVARIANT LockedStageUntouched
INVARIANT FeedbackOnce
INVARIANT ConflictMeansGone
PROPERTY RefinesFunnelPath
CHECK_DEADLOCK FALSE
