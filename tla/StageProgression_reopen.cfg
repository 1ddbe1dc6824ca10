\* one stage, one task: a completion and an edit at a time
SPECIFICATION Spec
CONSTANTS
    r1 = r1
    r2 = r2
    t1 = t1
    StageCount = 1
    Tasks = {t1}
    Requests = {r1, r2}
    None = None
PROPERTY CompletedWithAllDone
CHECK_DEADLOCK FALSE
