SPECIFICATION Spec
CONSTANTS
    t1 = t1
    t2 = t2
    t3 = t3
    r1 = r1
    None = None
    Turns = {t1, t2}
    Resumes = {}
    MaxOpen = 2
    Window = 2
    CacheLimit = 3
    Faults = {}
SYMMETRY Symmetry
INVARIANT
    NoTurnOverwritten
CHECK_DEADLOCK FALSE
