SPECIFICATION Spec
CONSTANTS
    t1 = t1
    t2 = t2
    t3 = t3
    r1 = r1
    None = None
    Turns = {t1, t2, t3}
    Resumes = {r1}
    MaxOpen = 1
    Window = 2
    CacheLimit = 3
    Faults = {"expiry"}
SYMMETRY Symmetry
INVARIANTS
    TurnSeesConversation
    CopiesAgree
CHECK_DEADLOCK FALSE
