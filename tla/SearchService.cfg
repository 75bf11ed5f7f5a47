SPECIFICATION Spec
CONSTANTS
    t1 = t1
    t2 = t2
    w1 = w1
    w2 = w2
    i1 = i1
    i2 = i2
    d1 = d1
    Terms = {t1, t2}
    Earlier = {t1}
    Surfaces <- MCSurfaces
    Reviewers = {v1}
    Publishers = {p1, p2}
    Indexes = {i1, i2}
    Document <- MCDocument
    Mentions <- MCMentions
    Changes = {c1, c2}
    Command = Command
    Startup = Startup
    Faults = {"search", "answer", "file", "database"}
    Required = {"database", "elasticsearch"}
    MaxOpen = 2
    MaxRequests = 3
    MaxCrashes = 1
    None = None
SYMMETRY Symmetry
INVARIANTS
    TypeOK
    AliasIsComplete
    
    LastVersionIsActive
    FileFollowsActive
PROPERTIES
    AliasServes
CHECK_DEADLOCK FALSE
