SPECIFICATION Spec
CONSTANTS
    p1 = p1
    p2 = p2
    p3 = p3
    e1 = e1
    e2 = e2
    Parents = {p1, p2, p3}
    Entities = {e1, e2}
    DomainOf <- MCDomainOf
    CoverOf <- MCCoverOf
    CandidateK = 2
    TopK = 1
    MaxParents = 2
    MaxTopics = 2
    HttpRetries = 1
    ParseRetries = 1
    MaxChunks = 2
    Questions <- MCQuestions
    ModelDecisions <- MCModelDecisions
    None = None
INVARIANTS
    TypeOK
    
    SevereGoesToReview
    
    
    CallsAreRecorded
    StreamNeverRepeats
PROPERTIES
    RunEnds
CHECK_DEADLOCK FALSE
