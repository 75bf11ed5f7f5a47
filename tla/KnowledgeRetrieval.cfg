SPECIFICATION Spec
CONSTANTS
    None = None
    i1 = i1
    i2 = i2
    j1 = j1
    r1 = r1
    r2 = r2
    SectionType <- MCSectionType
    ChildMaxChars = 4
    ChildOverlapChars = 1
    Versions = {"a1", "b1"}
    DocumentOf <- MCDocumentOf
    TextOfVersion <- MCTextOfVersion
    Samples <- MCSamples
    Indexes = {i1, i2, j1}
    VersionOf <- MCVersionOf
    Compatible = {i1, i2}
    Permitted = {"a", "b"}
    Requests = {r1, r2}
    ModeOf <- MCModeOf
    ChildTopK = 2
    ParentTopK = 1
    CandidateK = 2
    MaxCached = 1
    RerankSlots = 1
    Reparsed = {"b1"}
    Established = {i1, j1}
    MaxChanges = 2
INVARIANTS
    TypeOK
    ChunksAreSound
    
PROPERTIES
    EvidenceIsCurrent
    SearchEnds
CHECK_DEADLOCK FALSE
