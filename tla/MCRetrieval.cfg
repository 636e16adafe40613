\* One retrieval while chunks are rewritten and midnight passes.
SPECIFICATION Spec
CONSTANTS
    None = None
    RankConstant = 60
    LexicalWeight = 4
    VectorWeight = 5
    PerDocument = 1
    Candidates = 2
    Scale = 3782
    Chunks = {1, 2, 3}
    DocumentOf <- MCDocumentOf
    Contents <- MCContents
    Queries <- MCQueries
    MaxAge <- MCMaxAge
    FusedLimit <- MCFusedLimit
    EvidenceLimit <- MCEvidenceLimit
    MinRelevance = 2
    MaxQuery = 4
    MaxContent = 1
    MaxSection = 1
    MaxDay = 1
    MaxChanges = 1
INVARIANTS
    TypeOK
    EvidenceIsCurrent
    NoDocumentCrowdsOut
    CitationsAreDistinct
    NoWorseChunkDisplaces
CHECK_DEADLOCK FALSE
