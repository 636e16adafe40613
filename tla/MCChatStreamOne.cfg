\* One request with every kind of claim, chunk and failure; it ends or hangs
\* where the code bounds no wait, and closes its provider stream.
SPECIFICATION FairSpec
CONSTANTS
    r1 = r1
    r2 = r2
    c1 = c1
    c2 = c2
    scheme = scheme
    guide = guide
    Requests = {r1}
    Conversations = {c1}
    ConversationOf <- MCOneConversation
    Sources = {scheme, guide}
    Official = {scheme}
    Claims <- MCClaims
    ChunkSizes = {1, 4}
    FlushLength = 2
    MaxDelta = 4
    MaxAnswer = 5
    MaxChunks = 3
    MaxClears = 1
INVARIANTS
    TypeOK
    FinalMatchesStore
    FinalIsDurable
    StoredAnswersAreGrounded
PROPERTIES
    NothingFollowsRetraction
    RequestsEnd
    ProviderStreamsClose
CHECK_DEADLOCK FALSE
