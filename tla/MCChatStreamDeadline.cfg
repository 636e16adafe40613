\* A documented promise the code does not keep.
SPECIFICATION Spec
CONSTANTS
    r1 = r1
    r2 = r2
    c1 = c1
    c2 = c2
    scheme = scheme
    guide = guide
    Requests = {r1}
    Conversations = {c1}
    ConversationOf <- MCOneConversation
    Sources = {scheme}
    Official = {scheme}
    Claims <- MCFewClaims
    ChunkSizes = {1, 4}
    FlushLength = 2
    MaxDelta = 4
    MaxAnswer = 5
    MaxChunks = 2
    MaxClears = 1
INVARIANTS
    ConnectedClientsAreAnswered
CHECK_DEADLOCK FALSE
