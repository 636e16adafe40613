\* Two interleaved requests of two conversations, with clears and a crash;
\* the evidence is empty, for requests meet only in the store.
SPECIFICATION Spec
CONSTANTS
    r1 = r1
    r2 = r2
    c1 = c1
    c2 = c2
    scheme = scheme
    guide = guide
    Requests = {r1, r2}
    Conversations = {c1, c2}
    ConversationOf <- MCTwoConversations
    Sources = {}
    Official = {}
    Claims = {}
    ChunkSizes = {1}
    FlushLength = 2
    MaxDelta = 4
    MaxAnswer = 5
    MaxChunks = 1
    MaxClears = 1
INVARIANTS
    AnswersHaveTheirQuestion
PROPERTIES
    HistoryOnlyGrowsOrClears
    ImplementsTurnContract
CHECK_DEADLOCK FALSE
