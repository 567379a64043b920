SPECIFICATION Spec
CONSTANTS
    Words <- MCWords
    Ids <- MCIds
    Tools = {"lookup"}
    Models = {"m", "n", "<gemini>"}
    Unparsable = "broken"
    Drawn <- MCDrawn
    ThinkingId = "block"
    ChunkLength = 8
    Streams <- MCStreams
    Requests <- MCRequests
    Documents <- MCDocuments
    MaxExchanges = 2
INVARIANTS
    TypeOK
    RequestIsKept
    ToolTrafficIsKept
    AnswerIsKept
    CacheAnswersTheQuestion
    ChunkingIsInvisible
    StreamIsKept
CHECK_DEADLOCK FALSE
