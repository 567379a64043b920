SPECIFICATION FairSpec
CONSTANTS
    r1 = r1
    r2 = r2
    r3 = r3
    Requests <- MCRequests
    KeptAlive <- MCKeptAlive
    TimeoutMs = 3
    PollMs = 2
INVARIANTS
    TypeOK
    InflightIsExact
    DrainsBeforeClosing
    ShutdownIsPrompt
PROPERTIES
    ShutdownCompletes
CHECK_DEADLOCK FALSE
