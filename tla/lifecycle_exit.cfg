SPECIFICATION SettlingSpec
CONSTANTS
    r1 = r1
    r2 = r2
    r3 = r3
    Requests <- MCRequests
    KeptAlive <- MCKeptAlive
    TimeoutMs = 3
    PollMs = 2
PROPERTY ExitsRegardless
CHECK_DEADLOCK FALSE
