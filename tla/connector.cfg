SPECIFICATION FairSpec
CONSTANTS
    c1 = c1
    c2 = c2
    c3 = c3
    Calls = {c1, c2, c3}
    OptionSets <- MCOptions
    MaxAttempts = 2
    ExpDelay <- MCExpDelay
    MaxDelayMs = 2
    JitterMs = 1
    RetryAfters = {0, 2}
    TimeoutMs = 1
    Horizon = 2
    FailureThreshold = 2
    WindowMs = 1
    OpenCooldownMs = 2
    HalfOpenSuccessThreshold = 2
    TokenUnit = 2
    RefillRate = 1
    Capacity = 2
INVARIANTS
    TypeOK
    OpenAdmitsNobody
    ClosedIsBelowThreshold
    EveryOutcomeRecordedOnce
    BurstBound
PROPERTIES
    TripIsEarned
    ContractSpec
    CallsSettle
