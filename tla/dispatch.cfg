SPECIFICATION Spec
CONSTANTS
    r1 = r1
    r2 = r2
    r3 = r3
    k1 = k1
    k2 = k2
    Keys <- MCKeys
    Limits <- MCLimits
    NoLimit = NoLimit
    Tokens = 2
    WindowMs = 2
    SecondMs = 2
    Fingerprints = {"f", "g"}
    Protocols = {"chat", "messages"}
    Responses <- MCRequests
    NoEntry = NoEntry
    TtlMs = 2
    Requests <- MCRequests
    Wants <- MCWants
    CacheEnabled = TRUE
    NoHeader = NoHeader
    Horizon = 4
INVARIANTS
    TypeOK
    QuotaIsExact
    QuotaIsKept
    HitsAreGenuine
