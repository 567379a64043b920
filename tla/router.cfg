SPECIFICATION Spec
CONSTANTS
    a = a
    b = b
    d = d
    Models = {a, b, d}
    Rows <- MCRows
    Disabled = Disabled
    Absent = Absent
    NoLatency = NoLatency
    Latencies <- MCLatencies
    Rates = {7, 10}
    FailureThreshold = 2
    Fed = {a, b}
    MaxStreak = 2
    VirtualModels <- MCNames
    Catalog <- MCCatalog
    MaxCounter = 4
INVARIANTS
    TypeOK
    EntriesMatchReports
    RoundRobinIsFair
    RoutingIsExplained
PROPERTIES
    MovesAreEarned
