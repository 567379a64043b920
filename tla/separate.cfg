SPECIFICATION Spec
CONSTANTS
    ProviderIds = {"seed", "seed-a"}
    ProviderNames = {"one", "two"}
    Protocols = {"OpenAI", "Gemini"}
    Urls = {"url1", "url2"}
    ApiKeys = {"key1", "key2"}
    ModelIds = {"pm1", "pm2", "pm3"}
    ModelNames = {"a-b", "a/b", "b"}
    VirtualIds = {"vm", "vm2"}
    VirtualNames = {"vm"}
    KeyIds = {"k"}
    ModelId <- MCModelId
    SeedProviders <- MCSeedProviders
    SeedVirtuals <- MCSeedVirtuals
    NewProviders <- MCNewProviders
    Patches <- MCPatches
    Syncs <- MCSyncs
    HasMasterKey = TRUE
    MaxWrites = 4
    MaxCalls = 1
    TemplateIds = {t1, t2, t3}
    TemplateNames = {"greet", "sum"}
    Versions = {1, 2}
    Bodies = {"old", "new"}
    NoTemplate = NoTemplate
    MaxChildren = 2
    MaxRequests = 3
CHECK_DEADLOCK FALSE
INVARIANTS
    CatalogIsConsistent
    RoutedAsStored
    LatestIsPublished
    AnswersAreTheirOwn
PROPERTIES
    ExitSettlesCalls
