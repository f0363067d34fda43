CONSTANTS
    Goroutines = {g1, g2}
    Pairs <- MCPairs
    MapperTypes <- MCMapperTypes
    Providers <- MCProviders
    ProviderPairs <- MCProviderPairs
    HookSet = TRUE
    HookPairs <- MCHookPairs
    InitialMappers <- MCInitialMappers
    AnyType <- MCAnyType
    MapperDisableCache = FALSE
    NoProvider = NoProvider
    NoOne = NoOne
    NoPair = NoPair
    Absent = Absent

SPECIFICATION FixedSpec
INVARIANT NeverWaitsOnOwnLock
PROPERTY ImplementsMapper
