CONSTANTS
    TTL = 2
    NPred = 2
    PredTTL <- MCPredTTL
    DisableCache = FALSE
    MaxRows = 2
    MaxTime = 6
    MaxScrapes = 3
SPECIFICATION SSpec
INVARIANT EmptyAfterFailure
INVARIANT BoundedStaleness
INVARIANT PredicateGate
PROPERTY OncePerWindow
PROPERTY ImplementsResultCache
INVARIANT Accounted
INVARIANT LifetimeReported
