CONSTANTS
    Nil = Nil
    Request <- Connections
    PoolSize = 1
    MaxChunks = 1
    MaxRequests = 2
    Label <- MCLabel
    Value <- MCValue
    Arrivals <- MCArrivals
    Limits <- MCLimits
    Switches <- MCSwitches
SPECIFICATION PathSpec
INVARIANTS BuffersExclusive NoLateFlush ShardIsolated 
PROPERTIES Flushed NothingLeaks
CHECK_DEADLOCK FALSE
