CONSTANTS
    Nil = Nil
    Request <- Connections
    PoolSize = 1
    MaxChunks = 1
    MaxRequests = 3
    Label <- MCLabel
    Value <- MCValue
    Arrivals <- MCArrivals
    Limits <- LabelLimits
    Switches <- MCSwitches
SPECIFICATION PathSpec
INVARIANT ShardIsolated
CHECK_DEADLOCK FALSE
