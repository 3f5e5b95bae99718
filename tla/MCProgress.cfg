CONSTANTS
    None = None
    p1 = p1
    p10 = p10
    q1 = q1
    q10 = q10
    Elector = {p1, p10, q1, q10}
    MaxCrash = 1
    ShardOf <- MCShardOf
    ResourceLock <- MCResourceLock
    A = A
    B = B
    Order <- MCOrder
    ConfigOf <- MCSmallConfigOf
    RollTypes <- MCRollTypes
    SamePrefix <- MCPrefix
    MaxRev = 3
    MaxLag = 2
    Disturbance = {"restart", "relist", "crash", "label"}
    MaxEvents = 2
    StateId = {st1, st2}
    NoRule = NoRule
    NoConfig = NoConfig
    NoState = NoState
    r1 = r1
    Nil = Nil
    Manager = {m1, m2}
    MaxTroubles = 2
    MaxEdits = 2
    RootSpecs <- MCRootSpecs
    Namespaces <- MCNamespaces
    All = 4
SPECIFICATION ProgressSpec
INVARIANTS  ShardsDisjoint
PROPERTIES  ShardsLed   ProxyFollows ShardsConverge
CHECK_DEADLOCK FALSE
