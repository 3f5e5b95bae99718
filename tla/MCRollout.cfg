CONSTANTS
    None = None
    p1 = p1
    p10 = p10
    q1 = q1
    A = A
    B = B
    Order <- MCOrder
    ConfigOf <- MCConfigOf
    RollTypes <- MCRollTypes
    SamePrefix <- MCPrefix
    MaxRev = 3
    MaxLag = 3
    Disturbance = {"edit", "label", "strategy", "restart", "relist", "crash", "api"}
    MaxEvents = 1
SPECIFICATION RolloutSpec
INVARIANT OneShardAtATime
   
CHECK_DEADLOCK FALSE
