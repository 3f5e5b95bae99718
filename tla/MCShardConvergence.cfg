CONSTANTS
    h1 = h1
    h2 = h2
    None = None
    Hash <- MCHash
    Pods = 3
    Replicas = 1
    MaxEnv = 3
    Faults = {"edit", "restart", "late", "api", "unready", "wipe", "elect"}
SPECIFICATION FairDelivery
PROPERTY Converges
CHECK_DEADLOCK FALSE
