CONSTANTS
    h1 = h1
    h2 = h2
    None = None
    Hash <- MCHash
    Pods = 2
    Replicas = 2
    MaxEnv = 2
    Faults = {"edit", "break", "crash", "relabel"}
SPECIFICATION DeliverySpec
INVARIANTS Whole AllSatisfied
PROPERTY RolloutSpec
CHECK_DEADLOCK FALSE
