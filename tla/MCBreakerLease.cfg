SPECIFICATION Spec
CONSTANTS
    Breaker = {"b1"}
    Limiting = {"l1"}
    Seed = {"s1"}
    Config <- EveryPolicy
    Lookup <- OneSeed
    Request = {r1, r2}
    StateId = {st1, st2}
    MaxWindow = 1
    Options = {"UPDATE", "DELETE", "RECOVER"}
    NoRule = NoRule
    NoConfig = NoConfig
    NoState = NoState
SYMMETRY Symmetric
INVARIANTS
    StoreConsistent
    OneTimerPerKey
    TimerNotLate
