SPECIFICATION Spec
CONSTANTS
    Breaker = {"b1"}
    Limiting = {"l1"}
    Seed = {"s1"}
    Config <- WindowConfig
    Lookup <- OneSeed
    Request = {r1}
    StateId = {st1, st2}
    MaxWindow = 1
    Options = {"UPDATE", "DELETE"}
    NoRule = NoRule
    NoConfig = NoConfig
    NoState = NoState
PROPERTIES
    WindowRecovers
