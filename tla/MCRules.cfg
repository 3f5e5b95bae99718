SPECIFICATION RuleSpec
CONSTANTS
    Breaker = {"b1", "b2"}
    Name = {"n1", "n2"}
    Content = {"u1", "u2", "re", "bad"}
    URL = {"u1", "u2"}
    Method = {"GET", "PUT"}
    AnyMethod = "*"
    Matched <- MatchedBy
    Invalid = {"bad"}
    Config <- AllConfigs
    Request = {r1}
    Options = {"UPDATE", "DELETE"}
    NoRule = NoRule
    NoConfig = NoConfig
    NoKey = NoKey
    NoState = NoState
    NoSeed = NoSeed
    StateId = {st1, st2, st3, st4}
    f1 = f1
    f2 = f2
    None = None
SYMMETRY Symmetric
INVARIANTS
    
    RightRuleDecides
    
PROPERTY
    FaultsAsConfigured
CHECK_DEADLOCK FALSE
