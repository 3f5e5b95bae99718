CONSTANTS
    Nil = Nil
    p1 = p1
    p2 = p2
    Pods <- MCPods
    Asked <- MCAsked
    ConfigSets <- MCConfigSets
    SyncKeys <- MCSyncKeys
    MaxConfigEdits = 1
    n1 = n1
    n2 = n2
    o1 = o1
    o2 = o2
    o3 = o3
    Unset = Unset
    LabelValue = {"true", "false", "own", "other"}
    Namespace <- MCNamespace
    Objects <- MCObjects
    Place <- MCPlace
    Ignored = {n2}
    InitialLabels <- MCInitialLabels
    ResourceConfig <- MCResourceConfig
    Unparsed = {"a/b/c"}
    Served <- MCServed
    CacheSize = 1
    Worker = {w1, w2}
    MaxWrites = 1
    MaxFailures = 1
SPECIFICATION AdmissionSpec
INVARIANTS
    InjectedRight
    
PROPERTY LabellingEnds
CHECK_DEADLOCK FALSE
