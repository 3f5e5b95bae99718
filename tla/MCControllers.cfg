SPECIFICATION ControllersSpec
CHECK_DEADLOCK FALSE
CONSTANTS
  b1 = b1
  p1 = p1
  l1 = l1
  l2 = l2
  h1 = h1
  h2 = h2
  NoSpec = NoSpec
  NoHash = NoHash
  NoTarget = NoTarget
  Label <- MCLabel
  Hash <- MCHash
  Breaker <- MCBreaker
  Pod <- MCPod
  BreakerSpec <- MCSpecs
  Env <- EnvAll
  MaxEnv = 3
INVARIANTS
  FinalizerProtects
PROPERTIES
  Converges
  
