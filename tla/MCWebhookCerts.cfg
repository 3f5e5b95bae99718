CONSTANTS
    Nil = Nil
    Partial = Partial
    m1 = m1
    m2 = m2
    m3 = m3
    g = g
    Manager <- MCManager
    Generator = {g}
    Groups <- MCGroups
    Awaited = {m3}
    Process <- MCProcess
    Stamp <- MCStamp
    Disturbance <- MCDisturbance
    MaxEvents <- MCEvents
    MaxRuns = 4
SPECIFICATION CertSpec
INVARIANTS DirWhole TrustKept
PROPERTIES  ControllersStart GeneratorEndsWell
CHECK_DEADLOCK FALSE
