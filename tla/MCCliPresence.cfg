CONSTANTS
    t1 = t1
    t2 = t2
    NoRequest = NoRequest
    Requests <- MCPages
    ValidWitness <- MCValidWitness
    Viewer = t1
    MaxProbes = 3
SPECIFICATION PresenceSpec
INVARIANTS
    PresenceTypeOK
    NotProvedTwice
    RefusedForAnother
    LatestShown
PROPERTIES
    RunsSettle
    DetectingSettles
