CONSTANTS
    r1 = r1
    r2 = r2
    r3 = r3
    NoRequest = NoRequest
    Requests <- MCRequests
    ValidWitness <- MCValidWitness
SPECIFICATION Spec
INVARIANTS
    TypeOK
    BusyMeansServing
    ChildrenAttended
PROPERTIES
    DirHandedToCleanup
    ServiceSpec
