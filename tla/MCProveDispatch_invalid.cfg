CONSTANTS
    t1 = t1
    t2 = t2
    t3 = t3
    NoRequest = NoRequest
    Requests <- MCPages
    ValidWitness <- MCValidWitness
SPECIFICATION DispatchSpec
INVARIANT InvalidNotRetried
