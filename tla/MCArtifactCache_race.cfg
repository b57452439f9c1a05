CONSTANTS
    p1 = p1
    p2 = p2
    NoFile = NoFile
    Stale = Stale
    Installers <- MCTwo
    Runs = 1
    Chunks = 2
SPECIFICATION Spec
INVARIANT FinalVerified
CHECK_DEADLOCK FALSE
