CONSTANTS
    p1 = p1
    p2 = p2
    NoFile = NoFile
    Stale = Stale
    Installers <- MCOne
    Runs = 3
    Chunks = 2
SPECIFICATION Spec
INVARIANTS
    TypeOK
    FinalVerified
    InstalledIsVerified
    RenamesWhatItHashed
PROPERTIES
    FinalSteps
    InstallerEnds
CHECK_DEADLOCK FALSE
