SPECIFICATION Spec
CONSTANTS
    a1 = a1
    a2 = a2
    c1 = c1
    p1 = p1
    Admins <- MCAdmins
    Contributors <- MCContributors
    Circuits = {identity}
    Pages <- MCPages
    Beacons = {beacon}
    Finals = {final}
    TotalRounds = 1
    MaxRound = 2
    MaxPolls = 1
    Seed = seed
    None = None
SYMMETRY MCSymmetry
PROPERTIES
    ChainSpec
INVARIANTS
    TypeOK
    PublishedIsVerified
    CircuitsCountVerified
    SeenWasPublished
