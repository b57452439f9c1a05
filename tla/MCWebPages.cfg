SPECIFICATION Spec
CONSTANTS
    w1 = w1
    w2 = w2
    i1 = i1
    i2 = i2
    c1 = c1
    c2 = c2
    None = None
    Provers = {1, 2}
    Calls = {1, 2}
    Wallets = {w1}
    Holders = {w1, w2}
    Identities = {i1, i2}
    Cutoffs = {c1, c2}
    DefaultCutoff = c1
    Files <- MCFiles
    CutoffChanges <- MCChanges
    MaxClicks = 2
    AgeProver = 1
    AgeCall = 1
    MaxMoves = 2
INVARIANTS
    TypeOK
    OffersAsProved
    AgeOfSameIdentity
    AccountSendsAsProved
    OwnedAreHeld
PROPERTIES
    EmptyReviewByOutsiders
    ProvesSettle
