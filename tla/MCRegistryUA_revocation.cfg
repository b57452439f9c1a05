CONSTANTS
    a1 = a1  a2 = a2
    i1 = i1  i2 = i2
    n1 = n1  n2 = n2
    c1 = c1  c2 = c2
    q1 = q1
    tr1 = tr1  tr2 = tr2
    pr1 = pr1  pr2 = pr2
    Zero = Zero
    ua = ua  ee = ee
    TREE_DEPTH = 2
    CHUNK = 2
    RATE = 2
    MAX_LEAF_SPKI = 5
    BYTE = 2
    KEY_COMMIT_DOMAIN = 7
    MAX_SA = 24
    MAX_LEAF_TBS = 24
    MAX_CERT = 28
    MAX_SERIAL = 3
    AGE_MAX_TBS = 120
    MAX_MD_OFFSET = 6
    SHA_BLOCK = 8
    SHA_TAIL = 2
    Accounts = {a1, a2}
    Identities = {i1, i2}
    Nullifiers = {n1, n2}
    ContextHashes = {c1, c2}
    PolicyHashes = {q1}
    Intermediates <- MCIntermediates
    TrustedRoots = {tr1, tr2}
    PolicyRoots = {pr1, pr2}
    TrustLeaves <- MCTrustLeaves
    PolicyLeaves <- MCPolicyLeaves
    Cutoffs <- MCCutoffs
    Proofs <- MCProofs
    AgeProofs <- MCAgeProofs
    MaxBindingAge = 1
    MaxNow = 2

SPECIFICATION Spec
SYMMETRY MCSymmetry

PROPERTY RevocationHolds
