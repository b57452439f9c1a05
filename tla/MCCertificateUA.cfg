CONSTANTS
    a1 = a1  a2 = a2
    i1 = i1  i2 = i2
    n1 = n1  n2 = n2  n3 = n3
    c = c  q = q  k = k  tr = tr  pr = pr
    Zero = Zero
    Accounts = {a1, a2}
    Identities = {i1, i2}
    Nullifiers = {n1, n2, n3}
    ContextHashes = {c}
    PolicyHashes = {q}
    Intermediates = {k}
    TrustedRoots = {tr}
    PolicyRoots = {pr}
    TrustLeaves <- MCTrustLeaves
    PolicyLeaves <- MCPolicyLeaves
    Cutoffs = {}
    Proofs <- MCProofs
    AgeProofs = {}
    MaxBindingAge = 2
    MaxNow = 2
    MintDeadline = 1

SPECIFICATION CertSpec
SYMMETRY MCSymmetry

INVARIANTS
    CertTypeOK
    OneCertificatePerIdentity
    CertificateNamesItsBinding
