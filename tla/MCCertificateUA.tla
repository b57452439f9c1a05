--------------------------- MODULE MCCertificateUA ---------------------------
(***************************************************************************)
(* Two identities, two accounts, three nullifiers, a clock of three        *)
(* ticks of which two are before the mint deadline.  Roots do not rotate   *)
(* and nobody proves an age: neither is read by the certificate contract.  *)
(***************************************************************************)
EXTENDS CertificateUA, TLC

CONSTANTS a1, a2, i1, i2, n1, n2, n3, c, q, k, tr, pr

MCTrustLeaves == tr :> {k}
MCPolicyLeaves == pr :> {q}

MCProofs ==
    {[identityFingerprint |-> id, bindingPk |-> a, rotationNewWallet |-> a,
      rotationMode |-> 0, nullifier |-> n, ctxHash |-> c, policyLeafHash |-> q,
      intSpki |-> k, timestamp |-> 0] :
        id \in {i1, i2}, a \in {a1, a2}, n \in {n1, n2, n3}}

MCSymmetry ==
    Permutations({a1, a2}) \cup Permutations({i1, i2}) \cup Permutations({n1, n2, n3})
=============================================================================
