---------------------------- MODULE MCRegistryUA ----------------------------
(***************************************************************************)
(* A small registry: two identities, two accounts (either may be admin),   *)
(* two nullifiers, two trusted roots of which one drops an intermediate,   *)
(* proofs signed at 0 and 2 with a window of one tick.                     *)
(***************************************************************************)
EXTENDS RegistryUA, MCTrustedList, MCPresentation

CONSTANTS a1, a2, i1, i2, n1, n2, c1, c2, q1, tr1, tr2, pr1, pr2

\* The keys of two intermediates, and two flattener runs over their services.
k1 == <<1>>
k2 == <<1, 0>>
MCIntermediates == {k1, k2}

Granting(key) ==
    [territory |-> ua, caQc |-> TRUE, granted |-> TRUE, use |-> {}, nonRepudiation |-> TRUE,
     certs |-> <<key>>]

\* Gate 4: the keys that climb to the root with the path of the page.
Accepted(services) ==
    {k \in MCIntermediates : \E out \in Publishes(services, ua) :
        verify(commitSpki(k), TrustPath(out, k), Root(out.layers))}

BothGranted == Accepted(<<Granting(k1), Granting(k2)>>)
OneWithdrawn == Accepted(<<[Granting(k1) EXCEPT !.granted = FALSE], Granting(k2)>>)
MCTrustLeaves == (tr1 :> BothGranted) @@ (tr2 :> OneWithdrawn)

\* Gate 5: a tree of one policy, and an empty one.
AcceptedPolicies(leaves) == {q \in {q1} : verify(q, PolicyPath, Root(Layers(leaves)))}

OnePolicy == AcceptedPolicies(<<q1>>)
NoPolicy == AcceptedPolicies(<<>>)
MCPolicyLeaves == (pr1 :> OnePolicy) @@ (pr2 :> NoPolicy)

MCCutoffs == {20070101, 20080101, 18991231, 100000101}

\* Two persons, with a certificate each from k1 and from k2.  They sign a
\* binding for a1, and show their certificate of k1 with it, or for a2 with the
\* one of k2.
SerialNumber == (i1 :> <<ETSI, 2>>) @@ (i2 :> <<ETSI>>)
LeafKey == (i1 :> <<1, 1>>) @@ (i2 :> <<1, 0, 1>>)
Leaf(id) == Certificate(<<5>>, Serial(UTF8, SerialNumber[id]), LeafKey[id], <<>>)
IntermediateFor(a) == IF a = a1 THEN k1 ELSE k2
ContextFor(a) == IF a = a1 THEN c1 ELSE c2

BindingFor(a, t) ==
    [pk |-> a, context |-> ContextFor(a), policyLeafHash |-> q1, timestamp |-> t]

AttrsFor(a, t) == <<ContentType(2), MessageDigest(BindingFor(a, t))>>

Artifacts == [id : {i1, i2}, a : {a1}, t : {0, 2}] \cup [id : {i1, i2}, a : {a2}, t : {0}]

Signatures ==
    {<<IntermediateFor(f.a), Sha256(Tbs(Leaf(f.id)))>> : f \in Artifacts}
    \cup {<<LeafKey[f.id], Sha256(AttrsFor(f.a, f.t))>> : f \in Artifacts}

Built(f, secret, rotation) ==
    buildWitness(Leaf(f.id), IntermediateFor(f.a), AttrsFor(f.a, f.t), BindingFor(f.a, f.t),
                 secret, rotation)

\* The two share a wallet secret, and once had another.  Besides what the page
\* builds there are witnesses in rotation mode, and some with another target.
Rotation(id) ==
    <<[oldWalletSecret |-> 3, rotationNewWallet |-> a1,
       rotationOldCommitment |->
            Poseidon(<<SubjectPack(ZeroFilled(SerialNumber[id]), Len(SerialNumber[id])), Num(3)>>)]>>

MCWitnesses(f) ==
    Built(f, 2, <<>>)
    \cup IF f.a = a2 \/ f.t = 2 THEN {}
         ELSE Built(f, 2, Rotation(f.id))
              \cup {[w EXCEPT !.rotationNewWallet = a2] : w \in Built(f, 2, <<>>)}

NullifierName == (Poseidon(<<Num(2), c1>>) :> n1) @@ (Poseidon(<<Num(2), c2>>) :> n2)

\* The signals as the registry's module names them, with the key of the call.
LeafProofOf(s, intSpki) ==
    [identityFingerprint |->
        CHOOSE id \in {i1, i2} : computeIdentityFingerprint(SerialNumber[id]) = s.identityFingerprint,
     bindingPk |-> s.bindingPk, rotationNewWallet |-> s.rotationNewWallet,
     rotationMode |-> s.rotationMode, nullifier |-> NullifierName[s.nullifier],
     ctxHash |-> s.ctxHash.digestOf, policyLeafHash |-> s.policyLeafHash,
     intSpki |-> intSpki, timestamp |-> s.timestamp]

Candidates == UNION {{[artifacts |-> f, witness |-> w] : w \in MCWitnesses(f)} : f \in Artifacts}

PassesGates(c) ==
    LET f == c.artifacts
    IN  /\ Satisfies(c.witness)
        /\ ProofGates(Signatures, PublicSignals(c.witness),
                      [signedAttrs |-> AttrsFor(f.a, f.t), leafSpki |-> LeafKey[f.id],
                       intSpki |-> IntermediateFor(f.a)])

MCProofs ==
    {LeafProofOf(PublicSignals(c.witness), IntermediateFor(c.artifacts.a)) :
        c \in {d \in Candidates : PassesGates(d)}}

\* The age proofs of two persons, born before every cutoff and between two of
\* them; nobody made a proof for the context of 20080101, and a proof of that
\* cutoff carries the context of another.
Born(ymd) == Tbs(Certificate(<<5>>, <<>>, <<1>>, BirthDate(Digits(ymd), <<45, 49>>)))

MCAgeProofs ==
    {ap \in [ageQualified : {0, 1}, ageCutoffDate : MCCutoffs,
             nullifierCtx : {i1, i2} \X {20070101, 18991231, 100000101}] :
        \E ymd \in {18991231, 20071231} :
            ap \in AgeSignals(Born(ymd), ap.ageCutoffDate, ap.nullifierCtx)}

\* Identities are alike: every set above treats them so.
MCSymmetry == Permutations({i1, i2})
=============================================================================
