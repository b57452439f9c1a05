----------------------------- MODULE RegistryUA -----------------------------
(***************************************************************************)
(* The identity registry contract, packages/contracts/src/                 *)
(* ZKQESRegistryUA.sol.  One action is one transaction: the EVM runs it    *)
(* without interleaving and a revert undoes it, so a call that fails a     *)
(* gate is a call the action's guard refuses.                              *)
(*                                                                         *)
(* A leaf proof is a public record: anyone who saw it in calldata can send *)
(* it again, as long as the gates let it through.  Proofs is the set of    *)
(* leaf proofs for which Gates 1, 2a, 2b and 3 accept (Groth16, the hash   *)
(* of the signed attributes, the two signatures): what the verifiers and   *)
(* the signature libraries accept is outside this module.  The hashes that *)
(* derive a binding id from a fingerprint, an address from the key limbs   *)
(* and a context from a binding and a cutoff are injective, so the         *)
(* fingerprint stands for the id, the account for the limbs and the pair   *)
(* for the context.                                                        *)
(***************************************************************************)
EXTENDS Naturals, FiniteSets

CONSTANTS
    Accounts,        \* addresses a transaction can come from
    Identities,      \* identity fingerprints, which are also the binding ids
    Nullifiers, ContextHashes, PolicyHashes,
    Intermediates,   \* commitments to intermediate CA keys
    TrustedRoots, PolicyRoots,
    TrustLeaves,     \* the intermediates under each trusted root
    PolicyLeaves,    \* the policies under each policy root
    Cutoffs,         \* YYYYMMDD values a caller may name
    Proofs,          \* leaf proofs the verifiers accept
    AgeProofs,       \* age proofs the age verifier accepts
    MaxBindingAge,   \* MAX_BINDING_AGE, in ticks
    MaxNow,          \* bound on the block clock
    Zero             \* the zero word: address(0), an empty storage slot

LeafProof ==
    [identityFingerprint : Identities, bindingPk : Accounts,
     rotationNewWallet : Accounts, rotationMode : {0, 1},
     nullifier : Nullifiers, ctxHash : ContextHashes,
     policyLeafHash : PolicyHashes, intSpki : Intermediates,
     timestamp : Nat]

AgeProof ==
    [ageQualified : {0, 1}, ageCutoffDate : Cutoffs,
     nullifierCtx : Identities \X Cutoffs]

ASSUME RegistryAssumption ==
    /\ Zero \notin Accounts \cup Nullifiers
    /\ Accounts # {} /\ TrustedRoots # {} /\ PolicyRoots # {}
    /\ TrustLeaves \in [TrustedRoots -> SUBSET Intermediates]
    /\ PolicyLeaves \in [PolicyRoots -> SUBSET PolicyHashes]
    /\ Cutoffs \subseteq Nat
    /\ Proofs \subseteq LeafProof
    /\ AgeProofs \subseteq AgeProof
    /\ MaxBindingAge \in Nat /\ MaxNow \in Nat

VARIABLES
    trustedRoot, policyRoot, admin,
    bindings,           \* id -> Binding; the zero binding is not registered
    usedNullifiers,
    ageProvenCutoffs,   \* id -> the cutoffs mapped to true
    now,                \* block.timestamp
    eventLog            \* what the emitted events say of each id

vars == <<trustedRoot, policyRoot, admin, bindings, usedNullifiers,
          ageProvenCutoffs, now, eventLog>>

Binding ==
    [pk : Accounts \cup {Zero}, ctxHash : ContextHashes \cup {Zero},
     policyLeafHash : PolicyHashes \cup {Zero}, timestamp : Nat,
     dobSupported : {0, 1}, revoked : BOOLEAN,
     nullifier : Nullifiers \cup {Zero}]

ZeroBinding ==
    [pk |-> Zero, ctxHash |-> Zero, policyLeafHash |-> Zero, timestamp |-> 0,
     dobSupported |-> 0, revoked |-> FALSE, nullifier |-> Zero]

Registered == {id \in Identities : bindings[id].pk # Zero}

\* An observer that folds the log: the holder named by the last
\* BindingRegistered or BindingRebound, the flag of the last BindingRevoke,
\* the cutoffs of every AgeProven.
Logged == [pk : Accounts \cup {Zero}, revoked : BOOLEAN, cutoffs : SUBSET Cutoffs]

TypeOK ==
    /\ trustedRoot \in TrustedRoots
    /\ policyRoot \in PolicyRoots
    /\ admin \in Accounts
    /\ bindings \in [Identities -> Binding]
    /\ usedNullifiers \subseteq Nullifiers
    /\ ageProvenCutoffs \in [Identities -> SUBSET Cutoffs]
    /\ now \in 0 .. MaxNow
    /\ eventLog \in [Identities -> Logged]

\* The constructor, which refuses a zero admin.
Init ==
    /\ trustedRoot \in TrustedRoots
    /\ policyRoot \in PolicyRoots
    /\ admin \in Accounts
    /\ bindings = [id \in Identities |-> ZeroBinding]
    /\ usedNullifiers = {}
    /\ ageProvenCutoffs = [id \in Identities |-> {}]
    /\ now = 0
    /\ eventLog = [id \in Identities |-> [pk |-> Zero, revoked |-> FALSE, cutoffs |-> {}]]

-----------------------------------------------------------------------------
(***************************************************************************)
(* Administration: each function has the onlyAdmin modifier.               *)
(***************************************************************************)

SetTrustedRoot(caller, newRoot) ==
    /\ caller = admin
    /\ trustedRoot' = newRoot
    /\ UNCHANGED <<policyRoot, admin, bindings, usedNullifiers, ageProvenCutoffs, now, eventLog>>

SetPolicyRoot(caller, newRoot) ==
    /\ caller = admin
    /\ policyRoot' = newRoot
    /\ UNCHANGED <<trustedRoot, admin, bindings, usedNullifiers, ageProvenCutoffs, now, eventLog>>

\* The flag is written whether or not the id is registered.
SetRevoked(caller, id, flag) ==
    /\ caller = admin
    /\ bindings' = [bindings EXCEPT ![id].revoked = flag]
    /\ eventLog' = [eventLog EXCEPT ![id].revoked = flag]
    /\ UNCHANGED <<trustedRoot, policyRoot, admin, usedNullifiers, ageProvenCutoffs, now>>

\* Variant: the zero-address check is missing.
TransferAdminUnchecked(caller, newAdmin) ==
    /\ caller = admin
    /\ admin' = newAdmin
    /\ UNCHANGED <<trustedRoot, policyRoot, bindings, usedNullifiers, ageProvenCutoffs, now, eventLog>>

TransferAdmin(caller, newAdmin) ==
    /\ caller = admin
    /\ newAdmin # Zero
    /\ admin' = newAdmin
    /\ UNCHANGED <<trustedRoot, policyRoot, bindings, usedNullifiers, ageProvenCutoffs, now, eventLog>>

-----------------------------------------------------------------------------
(***************************************************************************)
(* register                                                                *)
(***************************************************************************)

\* Gates 0 and 0a': register mode, and a proof made for the calling account.
WalletGate(caller, p) ==
    /\ p.rotationMode = 0
    /\ p.bindingPk = caller
    /\ p.rotationNewWallet = caller

\* Gates 0b, 4 and 5.  The caller took rTL and the two Merkle paths from
\* snapshots of the lists: they climb to the stored roots only if the
\* snapshots are the current ones and hold the leaves.
ListGate(p, trustSnapshot, policySnapshot) ==
    /\ trustSnapshot = trustedRoot
    /\ p.intSpki \in TrustLeaves[trustSnapshot]
    /\ policySnapshot = policyRoot
    /\ p.policyLeafHash \in PolicyLeaves[policySnapshot]

\* Variant: the window is not closed from below.
TimingGateWithoutStale(p) == p.timestamp <= now

\* Gate 6.
TimingGate(p) ==
    /\ p.timestamp <= now
    /\ now - p.timestamp <= MaxBindingAge

\* Variants of Gate 7: the checks that decide a first claim and a rebind.
WriteGateReusingNullifiers(p) ==
    LET b == bindings[p.identityFingerprint]
    IN  b.pk = Zero \/ ~b.revoked

WriteGateIgnoringRevoked(p) ==
    LET b == bindings[p.identityFingerprint]
    IN  b.pk # Zero \/ p.nullifier \notin usedNullifiers

\* Gate 7, the checks: an unused nullifier for a first claim, a binding that
\* is not revoked for a rebind.
WriteGate(p) ==
    LET b == bindings[p.identityFingerprint]
    IN  IF b.pk = Zero THEN p.nullifier \notin usedNullifiers ELSE ~b.revoked

\* Variant: a rebind takes the nullifier of the new proof.
BindingAfterTakingNullifier(caller, p) ==
    [pk |-> caller, ctxHash |-> p.ctxHash, policyLeafHash |-> p.policyLeafHash,
     timestamp |-> now, dobSupported |-> 1, revoked |-> FALSE, nullifier |-> p.nullifier]

\* Gate 7, the write: a first claim fills every field (and clears revoked), a
\* rebind refreshes the wallet, the context, the policy and the time.
BindingAfter(caller, p) ==
    LET b == bindings[p.identityFingerprint]
    IN  IF b.pk = Zero
        THEN [pk |-> caller, ctxHash |-> p.ctxHash, policyLeafHash |-> p.policyLeafHash,
              timestamp |-> now, dobSupported |-> 1, revoked |-> FALSE,
              nullifier |-> p.nullifier]
        ELSE [b EXCEPT !.pk = caller, !.ctxHash = p.ctxHash,
                       !.policyLeafHash = p.policyLeafHash, !.timestamp = now]

\* Only a first claim uses up its nullifier.
NullifiersAfter(p) ==
    IF bindings[p.identityFingerprint].pk = Zero
    THEN usedNullifiers \cup {p.nullifier}
    ELSE usedNullifiers

\* Variant: BindingRebound is emitted when the wallet did not change.
HolderLoggedWhenSame(caller, p) ==
    LET oldPk == bindings[p.identityFingerprint].pk
    IN  IF oldPk \in {Zero, caller} THEN caller ELSE eventLog[p.identityFingerprint].pk

\* The holder the log names after the call: BindingRegistered on a first
\* claim, BindingRebound on a rebind that changes the wallet, else no event.
HolderLogged(caller, p) ==
    LET oldPk == bindings[p.identityFingerprint].pk
    IN  IF oldPk # caller THEN caller ELSE eventLog[p.identityFingerprint].pk

\* _register up to its effects on ageProvenCutoffs and the AgeProven event.
RegisterCore(caller, p, trustSnapshot, policySnapshot) ==
    /\ WalletGate(caller, p)
    /\ ListGate(p, trustSnapshot, policySnapshot)
    /\ TimingGate(p)
    /\ WriteGate(p)
    /\ bindings' = [bindings EXCEPT ![p.identityFingerprint] = BindingAfter(caller, p)]
    /\ usedNullifiers' = NullifiersAfter(p)

Register(caller, p, trustSnapshot, policySnapshot) ==
    /\ RegisterCore(caller, p, trustSnapshot, policySnapshot)
    /\ eventLog' = [eventLog EXCEPT ![p.identityFingerprint].pk = HolderLogged(caller, p)]
    /\ UNCHANGED <<trustedRoot, policyRoot, admin, ageProvenCutoffs, now>>

-----------------------------------------------------------------------------
(***************************************************************************)
(* proveAge and registerWithAge                                            *)
(***************************************************************************)

\* The range the contract accepts for a birth date cutoff.
CutoffInRange(cutoff) == 19000101 <= cutoff /\ cutoff <= 99991231

\* Variant: the context of the proof is not recomputed.
AgeGateWithoutContext(b, id, cutoff, ap) ==
    /\ b.pk # Zero /\ ~b.revoked /\ b.dobSupported = 1
    /\ CutoffInRange(cutoff)
    /\ ap.ageQualified = 1
    /\ ap.ageCutoffDate = cutoff

\* Every check of _proveAge, on the binding b it read from storage.
AgeGate(b, id, cutoff, ap) ==
    /\ b.pk # Zero /\ ~b.revoked /\ b.dobSupported = 1
    /\ CutoffInRange(cutoff)
    /\ ap.ageQualified = 1
    /\ ap.ageCutoffDate = cutoff
    /\ ap.nullifierCtx = <<id, cutoff>>

AgeWrite(id, cutoff) ==
    ageProvenCutoffs' = [ageProvenCutoffs EXCEPT ![id] = @ \cup {cutoff}]

\* Anyone may send an age proof; the caller only shows in the event.
ProveAge(id, cutoff, ap) ==
    /\ AgeGate(bindings[id], id, cutoff, ap)
    /\ AgeWrite(id, cutoff)
    /\ eventLog' = [eventLog EXCEPT ![id].cutoffs = @ \cup {cutoff}]
    /\ UNCHANGED <<trustedRoot, policyRoot, admin, bindings, usedNullifiers, now>>

\* Both pipelines in one transaction: the age gates read the binding that
\* _register has just written, and any failing gate undoes both.
RegisterWithAge(caller, p, trustSnapshot, policySnapshot, cutoff, ap) ==
    LET id == p.identityFingerprint
    IN  /\ RegisterCore(caller, p, trustSnapshot, policySnapshot)
        /\ AgeGate(BindingAfter(caller, p), id, cutoff, ap)
        /\ AgeWrite(id, cutoff)
        /\ eventLog' = [eventLog EXCEPT ![id].pk = HolderLogged(caller, p),
                                        ![id].cutoffs = @ \cup {cutoff}]
        /\ UNCHANGED <<trustedRoot, policyRoot, admin, now>>

-----------------------------------------------------------------------------
\* Blocks are mined and time passes, up to the bound.
Tick ==
    /\ now < MaxNow
    /\ now' = now + 1
    /\ UNCHANGED <<trustedRoot, policyRoot, admin, bindings, usedNullifiers, ageProvenCutoffs, eventLog>>

Administer ==
    \E caller \in Accounts :
        \/ \E r \in TrustedRoots : SetTrustedRoot(caller, r)
        \/ \E r \in PolicyRoots : SetPolicyRoot(caller, r)
        \/ \E id \in Identities, flag \in BOOLEAN : SetRevoked(caller, id, flag)
        \/ \E a \in Accounts \cup {Zero} : TransferAdmin(caller, a)

Claimants ==
    \E caller \in Accounts, p \in Proofs, tr \in TrustedRoots, pr \in PolicyRoots :
        \/ Register(caller, p, tr, pr)
        \/ \E cutoff \in Cutoffs, ap \in AgeProofs : RegisterWithAge(caller, p, tr, pr, cutoff, ap)

Provers == \E id \in Identities, cutoff \in Cutoffs, ap \in AgeProofs : ProveAge(id, cutoff, ap)

Next == Administer \/ Claimants \/ Provers \/ Tick

Spec == Init /\ [][Next]_vars

-----------------------------------------------------------------------------
(***************************************************************************)
(* Properties                                                              *)
(***************************************************************************)

\* A nullifier is used up exactly when a registered binding carries it, and
\* no two bindings carry the same one, through any series of claims, rebinds
\* and failed calls (usedNullifiers, Gate 7 of _register).
NullifierLedger ==
    /\ usedNullifiers = {bindings[id].nullifier : id \in Registered}
    /\ \A id1, id2 \in Registered : bindings[id1].nullifier = bindings[id2].nullifier => id1 = id2

\* p is a proof that supports the binding b of id: made for its wallet, for
\* the values it stores, and young enough when the binding was written.
Supports(p, id, b) ==
    /\ p.identityFingerprint = id
    /\ p.rotationMode = 0
    /\ p.bindingPk = b.pk
    /\ p.ctxHash = b.ctxHash
    /\ p.policyLeafHash = b.policyLeafHash
    /\ p.timestamp <= b.timestamp
    /\ b.timestamp - p.timestamp <= MaxBindingAge

\* The wallet of a registered binding got there by a proof its identity made
\* for that wallet, at most MaxBindingAge before the write: sending an old
\* proof again after a rebind cannot move the binding once it has gone stale
\* (Gates 0a' and 6 of _register).
BoundByFreshProof ==
    \A id \in Registered :
        /\ bindings[id].timestamp <= now
        /\ \E p \in Proofs : Supports(p, id, bindings[id])

\* A proven cutoff belongs to a registered identity, lies in the accepted
\* range, and was shown by a proof made for this very identity and cutoff:
\* no proof counts for a binding it was not made for (_proveAge, also when it
\* runs inside registerWithAge).
AgeLedger ==
    \A id \in Identities : \A cutoff \in ageProvenCutoffs[id] :
        /\ id \in Registered
        /\ CutoffInRange(cutoff)
        /\ \E ap \in AgeProofs :
              ap.ageQualified = 1 /\ ap.ageCutoffDate = cutoff /\ ap.nullifierCtx = <<id, cutoff>>

\* Folding the emitted events gives the stored holders and cutoffs, so an
\* off-chain observer never disagrees with storage, although a rebind to the
\* same wallet emits nothing (BindingRegistered, BindingRebound, AgeProven).
EventLogMatches ==
    \A id \in Identities :
        /\ eventLog[id].pk = bindings[id].pk
        /\ eventLog[id].cutoffs = ageProvenCutoffs[id]

\* Once an identity is registered no call unregisters it, changes its
\* nullifier or withdraws a proven cutoff: rebinds keep what belongs to the
\* person and move only the wallet (rebind branch of _register).
PersonhoodPersists ==
    [][\A id \in Registered :
          /\ bindings'[id].pk # Zero
          /\ bindings'[id].nullifier = bindings[id].nullifier
          /\ ageProvenCutoffs[id] \subseteq ageProvenCutoffs'[id]]_vars

\* While a registered binding is revoked no call changes anything in it but
\* the flag, and no cutoff is added, by any of the three entry points
\* (BindingRevoked in _register and _proveAge).
RevokedIsFrozen ==
    [][\A id \in Registered :
          bindings[id].revoked =>
              /\ bindings'[id] = [bindings[id] EXCEPT !.revoked = bindings'[id].revoked]
              /\ ageProvenCutoffs'[id] = ageProvenCutoffs[id]]_vars

\* The registry implements the ledger of identities; a flag set before the
\* first claim freezes nothing.
Ledger ==
    INSTANCE IdentityLedger WITH
        Marks <- Nullifiers, Facts <- Cutoffs, Nobody <- Zero,
        holder <- [id \in Identities |-> bindings[id].pk],
        mark <- [id \in Identities |-> bindings[id].nullifier],
        frozen <- {id \in Registered : bindings[id].revoked},
        facts <- ageProvenCutoffs

LedgerSpec == Ledger!Spec

\* What the comment on setRevoked says: after the admin's last word on a
\* binding was a revocation, proveAge and rebind calls revert.
RevocationHolds ==
    [][\A id \in Identities :
          eventLog[id].revoked =>
              /\ ageProvenCutoffs'[id] = ageProvenCutoffs[id]
              /\ id \in Registered => bindings'[id].pk = bindings[id].pk]_vars
=============================================================================
