-------------------------- MODULE RegistryUAProofs --------------------------
(***************************************************************************)
(* Theorems about the registry for any set of accounts, identities,        *)
(* nullifiers and proofs, any roots, any window and any clock bound, and   *)
(* about the certificate contract beside it, for any deadline.             *)
(***************************************************************************)
EXTENDS CertificateUA, TLAPS

-----------------------------------------------------------------------------
(***************************************************************************)
(* The registry                                                            *)
(***************************************************************************)

\* What one successful _register does to the binding it writes, and to the
\* set of used nullifiers: the facts the later proofs need of it.
LEMMA BindingAfterFacts ==
    ASSUME TypeOK, NEW caller \in Accounts, NEW p \in Proofs
    PROVE  LET id == p.identityFingerprint
               new == BindingAfter(caller, p)
           IN  /\ id \in Identities
               /\ p.nullifier \in Nullifiers
               /\ new \in Binding
               /\ new.pk = caller /\ caller # Zero
               /\ new.timestamp = now
               /\ new.ctxHash = p.ctxHash /\ new.policyLeafHash = p.policyLeafHash
               /\ bindings[id].pk = Zero => new.nullifier = p.nullifier
               /\ bindings[id].pk # Zero => new.nullifier = bindings[id].nullifier
               /\ bindings[id].pk # Zero => new.revoked = bindings[id].revoked
<1> DEFINE id == p.identityFingerprint
<1>1. p \in LeafProof /\ caller # Zero /\ now \in Nat
  BY RegistryAssumption DEF TypeOK
<1>2. id \in Identities /\ bindings[id] \in Binding
  BY <1>1 DEF TypeOK, LeafProof
<1>3. CASE bindings[id].pk = Zero
  BY <1>1, <1>2, <1>3 DEF BindingAfter, Binding, LeafProof
<1>4. CASE bindings[id].pk # Zero
  BY <1>1, <1>2, <1>4 DEF BindingAfter, Binding, LeafProof
<1> QED BY <1>2, <1>3, <1>4

\* Every transaction and every tick keeps each variable within its type.
THEOREM TypeCorrect == Spec => []TypeOK
<1>1. Init => TypeOK
  BY RegistryAssumption DEF Init, TypeOK, Binding, ZeroBinding, Logged
<1>2. TypeOK /\ [Next]_vars => TypeOK'
  <2> SUFFICES ASSUME TypeOK, [Next]_vars PROVE TypeOK'
    OBVIOUS
  <2> USE RegistryAssumption
  <2>1. ASSUME NEW caller \in Accounts, NEW r \in TrustedRoots, SetTrustedRoot(caller, r)
        PROVE  TypeOK'
    BY <2>1 DEF SetTrustedRoot, TypeOK
  <2>2. ASSUME NEW caller \in Accounts, NEW r \in PolicyRoots, SetPolicyRoot(caller, r)
        PROVE  TypeOK'
    BY <2>2 DEF SetPolicyRoot, TypeOK
  <2>3. ASSUME NEW caller \in Accounts, NEW id \in Identities, NEW flag \in BOOLEAN,
               SetRevoked(caller, id, flag)
        PROVE  TypeOK'
    <3>1. bindings' \in [Identities -> Binding]
      BY <2>3 DEF SetRevoked, TypeOK, Binding
    <3>2. eventLog' \in [Identities -> Logged]
      BY <2>3 DEF SetRevoked, TypeOK, Logged
    <3> QED BY <2>3, <3>1, <3>2 DEF SetRevoked, TypeOK
  <2>4. ASSUME NEW caller \in Accounts, NEW a \in Accounts \cup {Zero}, TransferAdmin(caller, a)
        PROVE  TypeOK'
    BY <2>4 DEF TransferAdmin, TypeOK
  <2>5. ASSUME NEW caller \in Accounts, NEW p \in Proofs, NEW tr, NEW pr,
               RegisterCore(caller, p, tr, pr)
        PROVE  bindings' \in [Identities -> Binding] /\ usedNullifiers' \subseteq Nullifiers
    BY <2>5, BindingAfterFacts DEF RegisterCore, NullifiersAfter, TypeOK
  <2>6. ASSUME NEW caller \in Accounts, NEW p \in Proofs
        PROVE  HolderLogged(caller, p) \in Accounts \cup {Zero}
    BY BindingAfterFacts DEF HolderLogged, TypeOK, Logged
  <2>7. ASSUME NEW caller \in Accounts, NEW p \in Proofs, NEW tr, NEW pr,
               Register(caller, p, tr, pr)
        PROVE  TypeOK'
    <3> DEFINE id == p.identityFingerprint
               new == [eventLog[id] EXCEPT !.pk = HolderLogged(caller, p)]
    <3>1. id \in Identities /\ eventLog[id] \in Logged
      BY BindingAfterFacts DEF TypeOK
    <3>2. new \in Logged
      BY <2>6, <3>1 DEF Logged
    <3>3. eventLog' = [eventLog EXCEPT ![id] = new]
      BY <2>7 DEF Register
    <3>4. eventLog' \in [Identities -> Logged]
      BY <3>1, <3>2, <3>3 DEF TypeOK
    <3> QED BY <2>5, <2>7, <3>4 DEF Register, TypeOK
  <2>8. ASSUME NEW id, NEW cutoff \in Cutoffs, AgeWrite(id, cutoff)
        PROVE  ageProvenCutoffs' \in [Identities -> SUBSET Cutoffs]
    BY <2>8 DEF AgeWrite, TypeOK
  <2>9. ASSUME NEW caller \in Accounts, NEW p \in Proofs, NEW tr, NEW pr,
               NEW cutoff \in Cutoffs, NEW ap \in AgeProofs,
               RegisterWithAge(caller, p, tr, pr, cutoff, ap)
        PROVE  TypeOK'
    <3> DEFINE id == p.identityFingerprint
               new == [eventLog[id] EXCEPT !.pk = HolderLogged(caller, p), !.cutoffs = @ \cup {cutoff}]
    <3>1. id \in Identities /\ eventLog[id] \in Logged
      BY BindingAfterFacts DEF TypeOK
    <3>2. new \in Logged
      BY <2>6, <3>1 DEF Logged
    <3>3. eventLog' = [eventLog EXCEPT ![id] = new]
      BY <2>9, <3>1 DEF RegisterWithAge, TypeOK, Logged
    <3>4. eventLog' \in [Identities -> Logged]
      BY <3>1, <3>2, <3>3 DEF TypeOK
    <3> QED BY <2>5, <2>8, <2>9, <3>4 DEF RegisterWithAge, TypeOK
  <2>10. ASSUME NEW id \in Identities, NEW cutoff \in Cutoffs, NEW ap \in AgeProofs,
                ProveAge(id, cutoff, ap)
         PROVE  TypeOK'
    <3>1. eventLog' \in [Identities -> Logged]
      BY <2>10 DEF ProveAge, TypeOK, Logged
    <3> QED BY <2>8, <2>10, <3>1 DEF ProveAge, TypeOK
  <2>11. CASE Tick
    BY <2>11 DEF Tick, TypeOK
  <2>12. CASE UNCHANGED vars
    BY <2>12 DEF vars, TypeOK
  <2> QED
    BY <2>1, <2>2, <2>3, <2>4, <2>7, <2>9, <2>10, <2>11, <2>12
    DEF Next, Administer, Claimants, Provers
<1> QED BY <1>1, <1>2, PTL DEF Spec

-----------------------------------------------------------------------------
(***************************************************************************)
(* The steps, sorted by what they can disturb: administration, ticks and   *)
(* stuttering only touch flags; a register call writes one binding; an age *)
(* proof adds one cutoff.                                                  *)
(***************************************************************************)

FlagsOnly ==
    /\ \A id \in Identities :
          /\ bindings'[id] = [bindings[id] EXCEPT !.revoked = bindings'[id].revoked]
          /\ eventLog'[id].pk = eventLog[id].pk
          /\ eventLog'[id].cutoffs = eventLog[id].cutoffs
    /\ UNCHANGED <<usedNullifiers, ageProvenCutoffs>>
    /\ now' \in {now, now + 1}

Claiming == \E caller \in Accounts, p \in Proofs, tr \in TrustedRoots, pr \in PolicyRoots :
                RegisterCore(caller, p, tr, pr)

\* Administration, ticks and stuttering steps change nothing but flags and
\* the clock.
LEMMA QuietSteps ==
    ASSUME TypeOK, Administer \/ Tick \/ UNCHANGED vars
    PROVE  FlagsOnly
<1>1. \A id \in Identities : /\ bindings[id] = [bindings[id] EXCEPT !.revoked = bindings[id].revoked]
                            /\ bindings[id] \in Binding
  BY DEF TypeOK, Binding
<1>2. CASE Tick
  BY <1>1, <1>2 DEF Tick, FlagsOnly
<1>3. CASE UNCHANGED vars
  BY <1>1, <1>3 DEF vars, FlagsOnly
<1>4. ASSUME NEW caller \in Accounts, NEW id \in Identities, NEW flag \in BOOLEAN,
             SetRevoked(caller, id, flag)
      PROVE  FlagsOnly
  <2>1. \A x \in Identities : bindings'[x] = [bindings[x] EXCEPT !.revoked = bindings'[x].revoked]
    BY <1>1, <1>4 DEF SetRevoked, TypeOK, Binding
  <2>2. \A x \in Identities : eventLog'[x].pk = eventLog[x].pk /\ eventLog'[x].cutoffs = eventLog[x].cutoffs
    BY <1>4 DEF SetRevoked, TypeOK, Logged
  <2> QED BY <1>4, <2>1, <2>2 DEF SetRevoked, FlagsOnly
<1>5. CASE Administer
  BY <1>1, <1>4, <1>5 DEF Administer, SetTrustedRoot, SetPolicyRoot, TransferAdmin, FlagsOnly
<1> QED BY <1>2, <1>3, <1>5

\* What a flags-only step keeps: who is registered, and every field that the
\* invariants read.
LEMMA QuietFacts ==
    ASSUME TypeOK, FlagsOnly
    PROVE  /\ Registered' = Registered
           /\ \A id \in Identities :
                 /\ bindings'[id].pk = bindings[id].pk
                 /\ bindings'[id].nullifier = bindings[id].nullifier
                 /\ bindings'[id].ctxHash = bindings[id].ctxHash
                 /\ bindings'[id].policyLeafHash = bindings[id].policyLeafHash
                 /\ bindings'[id].timestamp = bindings[id].timestamp
<1>1. \A id \in Identities : bindings[id] \in Binding
  BY DEF TypeOK
<1>2. \A id \in Identities :
         /\ bindings'[id].pk = bindings[id].pk
         /\ bindings'[id].nullifier = bindings[id].nullifier
         /\ bindings'[id].ctxHash = bindings[id].ctxHash
         /\ bindings'[id].policyLeafHash = bindings[id].policyLeafHash
         /\ bindings'[id].timestamp = bindings[id].timestamp
  BY <1>1 DEF FlagsOnly, Binding
<1> QED BY <1>2 DEF Registered

\* A register call writes the binding of its proof and no other.
LEMMA ClaimFacts ==
    ASSUME TypeOK, NEW caller \in Accounts, NEW p \in Proofs, NEW tr, NEW pr,
           RegisterCore(caller, p, tr, pr)
    PROVE  /\ bindings'[p.identityFingerprint] = BindingAfter(caller, p)
           /\ \A id \in Identities \ {p.identityFingerprint} : bindings'[id] = bindings[id]
           /\ Registered' = Registered \cup {p.identityFingerprint}
<1>1. /\ bindings'[p.identityFingerprint] = BindingAfter(caller, p)
      /\ \A id \in Identities \ {p.identityFingerprint} : bindings'[id] = bindings[id]
  BY BindingAfterFacts DEF RegisterCore, TypeOK
<1> QED BY <1>1, BindingAfterFacts DEF Registered

\* Either entry point runs _register, and adds at most one cutoff to the
\* identity it wrote.
LEMMA ClaimantsFacts ==
    ASSUME Claimants
    PROVE  \E caller \in Accounts, p \in Proofs, tr \in TrustedRoots, pr \in PolicyRoots :
              /\ RegisterCore(caller, p, tr, pr) /\ now' = now
              /\ \/ UNCHANGED ageProvenCutoffs
                 \/ \E cutoff \in Cutoffs : AgeWrite(p.identityFingerprint, cutoff)
<1>1. ASSUME NEW caller, NEW p, NEW tr, NEW pr, Register(caller, p, tr, pr)
      PROVE  RegisterCore(caller, p, tr, pr) /\ now' = now /\ UNCHANGED ageProvenCutoffs
  BY <1>1, Zenon DEF Register
<1>2. ASSUME NEW caller, NEW p, NEW tr, NEW pr, NEW cutoff, NEW ap,
             RegisterWithAge(caller, p, tr, pr, cutoff, ap)
      PROVE  /\ RegisterCore(caller, p, tr, pr) /\ now' = now
             /\ AgeWrite(p.identityFingerprint, cutoff)
  BY <1>2, Zenon DEF RegisterWithAge
<1> QED BY <1>1, <1>2 DEF Claimants

\* Every step is of one of the three kinds.
LEMMA StepKinds ==
    ASSUME TypeOK, [Next]_vars
    PROVE  \/ FlagsOnly
           \/ Claiming
           \/ Provers
<1>1. Claimants => Claiming
  BY ClaimantsFacts DEF Claiming
<1> QED BY <1>1, QuietSteps DEF Next

-----------------------------------------------------------------------------
\* The accounting of nullifiers is an invariant: the first-claim gate and
\* the write-once rule together keep it, for any proofs anyone may send.
THEOREM NullifiersAccounted == Spec => []NullifierLedger
<1>1. Init => NullifierLedger
  BY DEF Init, NullifierLedger, Registered, ZeroBinding
<1>2. TypeOK /\ NullifierLedger /\ [Next]_vars => NullifierLedger'
  <2> SUFFICES ASSUME TypeOK, NullifierLedger, [Next]_vars PROVE NullifierLedger'
    OBVIOUS
  <2>1. CASE FlagsOnly
    <3>1. /\ Registered' = Registered /\ Registered \subseteq Identities
          /\ usedNullifiers' = usedNullifiers
          /\ \A id \in Identities : bindings'[id].nullifier = bindings[id].nullifier
      BY <2>1, QuietFacts DEF FlagsOnly, Registered
    <3> QED BY <3>1 DEF NullifierLedger
  <2>2. ASSUME NEW caller \in Accounts, NEW p \in Proofs, NEW tr, NEW pr,
               RegisterCore(caller, p, tr, pr)
        PROVE  NullifierLedger'
    <3> DEFINE id == p.identityFingerprint
    <3>1. /\ Registered' = Registered \cup {id}
          /\ bindings'[id] = BindingAfter(caller, p)
          /\ \A x \in Registered \ {id} : bindings'[x] = bindings[x]
      BY <2>2, ClaimFacts DEF Registered
    <3>2. CASE bindings[id].pk = Zero
      <4>1. id \notin Registered
        BY <3>2 DEF Registered
      <4>2. bindings'[id].nullifier = p.nullifier /\ p.nullifier \notin usedNullifiers
        BY <2>2, <3>1, <3>2, BindingAfterFacts DEF RegisterCore, WriteGate
      <4>3. usedNullifiers' = usedNullifiers \cup {p.nullifier}
        BY <2>2, <3>2 DEF RegisterCore, NullifiersAfter
      <4> QED BY <3>1, <4>1, <4>2, <4>3 DEF NullifierLedger
    <3>3. CASE bindings[id].pk # Zero
      <4>1. id \in Registered /\ bindings'[id].nullifier = bindings[id].nullifier
        BY <3>1, <3>3, BindingAfterFacts DEF Registered
      <4>2. usedNullifiers' = usedNullifiers
        BY <2>2, <3>3 DEF RegisterCore, NullifiersAfter
      <4> QED BY <3>1, <4>1, <4>2 DEF NullifierLedger
    <3> QED BY <3>2, <3>3
  <2>3. CASE Provers
    BY <2>3 DEF Provers, ProveAge, NullifierLedger, Registered
  <2> QED BY <2>1, <2>2, <2>3, StepKinds DEF Claiming
<1> QED BY <1>1, <1>2, TypeCorrect, PTL DEF Spec

\* No binding is supported only by a proof that was stale when it was written.
THEOREM BindingsFresh == Spec => []BoundByFreshProof
<1>1. Init => BoundByFreshProof
  BY DEF Init, BoundByFreshProof, Registered, ZeroBinding
<1>2. TypeOK /\ BoundByFreshProof /\ [Next]_vars => BoundByFreshProof'
  <2> SUFFICES ASSUME TypeOK, BoundByFreshProof, [Next]_vars PROVE BoundByFreshProof'
    OBVIOUS
  <2> USE RegistryAssumption
  <2>1. CASE FlagsOnly
    <3> SUFFICES ASSUME NEW id \in Registered'
                 PROVE  /\ bindings'[id].timestamp <= now'
                        /\ \E p \in Proofs : Supports(p, id, bindings'[id])
      BY DEF BoundByFreshProof
    <3>1. id \in Registered /\ id \in Identities /\ bindings[id] \in Binding
      BY <2>1, QuietFacts DEF Registered, TypeOK
    <3>2. bindings'[id].timestamp = bindings[id].timestamp /\ bindings[id].timestamp \in Nat
      BY <2>1, <3>1, QuietFacts DEF Binding
    <3>3. now' \in {now, now + 1} /\ now \in Nat
      BY <2>1 DEF FlagsOnly, TypeOK
    <3>4. bindings'[id].timestamp <= now'
      BY <3>1, <3>2, <3>3 DEF BoundByFreshProof
    <3>5. PICK p \in Proofs : Supports(p, id, bindings[id])
      BY <3>1 DEF BoundByFreshProof
    <3>6. Supports(p, id, bindings'[id])
      BY <2>1, <3>1, <3>5, QuietFacts DEF Supports
    <3> QED BY <3>4, <3>6
  <2>2. ASSUME NEW caller \in Accounts, NEW p \in Proofs, NEW tr, NEW pr,
               RegisterCore(caller, p, tr, pr), now' = now
        PROVE  BoundByFreshProof'
    <3> DEFINE id == p.identityFingerprint
    <3>1. /\ Registered' = Registered \cup {id}
          /\ bindings'[id] = BindingAfter(caller, p)
          /\ \A x \in Registered \ {id} : bindings'[x] = bindings[x]
      BY <2>2, ClaimFacts DEF Registered
    <3>2. Supports(p, id, bindings'[id])
      BY <2>2, <3>1, BindingAfterFacts DEF Supports, RegisterCore, WalletGate, TimingGate
    <3>3. bindings'[id].timestamp <= now'
      BY <2>2, <3>1, BindingAfterFacts DEF TypeOK
    <3> QED BY <2>2, <3>1, <3>2, <3>3 DEF BoundByFreshProof
  <2>3. CASE Claimants
    BY <2>2, <2>3, ClaimantsFacts
  <2>4. CASE Provers
    BY <2>4 DEF Provers, ProveAge, BoundByFreshProof, Registered
  <2> QED BY <2>1, <2>3, <2>4, QuietSteps DEF Next
<1> QED BY <1>1, <1>2, TypeCorrect, PTL DEF Spec

\* What AgeLedger asks of one cutoff.
Earned(id, cutoff) ==
    /\ CutoffInRange(cutoff)
    /\ \E ap \in AgeProofs :
          ap.ageQualified = 1 /\ ap.ageCutoffDate = cutoff /\ ap.nullifierCtx = <<id, cutoff>>

\* The age ledger survives a step that registers at most one identity and
\* adds to its cutoffs one that was earned.
LEMMA EarnedLedger ==
    ASSUME AgeLedger, NEW id \in Identities, NEW cutoff, Earned(id, cutoff),
           Registered' = Registered \cup {id},
           ageProvenCutoffs'[id] = ageProvenCutoffs[id] \cup {cutoff},
           \A x \in Identities \ {id} : ageProvenCutoffs'[x] = ageProvenCutoffs[x]
    PROVE  AgeLedger'
<1>1. AgeLedger <=> \A x \in Identities : \A c \in ageProvenCutoffs[x] : x \in Registered /\ Earned(x, c)
  BY DEF AgeLedger, Earned
<1>2. AgeLedger' <=> \A x \in Identities : \A c \in ageProvenCutoffs'[x] : x \in Registered' /\ Earned(x, c)
  BY DEF AgeLedger, Earned
<1> QED BY <1>1, <1>2

\* A cutoff is only ever added for a binding that exists, within the range
\* and by a proof made for it, and registration is never undone.
THEOREM AgesEarned == Spec => []AgeLedger
<1>1. Init => AgeLedger
  BY DEF Init, AgeLedger
<1>2. TypeOK /\ AgeLedger /\ [Next]_vars => AgeLedger'
  <2> SUFFICES ASSUME TypeOK, AgeLedger, [Next]_vars PROVE AgeLedger'
    OBVIOUS
  <2>1. CASE FlagsOnly
    BY <2>1, QuietFacts DEF FlagsOnly, AgeLedger
  <2>2. ASSUME NEW caller \in Accounts, NEW p \in Proofs, NEW tr, NEW pr,
               Register(caller, p, tr, pr)
        PROVE  AgeLedger'
    BY <2>2, ClaimFacts DEF Register, AgeLedger
  <2>3. ASSUME NEW caller \in Accounts, NEW p \in Proofs, NEW tr, NEW pr,
               NEW cutoff \in Cutoffs, NEW ap \in AgeProofs,
               RegisterWithAge(caller, p, tr, pr, cutoff, ap)
        PROVE  AgeLedger'
    <3> DEFINE id == p.identityFingerprint
    <3>1. /\ Registered' = Registered \cup {id} /\ id \in Identities
          /\ ageProvenCutoffs'[id] = ageProvenCutoffs[id] \cup {cutoff}
          /\ \A x \in Identities \ {id} : ageProvenCutoffs'[x] = ageProvenCutoffs[x]
      BY <2>3, ClaimFacts, BindingAfterFacts DEF RegisterWithAge, AgeWrite, TypeOK
    <3>2. Earned(id, cutoff)
      BY <2>3 DEF RegisterWithAge, AgeGate, Earned
    <3> QED BY <3>1, <3>2, EarnedLedger
  <2>4. ASSUME NEW id \in Identities, NEW cutoff \in Cutoffs, NEW ap \in AgeProofs,
               ProveAge(id, cutoff, ap)
        PROVE  AgeLedger'
    <3>1. /\ Registered' = Registered \cup {id}
          /\ ageProvenCutoffs'[id] = ageProvenCutoffs[id] \cup {cutoff}
          /\ \A x \in Identities \ {id} : ageProvenCutoffs'[x] = ageProvenCutoffs[x]
      BY <2>4 DEF ProveAge, AgeGate, AgeWrite, Registered, TypeOK
    <3>2. Earned(id, cutoff)
      BY <2>4 DEF ProveAge, AgeGate, Earned
    <3> QED BY <3>1, <3>2, EarnedLedger DEF TypeOK
  <2> QED BY <2>1, <2>2, <2>3, <2>4, QuietSteps DEF Next, Claimants, Provers
<1> QED BY <1>1, <1>2, TypeCorrect, PTL DEF Spec

\* The emitted events determine the stored holders and cutoffs.
THEOREM EventsComplete == Spec => []EventLogMatches
<1>1. Init => EventLogMatches
  BY DEF Init, EventLogMatches, ZeroBinding
<1>2. TypeOK /\ EventLogMatches /\ [Next]_vars => EventLogMatches'
  <2> SUFFICES ASSUME TypeOK, EventLogMatches, [Next]_vars PROVE EventLogMatches'
    OBVIOUS
  <2>1. CASE FlagsOnly
    BY <2>1, QuietFacts DEF FlagsOnly, EventLogMatches
  <2>2. ASSUME NEW caller \in Accounts, NEW p \in Proofs
        PROVE  HolderLogged(caller, p) = caller
    BY BindingAfterFacts DEF HolderLogged, EventLogMatches
  <2>3. ASSUME NEW caller \in Accounts, NEW p \in Proofs, NEW tr, NEW pr,
               Register(caller, p, tr, pr)
        PROVE  EventLogMatches'
    <3> DEFINE id == p.identityFingerprint
    <3>1. /\ bindings'[id].pk = caller /\ id \in Identities
          /\ \A x \in Identities \ {id} : bindings'[x] = bindings[x]
      BY <2>3, ClaimFacts, BindingAfterFacts DEF Register
    <3>2. /\ eventLog'[id].pk = caller
          /\ \A x \in Identities : eventLog'[x].cutoffs = eventLog[x].cutoffs
          /\ \A x \in Identities \ {id} : eventLog'[x] = eventLog[x]
      BY <2>2, <2>3, <3>1 DEF Register, TypeOK, Logged
    <3> QED BY <2>3, <3>1, <3>2 DEF Register, EventLogMatches
  <2>4. ASSUME NEW caller \in Accounts, NEW p \in Proofs, NEW tr, NEW pr,
               NEW cutoff \in Cutoffs, NEW ap \in AgeProofs,
               RegisterWithAge(caller, p, tr, pr, cutoff, ap)
        PROVE  EventLogMatches'
    <3> DEFINE id == p.identityFingerprint
    <3>1. /\ bindings'[id].pk = caller /\ id \in Identities
          /\ \A x \in Identities \ {id} : bindings'[x] = bindings[x]
      BY <2>4, ClaimFacts, BindingAfterFacts DEF RegisterWithAge
    <3>2. /\ eventLog'[id].pk = caller
          /\ eventLog'[id].cutoffs = eventLog[id].cutoffs \cup {cutoff}
          /\ \A x \in Identities \ {id} : eventLog'[x] = eventLog[x]
      BY <2>2, <2>4, <3>1 DEF RegisterWithAge, TypeOK, Logged
    <3>3. ageProvenCutoffs' = [ageProvenCutoffs EXCEPT ![id] = @ \cup {cutoff}]
      BY <2>4 DEF RegisterWithAge, AgeWrite
    <3> QED BY <3>1, <3>2, <3>3 DEF EventLogMatches, TypeOK
  <2>5. ASSUME NEW id \in Identities, NEW cutoff \in Cutoffs, NEW ap \in AgeProofs,
               ProveAge(id, cutoff, ap)
        PROVE  EventLogMatches'
    <3>1. /\ eventLog'[id].pk = eventLog[id].pk
          /\ eventLog'[id].cutoffs = eventLog[id].cutoffs \cup {cutoff}
          /\ \A x \in Identities \ {id} : eventLog'[x] = eventLog[x]
      BY <2>5 DEF ProveAge, TypeOK, Logged
    <3> QED BY <2>5, <3>1 DEF ProveAge, AgeWrite, EventLogMatches, TypeOK
  <2> QED BY <2>1, <2>3, <2>4, <2>5, QuietSteps DEF Next, Claimants, Provers
<1> QED BY <1>1, <1>2, TypeCorrect, PTL DEF Spec

-----------------------------------------------------------------------------
\* No step takes away what belongs to the person.
LEMMA PersonhoodStep ==
    ASSUME TypeOK, [Next]_vars, NEW id \in Registered
    PROVE  /\ bindings'[id].pk # Zero
           /\ bindings'[id].nullifier = bindings[id].nullifier
           /\ ageProvenCutoffs[id] \subseteq ageProvenCutoffs'[id]
<1>1. id \in Identities /\ bindings[id].pk # Zero
  BY DEF Registered
<1>2. CASE FlagsOnly
  BY <1>1, <1>2, QuietFacts DEF FlagsOnly
<1>3. ASSUME NEW caller \in Accounts, NEW p \in Proofs, NEW tr, NEW pr,
             RegisterCore(caller, p, tr, pr)
      PROVE  bindings'[id].pk # Zero /\ bindings'[id].nullifier = bindings[id].nullifier
  BY <1>1, <1>3, ClaimFacts, BindingAfterFacts
<1>4. ASSUME NEW x, NEW cutoff, AgeWrite(x, cutoff)
      PROVE  ageProvenCutoffs[id] \subseteq ageProvenCutoffs'[id]
  BY <1>1, <1>4 DEF AgeWrite, TypeOK
<1>5. CASE Claimants
  BY <1>1, <1>3, <1>4, <1>5, ClaimantsFacts
<1>6. CASE Provers
  BY <1>1, <1>4, <1>6 DEF Provers, ProveAge
<1> QED BY <1>2, <1>5, <1>6, QuietSteps DEF Next

\* Registration, nullifier and proven cutoffs outlive every later call.
THEOREM PersonhoodKept == Spec => PersonhoodPersists
<1>1. TypeOK /\ [Next]_vars =>
        [\A id \in Registered :
            /\ bindings'[id].pk # Zero
            /\ bindings'[id].nullifier = bindings[id].nullifier
            /\ ageProvenCutoffs[id] \subseteq ageProvenCutoffs'[id]]_vars
  BY PersonhoodStep
<1> QED BY <1>1, TypeCorrect, PTL DEF Spec, PersonhoodPersists

\* No step changes a revoked binding, or adds to what is known of it.
THEOREM RevokedKept == Spec => RevokedIsFrozen
<1>1. TypeOK /\ [Next]_vars =>
        [\A id \in Registered :
            bindings[id].revoked =>
                /\ bindings'[id] = [bindings[id] EXCEPT !.revoked = bindings'[id].revoked]
                /\ ageProvenCutoffs'[id] = ageProvenCutoffs[id]]_vars
  <2> SUFFICES ASSUME TypeOK, [Next]_vars, NEW id \in Registered, bindings[id].revoked
               PROVE  /\ bindings'[id] = [bindings[id] EXCEPT !.revoked = bindings'[id].revoked]
                      /\ ageProvenCutoffs'[id] = ageProvenCutoffs[id]
    OBVIOUS
  <2>1. /\ id \in Identities /\ bindings[id].pk # Zero
        /\ bindings[id] = [bindings[id] EXCEPT !.revoked = bindings[id].revoked]
    BY DEF Registered, TypeOK, Binding
  <2>2. CASE FlagsOnly
    BY <2>1, <2>2 DEF FlagsOnly
  <2>3. ASSUME NEW caller \in Accounts, NEW p \in Proofs, NEW tr, NEW pr,
               RegisterCore(caller, p, tr, pr)
        PROVE  bindings'[id] = bindings[id] /\ p.identityFingerprint # id
    <3>1. p.identityFingerprint # id
      BY <2>1, <2>3 DEF RegisterCore, WriteGate
    <3> QED BY <2>1, <2>3, <3>1, ClaimFacts
  <2>4. ASSUME NEW x, NEW cutoff, AgeWrite(x, cutoff), x # id
        PROVE  ageProvenCutoffs'[id] = ageProvenCutoffs[id]
    BY <2>1, <2>4 DEF AgeWrite, TypeOK
  <2>5. ASSUME Claimants
        PROVE  bindings'[id] = bindings[id] /\ ageProvenCutoffs'[id] = ageProvenCutoffs[id]
    BY <2>1, <2>3, <2>4, <2>5, ClaimantsFacts
  <2>6. ASSUME Provers
        PROVE  bindings'[id] = bindings[id] /\ ageProvenCutoffs'[id] = ageProvenCutoffs[id]
    BY <2>4, <2>6 DEF Provers, ProveAge, AgeGate
  <2> QED BY <2>1, <2>2, <2>5, <2>6, QuietSteps DEF Next
<1> QED BY <1>1, TypeCorrect, PTL DEF Spec, RevokedIsFrozen

-----------------------------------------------------------------------------
\* The registry implements the ledger of identities: a first claim is a
\* Claim, every other register and proveAge call is a Move, a change of the
\* flag of a registered binding a Freeze or a Thaw, and all else stutters.
THEOREM ImplementsLedger == Spec => LedgerSpec
<1> DEFINE Hold == [x \in Identities |-> bindings[x].pk]
           Mark == [x \in Identities |-> bindings[x].nullifier]
           Frozen == {x \in Registered : bindings[x].revoked}
<1>1. Init => Ledger!Init
  BY DEF Init, Ledger!Init, Registered, ZeroBinding
<1>2. TypeOK /\ NullifierLedger /\ [Next]_vars => [Ledger!Next]_(Ledger!vars)
  <2> SUFFICES ASSUME TypeOK, NullifierLedger, [Next]_vars
               PROVE  Ledger!Next \/ UNCHANGED Ledger!vars
    OBVIOUS
  <2>1. Ledger!Claimed = Registered
    BY DEF Ledger!Claimed, Registered
  <2>2. CASE ~ Administer /\ (Tick \/ UNCHANGED vars)
    BY <2>2 DEF Tick, vars, Ledger!vars, Registered
  <2>3. ASSUME NEW caller \in Accounts, NEW id \in Identities, NEW flag \in BOOLEAN,
               SetRevoked(caller, id, flag)
        PROVE  Ledger!Next \/ UNCHANGED Ledger!vars
    <3>1. /\ bindings[id] \in Binding
          /\ bindings'[id] = [bindings[id] EXCEPT !.revoked = flag]
          /\ \A x \in Identities \ {id} : bindings'[x] = bindings[x]
      BY <2>3 DEF SetRevoked, TypeOK
    <3>2. \A x \in Identities : /\ bindings'[x].pk = bindings[x].pk
                               /\ bindings'[x].nullifier = bindings[x].nullifier
      BY <3>1 DEF Binding
    <3>3. Hold' = Hold /\ Mark' = Mark /\ Registered' = Registered
      BY <3>2 DEF Registered
    <3>4. ageProvenCutoffs' = ageProvenCutoffs
      BY <2>3 DEF SetRevoked
    <3>5. bindings'[id].revoked = flag
      BY <3>1 DEF Binding
    <3>6. CASE id \notin Registered
      <4>1. Frozen' = Frozen
        BY <3>1, <3>3, <3>6 DEF Registered
      <4> QED BY <3>3, <3>4, <4>1 DEF Ledger!vars
    <3>7. CASE id \in Registered /\ flag
      <4>1. Frozen' = Frozen \cup {id}
        BY <3>1, <3>3, <3>5, <3>7 DEF Registered
      <4>2. Ledger!Freeze(id)
        BY <2>1, <3>3, <3>4, <3>7, <4>1 DEF Ledger!Freeze
      <4> QED BY <4>2 DEF Ledger!Next
    <3>8. CASE id \in Registered /\ ~flag
      <4>1. Frozen' = Frozen \ {id}
        BY <3>1, <3>3, <3>5, <3>8 DEF Registered
      <4>2. Ledger!Thaw(id)
        BY <3>3, <3>4, <4>1 DEF Ledger!Thaw
      <4> QED BY <4>2 DEF Ledger!Next
    <3> QED BY <3>6, <3>7, <3>8
  <2>4. CASE Administer
    <3>1. ASSUME UNCHANGED <<bindings, ageProvenCutoffs>>
          PROVE  UNCHANGED Ledger!vars
      BY <3>1 DEF Ledger!vars, Registered
    <3> QED BY <2>3, <2>4, <3>1 DEF Administer, SetTrustedRoot, SetPolicyRoot, TransferAdmin
  <2>5. ASSUME NEW caller \in Accounts, NEW p \in Proofs, NEW tr, NEW pr,
               RegisterCore(caller, p, tr, pr),
               NEW F \in Ledger!AtMostOneFact,
               ageProvenCutoffs' = [ageProvenCutoffs EXCEPT ![p.identityFingerprint] = @ \cup F]
        PROVE  Ledger!Next
    <3> DEFINE id == p.identityFingerprint
    <3>1. /\ id \in Identities
          /\ bindings'[id] = BindingAfter(caller, p)
          /\ \A x \in Identities \ {id} : bindings'[x] = bindings[x]
          /\ Registered' = Registered \cup {id}
      BY <2>5, ClaimFacts, BindingAfterFacts
    <3>2. Hold' = [Hold EXCEPT ![id] = caller]
      <4>1. bindings'[id].pk = caller
        BY <3>1, BindingAfterFacts
      <4> QED BY <3>1, <4>1
    <3>3. Ledger!Attested(id, F)
      BY <2>5 DEF Ledger!Attested
    <3>4. CASE bindings[id].pk = Zero
      <4>1. id \notin Registered /\ p.nullifier \in Nullifiers /\ p.nullifier \notin usedNullifiers
        BY <2>5, <3>4, BindingAfterFacts DEF Registered, RegisterCore, WriteGate
      <4>2. Mark' = [Mark EXCEPT ![id] = p.nullifier]
        <5>1. bindings'[id].nullifier = p.nullifier
          BY <3>1, <3>4, BindingAfterFacts
        <5> QED BY <3>1, <5>1
      <4>3. Frozen' = Frozen
        <5>1. ~ bindings'[id].revoked
          BY <3>1, <3>4 DEF BindingAfter
        <5> QED BY <3>1, <4>1, <5>1 DEF Registered
      <4>4. \A other \in Registered : bindings[other].nullifier # p.nullifier
        BY <4>1 DEF NullifierLedger
      <4>5. Ledger!Claim(id, caller, p.nullifier, F)
        BY <2>1, <3>2, <3>3, <4>1, <4>2, <4>3, <4>4 DEF Ledger!Claim, Registered
      <4> QED BY <3>1, <4>1, <4>5 DEF Ledger!Next
    <3>5. CASE bindings[id].pk # Zero
      <4>1. id \in Registered /\ ~ bindings[id].revoked
        BY <2>5, <3>1, <3>5 DEF Registered, RegisterCore, WriteGate
      <4>2. Mark' = Mark
        BY <3>1, <3>5, BindingAfterFacts
      <4>3. Frozen' = Frozen
        <5>1. ~ bindings'[id].revoked
          BY <3>1, <3>5, <4>1, BindingAfterFacts
        <5> QED BY <3>1, <4>1, <5>1 DEF Registered
      <4>4. Ledger!Move(id, caller, F)
        BY <2>1, <3>2, <3>3, <4>1, <4>2, <4>3 DEF Ledger!Move
      <4> QED BY <3>1, <4>4 DEF Ledger!Next
    <3> QED BY <3>4, <3>5
  <2>6. ASSUME NEW caller \in Accounts, NEW p \in Proofs, NEW tr, NEW pr,
               Register(caller, p, tr, pr)
        PROVE  Ledger!Next
    <3>1. {} \in Ledger!AtMostOneFact
      BY DEF Ledger!AtMostOneFact
    <3>2. ageProvenCutoffs' = [ageProvenCutoffs EXCEPT ![p.identityFingerprint] = @ \cup {}]
      BY <2>6 DEF Register, TypeOK
    <3> QED BY <2>5, <2>6, <3>1, <3>2 DEF Register
  <2>7. ASSUME NEW caller \in Accounts, NEW p \in Proofs, NEW tr, NEW pr,
               NEW cutoff \in Cutoffs, NEW ap \in AgeProofs,
               RegisterWithAge(caller, p, tr, pr, cutoff, ap)
        PROVE  Ledger!Next
    <3>1. {cutoff} \in Ledger!AtMostOneFact
      BY DEF Ledger!AtMostOneFact
    <3> QED BY <2>5, <2>7, <3>1 DEF RegisterWithAge, AgeWrite
  <2>8. ASSUME NEW id \in Identities, NEW cutoff \in Cutoffs, NEW ap \in AgeProofs,
               ProveAge(id, cutoff, ap)
        PROVE  Ledger!Next
    <3>1. /\ id \in Registered /\ id \notin Frozen
          /\ bindings[id].pk \in Accounts
      BY <2>8 DEF ProveAge, AgeGate, Registered, TypeOK, Binding
    <3>2. /\ Hold' = Hold /\ Mark' = Mark /\ Frozen' = Frozen
          /\ Hold = [Hold EXCEPT ![id] = bindings[id].pk]
      BY <2>8 DEF ProveAge, Registered
    <3>3. Ledger!Attested(id, {cutoff}) /\ {cutoff} \in Ledger!AtMostOneFact
      BY <2>8 DEF ProveAge, AgeWrite, Ledger!Attested, Ledger!AtMostOneFact
    <3>4. Ledger!Move(id, bindings[id].pk, {cutoff})
      BY <2>1, <3>1, <3>2, <3>3 DEF Ledger!Move
    <3> QED BY <3>1, <3>3, <3>4 DEF Ledger!Next
  <2> QED BY <2>2, <2>4, <2>6, <2>7, <2>8 DEF Next, Claimants, Provers
<1> QED BY <1>1, <1>2, TypeCorrect, NullifiersAccounted, PTL DEF Spec, LedgerSpec, Ledger!Spec

-----------------------------------------------------------------------------
(***************************************************************************)
(* The certificate contract                                                *)
(***************************************************************************)

\* The certificate contract only reads the registry, so the composition is
\* a registry and has every property proved of one.
THEOREM CertificateIsRegistry == CertSpec => Spec
<1>1. CertInit => Init
  BY DEF CertInit
<1>2. [CertNext]_allVars => [Next]_vars
  BY DEF CertNext, Mint, Transfer, allVars
<1> QED BY <1>1, <1>2, PTL DEF CertSpec, Spec

\* Token ids were all given out by the counter.
IdsFromCounter == \A c \in minted : c.tokenId <= nextTokenId

CertInv ==
    /\ CertTypeOK
    /\ IdsFromCounter
    /\ OneCertificatePerIdentity
    /\ CertificateNamesItsBinding

\* A mint keeps the invariant: the nullifier of the binding has no token yet,
\* so neither has the identity.
LEMMA MintKeepsInv ==
    ASSUME TypeOK, NullifierLedger, CertInv,
           NEW caller \in Accounts, NEW id \in Identities, Mint(caller, id)
    PROVE  CertInv'
<1> DEFINE n == bindings[id].nullifier
           c == [tokenId |-> nextTokenId + 1, nullifier |-> n, holder |-> caller, bindingId |-> id]
<1>1. id \in Registered /\ n \in Nullifiers
  BY DEF Mint, OnlyVerifiedUkrainian, Registered, NullifierLedger, TypeOK
<1>2. /\ minted' = minted \cup {c}
      /\ nextTokenId' = nextTokenId + 1
      /\ nextTokenId \in Nat
      /\ tokenIdByNullifier' = [tokenIdByNullifier EXCEPT ![n] = nextTokenId + 1]
      /\ tokenIdByNullifier[n] = 0
      /\ bindings' = bindings
  BY DEF Mint, FreshTokenId, NotMinted, vars, CertInv, CertTypeOK
<1>3. c \in Certificate
  BY <1>1, <1>2 DEF Certificate
<1>4. \A d \in minted : /\ d \in Certificate
                        /\ d.nullifier # n /\ d.bindingId # id
                        /\ d.tokenId <= nextTokenId
  BY <1>2 DEF CertInv, CertTypeOK, CertificateNamesItsBinding, IdsFromCounter, Certificate
<1>5. CertTypeOK'
  <2>1. Tokens' = Tokens \cup {nextTokenId + 1}
    <3>1. c.tokenId = nextTokenId + 1
      OBVIOUS
    <3>2. \A t : t \in Tokens' <=> \E d \in minted \cup {c} : d.tokenId = t
      BY <1>2 DEF Tokens
    <3>3. \A t : t \in Tokens <=> \E d \in minted : d.tokenId = t
      BY DEF Tokens
    <3> HIDE DEF c
    <3> QED BY <3>1, <3>2, <3>3
  <2>2. ownerOf \in [Tokens -> Accounts]
    BY DEF CertInv, CertTypeOK
  <2>3. ownerOf' = [t \in Tokens \cup {nextTokenId + 1} |->
                       IF t = nextTokenId + 1 THEN caller ELSE ownerOf[t]]
    BY DEF Mint, FreshTokenId
  <2>4. ownerOf' \in [Tokens' -> Accounts]
    BY <2>1, <2>2, <2>3
  <2> QED BY <1>1, <1>2, <1>3, <2>4 DEF CertInv, CertTypeOK
<1>6. IdsFromCounter'
  BY <1>2, <1>4 DEF IdsFromCounter, Certificate
<1>7. OneCertificatePerIdentity'
  <2>1. \A d \in minted : d.bindingId # c.bindingId /\ d.tokenId # c.tokenId
    BY <1>2, <1>4 DEF Certificate
  <2> QED BY <1>2, <2>1 DEF OneCertificatePerIdentity, CertInv
<1>8. CertificateNamesItsBinding'
  <2>1. Registered' = Registered
    BY <1>2 DEF Registered
  <2>2. \A d \in minted : tokenIdByNullifier'[d.nullifier] = tokenIdByNullifier[d.nullifier]
    BY <1>2, <1>4 DEF CertInv, CertTypeOK, Certificate
  <2>3. tokenIdByNullifier'[c.nullifier] = c.tokenId
    BY <1>1, <1>2 DEF CertInv, CertTypeOK
  <2> QED BY <1>1, <1>2, <2>1, <2>2, <2>3 DEF CertificateNamesItsBinding, CertInv
<1> QED BY <1>5, <1>6, <1>7, <1>8 DEF CertInv

\* The invariant holds in every state of the two contracts together.
THEOREM CertificatesSound == CertSpec => []CertInv
<1>1. CertInit => CertInv
  BY DEF CertInit, CertInv, CertTypeOK, IdsFromCounter, OneCertificatePerIdentity,
         CertificateNamesItsBinding, Tokens
<1>2. TypeOK /\ NullifierLedger /\ CertInv /\ [CertNext]_allVars => CertInv'
  <2> SUFFICES ASSUME TypeOK, NullifierLedger, CertInv, [CertNext]_allVars
               PROVE  CertInv'
    OBVIOUS
  <2>1. ASSUME [Next]_vars, UNCHANGED certVars
        PROVE  CertInv'
    <3>1. CertTypeOK' /\ IdsFromCounter' /\ OneCertificatePerIdentity'
      BY <2>1 DEF certVars, CertInv, CertTypeOK, IdsFromCounter, OneCertificatePerIdentity, Tokens
    <3>2. \A d \in minted : d.bindingId \in Registered /\ d.bindingId \in Identities
      BY DEF CertInv, CertificateNamesItsBinding, Registered
    <3>3. \A d \in minted : /\ bindings'[d.bindingId].pk # Zero
                            /\ bindings'[d.bindingId].nullifier = bindings[d.bindingId].nullifier
      BY <2>1, <3>2, PersonhoodStep
    <3>4. CertificateNamesItsBinding'
      BY <2>1, <3>2, <3>3 DEF certVars, CertInv, CertificateNamesItsBinding, Registered
    <3> QED BY <3>1, <3>4 DEF CertInv
  <2>2. ASSUME NEW from, NEW to \in Accounts, NEW t, Transfer(from, to, t)
        PROVE  CertInv'
    BY <2>2 DEF Transfer, vars, CertInv, CertTypeOK, IdsFromCounter, OneCertificatePerIdentity,
                CertificateNamesItsBinding, Registered, Tokens
  <2>3. CASE UNCHANGED allVars
    BY <2>1, <2>3 DEF allVars
  <2> QED BY <2>1, <2>2, <2>3, MintKeepsInv DEF CertNext
<1> QED BY <1>1, <1>2, CertificateIsRegistry, TypeCorrect, NullifiersAccounted, PTL DEF CertSpec

\* The variables of the certificate contract keep their types.
THEOREM CertTypeCorrect == CertSpec => []CertTypeOK
<1>1. CertInv => CertTypeOK
  BY DEF CertInv
<1> QED BY <1>1, CertificatesSound, PTL

\* At most one certificate for each identity, and no token id given out twice.
THEOREM CertificateUniqueness == CertSpec => []OneCertificatePerIdentity
<1>1. CertInv => OneCertificatePerIdentity
  BY DEF CertInv
<1> QED BY <1>1, CertificatesSound, PTL

\* The nullifier a certificate shows is its binding's, in every state.
THEOREM CertificateNames == CertSpec => []CertificateNamesItsBinding
<1>1. CertInv => CertificateNamesItsBinding
  BY DEF CertInv
<1> QED BY <1>1, CertificatesSound, PTL
=============================================================================
