--------------------------- MODULE IdentityLedger ---------------------------
(***************************************************************************)
(* What the on-chain registry promises, without proofs, roots, clocks or   *)
(* gates: every identity is claimed once, under a personhood mark nobody   *)
(* else holds; the claim may move between accounts unless it is frozen;    *)
(* facts attested about an identity are never withdrawn and never added    *)
(* while it is frozen.                                                     *)
(***************************************************************************)
CONSTANTS Accounts,     \* who may hold an identity
          Identities,
          Marks,        \* personhood marks (the nullifiers)
          Facts,        \* attributes that can be attested (the age cutoffs)
          Nobody        \* the holder of an identity nobody claimed

VARIABLES holder,   \* [Identities -> Accounts \cup {Nobody}]
          mark,     \* [Identities -> Marks \cup {Nobody}]
          frozen,   \* the claimed identities under an administrative freeze
          facts     \* [Identities -> SUBSET Facts]

vars == <<holder, mark, frozen, facts>>

Claimed == {id \in Identities : holder[id] # Nobody}

Init ==
    /\ holder = [id \in Identities |-> Nobody]
    /\ mark = [id \in Identities |-> Nobody]
    /\ frozen = {}
    /\ facts = [id \in Identities |-> {}]

\* What one step can attest about an identity: nothing, or one fact.
AtMostOneFact == {{}} \cup {{f} : f \in Facts}

Attested(id, F) == facts' = [facts EXCEPT ![id] = @ \cup F]

Claim(id, a, m, F) ==
    /\ id \notin Claimed
    /\ \A other \in Claimed : mark[other] # m
    /\ holder' = [holder EXCEPT ![id] = a]
    /\ mark' = [mark EXCEPT ![id] = m]
    /\ Attested(id, F)
    /\ UNCHANGED frozen

\* The claim moves to account a, possibly the account that holds it already.
Move(id, a, F) ==
    /\ id \in Claimed \ frozen
    /\ holder' = [holder EXCEPT ![id] = a]
    /\ Attested(id, F)
    /\ UNCHANGED <<mark, frozen>>

Freeze(id) ==
    /\ id \in Claimed
    /\ frozen' = frozen \cup {id}
    /\ UNCHANGED <<holder, mark, facts>>

Thaw(id) ==
    /\ frozen' = frozen \ {id}
    /\ UNCHANGED <<holder, mark, facts>>

Next ==
    \E id \in Identities :
        \/ \E a \in Accounts, m \in Marks, F \in AtMostOneFact : Claim(id, a, m, F)
        \/ \E a \in Accounts, F \in AtMostOneFact : Move(id, a, F)
        \/ Freeze(id)
        \/ Thaw(id)

Spec == Init /\ [][Next]_vars
=============================================================================
