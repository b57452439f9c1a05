----------------------------- MODULE AccountAge -----------------------------
(***************************************************************************)
(* The account page that proves an age for a binding filed earlier:        *)
(* ProveAgeFlow.tsx, the list of bindings it picks from                    *)
(* (useV5_4BindingsForWallet.ts), and the events of the registry that the  *)
(* list is made of.  The proof goes through SnarkjsWorker; the page makes  *)
(* one prover.  Its links and its receipts are left out.                   *)
(***************************************************************************)
EXTENDS Visitor

CONSTANTS
    Holders,                \* accounts that bindings are for, the visitor's included
    AgeProver, AgeCall,     \* the page's prover, and its one prove at a time
    MaxMoves                \* bound on the BindingRebound events

ASSUME AccountAssumption ==
    /\ AgeProver \in Provers
    /\ AgeCall \in Calls
    /\ DefaultCutoff \in Cutoffs
    /\ Wallets \subseteq Holders
    /\ None \notin Holders \cup Identities
    /\ MaxMoves \in Nat

VARIABLES
    bindings,       \* id -> pk of the registry's binding, or None
    registered,     \* <<id, pk>> of the BindingRegistered events
    rebound,        \* <<id, oldPk, newPk>> of the BindingRebound events
    account         \* the state of ProveAgeFlow

chainvars == <<bindings, registered, rebound>>

Steps == {"connect", "binding-pick", "cutoff", "p7s", "prove", "result", "error"}

AgeProof == [id : Identities, cutoff : Cutoffs, ageQualified : {0, 1}]

ASSUME AgeProofAssumption == None \notin AgeProof

Account ==
    [step : Steps,
     ownedBindings : SUBSET Identities,
     bindingId : Identities \cup {None},
     ageCutoffDate : Cutoffs,
     p7s : BOOLEAN,
     proof : AgeProof \cup {None},
     tx : {"none", "pending", "sent"}]

AccountTypeOK ==
    /\ bindings \in [Identities -> Holders \cup {None}]
    /\ registered \subseteq Identities \X Holders
    /\ rebound \subseteq Identities \X Holders \X Holders
    /\ account \in Account

FreshAccount ==
    [step |-> IF wallet = None THEN "connect" ELSE "binding-pick",
     ownedBindings |-> {}, bindingId |-> None, ageCutoffDate |-> DefaultCutoff,
     p7s |-> FALSE, proof |-> None, tx |-> "none"]

ChainInit ==
    /\ bindings = [id \in Identities |-> None]
    /\ registered = {}
    /\ rebound = {}

-----------------------------------------------------------------------------
(***************************************************************************)
(* The registry, as far as its two events go                               *)
(***************************************************************************)

\* The effect of register and registerWithAge: a first claim, or a rebind that
\* tells the wallets apart.
Registers(id, pk) ==
    /\ bindings' = [bindings EXCEPT ![id] = pk]
    /\ registered' = IF bindings[id] = None THEN registered \cup {<<id, pk>>} ELSE registered
    /\ rebound' = IF bindings[id] \in {None, pk} THEN rebound
                  ELSE rebound \cup {<<id, bindings[id], pk>>}

\* A registration, from any session.
Elsewhere(id, pk) ==
    /\ pk # bindings[id]
    /\ Cardinality(rebound) < MaxMoves
    /\ Registers(id, pk)
    /\ UNCHANGED <<wvars, wallet, account>>

-----------------------------------------------------------------------------
(***************************************************************************)
(* useV5_4BindingsForWallet                                                *)
(***************************************************************************)

\* Variant: what was rotated out is taken away before what was rotated in is
\* added, so that a binding that came and went again is still listed.
OwnedInOtherOrder(w) ==
    ({e[1] : e \in {x \in registered : x[2] = w}} \ {e[1] : e \in {x \in rebound : x[2] = w}})
    \cup {e[1] : e \in {x \in rebound : x[3] = w}}

\* The three sets of logs, without their order.
Owned(w) ==
    ({e[1] : e \in {x \in registered : x[2] = w}} \cup {e[1] : e \in {x \in rebound : x[3] = w}})
    \ {e[1] : e \in {x \in rebound : x[2] = w}}

-----------------------------------------------------------------------------
(***************************************************************************)
(* ProveAgeFlow                                                            *)
(***************************************************************************)
Step(s) == account.step = s

To(a) == account' = a

\* The wallet changes: the effect that leaves "connect" when there is one, and
\* the list of another wallet, empty until its query answers.
SwitchWallet(w) ==
    /\ w # wallet
    /\ wallet' = w
    /\ To([account EXCEPT !.step = IF @ = "connect" /\ w # None THEN "binding-pick" ELSE @,
                          !.ownedBindings = {}])
    /\ UNCHANGED <<wvars, chainvars>>

\* The query answers, now or again later; a single binding is picked by the
\* effect.
ListBindings ==
    /\ wallet # None
    /\ LET ids == Owned(wallet)
           a == [account EXCEPT !.ownedBindings = ids]
       IN IF Step("binding-pick") /\ Cardinality(ids) = 1
          THEN \E id \in ids : To([a EXCEPT !.bindingId = id, !.step = "cutoff"])
          ELSE To(a)
    /\ UNCHANGED <<wvars, wallet, chainvars>>

PickBinding(id) ==
    /\ Step("binding-pick")
    /\ id \in account.ownedBindings
    /\ To([account EXCEPT !.bindingId = id, !.step = "cutoff"])
    /\ UNCHANGED <<wvars, wallet, chainvars>>

\* Variant: the step of the file is skipped when there is a proof already.
SetCutoffAndSkip(c) ==
    /\ Step("cutoff")
    /\ To([account EXCEPT !.ageCutoffDate = c,
                          !.step = IF account.proof # None THEN "result" ELSE "p7s"])
    /\ UNCHANGED <<wvars, wallet, chainvars>>

\* The date is chosen and the step left.
SetCutoff(c) ==
    /\ Step("cutoff")
    /\ To([account EXCEPT !.ageCutoffDate = c, !.step = "p7s"])
    /\ UNCHANGED <<wvars, wallet, chainvars>>

ChooseAgeP7s ==
    /\ Step("p7s")
    /\ To([account EXCEPT !.p7s = TRUE])
    /\ UNCHANGED <<wvars, wallet, chainvars>>

BackToCutoff ==
    /\ Step("p7s")
    /\ To([account EXCEPT !.step = "cutoff"])
    /\ UNCHANGED <<wvars, wallet, chainvars>>

\* onProve: the witness fails, or the prover has it.
OnProve ==
    /\ Step("p7s") /\ account.p7s
    /\ \/ To([account EXCEPT !.step = "error"]) /\ UNCHANGED wvars
       \/ To([account EXCEPT !.step = "prove"]) /\ Prove(AgeCall, AgeProver)
    /\ UNCHANGED <<wallet, chainvars>>

ProofResult ==
    /\ Step("prove")
    /\ HandleMessage(AgeCall, "result")
    /\ \E q \in {0, 1} :
          To([account EXCEPT !.step = "result",
                !.proof = [id |-> account.bindingId, cutoff |-> account.ageCutoffDate,
                           ageQualified |-> q]])
    /\ UNCHANGED <<wallet, chainvars>>

ProofError ==
    /\ Step("prove")
    /\ HandleMessage(AgeCall, "error") \/ HandleError(AgeProver)
    /\ To([account EXCEPT !.step = "error"])
    /\ UNCHANGED <<wallet, chainvars>>

\* onSubmit: proveAge(bindingId, ageCutoffDate, proof).
SubmitAge ==
    /\ Step("result")
    /\ account.tx = "none"
    /\ account.proof.ageQualified = 1
    /\ To([account EXCEPT !.tx = "pending"])
    /\ UNCHANGED <<wvars, wallet, chainvars>>

\* The wallet sends the transaction, or writeError leads to the error step.
AgeTxAnswer ==
    /\ account.tx = "pending"
    /\ \/ To([account EXCEPT !.tx = "sent"])
       \/ To([account EXCEPT !.tx = "none", !.step = "error"])
    /\ UNCHANGED <<wvars, wallet, chainvars>>

\* The button of the error step.
RetryAge ==
    /\ Step("error")
    /\ To([account EXCEPT !.step = "p7s"])
    /\ UNCHANGED <<wvars, wallet, chainvars>>

AccountNext ==
    \/ \E id \in Identities, pk \in Holders : Elsewhere(id, pk)
    \/ \E w \in Wallets \cup {None} : SwitchWallet(w)
    \/ ListBindings
    \/ \E id \in Identities : PickBinding(id)
    \/ \E c \in Cutoffs : SetCutoff(c)
    \/ ChooseAgeP7s \/ BackToCutoff \/ OnProve
    \/ ProofResult \/ ProofError
    \/ SubmitAge \/ AgeTxAnswer \/ RetryAge
=============================================================================
