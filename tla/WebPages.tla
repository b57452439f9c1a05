------------------------------ MODULE WebPages ------------------------------
(***************************************************************************)
(* A visitor of the web application, one page at a time: the registration  *)
(* wizard of the home page (RegisterFlow), the page it goes to after a     *)
(* registration, and the account page (AccountAge), over one registry.     *)
(* Leaving a page drops its state; what its runs still do is not seen.     *)
(***************************************************************************)
EXTENDS RegisterFlow, AccountAge

VARIABLE page

vars == <<wvars, wallet, fvars, chainvars, account, page>>

Pages == {"home", "mint", "account"}

TypeOK ==
    /\ FlowTypeOK
    /\ AccountTypeOK
    /\ page \in Pages

Init ==
    /\ FlowInit
    /\ ChainInit
    /\ account = FreshAccount
    /\ page = "home"

\* A page is mounted, and the one before it unmounted.
Open(p) ==
    /\ page' = p
    /\ home' = FreshHome
    /\ form' = None
    /\ runs' = [k \in Clicks |-> None]
    /\ forms' = 0
    /\ clicks' = 0
    /\ account' = FreshAccount
    /\ worker' = [q \in Provers |-> "live"]
    /\ call' = [c \in Calls |-> None]
    /\ UNCHANGED wallet

\* Bound: the home page is not opened again.  It reads no log, so another
\* visit would repeat the first one.
Navigate(p) ==
    /\ p \notin {page, "home"}
    /\ Open(p)
    /\ UNCHANGED chainvars

\* The receipt of the registration, and the navigation that follows it.
Mined ==
    /\ page = "home"
    /\ form # None
    /\ form.tx # None /\ form.tx.at = "sent"
    /\ Accepted(form.tx)
    /\ Registers(form.tx.args.id, form.tx.from)
    /\ Open("mint")

AtHome ==
    /\ page = "home"
    /\ FlowNext
    /\ UNCHANGED <<chainvars, account, page>>

AtAccount ==
    /\ page = "account"
    /\ AccountNext
    /\ UNCHANGED <<fvars, page>>

\* The worker posts its reply, and the page hears it.
Reports(c) ==
    /\ Reply(c)
    /\ UNCHANGED <<wallet, fvars, chainvars, account, page>>

HearsAtHome(c) ==
    /\ page = "home"
    /\ AgeAnswer(c)
    /\ UNCHANGED <<chainvars, account, page>>

HearsAtAccount ==
    /\ page = "account"
    /\ ProofResult \/ ProofError
    /\ UNCHANGED <<fvars, page>>

Next ==
    \/ AtHome \/ AtAccount
    \/ \E c \in Calls : Reports(c)
    \/ Mined
    \/ \E p \in Pages : Navigate(p)

\* snarkjs ends, and the browser delivers what a live worker posts.  Nothing
\* is asked of the visitor, of the wallet or of the network.
Fairness ==
    /\ \A c \in Calls : WF_vars(Reports(c)) /\ WF_vars(HearsAtHome(c))
    /\ WF_vars(HearsAtAccount)

Spec == Init /\ [][Next]_vars /\ Fairness

-----------------------------------------------------------------------------
(***************************************************************************)
(* Properties                                                              *)
(***************************************************************************)

\* When "Generate proof" was clicked once in a form, and the cutoff not changed
\* before that run showed its first progress, the cutoff that registerWithAge
\* would send is the one that the age proof of the run was made for: however
\* the visitor walks between the steps, and whichever earlier form still has a
\* run under way (the disabled inputs of the age card, submitRegister).
OffersAsProved ==
    (/\ form # None
     /\ form.clicked = 1 /\ ~form.loose
     /\ form.ageProvedArgs # None /\ ~form.ageProvedArgs.uploaded)
    => form.ageProvedArgs.cutoff = home.ageCutoffYmd

\* The two proofs a form holds, if it made both, are of one identity; though
\* they may come from different runs, and the visitor may have gone back and
\* signed as somebody else while they were made (HomeDocument unmounts the form
\* before the file changes).
AgeOfSameIdentity ==
    (/\ form # None
     /\ form.provedArgs # None /\ ~form.provedArgs.uploaded
     /\ form.ageProvedArgs # None /\ ~form.ageProvedArgs.uploaded)
    => form.ageProvedArgs.id = form.provedArgs.id

ReviewsNothing == form # None /\ home.step = 4 /\ form.provedArgs = None

\* The review step comes up without a proof to review, which leaves no button
\* but Back, only when a run that outlived its form completes, or when the
\* wallet comes back at that step (onProveComplete, HomeDocument).
EmptyReviewByOutsiders ==
    [][ReviewsNothing' /\ ~ReviewsNothing =>
          \/ wallet = None
          \/ \E k \in Clicks : runs[k] # None /\ runs'[k] = None
                              /\ (form # None => form.prover # runs[k].prover)]_vars

\* The account page submits a proof with the binding and the cutoff it was made
\* for, through retries, going back, changes of the wallet and of the list
\* (ProveAgeFlow sends what its state holds at the time of the click).
AccountSendsAsProved ==
    account.step = "result" \/ account.tx # "none" =>
        /\ account.step = "result"
        /\ account.proof # None
        /\ account.proof.id = account.bindingId
        /\ account.proof.cutoff = account.ageCutoffDate

\* The list made of the three sets of logs, whose order it does not know, holds
\* no binding that another wallet has now, and every binding that the wallet has
\* and never lost.  Of a binding that was lost and came back it says nothing:
\* the code leaves it out, and the comment of the hook would have it listed
\* (useV5_4BindingsForWallet).
OwnedAreHeld ==
    \A w \in Holders :
        LET held == {id \in Identities : bindings[id] = w}
            lost == {e[1] : e \in {x \in rebound : x[2] = w}}
        IN  held \ lost \subseteq Owned(w) /\ Owned(w) \subseteq held

\* A prove that reached a live worker settles, or another prove of the same
\* worker has settled and had it terminated: no page waits for a proof that is
\* neither made nor refused, for any other reason (snarkjsWorker.ts,
\* snarkjsWorkerEntry.ts).
ProvesSettle ==
    \A c \in Calls :
        (call[c] # None /\ call[c].at # "lost") ~> (call[c] = None \/ call[c].at = "lost")
=============================================================================
