--------------------------- MODULE WebPagesProofs ---------------------------
(***************************************************************************)
(* Theorems about the pages of one visitor, for any number of wallets,     *)
(* identities, cutoffs, files, clicks and forms.                           *)
(***************************************************************************)
EXTENDS WebPages, TLAPS

-----------------------------------------------------------------------------
(***************************************************************************)
(* The worker                                                              *)
(***************************************************************************)

\* Settling some calls of a prover keeps the types.
LEMMA CleanupType ==
    ASSUME WorkerTypeOK, NEW p \in Provers, NEW settled, Cleanup(p, settled)
    PROVE  WorkerTypeOK'
<1>1. worker' \in [Provers -> {"live", "terminated"}]
  BY DEF WorkerTypeOK, Cleanup
<1>2. \A c \in Listening(p) : [call[c] EXCEPT !.at = "lost"] \in Pending
  BY DEF WorkerTypeOK, Listening, Pending
<1>3. \A c \in Calls : call[c] \in Pending \cup {None}
  BY DEF WorkerTypeOK
<1> HIDE DEF Pending
<1>4. call' \in [Calls -> Pending \cup {None}]
  BY <1>2, <1>3 DEF Cleanup
<1> QED BY <1>1, <1>4 DEF WorkerTypeOK

\* Every step of the protocol keeps the types.
LEMMA WorkerType ==
    ASSUME WorkerTypeOK
    PROVE  /\ \A c \in Calls, p \in Provers : Prove(c, p) => WorkerTypeOK'
           /\ \A c \in Calls : Reply(c) => WorkerTypeOK'
           /\ \A c \in Calls : \A kind : HandleMessage(c, kind) => WorkerTypeOK'
           /\ \A p \in Provers : HandleError(p) => WorkerTypeOK'
<1>1. ASSUME NEW c \in Calls, NEW p \in Provers, Prove(c, p) PROVE WorkerTypeOK'
  BY <1>1 DEF WorkerTypeOK, Prove, Pending
<1>2. ASSUME NEW c \in Calls, Reply(c) PROVE WorkerTypeOK'
  <2>1. PICK kind \in {"result", "error"} : call' = [call EXCEPT ![c].at = kind]
    BY <1>2 DEF Reply
  <2>2. call[c] \in Pending
    BY <1>2 DEF WorkerTypeOK, Reply
  <2>3. [call[c] EXCEPT !.at = kind] \in Pending
    BY <2>2 DEF Pending
  <2>4. call' = [call EXCEPT ![c] = [call[c] EXCEPT !.at = kind]]
    BY <2>1
  <2> QED BY <1>2, <2>3, <2>4 DEF WorkerTypeOK, Reply
<1>3. ASSUME NEW c \in Calls, NEW kind, HandleMessage(c, kind) PROVE WorkerTypeOK'
  <2>1. call[c].prover \in Provers
    BY <1>3 DEF WorkerTypeOK, HandleMessage, Pending
  <2> QED BY <1>3, <2>1, CleanupType DEF HandleMessage
<1>4. ASSUME NEW p \in Provers, HandleError(p) PROVE WorkerTypeOK'
  BY <1>4, CleanupType DEF HandleError
<1> QED BY <1>1, <1>2, <1>3, <1>4

-----------------------------------------------------------------------------
(***************************************************************************)
(* The registry's events                                                   *)
(***************************************************************************)
ChainType ==
    /\ bindings \in [Identities -> Holders \cup {None}]
    /\ registered \subseteq Identities \X Holders
    /\ rebound \subseteq Identities \X Holders \X Holders

LostBy(id, w) == \E e \in rebound : e[1] = id /\ e[2] = w
GainedBy(id, w) == \E e \in rebound : e[1] = id /\ e[3] = w

\* The holder of a binding registered it or gained it, and who did either
\* holds it or lost it.
EventsTell ==
    /\ \A id \in Identities, w \in Holders :
          bindings[id] = w => <<id, w>> \in registered \/ GainedBy(id, w)
    /\ \A id \in Identities, w \in Holders :
          <<id, w>> \in registered \/ GainedBy(id, w) => bindings[id] = w \/ LostBy(id, w)

ChainInv == ChainType /\ EventsTell

\* A registration adds the events that tell what it did.
LEMMA RegistersInv ==
    ASSUME ChainInv, NEW id \in Identities, NEW pk \in Holders, Registers(id, pk)
    PROVE  ChainInv'
<1> USE DEF ChainInv, ChainType, Registers
<1>1. ChainType'
  OBVIOUS
<1>2. \A i \in Identities : bindings'[i] = IF i = id THEN pk ELSE bindings[i]
  OBVIOUS
<1>3. registered \subseteq registered' /\ rebound \subseteq rebound'
  OBVIOUS
<1>4. ASSUME NEW i \in Identities, NEW w \in Holders, bindings'[i] = w
      PROVE  <<i, w>> \in registered' \/ GainedBy(i, w)'
  <2>1. CASE i # id \/ bindings[id] = pk
    BY <1>2, <1>3, <1>4, <2>1 DEF EventsTell, GainedBy
  <2>2. CASE i = id /\ bindings[id] = None
    BY <1>2, <1>4, <2>2
  <2>3. CASE i = id /\ bindings[id] \notin {None, pk}
    <3>1. w = pk /\ <<id, bindings[id], pk>> \in rebound'
      BY <1>2, <1>4, <2>3
    <3> QED BY <2>3, <3>1 DEF GainedBy
  <2> QED BY <2>1, <2>2, <2>3
<1>5. ASSUME NEW i \in Identities, NEW w \in Holders,
             <<i, w>> \in registered' \/ GainedBy(i, w)'
      PROVE  bindings'[i] = w \/ LostBy(i, w)'
  <2>1. CASE <<i, w>> \in registered \/ GainedBy(i, w)
    <3>1. bindings[i] = w \/ LostBy(i, w)
      BY <2>1 DEF EventsTell
    <3>2. CASE LostBy(i, w)
      BY <1>3, <3>2 DEF LostBy
    <3>3. CASE bindings[i] = w /\ i = id /\ w # pk
      <4>1. <<id, bindings[id], pk>> \in rebound' /\ w # None
        BY <3>3, AccountAssumption
      <4> QED BY <3>3, <4>1 DEF LostBy
    <3> QED BY <1>2, <3>1, <3>2, <3>3
  <2>2. CASE ~(<<i, w>> \in registered \/ GainedBy(i, w))
    <3>1. i = id /\ w = pk
      BY <1>5, <2>2 DEF GainedBy
    <3> QED BY <1>2, <3>1
  <2> QED BY <2>1, <2>2
<1> QED BY <1>1, <1>4, <1>5 DEF EventsTell

\* What is listed is held, and what is held and was never lost is listed.
LEMMA EventsOwned == ChainInv => OwnedAreHeld
<1> SUFFICES ASSUME ChainInv PROVE OwnedAreHeld
  OBVIOUS
<1>1. ASSUME NEW w \in Holders, NEW id \in Identities
      PROVE  id \in Owned(w) <=> bindings[id] = w /\ \A e \in rebound : e[1] = id => e[2] # w
  <2>1. id \in Owned(w) <=> (<<id, w>> \in registered \/ GainedBy(id, w)) /\ ~LostBy(id, w)
    BY DEF ChainInv, ChainType, Owned, GainedBy, LostBy
  <2> QED BY <2>1 DEF ChainInv, EventsTell, LostBy
<1>2. \A w \in Holders : Owned(w) \subseteq Identities
  BY DEF ChainInv, ChainType, Owned
<1>3. ASSUME NEW w \in Holders
      PROVE  {id \in Identities : bindings[id] = w} \ {e[1] : e \in {x \in rebound : x[2] = w}}
                \subseteq Owned(w)
  BY <1>1
<1>4. ASSUME NEW w \in Holders
      PROVE  Owned(w) \subseteq {id \in Identities : bindings[id] = w}
  BY <1>1, <1>2
<1> QED BY <1>3, <1>4 DEF OwnedAreHeld

-----------------------------------------------------------------------------
(***************************************************************************)
(* The account page                                                        *)
(***************************************************************************)

\* A binding is picked before a proof is asked for, and the proof stays with
\* the binding and the cutoff for as long as it can be sent.
AccountInv ==
    /\ account \in Account
    /\ account.step \notin {"connect", "binding-pick"} => account.bindingId # None
    /\ AccountSendsAsProved

LEMMA FreshInv ==
    ASSUME wallet \in Wallets \cup {None}
    PROVE  FreshAccount \in Account
BY AccountAssumption DEF FreshAccount, Account, Steps

\* A page just mounted.
LEMMA FreshAccountInv ==
    ASSUME wallet \in Wallets \cup {None}, wallet' = wallet, account' = FreshAccount
    PROVE  AccountInv'
BY FreshInv, AccountAssumption DEF FreshAccount, AccountInv, AccountSendsAsProved

\* What the list shows are identities.
LEMMA ListType ==
    ASSUME ChainType, wallet \in Wallets
    PROVE  Owned(wallet) \subseteq Identities
BY AccountAssumption DEF Owned, ChainType

\* Steps up to the proof.
LEMMA BeforeProof ==
    ASSUME AccountInv, ChainType, wallet \in Wallets \cup {None},
           \/ \E w \in Wallets \cup {None} : SwitchWallet(w)
           \/ ListBindings
           \/ \E id \in Identities : PickBinding(id)
           \/ \E c \in Cutoffs : SetCutoff(c)
           \/ ChooseAgeP7s \/ BackToCutoff
    PROVE  AccountInv'
<1> USE AccountAssumption DEF AccountInv, Account, Steps, AccountSendsAsProved, Step, To
<1>1. ASSUME NEW w \in Wallets \cup {None}, SwitchWallet(w) PROVE AccountInv'
  BY <1>1 DEF SwitchWallet
<1>2. CASE ListBindings
  <2>1. Owned(wallet) \subseteq Identities
    BY <1>2, ListType DEF ListBindings
  <2> HIDE DEF AccountSendsAsProved
  <2>2. CASE account' = [account EXCEPT !.ownedBindings = Owned(wallet)]
    BY <2>1, <2>2 DEF AccountSendsAsProved
  <2>3. ASSUME account.step = "binding-pick", NEW id \in Owned(wallet),
               account' = [account EXCEPT !.ownedBindings = Owned(wallet),
                                          !.bindingId = id, !.step = "cutoff"]
        PROVE  AccountInv'
    BY <2>1, <2>3 DEF AccountSendsAsProved
  <2> QED BY <1>2, <2>2, <2>3 DEF ListBindings
<1>3. ASSUME NEW id \in Identities, PickBinding(id) PROVE AccountInv'
  BY <1>3 DEF PickBinding
<1>4. ASSUME NEW c \in Cutoffs, SetCutoff(c) PROVE AccountInv'
  BY <1>4 DEF SetCutoff
<1>5. CASE ChooseAgeP7s
  BY <1>5 DEF ChooseAgeP7s
<1>6. CASE BackToCutoff
  BY <1>6 DEF BackToCutoff
<1> QED BY <1>1, <1>2, <1>3, <1>4, <1>5, <1>6

\* The proof, and steps after it.
LEMMA FromProof ==
    ASSUME AccountInv, OnProve \/ ProofResult \/ ProofError \/ SubmitAge \/ AgeTxAnswer \/ RetryAge
    PROVE  AccountInv'
<1> USE DEF AccountInv, Account, Steps, AccountSendsAsProved, Step, To
<1>1. CASE OnProve
  BY <1>1 DEF OnProve
<1>2. CASE ProofResult
  <2>1. PICK q \in {0, 1} :
            account' = [account EXCEPT !.step = "result",
                          !.proof = [id |-> account.bindingId, cutoff |-> account.ageCutoffDate,
                                     ageQualified |-> q]]
    BY <1>2 DEF ProofResult
  <2> DEFINE proof == [id |-> account.bindingId, cutoff |-> account.ageCutoffDate,
                       ageQualified |-> q]
  <2>2. account.step = "prove"
    BY <1>2 DEF ProofResult
  <2>3. proof \in AgeProof
    BY <2>2 DEF AgeProof
  <2>4. proof # None /\ proof.id = account.bindingId /\ proof.cutoff = account.ageCutoffDate
    BY <2>3, AgeProofAssumption
  <2> HIDE DEF proof
  <2>5. account' = [account EXCEPT !.step = "result", !.proof = proof]
    BY <2>1 DEF proof
  <2> QED BY <2>2, <2>3, <2>4, <2>5
<1>3. CASE ProofError
  BY <1>3 DEF ProofError
<1>4. CASE SubmitAge
  BY <1>4 DEF SubmitAge
<1>5. CASE AgeTxAnswer
  BY <1>5 DEF AgeTxAnswer
<1>6. CASE RetryAge
  BY <1>6 DEF RetryAge
<1> QED BY <1>1, <1>2, <1>3, <1>4, <1>5, <1>6

\* The page's steps keep the types of what the pages share.
LEMMA AccountShared ==
    ASSUME WorkerTypeOK, ChainInv, wallet \in Wallets \cup {None}, AccountNext
    PROVE  WorkerTypeOK' /\ ChainInv' /\ wallet' \in Wallets \cup {None}
<1>1. ASSUME UNCHANGED chainvars PROVE ChainInv'
  BY <1>1 DEF chainvars, ChainInv, ChainType, EventsTell, GainedBy, LostBy
<1>2. ASSUME UNCHANGED wvars PROVE WorkerTypeOK'
  BY <1>2 DEF wvars, WorkerTypeOK
<1>3. ASSUME NEW id \in Identities, NEW pk \in Holders, Elsewhere(id, pk)
      PROVE  ChainInv' /\ UNCHANGED <<wvars, wallet>>
  BY <1>3, RegistersInv DEF Elsewhere
<1>4. ASSUME OnProve \/ ProofResult \/ ProofError
      PROVE  WorkerTypeOK' /\ UNCHANGED <<chainvars, wallet>>
  BY <1>2, <1>4, WorkerType, AccountAssumption DEF OnProve, ProofResult, ProofError
<1>5. ASSUME NEW w \in Wallets \cup {None}, SwitchWallet(w)
      PROVE  UNCHANGED <<wvars, chainvars>> /\ wallet' = w
  BY <1>5 DEF SwitchWallet
<1>6. ASSUME \/ ListBindings \/ \E id \in Identities : PickBinding(id)
             \/ \E c \in Cutoffs : SetCutoff(c)
             \/ ChooseAgeP7s \/ BackToCutoff \/ SubmitAge \/ AgeTxAnswer \/ RetryAge
      PROVE  UNCHANGED <<wvars, chainvars, wallet>>
  BY <1>6 DEF ListBindings, PickBinding, SetCutoff, ChooseAgeP7s, BackToCutoff, SubmitAge,
              AgeTxAnswer, RetryAge
<1> QED BY <1>1, <1>2, <1>3, <1>4, <1>5, <1>6 DEF AccountNext

-----------------------------------------------------------------------------
(***************************************************************************)
(* The registration wizard                                                 *)
(***************************************************************************)

\* The form is mounted only where the page shows it, and is the last of its
\* kind.
FormShown ==
    form # None =>
        /\ Shown(home, wallet)
        /\ form.prover = forms
        /\ form.clicked <= clicks
        /\ form.scwModal => form.clicked # 0

\* A run is of a form mounted so far.
RunsBelow == \A k \in Clicks : runs[k] # None => runs[k].prover <= forms

\* One click, and the cutoff not changed behind its run.
Tight(f) == f.clicked = 1 /\ ~f.loose

Busy(f) == f.stage \/ f.pipelineDone

\* A run r of the mounted form f of the page h has the file that h has, and
\* follows the proof that it made first.
RunFits(r, f, h) ==
    /\ r.p7s = h.p7s
    /\ f.clicked # 0
    /\ r.at \in {"witness", "age"} => f.provedArgs # None
    /\ Tight(f) => /\ r.cutoff = h.ageCutoffYmd
                   /\ r.at # "starting" => Busy(f)

RunsFit ==
    form # None =>
        \A k \in Clicks : runs[k] # None /\ runs[k].prover = form.prover
                              => RunFits(runs[k], form, home)

\* The proofs that f made are of the file that h has, and under the only click
\* the age proof is for the cutoff that h has.
ProofsFit(f, h) ==
    /\ f.provedArgs # None /\ ~f.provedArgs.uploaded => f.provedArgs.id = h.p7s.id
    /\ f.ageProvedArgs # None /\ ~f.ageProvedArgs.uploaded =>
          /\ f.ageProvedArgs.id = h.p7s.id
          /\ f.clicked # 0
          /\ Tight(f) => f.ageProvedArgs.cutoff = h.ageCutoffYmd /\ Busy(f)

FormFits == form # None => ProofsFit(form, home)

FlowInv == FlowTypeOK /\ FormShown /\ RunsBelow /\ RunsFit /\ FormFits

\* f may stand where the form stands: same prover and history, nothing lost.
Continues(f, h) ==
    /\ form # None
    /\ f \in Form
    /\ f.prover = form.prover /\ f.clicked = form.clicked /\ f.loose = form.loose
    /\ f.scwModal => form.scwModal
    /\ Busy(form) => Busy(f)
    /\ form.provedArgs # None => f.provedArgs # None
    /\ h.p7s = home.p7s /\ h.ageCutoffYmd = home.ageCutoffYmd
    /\ ProofsFit(f, h)

\* A form just mounted.
LEMMA FreshFits ==
    ASSUME NEW p \in Provers, NEW h
    PROVE  /\ FreshForm(p) \in Form
           /\ FreshForm(p).prover = p /\ FreshForm(p).clicked = 0 /\ ~FreshForm(p).scwModal
           /\ ProofsFit(FreshForm(p), h)
<1>1. FreshForm(p) \in Form
  BY FlowAssumption DEF FreshForm, Form
<1> QED BY <1>1 DEF FreshForm, ProofsFit

\* Rendering the page keeps the invariant.
LEMMA RenderInv ==
    ASSUME FlowInv, WorkerTypeOK', NEW h \in Home, NEW w \in Wallets \cup {None},
           NEW f \in Form \cup {None}, Render(h, w, f),
           \A k \in Clicks : runs'[k] \in {runs[k], None},
           runs' \in [Clicks -> Run \cup {None}], clicks' = clicks,
           f # None /\ Shown(h, w) => Continues(f, h)
    PROVE  FlowInv'
<1> USE DEF FlowInv
<1>0. /\ forms \in 0 .. MaxForms /\ MaxForms \in Nat /\ Provers = 1 .. MaxForms
      /\ home' = h /\ wallet' = w /\ clicks \in 0 .. MaxClicks
  BY FlowAssumption DEF Render, FlowTypeOK
<1>1. CASE ~Shown(h, w)
  <2>1. form' = None /\ forms' = forms
    BY <1>1 DEF Render
  <2> QED BY <1>0, <2>1 DEF FlowTypeOK, FormShown, RunsBelow, RunsFit, FormFits
<1>2. CASE Shown(h, w) /\ f # None
  <2>1. form' = f /\ forms' = forms
    BY <1>2 DEF Render
  <2>2. Continues(f, h)
    BY <1>2
  <2>3. FlowTypeOK' /\ RunsBelow'
    BY <1>0, <2>1 DEF FlowTypeOK, RunsBelow
  <2>4. FormShown'
    BY <1>0, <1>2, <2>1, <2>2 DEF FormShown, Continues
  <2>5. FormFits'
    BY <1>0, <2>1, <2>2 DEF FormFits, Continues
  <2>6. RunsFit'
    <3>1. ASSUME NEW k \in Clicks, runs'[k] # None, runs'[k].prover = f.prover
          PROVE  RunFits(runs'[k], f, h)
      <4>1. RunFits(runs[k], form, home) /\ runs'[k] = runs[k]
        BY <2>2, <3>1 DEF RunsFit, Continues
      <4> QED BY <2>2, <4>1 DEF RunFits, Continues, Tight
    <3> QED BY <1>0, <2>1, <3>1 DEF RunsFit
  <2> QED BY <2>3, <2>4, <2>5, <2>6
<1>3. CASE Shown(h, w) /\ f = None
  <2>1. /\ forms < MaxForms /\ forms' = forms + 1 /\ form' = FreshForm(forms + 1)
        /\ forms + 1 \in Provers
    BY <1>0, <1>3 DEF Render
  <2>2. /\ form' \in Form /\ form'.prover = forms + 1 /\ form'.clicked = 0 /\ ~form'.scwModal
        /\ ProofsFit(form', h)
    BY <2>1, FreshFits
  <2>3. \A k \in Clicks : runs'[k] # None => runs'[k].prover \in Provers /\ runs'[k].prover <= forms
    BY DEF RunsBelow, FlowTypeOK, Run
  <2>4. FlowTypeOK' /\ RunsBelow'
    BY <1>0, <2>1, <2>2, <2>3 DEF FlowTypeOK, RunsBelow
  <2>5. FormShown'
    BY <1>0, <1>3, <2>1, <2>2 DEF FormShown
  <2>6. RunsFit'
    BY <1>0, <2>1, <2>2, <2>3 DEF RunsFit
  <2>7. FormFits'
    BY <1>0, <2>2 DEF FormFits
  <2> QED BY <2>4, <2>5, <2>6, <2>7
<1> QED BY <1>1, <1>2, <1>3

\* Steps that render nothing new keep the invariant when the form that stays
\* fits the page, and the runs fit the form.
LEMMA StayInv ==
    ASSUME FlowInv, WorkerTypeOK', UNCHANGED <<wallet, forms>>, clicks' \in 0 .. MaxClicks,
           home' \in Home, Shown(home, wallet) => Shown(home', wallet),
           form = None => form' = None,
           form # None => /\ form' \in Form /\ form'.prover = form.prover
                          /\ form'.clicked <= clicks' /\ (form'.scwModal => form'.clicked # 0)
                          /\ ProofsFit(form', home'),
           runs' \in [Clicks -> Run \cup {None}],
           \A k \in Clicks : runs'[k] # None =>
               /\ runs'[k].prover <= forms
               /\ form # None /\ runs'[k].prover = form.prover => RunFits(runs'[k], form', home')
    PROVE  FlowInv'
<1>1. FlowTypeOK'
  BY DEF FlowInv, FlowTypeOK
<1>2. FormShown'
  BY DEF FlowInv, FormShown, Shown
<1>3. RunsBelow'
  BY DEF FlowInv, RunsBelow
<1>4. RunsFit'
  BY DEF RunsFit
<1>5. FormFits'
  BY DEF FormFits
<1> QED BY <1>1, <1>2, <1>3, <1>4, <1>5 DEF FlowInv

\* The same when the form loses nothing and no run goes on.
LEMMA RestInv ==
    ASSUME FlowInv, WorkerTypeOK', UNCHANGED <<wallet, forms, clicks>>,
           home' \in Home, Shown(home, wallet) => Shown(home', wallet),
           form = None => form' = None,
           form # None => Continues(form', home'),
           runs' \in [Clicks -> Run \cup {None}],
           \A k \in Clicks : runs'[k] \in {runs[k], None}
    PROVE  FlowInv'
<1>1. ASSUME NEW k \in Clicks, runs'[k] # None
      PROVE  /\ runs'[k].prover <= forms
             /\ form # None /\ runs'[k].prover = form.prover => RunFits(runs'[k], form', home')
  <2>1. runs'[k] = runs[k]
    BY <1>1
  <2>2. ASSUME form # None, runs[k].prover = form.prover
        PROVE  RunFits(runs'[k], form', home')
    <3>1. RunFits(runs[k], form, home)
      BY <1>1, <2>1, <2>2 DEF FlowInv, RunsFit
    <3> QED BY <2>1, <2>2, <3>1 DEF RunFits, Continues, Tight
  <2> QED BY <1>1, <2>1, <2>2 DEF FlowInv, RunsBelow
<1>2. clicks' \in 0 .. MaxClicks
  BY DEF FlowInv, FlowTypeOK
<1>3. form # None => /\ form' \in Form /\ form'.prover = form.prover
                     /\ form'.clicked <= clicks' /\ (form'.scwModal => form'.clicked # 0)
                     /\ ProofsFit(form', home')
  BY DEF FlowInv, FormShown, Continues
<1> QED BY <1>1, <1>2, <1>3, StayInv

\* The mounted form continues itself.
LEMMA SelfContinues ==
    ASSUME FlowInv, form # None, NEW h \in Home, h.p7s = home.p7s,
           h.ageCutoffYmd = home.ageCutoffYmd
    PROVE  Continues(form, h)
BY DEF FlowInv, FlowTypeOK, FormFits, Continues, ProofsFit, Tight

\* Nothing of the worker moves.
LEMMA WorkerRests ==
    ASSUME FlowInv, UNCHANGED wvars
    PROVE  WorkerTypeOK'
BY DEF FlowInv, FlowTypeOK, WorkerTypeOK, wvars

\* The steps of the page, and of the wallet.
LEMMA HomeInv ==
    ASSUME FlowInv,
           \/ \E w \in Wallets \cup {None} : ChangeWallet(w)
           \/ GenerateBinding
           \/ \E id \in Identities : ChooseP7s(id)
           \/ Back \/ Reset \/ Disconnect
    PROVE  FlowInv'
<1>0. /\ home \in Home /\ form \in Form \cup {None} /\ wallet \in Wallets \cup {None}
      /\ runs \in [Clicks -> Run \cup {None}]
      /\ form # None => home.step \in {3, 4}
  BY DEF FlowInv, FlowTypeOK, FormShown, Shown
<1>1. ASSUME NEW h \in Home, NEW w \in Wallets \cup {None}, Render(h, w, form),
             UNCHANGED <<wvars, runs, clicks>>,
             form # None /\ Shown(h, w) =>
                 h.p7s = home.p7s /\ h.ageCutoffYmd = home.ageCutoffYmd
      PROVE  FlowInv'
  <2>1. form # None /\ Shown(h, w) => Continues(form, h)
    BY <1>1, SelfContinues
  <2> QED BY <1>0, <1>1, <2>1, WorkerRests, RenderInv
<1>2. ASSUME NEW w \in Wallets \cup {None}, ChangeWallet(w) PROVE FlowInv'
  BY <1>0, <1>1, <1>2 DEF ChangeWallet
<1>3. CASE GenerateBinding
  <2> DEFINE h1 == [home EXCEPT !.step = 2]
             h2 == [h1 EXCEPT !.pk = wallet]
  <2>1. Render(h2, wallet, form) /\ UNCHANGED <<wvars, runs, clicks>> /\ form = None
    BY <1>0, <1>3 DEF GenerateBinding
  <2>2. h1 \in Home
    BY <1>0 DEF Home
  <2> HIDE DEF h1
  <2>3. h2 \in Home
    BY <1>0, <2>2 DEF Home
  <2> QED BY <1>0, <1>1, <2>1, <2>3
<1>4. ASSUME NEW id \in Identities, ChooseP7s(id) PROVE FlowInv'
  <2> DEFINE p7s == [id |-> id, pk |-> home.pk]
             h1 == [home EXCEPT !.step = 3]
             h2 == [h1 EXCEPT !.p7s = p7s]
  <2>1. Render(h2, wallet, form) /\ UNCHANGED <<wvars, runs, clicks>> /\ form = None
    <3>0. UNCHANGED <<wvars, runs, clicks>> /\ home.step = 2
      BY <1>4, Zenon DEF ChooseP7s
    <3>1. Render([home EXCEPT !.step = 3, !.p7s = p7s], wallet, form)
      BY <1>4, Zenon DEF ChooseP7s
    <3> HIDE DEF p7s
    <3>2. h2 = [home EXCEPT !.step = 3, !.p7s = p7s]
      OBVIOUS
    <3> QED BY <1>0, <3>0, <3>1, <3>2
  <2>2. p7s \in P7s
    <3>1. home.pk \in Wallets
      BY <1>0, <1>4 DEF Home, ChooseP7s
    <3> QED BY <3>1 DEF P7s
  <2>3. h1 \in Home
    BY <1>0 DEF Home
  <2> HIDE DEF p7s, h1
  <2>4. h2 \in Home
    BY <2>2, <2>3 DEF Home
  <2> QED BY <1>0, <1>1, <2>1, <2>4
<1>5. CASE Back
  <2>1. home.step \in {2, 3, 4}
    BY <1>0, <1>5 DEF Back
  <2>2. [home EXCEPT !.step = home.step - 1] \in Home
    BY <1>0, <2>1 DEF Home
  <2>3. Render([home EXCEPT !.step = home.step - 1], wallet, form)
        /\ UNCHANGED <<wvars, runs, clicks>>
    BY <1>5 DEF Back
  <2>4. /\ [home EXCEPT !.step = home.step - 1].p7s = home.p7s
        /\ [home EXCEPT !.step = home.step - 1].ageCutoffYmd = home.ageCutoffYmd
    BY <1>0 DEF Home
  <2> QED BY <1>0, <1>1, <2>2, <2>3, <2>4
<1>6. CASE Reset
  <2> DEFINE h1 == [home EXCEPT !.step = 1]
             h2 == [h1 EXCEPT !.pk = None]
             h3 == [h2 EXCEPT !.p7s = None]
  <2>1. Render(h3, wallet, form) /\ UNCHANGED <<wvars, runs, clicks>>
    BY <1>6 DEF Reset
  <2>2. h1 \in Home /\ h1.step = 1
    BY <1>0 DEF Home
  <2> HIDE DEF h1
  <2>3. h2 \in Home /\ h2.step = 1
    BY <2>2 DEF Home
  <2> HIDE DEF h2
  <2>4. h3 \in Home /\ h3.step = 1
    BY <2>3 DEF Home
  <2>5. ~Shown(h3, wallet)
    BY <2>4 DEF Shown
  <2> HIDE DEF h3
  <2> QED BY <1>0, <1>1, <2>1, <2>4, <2>5
<1>7. CASE Disconnect
  <2> DEFINE h1 == [home EXCEPT !.pk = None]
             h2 == [h1 EXCEPT !.p7s = None]
  <2>1. Render(h2, None, form) /\ UNCHANGED <<wvars, runs, clicks>> /\ form = None
    BY <1>0, <1>7 DEF Disconnect
  <2>2. h1 \in Home
    BY <1>0 DEF Home
  <2> HIDE DEF h1
  <2>3. h2 \in Home
    BY <2>2 DEF Home
  <2> QED BY <1>0, <1>1, <2>1, <2>3
<1> QED BY <1>2, <1>3, <1>4, <1>5, <1>6, <1>7

\* A form shows a page with a key and a file over that key's binding.
LEMMA FormFacts ==
    ASSUME FlowInv, form # None
    PROVE  /\ form \in Form /\ home \in Home
           /\ wallet \in Wallets /\ home.pk \in Wallets /\ home.p7s \in P7s
           /\ home.step \in {3, 4}
           /\ form.prover = forms /\ form.clicked <= clicks
           /\ form.scwModal => form.clicked # 0
           /\ ProofsFit(form, home)
BY DEF FlowInv, FlowTypeOK, FormShown, FormFits, Shown, Home

\* The age card: the inputs change only where no proof and no run depends on
\* them, or the form is no longer tight.
LEMMA CardInv ==
    ASSUME FlowInv, ChangeOptIn \/ \E c \in Cutoffs : ChangeCutoff(c)
    PROVE  FlowInv'
<1>1. CASE ChangeOptIn
  <2>1. home' \in Home /\ home'.p7s = home.p7s /\ home'.ageCutoffYmd = home.ageCutoffYmd
        /\ home'.step = home.step /\ home'.pk = home.pk
    BY <1>1 DEF FlowInv, FlowTypeOK, ChangeOptIn, Home
  <2>2. UNCHANGED <<wvars, wallet, form, runs, forms, clicks>> /\ form # None
    BY <1>1 DEF ChangeOptIn, Proving
  <2>3. Continues(form', home')
    BY <2>1, <2>2, SelfContinues
  <2>4. Shown(home, wallet) => Shown(home', wallet)
    BY <2>1 DEF Shown
  <2>5. runs' \in [Clicks -> Run \cup {None}] /\ \A k \in Clicks : runs'[k] \in {runs[k], None}
    BY <2>2 DEF FlowInv, FlowTypeOK
  <2> QED BY <2>1, <2>2, <2>3, <2>4, <2>5, WorkerRests, RestInv
<1>2. ASSUME NEW c \in Cutoffs, ChangeCutoff(c) PROVE FlowInv'
  <2>1. /\ form # None /\ ~Busy(form)
        /\ home' = [home EXCEPT !.ageCutoffYmd = c]
        /\ UNCHANGED <<wvars, wallet, runs, forms, clicks>>
    BY <1>2 DEF ChangeCutoff, Proving, Locked, Busy
  <2>2. PICK l \in BOOLEAN :
            /\ form' = [form EXCEPT !.loose = l]
            /\ l <=> \/ form.loose
                     \/ form.clicked = 1
                        /\ \E k \in RunsOf(form.prover) : runs[k].at = "starting"
    BY <1>2 DEF ChangeCutoff
  <2>3. /\ home' \in Home /\ home'.p7s = home.p7s /\ home'.step = home.step
        /\ home'.pk = home.pk
    BY <2>1, FormFacts DEF Home
  <2>4. /\ form' \in Form /\ form'.prover = form.prover /\ form'.clicked = form.clicked
        /\ form'.scwModal = form.scwModal /\ form'.provedArgs = form.provedArgs
        /\ form'.ageProvedArgs = form.ageProvedArgs /\ form'.loose = l
    BY <2>1, <2>2, FormFacts DEF Form
  <2>5. ProofsFit(form', home')
    BY <2>1, <2>2, <2>3, <2>4, FormFacts DEF ProofsFit, Tight
  <2>6. ASSUME NEW k \in Clicks, runs[k] # None
        PROVE  /\ runs[k].prover <= forms
               /\ runs[k].prover = form.prover => RunFits(runs[k], form', home')
    <3>1. ASSUME runs[k].prover = form.prover
          PROVE  RunFits(runs[k], form, home) /\ ~Tight(form')
      <4>1. RunFits(runs[k], form, home)
        BY <2>1, <2>6, <3>1 DEF FlowInv, RunsFit
      <4>2. k \in RunsOf(form.prover)
        BY <2>6, <3>1 DEF RunsOf
      <4> QED BY <2>1, <2>2, <2>4, <4>1, <4>2 DEF RunFits, Tight
    <3> QED BY <2>3, <2>4, <2>6, <3>1 DEF FlowInv, RunsBelow, RunFits
  <2>7. /\ Shown(home, wallet) => Shown(home', wallet)
        /\ clicks' \in 0 .. MaxClicks /\ runs' \in [Clicks -> Run \cup {None}]
    BY <2>1, <2>3 DEF Shown, FlowInv, FlowTypeOK
  <2>8. form'.clicked <= clicks' /\ (form'.scwModal => form'.clicked # 0)
    BY <2>1, <2>4, FormFacts
  <2> QED BY <2>1, <2>3, <2>4, <2>5, <2>6, <2>7, <2>8, WorkerRests, StayInv
<1> QED BY <1>1, <1>2

\* A run that starts has what the page has.
LEMMA StartedFits ==
    ASSUME FlowInv, form # None
    PROVE  /\ Started \in Run /\ Started.prover = form.prover
           /\ Started.p7s = home.p7s /\ Started.cutoff = home.ageCutoffYmd
           /\ Started.at = "starting"
<1>1. form.prover \in Provers /\ home.pk \in Wallets /\ home.p7s \in P7s
      /\ home.ageOptIn \in BOOLEAN /\ home.ageCutoffYmd \in Cutoffs
  BY FormFacts DEF Form, Home
<1> QED BY <1>1 DEF Started, Run

\* A click opens the passphrase dialog, or starts a run that fits the form.
LEMMA ClickInv ==
    ASSUME FlowInv, Click
    PROVE  FlowInv'
<1> DEFINE f1 == [form EXCEPT !.stage = FALSE]
           f2 == [f1 EXCEPT !.pipelineDone = FALSE]
           f3 == [f2 EXCEPT !.clicked = form.clicked + 1]
           f4 == [f3 EXCEPT !.loose = FALSE]
           f5 == [f4 EXCEPT !.scwModal = TRUE]
<1>1. /\ form # None /\ ~form.scwModal /\ clicks < MaxClicks /\ clicks' = clicks + 1
      /\ UNCHANGED <<wvars, wallet, home, forms>>
  BY DEF Click, Proving
<1>2. \/ form' = f5 /\ UNCHANGED runs
      \/ form' = f4 /\ runs' = [runs EXCEPT ![clicks'] = Started]
  BY DEF Click
<1>3. /\ form \in Form /\ home \in Home /\ form.clicked <= clicks
      /\ clicks \in 0 .. MaxClicks /\ MaxClicks \in Nat /\ form.clicked \in 0 .. MaxClicks
      /\ runs \in [Clicks -> Run \cup {None}] /\ clicks' \in Clicks
      /\ clicks' \in 0 .. MaxClicks
  BY <1>1, FormFacts, FlowAssumption DEF FlowInv, FlowTypeOK, Form, Clicks
<1> DEFINE Was(f) == /\ f \in Form /\ f.prover = form.prover /\ f.provedArgs = form.provedArgs
                     /\ f.ageProvedArgs = form.ageProvedArgs
<1>4. Was(f1) /\ f1.clicked = form.clicked /\ ~f1.scwModal
  BY <1>1, <1>3 DEF Form
<1> HIDE DEF f1
<1>5. Was(f2) /\ f2.clicked = form.clicked /\ ~f2.scwModal
  BY <1>4 DEF Form
<1> HIDE DEF f2
<1>6. Was(f3) /\ f3.clicked = form.clicked + 1 /\ ~f3.scwModal
  BY <1>1, <1>3, <1>5 DEF Form
<1> HIDE DEF f3
<1>7. Was(f4) /\ f4.clicked = form.clicked + 1 /\ ~f4.scwModal /\ ~f4.loose
  BY <1>6 DEF Form
<1> HIDE DEF f4
<1>8. Was(f5) /\ f5.clicked = form.clicked + 1 /\ ~f5.loose
  BY <1>7 DEF Form
<1> HIDE DEF f5
<1>9. PICK f : /\ form' = f /\ f \in Form /\ f.prover = form.prover
               /\ f.provedArgs = form.provedArgs /\ f.ageProvedArgs = form.ageProvedArgs
               /\ f.clicked = form.clicked + 1 /\ ~f.loose
  BY <1>2, <1>7, <1>8
<1> HIDE DEF Was
<1>10. /\ ProofsFit(f, home)
       /\ f.clicked <= clicks' /\ f.clicked # 0
       /\ Tight(f) => form.clicked = 0
  <2>1. ProofsFit(form, home)
    BY <1>1, FormFacts
  <2>2. Tight(f) => form.clicked = 0
    BY <1>3, <1>9 DEF Tight
  <2> QED BY <1>1, <1>3, <1>9, <2>1, <2>2 DEF ProofsFit
<1>11. ASSUME NEW k \in Clicks, runs[k] # None
       PROVE  /\ runs[k].prover <= forms
              /\ runs[k].prover = form.prover => RunFits(runs[k], f, home)
  <2>1. ASSUME runs[k].prover = form.prover PROVE RunFits(runs[k], f, home)
    <3>1. RunFits(runs[k], form, home)
      BY <1>1, <1>11, <2>1 DEF FlowInv, RunsFit
    <3> QED BY <1>9, <1>10, <3>1 DEF RunFits
  <2> QED BY <1>11, <2>1 DEF FlowInv, RunsBelow
<1>12. /\ Started \in Run /\ Started.prover <= forms
       /\ RunFits(Started, f, home)
  <2>1. Started.prover <= forms
    <3>1. Started.prover = forms /\ forms \in 0 .. MaxForms
      BY <1>1, StartedFits, FormFacts DEF FlowInv, FlowTypeOK
    <3> QED BY <3>1, FlowAssumption
  <2> QED BY <1>1, <1>10, <2>1, StartedFits DEF RunFits
<1>13. ASSUME NEW k \in Clicks, runs'[k] # None
       PROVE  /\ runs'[k].prover <= forms
              /\ runs'[k].prover = form.prover => RunFits(runs'[k], f, home)
  <2>1. runs'[k] = runs[k] \/ runs'[k] = Started
    BY <1>2, <1>3
  <2> QED BY <1>11, <1>12, <1>13, <2>1
<1>14. runs' \in [Clicks -> Run \cup {None}]
  BY <1>2, <1>3, <1>12
<1> QED BY <1>1, <1>3, <1>9, <1>10, <1>13, <1>14, WorkerRests, StayInv

\* The dialog is left, with a run or without.
LEMMA PassphraseInv ==
    ASSUME FlowInv, SubmitPassphrase \/ CancelPassphrase
    PROVE  FlowInv'
<1>1. /\ form # None /\ form.scwModal /\ form' = [form EXCEPT !.scwModal = FALSE]
      /\ UNCHANGED <<wvars, wallet, home, forms, clicks>>
      /\ runs' \in {runs, [runs EXCEPT ![clicks] = Started]}
  BY DEF SubmitPassphrase, CancelPassphrase
<1>2. /\ form \in Form /\ home \in Home /\ form.clicked <= clicks /\ form.clicked # 0
      /\ clicks \in 0 .. MaxClicks /\ MaxClicks \in Nat /\ form.clicked \in 0 .. MaxClicks
      /\ runs \in [Clicks -> Run \cup {None}] /\ ProofsFit(form, home)
  BY <1>1, FormFacts, FlowAssumption DEF FlowInv, FlowTypeOK, Form
<1>3. /\ form' \in Form /\ form'.prover = form.prover /\ form'.clicked = form.clicked
      /\ form'.loose = form.loose /\ form'.provedArgs = form.provedArgs /\ ~form'.scwModal
      /\ form'.ageProvedArgs = form.ageProvedArgs
      /\ form'.stage = form.stage /\ form'.pipelineDone = form.pipelineDone
  BY <1>1, <1>2 DEF Form
<1>4. ProofsFit(form', home)
  BY <1>2, <1>3 DEF ProofsFit, Tight, Busy
<1>5. ASSUME NEW k \in Clicks, runs[k] # None
      PROVE  /\ runs[k].prover <= forms
             /\ runs[k].prover = form.prover => RunFits(runs[k], form', home)
  <2>1. ASSUME runs[k].prover = form.prover PROVE RunFits(runs[k], form', home)
    <3>1. RunFits(runs[k], form, home)
      BY <1>1, <1>5, <2>1 DEF FlowInv, RunsFit
    <3> QED BY <1>3, <3>1 DEF RunFits, Tight, Busy
  <2> QED BY <1>5, <2>1 DEF FlowInv, RunsBelow
<1>6. /\ Started \in Run /\ Started.prover <= forms
      /\ RunFits(Started, form', home)
  <2>1. Started.prover <= forms
    <3>1. Started.prover = forms /\ forms \in 0 .. MaxForms
      BY <1>1, StartedFits, FormFacts DEF FlowInv, FlowTypeOK
    <3> QED BY <3>1, FlowAssumption
  <2> QED BY <1>1, <1>2, <1>3, <2>1, StartedFits DEF RunFits
<1>7. ASSUME NEW k \in Clicks, runs'[k] # None
      PROVE  /\ runs'[k].prover <= forms
             /\ runs'[k].prover = form.prover => RunFits(runs'[k], form', home)
  <2>1. runs'[k] = runs[k] \/ runs'[k] = Started
    BY <1>1, <1>2
  <2> QED BY <1>5, <1>6, <1>7, <2>1
<1>8. runs' \in [Clicks -> Run \cup {None}]
  BY <1>1, <1>2, <1>6
<1> QED BY <1>1, <1>2, <1>3, <1>4, <1>7, <1>8, WorkerRests, StayInv

\* A file is reviewed as one that other sessions made.
LEMMA UploadInv ==
    ASSUME FlowInv, NEW file \in Files, Upload(file)
    PROVE  FlowInv'
<1> DEFINE age == IF file.age = None THEN form.ageProvedArgs ELSE file.age
           f1 == [form EXCEPT !.provedArgs = file.args]
           f2 == [f1 EXCEPT !.pipelineDone = TRUE]
           f3 == [f2 EXCEPT !.ageProvedArgs = age]
           h == [home EXCEPT !.step = 4]
<1>1. /\ form # None /\ Render(h, wallet, f3)
      /\ UNCHANGED <<wvars, runs, clicks>>
  BY DEF Upload, Proving
<1>2. /\ file.args \in Args /\ file.args # None /\ file.args.uploaded
      /\ file.age \in AgeArgs \cup {None}
      /\ file.age # None => file.age.uploaded
  BY FlowAssumption
<1>3. /\ form \in Form /\ home \in Home /\ ProofsFit(form, home)
      /\ wallet \in Wallets /\ runs \in [Clicks -> Run \cup {None}]
  BY <1>1, FormFacts DEF FlowInv, FlowTypeOK
<1>4. /\ age \in AgeArgs \cup {None}
      /\ age = form.ageProvedArgs \/ age.uploaded
  BY <1>2, <1>3 DEF Form
<1> HIDE DEF age
<1> DEFINE Was(f) == /\ f \in Form /\ f.prover = form.prover /\ f.clicked = form.clicked
                     /\ f.loose = form.loose /\ f.scwModal = form.scwModal
                     /\ f.provedArgs = file.args
<1>5. Was(f1)
  BY <1>2, <1>3 DEF Form
<1>6. f1.ageProvedArgs = form.ageProvedArgs
  BY <1>3 DEF Form
<1> HIDE DEF f1
<1>7. Was(f2) /\ f2.pipelineDone
  BY <1>5 DEF Form
<1> HIDE DEF f2
<1>8. Was(f3) /\ f3.pipelineDone /\ f3.ageProvedArgs = age
  BY <1>4, <1>7 DEF Form
<1> HIDE DEF f3
<1>9. h \in Home /\ h.p7s = home.p7s /\ h.ageCutoffYmd = home.ageCutoffYmd
  BY <1>3 DEF Home
<1> HIDE DEF h
<1>10. ProofsFit(f3, h)
  <2>1. f3.provedArgs.uploaded
    BY <1>2, <1>8
  <2>2. CASE age.uploaded
    BY <1>8, <2>1, <2>2 DEF ProofsFit
  <2>3. CASE age = form.ageProvedArgs
    BY <1>3, <1>8, <1>9, <2>1, <2>3 DEF ProofsFit, Tight, Busy
  <2> QED BY <1>4, <2>2, <2>3
<1>11. Continues(f3, h)
  BY <1>1, <1>2, <1>8, <1>9, <1>10 DEF Continues, Busy
<1>12. f3 \in Form \cup {None} /\ \A k \in Clicks : runs'[k] \in {runs[k], None}
  BY <1>1, <1>8
<1> QED BY <1>1, <1>3, <1>9, <1>11, <1>12, WorkerRests, RenderInv

\* A transaction is asked for, and answered.
LEMMA SubmitInv ==
    ASSUME FlowInv, Submit \/ Answer
    PROVE  FlowInv'
<1>1. form # None /\ UNCHANGED <<wvars, wallet, home, runs, forms, clicks>>
  BY DEF Submit, Answer
<1>2. form \in Form /\ home \in Home /\ wallet \in Wallets /\ ProofsFit(form, home)
  BY <1>1, FormFacts
<1>3. ASSUME NEW tx \in Tx \cup {None}, form' = [form EXCEPT !.tx = tx]
      PROVE  FlowInv'
  <2>1. /\ form' \in Form /\ form'.prover = form.prover /\ form'.clicked = form.clicked
        /\ form'.loose = form.loose /\ form'.scwModal = form.scwModal
        /\ form'.stage = form.stage /\ form'.pipelineDone = form.pipelineDone
        /\ form'.provedArgs = form.provedArgs /\ form'.ageProvedArgs = form.ageProvedArgs
    BY <1>2, <1>3 DEF Form
  <2>2. Continues(form', home')
    BY <1>1, <1>2, <2>1 DEF Continues, ProofsFit, Tight, Busy
  <2>3. /\ runs' \in [Clicks -> Run \cup {None}] /\ \A k \in Clicks : runs'[k] \in {runs[k], None}
        /\ Shown(home', wallet) = Shown(home, wallet)
    BY <1>1 DEF FlowInv, FlowTypeOK
  <2> QED BY <1>1, <1>2, <2>2, <2>3, WorkerRests, RestInv
<1>4. CASE Submit
  <2> DEFINE tx == [at |-> "pending", from |-> wallet, args |-> form.provedArgs,
                    age |-> form.ageProvedArgs, cutoff |-> home.ageCutoffYmd]
  <2>1. /\ form.provedArgs \in Args /\ form.ageProvedArgs \in AgeArgs \cup {None}
        /\ home.ageCutoffYmd \in Cutoffs
    BY <1>2, <1>4 DEF Submit, Form, Home
  <2>2. tx \in Tx
    BY <1>2, <2>1 DEF Tx
  <2>3. form' = [form EXCEPT !.tx = tx]
    BY <1>4, Zenon DEF Submit
  <2> HIDE DEF tx
  <2> QED BY <1>3, <2>2, <2>3
<1>5. CASE Answer
  <2>1. form.tx \in Tx
    BY <1>2, <1>5 DEF Answer, Form
  <2>2. [form.tx EXCEPT !.at = "sent"] \in Tx
    BY <2>1 DEF Tx
  <2>3. \/ form' = [form EXCEPT !.tx = None]
        \/ form' = [form EXCEPT !.tx = [form.tx EXCEPT !.at = "sent"]]
    BY <1>5 DEF Answer
  <2> QED BY <1>3, <2>2, <2>3
<1> QED BY <1>4, <1>5

-----------------------------------------------------------------------------
(***************************************************************************)
(* Runs of the wizard                                                      *)
(***************************************************************************)
LEMMA RunFacts ==
    ASSUME FlowInv, NEW k \in Clicks, runs[k] # None
    PROVE  /\ runs[k] \in Run /\ runs[k].prover \in Provers /\ runs[k].prover <= forms
           /\ home \in Home /\ forms \in Nat
           /\ form # None => form \in Form /\ ProofsFit(form, home)
           /\ Mounted(k) => form # None /\ RunFits(runs[k], form, home)
<1>1. runs[k] \in Run /\ home \in Home /\ forms \in 0 .. MaxForms
  BY DEF FlowInv, FlowTypeOK
<1>2. runs[k].prover \in Provers /\ runs[k].prover <= forms
  BY <1>1 DEF FlowInv, RunsBelow, Run
<1>3. Mounted(k) => form # None /\ RunFits(runs[k], form, home)
  BY DEF Mounted, FlowInv, RunsFit
<1> QED BY <1>1, <1>2, <1>3, FormFacts, FlowAssumption

\* A run that goes on, with what the form learns of it.
LEMMA GoesInv ==
    ASSUME FlowInv, WorkerTypeOK', NEW k \in Clicks, runs[k] # None,
           NEW at \in {"proving", "witness", "age"}, Goes(k, at),
           UNCHANGED <<wallet, home, forms, clicks>>,
           form = None => form' = None,
           form # None => Continues(form', home),
           Mounted(k) => /\ Tight(form') => Busy(form')
                         /\ at \in {"witness", "age"} => form'.provedArgs # None
    PROVE  FlowInv'
<1>1. /\ runs[k] \in Run /\ runs[k].prover <= forms /\ home \in Home
      /\ Mounted(k) => form # None /\ RunFits(runs[k], form, home)
  BY RunFacts
<1>2. runs \in [Clicks -> Run \cup {None}] /\ clicks \in 0 .. MaxClicks
  BY DEF FlowInv, FlowTypeOK
<1>3. runs' = [runs EXCEPT ![k] = [runs[k] EXCEPT !.at = at]]
  BY DEF Goes
<1>4. PICK r : /\ r = [runs[k] EXCEPT !.at = at]
               /\ r \in Run /\ r.at = at /\ r.prover = runs[k].prover /\ r.p7s = runs[k].p7s
               /\ r.cutoff = runs[k].cutoff
  <2>1. [runs[k] EXCEPT !.at = at] \in Run
    BY <1>1 DEF Run
  <2>2. LET r == [runs[k] EXCEPT !.at = at]
        IN r.at = at /\ r.prover = runs[k].prover /\ r.p7s = runs[k].p7s
           /\ r.cutoff = runs[k].cutoff
    BY <1>1 DEF Run
  <2> QED BY <2>1, <2>2
<1>5. Mounted(k) => RunFits(r, form', home)
  BY <1>1, <1>4 DEF RunFits, Continues, Tight
<1>6. \A j \in Clicks : runs'[j] = IF j = k THEN r ELSE runs[j]
  BY <1>2, <1>3, <1>4
<1>7. runs' \in [Clicks -> Run \cup {None}]
  BY <1>2, <1>3, <1>4
<1>8. ASSUME NEW j \in Clicks, runs'[j] # None
      PROVE  /\ runs'[j].prover <= forms
             /\ form # None /\ runs'[j].prover = form.prover => RunFits(runs'[j], form', home)
  <2>1. CASE j = k
    BY <1>1, <1>4, <1>5, <1>6, <2>1 DEF Mounted
  <2>2. CASE j # k
    <3>1. runs'[j] = runs[j] /\ runs[j].prover <= forms
      BY <1>6, <1>8, <2>2 DEF FlowInv, RunsBelow
    <3>2. ASSUME form # None, runs[j].prover = form.prover
          PROVE  RunFits(runs[j], form', home)
      <4>1. RunFits(runs[j], form, home)
        BY <1>8, <3>1, <3>2 DEF FlowInv, RunsFit
      <4> QED BY <3>2, <4>1 DEF RunFits, Continues, Tight
    <3> QED BY <3>1, <3>2
  <2> QED BY <2>1, <2>2
<1>9. form # None => /\ form' \in Form /\ form'.prover = form.prover
                     /\ form'.clicked <= clicks' /\ (form'.scwModal => form'.clicked # 0)
                     /\ ProofsFit(form', home')
  BY FormFacts DEF Continues
<1> QED BY <1>1, <1>2, <1>7, <1>8, <1>9, StayInv

\* A run that ends, and the page that may go on.
LEMMA EndsFacts ==
    ASSUME FlowInv, NEW k \in Clicks, Ends(k)
    PROVE  /\ runs' \in [Clicks -> Run \cup {None}]
           /\ \A j \in Clicks : runs'[j] \in {runs[j], None}
BY DEF FlowInv, FlowTypeOK, Ends

\* setStep(4) over the form as it is or with what the run gave it.
LEMMA CompleteInv ==
    ASSUME FlowInv, WorkerTypeOK', NEW k \in Clicks, NEW f \in Form \cup {None},
           Complete(k, f), clicks' = clicks,
           f # None => Continues(f, [home EXCEPT !.step = 4])
    PROVE  FlowInv'
<1> DEFINE h == [home EXCEPT !.step = 4]
<1>1. h \in Home
  BY DEF FlowInv, FlowTypeOK, Home
<1>2. Render(h, wallet, f) /\ Ends(k) /\ wallet \in Wallets \cup {None}
  BY DEF Complete, FlowInv, FlowTypeOK
<1> HIDE DEF h
<1>3. f # None => Continues(f, h)
  BY DEF h
<1> QED BY <1>1, <1>2, <1>3, EndsFacts, RenderInv

\* The form that the pipeline's result leaves.
LEMMA ProvedForm ==
    ASSUME FlowInv, NEW k \in Clicks, runs[k] # None, Mounted(k),
           NEW args \in Args, ~args.uploaded, args.id = runs[k].p7s.id,
           NEW h \in Home, h.p7s = home.p7s, h.ageCutoffYmd = home.ageCutoffYmd,
           NEW f, f = [form EXCEPT !.pipelineDone = TRUE, !.provedArgs = args]
    PROVE  Continues(f, h) /\ f.provedArgs # None /\ Busy(f)
<1>1. /\ form # None /\ form \in Form /\ ProofsFit(form, home)
      /\ runs[k].p7s = home.p7s /\ args # None
  BY RunFacts, FlowAssumption DEF RunFits
<1> DEFINE f1 == [form EXCEPT !.pipelineDone = TRUE]
<1>2. f = [f1 EXCEPT !.provedArgs = args]
  OBVIOUS
<1>3. /\ f1 \in Form /\ f1.prover = form.prover /\ f1.clicked = form.clicked
      /\ f1.loose = form.loose /\ f1.scwModal = form.scwModal
      /\ f1.ageProvedArgs = form.ageProvedArgs /\ f1.pipelineDone
  BY <1>1 DEF Form
<1> HIDE DEF f1
<1>4. /\ f \in Form /\ f.prover = form.prover /\ f.clicked = form.clicked
      /\ f.loose = form.loose /\ f.scwModal = form.scwModal
      /\ f.ageProvedArgs = form.ageProvedArgs /\ f.pipelineDone
      /\ f.provedArgs = args
  BY <1>2, <1>3 DEF Form
<1>5. ProofsFit(f, h)
  BY <1>1, <1>4 DEF ProofsFit, Tight, Busy
<1> QED BY <1>1, <1>4, <1>5 DEF Continues, Busy

LEMMA ProvedInv ==
    ASSUME FlowInv, NEW k \in Clicks, Proved(k)
    PROVE  FlowInv'
<1> DEFINE args == [id |-> runs[k].p7s.id, pk |-> runs[k].pk, uploaded |-> FALSE]
           g == [form EXCEPT !.pipelineDone = TRUE, !.provedArgs = args]
           f == IF Mounted(k) THEN g ELSE form
           h == [home EXCEPT !.step = 4]
<1>1. /\ runs[k] # None /\ runs[k].at = "proving" /\ UNCHANGED <<wvars, clicks>>
  BY DEF Proved, At
<1>2. \/ Goes(k, "witness") /\ form' = f /\ UNCHANGED <<wallet, home, forms>>
      \/ Complete(k, f)
  BY DEF Proved
<1>3. runs[k] \in Run /\ home \in Home /\ form \in Form \cup {None} /\ WorkerTypeOK'
  BY <1>1, RunFacts, WorkerRests DEF FlowInv, FlowTypeOK
<1>4. args \in Args /\ ~args.uploaded /\ args.id = runs[k].p7s.id
  BY <1>3 DEF Run, Args, P7s
<1>5. h \in Home /\ h.p7s = home.p7s /\ h.ageCutoffYmd = home.ageCutoffYmd
  BY <1>3 DEF Home
<1> HIDE DEF args, h
<1>6. Mounted(k) => /\ Continues(g, h) /\ Continues(g, home)
                    /\ g.provedArgs # None /\ Busy(g) /\ form # None
  BY <1>1, <1>3, <1>4, <1>5, ProvedForm DEF Mounted
<1>7. /\ form # None => Continues(f, h) /\ Continues(f, home)
      /\ Mounted(k) => f.provedArgs # None /\ Busy(f)
      /\ f \in Form \cup {None}
      /\ f = None \/ form # None
  <2>1. CASE Mounted(k)
    BY <1>6, <2>1 DEF Continues
  <2>2. CASE ~Mounted(k)
    BY <1>3, <1>5, <2>2, SelfContinues
  <2> QED BY <2>1, <2>2
<1> HIDE DEF f, g
<1>8. CASE Goes(k, "witness") /\ form' = f /\ UNCHANGED <<wallet, home, forms>>
  <2>1. form = None => form' = None
    BY <1>7, <1>8
  <2>2. form # None => Continues(form', home)
    BY <1>7, <1>8
  <2>3. Mounted(k) => (Tight(form') => Busy(form')) /\ form'.provedArgs # None
    BY <1>7, <1>8
  <2> QED BY <1>1, <1>3, <1>8, <2>1, <2>2, <2>3, GoesInv
<1>9. CASE Complete(k, f)
  <2>1. f # None => Continues(f, [home EXCEPT !.step = 4])
    BY <1>7 DEF h
  <2> QED BY <1>1, <1>3, <1>7, <1>9, <2>1, CompleteInv
<1> QED BY <1>2, <1>8, <1>9

\* Progress, failure, and the age proof on its way.
LEMMA RunInv ==
    ASSUME FlowInv, NEW k \in Clicks, Progress(k) \/ Fails(k) \/ ProveAge(k)
    PROVE  FlowInv'
<1>1. runs[k] # None
  BY DEF Progress, Fails, ProveAge, At
<1>2. /\ home \in Home /\ runs[k].prover \in Provers
      /\ form # None => form \in Form /\ ProofsFit(form, home)
      /\ Mounted(k) => form # None /\ RunFits(runs[k], form, home)
  BY <1>1, RunFacts
<1>3. CASE Progress(k)
  <2>1. /\ Goes(k, "proving") /\ UNCHANGED <<wvars, wallet, home, forms, clicks>>
        /\ form' = IF Mounted(k) THEN [form EXCEPT !.stage = TRUE] ELSE form
    BY <1>3 DEF Progress
  <2>2. Mounted(k) => Continues(form', home) /\ Busy(form')
    <3> SUFFICES ASSUME Mounted(k) PROVE Continues(form', home) /\ Busy(form')
      OBVIOUS
    <3>1. form # None /\ form \in Form /\ form' = [form EXCEPT !.stage = TRUE]
      BY <1>2, <2>1
    <3>2. /\ form' \in Form /\ form'.prover = form.prover /\ form'.clicked = form.clicked
          /\ form'.loose = form.loose /\ form'.scwModal = form.scwModal
          /\ form'.ageProvedArgs = form.ageProvedArgs /\ form'.stage
          /\ form'.provedArgs = form.provedArgs
      BY <3>1 DEF Form
    <3> QED BY <1>2, <3>1, <3>2 DEF Continues, ProofsFit, Tight, Busy
  <2>3. form # None => Continues(form', home)
    BY <1>2, <2>1, <2>2, SelfContinues
  <2>4. form = None => form' = None
    BY <1>2, <2>1
  <2> QED BY <1>1, <2>1, <2>2, <2>3, <2>4, WorkerRests, GoesInv
<1>4. CASE Fails(k)
  <2>1. Ends(k) /\ UNCHANGED <<wvars, wallet, home, form, forms, clicks>>
    BY <1>4 DEF Fails
  <2> QED BY <1>2, <2>1, EndsFacts, WorkerRests, SelfContinues, RestInv
<1>5. CASE ProveAge(k)
  <2>1. /\ Goes(k, "age") /\ UNCHANGED <<wallet, home, form, forms, clicks>>
        /\ runs[k].at = "witness" /\ Prove(k, runs[k].prover)
    BY <1>5 DEF ProveAge, At
  <2>2. WorkerTypeOK'
    BY <1>2, <2>1, WorkerType, FlowAssumption DEF FlowInv, FlowTypeOK
  <2>3. Mounted(k) => form.provedArgs # None /\ (Tight(form) => Busy(form))
    BY <1>2, <2>1 DEF RunFits
  <2>4. /\ Mounted(k) => form'.provedArgs # None /\ (Tight(form') => Busy(form'))
        /\ form # None => Continues(form', home)
    BY <1>2, <2>1, <2>3, SelfContinues
  <2> QED BY <1>1, <2>1, <2>2, <2>4, GoesInv
<1> QED BY <1>3, <1>4, <1>5

\* The age proof, when its run is of the mounted form, fits it.
LEMMA AgeForm ==
    ASSUME FlowInv, NEW k \in Clicks, runs[k] # None, runs[k].at = "age", Mounted(k),
           NEW age \in AgeArgs, age.id = runs[k].p7s.id, age.cutoff = runs[k].cutoff,
           NEW h \in Home, h.p7s = home.p7s, h.ageCutoffYmd = home.ageCutoffYmd,
           NEW f, f = [form EXCEPT !.ageProvedArgs = age]
    PROVE  Continues(f, h)
<1>1. /\ form # None /\ form \in Form /\ ProofsFit(form, home)
      /\ RunFits(runs[k], form, home)
  BY RunFacts
<1>2. /\ f \in Form /\ f.prover = form.prover /\ f.clicked = form.clicked
      /\ f.loose = form.loose /\ f.scwModal = form.scwModal
      /\ f.provedArgs = form.provedArgs /\ f.ageProvedArgs = age
      /\ f.stage = form.stage /\ f.pipelineDone = form.pipelineDone
  BY <1>1 DEF Form
<1>3. /\ age.id = h.p7s.id /\ f.clicked # 0
      /\ Tight(f) => age.cutoff = h.ageCutoffYmd /\ Busy(f)
  BY <1>1, <1>2 DEF RunFits, Tight, Busy
<1>4. f.provedArgs # None /\ ~f.provedArgs.uploaded => f.provedArgs.id = h.p7s.id
  BY <1>1, <1>2 DEF ProofsFit
<1>5. ProofsFit(f, h)
  BY <1>2, <1>3, <1>4 DEF ProofsFit
<1> QED BY <1>1, <1>2, <1>5 DEF Continues, Busy

\* The worker's answer ends the run.
LEMMA AnswerInv ==
    ASSUME FlowInv, NEW k \in Clicks, AgeAnswer(k)
    PROVE  FlowInv'
<1>1. /\ runs[k] # None /\ runs[k].at = "age" /\ clicks' = clicks
      /\ HandleMessage(k, "result") \/ HandleMessage(k, "error")
  BY DEF AgeAnswer, AgeProved, AgeFailed, At
<1>2. /\ WorkerTypeOK' /\ home \in Home /\ form \in Form \cup {None} /\ runs[k] \in Run
  BY <1>1, RunFacts, WorkerType, FlowAssumption DEF FlowInv, FlowTypeOK
<1>3. ASSUME Ends(k), UNCHANGED <<wallet, home, form, forms>>
      PROVE  FlowInv'
  BY <1>1, <1>2, <1>3, EndsFacts, SelfContinues, RestInv
<1> DEFINE age == [id |-> runs[k].p7s.id, cutoff |-> runs[k].cutoff, uploaded |-> FALSE]
           g == [form EXCEPT !.ageProvedArgs = age]
           f == IF Mounted(k) THEN g ELSE form
           h == [home EXCEPT !.step = 4]
<1>4. CASE Complete(k, f)
  <2>1. age \in AgeArgs /\ age.id = runs[k].p7s.id /\ age.cutoff = runs[k].cutoff
    BY <1>2 DEF Run, AgeArgs, P7s
  <2>2. h \in Home /\ h.p7s = home.p7s /\ h.ageCutoffYmd = home.ageCutoffYmd
    BY <1>2 DEF Home
  <2> HIDE DEF age, h
  <2>3. Mounted(k) => Continues(g, h) /\ form # None
    BY <1>1, <2>1, <2>2, AgeForm DEF Mounted
  <2>4. (f # None => Continues(f, h)) /\ f \in Form \cup {None}
    <3>1. CASE Mounted(k)
      BY <2>3, <3>1 DEF Continues
    <3>2. CASE ~Mounted(k)
      BY <1>2, <2>2, <3>2, SelfContinues
    <3> QED BY <3>1, <3>2
  <2> HIDE DEF f
  <2>5. f # None => Continues(f, [home EXCEPT !.step = 4])
    BY <2>4 DEF h
  <2> QED BY <1>1, <1>2, <1>4, <2>4, <2>5, CompleteInv
<1>5. Complete(k, f) \/ (Ends(k) /\ UNCHANGED <<wallet, home, form, forms>>)
  BY DEF AgeAnswer, AgeProved, AgeFailed
<1> QED BY <1>3, <1>4, <1>5

LEMMA WorkerFailsInv ==
    ASSUME FlowInv, NEW p \in Provers, WorkerFails(p)
    PROVE  FlowInv'
<1>1. /\ UNCHANGED <<wallet, home, form, forms, clicks>>
      /\ runs' = [k \in Clicks |-> IF k \in Listening(p) THEN None ELSE runs[k]]
      /\ HandleError(p)
  BY DEF WorkerFails
<1>2. WorkerTypeOK' /\ home \in Home /\ runs \in [Clicks -> Run \cup {None}]
  BY <1>1, WorkerType DEF FlowInv, FlowTypeOK
<1>3. /\ runs' \in [Clicks -> Run \cup {None}]
      /\ \A k \in Clicks : runs'[k] \in {runs[k], None}
  BY <1>1, <1>2
<1> QED BY <1>1, <1>2, <1>3, SelfContinues, RestInv

\* The wizard, whatever the visitor does and whenever its runs come back.
LEMMA FlowStep ==
    ASSUME FlowInv, FlowNext
    PROVE  FlowInv'
BY HomeInv, CardInv, ClickInv, PassphraseInv, UploadInv, RunInv, ProvedInv, AnswerInv,
   WorkerFailsInv, SubmitInv DEF FlowNext

-----------------------------------------------------------------------------
(***************************************************************************)
(* The pages together                                                      *)
(***************************************************************************)
IInv ==
    /\ FlowInv /\ ChainInv /\ AccountInv
    /\ page \in Pages
    /\ page # "home" => form = None

\* A wizard without a form.
LEMMA AwayInv ==
    ASSUME FlowInv, form = None, UNCHANGED fvars, WorkerTypeOK',
           wallet' \in Wallets \cup {None}
    PROVE  FlowInv'
BY DEF FlowInv, FlowTypeOK, FormShown, RunsBelow, RunsFit, FormFits, fvars

\* A page just mounted, of any kind.
LEMMA OpenInv ==
    ASSUME IInv, NEW p \in Pages, Open(p), ChainInv'
    PROVE  IInv'
<1>1. wallet \in Wallets \cup {None} /\ wallet' = wallet
  BY DEF IInv, FlowInv, FlowTypeOK, Open
<1>2. AccountInv'
  BY <1>1, FreshAccountInv DEF Open
<1>3. FreshHome \in Home
  BY FlowAssumption DEF FreshHome, Home
<1>4. WorkerTypeOK'
  BY DEF Open, WorkerTypeOK
<1>5. /\ home' = FreshHome /\ form' = None /\ runs' = [k \in Clicks |-> None]
      /\ forms' = 0 /\ clicks' = 0
  BY DEF Open
<1>6. FlowInv'
  BY <1>1, <1>3, <1>4, <1>5, FlowAssumption
  DEF FlowInv, FlowTypeOK, FormShown, RunsBelow, RunsFit, FormFits
<1> QED BY <1>2, <1>5, <1>6 DEF IInv, Open

LEMMA InitInv == Init => IInv
<1> SUFFICES ASSUME Init PROVE IInv
  OBVIOUS
<1>1. wallet \in Wallets \cup {None} /\ account = FreshAccount
  BY DEF Init, FlowInit
<1>2. AccountInv
  BY <1>1, FreshInv, AccountAssumption DEF FreshAccount, AccountInv, AccountSendsAsProved
<1>3. FreshHome \in Home
  BY FlowAssumption DEF FreshHome, Home
<1>4. WorkerTypeOK
  BY DEF Init, FlowInit, WorkerInit, WorkerTypeOK
<1>5. FlowInv
  BY <1>1, <1>3, <1>4, FlowAssumption
  DEF Init, FlowInit, FlowInv, FlowTypeOK, FormShown, RunsBelow, RunsFit, FormFits
<1>6. ChainInv
  BY AccountAssumption
  DEF Init, ChainInit, ChainInv, ChainType, EventsTell, GainedBy, LostBy
<1> QED BY <1>2, <1>5, <1>6 DEF IInv, Init, Pages

\* What a step leaves alone stays as it was.
LEMMA ChainRests ==
    ASSUME ChainInv, UNCHANGED chainvars
    PROVE  ChainInv'
BY DEF chainvars, ChainInv, ChainType, EventsTell, GainedBy, LostBy

LEMMA AccountRests ==
    ASSUME AccountInv, UNCHANGED account
    PROVE  AccountInv'
BY DEF AccountInv, AccountSendsAsProved

LEMMA StepInv == IInv /\ [Next]_vars => IInv'
<1> SUFFICES ASSUME IInv, [Next]_vars PROVE IInv'
  OBVIOUS
<1>0. /\ FlowInv /\ ChainInv /\ AccountInv /\ WorkerTypeOK
      /\ wallet \in Wallets \cup {None}
  BY DEF IInv, FlowInv, FlowTypeOK
<1>1. CASE AtHome
  BY <1>0, <1>1, FlowStep, ChainRests, AccountRests DEF AtHome, IInv
<1>2. CASE AtAccount
  <2>1. /\ AccountNext /\ UNCHANGED <<fvars, page>> /\ page = "account" /\ form = None
    BY <1>2 DEF AtAccount, IInv
  <2>2. WorkerTypeOK' /\ ChainInv' /\ wallet' \in Wallets \cup {None}
    BY <1>0, <2>1, AccountShared
  <2>3. FlowInv'
    BY <1>0, <2>1, <2>2, AwayInv
  <2>4. AccountInv'
    <3>1. ASSUME NEW id \in Identities, NEW pk \in Holders, Elsewhere(id, pk)
          PROVE  AccountInv'
      BY <1>0, <3>1, AccountRests DEF Elsewhere
    <3> QED BY <1>0, <2>1, <3>1, BeforeProof, FromProof DEF AccountNext, ChainInv
  <2> QED BY <2>1, <2>2, <2>3, <2>4 DEF IInv, fvars
<1>3. ASSUME NEW c \in Calls, Reports(c) PROVE IInv'
  <2>1. /\ WorkerTypeOK' /\ UNCHANGED <<wallet, fvars, chainvars, account, page>>
    BY <1>0, <1>3, WorkerType DEF Reports
  <2>2. FlowInv'
    BY <1>0, <2>1
    DEF FlowInv, FlowTypeOK, FormShown, RunsBelow, RunsFit, FormFits, fvars
  <2> QED BY <1>0, <2>1, <2>2, ChainRests, AccountRests DEF IInv, fvars
<1>4. CASE Mined
  <2>1. /\ form # None /\ form.tx # None /\ Open("mint")
        /\ Registers(form.tx.args.id, form.tx.from)
    BY <1>4 DEF Mined
  <2>2. form.tx \in Tx
    BY <1>0, <2>1, FormFacts DEF Form
  <2>3. form.tx.args.id \in Identities /\ form.tx.from \in Holders
    BY <2>2, AccountAssumption DEF Tx, Args
  <2>4. ChainInv'
    BY <1>0, <2>1, <2>3, RegistersInv
  <2> QED BY <2>1, <2>4, OpenInv DEF Pages
<1>5. ASSUME NEW p \in Pages, Navigate(p) PROVE IInv'
  BY <1>0, <1>5, ChainRests, OpenInv DEF Navigate
<1>6. CASE UNCHANGED vars
  <2>1. UNCHANGED <<wallet, fvars, chainvars, account, page, wvars>>
    BY <1>6 DEF vars
  <2>2. FlowInv'
    BY <1>0, <2>1, WorkerRests
    DEF FlowInv, FlowTypeOK, FormShown, RunsBelow, RunsFit, FormFits, fvars
  <2> QED BY <1>0, <2>1, <2>2, ChainRests, AccountRests DEF IInv, fvars
<1> QED BY <1>1, <1>2, <1>3, <1>4, <1>5, <1>6 DEF Next

\* The strengthening that the theorems below rest on.
THEOREM Invariant == Spec => []IInv
BY InitInv, StepInv, PTL DEF Spec

-----------------------------------------------------------------------------
(***************************************************************************)
(* Theorems                                                                *)
(***************************************************************************)

\* The variables of pages, workers and registry keep their types.
THEOREM TypeCorrect == Spec => []TypeOK
<1>1. IInv => TypeOK
  BY DEF IInv, FlowInv, AccountInv, ChainInv, ChainType, AccountTypeOK, TypeOK
<1> QED BY <1>1, Invariant, PTL

\* After a single click, the wizard offers the cutoff of the proof.
THEOREM OfferedAsProved == Spec => []OffersAsProved
<1>1. IInv => OffersAsProved
  BY DEF IInv, FlowInv, FormFits, ProofsFit, Tight, OffersAsProved
<1> QED BY <1>1, Invariant, PTL

\* The two proofs of a form are of the signer that the page has now.
THEOREM SameIdentity == Spec => []AgeOfSameIdentity
<1>1. IInv => AgeOfSameIdentity
  BY DEF IInv, FlowInv, FormFits, ProofsFit, AgeOfSameIdentity
<1> QED BY <1>1, Invariant, PTL

\* The account page sends a proof with what it was made for.
THEOREM AccountSends == Spec => []AccountSendsAsProved
<1>1. IInv => AccountSendsAsProved
  BY DEF IInv, AccountInv
<1> QED BY <1>1, Invariant, PTL

\* The list of bindings is what is held, but for what was lost once.
THEOREM OwnedHeld == Spec => []OwnedAreHeld
<1>1. IInv => OwnedAreHeld
  BY EventsOwned DEF IInv
<1> QED BY <1>1, Invariant, PTL

-----------------------------------------------------------------------------
(***************************************************************************)
(* What the review step comes up with                                      *)
(***************************************************************************)

\* A page that shows the form has one, and only the home page leaves step 1.
AsShown ==
    /\ Shown(home, wallet) => form # None
    /\ page # "home" => home.step = 1

\* A page that is rendered has the form where it shows it.
LEMMA RenderShown ==
    ASSUME FlowTypeOK, NEW h, NEW w, NEW f, Render(h, w, f)
    PROVE  Shown(home', wallet') => form' # None
<1>1. forms < MaxForms => FreshForm(forms + 1) # None
  <2> SUFFICES ASSUME forms < MaxForms PROVE FreshForm(forms + 1) \in Form
    BY FormAssumption
  <2>1. forms + 1 \in Provers
    BY FlowAssumption DEF FlowTypeOK
  <2> QED BY <2>1, FreshFits
<1> QED BY <1>1 DEF Render

\* Nothing is rendered anew: the page shows what it showed, and the form loses
\* no proof.
Stays ==
    /\ wallet' = wallet
    /\ home'.step = home.step /\ home'.pk = home.pk /\ home'.p7s = home.p7s
    /\ form = None => form' = None
    /\ form # None => form' # None /\ (form.provedArgs # None => form'.provedArgs # None)

\* A field of the form other than its proof changes.
LEMMA FormKept ==
    ASSUME NEW f \in Form
    PROVE  /\ \A b \in BOOLEAN : [f EXCEPT !.stage = b] \in Form
                                 /\ [f EXCEPT !.stage = b].provedArgs = f.provedArgs
           /\ \A b \in BOOLEAN : [f EXCEPT !.pipelineDone = b] \in Form
                                 /\ [f EXCEPT !.pipelineDone = b].provedArgs = f.provedArgs
           /\ \A b \in BOOLEAN : [f EXCEPT !.scwModal = b] \in Form
                                 /\ [f EXCEPT !.scwModal = b].provedArgs = f.provedArgs
           /\ \A b \in BOOLEAN : [f EXCEPT !.loose = b] \in Form
                                 /\ [f EXCEPT !.loose = b].provedArgs = f.provedArgs
           /\ \A n \in 0 .. MaxClicks : [f EXCEPT !.clicked = n] \in Form
                                 /\ [f EXCEPT !.clicked = n].provedArgs = f.provedArgs
           /\ \A tx \in Tx \cup {None} : [f EXCEPT !.tx = tx] \in Form
                                 /\ [f EXCEPT !.tx = tx].provedArgs = f.provedArgs
           /\ \A age \in AgeArgs : [f EXCEPT !.ageProvedArgs = age] \in Form
                                 /\ [f EXCEPT !.ageProvedArgs = age].provedArgs = f.provedArgs
           /\ \A args \in Args : [f EXCEPT !.provedArgs = args] \in Form
                                 /\ [f EXCEPT !.provedArgs = args].provedArgs = args
<1>1. \A b \in BOOLEAN : [f EXCEPT !.stage = b] \in Form
                         /\ [f EXCEPT !.stage = b].provedArgs = f.provedArgs
  BY DEF Form
<1>2. \A b \in BOOLEAN : [f EXCEPT !.pipelineDone = b] \in Form
                         /\ [f EXCEPT !.pipelineDone = b].provedArgs = f.provedArgs
  BY DEF Form
<1>3. \A b \in BOOLEAN : [f EXCEPT !.scwModal = b] \in Form
                         /\ [f EXCEPT !.scwModal = b].provedArgs = f.provedArgs
  BY DEF Form
<1>4. \A b \in BOOLEAN : [f EXCEPT !.loose = b] \in Form
                         /\ [f EXCEPT !.loose = b].provedArgs = f.provedArgs
  BY DEF Form
<1>5. \A n \in 0 .. MaxClicks : [f EXCEPT !.clicked = n] \in Form
                         /\ [f EXCEPT !.clicked = n].provedArgs = f.provedArgs
  BY DEF Form
<1>6. \A tx \in Tx \cup {None} : [f EXCEPT !.tx = tx] \in Form
                         /\ [f EXCEPT !.tx = tx].provedArgs = f.provedArgs
  BY DEF Form
<1>7. \A age \in AgeArgs : [f EXCEPT !.ageProvedArgs = age] \in Form
                         /\ [f EXCEPT !.ageProvedArgs = age].provedArgs = f.provedArgs
  BY DEF Form
<1>8. \A args \in Args : [f EXCEPT !.provedArgs = args] \in Form
                         /\ [f EXCEPT !.provedArgs = args].provedArgs = args
  BY DEF Form
<1> QED BY <1>1, <1>2, <1>3, <1>4, <1>5, <1>6, <1>7, <1>8

\* The form with a field changed is no more None than it was.
LEMMA FormStays ==
    ASSUME FlowInv, form # None, NEW f \in Form, form' = f,
           form.provedArgs # None => f.provedArgs # None,
           wallet' = wallet, home'.step = home.step, home'.pk = home.pk, home'.p7s = home.p7s
    PROVE  Stays
BY FormAssumption DEF Stays

\* Inputs, clicks and the passphrase of the form's first phase.
LEMMA ProvePhaseStays ==
    ASSUME FlowInv,
           \/ ChangeOptIn \/ \E c \in Cutoffs : ChangeCutoff(c)
           \/ Click \/ SubmitPassphrase \/ CancelPassphrase
    PROVE  Stays
<1>0. /\ form # None => form \in Form /\ form.clicked \in 0 .. MaxClicks
                        /\ form.clicked <= clicks
      /\ home \in Home /\ clicks \in 0 .. MaxClicks /\ MaxClicks \in Nat
  BY FormFacts, FlowAssumption DEF FlowInv, FlowTypeOK, Form
<1>1. CASE ChangeOptIn
  BY <1>0, <1>1 DEF ChangeOptIn, Proving, Home, Stays
<1>2. ASSUME NEW c \in Cutoffs, ChangeCutoff(c) PROVE Stays
  <2>1. PICK l \in BOOLEAN : form' = [form EXCEPT !.loose = l]
    BY <1>2 DEF ChangeCutoff
  <2>2. /\ form # None /\ wallet' = wallet /\ home' = [home EXCEPT !.ageCutoffYmd = c]
    BY <1>2 DEF ChangeCutoff, Proving
  <2>3. home'.step = home.step /\ home'.pk = home.pk /\ home'.p7s = home.p7s
    BY <1>0, <2>2 DEF Home
  <2>4. form' \in Form /\ form'.provedArgs = form.provedArgs
    BY <1>0, <2>1, <2>2, FormKept
  <2> QED BY <2>2, <2>3, <2>4, FormStays
<1>3. CASE Click
  <2> DEFINE f1 == [form EXCEPT !.stage = FALSE]
             f2 == [f1 EXCEPT !.pipelineDone = FALSE]
             f3 == [f2 EXCEPT !.clicked = form.clicked + 1]
             f4 == [f3 EXCEPT !.loose = FALSE]
             f5 == [f4 EXCEPT !.scwModal = TRUE]
             Keeps(f) == f \in Form /\ f.provedArgs = form.provedArgs
  <2>1. /\ form # None /\ UNCHANGED <<wallet, home>> /\ clicks < MaxClicks
        /\ form' = f4 \/ form' = f5
    BY <1>3 DEF Click, Proving
  <2>2. form.clicked + 1 \in 0 .. MaxClicks
    BY <1>0, <2>1
  <2>3. Keeps(f1)
    BY <1>0, <2>1, FormKept
  <2> HIDE DEF f1
  <2>4. Keeps(f2)
    BY <2>3, FormKept
  <2> HIDE DEF f2
  <2>5. Keeps(f3)
    BY <2>2, <2>4, FormKept
  <2> HIDE DEF f3
  <2>6. Keeps(f4)
    BY <2>5, FormKept
  <2> HIDE DEF f4
  <2>7. Keeps(f5)
    BY <2>6, FormKept
  <2> HIDE DEF f5
  <2> QED BY <2>1, <2>6, <2>7, FormStays
<1>4. CASE SubmitPassphrase \/ CancelPassphrase
  <2>1. form # None /\ UNCHANGED <<wallet, home>> /\ form' = [form EXCEPT !.scwModal = FALSE]
    BY <1>4 DEF SubmitPassphrase, CancelPassphrase
  <2>2. form' \in Form /\ form'.provedArgs = form.provedArgs
    BY <1>0, <2>1, FormKept
  <2> QED BY <2>1, <2>2, FormStays
<1> QED BY <1>1, <1>2, <1>3, <1>4

\* The second phase.
LEMMA ReviewPhaseStays ==
    ASSUME FlowInv, Submit \/ Answer
    PROVE  Stays
<1>1. form # None /\ form \in Form /\ UNCHANGED <<wallet, home>> /\ wallet \in Wallets
      /\ home \in Home
  BY FormFacts DEF Submit, Answer
<1>2. PICK tx \in Tx \cup {None} : form' = [form EXCEPT !.tx = tx]
  <2>1. CASE Submit
    <3> DEFINE tx == [at |-> "pending", from |-> wallet, args |-> form.provedArgs,
                      age |-> form.ageProvedArgs, cutoff |-> home.ageCutoffYmd]
    <3>1. /\ form.provedArgs \in Args /\ form.ageProvedArgs \in AgeArgs \cup {None}
          /\ home.ageCutoffYmd \in Cutoffs
      BY <1>1, <2>1 DEF Submit, Form, Home
    <3>2. tx \in Tx
      BY <1>1, <3>1 DEF Tx
    <3>3. form' = [form EXCEPT !.tx = tx]
      BY <2>1, Zenon DEF Submit
    <3> HIDE DEF tx
    <3> QED BY <3>2, <3>3
  <2>2. CASE Answer
    <3>1. form.tx \in Tx
      BY <1>1, <2>2 DEF Answer, Form
    <3>2. [form.tx EXCEPT !.at = "sent"] \in Tx
      BY <3>1 DEF Tx
    <3>3. \/ form' = [form EXCEPT !.tx = None]
          \/ form' = [form EXCEPT !.tx = [form.tx EXCEPT !.at = "sent"]]
      BY <2>2 DEF Answer
    <3> QED BY <3>2, <3>3
  <2> QED BY <2>1, <2>2
<1>3. form' \in Form /\ form'.provedArgs = form.provedArgs
  BY <1>1, <1>2, FormKept
<1> QED BY <1>1, <1>3, FormStays

\* Runs that do not complete the page's step.
LEMMA RunStays ==
    ASSUME FlowInv, NEW k \in Clicks,
           \/ Progress(k) \/ Fails(k) \/ ProveAge(k) \/ AgeFailed(k)
           \/ Proved(k) /\ runs[k].ageOptIn
           \/ AgeProved(k) /\ UNCHANGED <<wallet, home, form>>
    PROVE  Stays
<1>0. form # None => form \in Form
  BY FormFacts
<1>1. CASE Fails(k) \/ ProveAge(k) \/ AgeFailed(k)
           \/ (AgeProved(k) /\ UNCHANGED <<wallet, home, form>>)
  BY <1>1 DEF Fails, ProveAge, AgeFailed, Stays
<1>2. CASE Progress(k)
  <2>1. /\ UNCHANGED <<wallet, home>>
        /\ form' = IF Mounted(k) THEN [form EXCEPT !.stage = TRUE] ELSE form
    BY <1>2 DEF Progress
  <2>2. CASE Mounted(k)
    <3>1. form' \in Form /\ form'.provedArgs = form.provedArgs /\ form # None
      BY <1>0, <2>1, <2>2, FormKept DEF Mounted
    <3> QED BY <2>1, <3>1, FormStays
  <2>3. CASE ~Mounted(k)
    BY <2>1, <2>3 DEF Stays
  <2> QED BY <2>2, <2>3
<1>3. CASE Proved(k) /\ runs[k].ageOptIn
  <2> DEFINE args == [id |-> runs[k].p7s.id, pk |-> runs[k].pk, uploaded |-> FALSE]
             f1 == [form EXCEPT !.pipelineDone = TRUE]
             f2 == [f1 EXCEPT !.provedArgs = args]
  <2>1. /\ UNCHANGED <<wallet, home>> /\ runs[k] # None
        /\ form' = IF Mounted(k) THEN f2 ELSE form
    BY <1>3 DEF Proved, At
  <2>2. args \in Args /\ args # None
    <3>1. runs[k].p7s.id \in Identities /\ runs[k].pk \in Wallets
      BY <2>1 DEF FlowInv, FlowTypeOK, Run, P7s
    <3>2. args \in Args
      BY <3>1 DEF Args
    <3> QED BY <3>2, FlowAssumption
  <2>3. CASE Mounted(k)
    <3>1. form # None /\ form \in Form
      BY <1>0, <2>3 DEF Mounted
    <3> HIDE DEF args
    <3>2. f1 \in Form
      BY <3>1, FormKept
    <3> HIDE DEF f1
    <3>3. f2 \in Form /\ f2.provedArgs = args
      BY <2>2, <3>2, FormKept
    <3> HIDE DEF f2
    <3> QED BY <2>1, <2>2, <2>3, <3>1, <3>3, FormStays
  <2>4. CASE ~Mounted(k)
    BY <2>1, <2>4 DEF Stays
  <2> QED BY <2>3, <2>4
<1> QED BY <1>1, <1>2, <1>3

\* What the review step comes up with when a step renders nothing, or renders
\* the page for another step, another wallet, or a proof of the mounted form.
Outsiders ==
    ReviewsNothing' /\ ~ReviewsNothing =>
        \/ wallet = None
        \/ \E k \in Clicks : runs[k] # None /\ runs'[k] = None
                            /\ (form # None => form.prover # runs[k].prover)

LEMMA StaysOutsiders ==
    ASSUME Stays, Shown(home, wallet) => form # None
    PROVE  Outsiders /\ (Shown(home', wallet') => form' # None)
BY DEF Stays, Outsiders, ReviewsNothing, Shown

\* The steps of the page: only a wallet that comes back mounts a form at the
\* review step.
LEMMA HomeOutsiders ==
    ASSUME FlowInv, Shown(home, wallet) => form # None,
           \/ \E w \in Wallets \cup {None} : ChangeWallet(w)
           \/ GenerateBinding
           \/ \E id \in Identities : ChooseP7s(id)
           \/ Back \/ Reset \/ Disconnect
    PROVE  Outsiders
<1>0. home \in Home
  BY DEF FlowInv, FlowTypeOK
<1>1. ASSUME NEW h \in Home, h.step # 4, NEW w, Render(h, w, form)
      PROVE  Outsiders
  BY <1>1 DEF Render, Outsiders, ReviewsNothing
<1>2. ASSUME NEW w \in Wallets \cup {None}, ChangeWallet(w) PROVE Outsiders
  <2>1. Render(home, w, form)
    BY <1>2 DEF ChangeWallet
  <2>2. CASE form # None
    BY <2>1, <2>2 DEF Render, Outsiders, ReviewsNothing
  <2>3. CASE form = None /\ wallet # None /\ home.step = 4
    <3>1. ~Shown(home, w)
      BY <2>3 DEF Shown
    <3> QED BY <2>1, <3>1 DEF Render, Outsiders, ReviewsNothing
  <2>4. CASE home.step # 4 \/ wallet = None
    BY <1>0, <1>1, <2>1, <2>4 DEF Outsiders
  <2> QED BY <2>2, <2>3, <2>4
<1>3. CASE GenerateBinding
  <2> DEFINE h1 == [home EXCEPT !.step = 2]
             h2 == [h1 EXCEPT !.pk = wallet]
  <2>1. Render(h2, wallet, form)
    BY <1>3 DEF GenerateBinding
  <2>2. h1 \in Home /\ h1.step = 2 /\ wallet \in Wallets \cup {None}
    BY <1>0 DEF Home, FlowInv, FlowTypeOK
  <2> HIDE DEF h1
  <2>3. h2 \in Home /\ h2.step = 2
    BY <2>2 DEF Home
  <2> HIDE DEF h2
  <2> QED BY <1>1, <2>1, <2>3
<1>4. ASSUME NEW id \in Identities, ChooseP7s(id) PROVE Outsiders
  <2> DEFINE p7s == [id |-> id, pk |-> home.pk]
             h1 == [home EXCEPT !.step = 3]
             h2 == [h1 EXCEPT !.p7s = p7s]
  <2>1. Render(h2, wallet, form)
    <3>1. Render([home EXCEPT !.step = 3, !.p7s = p7s], wallet, form)
      BY <1>4, Zenon DEF ChooseP7s
    <3> HIDE DEF p7s
    <3>2. h2 = [home EXCEPT !.step = 3, !.p7s = p7s]
      OBVIOUS
    <3> QED BY <3>1, <3>2
  <2>2. p7s \in P7s
    <3>1. home.pk \in Wallets
      BY <1>0, <1>4 DEF Home, ChooseP7s
    <3> QED BY <3>1 DEF P7s
  <2>3. h1 \in Home /\ h1.step = 3
    BY <1>0 DEF Home
  <2> HIDE DEF p7s, h1
  <2>4. h2 \in Home /\ h2.step = 3
    BY <2>2, <2>3 DEF Home
  <2> HIDE DEF h2
  <2> QED BY <1>1, <2>1, <2>4
<1>5. CASE Back
  <2>1. home.step \in {2, 3, 4}
    BY <1>0, <1>5 DEF Back, FlowInv, FormShown, Shown
  <2>2. LET h == [home EXCEPT !.step = home.step - 1] IN h \in Home /\ h.step # 4
    BY <1>0, <2>1 DEF Home
  <2> QED BY <1>1, <1>5, <2>2 DEF Back
<1>6. CASE Reset
  <2>1. PICK h : Render(h, wallet, form) /\ h = [home EXCEPT !.step = 1, !.pk = None, !.p7s = None]
    BY <1>6 DEF Reset
  <2>2. h.step = 1
    BY <1>0, <2>1 DEF Home
  <2> QED BY <2>1, <2>2 DEF Render, Outsiders, ReviewsNothing
<1>7. CASE Disconnect
  <2>1. form' = None
    BY <1>7 DEF Disconnect, Render, Shown
  <2> QED BY <2>1 DEF Outsiders, ReviewsNothing
<1> QED BY <1>2, <1>3, <1>4, <1>5, <1>6, <1>7

\* A run completes with a proof of the form that it was started in, or it is
\* of another form.
LEMMA CompleteOutsiders ==
    ASSUME FlowInv, NEW k \in Clicks, runs[k] # None, NEW f, Complete(k, f),
           Mounted(k) => f # None /\ f.provedArgs # None
    PROVE  Outsiders
<1>1. runs'[k] = None
  BY DEF Complete, Ends, FlowInv, FlowTypeOK
<1>2. CASE ~Mounted(k)
  BY <1>1, <1>2 DEF Mounted, Outsiders
<1>3. CASE Mounted(k)
  <2>1. form' = None \/ form' = f
    BY <1>3 DEF Complete, Render
  <2> QED BY <1>3, <2>1 DEF Outsiders, ReviewsNothing
<1> QED BY <1>2, <1>3

\* Every step of the wizard.
LEMMA FlowOutsiders ==
    ASSUME FlowInv, FlowNext, Shown(home, wallet) => form # None
    PROVE  Outsiders /\ (Shown(home', wallet') => form' # None)
<1>0. FlowTypeOK /\ \A h, w, f : Render(h, w, f) => (Shown(home', wallet') => form' # None)
  BY RenderShown DEF FlowInv
<1>1. CASE \/ \E w \in Wallets \cup {None} : ChangeWallet(w)
           \/ GenerateBinding
           \/ \E id \in Identities : ChooseP7s(id)
           \/ Back \/ Reset \/ Disconnect
  <2>1. \E h, w, f : Render(h, w, f)
    BY <1>1 DEF ChangeWallet, GenerateBinding, ChooseP7s, Back, Reset, Disconnect
  <2> QED BY <1>0, <1>1, <2>1, HomeOutsiders
<1>2. CASE \/ ChangeOptIn \/ \E c \in Cutoffs : ChangeCutoff(c)
           \/ Click \/ SubmitPassphrase \/ CancelPassphrase \/ Submit \/ Answer
  BY <1>2, ProvePhaseStays, ReviewPhaseStays, StaysOutsiders
<1>3. ASSUME NEW file \in Files, Upload(file)
      PROVE  Outsiders /\ (Shown(home', wallet') => form' # None)
  <2> DEFINE age == IF file.age = None THEN form.ageProvedArgs ELSE file.age
             f1 == [form EXCEPT !.provedArgs = file.args]
             f2 == [f1 EXCEPT !.pipelineDone = TRUE]
             f3 == [f2 EXCEPT !.ageProvedArgs = age]
             h == [home EXCEPT !.step = 4]
  <2>1. form # None /\ form \in Form /\ Render(h, wallet, f3)
    BY <1>3, FormFacts DEF Upload, Proving
  <2>2. file.args \in Args /\ file.args # None
    BY FlowAssumption
  <2>3. f1 \in Form /\ f1.provedArgs # None
    BY <2>1, <2>2, FormKept
  <2>4. age \in AgeArgs \cup {None}
    BY <2>1, FlowAssumption DEF Form
  <2> HIDE DEF f1, age, h
  <2>5. f2 \in Form /\ f2.provedArgs # None
    BY <2>3, FormKept
  <2> HIDE DEF f2
  <2>6. f3 \in Form /\ f3.provedArgs # None
    BY <2>4, <2>5 DEF Form
  <2> HIDE DEF f3
  <2>7. form' = None \/ form'.provedArgs # None
    BY <2>1, <2>6, FormAssumption DEF Render
  <2> QED BY <1>0, <2>1, <2>7 DEF Outsiders, ReviewsNothing
<1>4. ASSUME NEW k \in Clicks,
             Progress(k) \/ Fails(k) \/ ProveAge(k) \/ AgeFailed(k)
      PROVE  Outsiders /\ (Shown(home', wallet') => form' # None)
  BY <1>4, RunStays, StaysOutsiders
<1>5. ASSUME NEW k \in Clicks, Proved(k)
      PROVE  Outsiders /\ (Shown(home', wallet') => form' # None)
  <2> DEFINE args == [id |-> runs[k].p7s.id, pk |-> runs[k].pk, uploaded |-> FALSE]
             g == [form EXCEPT !.pipelineDone = TRUE, !.provedArgs = args]
             f == IF Mounted(k) THEN g ELSE form
  <2>1. runs[k] # None /\ (Complete(k, f) \/ runs[k].ageOptIn)
    BY <1>5 DEF Proved, At
  <2>2. CASE runs[k].ageOptIn
    BY <1>5, <2>2, RunStays, StaysOutsiders
  <2>3. CASE Complete(k, f)
    <3>1. args \in Args /\ ~args.uploaded /\ args.id = runs[k].p7s.id /\ home \in Home
      <4>1. runs[k] \in Run /\ home \in Home
        BY <2>1, RunFacts
      <4> QED BY <4>1 DEF Run, Args, P7s
    <3> HIDE DEF args
    <3>2. Mounted(k) => g.provedArgs # None /\ g \in Form
      BY <2>1, <3>1, ProvedForm DEF Continues
    <3>3. Mounted(k) => f # None /\ f.provedArgs # None
      BY <3>2, FormAssumption
    <3> HIDE DEF f
    <3> QED BY <1>0, <2>1, <2>3, <3>3, CompleteOutsiders DEF Complete
  <2> QED BY <2>1, <2>2, <2>3
<1>6. ASSUME NEW k \in Clicks, AgeProved(k)
      PROVE  Outsiders /\ (Shown(home', wallet') => form' # None)
  <2> DEFINE age == [id |-> runs[k].p7s.id, cutoff |-> runs[k].cutoff, uploaded |-> FALSE]
             g == [form EXCEPT !.ageProvedArgs = age]
             f == IF Mounted(k) THEN g ELSE form
  <2>1. /\ runs[k] # None /\ runs[k].at = "age"
        /\ Complete(k, f) \/ UNCHANGED <<wallet, home, form>>
    BY <1>6 DEF AgeProved, At
  <2>2. CASE UNCHANGED <<wallet, home, form>>
    BY <1>6, <2>2, RunStays, StaysOutsiders
  <2>3. CASE Complete(k, f)
    <3>1. runs[k] \in Run /\ (Mounted(k) => form \in Form /\ form.provedArgs # None)
      BY <2>1, RunFacts DEF RunFits
    <3>2. age \in AgeArgs
      BY <3>1 DEF Run, AgeArgs, P7s
    <3> HIDE DEF age
    <3>3. Mounted(k) => g \in Form /\ g.provedArgs # None
      BY <3>1, <3>2, FormKept
    <3>4. Mounted(k) => f # None /\ f.provedArgs # None
      BY <3>3, FormAssumption
    <3> HIDE DEF f
    <3> QED BY <1>0, <2>1, <2>3, <3>4, CompleteOutsiders DEF Complete
  <2> QED BY <2>1, <2>2, <2>3
<1>7. ASSUME NEW p \in Provers, WorkerFails(p)
      PROVE  Outsiders /\ (Shown(home', wallet') => form' # None)
  BY <1>7, StaysOutsiders DEF WorkerFails, Stays
<1> QED BY <1>1, <1>2, <1>3, <1>4, <1>5, <1>6, <1>7 DEF FlowNext, AgeAnswer

LEMMA InitShown == Init => AsShown
BY DEF Init, FlowInit, FreshHome, Shown, AsShown

LEMMA StepOutsiders == IInv /\ AsShown /\ [Next]_vars => AsShown' /\ Outsiders
<1> SUFFICES ASSUME IInv, AsShown, [Next]_vars PROVE AsShown' /\ Outsiders
  OBVIOUS
<1>1. CASE AtHome
  BY <1>1, FlowOutsiders DEF AtHome, AsShown, IInv
<1>2. ASSUME NEW p \in Pages, Open(p) PROVE AsShown' /\ Outsiders
  BY <1>2 DEF Open, FreshHome, Shown, AsShown, Outsiders, ReviewsNothing
<1>3. CASE AtAccount
  <2>1. page = "account" /\ UNCHANGED <<home, form, page>>
    BY <1>3 DEF AtAccount, fvars
  <2> QED BY <2>1 DEF AsShown, Shown, Outsiders, ReviewsNothing
<1>4. CASE UNCHANGED <<home, form, wallet, page>>
  BY <1>4 DEF AsShown, Shown, Outsiders, ReviewsNothing
<1>5. ASSUME NEW c \in Calls, Reports(c) PROVE UNCHANGED <<home, form, wallet, page>>
  BY <1>5 DEF Reports, fvars
<1>6. CASE UNCHANGED vars
  BY <1>4, <1>6 DEF vars, fvars
<1> QED BY <1>1, <1>2, <1>3, <1>4, <1>5, <1>6 DEF Next, Mined, Navigate, Pages

\* The review step comes up without a proof only after a run that outlived its
\* form, or with a wallet that comes back.
THEOREM EmptyReview == Spec => EmptyReviewByOutsiders
<1>1. IInv /\ AsShown /\ [Next]_vars
      => [ReviewsNothing' /\ ~ReviewsNothing =>
            \/ wallet = None
            \/ \E k \in Clicks : runs[k] # None /\ runs'[k] = None
                                /\ (form # None => form.prover # runs[k].prover)]_vars
  BY StepOutsiders DEF Outsiders
<1>2. IInv /\ AsShown /\ [Next]_vars => AsShown'
  BY StepOutsiders
<1> QED BY <1>1, <1>2, InitShown, Invariant, PTL DEF Spec, EmptyReviewByOutsiders
=============================================================================
