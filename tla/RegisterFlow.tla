---------------------------- MODULE RegisterFlow ----------------------------
(***************************************************************************)
(* The registration wizard of the home page: the steps of HomeDocument.tsx *)
(* and the form of Step4ProveAndRegister.tsx, whose asynchronous runs keep *)
(* the inputs they were started with and may outlive the form.  The proof  *)
(* itself is ProveDispatch's, abstracted to its two outcomes; the age      *)
(* proof goes through SnarkjsWorker.                                       *)
(* A chain with a registry, the real prover and a browser with workers are *)
(* assumed.  The wallet secret, messages on the screen and the buttons     *)
(* that copy, download, mint or send an uploaded age proof are left out.   *)
(***************************************************************************)
EXTENDS Visitor

CONSTANTS
    Files,              \* proof.json files of other sessions
    CutoffChanges,      \* bound on the changes of the cutoff, as pairs
    MaxClicks           \* bound on the clicks of "Generate proof"

Clicks == 1 .. MaxClicks
MaxForms == Cardinality(Provers)    \* bound on the forms of one visit

\* The signature in the .p7s is over the binding, which names a wallet.
P7s == [id : Identities, pk : Wallets]
Args == [id : Identities, pk : Wallets, uploaded : BOOLEAN]
AgeArgs == [id : Identities, cutoff : Cutoffs, uploaded : BOOLEAN]

ASSUME FlowAssumption ==
    /\ MaxClicks \in Nat
    /\ MaxForms \in Nat
    /\ Provers = 1 .. MaxForms
    /\ Calls = Clicks
    /\ DefaultCutoff \in Cutoffs
    /\ CutoffChanges \subseteq Cutoffs \X Cutoffs
    /\ None \notin Wallets \cup Args
    /\ Files \subseteq [args : {a \in Args : a.uploaded},
                        age : {a \in AgeArgs : a.uploaded} \cup {None}]

VARIABLES
    home,       \* the state of HomeDocument
    form,       \* the state of the mounted Step4ProveAndRegister, or None
    runs,       \* click -> the asynchronous run it started, or None
    forms,      \* number of forms mounted so far; each makes a prover
    clicks      \* number of clicks so far

fvars == <<home, form, runs, forms, clicks>>

Home ==
    [step : 1 .. 4, pk : Wallets \cup {None}, p7s : P7s \cup {None},
     ageOptIn : BOOLEAN, ageCutoffYmd : Cutoffs]

\* What writeContract was given, and by which wallet.
Tx == [at : {"pending", "sent"}, from : Wallets, args : Args,
       age : AgeArgs \cup {None}, cutoff : Cutoffs]

Form ==
    [prover : Provers,
     stage : BOOLEAN,                  \* stage # null
     pipelineDone : BOOLEAN,
     provedArgs : Args \cup {None},
     ageProvedArgs : AgeArgs \cup {None},
     scwModal : BOOLEAN,
     tx : Tx \cup {None},
     clicked : 0 .. MaxClicks,         \* history: clicks in this form
     loose : BOOLEAN]                  \* history: the cutoff was changed before
                                       \* the run of the only click made progress

ASSUME FormAssumption == None \notin Form

\* What a run captured at its click.
Run ==
    [at : {"starting", "proving", "witness", "age"},
     prover : Provers, pk : Wallets, p7s : P7s, ageOptIn : BOOLEAN, cutoff : Cutoffs]

FlowTypeOK ==
    /\ WorkerTypeOK
    /\ wallet \in Wallets \cup {None}
    /\ home \in Home
    /\ form \in Form \cup {None}
    /\ runs \in [Clicks -> Run \cup {None}]
    /\ forms \in 0 .. MaxForms
    /\ clicks \in 0 .. MaxClicks

FreshHome ==
    [step |-> 1, pk |-> None, p7s |-> None,
     ageOptIn |-> TRUE, ageCutoffYmd |-> DefaultCutoff]

FreshForm(p) ==
    [prover |-> p, stage |-> FALSE, pipelineDone |-> FALSE, provedArgs |-> None,
     ageProvedArgs |-> None, scwModal |-> FALSE, tx |-> None, clicked |-> 0, loose |-> FALSE]

FlowInit ==
    /\ WorkerInit
    /\ wallet \in Wallets \cup {None}
    /\ home = FreshHome
    /\ form = None
    /\ runs = [k \in Clicks |-> None]
    /\ forms = 0
    /\ clicks = 0

-----------------------------------------------------------------------------
(***************************************************************************)
(* HomeDocument                                                            *)
(***************************************************************************)

\* Variant: the form stays mounted behind the step of the signature.
ShownBehind(h, w) == w # None /\ h.step # 1 /\ h.p7s # None /\ h.pk # None

\* When the form is part of the page.
Shown(h, w) == w # None /\ h.step \in {3, 4} /\ h.p7s # None /\ h.pk # None

\* React renders the page for h and w; f is the form if it was mounted.
Render(h, w, f) ==
    /\ home' = h
    /\ wallet' = w
    /\ IF ~Shown(h, w) THEN form' = None /\ UNCHANGED forms
       ELSE IF f # None THEN form' = f /\ UNCHANGED forms
       ELSE /\ forms < MaxForms
            /\ forms' = forms + 1
            /\ form' = FreshForm(forms + 1)

\* The passphrase dialog covers the page.
Uncovered == form # None => ~form.scwModal

\* The wallet connects, changes account or disconnects.
ChangeWallet(w) ==
    /\ w # wallet
    /\ Render(home, w, form)
    /\ UNCHANGED <<wvars, runs, clicks>>

\* Step2GenerateBinding: the key is the connected wallet's.
GenerateBinding ==
    /\ wallet # None /\ home.step = 1
    /\ Render([home EXCEPT !.step = 2, !.pk = wallet], wallet, form)
    /\ UNCHANGED <<wvars, runs, clicks>>

\* Step3DiiaSign, which refuses a signature over another binding.
ChooseP7s(id) ==
    /\ wallet # None /\ home.step = 2 /\ home.pk # None
    /\ Render([home EXCEPT !.step = 3, !.p7s = [id |-> id, pk |-> home.pk]], wallet, form)
    /\ UNCHANGED <<wvars, runs, clicks>>

\* Variant: the button of every step.
BackAnywhere ==
    /\ wallet # None /\ Uncovered
    /\ Render([home EXCEPT !.step = @ - 1], wallet, form)
    /\ UNCHANGED <<wvars, runs, clicks>>

Back ==
    /\ wallet # None /\ Uncovered
    /\ home.step = 2 \/ form # None
    /\ Render([home EXCEPT !.step = @ - 1], wallet, form)
    /\ UNCHANGED <<wvars, runs, clicks>>

Reset ==
    /\ wallet # None /\ Uncovered
    /\ home.step > 1
    /\ Render([home EXCEPT !.step = 1, !.pk = None, !.p7s = None], wallet, form)
    /\ UNCHANGED <<wvars, runs, clicks>>

\* The button of step 1, which resets the wizard too.
Disconnect ==
    /\ wallet # None /\ home.step = 1
    /\ Render([home EXCEPT !.pk = None, !.p7s = None], None, form)
    /\ UNCHANGED <<wvars, runs, clicks>>

-----------------------------------------------------------------------------
(***************************************************************************)
(* The form, phase "prove"                                                 *)
(***************************************************************************)
Proving == form # None /\ home.step = 3 /\ ~form.scwModal

\* Variant: the card is locked only once there is a proof.
LockedWhenDone == form.pipelineDone

\* The age card is disabled.
Locked == form.pipelineDone \/ form.stage

RunsOf(p) == {k \in Clicks : runs[k] # None /\ runs[k].prover = p}

ChangeCutoff(c) ==
    /\ Proving /\ ~Locked
    /\ <<home.ageCutoffYmd, c>> \in CutoffChanges
    /\ home' = [home EXCEPT !.ageCutoffYmd = c]
    /\ form' = [form EXCEPT !.loose =
                  @ \/ (form.clicked = 1 /\ \E k \in RunsOf(form.prover) : runs[k].at = "starting")]
    /\ UNCHANGED <<wvars, wallet, runs, forms, clicks>>

ChangeOptIn ==
    /\ Proving /\ ~Locked
    /\ home' = [home EXCEPT !.ageOptIn = ~@]
    /\ UNCHANGED <<wvars, wallet, form, runs, forms, clicks>>

\* The closure of a run that starts now.
Started ==
    [at |-> "starting", prover |-> form.prover, pk |-> home.pk, p7s |-> home.p7s,
     ageOptIn |-> home.ageOptIn, cutoff |-> home.ageCutoffYmd]

\* onProveAndRegister: nothing disables the button during a run.  The proofs
\* of an earlier run stay on the form.  isSmartContractWallet asks the chain
\* for code at the address, which may come and go.
Click ==
    /\ Proving
    /\ form.tx # None => form.tx.at # "pending"
    /\ clicks < MaxClicks
    /\ clicks' = clicks + 1
    /\ LET f == [form EXCEPT !.stage = FALSE, !.pipelineDone = FALSE,
                             !.clicked = @ + 1, !.loose = FALSE]
       IN \/ form' = [f EXCEPT !.scwModal = TRUE] /\ UNCHANGED runs
          \/ form' = f /\ runs' = [runs EXCEPT ![clicks'] = Started]
    /\ UNCHANGED <<wvars, wallet, home, forms>>

\* onScwPassphraseSubmit; the hash of the passphrase is derived behind the
\* dialog.
SubmitPassphrase ==
    /\ form # None /\ form.scwModal
    /\ form' = [form EXCEPT !.scwModal = FALSE]
    /\ runs' = [runs EXCEPT ![clicks] = Started]
    /\ UNCHANGED <<wvars, wallet, home, forms, clicks>>

CancelPassphrase ==
    /\ form # None /\ form.scwModal
    /\ form' = [form EXCEPT !.scwModal = FALSE]
    /\ UNCHANGED <<wvars, wallet, home, runs, forms, clicks>>

\* onUploadProof.  A file without an age proof leaves the one of an earlier
\* run or file in place.
Upload(file) ==
    /\ Proving /\ ~form.pipelineDone
    /\ Render([home EXCEPT !.step = 4], wallet,
              [form EXCEPT !.provedArgs = file.args, !.pipelineDone = TRUE,
                           !.ageProvedArgs = IF file.age = None THEN @ ELSE file.age])
    /\ UNCHANGED <<wvars, runs, clicks>>

-----------------------------------------------------------------------------
(***************************************************************************)
(* A run: runPipelineAndSubmit and proveAgeOnly                            *)
(***************************************************************************)
At(k, at) == runs[k] # None /\ runs[k].at = at

Goes(k, at) == runs' = [runs EXCEPT ![k].at = at]
Ends(k) == runs' = [runs EXCEPT ![k] = None]

\* The run belongs to the mounted form; setState of another one does nothing.
Mounted(k) == form # None /\ form.prover = runs[k].prover

\* onProgress: setStage, at the first tick of the pipeline and at later ones.
\* Before the first come the signature that the secret is made of, the probe
\* for a local server and two fetches, which are one stage here.
Progress(k) ==
    /\ At(k, "starting") \/ At(k, "proving")
    /\ Goes(k, "proving")
    /\ form' = IF Mounted(k) THEN [form EXCEPT !.stage = TRUE] ELSE form
    /\ UNCHANGED <<wvars, wallet, home, forms, clicks>>

\* The wallet refuses, the file does not parse, or no prover succeeds.
Fails(k) ==
    /\ At(k, "starting") \/ At(k, "proving") \/ At(k, "witness")
    /\ Ends(k)
    /\ UNCHANGED <<wvars, wallet, home, form, forms, clicks>>

\* onProveComplete is setStep(4) of the page, whatever the page shows now.
Complete(k, f) ==
    /\ Ends(k)
    /\ Render([home EXCEPT !.step = 4], wallet, f)

\* Variant: the step changes without the proof.
ProvedForgetting(k) ==
    /\ At(k, "proving") /\ runs[k].p7s.pk = runs[k].pk
    /\ LET f == IF Mounted(k) THEN [form EXCEPT !.pipelineDone = TRUE] ELSE form
       IN IF runs[k].ageOptIn
          THEN Goes(k, "witness") /\ form' = f /\ UNCHANGED <<wallet, home, forms>>
          ELSE Complete(k, f)
    /\ UNCHANGED <<wvars, clicks>>

\* The pipeline returns; it proves only a signature over the run's binding.
Proved(k) ==
    /\ At(k, "proving") /\ runs[k].p7s.pk = runs[k].pk
    /\ LET args == [id |-> runs[k].p7s.id, pk |-> runs[k].pk, uploaded |-> FALSE]
           f == IF Mounted(k) THEN [form EXCEPT !.pipelineDone = TRUE, !.provedArgs = args]
                ELSE form
       IN IF runs[k].ageOptIn
          THEN Goes(k, "witness") /\ form' = f /\ UNCHANGED <<wallet, home, forms>>
          ELSE Complete(k, f)
    /\ UNCHANGED <<wvars, clicks>>

\* proveAgeOnly, after the witness and the two fetches.
ProveAge(k) ==
    /\ At(k, "witness")
    /\ Goes(k, "age")
    /\ Prove(k, runs[k].prover)
    /\ UNCHANGED <<wallet, home, form, forms, clicks>>

\* The result is thrown away when ageQualified is not 1.
AgeProved(k) ==
    /\ At(k, "age")
    /\ HandleMessage(k, "result")
    /\ \/ LET age == [id |-> runs[k].p7s.id, cutoff |-> runs[k].cutoff, uploaded |-> FALSE]
          IN Complete(k, IF Mounted(k) THEN [form EXCEPT !.ageProvedArgs = age] ELSE form)
       \/ Ends(k) /\ UNCHANGED <<wallet, home, form, forms>>
    /\ UNCHANGED clicks

AgeFailed(k) ==
    /\ At(k, "age")
    /\ HandleMessage(k, "error")
    /\ Ends(k)
    /\ UNCHANGED <<wallet, home, form, forms, clicks>>

WorkerFails(p) ==
    /\ HandleError(p)
    /\ runs' = [k \in Clicks |-> IF k \in Listening(p) THEN None ELSE runs[k]]
    /\ UNCHANGED <<wallet, home, form, forms, clicks>>

-----------------------------------------------------------------------------
(***************************************************************************)
(* The form, phase "review"                                                *)
(***************************************************************************)

\* submitRegister: register, or registerWithAge with the cutoff of the page.
Submit ==
    /\ form # None /\ home.step = 4 /\ ~form.scwModal
    /\ form.provedArgs # None
    /\ form.tx = None
    /\ form' = [form EXCEPT !.tx =
                  [at |-> "pending", from |-> wallet, args |-> form.provedArgs,
                   age |-> form.ageProvedArgs, cutoff |-> home.ageCutoffYmd]]
    /\ UNCHANGED <<wvars, wallet, home, runs, forms, clicks>>

\* The wallet refuses the transaction, or sends it.
Answer ==
    /\ form # None
    /\ form.tx # None /\ form.tx.at = "pending"
    /\ form' \in {[form EXCEPT !.tx = None], [form EXCEPT !.tx.at = "sent"]}
    /\ UNCHANGED <<wvars, wallet, home, runs, forms, clicks>>

\* The gates of the registry on what the page chose: the sender is the wallet
\* of the proof, the age proof is for that binding and that cutoff.
Accepted(tx) ==
    /\ tx.from = tx.args.pk
    /\ tx.age # None => tx.age.id = tx.args.id /\ tx.age.cutoff = tx.cutoff

-----------------------------------------------------------------------------
AgeAnswer(k) == AgeProved(k) \/ AgeFailed(k)

FlowNext ==
    \/ \E w \in Wallets \cup {None} : ChangeWallet(w)
    \/ GenerateBinding
    \/ \E id \in Identities : ChooseP7s(id)
    \/ Back \/ Reset \/ Disconnect
    \/ \E c \in Cutoffs : ChangeCutoff(c)
    \/ ChangeOptIn
    \/ Click \/ SubmitPassphrase \/ CancelPassphrase
    \/ \E f \in Files : Upload(f)
    \/ \E k \in Clicks :
          \/ Progress(k) \/ Fails(k) \/ Proved(k)
          \/ ProveAge(k) \/ AgeAnswer(k)
    \/ \E p \in Provers : WorkerFails(p)
    \/ Submit \/ Answer
=============================================================================
