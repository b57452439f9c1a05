-------------------------- MODULE CliPresenceProofs --------------------------
(***************************************************************************)
(* Safety of the prove dispatch, for any number of pages, whatever their   *)
(* witnesses, and of the presence probe before it, for any number of       *)
(* probes: the hook only narrows what pages do, so what is proved of       *)
(* ProveDispatch holds of pages that have one.                             *)
(***************************************************************************)
EXTENDS CliPresence, TLAPS

-----------------------------------------------------------------------------
(***************************************************************************)
(* ProveDispatch                                                           *)
(***************************************************************************)

\* The server and a page agree on where the page's request is: a page that
\* has not posted has no answer, a request being served has none yet and its
\* page is not at the browser prover.
Posted ==
    \A t \in Requests :
        /\ stage[t] = "idle" => answer[t] = "none" /\ status[t] = NoError
        /\ serving = t => answer[t] = "none" /\ stage[t] \in {"posting", "settled"}
        /\ status[t] = 429 => answer[t] = "429"

\* A 429 has a page behind it that was not refused.
RefusalsExplained ==
    \A t \in Requests :
        answer[t] = "429" => \E u \in Requests \ {t} : stage[u] # "idle" /\ answer[u] # "429"

IInv == DispatchTypeOK /\ Posted /\ RefusalsExplained

\* No page has begun.
LEMMA InvInit == DispatchInit => IInv
BY ServiceAssumption
DEF DispatchInit, ServiceInit, IInv, DispatchTypeOK, Posted, RefusalsExplained, Statuses,
    NoError, Outcomes, Answers, Immediate

\* The catch of runCliFirstProver after status s, and what it leaves alone.
LEMMA CliFailedFacts ==
    ASSUME DispatchTypeOK, NEW t \in Requests, NEW s \in {-1, 0, 429, 500}, CliFailed(t, s)
    PROVE  /\ stage' = [stage EXCEPT ![t] = "browser"]
           /\ status' = [status EXCEPT ![t] = s]
           /\ outcome' = outcome
<1>1. ShouldFallback(s)
  BY DEF ShouldFallback
<1> QED BY <1>1 DEF CliFailed

\* Steps of a page that do not touch the server.
LEMMA PageInv ==
    ASSUME IInv, NEW t \in Requests, SkipCli(t) \/ PostFails(t) \/ BrowserProves(t) \/ Leave(t)
    PROVE  IInv'
<1> USE DEF IInv, DispatchTypeOK, Posted, RefusalsExplained, Statuses, NoError, Outcomes
<1>1. CASE SkipCli(t)
  BY <1>1 DEF SkipCli
<1>2. CASE PostFails(t)
  BY <1>2, CliFailedFacts DEF PostFails, svars
<1>3. CASE BrowserProves(t) \/ Leave(t)
  BY <1>3 DEF BrowserProves, Leave, Settle
<1> QED BY <1>1, <1>2, <1>3

\* A post is taken, or refused because another page is served.
LEMMA PostInv ==
    ASSUME IInv, NEW t \in Requests, Post(t)
    PROVE  IInv'
<1> USE ServiceAssumption DEF IInv, DispatchTypeOK, Posted, RefusalsExplained, Answers, Immediate
<1>1. CASE Accept(t)
  BY <1>1 DEF Post, Accept, Waiting
<1>2. CASE Refuse(t)
  <2>1. PICK u \in Requests \ {t} : serving = u /\ answer[u] = "none" /\ stage[u] # "idle"
    BY <1>2 DEF Refuse, Waiting
  <2> QED BY <1>2, <2>1 DEF Post, Refuse, Waiting
<1> QED BY <1>1, <1>2 DEF Post

\* An answer has arrived, so the server is done with the request.
LEMMA ReceiveInv ==
    ASSUME IInv, NEW t \in Requests, Receive(t)
    PROVE  IInv'
<1> USE DEF IInv, DispatchTypeOK, Posted, RefusalsExplained, Statuses, NoError, Outcomes
<1>1. ASSUME NEW s \in StatusOf(answer[t]) \ {NoError}, CliFailed(t, s), UNCHANGED svars
      PROVE  IInv'
  <2>1. s \in {-1, 0, 429, 500} /\ (s = 429 => answer[t] = "429") /\ answer[t] # "none"
    BY <1>1 DEF StatusOf, Answers, Immediate
  <2> QED BY <1>1, <2>1, CliFailedFacts DEF svars, Receive
<1>2. CASE Settle(t, "cli") /\ UNCHANGED status /\ UNCHANGED svars
  BY <1>2 DEF Settle, svars, Receive
<1> QED BY <1>1, <1>2 DEF Receive

\* Steps of the server alone.
LEMMA ServerInv ==
    ASSUME IInv, Server
    PROVE  IInv'
<1> USE ServiceAssumption
    DEF IInv, DispatchTypeOK, Posted, RefusalsExplained, Answers, Immediate, pageVars
<1>1. ASSUME NEW t \in Requests, Finish(t), UNCHANGED pageVars PROVE IInv'
  BY <1>1 DEF Finish
<1>2. CASE (Stop \/ Start) /\ UNCHANGED pageVars
  BY <1>2 DEF Stop, Start
<1>3. CASE Die /\ UNCHANGED pageVars
  BY <1>3 DEF Die
<1> QED BY <1>1, <1>2, <1>3 DEF Server

\* Pages and server keep the invariant, however their steps interleave.
THEOREM Invariant == DispatchSpec => []IInv
<1>1. IInv /\ [DispatchNext]_dvars => IInv'
  <2> SUFFICES ASSUME IInv, [DispatchNext]_dvars PROVE IInv'
    OBVIOUS
  <2>1. CASE UNCHANGED dvars
    BY <2>1 DEF dvars, IInv, DispatchTypeOK, Posted, RefusalsExplained
  <2> QED BY <2>1, PageInv, PostInv, ReceiveInv, ServerInv DEF DispatchNext
<1> QED BY <1>1, InvInit, PTL DEF DispatchSpec

\* The variables of pages and service keep their types.
THEOREM TypeCorrect == DispatchSpec => []DispatchTypeOK
<1>1. IInv => DispatchTypeOK
  BY DEF IInv
<1> QED BY <1>1, Invariant, PTL

\* No witness is at the server and at the browser prover at the same time.
THEOREM OneProverPerWitness == DispatchSpec => []NotProvedTwice
<1>1. IInv => NotProvedTwice
  BY DEF IInv, Posted, NotProvedTwice
<1> QED BY <1>1, Invariant, PTL

\* Every refusal is owed to another page, whose request was taken.
THEOREM RefusalsOwed == DispatchSpec => []RefusedForAnother
<1>1. IInv => RefusedForAnother
  BY DEF IInv, Posted, RefusalsExplained, RefusedForAnother
<1> QED BY <1>1, Invariant, PTL

-----------------------------------------------------------------------------
(***************************************************************************)
(* CliPresence                                                             *)
(***************************************************************************)

\* A mounted hook has started a probe.  The latest one is asked, and nothing
\* is known of it; brings what it saw; or has come back, and is shown.
LatestKnown ==
    hook.mounted =>
        /\ hook.latest \in Probes
        /\ \/ probe[hook.latest] = "asked" /\ hook.saw = "none"
           \/ probe[hook.latest] \in Verdicts /\ hook.saw = probe[hook.latest]
           \/ probe[hook.latest] = "none" /\ hook.status = hook.saw

HookTypeOK ==
    /\ hook \in Hook
    /\ probe \in [Probes -> Verdicts \cup {"none", "asked"}]
    /\ click \in [at : Verdicts \cup {"none", "asking"}, probe : Probes \cup {0}]

HookInv == HookTypeOK /\ LatestKnown

\* Every step of a page with a hook is a step of ProveDispatch, or changes
\* nothing of it.
LEMMA StepDispatches == [PresenceNext]_pvars => [DispatchNext]_dvars
<1> SUFFICES ASSUME [PresenceNext]_pvars PROVE [DispatchNext]_dvars
  OBVIOUS
<1>1. CASE Begin \/ Others \/ Server
  BY <1>1, PresenceAssumption DEF Begin, Others, DispatchNext
<1>2. CASE Mount \/ Unmount \/ Visible \/ ClickTakes \/ ClickRechecks \/ ClickFails
  BY <1>2 DEF Mount, Unmount, Visible, ClickTakes, ClickRechecks, ClickFails
<1>3. ASSUME NEW i \in Probes, Answered(i) \/ Commit(i) PROVE UNCHANGED dvars
  BY <1>3 DEF Answered, Commit, Returns
<1>4. CASE UNCHANGED pvars
  BY <1>4 DEF pvars
<1> QED BY <1>1, <1>2, <1>3, <1>4 DEF PresenceNext

\* The start of a probe, which becomes the latest.
LEMMA RunProbeInv ==
    ASSUME HookInv, NEW h \in Hook, h.latest = hook.latest, RunProbe(h),
           click' \in [at : Verdicts \cup {"none", "asking"}, probe : Probes \cup {0}]
    PROVE  HookInv'
<1>1. h.latest + 1 \in Probes
  BY PresenceAssumption DEF RunProbe, Hook, Probes
<1>2. hook' \in Hook /\ hook'.latest = h.latest + 1 /\ hook'.saw = "none"
  BY <1>1 DEF RunProbe, Hook
<1> QED BY <1>1, <1>2 DEF RunProbe, HookInv, HookTypeOK, LatestKnown

\* What the hook and the click may do keeps the invariant.
LEMMA HookStep == HookInv /\ [PresenceNext]_pvars => HookInv'
<1> SUFFICES ASSUME HookInv, [PresenceNext]_pvars PROVE HookInv'
  OBVIOUS
<1> USE DEF HookInv, HookTypeOK, LatestKnown
<1>1. CASE Mount
  <2>1. [hook EXCEPT !.mounted = TRUE, !.status = "detecting"] \in Hook
    BY DEF Hook
  <2> QED BY <1>1, <2>1, RunProbeInv DEF Mount, Hook
<1>2. CASE Visible
  BY <1>2, RunProbeInv DEF Visible
<1>3. CASE ClickRechecks
  <2>1. hook.latest + 1 \in Probes
    BY <1>3, PresenceAssumption DEF ClickRechecks, RunProbe, Hook, Probes
  <2> QED BY <1>3, <2>1, RunProbeInv DEF ClickRechecks
<1>4. CASE Unmount
  BY <1>4 DEF Unmount, Hook
<1>5. ASSUME NEW i \in Probes, Answered(i) PROVE HookInv'
  BY <1>5 DEF Answered, Hook, Verdicts
<1>6. ASSUME NEW i \in Probes, Commit(i) PROVE HookInv'
  <2>1. probe' = [probe EXCEPT ![i] = "none"] /\ probe[i] \in Verdicts
    BY <1>6 DEF Commit, Returns
  <2>2. click' \in [at : Verdicts \cup {"none", "asking"}, probe : Probes \cup {0}]
    BY <1>6 DEF Commit, Returns
  <2>3. CASE hook.mounted /\ hook.latest = i
    BY <1>6, <2>1, <2>2, <2>3 DEF Commit, Hook, Verdicts
  <2>4. CASE ~(hook.mounted /\ hook.latest = i)
    BY <1>6, <2>1, <2>2, <2>4 DEF Commit
  <2> QED BY <2>3, <2>4
<1>7. CASE ClickTakes
  BY <1>7 DEF ClickTakes, Hook
<1>8. CASE ClickFails
  BY <1>8 DEF ClickFails, NoClick
<1>9. CASE Begin
  BY <1>9 DEF Begin, NoHook, NoClick, Hook
<1>10. CASE UNCHANGED hvars
  BY <1>10 DEF hvars
<1>11. UNCHANGED pvars => UNCHANGED hvars
  BY DEF pvars
<1> QED BY <1>1, <1>2, <1>3, <1>4, <1>5, <1>6, <1>7, <1>8, <1>9, <1>10, <1>11 DEF PresenceNext

\* Pages with a hook in front are pages of the dispatch: whatever the hook does,
\* runCliFirstProver and the server go through a behaviour of ProveDispatch,
\* with its fairness (useCliPresence, recheck and what calls it).
THEOREM DispatchKept == PresenceSpec => DispatchSpec
<1>1. PresenceInit => DispatchInit
  BY DEF PresenceInit
<1> QED BY <1>1, StepDispatches, PTL DEF PresenceSpec, DispatchSpec

\* The hook never loses track of its latest probe.
THEOREM HookKept == PresenceSpec => []HookInv
<1>1. PresenceInit => HookInv
  BY DEF PresenceInit, NoHook, NoClick, HookInv, HookTypeOK, LatestKnown, Hook
<1> QED BY <1>1, HookStep, PTL DEF PresenceSpec

\* The variables of pages, hook and service keep their types.
THEOREM PresenceTypeCorrect == PresenceSpec => []PresenceTypeOK
<1>1. IInv /\ HookInv => PresenceTypeOK
  BY DEF IInv, HookInv, HookTypeOK, PresenceTypeOK
<1> QED BY <1>1, DispatchKept, Invariant, HookKept, PTL

\* The page shows what the latest probe saw, once that is back.
THEOREM LatestVerdictShown == PresenceSpec => []LatestShown
<1>1. HookInv => LatestShown
  BY DEF HookInv, LatestKnown, LatestShown, Verdicts
<1> QED BY <1>1, HookKept, PTL

\* With the hook in front, no witness is at both provers either.
THEOREM PresenceOneProver == PresenceSpec => []NotProvedTwice
BY DispatchKept, OneProverPerWitness, PTL

\* With the hook in front, every refusal is owed to another page.
THEOREM PresenceRefusalsOwed == PresenceSpec => []RefusedForAnother
BY DispatchKept, RefusalsOwed, PTL
=============================================================================
