----------------------------- MODULE CliPresence -----------------------------
(***************************************************************************)
(* Whether a page takes its witness to the local server: useCliPresence    *)
(* and detectCli, and the click of Step4ProveAndRegister that reads them,  *)
(* in front of ProveDispatch.  One page, Viewer, has its hook modelled;    *)
(* the others begin their runs with any verdict.                           *)
(***************************************************************************)
EXTENDS ProveDispatch

CONSTANTS
    Viewer,
    MaxProbes       \* bound on the probes of the page

ASSUME PresenceAssumption == Viewer \in Requests /\ MaxProbes \in Nat

VARIABLES
    hook,           \* refs and state of the hook
    probe,          \* id -> what the probe awaits, or the verdict it brings
    click           \* onProveAndRegister: what it awaits, or cliReady

hvars == <<hook, probe, click>>
pvars == <<dvars, hvars>>

Probes == 1 .. MaxProbes
Verdicts == {"present", "absent"}

\* latest is latestProbeIdRef; saw is history, the verdict of that probe.
Hook ==
    [mounted : BOOLEAN, latest : Probes \cup {0},
     status : Verdicts \cup {"detecting"}, saw : Verdicts \cup {"none"}]

PresenceTypeOK ==
    /\ DispatchTypeOK
    /\ hook \in Hook
    /\ probe \in [Probes -> Verdicts \cup {"none", "asked"}]
    /\ click \in [at : Verdicts \cup {"none", "asking"}, probe : Probes \cup {0}]

NoHook == [mounted |-> FALSE, latest |-> 0, status |-> "detecting", saw |-> "none"]
NoClick == [at |-> "none", probe |-> 0]

PresenceInit ==
    /\ DispatchInit
    /\ hook = NoHook
    /\ probe = [i \in Probes |-> "none"]
    /\ click = NoClick

\* The page has not posted its witness, nor begun to prove.
BeforeRun == stage[Viewer] = "idle"

\* runProbe, up to its await, in the hook h.
RunProbe(h) ==
    /\ h.latest < MaxProbes
    /\ hook' = [h EXCEPT !.latest = @ + 1, !.saw = "none"]
    /\ probe' = [probe EXCEPT ![h.latest + 1] = "asked"]

-----------------------------------------------------------------------------
\* The effect of the hook, run again after a clean-up by StrictMode.
Mount ==
    /\ BeforeRun
    /\ ~hook.mounted
    /\ RunProbe([hook EXCEPT !.mounted = TRUE, !.status = "detecting"])
    /\ UNCHANGED <<dvars, click>>

Unmount ==
    /\ BeforeRun
    /\ hook.mounted
    /\ hook' = [hook EXCEPT !.mounted = FALSE, !.saw = "none"]
    /\ UNCHANGED <<dvars, probe, click>>

\* visibilitychange
Visible ==
    /\ BeforeRun
    /\ hook.mounted
    /\ RunProbe(hook)
    /\ UNCHANGED <<dvars, click>>

\* detectCli: the server answers that it is ready; or it does not answer in
\* 500 ms, answers something else, or cannot be reached.
Answered(i) ==
    /\ probe[i] = "asked"
    /\ \E v \in Verdicts :
          /\ v = "present" => proc = "up"
          /\ probe' = [probe EXCEPT ![i] = v]
          /\ hook' = [hook EXCEPT !.saw = IF hook.mounted /\ hook.latest = i THEN v ELSE @]
    /\ UNCHANGED <<dvars, click>>

\* What the await of probe i hands back, to the run that waits for it too.
Returns(i) ==
    /\ probe[i] \in Verdicts
    /\ probe' = [probe EXCEPT ![i] = "none"]
    /\ click' = IF click = [at |-> "asking", probe |-> i]
                THEN [at |-> probe[i], probe |-> 0] ELSE click
    /\ UNCHANGED dvars

\* Variant: an older probe is not told from the latest.
CommitAny(i) ==
    /\ Returns(i)
    /\ hook' = IF hook.mounted THEN [hook EXCEPT !.status = probe[i]] ELSE hook

\* Variant: only a server that is there changes the state.
CommitPresent(i) ==
    /\ Returns(i)
    /\ hook' = IF hook.mounted /\ hook.latest = i /\ probe[i] = "present"
               THEN [hook EXCEPT !.status = probe[i]] ELSE hook

\* The rest of runProbe.
Commit(i) ==
    /\ Returns(i)
    /\ hook' = IF hook.mounted /\ hook.latest = i
               THEN [hook EXCEPT !.status = probe[i]] ELSE hook

-----------------------------------------------------------------------------
\* The click takes the verdict on the page, unless there is none yet.
ClickTakes ==
    /\ BeforeRun
    /\ hook.mounted /\ hook.status # "detecting"
    /\ click = NoClick
    /\ click' = [at |-> hook.status, probe |-> 0]
    /\ UNCHANGED <<dvars, hook, probe>>

\* recheck(): at once when there is none, or after the passphrase of a smart
\* contract wallet, in any case.
ClickRechecks ==
    /\ BeforeRun
    /\ hook.mounted
    /\ click = NoClick
    /\ RunProbe(hook)
    /\ click' = [at |-> "asking", probe |-> hook.latest + 1]
    /\ UNCHANGED dvars

\* The secret or the witness is not made; the page may click again.
ClickFails ==
    /\ BeforeRun
    /\ click.at \in Verdicts
    /\ click' = NoClick
    /\ UNCHANGED <<dvars, hook, probe>>

\* runCliFirstProver is called with cliReady.  Only the click reads this hook;
\* what it does after the run has begun is left out.
Begin ==
    /\ \/ click.at = "absent" /\ SkipCli(Viewer)
       \/ click.at = "present" /\ (Post(Viewer) \/ PostFails(Viewer))
    /\ hook' = NoHook
    /\ probe' = [i \in Probes |-> "none"]
    /\ click' = NoClick

Others ==
    \E t \in Requests :
        \/ t # Viewer /\ (SkipCli(t) \/ Post(t) \/ PostFails(t))
        \/ Receive(t) \/ BrowserProves(t) \/ Leave(t)

PresenceNext ==
    \/ Mount \/ Unmount \/ Visible
    \/ \E i \in Probes : Answered(i) \/ Commit(i)
    \/ ClickTakes \/ ClickRechecks \/ ClickFails
    \/ Begin
    \/ (Others \/ Server) /\ UNCHANGED hvars

\* A probe ends after 500 ms at the latest.
PresenceFairness ==
    \A i \in Probes : WF_pvars(Answered(i)) /\ WF_pvars(Commit(i))

PresenceSpec ==
    PresenceInit /\ [][PresenceNext]_pvars /\ DispatchFairness /\ PresenceFairness

-----------------------------------------------------------------------------
(***************************************************************************)
(* Properties                                                              *)
(***************************************************************************)

\* Once the probe that was started last has come back, the page shows its
\* verdict and goes on showing it, whichever earlier probe comes back later,
\* started by an earlier mount, by the tab or by a click (latestProbeIdRef and
\* mountedRef of useCliPresence.ts).
LatestShown ==
    hook.mounted /\ probe[hook.latest] = "none" => hook.status = hook.saw

\* A page that is detecting the server comes to a verdict, is left, or asks
\* again: no clean-up, remount or dropped answer leaves it detecting for ever.
DetectingSettles ==
    \A n \in Probes :
        hook.mounted /\ hook.status = "detecting" /\ hook.latest = n
        ~> ~hook.mounted \/ hook.status # "detecting" \/ hook.latest # n
=============================================================================
