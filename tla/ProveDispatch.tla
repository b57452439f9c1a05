---------------------------- MODULE ProveDispatch ----------------------------
(***************************************************************************)
(* How a page gets its proof: runCliFirstProver of                         *)
(* packages/web/src/lib/cliFallbackProver.ts with proveViaCli and the      *)
(* browser prover behind it (proveV5, then publicSignalsV7FromArray in     *)
(* uaProofPipelineV5_2.ts).  Several pages share one prove server, which   *)
(* is ProveService; a page makes one run, and the request it posts bears   *)
(* its name.                                                               *)
(***************************************************************************)
EXTENDS ProveService, Integers

VARIABLES
    stage,      \* page -> what runCliFirstProver awaits
    status,     \* page -> status of its CliProveError, NoError without one
    outcome     \* page -> how the run ended

dvars == <<proc, serving, answer, stage, status, outcome>>
pageVars == <<stage, status, outcome>>

NoError == 1
Statuses == {-1, 0, 429, 500, NoError}

\* The circuit both provers run has 21 public signals.
CircuitSignals == 21

\* "short": proveV5 or publicSignalsV7FromArray refuses the signals;
\* "crash": the worker failed; "closed": the page was left.
Outcomes == {"none", "cli", "browser", "short", "crash", "surfaced", "closed"}

DispatchTypeOK ==
    /\ proc \in {"up", "stopping", "down"}
    /\ serving \in Requests \cup {NoRequest}
    /\ answer \in [Requests -> Answers \cup {"none"}]
    /\ stage \in [Requests -> {"idle", "posting", "browser", "settled"}]
    /\ status \in [Requests -> Statuses]
    /\ outcome \in [Requests -> Outcomes]

DispatchInit ==
    /\ ServiceInit
    /\ stage = [t \in Requests |-> "idle"]
    /\ status = [t \in Requests |-> NoError]
    /\ outcome = [t \in Requests |-> "none"]

\* CliProveError.shouldFallback
ShouldFallback(s) == s \in {-1, 0, 429} \cup 500 .. 599

\* ALLOWED_PUBLIC_SIGNAL_LENGTHS and PUBLIC_SIGNALS_V7_LENGTH
LengthAccepted(n) == n \in {14, 19, 22}
Decodes(n) == n = 21

Settle(t, how) ==
    /\ stage' = [stage EXCEPT ![t] = "settled"]
    /\ outcome' = [outcome EXCEPT ![t] = how]

\* Variant: a busy server sends the page back to wait for another try that
\* nothing starts.
CliFailedWaiting(t, s) ==
    /\ status' = [status EXCEPT ![t] = s]
    /\ stage' = [stage EXCEPT ![t] = IF s = 429 THEN "idle" ELSE "browser"]
    /\ UNCHANGED outcome

\* The catch of runCliFirstProver: rethrow, or go on to the browser prover.
CliFailed(t, s) ==
    /\ status' = [status EXCEPT ![t] = s]
    /\ IF ShouldFallback(s)
       THEN stage' = [stage EXCEPT ![t] = "browser"] /\ UNCHANGED outcome
       ELSE Settle(t, "surfaced")

-----------------------------------------------------------------------------
\* cliPresent is false: the server was not seen when the run began.
SkipCli(t) ==
    /\ stage[t] = "idle"
    /\ stage' = [stage EXCEPT ![t] = "browser"]
    /\ UNCHANGED <<proc, serving, answer, status, outcome>>

Post(t) ==
    /\ stage[t] = "idle"
    /\ Accept(t) \/ Refuse(t)
    /\ stage' = [stage EXCEPT ![t] = "posting"]
    /\ UNCHANGED <<status, outcome>>

\* Variant: a rejected fetch is given a status of its own.
PostFailsAsTimeout(t) ==
    /\ stage[t] = "idle"
    /\ CliFailed(t, 408)
    /\ UNCHANGED svars

\* fetch rejects: the server went away after it was seen, or its preflight
\* answer does not name the page's origin, so that the page never sees a 403.
PostFails(t) ==
    /\ stage[t] = "idle"
    /\ CliFailed(t, 0)
    /\ UNCHANGED svars

\* What a page can make of an answer; a 200 may be cut short.
StatusOf(a) ==
    CASE a = "200" -> {NoError, -1}
      [] a = "429" -> {429}
      [] a = "500" -> {500}
      [] a = "lost" -> {0}
      [] OTHER -> {}

\* Variant: the page gives up waiting and takes that for a network error.
ReceiveOrTimeout(t) ==
    /\ stage[t] = "posting"
    /\ \/ \E s \in StatusOf(answer[t]) \ {NoError} : CliFailed(t, s)
       \/ answer[t] = "none" /\ CliFailed(t, 0)
       \/ answer[t] = "200" /\ Settle(t, "cli") /\ UNCHANGED status
    /\ UNCHANGED svars

\* proveViaCli returns or throws.  The server's verifyOk is not looked at.
Receive(t) ==
    /\ stage[t] = "posting"
    /\ \/ \E s \in StatusOf(answer[t]) \ {NoError} : CliFailed(t, s)
       \/ answer[t] = "200" /\ Settle(t, "cli") /\ UNCHANGED status
    /\ UNCHANGED svars

\* runBrowserProver, then the decoding of the signals.  A witness that does
\* not satisfy the circuit makes the worker fail.
BrowserProves(t) ==
    /\ stage[t] = "browser"
    /\ \/ Settle(t, "crash")
       \/ /\ t \in ValidWitness
          /\ IF LengthAccepted(CircuitSignals) /\ Decodes(CircuitSignals)
             THEN Settle(t, "browser")
             ELSE Settle(t, "short")
    /\ UNCHANGED <<proc, serving, answer, status>>

\* The page is left; a request it has posted stays with the server.
Leave(t) ==
    /\ stage[t] \in {"posting", "browser"}
    /\ Settle(t, "closed")
    /\ UNCHANGED <<proc, serving, answer, status>>

Server ==
    /\ (\E t \in Requests : Finish(t)) \/ Stop \/ Die \/ Start
    /\ UNCHANGED pageVars

DispatchNext ==
    \/ \E t \in Requests :
          SkipCli(t) \/ Post(t) \/ PostFails(t) \/ Receive(t) \/ BrowserProves(t) \/ Leave(t)
    \/ Server

\* The server is fair while it is up, an answer reaches its page, and the
\* worker ends.
DispatchFairness ==
    \A t \in Requests :
        /\ WF_dvars(proc = "up" /\ Finish(t) /\ UNCHANGED pageVars)
        /\ WF_dvars(Receive(t))
        /\ WF_dvars(BrowserProves(t))

DispatchSpec == DispatchInit /\ [][DispatchNext]_dvars /\ DispatchFairness

-----------------------------------------------------------------------------
(***************************************************************************)
(* Properties                                                              *)
(***************************************************************************)

\* A page goes to the browser prover only when no handler of the server works
\* on its request any more, so the two provers never compete for the memory of
\* the machine over one witness, through refusals, errors and restarts (the
\* catch of runCliFirstProver).  A child left by a server that ended is not
\* the service's any more: see OneProverOnTheMachine of CliServer.
NotProvedTwice == \A t \in Requests : stage[t] = "browser" => serving # t

\* A page is refused with 429 only because another page's request was being
\* served, so that of all pages that post to one server some are not refused
\* (the 429 case of shouldFallback and the busy flag behind it).
RefusedForAnother ==
    \A t \in Requests :
        status[t] = 429 =>
            \E u \in Requests \ {t} : stage[u] # "idle" /\ status[u] # 429 /\ answer[u] # "429"

\* Every run that has begun settles, with a proof or an error, unless the
\* server stops under it (proveViaCli has no timeout of its own).
RunsSettle ==
    \A t \in Requests :
        stage[t] \in {"posting", "browser"} ~> stage[t] = "settled" \/ proc = "stopping"

\* What proveViaCli.ts says of the fallback: the browser's proof of the same
\* witness is accepted.
BrowserProofAccepted == \A t \in Requests : status[t] = 429 => outcome[t] # "short"

\* What proveViaCli.ts and uaProofPipelineV5_2.ts say of a witness that does
\* not satisfy the circuit: the server's verdict is surfaced, and the browser
\* does not try it again.
InvalidNotRetried ==
    \A t \in Requests :
        stage[t] = "browser" /\ status[t] # NoError /\ answer[t] = "500" => t \in ValidWitness
=============================================================================
