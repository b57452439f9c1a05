--------------------------- MODULE SnarkjsWorker ---------------------------
(***************************************************************************)
(* SnarkjsWorkerProver and the worker it drives (sdk/src/prover/           *)
(* snarkjsWorker.ts, snarkjsWorkerEntry.ts), as the pages make it: one     *)
(* worker for a prover, terminated after a prove, several proves at once   *)
(* and no abort signal.  The pages that call it are RegisterFlow and       *)
(* AccountAge; a settled prove resumes its caller in the same step.        *)
(***************************************************************************)
EXTENDS Naturals

CONSTANTS Provers, Calls, None

VARIABLES
    worker,     \* prover -> "live" or "terminated"
    call        \* the proves whose promise is pending, by call

wvars == <<worker, call>>

\* computing: in the worker; result, error: its reply is on the way;
\* lost: no event will ever come.
Pending == [prover : Provers, at : {"computing", "result", "error", "lost"}]

WorkerTypeOK ==
    /\ worker \in [Provers -> {"live", "terminated"}]
    /\ call \in [Calls -> Pending \cup {None}]

WorkerInit ==
    /\ worker = [p \in Provers |-> "live"]
    /\ call = [c \in Calls |-> None]

Listening(p) == {c \in Calls : call[c] # None /\ call[c].prover = p}

\* prove(): a message to a terminated worker goes nowhere.
Prove(c, p) ==
    /\ call' = [call EXCEPT ![c] =
                  [prover |-> p, at |-> IF worker[p] = "live" THEN "computing" ELSE "lost"]]
    /\ UNCHANGED worker

\* Variant: a prove that throws is not caught.
ReplyUncaught(c) ==
    /\ call[c] # None
    /\ call[c].at = "computing"
    /\ \E kind \in {"result", "silent"} : call' = [call EXCEPT ![c].at = kind]
    /\ UNCHANGED worker

\* fullProve resolves or rejects, and the worker posts which.
Reply(c) ==
    /\ call[c] # None
    /\ call[c].at = "computing"
    /\ \E kind \in {"result", "error"} : call' = [call EXCEPT ![c].at = kind]
    /\ UNCHANGED worker

\* cleanup() of the settled calls: terminate() also empties the queue of
\* replies, so every other call to the worker is lost.
Cleanup(p, settled) ==
    /\ worker' = [worker EXCEPT ![p] = "terminated"]
    /\ call' = [c \in Calls |->
                  IF c \in settled THEN None
                  ELSE IF c \in Listening(p) THEN [call[c] EXCEPT !.at = "lost"]
                  ELSE call[c]]

\* handleMessage of c's own reply.
HandleMessage(c, kind) ==
    /\ call[c] # None
    /\ call[c].at = kind
    /\ Cleanup(call[c].prover, {c})

\* handleError: an uncaught error of the worker rejects every prove that
\* listens to it.
HandleError(p) ==
    /\ worker[p] = "live"
    /\ Listening(p) # {}
    /\ Cleanup(p, Listening(p))
=============================================================================
