------------------------------ MODULE CliServer ------------------------------
(***************************************************************************)
(* The local prove server of `zkqes serve`: packages/zkqes-cli/src/        *)
(* server/http.ts with the busy flag, the rapidsnark child of              *)
(* circuit/prove.ts and the shutdown of commands/serve.ts.                 *)
(*                                                                         *)
(* Node runs one handler at a time and switches at an await, so an action  *)
(* is the code between two awaits.  A handler waits for its body, for the  *)
(* file system, for the witness calculator and for its child process; any  *)
(* of them may fail, the client may hang up, and the process may be told   *)
(* to stop or be killed, and be started again.  A child process outlives   *)
(* the server that spawned it.                                             *)
(***************************************************************************)
EXTENDS Naturals, FiniteSets

CONSTANTS
    Requests,       \* HTTP exchanges, each made once
    ValidWitness,   \* those whose body is a witness that satisfies the circuit
    NoRequest

ASSUME CliServerAssumption ==
    ValidWitness \subseteq Requests /\ NoRequest \notin Requests /\ IsFiniteSet(Requests)

VARIABLES
    proc,             \* "up": this.server is set; "stopping": stop() awaits close; "down"
    busy,             \* BusyFlag.busyState
    provesCompleted,
    phase,            \* how far the handler of each request has got
    answer,           \* the status it answered, "none" so far, "lost" if it never will
    hungUp,           \* requests whose connection is gone
    children,         \* requests whose rapidsnark process is running
    dirs,             \* requests whose temporary directory exists
    cleanup           \* directories whose rm was fired and has not ended

vars == <<proc, busy, provesCompleted, phase, answer, hungUp, children, dirs, cleanup>>

\* The awaits of handleProve, from tryAcquire to the finally block.
Working == {"body", "mkdtemp", "witness", "proving", "outputs", "verify"}

InHandler == {r \in Requests : phase[r] \in Working}

TypeOK ==
    /\ proc \in {"up", "stopping", "down"}
    /\ busy \in BOOLEAN
    /\ provesCompleted \in Nat
    /\ phase \in [Requests -> Working \cup {"unsent", "done"}]
    /\ answer \in [Requests -> {"none", "204", "403", "404", "status", "429", "200", "500", "lost"}]
    /\ hungUp \subseteq Requests
    /\ children \subseteq Requests
    /\ dirs \subseteq Requests
    /\ cleanup \subseteq dirs

Init ==
    /\ proc = "up" /\ busy = FALSE /\ provesCompleted = 0
    /\ phase = [r \in Requests |-> "unsent"]
    /\ answer = [r \in Requests |-> "none"]
    /\ hungUp = {} /\ children = {} /\ dirs = {} /\ cleanup = {}

-----------------------------------------------------------------------------
(***************************************************************************)
(* handle: routing, and the busy flag                                      *)
(***************************************************************************)

\* What handle answers at once, or "prove".  Only the origin matters to the
\* gate: in the allow-list, absent, or neither; /status is exempt, whatever the
\* method ("misused" is another method than GET).
Routed(route, origin) ==
    CASE route = "options" -> "204"
      [] route = "status" -> "status"
      [] route = "misused" -> "404"
      [] route \in {"prove", "other"} /\ origin = "foreign" -> "403"
      [] route = "prove" /\ origin # "foreign" -> "prove"
      [] route = "other" /\ origin # "foreign" -> "404"

Answer(r, code) ==
    /\ phase' = [phase EXCEPT ![r] = "done"]
    /\ answer' = [answer EXCEPT ![r] = code]

TurnAway(r, route, origin) ==
    /\ proc = "up" /\ phase[r] = "unsent"
    /\ Routed(route, origin) # "prove"
    /\ Answer(r, Routed(route, origin))
    /\ UNCHANGED <<proc, busy, provesCompleted, hungUp, children, dirs, cleanup>>

Refuse(r, origin) ==
    /\ proc = "up" /\ phase[r] = "unsent"
    /\ Routed("prove", origin) = "prove"
    /\ busy
    /\ Answer(r, "429")
    /\ UNCHANGED <<proc, busy, provesCompleted, hungUp, children, dirs, cleanup>>

\* Variant: the flag is read here and set only once the body has arrived.
AcceptWithoutFlag(r, origin) ==
    /\ proc = "up" /\ phase[r] = "unsent"
    /\ Routed("prove", origin) = "prove"
    /\ ~busy
    /\ phase' = [phase EXCEPT ![r] = "body"]
    /\ UNCHANGED <<proc, busy, provesCompleted, answer, hungUp, children, dirs, cleanup>>

Accept(r, origin) ==
    /\ proc = "up" /\ phase[r] = "unsent"
    /\ Routed("prove", origin) = "prove"
    /\ ~busy
    /\ busy' = TRUE
    /\ phase' = [phase EXCEPT ![r] = "body"]
    /\ UNCHANGED <<proc, provesCompleted, answer, hungUp, children, dirs, cleanup>>

-----------------------------------------------------------------------------
(***************************************************************************)
(* handleProve                                                             *)
(***************************************************************************)

Advance(r, from, to) ==
    /\ proc # "down"
    /\ phase[r] = from
    /\ phase' = [phase EXCEPT ![r] = to]

\* Variant: the directory of a prove that failed stays.
ReleaseForgettingDir(r) ==
    /\ busy' = FALSE
    /\ cleanup' = cleanup

\* Variant: the rm is fired whether or not there is a directory.
ReleaseWithoutDirCheck(r) ==
    /\ busy' = FALSE
    /\ cleanup' = cleanup \cup {r}

\* The finally block: the flag is released before the rm is fired.
Release(r) ==
    /\ busy' = FALSE
    /\ cleanup' = cleanup \cup ({r} \cap dirs)

\* The catch block and the finally block.
Fail(r) ==
    /\ proc # "down"
    /\ phase[r] \in Working
    /\ Answer(r, "500")
    /\ Release(r)
    /\ UNCHANGED <<proc, provesCompleted, dirs>>

BodyArrives(r) ==
    /\ r \notin hungUp
    /\ Advance(r, "body", "mkdtemp")
    /\ UNCHANGED <<proc, busy, provesCompleted, answer, hungUp, children, dirs, cleanup>>

\* The body is not JSON.
BodyMalformed(r) ==
    /\ phase[r] = "body" /\ r \notin hungUp
    /\ Fail(r)
    /\ UNCHANGED <<hungUp, children>>

\* The connection broke before the body's end: the request emits an error.
BodyBroken(r) ==
    /\ phase[r] = "body" /\ r \in hungUp
    /\ Fail(r)
    /\ UNCHANGED <<hungUp, children>>

\* Node cuts a request that does not arrive within its requestTimeout, and
\* stops checking once the server is closing.
BodyTimeout(r) ==
    /\ proc = "up" /\ phase[r] = "body" /\ r \notin hungUp
    /\ hungUp' = hungUp \cup {r}
    /\ Fail(r)
    /\ UNCHANGED children

MakeDir(r) ==
    /\ Advance(r, "mkdtemp", "witness")
    /\ dirs' = dirs \cup {r}
    /\ UNCHANGED <<proc, busy, provesCompleted, answer, hungUp, children, cleanup>>

\* The witness calculator accepts the input, and the child is spawned.
Calculate(r) ==
    /\ r \in ValidWitness
    /\ Advance(r, "witness", "proving")
    /\ children' = children \cup {r}
    /\ UNCHANGED <<proc, busy, provesCompleted, answer, hungUp, dirs, cleanup>>

\* Variant: the promise resolves before the child has exited.
ProverSucceedsEarly(r) ==
    /\ r \in children
    /\ Advance(r, "proving", "outputs")
    /\ UNCHANGED <<proc, busy, provesCompleted, answer, hungUp, children, dirs, cleanup>>

ProverSucceeds(r) ==
    /\ r \in children
    /\ Advance(r, "proving", "outputs")
    /\ children' = children \ {r}
    /\ UNCHANGED <<proc, busy, provesCompleted, answer, hungUp, dirs, cleanup>>

ProverFails(r) ==
    /\ r \in children /\ phase[r] = "proving"
    /\ children' = children \ {r}
    /\ Fail(r)
    /\ UNCHANGED hungUp

\* The two files parse and hold 21 signals.
ReadOutputs(r) ==
    /\ Advance(r, "outputs", "verify")
    /\ UNCHANGED <<proc, busy, provesCompleted, answer, hungUp, children, dirs, cleanup>>

\* No directory, no witness or no child; outputs that cannot be read or are
\* not 21 signals; a verifier that throws.
StepFails(r) ==
    /\ phase[r] \in {"mkdtemp", "witness", "outputs", "verify"}
    /\ Fail(r)
    /\ UNCHANGED <<hungUp, children>>

\* Variant: the flag is held until the directory is gone.
CompleteHoldingFlag(r) ==
    /\ proc # "down" /\ phase[r] = "verify"
    /\ provesCompleted' = provesCompleted + 1
    /\ Answer(r, "200")
    /\ cleanup' = cleanup \cup ({r} \cap dirs)
    /\ UNCHANGED <<proc, busy, hungUp, children, dirs>>

\* The verifier's verdict is only reported: the answer is 200 either way.
Complete(r) ==
    /\ proc # "down" /\ phase[r] = "verify"
    /\ provesCompleted' = provesCompleted + 1
    /\ Answer(r, "200")
    /\ Release(r)
    /\ UNCHANGED <<proc, hungUp, children, dirs>>

\* The rm fired by the finally block ends, possibly with an error.
RemoveDir(r) ==
    /\ proc # "down" /\ r \in cleanup
    /\ cleanup' = cleanup \ {r}
    /\ dirs' \in {dirs, dirs \ {r}}
    /\ UNCHANGED <<proc, busy, provesCompleted, phase, answer, hungUp, children>>

-----------------------------------------------------------------------------
(***************************************************************************)
(* Clients, signals and the life of the process                            *)
(***************************************************************************)

HangUp(r) ==
    /\ proc # "down" /\ phase[r] \in Working /\ r \notin hungUp
    /\ hungUp' = hungUp \cup {r}
    /\ UNCHANGED <<proc, busy, provesCompleted, phase, answer, children, dirs, cleanup>>

\* The first SIGINT or SIGTERM: stop() closes the listening socket.
Signal ==
    /\ proc = "up"
    /\ proc' = "stopping"
    /\ UNCHANGED <<busy, provesCompleted, phase, answer, hungUp, children, dirs, cleanup>>

\* The process ends and takes its handlers along; its children and its
\* directories stay.
End ==
    /\ proc' = "down"
    /\ phase' = [r \in Requests |-> IF r \in InHandler THEN "done" ELSE phase[r]]
    /\ answer' = [r \in Requests |-> IF r \in InHandler THEN "lost" ELSE answer[r]]
    /\ cleanup' = {}
    /\ UNCHANGED <<busy, provesCompleted, hungUp, children, dirs>>

\* close() waits for open connections only: a handler whose client has hung
\* up does not hold it, nor does one for which a child is still running.
Drained ==
    /\ proc = "stopping" /\ InHandler \subseteq hungUp
    /\ End

\* A second signal finds this.server null and exits at once.
SecondSignal == proc = "stopping" /\ End

Crash == proc # "down" /\ End

OrphanExits(r) ==
    /\ r \in children /\ phase[r] # "proving"
    /\ children' = children \ {r}
    /\ UNCHANGED <<proc, busy, provesCompleted, phase, answer, hungUp, dirs, cleanup>>

\* `zkqes serve` again: a new CliServer, with a new busy flag.
Start ==
    /\ proc = "down"
    /\ proc' = "up" /\ busy' = FALSE /\ provesCompleted' = 0
    /\ UNCHANGED <<phase, answer, hungUp, children, dirs, cleanup>>

Handler(r) ==
    \/ BodyBroken(r) \/ BodyTimeout(r) \/ MakeDir(r) \/ Calculate(r)
    \/ ProverSucceeds(r) \/ ProverFails(r) \/ ReadOutputs(r) \/ StepFails(r) \/ Complete(r)

Route(r) ==
    \E origin \in {"listed", "empty", "foreign"} :
        \/ \E route \in {"options", "status", "misused", "prove", "other"} : TurnAway(r, route, origin)
        \/ Refuse(r, origin) \/ Accept(r, origin)

Next ==
    \/ \E r \in Requests :
          \/ Route(r) \/ Handler(r) \/ RemoveDir(r)
          \/ BodyArrives(r) \/ BodyMalformed(r) \/ HangUp(r) \/ OrphanExits(r)
    \/ Signal \/ Drained \/ SecondSignal \/ Crash \/ Start

\* Every await of a handler ends, with a value or an error, and Node's timer
\* ends the wait for a body; clients and signals owe nothing.
Fairness == \A r \in Requests : WF_vars(Handler(r))

SafeSpec == Init /\ [][Next]_vars
Spec == SafeSpec /\ Fairness

-----------------------------------------------------------------------------
(***************************************************************************)
(* Properties                                                              *)
(***************************************************************************)

\* The flag is up exactly while one handler is between tryAcquire and its
\* finally block, and that handler has not answered yet: no exit path keeps
\* the flag, and a client that has its answer is never refused because of
\* its own request (the comment in the finally block of handleProve).
BusyMeansServing ==
    proc # "down" =>
        /\ busy <=> InHandler # {}
        /\ \A r1, r2 \in InHandler : r1 = r2
        /\ \A r \in InHandler : answer[r] = "none"

\* A rapidsnark process of this server's life belongs to the handler that
\* awaits it and has its witness in a directory nobody is removing; any other
\* one was left by an earlier life of the process.
ChildrenAttended ==
    \A r \in Requests :
        /\ phase[r] \in {"witness", "proving", "outputs", "verify"} => r \in dirs \ cleanup
        /\ phase[r] = "proving" => r \in children
        /\ r \in children => phase[r] = "proving" \/ answer[r] = "lost"

\* A handler that ends hands its directory to the cleanup on every path that
\* does not end the process.
DirHandedToCleanup ==
    [][\A r \in InHandler \cap dirs :
          r \notin InHandler' => r \in cleanup' \/ proc' = "down"]_vars

\* The request the server works on, for the service it implements.
Serving == IF InHandler = {} THEN NoRequest ELSE CHOOSE r \in Requests : r \in InHandler

\* The server implements the service: one request at a time, 429 only while
\* serving, one answer each, and what it accepted is answered while it is up.
Service == INSTANCE ProveService WITH serving <- Serving

ServiceSpec == Service!ServiceSpec

\* What busy-flag.ts says of the machine: proves are serialized, a second
\* concurrent rapidsnark never runs.
OneProverOnTheMachine == Cardinality(children) <= 1
=============================================================================
