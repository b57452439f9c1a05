---------------------------- MODULE ProveService ----------------------------
(***************************************************************************)
(* What the local prove server promises to the pages that use it: it       *)
(* serves one request at a time, refuses another with 429 only while it is *)
(* serving, and answers each request it accepts once, with a proof only if *)
(* the witness has one.  CliServer is shown to implement it, and           *)
(* ProveDispatch is checked against it.                                    *)
(***************************************************************************)
CONSTANTS
    Requests,
    ValidWitness,   \* the requests whose witness satisfies the circuit
    NoRequest

ASSUME ServiceAssumption == ValidWitness \subseteq Requests /\ NoRequest \notin Requests

VARIABLES
    proc,           \* "up", "stopping" (no longer accepting) or "down"
    serving,        \* the request being proved, or NoRequest
    answer          \* request -> what was answered, "none" so far

svars == <<proc, serving, answer>>

\* Answers that need no proving; "status" stands for the 200 of GET /status.
Immediate == {"204", "403", "404", "status"}
Answers == Immediate \cup {"200", "429", "500", "lost"}

ServiceInit ==
    /\ proc = "up"
    /\ serving = NoRequest
    /\ answer = [r \in Requests |-> "none"]

Waiting(r) == proc = "up" /\ answer[r] = "none" /\ serving # r

TurnAway(r) ==
    /\ Waiting(r)
    /\ \E a \in Immediate : answer' = [answer EXCEPT ![r] = a]
    /\ UNCHANGED <<proc, serving>>

\* Variant: the server refuses although it is idle.
RefuseWhenIdle(r) ==
    /\ Waiting(r)
    /\ answer' = [answer EXCEPT ![r] = "429"]
    /\ UNCHANGED <<proc, serving>>

Refuse(r) ==
    /\ Waiting(r)
    /\ serving # NoRequest
    /\ answer' = [answer EXCEPT ![r] = "429"]
    /\ UNCHANGED <<proc, serving>>

Accept(r) ==
    /\ Waiting(r)
    /\ serving = NoRequest
    /\ serving' = r
    /\ UNCHANGED <<proc, answer>>

Finish(r) ==
    /\ serving = r
    /\ \E a \in {"200", "500"} :
          /\ a = "200" => r \in ValidWitness
          /\ answer' = [answer EXCEPT ![r] = a]
    /\ serving' = NoRequest
    /\ UNCHANGED proc

Stop ==
    /\ proc = "up"
    /\ proc' = "stopping"
    /\ UNCHANGED <<serving, answer>>

\* The process ends; the request it was serving is never answered.
Die ==
    /\ proc # "down"
    /\ proc' = "down"
    /\ serving' = NoRequest
    /\ answer' = [r \in Requests |-> IF r = serving THEN "lost" ELSE answer[r]]

Start ==
    /\ proc = "down"
    /\ proc' = "up"
    /\ UNCHANGED <<serving, answer>>

ServiceNext ==
    \/ \E r \in Requests : TurnAway(r) \/ Refuse(r) \/ Accept(r) \/ Finish(r)
    \/ Stop \/ Die \/ Start

\* A server that is up finishes what it serves.
ServiceFairness == \A r \in Requests : WF_svars(proc = "up" /\ Finish(r))

SafeService == ServiceInit /\ [][ServiceNext]_svars
ServiceSpec == SafeService /\ ServiceFairness
=============================================================================
