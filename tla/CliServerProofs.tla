--------------------------- MODULE CliServerProofs ---------------------------
(***************************************************************************)
(* Theorems about the prove server for any number of requests, whatever    *)
(* their witnesses: the safety half of what MCCliServer checks on three.   *)
(***************************************************************************)
EXTENDS CliServer, TLAPS

\* The flag and the handlers: BusyMeansServing, and no handler without a
\* process.
Exclusive ==
    /\ proc = "down" => InHandler = {}
    /\ proc # "down" => (busy <=> InHandler # {})
    /\ \A r1, r2 \in InHandler : r1 = r2

\* A request is answered, or lost, when its handler has ended and not before.
AnsweredWhenDone == \A r \in Requests : answer[r] = "none" <=> phase[r] # "done"

\* Where a request at each await has its directory and its child.
Attended ==
    \A r \in Requests :
        /\ phase[r] \in {"unsent", "body", "mkdtemp"} => r \notin dirs /\ r \notin children
        /\ phase[r] \in {"witness", "proving", "outputs", "verify"} => r \in dirs /\ r \notin cleanup
        /\ phase[r] = "proving" => r \in children
        /\ r \in children => phase[r] = "proving" \/ answer[r] = "lost"
        /\ phase[r] \in {"proving", "outputs", "verify"} => r \in ValidWitness

IInv == TypeOK /\ Exclusive /\ AnsweredWhenDone /\ Attended

-----------------------------------------------------------------------------
(***************************************************************************)
(* The steps, sorted by what they do to the handlers.                      *)
(***************************************************************************)

\* Request r goes to another await of its handler.
Moves(r, from, to) ==
    /\ proc # "down" /\ phase[r] = from /\ phase' = [phase EXCEPT ![r] = to]
    /\ UNCHANGED <<proc, busy, answer, cleanup>>

\* A request is answered without entering a handler.
LEMMA ImmediateStep ==
    ASSUME IInv, NEW r \in Requests, phase[r] = "unsent",
           NEW code \in {"204", "403", "404", "status", "429"},
           Answer(r, code), UNCHANGED <<proc, busy, provesCompleted, hungUp, children, dirs, cleanup>>
    PROVE  IInv'
<1>1. TypeOK'
  BY DEF IInv, TypeOK, Answer
<1>2. InHandler' = InHandler
  BY DEF IInv, TypeOK, Answer, InHandler, Working
<1>3. Exclusive'
  BY <1>2 DEF IInv, Exclusive
<1>4. AnsweredWhenDone'
  BY DEF IInv, TypeOK, AnsweredWhenDone, Answer
<1>5. Attended'
  BY DEF IInv, TypeOK, AnsweredWhenDone, Attended, Answer
<1> QED BY <1>1, <1>3, <1>4, <1>5 DEF IInv

\* A handler ends with an answer and releases the flag; its child has gone.
LEMMA ReleaseStep ==
    ASSUME IInv, proc # "down", NEW r \in InHandler, NEW code \in {"200", "500"},
           Answer(r, code), Release(r), children' = children \ {r},
           provesCompleted' \in Nat, hungUp' \subseteq Requests, UNCHANGED <<proc, dirs>>
    PROVE  IInv'
<1>1. TypeOK'
  BY DEF IInv, TypeOK, Answer, Release, InHandler
<1>2. InHandler = {r} /\ phase[r] # "done" /\ r \in Requests
  BY DEF IInv, Exclusive, InHandler, Working
<1>3. InHandler' = {}
  BY <1>2 DEF IInv, TypeOK, Answer, InHandler, Working
<1>4. Exclusive'
  BY <1>3 DEF Exclusive, Release
<1>5. AnsweredWhenDone'
  BY <1>2 DEF IInv, TypeOK, AnsweredWhenDone, Answer
<1>6. Attended'
  BY <1>2 DEF IInv, TypeOK, Attended, Answer, Release
<1> QED BY <1>1, <1>4, <1>5, <1>6 DEF IInv

\* A handler goes on to its next await.
LEMMA MoveStep ==
    ASSUME IInv, NEW r \in Requests, NEW from \in Working, NEW to \in Working,
           Moves(r, from, to)
    PROVE  /\ phase' \in [Requests -> Working \cup {"unsent", "done"}]
           /\ InHandler' = InHandler
           /\ Exclusive' /\ AnsweredWhenDone'
           /\ \A q \in Requests \ {r} : phase'[q] = phase[q]
           /\ phase'[r] = to
<1>1. phase' \in [Requests -> Working \cup {"unsent", "done"}]
  BY DEF IInv, TypeOK, Moves
<1>2. /\ \A q \in Requests \ {r} : phase'[q] = phase[q]
      /\ phase'[r] = to
  BY DEF IInv, TypeOK, Moves
<1>3. InHandler' = InHandler
  BY <1>2 DEF Moves, InHandler
<1>4. Exclusive'
  BY <1>3 DEF IInv, Exclusive, Moves
<1>5. AnsweredWhenDone'
  BY <1>2 DEF IInv, AnsweredWhenDone, Moves, Working
<1> QED BY <1>1, <1>2, <1>3, <1>4, <1>5

\* The process ends: its handlers do, their children and directories stay.
LEMMA EndStep ==
    ASSUME IInv, proc # "down", End
    PROVE  IInv' /\ InHandler' = {}
<1>1. TypeOK'
  BY DEF IInv, TypeOK, End
<1>2. InHandler' = {}
  BY DEF IInv, TypeOK, End, InHandler, Working
<1>3. Exclusive'
  BY <1>2 DEF Exclusive, End
<1>4. AnsweredWhenDone'
  BY DEF IInv, TypeOK, AnsweredWhenDone, End, InHandler, Working
<1>5. Attended'
  BY DEF IInv, TypeOK, Attended, End, InHandler, Working
<1> QED BY <1>1, <1>2, <1>3, <1>4, <1>5 DEF IInv
-----------------------------------------------------------------------------
\* The steps of a handler that does not end.
HandlerMoves(r) ==
    BodyArrives(r) \/ MakeDir(r) \/ Calculate(r) \/ ProverSucceeds(r) \/ ReadOutputs(r)

\* The steps of a handler that ends with an error.
HandlerFails(r) ==
    BodyMalformed(r) \/ BodyBroken(r) \/ BodyTimeout(r) \/ ProverFails(r) \/ StepFails(r)

\* An await of a handler that ends well.
LEMMA HandlerMovesStep ==
    ASSUME IInv, NEW r \in Requests, HandlerMoves(r)
    PROVE  /\ IInv' /\ InHandler' = InHandler
           /\ phase'[r] \in Working /\ r \in InHandler
           /\ UNCHANGED <<proc, answer, cleanup>>
<1>1. CASE BodyArrives(r)
  <2>1. Moves(r, "body", "mkdtemp") /\ UNCHANGED <<provesCompleted, hungUp, children, dirs>>
    BY <1>1 DEF BodyArrives, Advance, Moves
  <2>2. TypeOK' /\ Attended'
    BY <2>1, MoveStep DEF IInv, TypeOK, Attended, Moves, Working
  <2> QED BY <2>1, <2>2, MoveStep DEF IInv, Working, InHandler, Moves
<1>2. CASE MakeDir(r)
  <2>1. Moves(r, "mkdtemp", "witness") /\ dirs' = dirs \cup {r}
        /\ UNCHANGED <<provesCompleted, hungUp, children>>
    BY <1>2 DEF MakeDir, Advance, Moves
  <2>2. TypeOK' /\ Attended'
    BY <2>1, MoveStep DEF IInv, TypeOK, Attended, Moves, Working
  <2> QED BY <2>1, <2>2, MoveStep DEF IInv, Working, InHandler, Moves
<1>3. CASE Calculate(r)
  <2>1. Moves(r, "witness", "proving") /\ children' = children \cup {r} /\ r \in ValidWitness
        /\ UNCHANGED <<provesCompleted, hungUp, dirs>>
    BY <1>3 DEF Calculate, Advance, Moves
  <2>2. TypeOK' /\ Attended'
    BY <2>1, MoveStep DEF IInv, TypeOK, Attended, Moves, Working
  <2> QED BY <2>1, <2>2, MoveStep DEF IInv, Working, InHandler, Moves
<1>4. CASE ProverSucceeds(r)
  <2>1. Moves(r, "proving", "outputs") /\ children' = children \ {r}
        /\ UNCHANGED <<provesCompleted, hungUp, dirs>>
    BY <1>4 DEF ProverSucceeds, Advance, Moves
  <2>2. TypeOK' /\ Attended'
    BY <2>1, MoveStep DEF IInv, TypeOK, Attended, Moves, Working
  <2> QED BY <2>1, <2>2, MoveStep DEF IInv, Working, InHandler, Moves
<1>5. CASE ReadOutputs(r)
  <2>1. Moves(r, "outputs", "verify") /\ UNCHANGED <<provesCompleted, hungUp, children, dirs>>
    BY <1>5 DEF ReadOutputs, Advance, Moves
  <2>2. r \notin children
    BY <2>1 DEF IInv, AnsweredWhenDone, Attended, Moves
  <2>3. TypeOK' /\ Attended'
    BY <2>1, <2>2, MoveStep DEF IInv, TypeOK, Attended, Moves, Working
  <2> QED BY <2>1, <2>3, MoveStep DEF IInv, Working, InHandler, Moves
<1> QED BY <1>1, <1>2, <1>3, <1>4, <1>5 DEF HandlerMoves

\* An await of a handler that fails: the catch and finally blocks.
LEMMA HandlerFailsStep ==
    ASSUME IInv, NEW r \in Requests, HandlerFails(r)
    PROVE  /\ IInv' /\ r \in InHandler
           /\ Answer(r, "500") /\ Release(r) /\ UNCHANGED <<proc, dirs>>
<1>1. /\ proc # "down" /\ r \in InHandler
      /\ Answer(r, "500") /\ Release(r) /\ UNCHANGED <<proc, provesCompleted, dirs>>
      /\ hungUp' \subseteq Requests
  BY DEF HandlerFails, BodyMalformed, BodyBroken, BodyTimeout, ProverFails, StepFails,
         Fail, InHandler, IInv, TypeOK
<1>2. CASE ProverFails(r)
  BY <1>1, <1>2, ReleaseStep DEF ProverFails, IInv, TypeOK
<1>3. CASE ~ProverFails(r)
  <2>1. children' = children /\ phase[r] \in Working \ {"proving"}
    BY <1>3 DEF HandlerFails, BodyMalformed, BodyBroken, BodyTimeout, StepFails, Working
  <2>2. r \notin children
    BY <2>1 DEF IInv, AnsweredWhenDone, Attended, Working
  <2>3. children' = children \ {r}
    BY <2>1, <2>2
  <2> QED BY <1>1, <2>3, ReleaseStep DEF IInv, TypeOK
<1> QED BY <1>2, <1>3

\* The proof is delivered.
LEMMA CompleteStep ==
    ASSUME IInv, NEW r \in Requests, Complete(r)
    PROVE  /\ IInv' /\ r \in InHandler /\ r \in ValidWitness
           /\ Answer(r, "200") /\ Release(r) /\ UNCHANGED <<proc, dirs>>
<1>1. r \in InHandler /\ r \in ValidWitness /\ r \notin children
  BY DEF IInv, AnsweredWhenDone, Attended, Complete, InHandler, Working
<1>2. children' = children \ {r} /\ provesCompleted' \in Nat
  BY <1>1 DEF Complete, IInv, TypeOK
<1> QED BY <1>1, <1>2, ReleaseStep DEF Complete, IInv, TypeOK

\* Request r is answered or taken in on arrival.
LEMMA RouteStep ==
    ASSUME IInv, NEW r \in Requests, Route(r)
    PROVE  /\ IInv'
           /\ proc = "up" /\ phase[r] = "unsent" /\ UNCHANGED <<proc, dirs>>
           /\ \/ /\ InHandler' = InHandler
                 /\ \E code \in {"204", "403", "404", "status"} : Answer(r, code)
              \/ /\ InHandler' = InHandler /\ InHandler # {}
                 /\ Answer(r, "429")
              \/ /\ InHandler = {} /\ InHandler' = {r}
                 /\ UNCHANGED answer
<1>1. ASSUME NEW route \in {"options", "status", "misused", "prove", "other"},
             NEW origin \in {"listed", "empty", "foreign"}, TurnAway(r, route, origin)
      PROVE  /\ IInv' /\ InHandler' = InHandler /\ proc = "up" /\ phase[r] = "unsent"
             /\ UNCHANGED <<proc, dirs>>
             /\ \E code \in {"204", "403", "404", "status"} : Answer(r, code)
  <2>1. Routed(route, origin) \in {"204", "403", "404", "status"}
    BY <1>1 DEF TurnAway, Routed
  <2>2. IInv'
    BY <1>1, <2>1, ImmediateStep DEF TurnAway
  <2>3. InHandler' = InHandler
    BY <1>1 DEF TurnAway, Answer, IInv, TypeOK, InHandler, Working
  <2> QED BY <1>1, <2>1, <2>2, <2>3 DEF TurnAway
<1>2. ASSUME NEW origin, Refuse(r, origin)
      PROVE  /\ IInv' /\ InHandler' = InHandler /\ InHandler # {}
             /\ proc = "up" /\ phase[r] = "unsent" /\ UNCHANGED <<proc, dirs>> /\ Answer(r, "429")
  <2>1. IInv'
    BY <1>2, ImmediateStep DEF Refuse
  <2>2. InHandler' = InHandler
    BY <1>2 DEF Refuse, Answer, IInv, TypeOK, InHandler, Working
  <2> QED BY <1>2, <2>1, <2>2 DEF Refuse, IInv, Exclusive
<1>3. ASSUME NEW origin, Accept(r, origin)
      PROVE  /\ IInv' /\ InHandler = {} /\ InHandler' = {r}
             /\ proc = "up" /\ phase[r] = "unsent" /\ UNCHANGED <<proc, dirs, answer>>
  <2>1. InHandler = {}
    BY <1>3 DEF Accept, IInv, Exclusive
  <2>2. InHandler' = {r}
    BY <1>3, <2>1 DEF Accept, IInv, TypeOK, InHandler, Working
  <2>3. TypeOK'
    BY <1>3 DEF Accept, IInv, TypeOK, Working
  <2>4. Exclusive'
    BY <1>3, <2>2 DEF Accept, Exclusive
  <2>5. AnsweredWhenDone' /\ Attended'
    BY <1>3 DEF Accept, IInv, TypeOK, AnsweredWhenDone, Attended
  <2> QED BY <1>3, <2>1, <2>2, <2>3, <2>4, <2>5 DEF Accept, IInv
<1> QED BY <1>1, <1>2, <1>3 DEF Route

\* Steps that neither start nor end a handler, nor change what it holds.
LEMMA AsideStep ==
    ASSUME IInv, NEW r \in Requests, RemoveDir(r) \/ HangUp(r) \/ OrphanExits(r)
    PROVE  IInv' /\ InHandler' = InHandler /\ UNCHANGED <<proc, answer, phase>>
<1>1. InHandler' = InHandler /\ UNCHANGED <<proc, answer, phase, busy>>
  BY DEF RemoveDir, HangUp, OrphanExits, InHandler
<1>2. TypeOK'
  BY DEF RemoveDir, HangUp, OrphanExits, IInv, TypeOK
<1>3. Exclusive' /\ AnsweredWhenDone'
  BY <1>1 DEF IInv, Exclusive, AnsweredWhenDone
<1>4. Attended'
  BY <1>1 DEF RemoveDir, HangUp, OrphanExits, IInv, TypeOK, Attended, Working
<1> QED BY <1>1, <1>2, <1>3, <1>4 DEF IInv

\* stop() leaves the handlers alone.
LEMMA SignalStep ==
    ASSUME IInv, Signal
    PROVE  IInv' /\ InHandler' = InHandler
BY DEF Signal, IInv, TypeOK, Exclusive, AnsweredWhenDone, Attended, InHandler

\* A restarted server finds no handler of its own.
LEMMA StartStep ==
    ASSUME IInv, Start
    PROVE  IInv' /\ InHandler' = InHandler /\ InHandler = {}
BY DEF Start, IInv, TypeOK, Exclusive, AnsweredWhenDone, Attended, InHandler

\* IInv is inductive.
LEMMA Inductive ==
    /\ Init => IInv
    /\ IInv /\ [Next]_vars => IInv'
<1>1. Init => IInv
  <2>1. Init => InHandler = {}
    BY DEF Init, InHandler, Working
  <2>2. ASSUME Init PROVE TypeOK
    BY <2>2 DEF Init, TypeOK
  <2> QED BY <2>1, <2>2 DEF Init, IInv, Exclusive, AnsweredWhenDone, Attended
<1>2. IInv /\ [Next]_vars => IInv'
  <2> SUFFICES ASSUME IInv, [Next]_vars PROVE IInv'
    OBVIOUS
  <2>1. ASSUME NEW r \in Requests, Handler(r) PROVE IInv'
    BY <2>1, HandlerMovesStep, HandlerFailsStep, CompleteStep
    DEF Handler, HandlerMoves, HandlerFails
  <2>2. CASE Drained \/ SecondSignal \/ Crash
    BY <2>2, EndStep DEF Drained, SecondSignal, Crash
  <2>3. CASE UNCHANGED vars
    BY <2>3 DEF vars, IInv, TypeOK, Exclusive, AnsweredWhenDone, Attended, InHandler
  <2> QED
    BY <2>1, <2>2, <2>3, RouteStep, AsideStep, SignalStep, StartStep,
       HandlerMovesStep, HandlerFailsStep
    DEF Next, HandlerMoves, HandlerFails
<1> QED BY <1>1, <1>2

\* The server keeps the strengthened invariant.
THEOREM Invariant == SafeSpec => []IInv
BY Inductive, PTL DEF SafeSpec

\* Every await, error path, hang-up, signal and restart keeps the types.
THEOREM TypeCorrect == Spec => []TypeOK
<1>1. IInv => TypeOK
  BY DEF IInv
<1> QED BY <1>1, Invariant, PTL DEF Spec

\* The busy flag is exact, for any number of requests racing for it.
THEOREM FlagExact == Spec => []BusyMeansServing
<1>1. IInv => BusyMeansServing
  BY DEF IInv, Exclusive, AnsweredWhenDone, BusyMeansServing, InHandler, Working
<1> QED BY <1>1, Invariant, PTL DEF Spec

\* Children and directories belong to the handler at that await, or were left
\* by an earlier life of the process.
THEOREM ChildrenAccounted == Spec => []ChildrenAttended
<1>1. IInv => ChildrenAttended
  BY DEF IInv, Attended, ChildrenAttended
<1> QED BY <1>1, Invariant, PTL DEF Spec

\* A handler that ends without the process hands its directory to the cleanup.
THEOREM DirsHandedOver == Spec => DirHandedToCleanup
<1>1. IInv /\ [Next]_vars =>
        [\A r \in InHandler \cap dirs :
            r \notin InHandler' => r \in cleanup' \/ proc' = "down"]_vars
  <2> SUFFICES ASSUME IInv, Next, NEW r \in InHandler \cap dirs, r \notin InHandler'
               PROVE  r \in cleanup' \/ proc' = "down"
    OBVIOUS
  <2>1. r \in Requests /\ InHandler = {r}
    BY DEF IInv, Exclusive, InHandler
  <2>2. ASSUME NEW q \in Requests, HandlerFails(q) \/ Complete(q) PROVE r \in cleanup'
    <3>1. q = r /\ Release(q)
      BY <2>1, <2>2, HandlerFailsStep, CompleteStep
    <3> QED BY <3>1 DEF Release
  <2>3. CASE Drained \/ SecondSignal \/ Crash
    BY <2>3 DEF Drained, SecondSignal, Crash, End
  <2>4. ASSUME NEW q \in Requests, HandlerMoves(q) \/ Route(q) \/ RemoveDir(q) \/ HangUp(q) \/ OrphanExits(q)
        PROVE  FALSE
    BY <2>1, <2>4, HandlerMovesStep, RouteStep, AsideStep
  <2>5. CASE Signal \/ Start
    BY <2>1, <2>5, SignalStep, StartStep
  <2> QED
    BY <2>2, <2>3, <2>4, <2>5 DEF Next, Handler, HandlerMoves, HandlerFails
<1> QED BY <1>1, Invariant, PTL DEF Spec, SafeSpec, DirHandedToCleanup

-----------------------------------------------------------------------------
(***************************************************************************)
(* The server implements the service: the safety part.                     *)
(***************************************************************************)

\* Who is served, in the two cases there are.
LEMMA ServingFacts ==
    /\ InHandler = {} => Serving = NoRequest
    /\ \A r \in Requests : InHandler = {r} => Serving = r
BY DEF Serving, InHandler

\* A handler that ends with an answer is the end of the service's request.
LEMMA FinishRefined ==
    ASSUME IInv, NEW r \in Requests, NEW code \in {"200", "500"},
           code = "200" => r \in ValidWitness,
           r \in InHandler, Answer(r, code), UNCHANGED proc
    PROVE  Service!Finish(r)
<1>1. InHandler = {r}
  BY DEF IInv, Exclusive, InHandler
<1>2. InHandler' = {}
  BY <1>1 DEF IInv, TypeOK, Answer, InHandler, Working
<1>3. Serving = r /\ Serving' = NoRequest
  BY <1>1, <1>2, ServingFacts DEF Serving
<1> QED BY <1>3 DEF Service!Finish, Answer

\* An answer on arrival, or the start of a prove, is one of the service.
LEMMA RouteRefined ==
    ASSUME IInv, NEW r \in Requests, Route(r)
    PROVE  Service!ServiceNext
<1> USE CliServerAssumption
<1>1. answer[r] = "none" /\ r \notin InHandler /\ proc = "up" /\ UNCHANGED proc
  BY RouteStep DEF IInv, AnsweredWhenDone, InHandler, Working
<1>2. Serving # r /\ (InHandler # {} => Serving \in InHandler)
  BY <1>1 DEF Serving, InHandler
<1>3. Service!Waiting(r)
  BY <1>1, <1>2 DEF Service!Waiting
<1>4. ASSUME InHandler' = InHandler PROVE Serving' = Serving
  BY <1>4 DEF Serving
<1>5. ASSUME InHandler' = InHandler, NEW code \in {"204", "403", "404", "status"}, Answer(r, code)
      PROVE  Service!TurnAway(r)
  BY <1>1, <1>3, <1>4, <1>5 DEF Service!TurnAway, Service!Immediate, Answer
<1>6. ASSUME InHandler' = InHandler, InHandler # {}, Answer(r, "429")
      PROVE  Service!Refuse(r)
  <2>1. Serving # NoRequest
    BY <1>2, <1>6 DEF InHandler
  <2> QED BY <1>1, <1>3, <1>4, <1>6, <2>1 DEF Service!Refuse, Answer
<1>7. ASSUME InHandler = {}, InHandler' = {r}, UNCHANGED answer
      PROVE  Service!Accept(r)
  <2>1. Serving = NoRequest /\ Serving' = r
    BY <1>7 DEF Serving
  <2> QED BY <1>1, <1>3, <1>7, <2>1 DEF Service!Accept
<1> QED BY RouteStep, <1>5, <1>6, <1>7 DEF Service!ServiceNext

\* The end of the process is its end for the service, which loses what it
\* was serving.
LEMMA EndRefined ==
    ASSUME IInv, proc # "down", End
    PROVE  Service!Die
<1>1. InHandler' = {} /\ Serving' = NoRequest
  BY EndStep DEF Serving
<1>2. \A r \in Requests : r \in InHandler <=> r = Serving
  <2>1. CASE InHandler = {}
    BY <2>1, CliServerAssumption DEF Serving
  <2>2. CASE InHandler # {}
    <3>1. Serving \in InHandler
      BY <2>2 DEF Serving, InHandler
    <3> QED BY <3>1 DEF IInv, Exclusive
  <2> QED BY <2>1, <2>2
<1>3. answer' = [r \in Requests |-> IF r = Serving THEN "lost" ELSE answer[r]]
  BY <1>2 DEF End
<1> QED BY <1>1, <1>3 DEF Service!Die, End

\* Each step of the server is a step of the service or leaves it alone: the
\* awaits, hang-ups and cleanups in between are invisible to the pages.
THEOREM ImplementsService == Spec => Service!SafeService
<1>1. Init => Service!ServiceInit
  <2>1. Init => InHandler = {}
    BY DEF Init, InHandler, Working
  <2> QED BY <2>1, ServingFacts DEF Init, Service!ServiceInit
<1>2. IInv /\ [Next]_vars => [Service!ServiceNext]_(Service!svars)
  <2> SUFFICES ASSUME IInv, [Next]_vars
               PROVE  Service!ServiceNext \/ UNCHANGED Service!svars
    OBVIOUS
  <2>1. ASSUME InHandler' = InHandler PROVE Serving' = Serving
    BY <2>1 DEF Serving
  <2>2. ASSUME NEW r \in Requests, HandlerMoves(r) PROVE UNCHANGED Service!svars
    BY <2>1, <2>2, HandlerMovesStep DEF Service!svars
  <2>3. ASSUME NEW r \in Requests, HandlerFails(r) PROVE Service!ServiceNext
    BY <2>3, HandlerFailsStep, FinishRefined DEF Service!ServiceNext
  <2>4. ASSUME NEW r \in Requests, Complete(r) PROVE Service!ServiceNext
    BY <2>4, CompleteStep, FinishRefined DEF Service!ServiceNext
  <2>5. ASSUME NEW r \in Requests, RemoveDir(r) \/ HangUp(r) \/ OrphanExits(r)
        PROVE  UNCHANGED Service!svars
    BY <2>1, <2>5, AsideStep DEF Service!svars
  <2>6. CASE Signal
    BY <2>1, <2>6, SignalStep DEF Signal, Service!ServiceNext, Service!Stop
  <2>7. CASE Drained \/ SecondSignal \/ Crash
    BY <2>7, EndRefined DEF Drained, SecondSignal, Crash, Service!ServiceNext
  <2>8. CASE Start
    BY <2>1, <2>8, StartStep DEF Start, Service!ServiceNext, Service!Start
  <2>9. CASE UNCHANGED vars
    BY <2>1, <2>9 DEF vars, InHandler, Service!svars
  <2> QED
    BY <2>2, <2>3, <2>4, <2>5, <2>6, <2>7, <2>8, <2>9, RouteRefined
    DEF Next, Handler, HandlerMoves, HandlerFails
<1> QED BY <1>1, <1>2, Invariant, PTL DEF Spec, SafeSpec, Service!SafeService
=============================================================================
