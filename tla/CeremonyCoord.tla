--------------------------- MODULE CeremonyCoord ---------------------------
(***************************************************************************)
(* The coordinator's scripts of the trusted setup                          *)
(* (scripts/ceremony-coord): round-zero, mint-signed-url,                  *)
(* verify-contribution and publish-status, run by admins on machines of    *)
(* their own over one bucket, contributors who upload to the signed URLs,  *)
(* and pages of the web application that poll the published status.  A     *)
(* machine runs one command at a time; an action is the code between two   *)
(* requests to the bucket, and a command may die at each of them.          *)
(* The phase field, which derivePhase makes of the others, dates and       *)
(* profile links are left out.                                             *)
(***************************************************************************)
EXTENDS Integers, Sequences, FiniteSets

CONSTANTS
    Admins, Contributors, Circuits, Pages,
    Beacons, Finals,    \* what --beacon and --final-sha may name
    TotalRounds,        \* --total-rounds of round-zero
    MaxRound,           \* bound on the rounds that are minted
    MaxPolls,           \* bound on the statuses a page holds
    Seed, None

ASSUME CeremonyAssumption ==
    /\ TotalRounds \in Nat \ {0}
    /\ MaxRound \in Nat \ {0}
    /\ MaxPolls \in Nat
    /\ Seed \notin Contributors
    /\ None \notin Contributors \cup Beacons \cup Finals

Rounds == 0 .. MaxRound

\* A zkey: does it fit the circuit and the powers of tau, and the list of
\* contributions it carries.  Uploads have any history.
Zkeys == [ok : BOOLEAN, history : Seq(Contributors \cup {Seed})]

VARIABLES
    bucket,     \* round -> the object of ROUND_KEY(round), or None
    status,     \* the object of STATUS_KEY, or None; its value is its ETag
    urls,       \* <<contributor, round>> of the signed URLs given out
    pending,    \* machine -> round -> name in pending/round-N.json
    attested,   \* machine -> round -> zkey hashed in pending/round-N.attestation
    machine,    \* machine -> the command it runs
    seen        \* page -> statuses it shows or will show, from polls under way

bvars == <<bucket, urls, pending, attested>>
vars == <<bvars, status, machine, seen>>

Entries == [name : Contributors, round : 1 .. MaxRound, attestation : Zkeys]

Statuses ==
    [round : 1 .. MaxRound + 1, contributors : Seq(Entries),
     beacon : Beacons \cup {None}, final : Finals \cup {None},
     circuits : [Circuits -> 0 .. MaxRound]]

ASSUME NoneAssumption == None \notin Zkeys \cup Statuses

Idle == [at |-> "idle"]
Commands ==
    {Idle, [at |-> "seeding"]}
    \cup [at : {"minting"}, name : Contributors, round : 1 .. MaxRound]
    \cup [at : {"verifying"}, round : 1 .. MaxRound, zkey : Zkeys]
    \cup [at : {"publishing"}, read : Statuses, next : Statuses]

TypeOK ==
    /\ bucket \in [Rounds -> Zkeys \cup {None}]
    /\ status \in Statuses \cup {None}
    /\ urls \subseteq Contributors \X (1 .. MaxRound)
    /\ pending \in [Admins -> [1 .. MaxRound -> Contributors \cup {None}]]
    /\ attested \in [Admins -> [1 .. MaxRound -> Zkeys \cup {None}]]
    /\ machine \in [Admins -> Commands]
    /\ seen \in [Pages -> SUBSET Statuses]

Init ==
    /\ bucket = [k \in Rounds |-> None]
    /\ status = None
    /\ urls = {}
    /\ pending = [a \in Admins |-> [k \in 1 .. MaxRound |-> None]]
    /\ attested = [a \in Admins |-> [k \in 1 .. MaxRound |-> None]]
    /\ machine = [a \in Admins |-> Idle]
    /\ seen = [p \in Pages |-> {}]

Runs(a, command) == machine' = [machine EXCEPT ![a] = command]

-----------------------------------------------------------------------------
(***************************************************************************)
(* Requests to the bucket                                                  *)
(***************************************************************************)

\* Variant: the signature leaves out If-None-Match.
PutOver(k, z) == bucket' = [bucket EXCEPT ![k] = z]

\* PUT of a round with If-None-Match: *; 412 when the object exists.
PutOnce(k, z) ==
    bucket' = IF bucket[k] = None THEN [bucket EXCEPT ![k] = z] ELSE bucket

\* Variant: the status is written whatever it has become.
WriteStatus(read, next) == status' = next

\* writeStatusConditional, PUT with If-Match; 412 when the ETag moved.
WriteStatusConditional(read, next) ==
    status' = IF status = read THEN next ELSE status

-----------------------------------------------------------------------------
(***************************************************************************)
(* round-zero --commit                                                     *)
(***************************************************************************)
SeedZkey == [ok |-> TRUE, history |-> <<Seed>>]

\* setup and contribute are local; then the upload of round 0.
RoundZero(a) ==
    /\ machine[a] = Idle
    /\ PutOnce(0, SeedZkey)
    /\ Runs(a, IF bucket[0] = None THEN [at |-> "seeding"] ELSE Idle)
    /\ UNCHANGED <<status, urls, pending, attested, seen>>

InitialStatus ==
    [round |-> 1, contributors |-> <<>>, beacon |-> None, final |-> None,
     circuits |-> [c \in Circuits |-> 0]]

\* The status is put with If-None-Match: * too.
Bootstrap(a) ==
    /\ machine[a].at = "seeding"
    /\ status' = IF status = None THEN InitialStatus ELSE status
    /\ Runs(a, Idle)
    /\ UNCHANGED <<bvars, seen>>

-----------------------------------------------------------------------------
(***************************************************************************)
(* mint-signed-url, and the contributors                                   *)
(***************************************************************************)

\* assertObjectAbsent; the command ends here when the object is there.
MintHead(a, c, k) ==
    /\ machine[a] = Idle
    /\ bucket[k] = None
    /\ Runs(a, [at |-> "minting", name |-> c, round |-> k])
    /\ UNCHANGED <<bvars, status, seen>>

\* The URL is signed without asking the bucket; the tracker of an earlier
\* holder of the round is written over.
MintSign(a) ==
    /\ machine[a].at = "minting"
    /\ urls' = urls \cup {<<machine[a].name, machine[a].round>>}
    /\ pending' = [pending EXCEPT ![a][machine[a].round] = machine[a].name]
    /\ Runs(a, Idle)
    /\ UNCHANGED <<bucket, status, attested, seen>>

\* What a contributor may come with: one contribution on top of any round
\* that can be downloaded, or on a setup of their own; or a broken file.
Brought(c) ==
    LET bases == {bucket[k].history : k \in {j \in Rounds : bucket[j] # None}} \cup {<<>>, <<c>>}
    IN {[ok |-> TRUE, history |-> Append(h, c)] : h \in bases}
       \cup {[ok |-> FALSE, history |-> <<Seed, c>>]}

\* The URL does not tell what is put, and serves again.  Its expiry only takes
\* uploads away.
Upload(u) ==
    /\ u \in urls
    /\ \E z \in Brought(u[1]) : PutOnce(u[2], z)
    /\ UNCHANGED <<urls, pending, attested, status, machine, seen>>

-----------------------------------------------------------------------------
(***************************************************************************)
(* verify-contribution                                                     *)
(***************************************************************************)

\* Variant: the histories are compared by their length alone.
LongerByOne(new, prev) == Len(new.history) = Len(prev.history) + 1

\* snarkjsChainVerify
ChainVerified(new, prev) ==
    /\ Len(new.history) = Len(prev.history) + 1
    /\ \A i \in 1 .. Len(prev.history) : prev.history[i] = new.history[i]

\* Download, and snarkjsR1csVerify of what came.
VerifyDownload(a, k) ==
    /\ machine[a] = Idle
    /\ bucket[k] # None
    /\ bucket[k].ok
    /\ Runs(a, [at |-> "verifying", round |-> k, zkey |-> bucket[k]])
    /\ UNCHANGED <<bvars, status, seen>>

\* Download of the round before, the chain check, and the attestation.
VerifyChain(a) ==
    /\ machine[a].at = "verifying"
    /\ LET k == machine[a].round
           new == machine[a].zkey
       IN attested' = IF bucket[k - 1] # None /\ ChainVerified(new, bucket[k - 1])
                      THEN [attested EXCEPT ![a][k] = new]
                      ELSE attested
    /\ Runs(a, Idle)
    /\ UNCHANGED <<bucket, urls, pending, status, seen>>

-----------------------------------------------------------------------------
(***************************************************************************)
(* publish-status --commit                                                 *)
(***************************************************************************)

\* Variant: a round may be published again, as the next one.
RoundAgain(s, a, k) ==
    IF pending[a][k] # None /\ attested[a][k] # None
    THEN {[s EXCEPT !.round = @ + 1,
                    !.contributors = Append(@, [name |-> pending[a][k], round |-> k,
                                                attestation |-> attested[a][k]])]}
    ELSE {}

\* applyRoundUpdate over readPendingRound; the empty set when it throws.
RoundUpdate(s, a, k) ==
    IF /\ pending[a][k] # None /\ attested[a][k] # None
       /\ \A i \in 1 .. Len(s.contributors) : s.contributors[i].round # k
       /\ k = s.round
    THEN {[s EXCEPT !.round = k + 1,
                    !.contributors = Append(@, [name |-> pending[a][k], round |-> k,
                                                attestation |-> attested[a][k]])]}
    ELSE {}

\* Variant: a circuit may skip rounds.
SkippingCircuitUpdate(s, a, c, k) ==
    IF /\ pending[a][k] # None /\ attested[a][k] # None
       /\ k > s.circuits[c]
    THEN {[s EXCEPT !.circuits[c] = k]}
    ELSE {}

\* applyCircuitUpdate: the same files, another counter, and nothing else.
CircuitUpdate(s, a, c, k) ==
    IF /\ pending[a][k] # None /\ attested[a][k] # None
       /\ k = s.circuits[c] + 1
    THEN {[s EXCEPT !.circuits[c] = k]}
    ELSE {}

\* Variant: the round in flight is counted as closed.
BeaconEarly(s, b) ==
    IF s.round < TotalRounds THEN {} ELSE {[s EXCEPT !.beacon = b]}

\* applyBeacon
BeaconUpdate(s, b) ==
    IF Len(s.contributors) < TotalRounds THEN {} ELSE {[s EXCEPT !.beacon = b]}

\* applyFinalize
FinalUpdate(s, f) ==
    IF s.beacon = None THEN {} ELSE {[s EXCEPT !.final = f]}

Updates(s, a) ==
    (UNION {RoundUpdate(s, a, k) : k \in 1 .. MaxRound})
    \cup (UNION {CircuitUpdate(s, a, c, k) : c \in Circuits, k \in 1 .. MaxRound})
    \cup (UNION {BeaconUpdate(s, b) : b \in Beacons})
    \cup (UNION {FinalUpdate(s, f) : f \in Finals})

\* readStatusWithEtag, and the update of what was read.
PublishRead(a) ==
    /\ machine[a] = Idle
    /\ status # None
    /\ \E next \in Updates(status, a) :
          Runs(a, [at |-> "publishing", read |-> status, next |-> next])
    /\ UNCHANGED <<bvars, status, seen>>

PublishWrite(a) ==
    /\ machine[a].at = "publishing"
    /\ WriteStatusConditional(machine[a].read, machine[a].next)
    /\ Runs(a, Idle)
    /\ UNCHANGED <<bvars, seen>>

\* A request fails, or the command is interrupted.
Abort(a) ==
    /\ machine[a] # Idle
    /\ Runs(a, Idle)
    /\ UNCHANGED <<bvars, status, seen>>

-----------------------------------------------------------------------------
(***************************************************************************)
(* Pages: useCeremonyPhase and the poll of routes/ceremony/status.tsx      *)
(***************************************************************************)

\* A poll every 30 s, whether or not earlier ones have answered: the page holds
\* what the bucket sent until it shows it, and shows it until another answer.
Poll(p) ==
    /\ status # None
    /\ Cardinality(seen[p]) < MaxPolls
    /\ seen' = [seen EXCEPT ![p] = @ \cup {status}]
    /\ UNCHANGED <<bvars, status, machine>>

\* Answers come in any order: any of them may be the one that another answer, a
\* failure or the end of the page takes off the screen.
Forget(p) ==
    /\ \E s \in seen[p] : seen' = [seen EXCEPT ![p] = @ \ {s}]
    /\ UNCHANGED <<bvars, status, machine>>

-----------------------------------------------------------------------------
Command(a) ==
    \/ RoundZero(a) \/ Bootstrap(a)
    \/ \E c \in Contributors, k \in 1 .. MaxRound : MintHead(a, c, k)
    \/ MintSign(a)
    \/ \E k \in 1 .. MaxRound : VerifyDownload(a, k)
    \/ VerifyChain(a)
    \/ PublishRead(a) \/ PublishWrite(a)
    \/ Abort(a)

Next ==
    \/ \E a \in Admins : Command(a)
    \/ \E u \in urls : Upload(u)
    \/ \E p \in Pages : Poll(p) \/ Forget(p)

Spec == Init /\ [][Next]_vars

-----------------------------------------------------------------------------
(***************************************************************************)
(* Properties                                                              *)
(***************************************************************************)

Attestation(s, k) == s.contributors[k].attestation

\* The chain that the published status names, the seed first.
Published ==
    IF status = None THEN <<>>
    ELSE <<bucket[0]>> \o [k \in 1 .. Len(status.contributors) |-> Attestation(status, k)]

Chain == INSTANCE CeremonyChain WITH
    chain <- Published,
    drawn <- IF status = None THEN None ELSE status.beacon,
    closed <- IF status = None THEN None ELSE status.final,
    advanced <- [c \in Circuits |-> IF status = None THEN 0 ELSE status.circuits[c]]

\* Every entry of the published status stands for the object its round has in
\* the bucket now, in order and without a gap, and that object extends the one
\* before down to the seed; though several machines verify and publish in any
\* order, URLs outlive the contributor they were for, and commands die between
\* two requests (verify-contribution.ts, publish-status.ts, the write-once keys
\* of r2.ts).
PublishedIsVerified ==
    status # None =>
        /\ bucket[0] = SeedZkey
        /\ status.round = Len(status.contributors) + 1
        /\ \A k \in 1 .. Len(status.contributors) :
              /\ status.contributors[k].round = k
              /\ k <= MaxRound
              /\ Attestation(status, k) = bucket[k]
              /\ Chain!Extends(bucket[k], bucket[k - 1])

\* A circuit's counter counts consecutive rounds that were all verified by some
\* machine, whatever was published of other circuits or of the main chain in
\* between (applyCircuitUpdate of types.ts).
CircuitsCountVerified ==
    status # None =>
        \A c \in Circuits : \A k \in 1 .. status.circuits[c] :
            k <= MaxRound /\ \E a \in Admins : attested[a][k] # None

IsPrefixOf(s, t) ==
    Len(s) <= Len(t) /\ \A i \in 1 .. Len(s) : s[i] = t[i]

\* What a page shows, stale as it may be and in whatever order its polls came
\* back, is an earlier state of the feed: no page shows an entry, a beacon or a
\* final key that the feed has dropped or replaced by nothing (the pollers of
\* the web application over writeStatusConditional).
SeenWasPublished ==
    \A p \in Pages : \A s \in seen[p] :
        /\ status # None
        /\ IsPrefixOf(s.contributors, status.contributors)
        /\ \A c \in Circuits : s.circuits[c] <= status.circuits[c]
        /\ s.beacon # None => status.beacon # None
        /\ s.final # None => s.beacon # None /\ status.final # None

\* The scripts implement the promise of CeremonyChain.
ChainSpec == Chain!ChainSpec
=============================================================================
