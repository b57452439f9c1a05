------------------------ MODULE CeremonyCoordProofs ------------------------
(***************************************************************************)
(* Theorems about the ceremony for any number of admins, contributors,     *)
(* circuits, pages and rounds: what MCCeremonyCoord checks on two admins   *)
(* and two rounds.                                                         *)
(***************************************************************************)
EXTENDS CeremonyCoord, TLAPS

\* Round k is in the bucket, and so is the one before, which it extends.
Linked(k) ==
    /\ bucket[k - 1] # None
    /\ bucket[k] # None /\ bucket[k].ok
    /\ ChainVerified(bucket[k], bucket[k - 1])

\* Round 0 is only ever written by round-zero.
Seeded == bucket[0] \in {None, SeedZkey}

\* An attestation is of the object that its round still has.
AttestedLinked ==
    \A a \in Admins, k \in 1 .. MaxRound :
        attested[a][k] # None => attested[a][k] = bucket[k] /\ Linked(k)

SomeAttested(k) == \E a \in Admins : attested[a][k] # None

\* The updates of a status, told by what the bucket and the machines will
\* still say when the update is written.
Contributes(s, next) ==
    /\ s.round \in 1 .. MaxRound
    /\ Linked(s.round)
    /\ \E c \in Contributors :
          next = [s EXCEPT !.round = s.round + 1,
                           !.contributors = Append(s.contributors,
                               [name |-> c, round |-> s.round, attestation |-> bucket[s.round]])]

Counts(s, next) ==
    \E c \in Circuits :
        /\ s.circuits[c] + 1 \in 1 .. MaxRound
        /\ SomeAttested(s.circuits[c] + 1)
        /\ next = [s EXCEPT !.circuits = [s.circuits EXCEPT ![c] = s.circuits[c] + 1]]

Draws(s, next) ==
    /\ Len(s.contributors) >= TotalRounds
    /\ \E b \in Beacons : next = [s EXCEPT !.beacon = b]

Closes(s, next) ==
    /\ s.beacon # None
    /\ \E f \in Finals : next = [s EXCEPT !.final = f]

Advances(s, next) ==
    Contributes(s, next) \/ Counts(s, next) \/ Draws(s, next) \/ Closes(s, next)

\* What each command under way still knows of the bucket.
MachineKnows(a) ==
    /\ machine[a].at = "seeding" => bucket[0] = SeedZkey
    /\ machine[a].at = "verifying" =>
          /\ bucket[machine[a].round] # None
          /\ machine[a].zkey = bucket[machine[a].round]
          /\ machine[a].zkey.ok
    /\ machine[a].at = "publishing" => Advances(machine[a].read, machine[a].next)

MachinesKnow == \A a \in Admins : MachineKnows(a)

\* The published status stands for linked rounds.
GoodStatus ==
    status # None =>
        /\ bucket[0] = SeedZkey
        /\ status.round = Len(status.contributors) + 1
        /\ \A k \in 1 .. Len(status.contributors) :
              /\ status.contributors[k].round = k
              /\ k <= MaxRound
              /\ Attestation(status, k) = bucket[k]
              /\ Linked(k)
        /\ status.final # None => status.beacon # None

IInv ==
    /\ TypeOK /\ Seeded /\ AttestedLinked /\ MachinesKnow /\ GoodStatus
    /\ CircuitsCountVerified /\ SeenWasPublished

-----------------------------------------------------------------------------
(***************************************************************************)
(* Updates of the status                                                   *)
(***************************************************************************)

\* An update appends the next round, advances a circuit, or sets the beacon or
\* the final key.
LEMMA UpdateCases ==
    ASSUME NEW s, NEW a, NEW next \in Updates(s, a)
    PROVE  \/ \E k \in 1 .. MaxRound : next \in RoundUpdate(s, a, k)
           \/ \E c \in Circuits, k \in 1 .. MaxRound : next \in CircuitUpdate(s, a, c, k)
           \/ \E b \in Beacons : next \in BeaconUpdate(s, b)
           \/ \E f \in Finals : next \in FinalUpdate(s, f)
BY DEF Updates

\* Every update of a status is a status.
LEMMA UpdateType ==
    ASSUME TypeOK, NEW s \in Statuses, NEW a \in Admins, NEW next \in Updates(s, a)
    PROVE  next \in Statuses
<1>1. ASSUME NEW k \in 1 .. MaxRound, next \in RoundUpdate(s, a, k)
      PROVE  next \in Statuses
  <2> DEFINE e == [name |-> pending[a][k], round |-> k, attestation |-> attested[a][k]]
  <2>1. pending[a][k] \in Contributors /\ attested[a][k] \in Zkeys
    BY <1>1, CeremonyAssumption DEF RoundUpdate, TypeOK
  <2>2. e \in Entries
    BY <2>1 DEF Entries
  <2>3. next = [s EXCEPT !.round = k + 1, !.contributors = Append(@, e)]
    BY <1>1 DEF RoundUpdate
  <2>4. k + 1 \in 1 .. MaxRound + 1
    BY CeremonyAssumption
  <2> HIDE DEF e
  <2>5. Append(s.contributors, e) \in Seq(Entries)
    BY <2>2 DEF Statuses
  <2> QED BY <2>3, <2>4, <2>5 DEF Statuses
<1>2. ASSUME NEW c \in Circuits, NEW k \in 1 .. MaxRound, next \in CircuitUpdate(s, a, c, k)
      PROVE  next \in Statuses
  <2>1. next = [s EXCEPT !.circuits = [s.circuits EXCEPT ![c] = k]]
    BY <1>2 DEF CircuitUpdate, Statuses
  <2>2. [s.circuits EXCEPT ![c] = k] \in [Circuits -> 0 .. MaxRound]
    BY <1>2, CeremonyAssumption DEF Statuses
  <2> QED BY <2>1, <2>2 DEF Statuses
<1>3. ASSUME NEW b \in Beacons, next \in BeaconUpdate(s, b)
      PROVE  next \in Statuses
  BY <1>3 DEF BeaconUpdate, Statuses
<1>4. ASSUME NEW f \in Finals, next \in FinalUpdate(s, f)
      PROVE  next \in Statuses
  BY <1>4 DEF FinalUpdate, Statuses
<1> QED BY <1>1, <1>2, <1>3, <1>4, UpdateCases

-----------------------------------------------------------------------------
(***************************************************************************)
(* Types                                                                   *)
(***************************************************************************)

\* What a contributor brings is a zkey.
LEMMA BroughtType ==
    ASSUME TypeOK, NEW c \in Contributors
    PROVE  Brought(c) \subseteq Zkeys
<1>1. <<>> \in Seq(Contributors \cup {Seed}) /\ <<c>> \in Seq(Contributors \cup {Seed})
      /\ <<Seed, c>> \in Seq(Contributors \cup {Seed})
  OBVIOUS
<1>2. \A k \in Rounds : bucket[k] # None => bucket[k].history \in Seq(Contributors \cup {Seed})
  BY DEF TypeOK, Zkeys
<1>3. \A h \in Seq(Contributors \cup {Seed}) : Append(h, c) \in Seq(Contributors \cup {Seed})
  OBVIOUS
<1>4. ASSUME NEW z \in Brought(c) PROVE z \in Zkeys
  <2>1. CASE z = [ok |-> FALSE, history |-> <<Seed, c>>]
    BY <1>1, <2>1 DEF Zkeys
  <2>2. ASSUME NEW h \in Seq(Contributors \cup {Seed}),
               z = [ok |-> TRUE, history |-> Append(h, c)]
        PROVE  z \in Zkeys
    BY <1>3, <2>2 DEF Zkeys
  <2> QED BY <1>1, <1>2, <2>1, <2>2 DEF Brought
<1> QED BY <1>4

LEMMA SeedType == SeedZkey \in Zkeys
<1>1. <<Seed>> \in Seq(Contributors \cup {Seed})
  OBVIOUS
<1> QED BY <1>1 DEF SeedZkey, Zkeys

\* A put leaves every object in place, and puts a zkey.
LEMMA PutKeeps ==
    ASSUME TypeOK, NEW k \in Rounds, NEW z \in Zkeys, PutOnce(k, z)
    PROVE  /\ bucket' \in [Rounds -> Zkeys \cup {None}]
           /\ \A j \in Rounds : bucket[j] # None => bucket'[j] = bucket[j]
           /\ \A j \in Rounds : j # k => bucket'[j] = bucket[j]
           /\ bucket[k] = None => bucket'[k] = z
BY DEF TypeOK, PutOnce

\* A machine that is given a command runs it, the others run theirs.
LEMMA RunsType ==
    ASSUME TypeOK, NEW a \in Admins, NEW command \in Commands, Runs(a, command)
    PROVE  /\ machine' \in [Admins -> Commands]
           /\ machine'[a] = command
           /\ \A b \in Admins : b # a => machine'[b] = machine[b]
BY DEF TypeOK, Runs

LEMMA InitialType == InitialStatus \in Statuses
<1>1. <<>> \in Seq(Entries)
  OBVIOUS
<1> QED BY <1>1, CeremonyAssumption DEF InitialStatus, Statuses

\* What a command under way has in hand.
LEMMA CommandFields ==
    ASSUME NEW m \in Commands
    PROVE  /\ m.at = "minting" => m.name \in Contributors /\ m.round \in 1 .. MaxRound
           /\ m.at = "verifying" => m.zkey \in Zkeys /\ m.round \in 1 .. MaxRound
           /\ m.at = "publishing" => m.read \in Statuses /\ m.next \in Statuses
<1>1. CASE m \in {Idle, [at |-> "seeding"]}
  BY <1>1 DEF Idle
<1>2. CASE m \in [at : {"minting"}, name : Contributors, round : 1 .. MaxRound]
  BY <1>2
<1>3. CASE m \in [at : {"verifying"}, round : 1 .. MaxRound, zkey : Zkeys]
  BY <1>3
<1>4. CASE m \in [at : {"publishing"}, read : Statuses, next : Statuses]
  BY <1>4
<1> QED BY <1>1, <1>2, <1>3, <1>4 DEF Commands

\* The commands of a machine keep the types.
LEMMA CommandType ==
    ASSUME TypeOK, NEW a \in Admins, Command(a)
    PROVE  TypeOK'
<1> USE CeremonyAssumption DEF TypeOK
<1>0. Idle \in Commands /\ [at |-> "seeding"] \in Commands
  BY DEF Commands
<1>1. CASE RoundZero(a)
  <2>1. 0 \in Rounds /\ SeedZkey \in Zkeys
    BY SeedType DEF Rounds
  <2> QED BY <1>0, <1>1, <2>1, PutKeeps, RunsType DEF RoundZero
<1>2. CASE Bootstrap(a)
  BY <1>0, <1>2, InitialType, RunsType DEF Bootstrap, bvars
<1>3. ASSUME NEW c \in Contributors, NEW k \in 1 .. MaxRound, MintHead(a, c, k)
      PROVE  TypeOK'
  <2>1. [at |-> "minting", name |-> c, round |-> k] \in Commands
    BY DEF Commands
  <2> QED BY <1>3, <2>1, RunsType DEF MintHead, bvars
<1>4. CASE MintSign(a)
  <2>1. machine[a].name \in Contributors /\ machine[a].round \in 1 .. MaxRound
    BY <1>4, CommandFields DEF MintSign
  <2>2. urls' \subseteq Contributors \X (1 .. MaxRound)
    BY <1>4, <2>1 DEF MintSign
  <2>3. pending' \in [Admins -> [1 .. MaxRound -> Contributors \cup {None}]]
    BY <1>4, <2>1 DEF MintSign
  <2> QED BY <1>0, <1>4, <2>2, <2>3, RunsType DEF MintSign
<1>5. ASSUME NEW k \in 1 .. MaxRound, VerifyDownload(a, k)
      PROVE  TypeOK'
  <2>1. bucket[k] \in Zkeys
    BY <1>5 DEF VerifyDownload, Rounds
  <2>2. [at |-> "verifying", round |-> k, zkey |-> bucket[k]] \in Commands
    BY <2>1 DEF Commands
  <2> QED BY <1>5, <2>2, RunsType DEF VerifyDownload, bvars
<1>6. CASE VerifyChain(a)
  <2>1. machine[a].zkey \in Zkeys /\ machine[a].round \in 1 .. MaxRound
    BY <1>6, CommandFields DEF VerifyChain
  <2>2. attested' \in [Admins -> [1 .. MaxRound -> Zkeys \cup {None}]]
    BY <1>6, <2>1 DEF VerifyChain
  <2> QED BY <1>0, <1>6, <2>2, RunsType DEF VerifyChain
<1>7. CASE PublishRead(a)
  <2>1. PICK next \in Updates(status, a) :
            Runs(a, [at |-> "publishing", read |-> status, next |-> next])
    BY <1>7 DEF PublishRead
  <2>2. status \in Statuses
    BY <1>7 DEF PublishRead
  <2>3. next \in Statuses
    BY <2>2, UpdateType
  <2>4. [at |-> "publishing", read |-> status, next |-> next] \in Commands
    BY <2>2, <2>3 DEF Commands
  <2> QED BY <1>7, <2>1, <2>4, RunsType DEF PublishRead, bvars
<1>8. CASE PublishWrite(a)
  <2>1. machine[a].next \in Statuses
    BY <1>8, CommandFields DEF PublishWrite
  <2> QED BY <1>0, <1>8, <2>1, RunsType DEF PublishWrite, WriteStatusConditional, bvars
<1>9. CASE Abort(a)
  BY <1>0, <1>9, RunsType DEF Abort, bvars
<1> QED BY <1>1, <1>2, <1>3, <1>4, <1>5, <1>6, <1>7, <1>8, <1>9 DEF Command

\* Every step keeps the types.
LEMMA StepType == TypeOK /\ [Next]_vars => TypeOK'
<1> SUFFICES ASSUME TypeOK, [Next]_vars PROVE TypeOK'
  OBVIOUS
<1>1. ASSUME NEW u \in urls, Upload(u) PROVE TypeOK'
  <2>1. u[1] \in Contributors /\ u[2] \in Rounds
    BY CeremonyAssumption DEF TypeOK, Rounds
  <2>2. PICK z \in Brought(u[1]) : PutOnce(u[2], z)
    BY <1>1 DEF Upload
  <2>3. z \in Zkeys
    BY <2>1, <2>2, BroughtType
  <2> QED BY <1>1, <2>1, <2>2, <2>3, PutKeeps DEF Upload, TypeOK
<1>2. ASSUME NEW p \in Pages, Poll(p) \/ Forget(p) PROVE TypeOK'
  BY <1>2 DEF Poll, Forget, TypeOK, bvars
<1>3. CASE UNCHANGED vars
  BY <1>3 DEF vars, bvars, TypeOK
<1> QED BY <1>1, <1>2, <1>3, CommandType DEF Next

LEMMA InitType == Init => TypeOK
BY CeremonyAssumption DEF Init, TypeOK, Commands

\* The variables of bucket, machines and pages keep their types.
THEOREM TypeCorrect == Spec => []TypeOK
BY InitType, StepType, PTL DEF Spec

-----------------------------------------------------------------------------
(***************************************************************************)
(* The invariant                                                           *)
(***************************************************************************)

\* What is in the bucket, or attested, stays.
Kept ==
    /\ \A j \in Rounds : bucket[j] # None => bucket'[j] = bucket[j]
    /\ \A a \in Admins, j \in 1 .. MaxRound : attested[a][j] # None => attested'[a][j] # None

LEMMA LinkedKept ==
    ASSUME Kept, NEW k \in 1 .. MaxRound, Linked(k)
    PROVE  Linked(k)'
<1>1. k \in Rounds /\ k - 1 \in Rounds
  BY CeremonyAssumption DEF Rounds
<1>2. bucket'[k] = bucket[k] /\ bucket'[k - 1] = bucket[k - 1]
  BY <1>1 DEF Kept, Linked
<1> QED BY <1>2 DEF Linked, ChainVerified

\* An update that could be written can still be.
LEMMA AdvancesKept ==
    ASSUME Kept, NEW a \in Admins, machine'[a] = machine[a], machine[a].at = "publishing",
           machine[a] \in Commands, Advances(machine[a].read, machine[a].next)
    PROVE  Advances(machine[a].read, machine[a].next)'
<1> DEFINE s == machine[a].read
           next == machine[a].next
<1>1. CASE Contributes(s, next)
  <2>1. s.round \in 1 .. MaxRound /\ s.round \in Rounds
    BY <1>1, CeremonyAssumption DEF Contributes, Rounds
  <2>2. bucket'[s.round] = bucket[s.round]
    BY <1>1, <2>1 DEF Contributes, Linked, Kept
  <2>3. Linked(s.round)'
    <3>1. s.round - 1 \in Rounds /\ s'.round = s.round
      BY <2>1, CeremonyAssumption DEF Rounds
    <3>2. bucket'[s.round - 1] = bucket[s.round - 1]
      BY <1>1, <3>1 DEF Contributes, Linked, Kept
    <3>3. Linked(s.round)
      BY <1>1 DEF Contributes
    <3> HIDE DEF s
    <3> QED BY <2>2, <3>1, <3>2, <3>3 DEF Linked, ChainVerified
  <2>4. Contributes(s, next)'
    BY <1>1, <2>1, <2>2, <2>3 DEF Contributes
  <2> QED BY <2>4 DEF Advances
<1>2. CASE Counts(s, next)
  <2>1. PICK c \in Circuits :
            /\ s.circuits[c] + 1 \in 1 .. MaxRound
            /\ SomeAttested(s.circuits[c] + 1)
            /\ next = [s EXCEPT !.circuits = [s.circuits EXCEPT ![c] = s.circuits[c] + 1]]
    BY <1>2 DEF Counts
  <2>2. \E b \in Admins : attested'[b][s.circuits[c] + 1] # None
    BY <2>1 DEF SomeAttested, Kept
  <2>3. s' = s /\ next' = next
    OBVIOUS
  <2> HIDE DEF s, next
  <2>4. Counts(s, next)'
    BY <2>1, <2>2, <2>3 DEF Counts, SomeAttested
  <2> QED BY <2>4 DEF Advances, s, next
<1>3. CASE Draws(s, next)
  BY <1>3 DEF Draws, Advances
<1>4. CASE Closes(s, next)
  BY <1>4 DEF Closes, Advances
<1> QED BY <1>1, <1>2, <1>3, <1>4 DEF Advances

\* A machine that goes on knows what it knew.
LEMMA MachineKept ==
    ASSUME TypeOK, Kept, NEW a \in Admins, MachineKnows(a), machine'[a] = machine[a]
    PROVE  MachineKnows(a)'
<1> USE DEF MachineKnows
<1>1. machine[a] \in Commands
  BY DEF TypeOK
<1>2. CASE machine[a].at = "seeding"
  <2>1. 0 \in Rounds /\ bucket[0] # None
    BY <1>2, SeedType, NoneAssumption, CeremonyAssumption DEF Rounds
  <2> QED BY <1>2, <2>1 DEF Kept
<1>3. CASE machine[a].at = "verifying"
  <2>1. machine[a].round \in Rounds
    BY <1>1, <1>3, CommandFields, CeremonyAssumption DEF Rounds
  <2> QED BY <1>3, <2>1 DEF Kept
<1>4. CASE machine[a].at = "publishing"
  BY <1>1, <1>4, AdvancesKept
<1> QED BY <1>2, <1>3, <1>4

\* What a status stands for stays.
LEMMA StatusKept ==
    ASSUME TypeOK, GoodStatus, CircuitsCountVerified, Kept, UNCHANGED status
    PROVE  GoodStatus' /\ CircuitsCountVerified'
<1>1. GoodStatus'
  <2> SUFFICES ASSUME status # None PROVE GoodStatus'
    BY DEF GoodStatus
  <2>1. bucket'[0] = SeedZkey
    BY SeedType, NoneAssumption, CeremonyAssumption DEF GoodStatus, Kept, Rounds
  <2>2. ASSUME NEW k \in 1 .. Len(status.contributors)
        PROVE  Attestation(status, k) = bucket'[k] /\ Linked(k)'
    <3>1. status \in Statuses
      BY DEF TypeOK
    <3>2. k \in 1 .. MaxRound /\ k \in Rounds
      BY <3>1, CeremonyAssumption DEF GoodStatus, Rounds, Statuses
    <3> QED BY <3>2, LinkedKept DEF GoodStatus, Kept, Linked
  <2> QED BY <2>1, <2>2 DEF GoodStatus, Attestation
<1>2. CircuitsCountVerified'
  <2> SUFFICES ASSUME status # None, NEW c \in Circuits, NEW k \in 1 .. status.circuits[c]
               PROVE  k <= MaxRound /\ \E a \in Admins : attested'[a][k] # None
    BY DEF CircuitsCountVerified
  <2>1. status.circuits[c] \in 0 .. MaxRound
    BY DEF TypeOK, Statuses
  <2>2. PICK a \in Admins : k <= MaxRound /\ attested[a][k] # None
    BY DEF CircuitsCountVerified
  <2>3. k \in 1 .. MaxRound
    BY <2>1, <2>2, CeremonyAssumption
  <2> QED BY <2>2, <2>3 DEF Kept
<1> QED BY <1>1, <1>2

\* Attestations that stay are still of linked objects.
LEMMA AttestedKept ==
    ASSUME AttestedLinked, Kept, UNCHANGED attested
    PROVE  AttestedLinked'
<1> SUFFICES ASSUME NEW a \in Admins, NEW k \in 1 .. MaxRound, attested[a][k] # None
             PROVE  attested[a][k] = bucket'[k] /\ Linked(k)'
  BY DEF AttestedLinked
<1>1. k \in Rounds
  BY CeremonyAssumption DEF Rounds
<1> QED BY <1>1, LinkedKept DEF AttestedLinked, Kept, Linked

\* A machine takes up a command it knows enough for; the others go on.
LEMMA MachinesKept ==
    ASSUME TypeOK, Kept, MachinesKnow, NEW a \in Admins, NEW command \in Commands,
           Runs(a, command), MachineKnows(a)'
    PROVE  MachinesKnow'
<1>1. ASSUME NEW b \in Admins, b # a PROVE MachineKnows(b)'
  <2>1. machine'[b] = machine[b]
    BY <1>1, RunsType
  <2> QED BY <2>1, MachineKept DEF MachinesKnow
<1> QED BY <1>1 DEF MachinesKnow

\* A step that writes no status, and shows pages nothing new, keeps what pages
\* have seen an earlier state.
LEMMA SeenKept ==
    ASSUME SeenWasPublished, UNCHANGED <<status, seen>>
    PROVE  SeenWasPublished'
BY DEF SeenWasPublished, IsPrefixOf

\* A machine that is done has nothing to know.
LEMMA IdleKnows ==
    ASSUME TypeOK, NEW a \in Admins, Runs(a, Idle)
    PROVE  MachineKnows(a)' /\ Idle \in Commands
<1>1. Idle \in Commands
  BY DEF Commands
<1>2. machine'[a] = Idle
  BY <1>1, RunsType
<1> QED BY <1>1, <1>2 DEF MachineKnows, Idle

\* A put into a round other than the seed's, or of the seed into its own.
LEMMA PutInv ==
    ASSUME IInv, NEW k \in Rounds, NEW z \in Zkeys, PutOnce(k, z),
           k = 0 => z = SeedZkey, UNCHANGED <<status, pending, attested, seen>>
    PROVE  /\ Kept /\ Seeded' /\ AttestedLinked' /\ GoodStatus'
           /\ CircuitsCountVerified' /\ SeenWasPublished'
<1> USE DEF IInv
<1>1. Kept
  BY PutKeeps DEF Kept
<1>2. Seeded'
  BY CeremonyAssumption DEF Seeded, PutOnce, TypeOK, Rounds
<1> QED BY <1>1, <1>2, AttestedKept, StatusKept, SeenKept

\* A step that leaves the bucket, the attestations, the status and the pages.
LEMMA QuietInv ==
    ASSUME IInv, UNCHANGED <<bucket, attested, status, seen>>
    PROVE  /\ Kept /\ Seeded' /\ AttestedLinked' /\ GoodStatus'
           /\ CircuitsCountVerified' /\ SeenWasPublished'
<1> USE DEF IInv
<1>1. Kept
  BY DEF Kept
<1>2. Seeded'
  BY DEF Seeded
<1> QED BY <1>1, <1>2, AttestedKept, StatusKept, SeenKept

\* round-zero seeds the bucket, and knows it until it writes the status.
LEMMA RoundZeroInv ==
    ASSUME IInv, NEW a \in Admins, RoundZero(a)
    PROVE  IInv'
<1>1. 0 \in Rounds /\ TypeOK /\ PutOnce(0, SeedZkey)
  BY CeremonyAssumption DEF IInv, Rounds, RoundZero
<1>2. /\ Kept /\ Seeded' /\ AttestedLinked' /\ GoodStatus'
      /\ CircuitsCountVerified' /\ SeenWasPublished'
  BY <1>1, SeedType, PutInv DEF RoundZero
<1>3. MachineKnows(a)' /\ MachinesKnow'
  <2>1. CASE bucket[0] = None
    <3>1. [at |-> "seeding"] \in Commands /\ Runs(a, [at |-> "seeding"])
      BY <2>1 DEF RoundZero, Commands
    <3>2. machine'[a] = [at |-> "seeding"] /\ bucket'[0] = SeedZkey
      BY <1>1, <2>1, <3>1, SeedType, RunsType, PutKeeps
    <3>3. MachineKnows(a)'
      BY <3>2 DEF MachineKnows
    <3> QED BY <1>1, <1>2, <3>1, <3>3, MachinesKept DEF IInv
  <2>2. CASE bucket[0] # None
    BY <1>1, <1>2, <2>2, IdleKnows, MachinesKept DEF IInv, RoundZero
  <2> QED BY <2>1, <2>2
<1>4. TypeOK'
  BY CommandType DEF IInv, Command
<1> QED BY <1>2, <1>3, <1>4 DEF IInv

\* The first status is written over a seeded bucket.
LEMMA BootstrapInv ==
    ASSUME IInv, NEW a \in Admins, Bootstrap(a)
    PROVE  IInv'
<1>1. TypeOK /\ TypeOK' /\ Runs(a, Idle) /\ bucket[0] = SeedZkey
  BY CommandType DEF IInv, Command, Bootstrap, MachinesKnow, MachineKnows
<1>2. Kept /\ Seeded'
  BY DEF Kept, Bootstrap, bvars, IInv, Seeded
<1>3. AttestedLinked'
  BY <1>2, AttestedKept DEF IInv, Bootstrap, bvars
<1>4. MachinesKnow'
  BY <1>1, <1>2, IdleKnows, MachinesKept DEF IInv
<1>5. GoodStatus' /\ CircuitsCountVerified' /\ SeenWasPublished'
  <2>1. CASE status = None
    <3>1. status' = InitialStatus
      BY <2>1 DEF Bootstrap
    <3>2. GoodStatus'
      BY <1>1, <3>1 DEF GoodStatus, InitialStatus, Bootstrap, bvars
    <3>3. CircuitsCountVerified'
      BY <3>1 DEF CircuitsCountVerified, InitialStatus
    <3>4. \A p \in Pages : seen'[p] = {}
      BY <2>1, <1>1 DEF IInv, SeenWasPublished, Bootstrap, TypeOK
    <3> QED BY <3>2, <3>3, <3>4 DEF SeenWasPublished
  <2>2. CASE status # None
    BY <1>1, <1>2, <2>2, StatusKept, SeenKept DEF Bootstrap, IInv
  <2> QED BY <2>1, <2>2
<1> QED BY <1>1, <1>2, <1>3, <1>4, <1>5 DEF IInv

\* Minting a URL touches neither bucket nor status.
LEMMA MintInv ==
    ASSUME IInv, NEW a \in Admins,
           MintSign(a) \/ \E c \in Contributors, k \in 1 .. MaxRound : MintHead(a, c, k)
    PROVE  IInv'
<1>1. TypeOK /\ TypeOK'
  BY CommandType DEF IInv, Command
<1>2. /\ Kept /\ Seeded' /\ AttestedLinked' /\ GoodStatus'
      /\ CircuitsCountVerified' /\ SeenWasPublished'
  BY QuietInv DEF MintSign, MintHead, bvars
<1>3. MachinesKnow'
  <2>1. ASSUME NEW c \in Contributors, NEW k \in 1 .. MaxRound, MintHead(a, c, k)
        PROVE  MachinesKnow'
    <3> DEFINE command == [at |-> "minting", name |-> c, round |-> k]
    <3>1. command \in Commands /\ Runs(a, command)
      BY <2>1 DEF Commands, MintHead
    <3>2. MachineKnows(a)'
      BY <1>1, <3>1, RunsType DEF MachineKnows
    <3> HIDE DEF command
    <3> QED BY <1>1, <1>2, <3>1, <3>2, MachinesKept DEF IInv
  <2>2. CASE MintSign(a)
    BY <1>1, <1>2, <2>2, IdleKnows, MachinesKept DEF IInv, MintSign
  <2> QED BY <2>1, <2>2
<1> QED BY <1>1, <1>2, <1>3 DEF IInv

\* An upload fills an empty round above the seed's.
LEMMA UploadInv ==
    ASSUME IInv, NEW u \in urls, Upload(u)
    PROVE  IInv'
<1>1. TypeOK /\ TypeOK'
  <2>1. [Next]_vars
    BY DEF Next
  <2> QED BY <2>1, StepType DEF IInv
<1>2. u[1] \in Contributors /\ u[2] \in Rounds /\ u[2] # 0
  BY <1>1, CeremonyAssumption DEF TypeOK, Rounds
<1>3. PICK z \in Brought(u[1]) : PutOnce(u[2], z)
  BY DEF Upload
<1>4. z \in Zkeys
  BY <1>1, <1>2, BroughtType
<1>5. /\ Kept /\ Seeded' /\ AttestedLinked' /\ GoodStatus'
      /\ CircuitsCountVerified' /\ SeenWasPublished'
  BY <1>2, <1>3, <1>4, PutInv DEF Upload
<1>6. MachinesKnow'
  BY <1>1, <1>5, MachineKept DEF IInv, MachinesKnow, Upload
<1> QED BY <1>1, <1>5, <1>6 DEF IInv

\* verify-contribution attests an object that stays, over one that stays.
LEMMA VerifyInv ==
    ASSUME IInv, NEW a \in Admins,
           VerifyChain(a) \/ \E k \in 1 .. MaxRound : VerifyDownload(a, k)
    PROVE  IInv'
<1>1. TypeOK /\ TypeOK'
  BY CommandType DEF IInv, Command
<1>2. ASSUME NEW k \in 1 .. MaxRound, VerifyDownload(a, k)
      PROVE  IInv'
  <2> DEFINE command == [at |-> "verifying", round |-> k, zkey |-> bucket[k]]
  <2>1. /\ Kept /\ Seeded' /\ AttestedLinked' /\ GoodStatus'
        /\ CircuitsCountVerified' /\ SeenWasPublished'
    BY <1>2, QuietInv DEF VerifyDownload, bvars
  <2>2. k \in Rounds /\ bucket[k] \in Zkeys /\ bucket[k].ok /\ bucket[k] # None
    BY <1>1, <1>2, CeremonyAssumption DEF VerifyDownload, TypeOK, Rounds
  <2>3. command \in Commands /\ Runs(a, command)
    BY <1>2, <2>2 DEF Commands, VerifyDownload
  <2>4. MachineKnows(a)'
    BY <1>1, <1>2, <2>2, <2>3, RunsType DEF MachineKnows, VerifyDownload, bvars
  <2> HIDE DEF command
  <2> QED BY <1>1, <2>1, <2>3, <2>4, MachinesKept DEF IInv
<1>3. CASE VerifyChain(a)
  <2>0. PICK k, new : k = machine[a].round /\ new = machine[a].zkey
    OBVIOUS
  <2>1. /\ k \in 1 .. MaxRound /\ new = bucket[k] /\ new.ok /\ bucket[k] # None
        /\ machine[a] \in Commands
    BY <1>1, <1>3, <2>0, CommandFields DEF IInv, TypeOK, MachinesKnow, MachineKnows, VerifyChain
  <2>2. /\ \/ UNCHANGED attested
           \/ /\ bucket[k - 1] # None /\ ChainVerified(new, bucket[k - 1])
              /\ attested' = [attested EXCEPT ![a][k] = new]
        /\ UNCHANGED <<bucket, status, seen, pending>>
    BY <1>3, <2>0 DEF VerifyChain
  <2>3. new # None
    BY <2>1
  <2>4. Kept
    <3>1. CASE UNCHANGED attested
      BY <2>2, <3>1 DEF Kept
    <3>2. CASE attested' = [attested EXCEPT ![a][k] = new]
      <4>1. \A b \in Admins, j \in 1 .. MaxRound :
                attested'[b][j] = IF b = a /\ j = k THEN new ELSE attested[b][j]
        BY <1>1, <2>1, <3>2 DEF TypeOK
      <4> QED BY <2>2, <2>3, <4>1 DEF Kept
    <3> QED BY <2>2, <3>1, <3>2
  <2>5. AttestedLinked'
    <3>1. CASE UNCHANGED attested
      BY <2>4, <3>1, AttestedKept DEF IInv
    <3>2. CASE /\ bucket[k - 1] # None /\ ChainVerified(new, bucket[k - 1])
               /\ attested' = [attested EXCEPT ![a][k] = new]
      <4>1. Linked(k)'
        BY <2>1, <2>2, <3>2 DEF Linked, ChainVerified
      <4>2. \A b \in Admins, j \in 1 .. MaxRound :
                attested'[b][j] = IF b = a /\ j = k THEN new ELSE attested[b][j]
        BY <1>1, <2>1, <3>2 DEF TypeOK
      <4>3. \A j \in 1 .. MaxRound : Linked(j) => Linked(j)'
        BY <2>4, LinkedKept
      <4>4. ASSUME NEW b \in Admins, NEW j \in 1 .. MaxRound, attested'[b][j] # None
            PROVE  attested'[b][j] = bucket'[j] /\ Linked(j)'
        <5>1. CASE b = a /\ j = k
          BY <2>1, <2>2, <4>1, <4>2, <5>1
        <5>2. CASE ~(b = a /\ j = k)
          BY <2>2, <4>2, <4>3, <4>4, <5>2 DEF IInv, AttestedLinked
        <5> QED BY <5>1, <5>2
      <4> QED BY <4>4 DEF AttestedLinked
    <3> QED BY <2>2, <3>1, <3>2
  <2>6. Seeded' /\ GoodStatus' /\ CircuitsCountVerified' /\ SeenWasPublished'
    BY <1>1, <2>2, <2>4, StatusKept, SeenKept DEF IInv, Seeded
  <2>7. MachinesKnow'
    BY <1>1, <1>3, <2>4, IdleKnows, MachinesKept DEF IInv, VerifyChain
  <2> QED BY <1>1, <2>5, <2>6, <2>7 DEF IInv
<1> QED BY <1>2, <1>3

\* publish-status starts from an update that can still be written.
LEMMA UpdateAdvances ==
    ASSUME IInv, NEW a \in Admins, status # None, NEW next \in Updates(status, a)
    PROVE  Advances(status, next)
<1>0. status \in Statuses
  BY DEF IInv, TypeOK
<1>1. ASSUME NEW k \in 1 .. MaxRound, next \in RoundUpdate(status, a, k)
      PROVE  Advances(status, next)
  <2>1. pending[a][k] \in Contributors
    <3>1. TypeOK
      BY DEF IInv
    <3> QED BY <1>1, <3>1, CeremonyAssumption DEF TypeOK, RoundUpdate
  <2>2. attested[a][k] = bucket[k] /\ Linked(k) /\ status.round = k
    BY <1>1 DEF IInv, AttestedLinked, RoundUpdate
  <2>3. next = [status EXCEPT !.round = k + 1,
                              !.contributors = Append(status.contributors,
                 [name |-> pending[a][k], round |-> k, attestation |-> bucket[k]])]
    BY <1>1, <2>2 DEF RoundUpdate
  <2>4. Contributes(status, next)
    BY <2>1, <2>2, <2>3 DEF Contributes
  <2> QED BY <2>4 DEF Advances
<1>2. ASSUME NEW c \in Circuits, NEW k \in 1 .. MaxRound,
             next \in CircuitUpdate(status, a, c, k)
      PROVE  Advances(status, next)
  <2>1. /\ k = status.circuits[c] + 1
        /\ attested[a][k] # None
        /\ next = [status EXCEPT !.circuits = [status.circuits EXCEPT ![c] = k]]
    BY <1>2 DEF CircuitUpdate
  <2>2. Counts(status, next)
    BY <2>1 DEF Counts, SomeAttested
  <2> QED BY <2>2 DEF Advances
<1>3. ASSUME NEW b \in Beacons, next \in BeaconUpdate(status, b)
      PROVE  Advances(status, next)
  <2>1. Len(status.contributors) \in Nat
    BY <1>0 DEF Statuses
  <2> QED BY <1>3, <2>1, CeremonyAssumption DEF BeaconUpdate, Draws, Advances
<1>4. ASSUME NEW f \in Finals, next \in FinalUpdate(status, f)
      PROVE  Advances(status, next)
  BY <1>4 DEF FinalUpdate, Closes, Advances
<1> QED BY <1>1, <1>2, <1>3, <1>4, UpdateCases

LEMMA PublishReadInv ==
    ASSUME IInv, NEW a \in Admins, PublishRead(a)
    PROVE  IInv'
<1>1. TypeOK /\ TypeOK'
  BY CommandType DEF IInv, Command
<1>2. /\ Kept /\ Seeded' /\ AttestedLinked' /\ GoodStatus'
      /\ CircuitsCountVerified' /\ SeenWasPublished'
  BY QuietInv DEF PublishRead, bvars
<1>3. PICK next \in Updates(status, a) :
          Runs(a, [at |-> "publishing", read |-> status, next |-> next])
  BY DEF PublishRead
<1> DEFINE command == [at |-> "publishing", read |-> status, next |-> next]
<1>4. status # None /\ UNCHANGED <<bucket, status, attested>>
  BY DEF PublishRead, bvars
<1>5. status \in Statuses /\ next \in Statuses
  BY <1>1, <1>4, UpdateType DEF TypeOK
<1>6. command \in Commands /\ Runs(a, command)
  BY <1>3, <1>5 DEF Commands
<1>7. Advances(status, next)'
  <2>1. Advances(status, next)
    BY <1>4, UpdateAdvances
  <2> QED BY <2>1, <1>4 DEF Advances, Contributes, Counts, Draws, Closes, Linked, ChainVerified, SomeAttested
<1>8. MachineKnows(a)'
  <2>1. machine'[a] = command
    BY <1>1, <1>6, RunsType
  <2>2. /\ machine'[a].at = "publishing"
        /\ machine'[a].read = status' /\ machine'[a].next = next
    BY <1>4, <2>1
  <2>3. Advances(machine[a].read, machine[a].next)'
    BY <1>7, <2>2 DEF Advances, Contributes, Counts, Draws, Closes
  <2> QED BY <2>2, <2>3 DEF MachineKnows
<1> HIDE DEF command
<1> QED BY <1>1, <1>2, <1>6, <1>8, MachinesKept DEF IInv

\* A published update keeps what the status stands for.
LEMMA AdvanceGood ==
    ASSUME TypeOK, TypeOK', GoodStatus, CircuitsCountVerified, status # None, status' # None,
           UNCHANGED <<bucket, attested>>, Advances(status, status')
    PROVE  GoodStatus' /\ CircuitsCountVerified'
<1>0. /\ status \in Statuses /\ status' \in Statuses
      /\ status.contributors \in Seq(Entries) /\ Len(status.contributors) \in Nat
  BY DEF TypeOK, Statuses
<1>1. CASE Contributes(status, status')
  <2> DEFINE k == status.round
  <2>1. PICK c \in Contributors :
            status' = [status EXCEPT !.round = k + 1,
                                     !.contributors = Append(status.contributors,
                           [name |-> c, round |-> k, attestation |-> bucket[k]])]
    BY <1>1 DEF Contributes
  <2>2. k \in 1 .. MaxRound /\ Linked(k) /\ k = Len(status.contributors) + 1
    BY <1>1 DEF Contributes, GoodStatus
  <2> DEFINE e == [name |-> c, round |-> k, attestation |-> bucket[k]]
  <2>3. /\ status'.round = k + 1
        /\ status'.contributors = Append(status.contributors, e)
        /\ status'.beacon = status.beacon /\ status'.final = status.final
        /\ status'.circuits = status.circuits
    BY <1>0, <2>1 DEF Statuses
  <2>4. e.round = k /\ e.attestation = bucket[k]
    OBVIOUS
  <2> HIDE DEF e
  <2>5. /\ Len(status'.contributors) = k
        /\ status'.contributors[k] = e
        /\ \A j \in 1 .. k - 1 : status'.contributors[j] = status.contributors[j]
    BY <1>0, <2>2, <2>3
  <2>6. \A j \in 1 .. k : /\ status'.contributors[j].round = j
                          /\ j <= MaxRound
                          /\ status'.contributors[j].attestation = bucket[j]
                          /\ Linked(j)
    <3>1. \A j \in 1 .. k - 1 : /\ status.contributors[j].round = j
                                /\ j <= MaxRound
                                /\ status.contributors[j].attestation = bucket[j]
                                /\ Linked(j)
      BY <2>2 DEF GoodStatus, Attestation
    <3> QED BY <1>0, <2>2, <2>4, <2>5, <3>1, CeremonyAssumption
  <2>7. GoodStatus'
    BY <2>2, <2>3, <2>5, <2>6 DEF GoodStatus, Attestation, Linked
  <2>8. CircuitsCountVerified'
    BY <2>3 DEF CircuitsCountVerified
  <2> QED BY <2>7, <2>8
<1>2. CASE Counts(status, status')
  <2>1. PICK c \in Circuits :
            /\ status.circuits[c] + 1 \in 1 .. MaxRound
            /\ SomeAttested(status.circuits[c] + 1)
            /\ status' = [status EXCEPT !.circuits =
                              [status.circuits EXCEPT ![c] = status.circuits[c] + 1]]
    BY <1>2 DEF Counts
  <2>2. /\ status'.round = status.round /\ status'.contributors = status.contributors
        /\ status'.beacon = status.beacon /\ status'.final = status.final
        /\ status'.circuits = [status.circuits EXCEPT ![c] = status.circuits[c] + 1]
    BY <1>0, <2>1 DEF Statuses
  <2>3. GoodStatus'
    BY <2>2 DEF GoodStatus, Attestation, Linked
  <2>4. ASSUME NEW d \in Circuits, NEW k \in 1 .. status'.circuits[d]
        PROVE  k <= MaxRound /\ \E b \in Admins : attested'[b][k] # None
    <3>1. /\ status.circuits \in [Circuits -> 0 .. MaxRound]
          /\ status.circuits[d] \in 0 .. MaxRound /\ status.circuits[c] \in 0 .. MaxRound
      BY <1>0 DEF Statuses
    <3>2. k \in 1 .. status.circuits[d] \/ (d = c /\ k = status.circuits[c] + 1)
      BY <2>2, <3>1, CeremonyAssumption
    <3> QED BY <2>1, <3>2, CeremonyAssumption DEF CircuitsCountVerified, SomeAttested
  <2> QED BY <2>3, <2>4 DEF CircuitsCountVerified
<1>3. CASE Draws(status, status')
  <2>1. PICK b \in Beacons : status' = [status EXCEPT !.beacon = b]
    BY <1>3 DEF Draws
  <2>2. /\ status'.round = status.round /\ status'.contributors = status.contributors
        /\ status'.beacon # None /\ status'.circuits = status.circuits
    BY <1>0, <2>1, CeremonyAssumption DEF Statuses
  <2> QED BY <2>2 DEF GoodStatus, Attestation, Linked, CircuitsCountVerified
<1>4. CASE Closes(status, status')
  <2>1. /\ status'.round = status.round /\ status'.contributors = status.contributors
        /\ status'.beacon = status.beacon /\ status'.circuits = status.circuits
        /\ status'.beacon # None
    BY <1>0, <1>4 DEF Closes, Statuses
  <2> QED BY <2>1 DEF GoodStatus, Attestation, Linked, CircuitsCountVerified
<1> QED BY <1>1, <1>2, <1>3, <1>4 DEF Advances

\* A published update keeps every entry, count, beacon and final key.
LEMMA AdvanceGrows ==
    ASSUME NEW s \in Statuses, NEW t \in Statuses, Advances(s, t)
    PROVE  /\ IsPrefixOf(s.contributors, t.contributors)
           /\ \A c \in Circuits : s.circuits[c] <= t.circuits[c]
           /\ s.beacon # None => t.beacon # None
           /\ s.final # None => t.final # None
<1>0. /\ s.contributors \in Seq(Entries) /\ Len(s.contributors) \in Nat
      /\ s.circuits \in [Circuits -> 0 .. MaxRound]
      /\ \A c \in Circuits : s.circuits[c] \in 0 .. MaxRound
  BY DEF Statuses
<1>1. CASE Contributes(s, t)
  <2>1. PICK e : /\ t.contributors = Append(s.contributors, e)
                 /\ t.circuits = s.circuits /\ t.beacon = s.beacon /\ t.final = s.final
    BY <1>1 DEF Contributes, Statuses
  <2> QED BY <1>0, <2>1, CeremonyAssumption DEF IsPrefixOf
<1>2. CASE Counts(s, t)
  <2>1. PICK c \in Circuits :
            t = [s EXCEPT !.circuits = [s.circuits EXCEPT ![c] = s.circuits[c] + 1]]
    BY <1>2 DEF Counts
  <2>2. /\ t.contributors = s.contributors /\ t.beacon = s.beacon /\ t.final = s.final
        /\ t.circuits = [s.circuits EXCEPT ![c] = s.circuits[c] + 1]
    BY <2>1 DEF Statuses
  <2> QED BY <1>0, <2>2, CeremonyAssumption DEF IsPrefixOf
<1>3. CASE Draws(s, t) \/ Closes(s, t)
  <2>1. /\ t.contributors = s.contributors /\ t.circuits = s.circuits
        /\ s.beacon # None => t.beacon # None
        /\ s.final # None => t.final # None
    BY <1>3, CeremonyAssumption DEF Draws, Closes, Statuses
  <2> QED BY <1>0, <2>1, CeremonyAssumption DEF IsPrefixOf
<1> QED BY <1>1, <1>2, <1>3 DEF Advances

\* What was seen before a status that grows is an earlier state of it too.
LEMMA SeenGrows ==
    ASSUME TypeOK, SeenWasPublished, UNCHANGED seen,
           status \in Statuses, status' \in Statuses, Advances(status, status')
    PROVE  SeenWasPublished'
<1> SUFFICES ASSUME NEW p \in Pages, NEW s \in seen[p]
             PROVE  /\ status' # None
                    /\ IsPrefixOf(s.contributors, status'.contributors)
                    /\ \A c \in Circuits : s.circuits[c] <= status'.circuits[c]
                    /\ s.beacon # None => status'.beacon # None
                    /\ s.final # None => s.beacon # None /\ status'.final # None
  BY DEF SeenWasPublished, IsPrefixOf
<1>1. s \in Statuses /\ status' # None
  BY NoneAssumption DEF TypeOK
<1>2. /\ IsPrefixOf(s.contributors, status.contributors)
      /\ \A c \in Circuits : s.circuits[c] <= status.circuits[c]
      /\ s.beacon # None => status.beacon # None
      /\ s.final # None => s.beacon # None /\ status.final # None
  BY DEF SeenWasPublished
<1>3. /\ IsPrefixOf(status.contributors, status'.contributors)
      /\ \A c \in Circuits : status.circuits[c] <= status'.circuits[c]
      /\ status.beacon # None => status'.beacon # None
      /\ status.final # None => status'.final # None
  BY AdvanceGrows
<1>4. /\ s.contributors \in Seq(Entries) /\ status.contributors \in Seq(Entries)
      /\ status'.contributors \in Seq(Entries)
      /\ \A c \in Circuits : /\ s.circuits[c] \in Int /\ status.circuits[c] \in Int
                             /\ status'.circuits[c] \in Int
  BY <1>1, CeremonyAssumption DEF Statuses
<1>5. IsPrefixOf(s.contributors, status'.contributors)
  BY <1>2, <1>3, <1>4 DEF IsPrefixOf
<1>6. \A c \in Circuits : s.circuits[c] <= status'.circuits[c]
  BY <1>2, <1>3, <1>4
<1> QED BY <1>1, <1>2, <1>3, <1>5, <1>6

\* What PublishWrite does to the status: the update of the read, or nothing.
LEMMA WriteFacts ==
    ASSUME IInv, NEW a \in Admins, PublishWrite(a)
    PROVE  \/ UNCHANGED status
           \/ /\ status \in Statuses /\ status' \in Statuses
              /\ status # None /\ status' # None
              /\ Advances(status, status')
<1>1. machine[a].read \in Statuses /\ machine[a].next \in Statuses
  BY CommandFields DEF IInv, TypeOK, PublishWrite
<1>2. Advances(machine[a].read, machine[a].next)
  BY DEF IInv, MachinesKnow, MachineKnows, PublishWrite
<1> QED BY <1>1, <1>2, NoneAssumption DEF PublishWrite, WriteStatusConditional

LEMMA PublishWriteInv ==
    ASSUME IInv, NEW a \in Admins, PublishWrite(a)
    PROVE  IInv'
<1>1. TypeOK /\ TypeOK'
  BY CommandType DEF IInv, Command
<1>2. Kept /\ UNCHANGED <<bucket, attested, seen>> /\ Runs(a, Idle)
  BY DEF Kept, PublishWrite, bvars
<1>3. Seeded' /\ AttestedLinked'
  BY <1>2, AttestedKept DEF IInv, Seeded
<1>4. MachinesKnow'
  BY <1>1, <1>2, IdleKnows, MachinesKept DEF IInv
<1>5. GoodStatus' /\ CircuitsCountVerified' /\ SeenWasPublished'
  <2>1. CASE UNCHANGED status
    BY <1>1, <1>2, <2>1, StatusKept, SeenKept DEF IInv
  <2>2. CASE /\ status \in Statuses /\ status' \in Statuses
             /\ status # None /\ status' # None
             /\ Advances(status, status')
    BY <1>1, <1>2, <2>2, AdvanceGood, SeenGrows DEF IInv
  <2> QED BY <2>1, <2>2, WriteFacts
<1> QED BY <1>1, <1>3, <1>4, <1>5 DEF IInv

LEMMA AbortInv ==
    ASSUME IInv, NEW a \in Admins, Abort(a)
    PROVE  IInv'
<1>1. TypeOK /\ TypeOK'
  BY CommandType DEF IInv, Command
<1>2. /\ Kept /\ Seeded' /\ AttestedLinked' /\ GoodStatus'
      /\ CircuitsCountVerified' /\ SeenWasPublished'
  BY QuietInv DEF Abort, bvars
<1> QED BY <1>1, <1>2, IdleKnows, MachinesKept DEF IInv, Abort

\* A page sees the status of now, or forgets what it saw.
LEMMA PageInv ==
    ASSUME IInv, NEW p \in Pages, Poll(p) \/ Forget(p)
    PROVE  IInv'
<1>1. TypeOK /\ TypeOK'
  <2>1. [Next]_vars
    BY DEF Next
  <2> QED BY <2>1, StepType DEF IInv
<1>2. Kept /\ UNCHANGED <<bucket, attested, status, machine>>
  BY DEF Kept, Poll, Forget, bvars
<1>3. Seeded' /\ AttestedLinked' /\ GoodStatus' /\ CircuitsCountVerified'
  BY <1>1, <1>2, AttestedKept, StatusKept DEF IInv, Seeded
<1>4. MachinesKnow'
  BY <1>1, <1>2, MachineKept DEF IInv, MachinesKnow
<1>5. SeenWasPublished'
  <2>1. \A q \in Pages : \A s \in seen'[q] : s \in seen[q] \/ (s = status /\ status # None)
    <3>1. seen \in [Pages -> SUBSET Statuses]
      BY <1>1 DEF TypeOK
    <3>2. CASE Poll(p)
      BY <3>1, <3>2 DEF Poll
    <3>3. CASE Forget(p)
      BY <3>1, <3>3 DEF Forget
    <3> QED BY <3>2, <3>3
  <2>2. status # None =>
            /\ IsPrefixOf(status.contributors, status.contributors)
            /\ \A c \in Circuits : status.circuits[c] <= status.circuits[c]
            /\ status.final # None => status.beacon # None
    <3>1. status # None => status.contributors \in Seq(Entries)
                           /\ \A c \in Circuits : status.circuits[c] \in Int
      BY <1>1, CeremonyAssumption DEF TypeOK, Statuses
    <3> QED BY <3>1 DEF IsPrefixOf, IInv, GoodStatus
  <2> QED BY <1>2, <2>1, <2>2 DEF IInv, SeenWasPublished, IsPrefixOf
<1> QED BY <1>1, <1>3, <1>4, <1>5 DEF IInv

LEMMA InitInv == Init => IInv
<1> SUFFICES ASSUME Init PROVE IInv
  OBVIOUS
<1>1. TypeOK
  BY InitType
<1>2. MachinesKnow
  BY DEF Init, MachinesKnow, MachineKnows, Idle
<1>3. Seeded /\ AttestedLinked /\ GoodStatus /\ CircuitsCountVerified /\ SeenWasPublished
  BY CeremonyAssumption
  DEF Init, Seeded, AttestedLinked, GoodStatus, CircuitsCountVerified, SeenWasPublished, Rounds
<1> QED BY <1>1, <1>2, <1>3 DEF IInv

\* However the commands of the machines, the uploads and the polls interleave.
LEMMA StepInv == IInv /\ [Next]_vars => IInv'
<1> SUFFICES ASSUME IInv, [Next]_vars PROVE IInv'
  OBVIOUS
<1>1. ASSUME NEW a \in Admins, Command(a) PROVE IInv'
  BY <1>1, RoundZeroInv, BootstrapInv, MintInv, VerifyInv, PublishReadInv, PublishWriteInv,
     AbortInv DEF Command
<1>2. CASE UNCHANGED vars
  <2>1. TypeOK /\ TypeOK'
    BY <1>2, StepType DEF IInv
  <2>2. /\ Kept /\ Seeded' /\ AttestedLinked' /\ GoodStatus'
        /\ CircuitsCountVerified' /\ SeenWasPublished'
    BY <1>2, QuietInv DEF vars, bvars
  <2>3. MachinesKnow'
    BY <1>2, <2>1, <2>2, MachineKept DEF IInv, MachinesKnow, vars
  <2> QED BY <2>1, <2>2, <2>3 DEF IInv
<1> QED BY <1>1, <1>2, UploadInv, PageInv DEF Next

\* The strengthening that the theorems below rest on.
THEOREM Invariant == Spec => []IInv
BY InitInv, StepInv, PTL DEF Spec

-----------------------------------------------------------------------------
(***************************************************************************)
(* Theorems                                                                *)
(***************************************************************************)

\* The published entries stand, in order, for the chain of the bucket.
THEOREM PublishedVerified == Spec => []PublishedIsVerified
<1>1. IInv => PublishedIsVerified
  <2> SUFFICES ASSUME IInv, status # None, NEW k \in 1 .. Len(status.contributors)
               PROVE  /\ bucket[0] = SeedZkey
                      /\ status.round = Len(status.contributors) + 1
                      /\ status.contributors[k].round = k
                      /\ k <= MaxRound
                      /\ Attestation(status, k) = bucket[k]
                      /\ Chain!Extends(bucket[k], bucket[k - 1])
    BY DEF PublishedIsVerified, IInv, GoodStatus
  <2> QED BY DEF IInv, GoodStatus, Linked, ChainVerified, Chain!Extends
<1> QED BY <1>1, Invariant, PTL

\* Circuits count attested rounds only.
THEOREM CountsVerified == Spec => []CircuitsCountVerified
<1>1. IInv => CircuitsCountVerified
  BY DEF IInv
<1> QED BY <1>1, Invariant, PTL

\* Pages show earlier states of the feed.
THEOREM SeenPublished == Spec => []SeenWasPublished
<1>1. IInv => SeenWasPublished
  BY DEF IInv
<1> QED BY <1>1, Invariant, PTL

-----------------------------------------------------------------------------
(***************************************************************************)
(* The scripts implement CeremonyChain                                     *)
(***************************************************************************)

\* The chain that a status names over a seed, by position.
ChainOf(seed, s) ==
    <<seed>> \o [k \in 1 .. Len(s.contributors) |-> Attestation(s, k)]

LEMMA ChainFacts ==
    ASSUME NEW seed, NEW s \in Statuses
    PROVE  LET n == Len(s.contributors)
           IN /\ n \in Nat
              /\ Len(ChainOf(seed, s)) = n + 1
              /\ ChainOf(seed, s) # <<>>
              /\ ChainOf(seed, s)[1] = seed
              /\ \A k \in 1 .. n : ChainOf(seed, s)[k + 1] = Attestation(s, k)
<1> DEFINE n == Len(s.contributors)
           S == {seed} \cup {Attestation(s, k) : k \in 1 .. n}
           tail == [k \in 1 .. n |-> Attestation(s, k)]
<1>1. n \in Nat
  BY DEF Statuses
<1>2. tail \in Seq(S) /\ Len(tail) = n
  BY <1>1
<1>3. <<seed>> \in Seq(S) /\ Len(<<seed>>) = 1
  OBVIOUS
<1>4. ChainOf(seed, s) = <<seed>> \o tail
  BY DEF ChainOf
<1>5. \A k \in 1 .. n : tail[k] = Attestation(s, k)
  OBVIOUS
<1> HIDE DEF S, tail
<1> QED BY <1>1, <1>2, <1>3, <1>4, <1>5

\* The objects that a status stands for stay, and with them its chain.
LEMMA ChainKept ==
    ASSUME IInv, IInv', UNCHANGED status, Kept
    PROVE  UNCHANGED Chain!cvars
<1>1. Published' = Published
  <2>1. CASE status = None
    BY <2>1 DEF Published
  <2>2. CASE status # None
    <3>1. bucket'[0] = bucket[0]
      BY <2>2 DEF IInv, GoodStatus
    <3> QED BY <2>2, <3>1 DEF Published, Attestation
  <2> QED BY <2>1, <2>2
<1> QED BY <1>1 DEF Chain!cvars

\* A status that a machine advances is a step of the chain.
LEMMA AdvanceSteps ==
    ASSUME IInv, IInv', status \in Statuses, status' \in Statuses,
           status # None, status' # None, UNCHANGED bucket, Advances(status, status')
    PROVE  Chain!Grow \/ Chain!Draw \/ Chain!Close \/ Chain!Advance
<1> DEFINE n == Len(status.contributors)
<1>0. TypeOK /\ TypeOK'
  BY DEF IInv
<1>1. /\ n \in Nat /\ Len(Published) = n + 1 /\ Published # <<>>
      /\ Published[1] = bucket[0]
      /\ \A k \in 1 .. n : Published[k + 1] = Attestation(status, k)
  BY ChainFacts DEF Published, ChainOf
<1>2. CASE Contributes(status, status')
  <2>1. PICK e : /\ status'.contributors = Append(status.contributors, e)
                 /\ e.attestation = bucket[status.round]
                 /\ UNCHANGED <<status.beacon, status.final, status.circuits>>
    <3>1. PICK c \in Contributors :
              status' = [status EXCEPT !.round = status.round + 1,
                           !.contributors = Append(status.contributors,
                 [name |-> c, round |-> status.round, attestation |-> bucket[status.round]])]
      BY <1>2 DEF Contributes
    <3> DEFINE f == [name |-> c, round |-> status.round, attestation |-> bucket[status.round]]
    <3>2. f.attestation = bucket[status.round]
      OBVIOUS
    <3>3. /\ status'.contributors = Append(status.contributors, f)
          /\ UNCHANGED <<status.beacon, status.final, status.circuits>>
      BY <3>1 DEF Statuses
    <3> QED BY <3>2, <3>3
  <2>2. /\ Len(status'.contributors) = n + 1
        /\ \A k \in 1 .. n : status'.contributors[k] = status.contributors[k]
        /\ status'.contributors[n + 1] = e
    BY <1>1, <2>1 DEF Statuses
  <2>3. /\ Len(Published') = n + 2
        /\ Published'[1] = bucket'[0]
        /\ \A k \in 1 .. n + 1 : Published'[k + 1] = Attestation(status', k)
    <3>1. Published' = ChainOf(bucket'[0], status')
      BY DEF Published, ChainOf, Attestation
    <3> QED BY <1>1, <2>2, <3>1, ChainFacts
  <2>4. \A i \in 1 .. n + 1 : Published'[i] = Published[i]
    <3>1. Published'[1] = Published[1]
      BY <1>1, <2>3
    <3>2. ASSUME NEW k \in 1 .. n
          PROVE  Published'[k + 1] = Published[k + 1]
      <4>1. k \in 1 .. n + 1 /\ Attestation(status', k) = Attestation(status, k)
        BY <1>1, <2>2 DEF Attestation
      <4> QED BY <1>1, <2>3, <4>1
    <3>3. ASSUME NEW i \in 1 .. n + 1, i # 1
          PROVE  Published'[i] = Published[i]
      <4>1. i - 1 \in 1 .. n /\ (i - 1) + 1 = i
        BY <1>1, <3>3
      <4> QED BY <3>2, <4>1
    <3> QED BY <3>1, <3>3
  <2>5. Chain!Extends(Published'[n + 2], Published[n + 1])
    <3>1. status.round = n + 1 /\ Linked(n + 1)
      BY <1>2 DEF IInv, GoodStatus, Contributes
    <3>2. Published'[n + 2] = bucket[n + 1]
      <4>1. n + 1 \in 1 .. n + 1 /\ (n + 1) + 1 = n + 2
        BY <1>1
      <4> QED BY <2>1, <2>2, <2>3, <3>1, <4>1 DEF Attestation
    <3>3. Published[n + 1] = bucket[n]
      <4>1. CASE n = 0
        BY <1>1, <4>1
      <4>2. CASE n # 0
        <5>1. n \in 1 .. n
          BY <1>1, <4>2
        <5> QED BY <1>1, <5>1 DEF IInv, GoodStatus
      <4> QED BY <4>1, <4>2
    <3>4. (n + 1) - 1 = n
      BY <1>1
    <3> QED BY <3>1, <3>2, <3>3, <3>4 DEF Linked, ChainVerified, Chain!Extends
  <2> HIDE DEF n
  <2>6. Chain!Grow
    BY <1>1, <2>1, <2>3, <2>4, <2>5 DEF Chain!Grow
  <2> QED BY <2>6
<1>3. CASE Counts(status, status')
  <2>1. PICK c \in Circuits :
            status' = [status EXCEPT !.circuits =
                          [status.circuits EXCEPT ![c] = status.circuits[c] + 1]]
    BY <1>3 DEF Counts
  <2>2. /\ UNCHANGED <<status.contributors, status.beacon, status.final>>
        /\ status.circuits \in [Circuits -> 0 .. MaxRound]
        /\ status'.circuits = [status.circuits EXCEPT ![c] = status.circuits[c] + 1]
    BY <2>1 DEF Statuses
  <2>3. Published' = Published
    BY <2>2 DEF Published, Attestation
  <2>4. [d \in Circuits |-> status'.circuits[d]]
          = [[d \in Circuits |-> status.circuits[d]] EXCEPT ![c] = @ + 1]
    BY <2>2
  <2>5. Chain!Advance
    BY <1>1, <2>2, <2>3, <2>4 DEF Chain!Advance
  <2> QED BY <2>5
<1>4. CASE Draws(status, status')
  <2>1. PICK b \in Beacons : status' = [status EXCEPT !.beacon = b]
    BY <1>4 DEF Draws
  <2>2. /\ UNCHANGED <<status.contributors, status.circuits, status.final>>
        /\ status'.beacon = b
    BY <2>1 DEF Statuses
  <2>3. Published' = Published
    BY <2>2 DEF Published, Attestation
  <2>4. Len(Published) > TotalRounds
    BY <1>1, <1>4, CeremonyAssumption DEF Draws
  <2>5. Chain!Draw
    BY <2>2, <2>3, <2>4 DEF Chain!Draw
  <2> QED BY <2>5
<1>5. CASE Closes(status, status')
  <2>1. PICK f \in Finals : status' = [status EXCEPT !.final = f]
    BY <1>5 DEF Closes
  <2>2. /\ UNCHANGED <<status.contributors, status.circuits, status.beacon>>
        /\ status'.final = f /\ status.beacon # None
    BY <1>5, <2>1 DEF Statuses, Closes
  <2>3. Published' = Published
    BY <2>2 DEF Published, Attestation
  <2>4. Chain!Close
    BY <2>2, <2>3 DEF Chain!Close
  <2> QED BY <2>4
<1> QED BY <1>2, <1>3, <1>4, <1>5 DEF Advances

\* Every step of the scripts is a step of the chain, or leaves it alone.
LEMMA StepChain ==
    ASSUME IInv, IInv', [Next]_vars
    PROVE  [Chain!Plant \/ Chain!Grow \/ Chain!Draw \/ Chain!Close \/ Chain!Advance]_(Chain!cvars)
<1>1. ASSUME NEW a \in Admins, Bootstrap(a), status = None
      PROVE  Chain!Plant
  <2>1. status' = InitialStatus /\ bucket' = bucket /\ bucket[0] = SeedZkey
    BY <1>1 DEF Bootstrap, bvars, IInv, MachinesKnow, MachineKnows
  <2>2. status' # None /\ status' \in Statuses
    BY <2>1, InitialType, NoneAssumption
  <2>3. Published' = ChainOf(bucket'[0], status')
    BY <2>2 DEF Published, ChainOf, Attestation
  <2>4. Len(Published') = 1 /\ Published'[1] = SeedZkey
    <3>1. Published' = ChainOf(SeedZkey, InitialStatus)
      BY <2>1, <2>3
    <3>2. Len(InitialStatus.contributors) = 0
      BY DEF InitialStatus
    <3>3. /\ Len(ChainOf(SeedZkey, InitialStatus)) = Len(InitialStatus.contributors) + 1
          /\ ChainOf(SeedZkey, InitialStatus)[1] = SeedZkey
      BY InitialType, ChainFacts
    <3> QED BY <3>1, <3>2, <3>3
  <2>5. /\ status'.beacon = None /\ status'.final = None
        /\ [c \in Circuits |-> status'.circuits[c]] = [c \in Circuits |-> 0]
    BY <2>1 DEF InitialStatus
  <2> QED BY <1>1, <2>2, <2>4, <2>5 DEF Chain!Plant, Published, SeedZkey
<1>2. ASSUME NEW a \in Admins, PublishWrite(a), ~UNCHANGED status
      PROVE  Chain!Grow \/ Chain!Draw \/ Chain!Close \/ Chain!Advance
  BY <1>2, WriteFacts, AdvanceSteps DEF PublishWrite, bvars
<1>3. Kept
  <2>1. CASE UNCHANGED <<bucket, attested>>
    BY <2>1 DEF Kept
  <2>2. ASSUME NEW k \in Rounds, NEW z, PutOnce(k, z), UNCHANGED attested
        PROVE  Kept
    BY <2>2 DEF Kept, PutOnce, IInv, TypeOK
  <2>3. ASSUME NEW a \in Admins, VerifyChain(a)
        PROVE  Kept
    <3>1. machine[a].zkey # None
      BY <2>3, CommandFields, NoneAssumption DEF VerifyChain, IInv, TypeOK
    <3>2. PICK k, z : /\ z # None /\ bucket' = bucket
                      /\ attested' \in {attested, [attested EXCEPT ![a][k] = z]}
      BY <2>3, <3>1 DEF VerifyChain
    <3>3. attested \in [Admins -> [1 .. MaxRound -> Zkeys \cup {None}]]
      BY DEF IInv, TypeOK
    <3>4. \A b \in Admins, j \in 1 .. MaxRound : attested[b][j] # None => attested'[b][j] # None
      BY <3>2, <3>3
    <3> QED BY <3>2, <3>4 DEF Kept
  <2>4. 0 \in Rounds /\ \A u \in urls : u[2] \in Rounds
    BY CeremonyAssumption DEF IInv, TypeOK, Rounds
  <2>5. ASSUME NEW a \in Admins, Command(a)
        PROVE  Kept
    <3>1. CASE RoundZero(a)
      BY <2>2, <2>4, <3>1 DEF RoundZero
    <3>2. CASE VerifyChain(a)
      BY <2>3, <3>2
    <3>3. CASE ~RoundZero(a) /\ ~VerifyChain(a)
      <4>1. UNCHANGED <<bucket, attested>>
        BY <2>5, <3>3 DEF Command, Bootstrap, MintHead, MintSign, VerifyDownload, PublishRead,
                          PublishWrite, Abort, bvars
      <4> QED BY <2>1, <4>1
    <3> QED BY <3>1, <3>2, <3>3
  <2>6. ASSUME NEW u \in urls, Upload(u)
        PROVE  Kept
    BY <2>2, <2>4, <2>6 DEF Upload
  <2>7. ASSUME NEW p \in Pages, Poll(p) \/ Forget(p)
        PROVE  Kept
    BY <2>1, <2>7 DEF Poll, Forget, bvars
  <2> QED BY <2>1, <2>5, <2>6, <2>7 DEF Next, vars, bvars
<1>4. \/ UNCHANGED status
      \/ \E a \in Admins : Bootstrap(a) /\ status = None
      \/ \E a \in Admins : PublishWrite(a)
  BY DEF Next, Command, RoundZero, Bootstrap, MintHead, MintSign, VerifyDownload, VerifyChain,
         PublishRead, Abort, Upload, Poll, Forget, vars, bvars
<1>5. CASE UNCHANGED status
  BY <1>3, <1>5, ChainKept
<1> QED BY <1>1, <1>2, <1>4, <1>5

\* The scripts, whatever their order and wherever they die, keep the promise of
\* CeremonyChain.
THEOREM ImplementsChain == Spec => ChainSpec
<1>1. Init => Chain!ChainInit
  BY DEF Init, Chain!ChainInit, Published
<1> QED BY <1>1, Invariant, StepChain, PTL DEF Spec, ChainSpec, Chain!ChainSpec
=============================================================================
