------------------------- MODULE ArtifactCacheProofs -------------------------
(***************************************************************************)
(* Theorems about the artifact cache, for any number of runs and chunks:   *)
(* its types for any installers, and its safety properties for installers  *)
(* that do not overlap.  Two at once break FinalVerified (see the run      *)
(* artifact_race), so the second part cannot do without OneInstaller.      *)
(***************************************************************************)
EXTENDS ArtifactCache, TLAPS

OneInstaller == \A p, q \in Installers : p = q

\* An installer at an await has been started: its inode has a name.
Started == \A p \in Installers : pc[p] \in Awaits => run[p] \in 1 .. Runs

\* The types are kept by every call, failure and kill.
LEMMA TypeStep ==
    ASSUME TypeOK, Started, [Next]_vars
    PROVE  TypeOK' /\ Started'
<1> USE CacheAssumption
<1>1. ASSUME NEW p \in Installers, Launch(p) PROVE TypeOK' /\ Started'
  <2>1. run' \in [Installers -> 0 .. Runs]
    BY <1>1 DEF Launch, TypeOK
  <2>2. run[p] + 1 \in 1 .. Runs
    BY <1>1 DEF Launch, TypeOK
  <2>3. Started'
    BY <1>1, <2>2 DEF Launch, TypeOK, Started, Awaits, Ended
  <2> QED BY <1>1, <2>1, <2>3 DEF Launch, TypeOK, Awaits
<1>2. ASSUME NEW p \in Installers,
             \/ StatFinal(p) \/ HashFinal(p) \/ RestatFinal(p) \/ EndStream(p)
             \/ CallFails(p) \/ DownloadFails(p)
      PROVE  TypeOK' /\ Started'
  <2>1. /\ pc[p] \in Awaits
        /\ \E to \in Awaits \cup Ended : pc' = [pc EXCEPT ![p] = to]
        /\ UNCHANGED <<final, temp, content, prover, run, fd, got, source>>
    BY <1>2 DEF StatFinal, HashFinal, RestatFinal, EndStream, CallFails, DownloadFails, Step,
                Awaits, Ended
  <2> QED BY <2>1 DEF TypeOK, Started
<1>3. ASSUME NEW p \in Installers, OpenStreams(p) PROVE TypeOK' /\ Started'
  <2>1. run[p] \in 1 .. Runs
    BY <1>3 DEF OpenStreams, Step, Started, Awaits
  <2>2. temp' \in Inodes /\ fd' = [fd EXCEPT ![p] = temp']
    BY <1>3, <2>1 DEF OpenStreams, TypeOK, Inodes
  <2>3. content' \in [Inodes -> [1 .. Chunks -> {"none", "good", "bad"}]]
    BY <1>3 DEF OpenStreams, TypeOK
  <2>4. pc' = [pc EXCEPT ![p] = "stream"] /\ run' = run /\ pc[p] = "open"
    BY <1>3 DEF OpenStreams, Step
  <2>5. Started'
    BY <2>4 DEF TypeOK, Started, Awaits
  <2> QED BY <1>3, <2>2, <2>3, <2>4, <2>5 DEF OpenStreams, TypeOK, Awaits
<1>4. ASSUME NEW p \in Installers, WriteChunk(p) PROVE TypeOK' /\ Started'
  <2>1. got[p] \in Nat /\ got[p] < Chunks /\ got[p] + 1 \in 1 .. Chunks
    BY <1>4 DEF WriteChunk, TypeOK
  <2>2. got' \in [Installers -> 0 .. Chunks]
    BY <1>4, <2>1 DEF WriteChunk, TypeOK
  <2>3. content' \in [Inodes -> [1 .. Chunks -> {"none", "good", "bad"}]]
    BY <1>4, <2>1 DEF WriteChunk, TypeOK
  <2> QED BY <1>4, <2>2, <2>3 DEF WriteChunk, TypeOK, Started
<1>5. ASSUME NEW p \in Installers,
             \/ RemoveFinal(p) \/ RemoveTemp(p) \/ RenameTemp(p) \/ CatchRemoveTemp(p)
             \/ BeginUnzip(p) \/ EndUnzip(p) \/ Crash(p)
      PROVE  TypeOK' /\ Started'
  <2>1. /\ pc[p] \in Awaits
        /\ \E to \in Awaits \cup Ended : pc' = [pc EXCEPT ![p] = to]
        /\ UNCHANGED <<content, run, fd, got, source>>
    BY <1>5 DEF RemoveFinal, RemoveTemp, RenameTemp, CatchRemoveTemp, BeginUnzip, EndUnzip,
                Crash, Step, Awaits, Ended
  <2>2. /\ final' \in {final, temp, NoFile} /\ temp' \in {temp, NoFile}
        /\ prover' \in {prover, "partial", "good"}
    BY <1>5 DEF RemoveFinal, RemoveTemp, RenameTemp, CatchRemoveTemp, BeginUnzip, EndUnzip, Crash
  <2> QED BY <2>1, <2>2 DEF TypeOK, Started
<1>6. CASE UNCHANGED vars
  BY <1>6 DEF vars, TypeOK, Started
<1> QED BY <1>1, <1>2, <1>3, <1>4, <1>5, <1>6 DEF Next, Work

\* Paths, inodes and awaits keep their types for any number of installers.
THEOREM TypeCorrect == Spec => []TypeOK
<1>1. ASSUME Init PROVE TypeOK /\ Started
  BY <1>1, CacheAssumption DEF Init, TypeOK, Started, Inodes, Ended, Awaits
<1> QED BY <1>1, TypeStep, PTL DEF Spec

-----------------------------------------------------------------------------
(***************************************************************************)
(* One installer at a time.                                                *)
(***************************************************************************)

\* What the installer knows of the two paths at each of its awaits, and what
\* the file it writes holds so far.
Positions ==
    \A p \in Installers :
        /\ pc[p] = "hash" => final # NoFile
        /\ pc[p] = "restat" => final # NoFile /\ Pinned(final)
        /\ pc[p] = "rmFinal" => final # NoFile /\ ~Pinned(final)
        /\ pc[p] \in {"rmTemp", "open", "stream", "rename"} => final = NoFile
        /\ pc[p] = "open" => temp = NoFile
        /\ pc[p] \in {"stream", "rename"} => temp # NoFile
        /\ pc[p] \in {"stat", "hash", "restat", "rmFinal", "rmTemp", "open"} => got[p] = 0
        /\ pc[p] = "stream" =>
              \A k \in 1 .. got[p] : content[temp][k] = IF k = Chunks THEN source[p] ELSE "good"

\* A temporary file and a final one never exist together.
OnePath == final = NoFile \/ temp = NoFile

SInv ==
    /\ TypeOK /\ Started
    /\ FinalVerified /\ InstalledIsVerified /\ RenamesWhatItHashed
    /\ Positions /\ OnePath

\* SInv without what TypeStep takes care of.
Sound == FinalVerified /\ InstalledIsVerified /\ RenamesWhatItHashed /\ Positions /\ OnePath

\* The action of FinalSteps.
Orderly ==
    /\ final' # final =>
          \/ final = NoFile /\ Pinned(final)'
          \/ final' = NoFile /\ ~Pinned(final)
    /\ final # NoFile => content'[final] = content[final]

\* Steps that write to no path and no file.
LEMMA LookingStep ==
    ASSUME OneInstaller, SInv, NEW p \in Installers,
           Launch(p) \/ StatFinal(p) \/ HashFinal(p) \/ RestatFinal(p) \/ CallFails(p)
           \/ DownloadFails(p) \/ Crash(p)
    PROVE  Sound' /\ Orderly
<1> USE CacheAssumption DEF OneInstaller
<1>1. UNCHANGED <<final, temp, content, prover>>
  BY DEF Launch, StatFinal, HashFinal, RestatFinal, CallFails, DownloadFails, Crash, Step
<1>2. Orderly /\ OnePath' /\ FinalVerified'
  BY <1>1 DEF Orderly, SInv, OnePath, FinalVerified, Pinned
<1>3. CASE Launch(p)
  BY <1>1, <1>2, <1>3 DEF Launch, SInv, TypeOK, InstalledIsVerified, RenamesWhatItHashed,
     Positions, OnePath, Pinned, Sound
<1>4. CASE StatFinal(p)
  BY <1>1, <1>2, <1>4 DEF StatFinal, Step, SInv, TypeOK, InstalledIsVerified, RenamesWhatItHashed,
     Positions, OnePath, Pinned, Sound
<1>5. CASE HashFinal(p)
  BY <1>1, <1>2, <1>5 DEF HashFinal, Step, SInv, TypeOK, InstalledIsVerified, RenamesWhatItHashed,
     Positions, OnePath, Pinned, Sound
<1>6. CASE RestatFinal(p)
  BY <1>1, <1>2, <1>6 DEF RestatFinal, Step, SInv, TypeOK, InstalledIsVerified,
     RenamesWhatItHashed, Positions, OnePath, Pinned, Sound
<1>7. CASE CallFails(p) \/ DownloadFails(p) \/ Crash(p)
  BY <1>1, <1>2, <1>7 DEF CallFails, DownloadFails, Crash, SInv, TypeOK, InstalledIsVerified,
     RenamesWhatItHashed, Positions, OnePath, Pinned, Sound
<1> QED BY <1>3, <1>4, <1>5, <1>6, <1>7

\* Steps that remove a path, or look into a stream that has ended.
LEMMA RemovingStep ==
    ASSUME OneInstaller, SInv, NEW p \in Installers,
           RemoveFinal(p) \/ RemoveTemp(p) \/ CatchRemoveTemp(p) \/ EndStream(p)
    PROVE  Sound' /\ Orderly
<1> USE CacheAssumption DEF OneInstaller
<1>1. CASE RemoveFinal(p)
  BY <1>1 DEF RemoveFinal, Step, SInv, TypeOK, FinalVerified, InstalledIsVerified,
     RenamesWhatItHashed, Positions, OnePath, Pinned, Sound, Orderly
<1>2. CASE RemoveTemp(p)
  BY <1>2 DEF RemoveTemp, Step, SInv, TypeOK, FinalVerified, InstalledIsVerified,
     RenamesWhatItHashed, Positions, OnePath, Pinned, Sound, Orderly
<1>3. CASE CatchRemoveTemp(p)
  BY <1>3 DEF CatchRemoveTemp, Step, SInv, TypeOK, FinalVerified, InstalledIsVerified,
     RenamesWhatItHashed, Positions, OnePath, Pinned, Sound, Orderly
<1>4. CASE EndStream(p)
  <2>1. source[p] = "good" => Pinned(temp)
    BY <1>4 DEF EndStream, Step, SInv, TypeOK, Positions, Pinned
  <2> QED
    BY <1>4, <2>1 DEF EndStream, Step, SInv, TypeOK, FinalVerified, InstalledIsVerified,
       RenamesWhatItHashed, Positions, OnePath, Pinned, Sound, Orderly
<1> QED BY <1>1, <1>2, <1>3, <1>4

\* Steps that write: to the temporary file, to the final path, to the binary.
LEMMA WritingStep ==
    ASSUME OneInstaller, SInv, NEW p \in Installers,
           OpenStreams(p) \/ WriteChunk(p) \/ RenameTemp(p) \/ BeginUnzip(p) \/ EndUnzip(p)
    PROVE  Sound' /\ Orderly
<1> USE CacheAssumption DEF OneInstaller
<1>1. CASE OpenStreams(p)
  <2>1. temp' = <<p, run[p]>> /\ temp' # NoFile /\ final = NoFile /\ got[p] = 0
    <3>1. temp = NoFile /\ final = NoFile /\ got[p] = 0 /\ run[p] \in 1 .. Runs
      BY <1>1 DEF OpenStreams, Step, SInv, Positions, Started, Awaits
    <3> QED BY <1>1, <3>1 DEF OpenStreams
  <2>2. /\ pc' = [pc EXCEPT ![p] = "stream"] /\ fd' = [fd EXCEPT ![p] = temp']
        /\ UNCHANGED <<final, prover, run, got, source>>
    BY <1>1 DEF OpenStreams, Step
  <2> QED
    BY <2>1, <2>2 DEF SInv, TypeOK, FinalVerified, InstalledIsVerified, RenamesWhatItHashed,
       Positions, OnePath, Sound, Orderly
<1>2. CASE WriteChunk(p)
  <2>1. /\ pc[p] = "stream" /\ temp = fd[p] /\ temp \in Inodes /\ final = NoFile /\ temp # NoFile
        /\ got[p] \in Nat /\ got[p] < Chunks
    BY <1>2 DEF WriteChunk, SInv, TypeOK, Positions, RenamesWhatItHashed
  <2>2. /\ got'[p] = got[p] + 1
        /\ UNCHANGED <<final, temp, prover, pc, run, fd, source>>
    BY <1>2 DEF WriteChunk, SInv, TypeOK
  <2>3. \A k \in 1 .. got'[p] : content'[temp][k] = IF k = Chunks THEN source[p] ELSE "good"
    <3>1. content' = [content EXCEPT ![temp][got[p] + 1] = IF got[p] + 1 = Chunks THEN source[p] ELSE "good"]
      BY <1>2, <2>1 DEF WriteChunk
    <3>2. content[temp] \in [1 .. Chunks -> {"none", "good", "bad"}]
      BY <2>1 DEF SInv, TypeOK
    <3>3. \A k \in 1 .. Chunks : content'[temp][k] =
              IF k = got[p] + 1 THEN (IF k = Chunks THEN source[p] ELSE "good") ELSE content[temp][k]
      BY <2>1, <3>1, <3>2 DEF SInv, TypeOK
    <3>4. \A k \in 1 .. got[p] : content[temp][k] = IF k = Chunks THEN source[p] ELSE "good"
      BY <2>1 DEF SInv, Positions
    <3> QED BY <2>1, <2>2, <3>3, <3>4
  <2>4. Positions'
    BY <2>1, <2>2, <2>3 DEF SInv, Positions
  <2> QED
    BY <2>1, <2>2, <2>4 DEF SInv, FinalVerified, InstalledIsVerified, RenamesWhatItHashed,
       OnePath, Sound, Orderly
<1>3. CASE RenameTemp(p)
  BY <1>3 DEF RenameTemp, Step, SInv, TypeOK, FinalVerified, InstalledIsVerified,
     RenamesWhatItHashed, Positions, OnePath, Pinned, Sound, Orderly
<1>4. CASE BeginUnzip(p) \/ EndUnzip(p)
  BY <1>4 DEF BeginUnzip, EndUnzip, Step, SInv, TypeOK, FinalVerified, InstalledIsVerified,
     RenamesWhatItHashed, Positions, OnePath, Pinned, Sound, Orderly
<1> QED BY <1>1, <1>2, <1>3, <1>4

\* SInv is inductive, and every step treats the final path in order.
LEMMA SInvStep ==
    ASSUME OneInstaller, SInv, [Next]_vars
    PROVE  SInv' /\ Orderly
<1>1. TypeOK' /\ Started'
  BY TypeStep DEF SInv
<1>2. CASE UNCHANGED vars
  BY <1>1, <1>2 DEF vars, SInv, FinalVerified, InstalledIsVerified, RenamesWhatItHashed,
     Positions, OnePath, Pinned, Orderly
<1>3. CASE Next
  <2>1. Sound' /\ Orderly
    BY <1>3, LookingStep, RemovingStep, WritingStep DEF Next, Work
  <2> QED BY <1>1, <2>1 DEF SInv, Sound
<1> QED BY <1>2, <1>3

\* The machine as it is found, with or without an old file.
LEMMA SInvInit == Init => SInv
<1> SUFFICES ASSUME Init PROVE SInv
  OBVIOUS
<1>1. TypeOK
  BY CacheAssumption DEF Init, TypeOK, Inodes, Ended, Awaits
<1> QED
  BY <1>1 DEF Init, SInv, Started, Awaits, FinalVerified, InstalledIsVerified,
     RenamesWhatItHashed, Positions, OnePath

\* One installer after another keeps SInv through every failure and kill.
THEOREM SInvHolds == ASSUME OneInstaller PROVE Spec => []SInv
<1>1. SInv /\ [Next]_vars => SInv'
  BY OneInstaller, SInvStep
<1> QED BY <1>1, SInvInit, PTL DEF Spec

\* Without overlapping installers the final path only ever names verified
\* bytes, however often the installer is killed, fails and is run again.
THEOREM FinalIsVerified == ASSUME OneInstaller PROVE Spec => []FinalVerified
<1>1. Spec => []SInv
  BY OneInstaller, SInvHolds
<1>2. SInv => FinalVerified
  BY DEF SInv
<1> QED BY <1>1, <1>2, PTL

\* An installer that ended well has the verified archive and binary in place.
THEOREM InstalledVerified == ASSUME OneInstaller PROVE Spec => []InstalledIsVerified
<1>1. Spec => []SInv
  BY OneInstaller, SInvHolds
<1>2. SInv => InstalledIsVerified
  BY DEF SInv
<1> QED BY <1>1, <1>2, PTL

\* What is renamed is all of what was hashed.
THEOREM RenamesHashed == ASSUME OneInstaller PROVE Spec => []RenamesWhatItHashed
<1>1. Spec => []SInv
  BY OneInstaller, SInvHolds
<1>2. SInv => RenamesWhatItHashed
  BY DEF SInv
<1> QED BY <1>1, <1>2, PTL

\* The final path goes from nothing to verified and from unverified to
\* nothing, and its file is never written to.
THEOREM FinalOrderly == ASSUME OneInstaller PROVE Spec => FinalSteps
<1>1. Spec => []SInv
  BY OneInstaller, SInvHolds
<1>2. SInv /\ [Next]_vars =>
        [/\ final' # final =>
              \/ final = NoFile /\ Pinned(final)'
              \/ final' = NoFile /\ ~Pinned(final)
         /\ final # NoFile => content'[final] = content[final]]_vars
  BY OneInstaller, SInvStep DEF Orderly
<1> QED BY <1>1, <1>2, PTL DEF Spec, FinalSteps
=============================================================================
