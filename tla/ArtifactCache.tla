---------------------------- MODULE ArtifactCache ----------------------------
(***************************************************************************)
(* Fetching a pinned artifact: downloadAndVerify of                        *)
(* packages/zkqes-cli/src/circuit/download.ts as its caller runPostinstall *)
(* uses it, with the extraction of the archive that follows.               *)
(*                                                                         *)
(* An installer is a process; it can die at any await and be run again,    *)
(* and nothing keeps two of them from running at once on the same paths.   *)
(* Each file system call is a step.  A path names an inode or nothing, and *)
(* an open file follows its inode when the path is renamed or removed.     *)
(***************************************************************************)
EXTENDS Naturals

CONSTANTS
    Installers,
    Runs,           \* bound: how often each installer may be started
    Chunks,         \* the artifact arrives in this many chunks
    NoFile, Stale   \* no inode; the inode of a file that was there before

ASSUME CacheAssumption ==
    /\ Runs \in Nat \ {0} /\ Chunks \in Nat \ {0}
    /\ NoFile # Stale
    /\ {NoFile, Stale} \cap (Installers \X (1 .. Runs)) = {}

Inodes == (Installers \X (1 .. Runs)) \cup {Stale}

VARIABLES
    final, temp,    \* the inodes destinationPath and tempPath name, or NoFile
    content,        \* inode -> chunk -> what is there
    prover,         \* the extracted binary: "absent", "partial" or "good"
    pc,             \* installer -> the await it is at
    run,            \* installer -> how often it was started
    fd,             \* installer -> the inode its write stream has open
    got,            \* installer -> chunks received, hashed and written
    source          \* installer -> what this run's URL serves

vars == <<final, temp, content, prover, pc, run, fd, got, source>>

Awaits == {"stat", "hash", "restat", "rmFinal", "rmTemp", "open", "stream",
           "rename", "cleanup", "extract", "unzip"}
Ended == {"idle", "installed", "failed"}

TypeOK ==
    /\ final \in Inodes \cup {NoFile}
    /\ temp \in Inodes \cup {NoFile}
    /\ content \in [Inodes -> [1 .. Chunks -> {"none", "good", "bad"}]]
    /\ prover \in {"absent", "partial", "good"}
    /\ pc \in [Installers -> Awaits \cup Ended]
    /\ run \in [Installers -> 0 .. Runs]
    /\ fd \in [Installers -> Inodes \cup {NoFile}]
    /\ got \in [Installers -> 0 .. Chunks]
    /\ source \in [Installers -> {"good", "bad"}]

\* The pinned hash is that of the file with every chunk good.
Pinned(i) == \A k \in 1 .. Chunks : content[i][k] = "good"

Init ==
    /\ final \in {NoFile, Stale}
    /\ temp = NoFile
    /\ content = [i \in Inodes |-> [k \in 1 .. Chunks |-> IF i = Stale THEN "bad" ELSE "none"]]
    /\ prover \in {"absent", "partial"}
    /\ pc = [p \in Installers |-> "idle"]
    /\ run = [p \in Installers |-> 0]
    /\ fd = [p \in Installers |-> NoFile]
    /\ got = [p \in Installers |-> 0]
    /\ source = [p \in Installers |-> "good"]

Step(p, from, to) ==
    /\ pc[p] = from
    /\ pc' = [pc EXCEPT ![p] = to]

-----------------------------------------------------------------------------
\* npm runs the hook.  The server may send other bytes than the pinned ones.
Launch(p) ==
    /\ pc[p] \in Ended /\ run[p] < Runs
    /\ pc' = [pc EXCEPT ![p] = "stat"]
    /\ run' = [run EXCEPT ![p] = @ + 1]
    /\ got' = [got EXCEPT ![p] = 0]
    /\ fd' = [fd EXCEPT ![p] = NoFile]
    /\ \E s \in {"good", "bad"} : source' = [source EXCEPT ![p] = s]
    /\ UNCHANGED <<final, temp, content, prover>>

\* Variant: an existing file is not looked into.
StatFinalSkippingHash(p) ==
    /\ Step(p, "stat", "rmTemp")
    /\ UNCHANGED <<final, temp, content, prover, run, fd, got, source>>

StatFinal(p) ==
    /\ Step(p, "stat", IF final = NoFile THEN "rmTemp" ELSE "hash")
    /\ UNCHANGED <<final, temp, content, prover, run, fd, got, source>>

\* Variant: a file that is there is taken for the artifact.
HashFinalTrusting(p) ==
    /\ Step(p, "hash", "restat")
    /\ UNCHANGED <<final, temp, content, prover, run, fd, got, source>>

\* Variant: after a mismatch the file is looked at again, and not removed.
HashFinalLooping(p) ==
    /\ Step(p, "hash", IF final = NoFile THEN "failed"
                       ELSE IF Pinned(final) THEN "restat" ELSE "stat")
    /\ UNCHANGED <<final, temp, content, prover, run, fd, got, source>>

\* sha256OfFile; the file may be gone by now, and the error is not caught.
HashFinal(p) ==
    /\ Step(p, "hash", IF final = NoFile THEN "failed"
                       ELSE IF Pinned(final) THEN "restat" ELSE "rmFinal")
    /\ UNCHANGED <<final, temp, content, prover, run, fd, got, source>>

\* The stat for the size, before the short-circuit returns.
RestatFinal(p) ==
    /\ Step(p, "restat", IF final = NoFile THEN "failed" ELSE "extract")
    /\ UNCHANGED <<final, temp, content, prover, run, fd, got, source>>

RemoveFinal(p) ==
    /\ Step(p, "rmFinal", "rmTemp")
    /\ final' = NoFile
    /\ UNCHANGED <<temp, content, prover, run, fd, got, source>>

RemoveTemp(p) ==
    /\ Step(p, "rmTemp", "open")
    /\ temp' = NoFile
    /\ UNCHANGED <<final, content, prover, run, fd, got, source>>

\* The source answers, and createWriteStream opens the path with flag 'w': a
\* new inode, or the one that is there, truncated.
OpenStreams(p) ==
    LET i == IF temp = NoFile THEN <<p, run[p]>> ELSE temp
    IN  /\ Step(p, "open", "stream")
        /\ temp' = i
        /\ fd' = [fd EXCEPT ![p] = i]
        /\ content' = [content EXCEPT ![i] = [k \in 1 .. Chunks |-> "none"]]
        /\ UNCHANGED <<final, prover, run, got, source>>

\* Variant: one more chunk than the source has.
WriteChunkPastEnd(p) ==
    LET k == got[p] + 1
    IN  /\ pc[p] = "stream"
        /\ got' = [got EXCEPT ![p] = k]
        /\ content' = [content EXCEPT ![fd[p]][k] = IF k = Chunks THEN source[p] ELSE "good"]
        /\ UNCHANGED <<final, temp, prover, pc, run, fd, source>>

\* A chunk is hashed and written to the open file, wherever its path is now.
\* Only the last chunk tells a wrong source from the pinned one.
WriteChunk(p) ==
    LET k == got[p] + 1
    IN  /\ pc[p] = "stream" /\ got[p] < Chunks
        /\ got' = [got EXCEPT ![p] = k]
        /\ content' = [content EXCEPT ![fd[p]][k] = IF k = Chunks THEN source[p] ELSE "good"]
        /\ UNCHANGED <<final, temp, prover, pc, run, fd, source>>

\* Variant: the end of the source is taken for the end of the file.
EndStreamEarly(p) ==
    /\ got[p] >= Chunks - 1
    /\ Step(p, "stream", IF source[p] = "good" THEN "rename" ELSE "cleanup")
    /\ UNCHANGED <<final, temp, content, prover, run, fd, got, source>>

\* Variant: the digest is compared after the rename.
EndStreamUnchecked(p) ==
    /\ got[p] = Chunks
    /\ Step(p, "stream", "rename")
    /\ UNCHANGED <<final, temp, content, prover, run, fd, got, source>>

\* The digest of the bytes that passed through, not of the file.
EndStream(p) ==
    /\ got[p] = Chunks
    /\ Step(p, "stream", IF source[p] = "good" THEN "rename" ELSE "cleanup")
    /\ UNCHANGED <<final, temp, content, prover, run, fd, got, source>>

\* A file system call outside the try block fails; runPostinstall rethrows.
CallFails(p) ==
    /\ pc[p] \in {"hash", "restat", "rmFinal", "rmTemp"}
    /\ pc' = [pc EXCEPT ![p] = "failed"]
    /\ UNCHANGED <<final, temp, content, prover, run, fd, got, source>>

\* An HTTP error, an error of either stream, no space left, no rename.
DownloadFails(p) ==
    /\ pc[p] \in {"open", "stream", "rename"}
    /\ pc' = [pc EXCEPT ![p] = "cleanup"]
    /\ UNCHANGED <<final, temp, content, prover, run, fd, got, source>>

\* rename moves whatever tempPath names; without it, it throws.
RenameTemp(p) ==
    /\ Step(p, "rename", IF temp = NoFile THEN "cleanup" ELSE "extract")
    /\ final' = IF temp = NoFile THEN final ELSE temp
    /\ temp' = NoFile
    /\ UNCHANGED <<content, prover, run, fd, got, source>>

\* The catch block of a failed download: a best-effort rm.
CatchRemoveTemp(p) ==
    /\ Step(p, "cleanup", "failed")
    /\ temp' \in {temp, NoFile}
    /\ UNCHANGED <<final, content, prover, run, fd, got, source>>

\* unzip -o replaces the binary in place.
BeginUnzip(p) ==
    /\ Step(p, "extract", IF final = NoFile THEN "failed" ELSE "unzip")
    /\ prover' = IF final = NoFile THEN prover ELSE "partial"
    /\ UNCHANGED <<final, temp, content, run, fd, got, source>>

EndUnzip(p) ==
    /\ \/ /\ final # NoFile /\ Pinned(final)
          /\ Step(p, "unzip", "installed")
          /\ prover' = "good"
       \/ /\ Step(p, "unzip", "failed")
          /\ UNCHANGED prover
    /\ UNCHANGED <<final, temp, content, run, fd, got, source>>

\* The process is killed at an await.
Crash(p) ==
    /\ pc[p] \in Awaits
    /\ pc' = [pc EXCEPT ![p] = "idle"]
    /\ UNCHANGED <<final, temp, content, prover, run, fd, got, source>>

Work(p) ==
    \/ StatFinal(p) \/ HashFinal(p) \/ RestatFinal(p) \/ RemoveFinal(p) \/ RemoveTemp(p)
    \/ OpenStreams(p) \/ WriteChunk(p) \/ EndStream(p) \/ CallFails(p) \/ DownloadFails(p)
    \/ RenameTemp(p) \/ CatchRemoveTemp(p) \/ BeginUnzip(p) \/ EndUnzip(p)

Next == \E p \in Installers : Launch(p) \/ Work(p) \/ Crash(p)

\* Every await ends: a file system call returns, a stream ends or fails.
Spec == Init /\ [][Next]_vars /\ \A p \in Installers : WF_vars(Work(p))

-----------------------------------------------------------------------------
(***************************************************************************)
(* Properties                                                              *)
(***************************************************************************)

\* What the header of download.ts says: the final path only ever names
\* verified bytes, whatever was interrupted, the file from before aside.
FinalVerified == final \notin {NoFile, Stale} => Pinned(final)

\* An installer past its download has the verified archive in place, and one
\* that ended well has left the verified prover (runPostinstall).
InstalledIsVerified ==
    \A p \in Installers :
        /\ pc[p] \in {"extract", "unzip", "installed"} => final # NoFile /\ Pinned(final)
        /\ pc[p] = "installed" => prover = "good"

\* While a download streams, tempPath names the file it writes, and what it
\* is about to rename is all of what it hashed: a temporary file left by a
\* crash or a failed cleanup never gets into a later run (the wipe of
\* tempPath, the wait for the end of the write stream).
RenamesWhatItHashed ==
    \A p \in Installers :
        /\ pc[p] \in {"stream", "rename"} => temp = fd[p]
        /\ pc[p] = "rename" => Pinned(temp)

\* The final path changes only from nothing to the verified file or from an
\* unverified file to nothing, and what it names is never written to.
FinalSteps ==
    [][/\ final' # final =>
             \/ final = NoFile /\ Pinned(final)'
             \/ final' = NoFile /\ ~Pinned(final)
       /\ final # NoFile => content'[final] = content[final]]_vars

\* An installer that is not killed comes to an end.
InstallerEnds == \A p \in Installers : pc[p] \in Awaits ~> pc[p] \in Ended
=============================================================================
