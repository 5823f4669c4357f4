------------------------------ MODULE Download ------------------------------
(***************************************************************************)
(* The download manager of Kayon (src-tauri/src/download/mod.rs) with the  *)
(* HTTP handlers that call it and the startup pass that re-drives what a   *)
(* previous process left behind (src-tauri/src/lib.rs).                    *)
(*                                                                         *)
(* Every handler and every drive runs on the multi-threaded tokio runtime. *)
(* What they share is: the `downloads` table (one SQL statement is         *)
(* atomic), the in-memory `stop` map behind a mutex, one async lock per    *)
(* download id, and the files of the library directory.  A step of the     *)
(* model ends wherever another thread may come between: at a statement, at *)
(* an await, at the release of the stop mutex.                             *)
(*                                                                         *)
(* A file is abstracted to how many chunks it holds and whether those      *)
(* chunks are a prefix of the pinned model: nothing else of its bytes can  *)
(* be told apart by its length and its SHA-256.  What is no prefix is told *)
(* apart by who is to blame: the origin, or the drives of this program.    *)
(***************************************************************************)
EXTENDS Naturals

CONSTANTS
    Ids,          \* download ids (a fresh UUID per accepted start)
    Paths,        \* target paths of the library directory
    PathOf,       \* the target each id is started for
    Tasks,        \* request handlers and the drives they spawn
    Total,        \* chunks of the pinned file: the catalog-signed size
    OriginData,   \* what the origin may serve: {"pinned"}, or "other" bytes as well
    MaxCrashes    \* bound on the number of times the process dies

ASSUME DownloadAssumption ==
    /\ PathOf \in [Ids -> Paths]
    /\ Total \in Nat \ {0}
    /\ OriginData \subseteq {"pinned", "other"}
    /\ MaxCrashes \in Nat
    /\ "free" \notin Tasks /\ "noid" \notin Ids

VARIABLES
    \* persistent: the database and the library directory
    row,          \* the status column of `downloads`, "none" before the insert
    file,         \* the file at each target path
    installed,    \* the paths with a row in `installed_models`
    \* in memory, shared
    stop,         \* the stop map: "none", "paused" or "cancelled"
    pausing,      \* the ids whose pause holds the stop mutex between its read and its writes
    lock,         \* drive_locks: the task that holds the id's lock, or Free
    \* in memory, of each task
    pc,           \* where it is
    job,          \* the download it works for
    received,     \* total_received
    handle,       \* how the target is open
    \* the process
    booted,       \* the startup pass has listed the rows to re-drive
    crashes       \* how often the process has died

disk    == <<row, file, installed>>
stops   == <<stop, pausing>>
locals  == <<job, received, handle>>
process == <<booted, crashes>>
vars    == <<disk, stops, lock, pc, locals, process>>

Free == "free"
NoId == "noid"

Status == {"active", "paused", "completed", "failed", "cancelled", "quarantined"}
Live   == {"active"}                    \* Active or Queued: no code path writes Queued
InProgress == Live \cup {"paused"}      \* the statuses that own their target

StopReason == {"none", "paused", "cancelled"}

Request  == {"insert", "activate", "wait", "waitResume"}
Transfer == {"send", "restart", "stream", "report", "reportWrite"}
Verify   == {"check1", "hash", "quarantine", "quarantined", "check2"}
Finish   == {"complete", "install"}
Stopped  == {"sawPaused", "sawCancelled"}
Holding  == {"open", "setError"} \cup Stopped \cup Transfer \cup Verify \cup Finish
AfterErr == {"errRead", "errWrite"}
PC       == {"idle"} \cup Request \cup Holding \cup AfterErr

\* pinned: a prefix of the pinned file; other: chunks in their order, but the origin
\* served other bytes; torn: some chunk is not at its place.
File   == [len : Nat, data : {"absent", "pinned", "other", "torn"}]
Absent == [len |-> 0, data |-> "absent"]
Empty  == [len |-> 0, data |-> "pinned"]
Whole  == [len |-> Total, data |-> "pinned"]

Path(t) == PathOf[job[t]]

----------------------------------------------------------------------------
TypeOK ==
    /\ row \in [Ids -> Status \cup {"none"}]
    /\ file \in [Paths -> File]
    /\ installed \in SUBSET Paths
    /\ stop \in [Ids -> StopReason]
    /\ pausing \in SUBSET Ids
    /\ lock \in [Ids -> Tasks \cup {Free}]
    /\ pc \in [Tasks -> PC]
    /\ job \in [Tasks -> Ids \cup {NoId}]
    /\ \A t \in Tasks : pc[t] # "idle" => job[t] \in Ids
    /\ received \in [Tasks -> Nat]
    /\ handle \in [Tasks -> {"none", "append", "write", "lost"}]
    /\ booted \in BOOLEAN
    /\ crashes \in 0 .. MaxCrashes

Init ==
    /\ row = [i \in Ids |-> "none"]
    /\ file = [p \in Paths |-> Absent]
    /\ installed = {}
    /\ stop = [i \in Ids |-> "none"]
    /\ pausing = {}
    /\ lock = [i \in Ids |-> Free]
    /\ pc = [t \in Tasks |-> "idle"]
    /\ job = [t \in Tasks |-> NoId]
    /\ received = [t \in Tasks |-> 0]
    /\ handle = [t \in Tasks |-> "none"]
    /\ booted = FALSE
    /\ crashes = 0

----------------------------------------------------------------------------
(* Steps several actions share. *)

Move(t, from, to) == pc[t] = from /\ pc' = [pc EXCEPT ![t] = to]

SetRow(i, s) == row' = [row EXCEPT ![i] = s]

\* The stop mutex is free: a thread may look at the stop map.
StopFree == pausing = {}

\* The task ends; its future is dropped with everything it holds.
End(t) ==
    /\ pc' = [pc EXCEPT ![t] = "idle"]
    /\ job' = [job EXCEPT ![t] = NoId]

CloseFile(t) ==
    /\ received' = [received EXCEPT ![t] = 0]
    /\ handle' = [handle EXCEPT ![t] = "none"]

Unlock(t) == lock' = [lock EXCEPT ![job[t]] = Free]

\* resume_download returns Ok, and drive() with it.
Return(t) == End(t) /\ CloseFile(t) /\ Unlock(t)

\* resume_download returns Err: drive() goes on without the lock and the file.
ReturnErr(t) ==
    /\ pc' = [pc EXCEPT ![t] = "errRead"]
    /\ CloseFile(t)
    /\ Unlock(t)
    /\ UNCHANGED job

\* What a task that has read a stop reason goes on to do.
Saw(reason) == IF reason = "paused" THEN "sawPaused" ELSE "sawCancelled"

\* One of the cooperative stop checks: on a hit the drive goes to write the reason back.
StopCheck(t, from, to) ==
    /\ StopFree
    /\ Move(t, from, IF stop[job[t]] = "none" THEN to ELSE Saw(stop[job[t]]))

\* Mutant: off by one, a file of exactly the signed size is discarded too.
OversizedOrWhole(p) == file[p].len >= Total

\* A file longer than the signed size is no partial download of it.
Oversized(p) == file[p].len > Total

\* The file is unlinked: handles open on it write to no path any more.
LoseHandles(p) ==
    [s \in Tasks |-> IF handle[s] # "none" /\ Path(s) = p THEN "lost" ELSE handle[s]]

DropOversized(p) ==
    IF Oversized(p) THEN /\ file' = [file EXCEPT ![p] = Absent]
                         /\ handle' = LoseHandles(p)
                    ELSE UNCHANGED <<file, handle>>

----------------------------------------------------------------------------
(* POST /api/downloads/start: the check for an in-progress row and the      *)
(* insert are two statements.                                              *)

StartCheck(t, i) ==
    /\ row[i] = "none"
    /\ \A s \in Tasks : job[s] # i
    /\ \A j \in Ids : PathOf[j] = PathOf[i] => row[j] \notin InProgress
    /\ Move(t, "idle", "insert")
    /\ job' = [job EXCEPT ![t] = i]
    /\ UNCHANGED <<disk, stops, lock, received, handle, process>>

StartInsert(t) ==
    /\ pc[t] = "insert"
    /\ DropOversized(Path(t))
    /\ \/ SetRow(job[t], "active") /\ Move(t, "insert", "wait") /\ UNCHANGED job
       \/ End(t) /\ UNCHANGED row                      \* not enough free disk
    /\ UNCHANGED <<installed, stops, lock, received, process>>

(* POST /api/downloads/resume: reads the row, then sets it active and       *)
(* spawns an explicit drive.                                               *)

ResumeRead(t, i) ==
    /\ row[i] \in {"paused", "failed"}
    /\ Move(t, "idle", "activate")
    /\ job' = [job EXCEPT ![t] = i]
    /\ UNCHANGED <<disk, stops, lock, received, handle, process>>

ResumeSet(t) ==
    /\ Move(t, "activate", "waitResume")
    /\ SetRow(job[t], "active")
    /\ UNCHANGED <<file, installed, stops, lock, locals, process>>

(* POST /api/downloads/cancel: both writes under the stop mutex. *)

Cancel(i) ==
    /\ StopFree
    /\ row[i] # "none"
    /\ stop' = [stop EXCEPT ![i] = "cancelled"]
    /\ SetRow(i, "cancelled")
    /\ UNCHANGED <<file, installed, pausing, lock, pc, locals, process>>

(* POST /api/downloads/pause: reads the row and then writes it, holding the *)
(* stop mutex, which the drive's own row writes do not take.               *)

PauseRead(i) ==
    /\ StopFree
    /\ stop[i] # "cancelled"
    /\ row[i] \in Live
    /\ pausing' = {i}
    /\ UNCHANGED <<disk, stop, lock, pc, locals, process>>

PauseWrite(i) ==
    /\ i \in pausing
    /\ stop' = [stop EXCEPT ![i] = "paused"]
    /\ SetRow(i, "paused")
    /\ pausing' = {}
    /\ UNCHANGED <<file, installed, lock, pc, locals, process>>

----------------------------------------------------------------------------
(* drive() and resume_download(). *)

\* Mutant: the drive does not wait for a prior drive of its id.
BeginUnlocked(t) ==
    /\ StopFree
    /\ Move(t, "wait", "open") \/ Move(t, "waitResume", "open")
    /\ stop' = [stop EXCEPT ![job[t]] = "none"]
    /\ UNCHANGED <<disk, pausing, lock, locals, process>>

\* Take the id's lock, then decide under the stop mutex: a cancel always wins,
\* a pause wins unless the user has pressed Resume; otherwise the stop is cleared.
Begin(t) ==
    LET reason == stop[job[t]] IN
    /\ pc[t] \in {"wait", "waitResume"}
    /\ lock[job[t]] = Free
    /\ lock' = [lock EXCEPT ![job[t]] = t]
    /\ StopFree
    /\ \/ /\ reason = "cancelled" \/ (reason = "paused" /\ pc[t] = "wait")
          /\ pc' = [pc EXCEPT ![t] = Saw(reason)]
          /\ UNCHANGED stop
       \/ /\ reason = "none" \/ (reason = "paused" /\ pc[t] = "waitResume")
          /\ pc' = [pc EXCEPT ![t] = "open"]
          /\ stop' = [stop EXCEPT ![job[t]] = "none"]
    /\ UNCHANGED <<disk, pausing, locals, process>>

\* Write the stop reason that was read back into the row, and return.
Reassert(t) ==
    /\ pc[t] \in Stopped
    /\ SetRow(job[t], IF pc[t] = "sawPaused" THEN "paused" ELSE "cancelled")
    /\ Return(t)
    /\ UNCHANGED <<file, installed, stops, process>>

\* The length on disk is the resume offset; an oversized file is discarded.
Open(t) ==
    /\ pc[t] = "open"
    /\ DropOversized(Path(t))
    /\ received' = [received EXCEPT ![t] = file'[Path(t)].len]
    /\ Move(t, "open", IF received'[t] < Total THEN "send" ELSE "check1")
    /\ UNCHANGED <<row, installed, stops, lock, job, process>>

\* The request fails or is refused.
SendFails(t) ==
    /\ Move(t, "send", "setError")
    /\ UNCHANGED <<disk, stops, lock, locals, process>>

\* The range is honoured, and the file opened for append.
SendAppends(t) ==
    /\ Move(t, "send", "stream")
    /\ handle' = [handle EXCEPT ![t] = "append"]
    /\ file' = IF file[Path(t)] = Absent THEN [file EXCEPT ![Path(t)] = Empty] ELSE file
    /\ UNCHANGED <<row, installed, stops, lock, job, received, process>>

\* The origin ignores the range and answers with the full body.  What is on disk may be
\* less than a chunk.
SendIgnoresRange(t) ==
    /\ pc[t] = "send" /\ file[Path(t)] # Absent
    /\ Move(t, "send", "restart")
    /\ UNCHANGED <<disk, stops, lock, locals, process>>

\* The row is reset and the file truncated.
RestartFromZero(t) ==
    /\ Move(t, "restart", "stream")
    /\ SetRow(job[t], "active")
    /\ file' = [file EXCEPT ![Path(t)] = Empty]
    /\ handle' = [handle EXCEPT ![t] = "write"]
    /\ received' = [received EXCEPT ![t] = 0]
    /\ UNCHANGED <<installed, stops, lock, job, process>>

\* The target cannot be opened, after the row was reset or without that.
OpenError(t) ==
    /\ \/ pc[t] = "send" /\ UNCHANGED row
       \/ pc[t] = "restart" /\ SetRow(job[t], "active")
    /\ ReturnErr(t)
    /\ UNCHANGED <<file, installed, stops, process>>

\* The file after a chunk is written at the handle's position.  A chunk is at its place
\* if it is the next one the origin was asked for: all chunks before it are there.
Written(t, chunk) ==
    LET f    == file[Path(t)]
        at   == received[t]
        fits == IF handle[t] = "append" THEN f.len = at ELSE at <= f.len
    IN IF handle[t] = "lost" THEN f
       ELSE [len  |-> IF handle[t] = "append" THEN f.len + 1
                      ELSE IF at < f.len THEN f.len ELSE at + 1,
             data |-> CASE f.data = "torn" \/ ~fits -> "torn"
                        [] f.data # "other" /\ chunk = "pinned" /\ fits -> "pinned"
                        [] OTHER -> "other"]

\* What the origin may serve at an offset: past the end no chunk is the pinned one.
Served(at) == IF at < Total THEN OriginData ELSE OriginData \ {"pinned"}

\* The stream yields something, and the user has said stop.
StreamStopped(t) ==
    /\ pc[t] = "stream" /\ stop[job[t]] # "none"
    /\ StopCheck(t, "stream", "stream")
    /\ UNCHANGED <<disk, stops, lock, locals, process>>

\* Mutant: the loop does not look at the stop map.
YieldsAnyway(t) == pc[t] = "stream" /\ StopFree

\* The stream yields something, and nobody has said stop.
Yields(t) == pc[t] = "stream" /\ stop[job[t]] = "none" /\ StopFree

\* A piece of a chunk arrives, and the progress is reported: nothing bounds how many
\* pieces a transfer takes.
Piece(t) ==
    /\ Yields(t) /\ received[t] < Total
    /\ Move(t, "stream", "report")
    /\ UNCHANGED <<disk, stops, lock, locals, process>>

\* A chunk is complete.  One past the signed size ends the transfer with an
\* error; otherwise, every 500 ms, the progress is reported.
Chunk(t) ==
    /\ Yields(t)
    /\ \E chunk \in Served(received[t]) :
          file' = [file EXCEPT ![Path(t)] = Written(t, chunk)]
    /\ received' = [received EXCEPT ![t] = @ + 1]
    /\ \E next \in IF received[t] < Total THEN {"stream", "report"} ELSE {"setError"} :
          Move(t, "stream", next)
    /\ UNCHANGED <<row, installed, stops, lock, job, handle, process>>

\* Mutant: a dropped connection is retried at once instead of failing.
ChunkErrorRetry(t) ==
    /\ Move(t, "stream", "open")
    /\ UNCHANGED <<disk, stops, lock, locals, process>>

\* The connection drops, or a write fails: Err, without a status write.
ChunkError(t) ==
    /\ Yields(t)
    /\ ReturnErr(t)
    /\ UNCHANGED <<disk, stops, process>>

\* The body ends, early or not.
StreamEnd(t) ==
    /\ Move(t, "stream", "check1")
    /\ CloseFile(t)
    /\ UNCHANGED <<disk, stops, lock, job, process>>

\* If no stop has been requested, the progress is written with the status active.
Report(t) ==
    /\ StopFree
    /\ Move(t, "report", IF stop[job[t]] = "none" THEN "reportWrite" ELSE "stream")
    /\ UNCHANGED <<disk, stops, lock, locals, process>>

ReportWrite(t) ==
    /\ Move(t, "reportWrite", "stream")
    /\ SetRow(job[t], "active")
    /\ UNCHANGED <<file, installed, stops, lock, locals, process>>

\* The check between the transfer and the hash.
CheckBeforeHash(t) ==
    /\ StopCheck(t, "check1", "hash")
    /\ UNCHANGED <<disk, stops, lock, locals, process>>

\* Mutant: a file of the signed size is taken for the pinned one.
HashLength(t) ==
    /\ Move(t, "hash", IF file[Path(t)].len = Total THEN "check2" ELSE "quarantine")
    /\ UNCHANGED <<disk, stops, lock, locals, process>>

\* Hash the whole file.
Hash(t) ==
    /\ pc[t] = "hash" /\ file[Path(t)] # Absent
    /\ Move(t, "hash", IF file[Path(t)] = Whole THEN "check2" ELSE "quarantine")
    /\ UNCHANGED <<disk, stops, lock, locals, process>>

\* The file is gone or cannot be read.
HashError(t) ==
    /\ pc[t] = "hash"
    /\ ReturnErr(t)
    /\ UNCHANGED <<disk, stops, process>>

QuarantineFile(t) ==
    /\ Move(t, "quarantine", "quarantined")
    /\ file' = [file EXCEPT ![Path(t)] = Absent]
    /\ handle' = LoseHandles(Path(t))
    /\ UNCHANGED <<row, installed, stops, lock, job, received, process>>

QuarantineRow(t) ==
    /\ pc[t] = "quarantined"
    /\ SetRow(job[t], "quarantined")
    /\ ReturnErr(t)
    /\ UNCHANGED <<file, installed, stops, process>>

\* Mutant: no stop check after the hash.
SkipCheckAfterHash(t) ==
    /\ Move(t, "check2", "complete")
    /\ UNCHANGED <<disk, stops, lock, locals, process>>

\* The check between the hash and the completion.
CheckAfterHash(t) ==
    /\ StopCheck(t, "check2", "complete")
    /\ UNCHANGED <<disk, stops, lock, locals, process>>

Complete(t) ==
    /\ Move(t, "complete", "install")
    /\ SetRow(job[t], "completed")
    /\ UNCHANGED <<file, installed, stops, lock, locals, process>>

Install(t) ==
    /\ pc[t] = "install"
    /\ installed' = installed \cup {Path(t)}
    /\ Return(t)
    /\ UNCHANGED <<row, file, stops, process>>

\* set_download_error inside resume_download, whatever the row says by now.
SetError(t) ==
    /\ pc[t] = "setError"
    /\ SetRow(job[t], "failed")
    /\ ReturnErr(t)
    /\ UNCHANGED <<file, installed, stops, process>>

\* Mutant: drive() only logs the error.
ErrorIgnored(t) ==
    /\ pc[t] = "errRead"
    /\ End(t)
    /\ UNCHANGED <<disk, stops, lock, received, handle, process>>

\* drive() on Err: read the row; if it is still active, flip it to failed.
ErrorRead(t) ==
    /\ pc[t] = "errRead"
    /\ \/ row[job[t]] \in Live /\ Move(t, "errRead", "errWrite") /\ UNCHANGED job
       \/ row[job[t]] \notin Live /\ End(t)
    /\ UNCHANGED <<disk, stops, lock, received, handle, process>>

ErrorWrite(t) ==
    /\ pc[t] = "errWrite"
    /\ SetRow(job[t], "failed")
    /\ End(t)
    /\ UNCHANGED <<file, installed, stops, lock, received, handle, process>>

----------------------------------------------------------------------------
\* The process dies: tasks, locks and the stop map go; rows and files stay.
Crash ==
    /\ crashes < MaxCrashes
    /\ crashes' = crashes + 1
    /\ booted' = FALSE
    /\ stop' = [i \in Ids |-> "none"]
    /\ pausing' = {}
    /\ lock' = [i \in Ids |-> Free]
    /\ pc' = [t \in Tasks |-> "idle"]
    /\ job' = [t \in Tasks |-> NoId]
    /\ received' = [t \in Tasks |-> 0]
    /\ handle' = [t \in Tasks |-> "none"]
    /\ UNCHANGED disk

\* The startup pass: one drive, not an explicit resume, per live row.  It runs
\* beside the API server, so requests may come before it.
Boot ==
    /\ ~booted
    /\ booted' = TRUE
    /\ \E driver \in [{i \in Ids : row[i] \in Live} -> {t \in Tasks : pc[t] = "idle"}] :
          LET drives(t, i) == i \in DOMAIN driver /\ driver[i] = t IN
          /\ \A i, j \in DOMAIN driver : driver[i] = driver[j] => i = j
          /\ pc' = [t \in Tasks |-> IF \E i \in Ids : drives(t, i) THEN "wait" ELSE pc[t]]
          /\ job' = [t \in Tasks |-> IF \E i \in Ids : drives(t, i)
                                     THEN CHOOSE i \in Ids : drives(t, i) ELSE job[t]]
    /\ UNCHANGED <<disk, stops, lock, received, handle, crashes>>

----------------------------------------------------------------------------
Begins(t) == Begin(t) \/ Reassert(t) \/ Open(t)

Transfers(t) ==
    \/ SendFails(t) \/ SendAppends(t) \/ SendIgnoresRange(t) \/ RestartFromZero(t)
    \/ OpenError(t) \/ StreamStopped(t) \/ Piece(t) \/ Chunk(t) \/ ChunkError(t)
    \/ StreamEnd(t)
    \/ Report(t) \/ ReportWrite(t)

Verifies(t) ==
    \/ CheckBeforeHash(t) \/ Hash(t) \/ HashError(t) \/ QuarantineFile(t)
    \/ QuarantineRow(t) \/ CheckAfterHash(t) \/ Complete(t) \/ Install(t)

Fails(t) == SetError(t) \/ ErrorRead(t) \/ ErrorWrite(t)

Drive(t) == Begins(t) \/ Transfers(t) \/ Verifies(t) \/ Fails(t)

Handler(t) == StartInsert(t) \/ ResumeSet(t)

User ==
    \/ \E t \in Tasks, i \in Ids : StartCheck(t, i) \/ ResumeRead(t, i)
    \/ \E i \in Ids : Cancel(i) \/ PauseRead(i)

Next ==
    \/ User
    \/ \E t \in Tasks : Handler(t) \/ Drive(t)
    \/ \E i \in Ids : PauseWrite(i)
    \/ Crash
    \/ Boot

Spec == Init /\ [][Next]_vars

(* Drives and handlers are spawned tasks; the peer delivers, closes or     *)
(* fails, so a stream always yields something, but it need never come to   *)
(* an end; tokio's mutex is first come first served, so a waiting drive is *)
(* not passed over for ever; the startup pass runs.  The user and crashes  *)
(* owe nothing.                                                            *)
Fairness ==
    /\ \A t \in Tasks : WF_vars(Handler(t)) /\ WF_vars(Drive(t)) /\ SF_vars(Begin(t))
    /\ \A i \in Ids : WF_vars(PauseWrite(i))
    /\ WF_vars(Boot)

FairSpec == Spec /\ Fairness

\* What a stream yields is not pieces of one chunk for ever.
Advance(t) == StreamStopped(t) \/ Chunk(t) \/ ChunkError(t) \/ StreamEnd(t)

TransfersEnd == \A t \in Tasks : SF_vars(Advance(t))

(* The use the per-id locks are built for: at no time do the drives of two  *)
(* ids hold the same target.  start_download means to keep it so by its     *)
(* check for a row in progress.                                            *)
Solo ==
    \A s, t \in Tasks :
        pc[s] \in Holding /\ pc[t] \in Holding /\ Path(s) = Path(t)
            => job[s] = job[t]

SoloSpec == Init /\ [][Next /\ Solo']_vars

----------------------------------------------------------------------------
(* Properties.                                                             *)

\* Every model in the library is, byte for byte, the pinned file: nothing
\* that happens to its path afterwards (a second start, a re-drive after a
\* crash, an origin that ignores ranges or serves other bytes) touches it.
InstalledVerified == \A p \in installed : file[p] = Whole

\* Every file is what the origin served, in its order: no order of pauses, resumes,
\* cancels, errors and crashes leaves a hole or a duplicated range.  This is what the
\* per-id lock and the reconciliation with the length on disk are for.
PrefixIntegrity == \A p \in Paths : file[p].data # "torn"

\* Once the startup pass has run, a live row has a task that will move it on:
\* no failure path of a drive leaves a download active for ever.
NoOrphanActive ==
    booted => \A i \in Ids : row[i] \in Live => \E t \in Tasks : job[t] = i

\* A cancel is final and a pause is lifted by an explicit resume alone, whatever
\* pauses, re-drives and progress reports come between; and a stop that lands before
\* a drive's last check bars that drive from completing.  Only a crash forgets it.
StopBarsCompletion ==
    [][\A i \in Ids : stop[i] # "none" /\ crashes' = crashes =>
          /\ stop[i] = "cancelled" => stop'[i] = "cancelled"
          /\ stop'[i] = "none" => \E t \in Tasks : job[t] = i /\ pc[t] = "waitResume"
          /\ \A t \in Tasks : job[t] = i /\ pc'[t] \in Finish => pc[t] \in Finish]_vars

Driving(i) == \E t \in Tasks : job[t] = i /\ pc[t] \in Transfer \cup Verify

\* A stop takes effect: unless a resume lifts it, the drive lets go, however long the
\* transfer would have gone on.
StopTakesEffect == \A i \in Ids : stop[i] # "none" ~> (stop[i] = "none" \/ ~Driving(i))

\* A download whose transfers come to an end does not stay active for ever.
ActiveSettles == TransfersEnd => \A i \in Ids : row[i] \in Live ~> row[i] \notin Live

\* The downloads and the library implement the verified shelf: the promise
\* VerifiedShelf states is kept by every step of every drive.
Shelf == INSTANCE VerifiedShelf WITH
            shelf <- installed, whole <- {p \in Paths : file[p] = Whole}

ImplementsShelf == Shelf!Spec
=============================================================================
