--------------------------- MODULE DownloadProofs ---------------------------
(***************************************************************************)
(* Theorems about Download, for every set of ids, targets and tasks, every *)
(* size and any number of crashes.                                         *)
(*                                                                         *)
(* The argument: the lock of an id is held by the task that is inside its  *)
(* drive (LockInv), so at most one task drives an id; under SoloSpec at    *)
(* most one id holds a target, so at most one task touches a file          *)
(* (SoleHolder).  Then a drive that has found the file whole keeps it so   *)
(* until it is installed, and a drive that transfers works on a path that  *)
(* is not in the library, because it saw a file that was not whole.        *)
(***************************************************************************)
EXTENDS Download, TLAPS

USE DownloadAssumption

----------------------------------------------------------------------------
(* Type correctness. *)

LEMMA TypeInit == Init => TypeOK
<1> SUFFICES ASSUME Init PROVE TypeOK
  OBVIOUS
<1>1. file \in [Paths -> File]
  BY DEF Init, File, Absent
<1>2. /\ pc \in [Tasks -> PC] /\ job \in [Tasks -> Ids \cup {NoId}]
      /\ \A t \in Tasks : pc[t] # "idle" => job[t] \in Ids
  BY DEF Init, PC
<1>3. row \in [Ids -> Status \cup {"none"}] /\ stop \in [Ids -> StopReason]
  BY DEF Init, StopReason
<1>4. lock \in [Ids -> Tasks \cup {Free}] /\ received \in [Tasks -> Nat]
  BY DEF Init
<1>5. handle \in [Tasks -> {"none", "append", "write", "lost"}]
  BY DEF Init
<1>6. installed \in SUBSET Paths /\ pausing \in SUBSET Ids /\ booted \in BOOLEAN
  BY Zenon DEF Init
<1>7. crashes \in 0 .. MaxCrashes
  BY DEF Init
<1> QED  BY <1>1, <1>2, <1>3, <1>4, <1>5, <1>6, <1>7 DEF TypeOK

\* Discarding an oversized file keeps the types, and leaves no oversized file.
LEMMA DropStep ==
    ASSUME TypeOK, NEW p \in Paths, DropOversized(p)
    PROVE  /\ file' \in [Paths -> File]
           /\ handle' \in [Tasks -> {"none", "append", "write", "lost"}]
           /\ file'[p].len <= Total
           /\ \A q \in Paths :
                 file'[q] = file[q] \/ (q = p /\ file[q] # Whole /\ file'[q] # Whole)
<1>1. CASE Oversized(p)
  <2>1. file' = [file EXCEPT ![p] = Absent] /\ handle' = LoseHandles(p)
    BY <1>1 DEF DropOversized
  <2>2. file' \in [Paths -> File] /\ file'[p].len <= Total
    BY <2>1 DEF TypeOK, File, Absent
  <2>3. file[p] # Whole /\ file'[p] # Whole
    BY <1>1, <2>1 DEF Oversized, TypeOK, Whole, Absent, File
  <2> QED  BY <2>1, <2>2, <2>3 DEF TypeOK, LoseHandles
<1>2. CASE ~Oversized(p)
  BY <1>2 DEF DropOversized, Oversized, TypeOK, File
<1> QED  BY <1>1, <1>2

\* No action changes the type of a variable.
LEMMA TypeStep == TypeOK /\ [Next]_vars => TypeOK'
<1> SUFFICES ASSUME TypeOK, [Next]_vars PROVE TypeOK'
  OBVIOUS
<1> USE DEF TypeOK, Move, SetRow, End, CloseFile, Unlock, Return, ReturnErr,
            disk, stops, locals, process
<1>1. ASSUME NEW t \in Tasks, NEW i \in Ids, StartCheck(t, i)
      PROVE  TypeOK'
  BY <1>1 DEF StartCheck, PC, Request
<1>2. ASSUME NEW t \in Tasks, NEW i \in Ids, ResumeRead(t, i)
      PROVE  TypeOK'
  BY <1>2 DEF ResumeRead, PC, Request
<1>3. ASSUME NEW i \in Ids, Cancel(i) \/ PauseRead(i) \/ PauseWrite(i)
      PROVE  TypeOK'
  BY <1>3 DEF Cancel, PauseRead, PauseWrite, Status, StopReason
<1>4. ASSUME NEW t \in Tasks, StartInsert(t)
      PROVE  TypeOK'
  <2>1. job[t] \in Ids /\ Path(t) \in Paths
    BY <1>4 DEF StartInsert, Path
  <2>2. file' \in [Paths -> File] /\ handle' \in [Tasks -> {"none", "append", "write", "lost"}]
    <3>1. DropOversized(Path(t))
      BY <1>4 DEF StartInsert
    <3> QED  BY <2>1, <3>1, DropStep
  <2>3. /\ pc' \in [Tasks -> PC] /\ job' \in [Tasks -> Ids \cup {NoId}]
        /\ \A s \in Tasks : pc'[s] # "idle" => job'[s] \in Ids
    BY <1>4, <2>1 DEF StartInsert, PC, Request
  <2>4. row' \in [Ids -> Status \cup {"none"}]
    BY <1>4, <2>1 DEF StartInsert, Status
  <2> QED  BY <1>4, <2>2, <2>3, <2>4 DEF StartInsert
<1>5. ASSUME NEW t \in Tasks, ResumeSet(t)
      PROVE  TypeOK'
  BY <1>5 DEF ResumeSet, PC, Request, Status
<1>6. ASSUME NEW t \in Tasks, Begins(t)
      PROVE  TypeOK'
  <2>1. CASE Begin(t)
    BY <2>1 DEF Begin, Saw, PC, Holding, Stopped, StopReason
  <2>2. CASE Reassert(t)
    BY <2>2 DEF Reassert, Stopped, PC, Status
  <2>3. CASE Open(t)
    BY <2>3 DEF Open, DropOversized, LoseHandles, Path, File, Absent, PC, Holding, Transfer, Verify
  <2> QED  BY <1>6, <2>1, <2>2, <2>3 DEF Begins
<1>7. ASSUME NEW t \in Tasks, Transfers(t)
      PROVE  TypeOK'
  <2> USE DEF PC, Holding, Transfer, Verify, Stopped, AfterErr
  <2>1. CASE SendFails(t) \/ SendIgnoresRange(t) \/ Piece(t) \/ Report(t)
    BY <2>1 DEF SendFails, SendIgnoresRange, Piece, Yields, Report
  <2>2. CASE SendAppends(t)
    BY <2>2 DEF SendAppends, File, Empty, Path
  <2>3. CASE RestartFromZero(t)
    BY <2>3 DEF RestartFromZero, File, Empty, Path, Status
  <2>4. CASE OpenError(t) \/ ChunkError(t)
    BY <2>4 DEF OpenError, ChunkError, Yields, Status
  <2>5. CASE StreamStopped(t)
    BY <2>5 DEF StreamStopped, StopCheck, Saw
  <2>6. CASE Chunk(t)
    BY <2>6 DEF Chunk, Yields, Written, File, Path
  <2>7. CASE StreamEnd(t)
    BY <2>7 DEF StreamEnd
  <2>8. CASE ReportWrite(t)
    BY <2>8 DEF ReportWrite, Status
  <2> QED  BY <1>7, <2>1, <2>2, <2>3, <2>4, <2>5, <2>6, <2>7, <2>8 DEF Transfers
<1>8. ASSUME NEW t \in Tasks, Verifies(t)
      PROVE  TypeOK'
  <2> USE DEF PC, Holding, Verify, Finish, Stopped, AfterErr
  <2>1. CASE CheckBeforeHash(t) \/ CheckAfterHash(t)
    BY <2>1 DEF CheckBeforeHash, CheckAfterHash, StopCheck, Saw
  <2>2. CASE Hash(t)
    BY <2>2 DEF Hash
  <2>3. CASE HashError(t)
    BY <2>3 DEF HashError
  <2>4. CASE QuarantineFile(t)
    BY <2>4 DEF QuarantineFile, LoseHandles, File, Absent, Path
  <2>5. CASE QuarantineRow(t)
    BY <2>5 DEF QuarantineRow, Status
  <2>6. CASE Complete(t)
    BY <2>6 DEF Complete, Status
  <2>7. CASE Install(t)
    BY <2>7 DEF Install, Path
  <2> QED  BY <1>8, <2>1, <2>2, <2>3, <2>4, <2>5, <2>6, <2>7 DEF Verifies
<1>9. ASSUME NEW t \in Tasks, Fails(t)
      PROVE  TypeOK'
  BY <1>9 DEF Fails, SetError, ErrorRead, ErrorWrite, PC, AfterErr, Status
<1>10. CASE Crash
  <2>1. /\ stop' \in [Ids -> StopReason] /\ lock' \in [Ids -> Tasks \cup {Free}]
        /\ pc' \in [Tasks -> PC] /\ job' \in [Tasks -> Ids \cup {NoId}]
        /\ \A s \in Tasks : pc'[s] # "idle" => job'[s] \in Ids
    BY <1>10 DEF Crash, PC, StopReason
  <2>2. received' \in [Tasks -> Nat] /\ crashes' \in 0 .. MaxCrashes
    BY <1>10 DEF Crash
  <2>3. /\ handle' \in [Tasks -> {"none", "append", "write", "lost"}]
        /\ pausing' \in SUBSET Ids
    BY <1>10 DEF Crash
  <2>4. booted' \in BOOLEAN
    BY <1>10, Zenon DEF Crash
  <2> QED  BY <1>10, <2>1, <2>2, <2>3, <2>4 DEF Crash
<1>11. CASE Boot
  <2>1. PICK driver \in [{i \in Ids : row[i] \in Live} -> {s \in Tasks : pc[s] = "idle"}] :
          LET drives(s, i) == i \in DOMAIN driver /\ driver[i] = s IN
          /\ pc' = [s \in Tasks |-> IF \E i \in Ids : drives(s, i) THEN "wait" ELSE pc[s]]
          /\ job' = [s \in Tasks |-> IF \E i \in Ids : drives(s, i)
                                      THEN CHOOSE i \in Ids : drives(s, i) ELSE job[s]]
    BY <1>11 DEF Boot
  <2>2. /\ pc' \in [Tasks -> PC] /\ job' \in [Tasks -> Ids \cup {NoId}]
        /\ \A s \in Tasks : pc'[s] # "idle" => job'[s] \in Ids
    BY <2>1 DEF PC, Request
  <2> QED  BY <1>11, <2>2 DEF Boot
<1>12. CASE UNCHANGED vars
  BY <1>12 DEF vars
<1> QED  BY <1>1, <1>2, <1>3, <1>4, <1>5, <1>6, <1>7, <1>8, <1>9, <1>10, <1>11, <1>12
         DEF Next, User, Handler, Drive

\* The variables keep their types in every behaviour.
THEOREM DownloadTyped == Spec => []TypeOK
BY TypeInit, TypeStep, PTL DEF Spec

----------------------------------------------------------------------------
(* One drive per id. *)

\* A task inside a drive holds the lock of its id.
LockInv == \A t \in Tasks : pc[t] \in Holding => lock[job[t]] = t

\* No other task is touched by a step of task t.
Alone(t) == \A s \in Tasks : s # t => pc'[s] = pc[s] /\ job'[s] = job[s]

LEMMA OutsideHolding ==
    Holding \cap ({"idle"} \cup Request \cup AfterErr) = {}
BY DEF Holding, Request, AfterErr, Transfer, Verify, Finish, Stopped

\* A step of t that leaves the locks alone and does not enter a drive.
LEMMA LockKept ==
    ASSUME TypeOK, LockInv, NEW t \in Tasks, Alone(t), lock' = lock,
           pc'[t] \in Holding => pc[t] \in Holding /\ job'[t] = job[t]
    PROVE  LockInv'
BY DEF LockInv, Alone

\* A step of t that leaves its drive and unlocks its id.
LEMMA LockFreed ==
    ASSUME TypeOK, LockInv, NEW t \in Tasks, Alone(t), pc[t] \in Holding,
           pc'[t] \notin Holding, Unlock(t)
    PROVE  LockInv'
BY OutsideHolding DEF LockInv, Alone, Unlock, TypeOK

LEMMA LockStep == TypeOK /\ LockInv /\ [Next]_vars => LockInv'
<1> SUFFICES ASSUME TypeOK, LockInv, [Next]_vars PROVE LockInv'
  OBVIOUS
<1> USE DEF Move, End, Return, ReturnErr, Alone
<1>1. ASSUME NEW t \in Tasks, NEW i \in Ids, StartCheck(t, i) \/ ResumeRead(t, i)
      PROVE  LockInv'
  <2>1. Alone(t) /\ lock' = lock /\ pc'[t] \in Request
    BY <1>1 DEF StartCheck, ResumeRead, TypeOK, Request
  <2> QED  BY <2>1, LockKept, OutsideHolding
<1>2. ASSUME NEW i \in Ids, Cancel(i) \/ PauseRead(i) \/ PauseWrite(i)
      PROVE  LockInv'
  BY <1>2 DEF Cancel, PauseRead, PauseWrite, locals, LockInv
<1>3. ASSUME NEW t \in Tasks, Handler(t)
      PROVE  LockInv'
  <2>1. Alone(t) /\ lock' = lock /\ pc'[t] \in {"idle"} \cup Request
    BY <1>3 DEF Handler, StartInsert, ResumeSet, TypeOK, Request, locals
  <2> QED  BY <2>1, LockKept, OutsideHolding
<1>4. ASSUME NEW t \in Tasks, Begins(t)
      PROVE  LockInv'
  <2>1. CASE Begin(t)
    BY <2>1 DEF Begin, LockInv, TypeOK, locals, Free
  <2>2. CASE Reassert(t)
    <3>1. Alone(t) /\ pc[t] \in Holding /\ pc'[t] = "idle" /\ Unlock(t)
      BY <2>2 DEF Reassert, TypeOK, Holding
    <3> QED  BY <3>1, LockFreed, OutsideHolding
  <2>3. CASE Open(t)
    <3>1. Alone(t) /\ pc[t] \in Holding /\ job'[t] = job[t] /\ lock' = lock
      BY <2>3 DEF Open, TypeOK, Holding
    <3> QED  BY <3>1, LockKept
  <2> QED  BY <1>4, <2>1, <2>2, <2>3 DEF Begins
<1>5. ASSUME NEW t \in Tasks, Transfers(t)
      PROVE  LockInv'
  <2>0. pc[t] \in Holding
    BY <1>5 DEF Transfers, SendFails, SendAppends, SendIgnoresRange, RestartFromZero, OpenError,
                StreamStopped, StopCheck, Piece, Yields, Chunk, ChunkError, StreamEnd, Report,
                ReportWrite, Holding, Transfer
  <2>1. CASE OpenError(t) \/ ChunkError(t)
    <3>1. Alone(t) /\ pc'[t] = "errRead" /\ Unlock(t)
      BY <2>1 DEF OpenError, ChunkError, Yields, TypeOK
    <3> QED  BY <2>0, <3>1, LockFreed, OutsideHolding DEF AfterErr
  <2>2. CASE ~(OpenError(t) \/ ChunkError(t))
    <3>1. Alone(t) /\ job'[t] = job[t] /\ lock' = lock
      BY <1>5, <2>2 DEF Transfers, SendFails, SendAppends, SendIgnoresRange, RestartFromZero,
                StreamStopped, StopCheck, Piece, Yields, Chunk, StreamEnd, Report, ReportWrite,
                TypeOK, locals
    <3> QED  BY <2>0, <3>1, LockKept
  <2> QED  BY <2>1, <2>2
<1>6. ASSUME NEW t \in Tasks, Verifies(t)
      PROVE  LockInv'
  <2>0. pc[t] \in Holding
    BY <1>6 DEF Verifies, CheckBeforeHash, Hash, HashError, QuarantineFile, QuarantineRow,
                CheckAfterHash, StopCheck, Complete, Install, Holding, Verify, Finish
  <2>1. CASE HashError(t) \/ QuarantineRow(t) \/ Install(t)
    <3>1. Alone(t) /\ pc'[t] \in {"idle", "errRead"} /\ Unlock(t)
      BY <2>1 DEF HashError, QuarantineRow, Install, TypeOK
    <3> QED  BY <2>0, <3>1, LockFreed, OutsideHolding DEF AfterErr
  <2>2. CASE ~(HashError(t) \/ QuarantineRow(t) \/ Install(t))
    <3>1. Alone(t) /\ job'[t] = job[t] /\ lock' = lock
      BY <1>6, <2>2 DEF Verifies, CheckBeforeHash, Hash, QuarantineFile, CheckAfterHash,
                StopCheck, Complete, TypeOK, locals
    <3> QED  BY <2>0, <3>1, LockKept
  <2> QED  BY <2>1, <2>2
<1>7. ASSUME NEW t \in Tasks, Fails(t)
      PROVE  LockInv'
  <2>1. CASE SetError(t)
    <3>1. Alone(t) /\ pc[t] \in Holding /\ pc'[t] = "errRead" /\ Unlock(t)
      BY <2>1 DEF SetError, TypeOK, Holding
    <3> QED  BY <3>1, LockFreed, OutsideHolding DEF AfterErr
  <2>2. CASE ErrorRead(t) \/ ErrorWrite(t)
    <3>1. Alone(t) /\ lock' = lock /\ pc'[t] \in {"idle"} \cup AfterErr
      BY <2>2 DEF ErrorRead, ErrorWrite, TypeOK, AfterErr
    <3> QED  BY <3>1, LockKept, OutsideHolding
  <2> QED  BY <1>7, <2>1, <2>2 DEF Fails
<1>8. CASE Crash
  BY <1>8, OutsideHolding DEF Crash, LockInv
<1>9. CASE Boot
  <2>1. \A s \in Tasks : \/ pc'[s] = "wait"
                         \/ pc'[s] = pc[s] /\ job'[s] = job[s]
    BY <1>9 DEF Boot
  <2>2. lock' = lock
    BY <1>9 DEF Boot
  <2> QED  BY <2>1, <2>2, OutsideHolding DEF LockInv, Request
<1>10. CASE UNCHANGED vars
  BY <1>10 DEF vars, locals, LockInv
<1> QED  BY <1>1, <1>2, <1>3, <1>4, <1>5, <1>6, <1>7, <1>8, <1>9, <1>10 DEF Next, User, Drive

\* A resume "can't spawn a second writer while the paused task is still blocked in
\* the stream": at most one task is inside the drive of an id.
OneDrive == \A s, t \in Tasks :
    pc[s] \in Holding /\ pc[t] \in Holding /\ job[s] = job[t] => s = t

THEOREM OneDrivePerId == Spec => []OneDrive
<1>1. Init => LockInv
  BY OutsideHolding DEF Init, LockInv
<1>2. LockInv => OneDrive
  BY DEF LockInv, OneDrive
<1> QED  BY <1>1, <1>2, LockStep, TypeInit, TypeStep, PTL DEF Spec

----------------------------------------------------------------------------
(* What is in the library stays as it was verified. *)

\* The drive has found the file whole.
Verified == {"check2", "complete", "install"}

\* The drive may change the file.
Changing == Transfer \cup {"quarantine"}

VerifiedWhole == \A t \in Tasks : pc[t] \in Verified => file[Path(t)] = Whole

ChangingUnshelved == \A t \in Tasks : pc[t] \in Changing => Path(t) \notin installed

IInv == /\ TypeOK /\ LockInv /\ Solo
        /\ InstalledVerified /\ VerifiedWhole /\ ChangingUnshelved

\* What a step of t may do to the files and to the library.
Framed(t) ==
    /\ Alone(t)
    /\ \A q \in Paths :
          \/ file'[q] = file[q]
          \/ q = Path(t) /\ (pc[t] \in Changing \/ (file[q] # Whole /\ file'[q] # Whole))
    /\ \/ installed' = installed
       \/ pc[t] = "install" /\ installed' = installed \cup {Path(t)}
    /\ pc'[t] \in Verified =>
          job'[t] = job[t] /\ file' = file /\ (pc[t] \in Verified \/ file[Path(t)] = Whole)
    /\ pc'[t] \in Changing =>
          /\ job'[t] = job[t] /\ installed' = installed
          /\ pc[t] \in Changing \/ file[Path(t)] # Whole

\* Where tasks may verify, change or install, they hold the target alone.
LEMMA SoleHolder ==
    ASSUME LockInv, Solo, NEW s \in Tasks, NEW t \in Tasks,
           pc[s] \in Holding, pc[t] \in Holding, Path(s) = Path(t)
    PROVE  s = t
BY DEF LockInv, Solo

LEMMA InsideHolding == Changing \cup Verified \subseteq Holding /\ Changing \cap Verified = {}
BY DEF Changing, Verified, Holding, Transfer, Verify, Finish

\* A framed step keeps every conjunct of the invariant that it can disturb.
LEMMA FramedKeeps ==
    ASSUME IInv, TypeOK', NEW t \in Tasks, Framed(t)
    PROVE  (InstalledVerified /\ VerifiedWhole /\ ChangingUnshelved)'
<1> USE DEF IInv
<1>1. ASSUME NEW p \in installed' PROVE file'[p] = Whole
  <2>1. p \in Paths
    BY <1>1 DEF TypeOK
  <2>2. CASE p \in installed
    <3>1. file[p] = Whole
      BY <2>2 DEF InstalledVerified
    <3>2. CASE p = Path(t)
      BY <2>1, <2>2, <3>1, <3>2 DEF Framed, ChangingUnshelved
    <3>3. CASE p # Path(t)
      BY <2>1, <3>1, <3>3 DEF Framed
    <3> QED  BY <3>2, <3>3
  <2>3. CASE p \notin installed
    <3>1. pc[t] = "install" /\ p = Path(t)
      BY <1>1, <2>3 DEF Framed
    <3>2. file[p] = Whole /\ pc[t] \notin Changing
      BY <3>1 DEF VerifiedWhole, Verified, Changing, Transfer
    <3> QED  BY <2>1, <3>2 DEF Framed
  <2> QED  BY <2>2, <2>3
<1>2. ASSUME NEW s \in Tasks, pc'[s] \in Verified PROVE file'[PathOf[job'[s]]] = Whole
  <2>1. CASE s = t
    BY <1>2, <2>1 DEF Framed, VerifiedWhole, Path
  <2>2. CASE s # t
    <3>1. pc[s] \in Verified /\ job'[s] = job[s] /\ Path(s) \in Paths
      BY <1>2, <2>2 DEF Framed, Alone, TypeOK, Path, Verified
    <3>2. file[Path(s)] = Whole
      BY <3>1 DEF VerifiedWhole
    <3>3. ~(Path(s) = Path(t) /\ pc[t] \in Changing)
      BY <2>2, <3>1, SoleHolder, InsideHolding
    <3>4. file'[Path(s)] = file[Path(s)]
      BY <3>1, <3>2, <3>3 DEF Framed
    <3> QED  BY <3>1, <3>2, <3>4 DEF Path
  <2> QED  BY <2>1, <2>2
<1>3. ASSUME NEW s \in Tasks, pc'[s] \in Changing PROVE PathOf[job'[s]] \notin installed'
  <2>1. CASE s = t
    <3>1. job'[t] = job[t] /\ installed' = installed
      BY <1>3, <2>1 DEF Framed
    <3>2. Path(t) \notin installed
      BY <1>3, <2>1 DEF Framed, ChangingUnshelved, InstalledVerified
    <3> QED  BY <2>1, <3>1, <3>2 DEF Path
  <2>2. CASE s # t
    <3>1. pc[s] \in Changing /\ job'[s] = job[s]
      BY <1>3, <2>2 DEF Framed, Alone
    <3>2. Path(s) \notin installed
      BY <3>1 DEF ChangingUnshelved
    <3>3. ~(Path(s) = Path(t) /\ pc[t] = "install")
      BY <2>2, <3>1, SoleHolder, InsideHolding DEF Verified
    <3> QED  BY <3>1, <3>2, <3>3 DEF Framed, Path
  <2> QED  BY <2>1, <2>2
<1> QED  BY <1>1, <1>2, <1>3 DEF InstalledVerified, VerifiedWhole, ChangingUnshelved, Path

\* Every step of a drive is framed.
LEMMA DriveFramed == ASSUME TypeOK, NEW t \in Tasks, Drive(t) PROVE Framed(t)
<1> USE DEF Move, End, Return, ReturnErr, CloseFile, Alone, TypeOK, disk, locals, stops, process
<1>0. pc[t] # "idle" => job[t] \in Ids /\ Path(t) \in Paths
  BY DEF Path
<1>1. CASE Begins(t)
  <2>1. CASE Begin(t) \/ Reassert(t)
    BY <2>1 DEF Begin, Reassert, Framed, Saw, Verified, Changing, Transfer, Stopped
  <2>2. CASE Open(t)
    <3>1. DropOversized(Path(t)) /\ Path(t) \in Paths /\ installed' = installed
      BY <2>2, <1>0 DEF Open
    <3>2. Alone(t) /\ pc'[t] \in {"send", "check1"} /\ job'[t] = job[t]
      BY <2>2 DEF Open
    <3>3. \A q \in Paths :
             file'[q] = file[q] \/ (q = Path(t) /\ file[q] # Whole /\ file'[q] # Whole)
      BY <3>1, DropStep
    <3>4. pc'[t] = "send" => file[Path(t)] # Whole
      <4>1. pc'[t] = "send" => file'[Path(t)].len < Total
        BY <2>2, <3>1 DEF Open
      <4>2. file'[Path(t)] = Whole => file'[Path(t)].len = Total
        BY DEF Whole
      <4> QED  BY <3>1, <3>3, <4>1, <4>2
    <3> QED  BY <3>1, <3>2, <3>3, <3>4 DEF Framed, Verified, Changing, Transfer
  <2> QED  BY <1>1, <2>1, <2>2 DEF Begins
<1>2. CASE Transfers(t)
  <2>0. pc[t] \in Changing
    BY <1>2 DEF Transfers, SendFails, SendAppends, SendIgnoresRange, RestartFromZero, OpenError,
                StreamStopped, StopCheck, Piece, Yields, Chunk, ChunkError, StreamEnd, Report,
                ReportWrite, Changing, Transfer
  <2>1. Alone(t) /\ installed' = installed
    BY <1>2 DEF Transfers, SendFails, SendAppends, SendIgnoresRange, RestartFromZero, OpenError,
                StreamStopped, StopCheck, Piece, Yields, Chunk, ChunkError, StreamEnd, Report,
                ReportWrite
  <2>2. \A q \in Paths : file'[q] = file[q] \/ q = Path(t)
    BY <1>2 DEF Transfers, SendFails, SendAppends, SendIgnoresRange, RestartFromZero, OpenError,
                StreamStopped, StopCheck, Piece, Yields, Chunk, ChunkError, StreamEnd, Report,
                ReportWrite
  <2>3. pc'[t] \notin Verified /\ (pc'[t] \in Changing => job'[t] = job[t])
    BY <1>2 DEF Transfers, SendFails, SendAppends, SendIgnoresRange, RestartFromZero, OpenError,
                StreamStopped, StopCheck, Saw, Piece, Yields, Chunk, ChunkError, StreamEnd,
                Report, ReportWrite, Changing, Transfer, Verified
  <2> QED  BY <2>0, <2>1, <2>2, <2>3 DEF Framed
<1>3. CASE Verifies(t)
  <2> USE DEF Framed, Verified, Changing, Transfer
  <2>1. CASE CheckBeforeHash(t) \/ CheckAfterHash(t)
    BY <2>1 DEF CheckBeforeHash, CheckAfterHash, StopCheck, Saw
  <2>2. CASE Hash(t)
    BY <2>2 DEF Hash
  <2>3. CASE HashError(t) \/ QuarantineRow(t)
    BY <2>3 DEF HashError, QuarantineRow
  <2>4. CASE QuarantineFile(t)
    BY <2>4 DEF QuarantineFile
  <2>5. CASE Complete(t)
    BY <2>5 DEF Complete
  <2>6. CASE Install(t)
    BY <2>6 DEF Install
  <2> QED  BY <1>3, <2>1, <2>2, <2>3, <2>4, <2>5, <2>6 DEF Verifies
<1>4. CASE Fails(t)
  BY <1>4 DEF Fails, SetError, ErrorRead, ErrorWrite, Framed, Verified, Changing, Transfer
<1> QED  BY <1>1, <1>2, <1>3, <1>4 DEF Drive

LEMMA HandlerFramed == ASSUME TypeOK, NEW t \in Tasks, Handler(t) PROVE Framed(t)
<1>1. CASE StartInsert(t)
  <2>1. DropOversized(Path(t)) /\ Path(t) \in Paths /\ installed' = installed
    BY <1>1 DEF StartInsert, TypeOK, Path
  <2>2. Alone(t) /\ pc'[t] \in {"wait", "idle"}
    BY <1>1 DEF StartInsert, Alone, Move, End, TypeOK
  <2>3. \A q \in Paths :
           file'[q] = file[q] \/ (q = Path(t) /\ file[q] # Whole /\ file'[q] # Whole)
    BY <2>1, DropStep
  <2> QED  BY <2>1, <2>2, <2>3 DEF Framed, Verified, Changing, Transfer
<1>2. CASE ResumeSet(t)
  BY <1>2 DEF ResumeSet, Framed, Alone, Move, TypeOK, locals, Verified, Changing, Transfer
<1> QED  BY <1>1, <1>2 DEF Handler

\* A step that is no step of a drive or a handler leaves the files and the library
\* alone, and takes no task into a drive.
LEMMA OtherSteps ==
    ASSUME TypeOK, [Next]_vars, \A t \in Tasks : ~Handler(t) /\ ~Drive(t)
    PROVE  /\ file' = file /\ installed' = installed
           /\ \A s \in Tasks : pc'[s] \in Holding => pc'[s] = pc[s] /\ job'[s] = job[s]
<1> USE OutsideHolding DEF disk, locals, Request
<1>1. ASSUME NEW t \in Tasks, NEW i \in Ids, StartCheck(t, i) \/ ResumeRead(t, i)
      PROVE  /\ file' = file /\ installed' = installed
             /\ \A s \in Tasks : pc'[s] \in Holding => pc'[s] = pc[s] /\ job'[s] = job[s]
  BY <1>1 DEF StartCheck, ResumeRead, Move, TypeOK
<1>2. ASSUME NEW i \in Ids, Cancel(i) \/ PauseRead(i) \/ PauseWrite(i)
      PROVE  /\ file' = file /\ installed' = installed
             /\ \A s \in Tasks : pc'[s] \in Holding => pc'[s] = pc[s] /\ job'[s] = job[s]
  BY <1>2 DEF Cancel, PauseRead, PauseWrite
<1>3. CASE Crash
  BY <1>3 DEF Crash
<1>4. CASE Boot
  <2>1. \A s \in Tasks : pc'[s] = "wait" \/ (pc'[s] = pc[s] /\ job'[s] = job[s])
    BY <1>4 DEF Boot
  <2>2. file' = file /\ installed' = installed
    BY <1>4 DEF Boot
  <2> QED  BY <2>1, <2>2
<1>5. CASE UNCHANGED vars
  BY <1>5 DEF vars
<1> QED  BY <1>1, <1>2, <1>3, <1>4, <1>5 DEF Next, User

LEMMA InvInit == Init => IInv
<1> SUFFICES ASSUME Init PROVE IInv
  OBVIOUS
<1>1. \A t \in Tasks : pc[t] = "idle"
  BY DEF Init
<1>2. LockInv /\ Solo
  BY <1>1, OutsideHolding DEF LockInv, Solo
<1>3. VerifiedWhole /\ ChangingUnshelved
  BY <1>1 DEF VerifiedWhole, ChangingUnshelved, Verified, Changing, Transfer
<1>4. InstalledVerified
  BY DEF Init, InstalledVerified
<1> QED  BY TypeInit, <1>2, <1>3, <1>4 DEF IInv

LEMMA InvStep == IInv /\ [Next /\ Solo']_vars => IInv'
<1> SUFFICES ASSUME IInv, [Next /\ Solo']_vars PROVE IInv'
  OBVIOUS
<1>1. [Next]_vars
  OBVIOUS
<1>2. TypeOK' /\ LockInv'
  BY <1>1, TypeStep, LockStep DEF IInv
<1>3. Solo'
  <2>1. CASE UNCHANGED vars
    BY <2>1 DEF vars, locals, IInv, Solo, Path
  <2> QED  BY <2>1
<1>4. (InstalledVerified /\ VerifiedWhole /\ ChangingUnshelved)'
  <2>1. ASSUME NEW t \in Tasks, Handler(t) \/ Drive(t)
        PROVE  (InstalledVerified /\ VerifiedWhole /\ ChangingUnshelved)'
    BY <1>2, <2>1, HandlerFramed, DriveFramed, FramedKeeps DEF IInv
  <2>2. CASE \A t \in Tasks : ~Handler(t) /\ ~Drive(t)
    BY <1>1, <2>2, OtherSteps, InsideHolding
       DEF IInv, InstalledVerified, VerifiedWhole, ChangingUnshelved, Path
  <2> QED  BY <2>1, <2>2
<1> QED  BY <1>2, <1>3, <1>4 DEF IInv

\* Nothing enters the library that is not the pinned file, and nothing that
\* happens to its path afterwards changes it, as long as the drives of one
\* id at a time hold a target.
THEOREM LibraryVerified == SoloSpec => []InstalledVerified
<1>1. IInv => InstalledVerified
  BY DEF IInv
<1> QED  BY <1>1, InvInit, InvStep, PTL DEF SoloSpec

----------------------------------------------------------------------------
(* The download manager implements the verified shelf. *)

WholeFiles == {p \in Paths : file[p] = Whole}

LEMMA ShelfStep == IInv /\ IInv' /\ [Next]_vars => [Shelf!Next]_(Shelf!vars)
<1> SUFFICES ASSUME IInv, IInv', [Next]_vars PROVE [Shelf!Next]_(Shelf!vars)
  OBVIOUS
<1>1. ASSUME NEW t \in Tasks, Framed(t) PROVE [Shelf!Next]_(Shelf!vars)
  <2>1. CASE installed' # installed
    <3>1. pc[t] = "install" /\ installed' = installed \cup {Path(t)}
      BY <1>1, <2>1 DEF Framed
    <3>2. Path(t) \in Paths /\ Path(t) \in WholeFiles
      BY <3>1 DEF IInv, TypeOK, Path, VerifiedWhole, Verified, WholeFiles
    <3>3. WholeFiles' = WholeFiles
      BY <1>1, <3>1 DEF Framed, Changing, Transfer, WholeFiles
    <3>4. Shelf!Admit(Path(t))
      BY <3>1, <3>2, <3>3 DEF Shelf!Admit, WholeFiles
    <3> QED  BY <3>2, <3>4 DEF Shelf!Next
  <2>2. CASE installed' = installed /\ WholeFiles' # WholeFiles
    <3>1. PICK q \in Paths : file'[q] # file[q] /\ (file'[q] = Whole \/ file[q] = Whole)
      BY <2>2 DEF WholeFiles
    <3>2. q = Path(t) /\ pc[t] \in Changing
      BY <1>1, <3>1 DEF Framed
    <3>3. q \notin installed
      BY <3>2 DEF IInv, ChangingUnshelved
    <3>4. \A p \in Paths : p # q => file'[p] = file[p]
      BY <1>1, <3>2 DEF Framed
    <3>5. WholeFiles' = WholeFiles \cup {q} \/ WholeFiles' = WholeFiles \ {q}
      BY <3>1, <3>4 DEF WholeFiles
    <3>6. Shelf!Rewrite(q)
      BY <2>2, <3>3, <3>5 DEF Shelf!Rewrite, WholeFiles
    <3> QED  BY <3>6 DEF Shelf!Next
  <2>3. CASE installed' = installed /\ WholeFiles' = WholeFiles
    BY <2>3 DEF Shelf!vars, WholeFiles
  <2> QED  BY <2>1, <2>2, <2>3
<1>2. CASE \E t \in Tasks : Handler(t) \/ Drive(t)
  BY <1>1, <1>2, HandlerFramed, DriveFramed DEF IInv
<1>3. CASE \A t \in Tasks : ~Handler(t) /\ ~Drive(t)
  <2>1. file' = file /\ installed' = installed
    BY <1>3, OtherSteps DEF IInv
  <2> QED  BY <2>1 DEF Shelf!vars
<1> QED  BY <1>2, <1>3

\* While one id at a time holds a target (SoloSpec, which the code's check and insert in
\* two statements do not always keep), a behaviour of the downloads is one of the shelf.
THEOREM DownloadsImplementShelf == SoloSpec => ImplementsShelf
<1>1. Init => Shelf!Init
  BY DEF Init, Shelf!Init, Absent, Whole
<1>2. IInv /\ IInv' /\ [Next /\ Solo']_vars => [Shelf!Next]_(Shelf!vars)
  BY ShelfStep
<1> QED  BY <1>1, <1>2, InvInit, InvStep, PTL DEF SoloSpec, ImplementsShelf, Shelf!Spec

----------------------------------------------------------------------------
(* The download manager and the library keep one promise.                  *)

\* A shelf of verified paths is a library whose models are those paths, each in the one
\* version that is pinned, and of which nothing is being deleted.
Books == INSTANCE Holdings WITH
    Models <- Paths, Contents <- {Whole}, shelf <- installed \X {Whole},
    whole <- WholeFiles \X {Whole}, doomed <- {}

LEMMA BooksStep == [Shelf!Next]_(Shelf!vars) => [Books!Next]_(Books!vars)
<1> SUFFICES ASSUME [Shelf!Next]_(Shelf!vars) PROVE [Books!Next]_(Books!vars)
  OBVIOUS
<1>1. ASSUME NEW p \in Paths, Shelf!Rewrite(p) PROVE Books!Shuffle
  <2>1. p \notin installed /\ installed' = installed
    BY <1>1 DEF Shelf!Rewrite
  <2>2. WholeFiles' = WholeFiles \cup {p} \/ WholeFiles' = WholeFiles \ {p}
    BY <1>1 DEF Shelf!Rewrite, WholeFiles
  <2> QED  BY <2>1, <2>2 DEF Books!Shuffle
<1>2. ASSUME NEW p \in Paths, Shelf!Admit(p) PROVE [Books!Next]_(Books!vars)
  <2> DEFINE g == <<p, Whole>>
  <2>1. g \in WholeFiles \X {Whole} /\ WholeFiles' = WholeFiles
    BY <1>2 DEF Shelf!Admit, WholeFiles
  <2>2. installed' = installed \cup {p}
    BY <1>2 DEF Shelf!Admit
  <2>3. CASE p \in installed
    BY <2>1, <2>2, <2>3 DEF Books!vars
  <2>4. CASE p \notin installed
    <3>1. \A other \in installed \X {Whole} : other[1] # g[1]
      BY <2>4
    <3>2. installed' \X {Whole} = (installed \X {Whole}) \cup {g}
      BY <2>2
    <3>3. Books!Admit(g)
      BY <2>1, <3>1, <3>2 DEF Books!Admit
    <3> QED  BY <3>3 DEF Books!Next
  <2> QED  BY <2>3, <2>4
<1>3. CASE UNCHANGED Shelf!vars
  BY <1>3 DEF Shelf!vars, Books!vars, WholeFiles
<1> QED  BY <1>1, <1>2, <1>3 DEF Shelf!Next, Books!Next

\* What the downloads do to the library is what the library's own operations may do to it
\* (LibraryProofs!UntangledIsHoldings): they admit whole models only, and from then on
\* leave them whole.
THEOREM DownloadsKeepHoldings == SoloSpec => Books!Spec
<1>1. Shelf!Init => Books!Init
  BY DEF Shelf!Init, Books!Init, WholeFiles
<1> QED  BY <1>1, BooksStep, DownloadsImplementShelf, PTL
         DEF ImplementsShelf, Shelf!Spec, Books!Spec

----------------------------------------------------------------------------
(* No download stays active without a task. *)

\* A task that will still write the row of its download, or find it settled.
Keeper == PC \ {"idle", "insert", "install"}

LiveKept == booted => \A i \in Ids : row[i] \in Live =>
               \E t \in Tasks : job[t] = i /\ pc[t] \in Keeper

\* A step of t may leave its download live only if t goes on, or never kept it.
Keeping(t) ==
    /\ Alone(t) /\ booted' = booted
    /\ \A i \in Ids : i # job[t] => row'[i] = row[i]
    /\ \/ pc'[t] \in Keeper /\ job'[t] = job[t]
       \/ job[t] \in Ids /\ row'[job[t]] \notin Live
       \/ row' = row /\ pc[t] \notin Keeper

LEMMA KeepingKeeps ==
    ASSUME TypeOK, LiveKept, NEW t \in Tasks, Keeping(t)
    PROVE  LiveKept'
<1> SUFFICES ASSUME booted', NEW i \in Ids, row'[i] \in Live
             PROVE  \E s \in Tasks : job'[s] = i /\ pc'[s] \in Keeper
  BY DEF LiveKept, Keeper, PC
<1>1. CASE i # job[t]
  <2>1. row[i] \in Live /\ booted
    BY <1>1 DEF Keeping
  <2>2. PICK s \in Tasks : job[s] = i /\ pc[s] \in Keeper
    BY <2>1 DEF LiveKept
  <2> QED  BY <1>1, <2>2 DEF Keeping, Alone
<1>2. CASE i = job[t] /\ pc'[t] \in Keeper /\ job'[t] = job[t]
  BY <1>2
<1>3. CASE i = job[t] /\ row' = row /\ pc[t] \notin Keeper
  <2>1. PICK s \in Tasks : job[s] = i /\ pc[s] \in Keeper
    BY <1>3 DEF LiveKept, Keeping
  <2> QED  BY <1>3, <2>1 DEF Keeping, Alone
<1> QED  BY <1>1, <1>2, <1>3 DEF Keeping

LEMMA TaskKeeping ==
    ASSUME TypeOK, NEW t \in Tasks, Handler(t) \/ Drive(t)
    PROVE  Keeping(t)
<1> USE DEF Move, SetRow, End, Return, ReturnErr, Alone, TypeOK, disk, locals, stops, process,
            Keeping, Keeper, PC, Live
<1>1. CASE Handler(t)
  BY <1>1 DEF Handler, StartInsert, ResumeSet, Request
<1>2. CASE Begins(t)
  BY <1>2 DEF Begins, Begin, Reassert, Open, Saw, Holding, Stopped, Transfer, Verify
<1>3. CASE Transfers(t)
  BY <1>3 DEF Transfers, SendFails, SendAppends, SendIgnoresRange, RestartFromZero, OpenError,
              StreamStopped, StopCheck, Saw, Piece, Yields, Chunk, ChunkError, StreamEnd, Report,
              ReportWrite, Holding, Stopped, Transfer, Verify, AfterErr
<1>4. CASE Verifies(t)
  BY <1>4 DEF Verifies, CheckBeforeHash, Hash, HashError, QuarantineFile, QuarantineRow,
              CheckAfterHash, StopCheck, Saw, Complete, Install, Holding, Stopped, Verify,
              Finish, AfterErr
<1>5. CASE Fails(t)
  BY <1>5 DEF Fails, SetError, ErrorRead, ErrorWrite, Holding, AfterErr
<1> QED  BY <1>1, <1>2, <1>3, <1>4, <1>5 DEF Drive

LEMMA LiveStep == TypeOK /\ LiveKept /\ [Next]_vars => LiveKept'
<1> SUFFICES ASSUME TypeOK, LiveKept, [Next]_vars PROVE LiveKept'
  OBVIOUS
<1> USE DEF Move, disk, locals, process
<1>1. ASSUME NEW t \in Tasks, Handler(t) \/ Drive(t) PROVE LiveKept'
  BY <1>1, TaskKeeping, KeepingKeeps
<1>2. ASSUME NEW t \in Tasks, NEW i \in Ids, StartCheck(t, i) \/ ResumeRead(t, i)
      PROVE  LiveKept'
  <2>1. Alone(t) /\ row' = row /\ pc[t] = "idle" /\ booted' = booted
    BY <1>2 DEF StartCheck, ResumeRead, Alone, TypeOK
  <2>2. Keeping(t)
    BY <2>1 DEF Keeping, Keeper
  <2> QED  BY <2>2, KeepingKeeps
<1>3. ASSUME NEW i \in Ids, Cancel(i) \/ PauseRead(i) \/ PauseWrite(i)
      PROVE  LiveKept'
  <2>1. /\ \A j \in Ids : row'[j] \in Live => row[j] \in Live
        /\ booted' = booted /\ pc' = pc /\ job' = job
    BY <1>3 DEF Cancel, PauseRead, PauseWrite, SetRow, Live, TypeOK
  <2> QED  BY <2>1 DEF LiveKept
<1>4. CASE Crash
  BY <1>4 DEF Crash, LiveKept
<1>5. CASE Boot
  <2> DEFINE Orphans == {i \in Ids : row[i] \in Live}
  <2>1. row' = row
    BY <1>5 DEF Boot
  <2>2. PICK driver \in [Orphans -> {t \in Tasks : pc[t] = "idle"}] :
          LET drives(t, i) == i \in DOMAIN driver /\ driver[i] = t IN
          /\ \A i, j \in DOMAIN driver : driver[i] = driver[j] => i = j
          /\ pc' = [t \in Tasks |-> IF \E i \in Ids : drives(t, i) THEN "wait" ELSE pc[t]]
          /\ job' = [t \in Tasks |-> IF \E i \in Ids : drives(t, i)
                                      THEN CHOOSE i \in Ids : drives(t, i) ELSE job[t]]
    BY <1>5 DEF Boot
  <2>3. ASSUME NEW i \in Ids, row[i] \in Live
        PROVE  job'[driver[i]] = i /\ pc'[driver[i]] = "wait" /\ driver[i] \in Tasks
    BY <2>2, <2>3
  <2> QED  BY <2>1, <2>3 DEF LiveKept, Keeper, PC, Request
<1>6. CASE UNCHANGED vars
  BY <1>6 DEF vars, LiveKept
<1> QED  BY <1>1, <1>2, <1>3, <1>4, <1>5, <1>6 DEF Next, User

\* Whatever fails, and wherever it fails, a live row has a task that will move it on
\* once the startup pass has run.
THEOREM NoDownloadOrphaned == Spec => []NoOrphanActive
<1>1. Init => LiveKept
  BY DEF Init, LiveKept
<1>2. LiveKept => NoOrphanActive
  BY DEF LiveKept, NoOrphanActive
<1> QED  BY <1>1, <1>2, LiveStep, TypeInit, TypeStep, PTL DEF Spec

----------------------------------------------------------------------------
(* Files are what the origin served, in its order. *)

Streaming == {"stream", "report", "reportWrite"}

\* The drive's count is the length of the file, and its handle is on that file.
Offset == \A t \in Tasks : pc[t] \in {"send"} \cup Streaming =>
             received[t] = file[Path(t)].len /\ received[t] <= Total
Opened == \A t \in Tasks : pc[t] \in Streaming => handle[t] \in {"append", "write"}

PInv == TypeOK /\ LockInv /\ Solo /\ PrefixIntegrity /\ Offset /\ Opened

\* A step of t may change the file at its path, or unlink it.
Disturbing(t) == pc[t] \in Changing \/ Oversized(Path(t))

\* What a step of t may do to the files, the counts and the handles.
Aligned(t) ==
    /\ Alone(t)
    /\ \A s \in Tasks : s # t =>
          /\ received'[s] = received[s]
          /\ handle'[s] = handle[s] \/ (Path(s) = Path(t) /\ Disturbing(t))
    /\ \A q \in Paths :
          \/ file'[q] = file[q]
          \/ q = Path(t) /\ Disturbing(t) /\ file'[q].data # "torn"
    /\ pc'[t] \in {"send"} \cup Streaming =>
          job'[t] = job[t] /\ received'[t] = file'[Path(t)].len /\ received'[t] <= Total
    /\ pc'[t] \in Streaming => handle'[t] \in {"append", "write"}

LEMMA StreamingChanging == {"send"} \cup Streaming \subseteq Changing /\ Changing \subseteq Holding
BY DEF Streaming, Changing, Holding, Transfer, Verify

LEMMA AlignedKeeps ==
    ASSUME PInv, TypeOK', NEW t \in Tasks, Aligned(t)
    PROVE  (PrefixIntegrity /\ Offset /\ Opened)'
<1> USE DEF PInv
<1>1. PrefixIntegrity'
  BY DEF PrefixIntegrity, Aligned
<1>2. ASSUME NEW s \in Tasks, s # t, pc'[s] \in {"send"} \cup Streaming
      PROVE  /\ pc[s] = pc'[s] /\ job'[s] = job[s] /\ Path(s) \in Paths
             /\ ~(Path(s) = Path(t) /\ Disturbing(t))
  <2>1. pc[s] = pc'[s] /\ job'[s] = job[s]
    BY <1>2 DEF Aligned, Alone
  <2>2. Path(s) \in Paths
    BY <1>2, <2>1 DEF TypeOK, Path, Streaming
  <2>3. ~Oversized(Path(s))
    BY <1>2, <2>1, <2>2 DEF Offset, Oversized, TypeOK, File
  <2> QED  BY <1>2, <2>1, <2>2, <2>3, SoleHolder, StreamingChanging DEF Disturbing
<1>3. Offset'
  <2> SUFFICES ASSUME NEW s \in Tasks, pc'[s] \in {"send"} \cup Streaming
               PROVE  received'[s] = file'[PathOf[job'[s]]].len /\ received'[s] <= Total
    BY DEF Offset, Path
  <2>1. CASE s = t
    BY <2>1 DEF Aligned, Path
  <2>2. CASE s # t
    BY <2>2, <1>2 DEF Aligned, Offset, Path
  <2> QED  BY <2>1, <2>2
<1>4. Opened'
  <2> SUFFICES ASSUME NEW s \in Tasks, pc'[s] \in Streaming
               PROVE  handle'[s] \in {"append", "write"}
    BY DEF Opened
  <2>1. CASE s = t
    BY <2>1 DEF Aligned
  <2>2. CASE s # t
    BY <2>2, <1>2 DEF Aligned, Opened
  <2> QED  BY <2>1, <2>2
<1> QED  BY <1>1, <1>3, <1>4

\* The next chunk, written at the end of the file, is at its place.
LEMMA ChunkAligned ==
    ASSUME PInv, NEW t \in Tasks, Chunk(t)
    PROVE  Aligned(t)
<1> USE DEF PInv
<1>1. pc[t] = "stream" /\ job[t] \in Ids /\ Path(t) \in Paths
  BY DEF Chunk, Yields, TypeOK, Path
<1>2. /\ handle[t] \in {"append", "write"} /\ received[t] = file[Path(t)].len
      /\ file[Path(t)] \in File /\ file[Path(t)].data # "torn"
  BY <1>1 DEF Opened, Offset, Streaming, TypeOK, PrefixIntegrity
<1>3. PICK chunk \in Served(received[t]) : file' = [file EXCEPT ![Path(t)] = Written(t, chunk)]
  BY DEF Chunk
<1>4. Written(t, chunk).len = received[t] + 1 /\ Written(t, chunk).data # "torn"
  BY <1>2 DEF Written, File
<1>5. file'[Path(t)] = Written(t, chunk)
  BY <1>1, <1>3 DEF TypeOK
<1>6. /\ received'[t] = file'[Path(t)].len
      /\ pc'[t] \in Streaming => received'[t] <= Total
      /\ pc'[t] # "send"
  BY <1>2, <1>4, <1>5 DEF Chunk, Yields, Move, TypeOK, File, Streaming
<1>7. \A q \in Paths : q # Path(t) => file'[q] = file[q]
  BY <1>1, <1>3 DEF TypeOK
<1>8. /\ Alone(t) /\ job' = job /\ handle' = handle
      /\ \A s \in Tasks : s # t => received'[s] = received[s]
  BY DEF Chunk, Yields, Alone, Move, TypeOK
<1> QED  BY <1>1, <1>2, <1>4, <1>5, <1>6, <1>7, <1>8 DEF Aligned, Disturbing, Changing, Transfer

\* An oversized file is dropped whole.
LEMMA DropAligned ==
    ASSUME TypeOK, NEW t \in Tasks, Path(t) \in Paths, DropOversized(Path(t))
    PROVE  /\ \A q \in Paths : file'[q] = file[q] \/
                 (q = Path(t) /\ Oversized(q) /\ file'[q].data # "torn")
           /\ \A s \in Tasks : handle'[s] = handle[s] \/
                 (Path(s) = Path(t) /\ Oversized(Path(t)))
BY DEF DropOversized, LoseHandles, TypeOK, Absent

LEMMA TaskAligned ==
    ASSUME PInv, NEW t \in Tasks, Handler(t) \/ Drive(t)
    PROVE  Aligned(t)
<1> USE DEF Move, End, Return, ReturnErr, CloseFile, Alone, TypeOK, disk, locals, stops, process,
            Streaming, Aligned, Disturbing, Changing, Transfer, Path
<1>0. TypeOK /\ (pc[t] # "idle" => job[t] \in Ids /\ Path(t) \in Paths)
  BY DEF PInv
<1>1. CASE Handler(t)
  <2>1. CASE StartInsert(t)
    <3>1. DropOversized(Path(t)) /\ received' = received
      BY <2>1 DEF StartInsert
    <3> QED  BY <1>0, <2>1, <3>1, DropAligned DEF StartInsert
  <2>2. CASE ResumeSet(t)
    BY <1>0, <2>2 DEF ResumeSet
  <2> QED  BY <1>1, <2>1, <2>2 DEF Handler
<1>2. CASE Begins(t)
  <2>1. CASE Begin(t) \/ Reassert(t)
    BY <1>0, <2>1 DEF Begin, Reassert, Saw
  <2>2. CASE Open(t)
    <3>1. DropOversized(Path(t)) /\ Path(t) \in Paths
      BY <1>0, <2>2 DEF Open
    <3>2. /\ received'[t] = file'[Path(t)].len /\ received'[t] \in Nat
          /\ pc'[t] = "send" => received'[t] < Total
          /\ \A s \in Tasks : s # t => received'[s] = received[s]
      BY <1>0, <2>2, <3>1, DropStep DEF Open, File
    <3> QED  BY <1>0, <2>2, <3>1, <3>2, DropAligned DEF Open
  <2> QED  BY <1>2, <2>1, <2>2 DEF Begins
<1>3. CASE Transfers(t)
  <2>1. CASE SendAppends(t)
    <3>1. /\ received[t] = file[Path(t)].len /\ received[t] <= Total
          /\ file[Path(t)] \in File /\ file[Path(t)].data # "torn"
      BY <1>0, <2>1 DEF SendAppends, PInv, Offset, PrefixIntegrity
    <3>2. CASE file[Path(t)] = Absent
      BY <1>0, <2>1, <3>1, <3>2 DEF SendAppends, Absent, Empty
    <3>3. CASE file[Path(t)] # Absent
      BY <1>0, <2>1, <3>1, <3>3 DEF SendAppends
    <3> QED  BY <3>2, <3>3
  <2>2. CASE RestartFromZero(t)
    BY <1>0, <2>2 DEF RestartFromZero, Empty
  <2>3. CASE Chunk(t)
    BY <2>3, ChunkAligned
  <2>4. CASE StreamStopped(t) \/ Piece(t) \/ Report(t) \/ ReportWrite(t)
    BY <1>0, <2>4 DEF StreamStopped, StopCheck, Saw, Piece, Yields, Report, ReportWrite, PInv,
                      Offset, Opened
  <2>5. CASE SendFails(t) \/ SendIgnoresRange(t) \/ OpenError(t) \/ ChunkError(t) \/ StreamEnd(t)
    BY <1>0, <2>5 DEF SendFails, SendIgnoresRange, OpenError, ChunkError, Yields, StreamEnd
  <2> QED  BY <1>3, <2>1, <2>2, <2>3, <2>4, <2>5 DEF Transfers
<1>4. CASE Verifies(t)
  <2>1. CASE QuarantineFile(t)
    BY <1>0, <2>1 DEF QuarantineFile, LoseHandles, Absent
  <2>2. CASE ~QuarantineFile(t)
    BY <1>0, <1>4, <2>2 DEF Verifies, CheckBeforeHash, Hash, HashError, QuarantineRow,
       CheckAfterHash, StopCheck, Saw, Complete, Install
  <2> QED  BY <2>1, <2>2
<1>5. CASE Fails(t)
  BY <1>0, <1>5 DEF Fails, SetError, ErrorRead, ErrorWrite
<1> QED  BY <1>1, <1>2, <1>3, <1>4, <1>5 DEF Drive

LEMMA PrefixStep == PInv /\ [Next /\ Solo']_vars => PInv'
<1> SUFFICES ASSUME PInv, [Next /\ Solo']_vars PROVE PInv'
  OBVIOUS
<1>1. [Next]_vars
  OBVIOUS
<1>2. TypeOK' /\ LockInv'
  BY <1>1, TypeStep, LockStep DEF PInv
<1>3. Solo'
  <2>1. CASE UNCHANGED vars
    BY <2>1 DEF vars, locals, PInv, Solo, Path
  <2> QED  BY <2>1
<1>4. (PrefixIntegrity /\ Offset /\ Opened)'
  <2>1. ASSUME NEW t \in Tasks, Handler(t) \/ Drive(t)
        PROVE  (PrefixIntegrity /\ Offset /\ Opened)'
    BY <1>2, <2>1, TaskAligned, AlignedKeeps
  <2>2. CASE \A t \in Tasks : ~Handler(t) /\ ~Drive(t)
    <3>1. /\ file' = file
          /\ \A s \in Tasks : pc'[s] \in Holding => pc'[s] = pc[s] /\ job'[s] = job[s]
      BY <1>1, <2>2, OtherSteps DEF PInv
    <3>2. (received' = received /\ handle' = handle) \/ \A s \in Tasks : pc'[s] = "idle"
      BY <1>1, <2>2 DEF Next, User, StartCheck, ResumeRead, Cancel, PauseRead, PauseWrite,
                        Crash, Boot, vars, locals
    <3> QED  BY <3>1, <3>2, StreamingChanging
             DEF PInv, PrefixIntegrity, Offset, Opened, Path, Streaming
  <2> QED  BY <2>1, <2>2
<1> QED  BY <1>2, <1>3, <1>4 DEF PInv

\* No order of pauses, resumes, cancels, errors and crashes leaves a hole or a
\* duplicated range in a file.
THEOREM FilesAreWhatWasServed == SoloSpec => []PrefixIntegrity
<1>1. Init => PInv
  <2> SUFFICES ASSUME Init PROVE PInv
    OBVIOUS
  <2>1. \A t \in Tasks : pc[t] = "idle"
    BY DEF Init
  <2>2. LockInv /\ Solo /\ Offset /\ Opened
    BY <2>1, OutsideHolding, StreamingChanging DEF LockInv, Solo, Offset, Opened
  <2>3. PrefixIntegrity
    BY DEF Init, PrefixIntegrity, Absent
  <2> QED  BY TypeInit, <2>2, <2>3 DEF PInv
<1>2. PInv => PrefixIntegrity
  BY DEF PInv
<1>3. PInv /\ [Next /\ Solo']_vars => PInv'
  BY PrefixStep
<1> QED  BY <1>1, <1>2, <1>3, PTL DEF SoloSpec

----------------------------------------------------------------------------
(* A stop is final. *)

\* A pause that holds the stop mutex has seen that its id is not cancelled.
PauseSeen == \A i \in pausing : stop[i] # "cancelled"

\* What one step does to the stop of an id, and to the drives of a stopped id.
StopKept ==
    \A i \in Ids : stop[i] # "none" /\ crashes' = crashes =>
       /\ stop[i] = "cancelled" => stop'[i] = "cancelled"
       /\ stop'[i] = "none" => \E t \in Tasks : job[t] = i /\ pc[t] = "waitResume"
       /\ \A t \in Tasks : job[t] = i /\ pc'[t] \in Finish => pc[t] \in Finish

LEMMA StopStep == TypeOK /\ PauseSeen /\ [Next]_vars => PauseSeen' /\ StopKept
<1> SUFFICES ASSUME TypeOK, PauseSeen, [Next]_vars PROVE PauseSeen' /\ StopKept
  OBVIOUS
<1> USE DEF Move, End, Return, ReturnErr, TypeOK, disk, locals, stops, process, Finish,
            PauseSeen, StopKept
<1>1. ASSUME NEW t \in Tasks, NEW i \in Ids, StartCheck(t, i) \/ ResumeRead(t, i)
      PROVE  PauseSeen' /\ StopKept
  BY <1>1 DEF StartCheck, ResumeRead
<1>2. ASSUME NEW i \in Ids, Cancel(i) \/ PauseRead(i) \/ PauseWrite(i)
      PROVE  PauseSeen' /\ StopKept
  BY <1>2 DEF Cancel, PauseRead, PauseWrite, StopFree
<1>3. ASSUME NEW t \in Tasks, Handler(t) PROVE PauseSeen' /\ StopKept
  BY <1>3 DEF Handler, StartInsert, ResumeSet
<1>4. ASSUME NEW t \in Tasks, Begins(t) PROVE PauseSeen' /\ StopKept
  <2>1. CASE Begin(t)
    BY <2>1 DEF Begin, StopFree, Saw
  <2>2. CASE Reassert(t) \/ Open(t)
    BY <2>2 DEF Reassert, Open
  <2> QED  BY <1>4, <2>1, <2>2 DEF Begins
<1>5. ASSUME NEW t \in Tasks, Transfers(t) PROVE PauseSeen' /\ StopKept
  BY <1>5 DEF Transfers, SendFails, SendAppends, SendIgnoresRange, RestartFromZero, OpenError,
              StreamStopped, StopCheck, Saw, Piece, Yields, Chunk, ChunkError, StreamEnd, Report,
              ReportWrite
<1>6. ASSUME NEW t \in Tasks, Verifies(t) PROVE PauseSeen' /\ StopKept
  BY <1>6 DEF Verifies, CheckBeforeHash, Hash, HashError, QuarantineFile, QuarantineRow,
              CheckAfterHash, StopCheck, Saw, Complete, Install
<1>7. ASSUME NEW t \in Tasks, Fails(t) PROVE PauseSeen' /\ StopKept
  BY <1>7 DEF Fails, SetError, ErrorRead, ErrorWrite
<1>8. CASE Crash
  BY <1>8 DEF Crash
<1>9. CASE Boot
  <2>1. /\ stop' = stop /\ pausing' = pausing
        /\ \A t \in Tasks : pc'[t] = pc[t] \/ pc'[t] = "wait"
    BY <1>9 DEF Boot
  <2> QED  BY <2>1
<1>10. CASE UNCHANGED vars
  BY <1>10 DEF vars
<1> QED  BY <1>1, <1>2, <1>3, <1>4, <1>5, <1>6, <1>7, <1>8, <1>9, <1>10 DEF Next, User, Drive

\* A cancel is final, a pause is lifted by an explicit resume alone, and a stop bars a
\* drive that has not passed its last check from completing.
THEOREM StopsAreKept == Spec => StopBarsCompletion
<1>1. Init => PauseSeen
  BY DEF Init, PauseSeen
<1>2. StopKept => [\A i \in Ids : stop[i] # "none" /\ crashes' = crashes =>
          /\ stop[i] = "cancelled" => stop'[i] = "cancelled"
          /\ stop'[i] = "none" => \E t \in Tasks : job[t] = i /\ pc[t] = "waitResume"
          /\ \A t \in Tasks : job[t] = i /\ pc'[t] \in Finish => pc[t] \in Finish]_vars
  BY DEF StopKept
<1> QED  BY <1>1, <1>2, StopStep, TypeInit, TypeStep, PTL DEF Spec, StopBarsCompletion
=============================================================================
