# Kayon in TLA+

Kayon is a desktop application that runs language models locally.  A Rust process
(`src-tauri/src`) serves a JSON API on a loopback port to a web view (`src/src`): it
discovers a catalog of models, downloads and verifies them, launches llama.cpp's
`llama-server` as a sidecar, runs a tool-calling agent loop for the chat, and updates
itself.  Everything runs on tokio's multi-threaded runtime, so every handler, every
background task and every in-process manager is concurrent with every other; what
they share is one SQLite connection behind a mutex, a few in-memory maps behind
mutexes, static flags, and the file system.

This directory holds TLA+ specifications of that program, the TLC configurations that
check them on small instances, and TLAPS proofs that hold for every instance.

## Inventory

Paths are relative to `src-tauri/src` unless they begin with `src/`.

| Component | State | Operations | Hard because | Correct when |
|---|---|---|---|---|
| Download manager (`download/mod.rs`, handlers in `lib.rs`) | rows of `downloads`, target files, stop map, one lock per id | start, pause, resume, cancel, the drive (transfer, verify, install), startup re-drive | row, stop map and file are changed by several tasks under different locks; crashes; an origin that ignores ranges | the library holds verified files only; a stop is final; no row stays active without a task |
| Updater (`update/mod.rs`, `src/src/components/UpdateBar.tsx`) | the state the UI polls, the announced offer, the downloaded installer | check, download, install and relaunch, the off switch | three mutexes and two awaits; the offer may move or be withdrawn during either | what is installed is what was announced and accepted |
| Sidecar runtime (`runtime/mod.rs`, `lib.rs`) | child process, status, log | start, stop, the health and liveness watcher of each start | a watcher outlives its sidecar; ports are reused | the status is of the sidecar that runs; at most one runs |
| Agent loop (`agent/mod.rs`, `tools/mod.rs`, `lib.rs`) | conversation, events, pending decisions | model call, tool call, confirmation with timeout, decision | a decision races the timeout; the client goes away while a tool waits | no side effect without approval; the loop ends |
| Chats and workspaces (`lib.rs`, `db/mod.rs`) | session and message rows, workspace directories | create, append, delete, attach, attach a folder, startup sweep | directory and row are changed in separate steps; a second instance sweeps | nothing the user owns is deleted; nothing of a deleted chat survives a sweep |
| Discovery and catalog (`discovery/mod.rs`, `catalog/mod.rs`, `lib.rs`) | discovered catalog file, a running flag, the network log | launch pass, refresh, read | two passes at once; a slow pass ends last; a truncated file | pins and arch blocks are of the repository as the revision says; the page catches up |
| Library (`library/mod.rs`, `ollama/mod.rs`, `lib.rs`) | `installed_models` rows, files | relocate, delete, adopt | two stores changed one after the other; crashes | a row has its file |
| Fit evaluation (`fit/mod.rs`, handlers in `lib.rs`) | none; it reads the machine's memory | verdict and placement of a quant, the load that launches it | integer arithmetic at the boundaries; the memory it measured moves on | what is launched fits; what is refused does not; more memory or less context never hurts |
| Chat view (`src/src/pages/Chat.tsx`) | the open session, its messages and settings, the running send, the flush timer | open, send, attach, new, delete, edit settings | answers arrive after the user moved on | a message lands in the chat it was sent in; trust stays with its folder; the composer frees |
| Tools (`tools/mod.rs`) | the script file, the Python process, the network log | calculator, read a file, run a program, search, fetch | pipes, a timeout, processes of processes; redirects; confusable names | a call ends and leaves nothing; the answer says what it is; every request of a fetch is logged |
| GGUF reader (`gguf/mod.rs`) | none | parse a header, sum the tensors | quantised sizes, absent fields | the sizes are those of the file; only these are modelled, not the parser |
| Probe (`probe/mod.rs`) | a cached NVML handle | read the hardware | - | not modelled: system calls |
| Telemetry (`telemetry/mod.rs`) | an append-only log, counters | log a request | - | its rows are modelled with the tools that write them |
| Static files, CSRF gate, catalog binaries, other pages, build | none | - | - | not modelled: no state of their own |

The components meet at these points.  The download drive inserts into the library's
table the rows that relocation, deletion and adoption change.  The agent loop and the
chat handlers share the workspace directory of a session.  The runtime takes its
placement from the fit evaluation and its file from the library.  Discovery replaces the
catalog that downloads take their hash and size from.

## Plan

Each module comes with its MC module, runs, mutants and, in a module of its own, its
proofs.  Done so far:

1. `Download`, with `VerifiedShelf` as the abstract specification it implements: the
   one component that must never be wrong about a file.
2. `Update`: the state the UI shows against the installer that is held.
3. `Runtime`: sidecars, watchers and reused ports.
4. `Agent`: the tool loop and its confirmations.
5. `Chats`: sessions, messages, directories, the sweep, a second launch.
6. `Library`: relocate, delete and adopt with crashes, beside a download.
7. `Discovery`: overlapping passes, the cache behind the active catalog, the page.

8. `Fit` with `Gguf`: the evaluation, the loads that act on it, and what it reads of a
   file.
9. `ChatView`: the web view's late answers.
10. `Tools` with `Calculator` and `ReadPath`: the calls of the agent's tools.

11. The theorems about `Tools` and `ChatView`, in `AgentProofs` and `ChatsProofs`, and `Ledger` as
    the abstract specification that the chat page implements.
12. `Holdings`, one promise of the models a user has, which `Library` keeps until something is
    tangled and `Download` keeps as `VerifiedShelf`; and `ChatStore`, one promise of the rows
    of chats, which the handlers of `Chats` keep and which the server in `ChatView` is.

A product of `Library` and `Download` in one state space is not built: `Library` has of a
download what its own properties can tell apart, and the two meet in `Holdings`.

No module that is proved about declares a RECURSIVE operator; only `Calculator`, and with it
`MCTools`, does.

Every invariant that a run checks is a theorem as well, and so is every action property; but
`CalculatorReads`, which is about a recursive operator.  The liveness properties
(`StopTakesEffect`, `ActiveSettles`, `UpdateSettles`, `StatusSettles`, `TurnEnds`,
`PageCatchesUp`, `ComposerFrees`, `CallEnds`) are out of the provers' reach and stay with
TLC; the safety that some of them rest on is proved (`NoDownloadOrphaned`, `NoFlagIsLeft`,
`StatusIsWatched`, `TurnsGoOnward`, `OneTurnPerPage`, `CallsGoOnward`).  The type invariants
are theorems, and no run checks them. `RunningHasServed` (`Runtime`), `NeverFallsThrough`
(`Agent`) and `FlagClears` (`Discovery`) are theorems as well and need no run.  The numbered
*divergences* are places where the code does not do what its documents say; but for (8),
for which there is a run, each is a behaviour TLC shows when the definition named is added to
the configuration named.

## Downloads: `Download`, `VerifiedShelf`, `MCDownload`, `DownloadProofs`

**State.** `row` is the status column of `downloads`, `file` what is at each target path,
`installed` the paths with a library row; these survive a crash.  `stop` is the stop map,
`lock` the per-id async locks, `pausing` says that a pause holds the stop mutex between
its read and its writes.  A task is a request handler or a spawned drive: `pc`, `job` (its
download), `received` (`total_received`) and `handle` (how the target is open; `lost` when
the file it was opened on has been unlinked).  A file is a length in chunks and whether
those chunks are the pinned file's (`pinned`), other bytes in their order (`other`), or not
at their places (`torn`: a hole, a duplicated range, two writers).

**Actions.** A step ends where another thread can come between: at a database statement,
an await, the release of the stop mutex.  So a pause is two steps (`PauseRead` under the
mutex, `PauseWrite`), the cancel is one, the check and the insert of a start are two
(`StartCheck`, `StartInsert`), a resume reads the row and then sets it (`ResumeRead`,
`ResumeSet`).  The drive is `Begin` (lock and stop decision), `Reassert` (write the stop
reason back), `Open` (offset from the file length), the outcomes of the request
(`SendFails`, `SendAppends`, `SendIgnoresRange` and `RestartFromZero`, `OpenError`), the
stream (`StreamStopped`, `Piece`, `Chunk`, `ChunkError`, `StreamEnd`, `Report`, `ReportWrite`),
verification (`CheckBeforeHash`, `Hash`, `HashError`, `QuarantineFile`, `QuarantineRow`,
`CheckAfterHash`), `Complete`, `Install`, and the error path of `drive()` (`SetError`,
`ErrorRead`, `ErrorWrite`).  `Crash` drops tasks, locks and the stop map; `Boot` is the
startup pass.

**Abstracted.** File removal and rename succeed and database statements do not fail (the
code ignores or propagates their errors without a state change of its own).  The signed
size is positive, as in every catalog entry.  Byte counts in the row, throughput, ETA and
the network log are left out: no decision of the drive reads them.  `Queued` is left out:
no code path writes it.  The hash reads the file in one step.  Whether the disk has room
is a free choice.  A chunk is counted when the last of its bytes is written; before that it
comes in pieces (`Piece`), and no number of them is assumed to be enough.

**Runs.**

| Run | Instance | Shows |
|---|---|---|
| `download_one` | 1 id, 2 tasks, 2 chunks in any number of pieces, 1 crash, fair | a live row always has a task; a stop is final and takes effect; no download whose transfers end stays active |
| `download_shared` | 2 ids of one target, 2 tasks, 2 chunks, 1 crash, an origin that may serve other bytes, `SoloSpec` | the library is verified; no file is torn; implements `VerifiedShelf` |

Two chunks give a transfer a middle, one crash gives every state a restart, two tasks of
one id are a paused drive and the resume queued behind it; two ids of one target are the
smallest conflict over a file.  A third task (a redundant drive, or a handler between the
two) multiplies the states by ten and was checked once with the same result; the theorems
need no bound.

`Solo` is the use the per-id locks are built for: the drives of two ids never hold the
same target at a time.  `start_download` means to keep it so.  It does not always: the
check for a row in progress (70-75) and the insert (117) are two statements, and a resume
of a failed row does not look for another id's drive.  Then an installed file can be
spoiled (4), so the properties about files are stated of `SoloSpec`,
the behaviours in which the discipline holds; the others are stated of all behaviours.

**Fairness.** Spawned tasks take their steps (weak fairness of each task), tokio's mutex
is first come first served (strong fairness of `Begin`), the peer delivers, closes or
fails, the startup pass runs.  None of it says that a transfer ends: a stream may yield
pieces for ever, and only the check of the stop map (244) gets a stopped drive out of it,
which is what `StopTakesEffect` is about (its mutant takes that check away).  That a
transfer ends (`TransfersEnd`, strong fairness of `Advance`) is a hypothesis of
`ActiveSettles` alone.  The client has no request timeout, so a peer that stays
connected and sends nothing would hold a drive, and its stop, for ever: a stop is only
looked at when the stream yields.  Such a peer is outside of the fairness
assumed.  Nothing is assumed of the user or of crashes.

**Divergences.** (1) A stop after the last check (324) still installs, which the comment at
15-16 excludes (no run).  (2) A failing transfer overwrites `cancelled` with `failed`
(`SetError`; no run, the stop stays in force).  (3) A pause that read `active` before the
completion turns an installed model's row into `paused` (no run).  (4) Two ids can transfer
into one file, and then an installed file can change (`InstalledVerified` under `Spec`
instead of `SoloSpec`).

**Proofs.** `LibraryVerified`, `DownloadsImplementShelf`, `FilesAreWhatWasServed` and
`DownloadsKeepHoldings` are theorems of `SoloSpec`, the others of `Spec`.
`DownloadTyped`: types.  `OneDrivePerId`: the invariant `LockInv` (a task
inside a drive holds its id's lock).  `LibraryVerified` and `DownloadsImplementShelf`: the
verified library alone is not inductive: a drive past its hash must know the file still
whole, and a drive about to write must know its path is not in the library.  `IInv` adds
both (`VerifiedWhole`, `ChangingUnshelved`) to `LockInv` and `Solo`, from which a target
has one holder (`SoleHolder`).  Every step of a task is `Framed`: it touches only its own
path, and only where it may.  `FilesAreWhatWasServed`: adds that the count of a streaming
drive is the length of its file and that its handle is on that file (`Offset`, `Opened`).
`NoDownloadOrphaned`: `LiveKept` names which tasks will still
write the row.  `StopsAreKept`: `PauseSeen`, a pause holding the mutex has seen that its id
is not cancelled.  `DownloadsKeepHoldings`: the
shelf of verified files is in turn a library as `Holdings` promises it (`BooksStep`: a
`Rewrite` of what is not on the shelf is a `Shuffle`), so downloads and the operations of the
library keep the same promise to the user, a download without ever deleting.  All of them for
any ids, targets, tasks, sizes and crashes.  Only model
checked: the two liveness properties.

## Updates: `Update`, `MCUpdate`, `UpdateProofs`

**State.** The fields of `UpdateState` the UI decides by (`checking`, `downloading`,
`ready`, `error`, `available`), `announced` and `pending` for the two other mutexes (by
version: an update is told apart by nothing else), `held` for the STATE mutex while a check
changes the other two under it, and of each handler the update it cloned and the bytes it
took.  `accepted` is history: what the user agreed to.  `None` is no version.

**Actions.** `check()` is `CheckStart` (`ManualCheck`, `LaunchCheck`), then after the await
an offer (`CheckOffers`, `CheckAnnounces`), a withdrawal (`CheckWithdraws`, `CheckDrops`)
or `CheckFails`; an offer and a withdrawal are two steps, because the installation and the
clone at the top of `download()` do not take STATE.  `download()` is `Download` (the
clone), `DownloadStarts`, `DownloadDone` or `DownloadFails`.  `install_and_relaunch()` is
`Install` (the clone), `InstallTakes`, `InstallDone` or `InstallFails`.  `ClientGone` drops
a waiting handler, as axum does when the connection closes.

**Runs.** `update_main`: two handlers (a check beside a download or an installation), two
newer versions (an offer that moves), one disconnect, fair.

**Fairness.** A request is answered or fails, handlers run on, and the STATE mutex, which
is held for a few statements at a time, is not withheld from one of them for ever.  When a
client disconnects in mid-request the flag stays up, so `UpdateSettles` promises nothing
once one has.

**Divergences.** (5) `ready` may be set while the held installer is of another version than
the one shown, or is gone; the bar then offers only a Relaunch that must fail (`ReadyIsHeld` in `MCUpdate_main.cfg`).  (6) An
offer withdrawn between the installation's two locks is still installed (no run); a moved one is
not, because there the bytes go first.  (7) A request of a handler whose client disconnects
is never logged (the log entry follows the await; the log is not in the model).

**Proofs.** `UpdateTyped`; `OneTransferAtATime` from `FlagUp`; `InstallIsAgreed` from
`Agreed`: bytes that are held, fetched or installed are of an agreed version, and those
installed are of the offer that was read.  `NoFlagIsLeft` is the safety part of `UpdateSettles`:
the flag that keeps others out is one of a handler that is still there.

## The sidecar: `Runtime`, `MCRuntime`, `RuntimeProofs`

**State.** A *load* is a start that was not refused, from its handler to the end of the
watcher it spawns: `pc`, `port`, `tries`, `misses`, and `server`, the llama-server process
it spawned.  `child` and `lock` are the child mutex and who holds it, `kind` and `shown`
the status (the model, pid and port of the status are those of the load `shown`).

**Actions.** A start is `Find` (a free port; the system may give it out again), `Kill`
(mutex taken, old process killed), `Spawn` or `SpawnFails` (which leaves the status as it
was), `Show` (status written, mutex released, watcher spawned); a stop is `Stop`,
`StopShow`.  The watcher is `ProbeAnswered`, `ProbeMissed` up to `Probes` times, then
`MarkReady` or `GiveUp`, and then rounds of `Check` (still my port?), `Alive` or `Miss`,
until `MarkLost`; the answer and the mark are two steps.  A miss is possible while the
server lives, but not while a hung one holds the port (`Silent`): `reqwest::get` has no
timeout (lib.rs:693, 714), so such a probe is neither answered nor missed until the server
dies.  `Serves`, `Hangs` and `Dies` are the process's own; a hung server accepts
connections and never answers.  `Restart` ends the app: nothing
stops the sidecar, which lives on as an orphan that holds its port.

**Runs.** `runtime_main`: two loads (a switch has an old and a new watcher), two ports (a
port can be given out again, or not), two probes (a first and a last one), one restart.
Three loads without a restart were checked once: 321,052 states, the same result.
`runtime_stale`: divergence (8), the port guard of `mark_error` does not tell the new
sidecar from the old one when the system gives the port out again.

**Fairness.** The watchers run on, and a handler that holds the child mutex, which does
not wait for anything, releases it.  Nothing is assumed of requests or of llama-server:
it may stay loading, die or hang at any time, and `StatusSettles` says what is true then, that a
`Starting` status is settled unless a hung server holds the watcher for ever.

**Proofs.** `OneSidecarLives` and `StatusIsOfTheSidecar` from `SidecarInv`: whoever holds
the mutex has left no live process behind (`LockInv`), and a load that has not spawned has
none.  `RunningIsReal` and `NoStaleVerdict` from `WatchInv`: every load but an idle one has
a port, so while ports are distinct the port shown is the load's own (`OwnPort`).
`FreshBefore` carries that hypothesis back over a step.  `StatusIsWatched` is the safety
part of `StatusSettles`, on reused ports too: a load that is shown `Starting` is probed by
its own watcher, and a `Running` one has a watcher at its port, which need not be its own; a
watcher that gives up says so in the status.

**Divergence** (no run).  (17) The probes are `reqwest::get`, whose client has no timeout.  A
sidecar that accepts the connection and never answers is neither alive nor a miss: its watcher
waits for ever and the status stays `Running`.  `lib.rs:707` says of the loop "Liveness watch:
this is still the active port, and the sidecar stops responding.", and `lib.rs:677-678` that it
flips the status to Error "instead of reporting Running on a dead port".  `HangIsSeen`, added to
`MCRuntime_main.cfg`, shows it; `StatusSettles` says what remains true.

## The agent loop: `Agent`, `MCAgent`, `AgentProofs`

**State.** A *turn* is a run of the loop: `pc`, its request `req` (are tools advertised,
auto-approve, own workspace), `iter`, the calls of the last round (`round`, the next one is
`at`), `force` (`force_answer`), `closed` (the receiver of the event channel is gone).
`pending` is the registry of confirmations, which all turns share; `sending` are decisions
taken from it under its mutex and not yet sent; `verdict` is what a turn's oneshot channel
holds.  `approved` is history: the user has approved the call the turn is at.  A call is
told apart by its tool, `code`, `write`, any other (`read`) or one without a name; two
rounds are the same when their calls are.

**Actions.** An iteration is `AskModel` and one of `ModelEnds` (an answer, an error, or calls
that were not asked for), `CallsRepeated`, `CallsMade`.  A call is `CallNameless`, `CallRuns`
and `Run`, or `CallAsks`, then `Answered` or `Expires`, then `Approves` (and `Run`) or
`Declines`; the end of the wait and the removal from the registry are two steps, and so are
the two halves of `tool_decision` (`Decide`, `Send`).  `CallAborted` and `TurnAborted` are the
two looks at the client.  A `uuid` is a name nobody else has: turn, iteration, call.

**Runs.** `agent_main`: two turns, one for each kind of workspace or two of a kind; a round
of one call that must be confirmed, and one of two calls of which the first may; three
iterations, so there is a first, a middle and a last one (the code has eight; the theorems
hold for any).

**Divergence.** (9) The client is looked for before a confirmation and not after it, so an
approval is still obeyed when the client left during the wait; the comment at
`agent/mod.rs:265` says no further tool runs once the client is gone (no run).

**Fairness.** The model's server answers, fails or closes its stream, tools return, the
300-second timer fires, and a client that is there reads its events.  Nothing is assumed of
the user: `TurnEnds` holds if nobody ever decides.

**Proofs.** `AgentTyped` and `LoopIsBounded` from `Iterates` (an iteration that made calls was
not the last).  `ApprovedBeforeRun` and `RegistryIsClean` from `ApprovalInv`: every decision on
its way is for a call its turn has reached (`Earlier`), so no call starts with a decision
already under way; and none is for a call that can still be decided (`Single`).  Then a yes
that arrives was meant for the call that waits (`Truthful`).  `TurnsGoOnward` is the part of
`TurnEnds` that needs no fairness: every step of a turn takes it `Onward`, in an order that has no
infinite ascent because iterations and the calls of a round are bounded (`Counts`); what is left to
TLC is that a step is always taken.  The theorems about a single call
(`Tools`) are in the same module; see there.

## Chats and workspaces: `Chats`, `ChatStore`, `MCChats`, `ChatsProofs`

**State.** Of each chat its `row` (not yet created, with Kayon's own workspace, with an
attached folder, gone), whether it has `messages`, and Kayon's own directory for it (`auto`:
absent, empty, with files).  A task is a handler or an agent turn: `pc`, `chat`, and `own`,
whether it found the workspace to be Kayon's.  An instance of the app has the `phase` of its
startup, the ids its sweep read (`live`) and what it still has to remove (`todo`).  `Stuck`
are chats whose directory cannot be removed.  An attached folder is not modelled: no code
removes it, and nothing here depends on what is in it.

**Actions.** One per database method (each holds the connection's mutex; a delete holds it
over two statements that commit on their own, `DeleteMessages` and `DeleteSession`, between
which a crash can come).  A delete is four steps: read whose the workspace is, the two
statements, the directory.  A request for files is `Resolve` and `Place` (the existence check
and `create_dir_all`), and `Attach` the write.  A turn takes folder and id from its request
and makes the directory without looking for the chat (`TurnStarts`).  The sweep is
`SweepRead`, `SweepList`, `SweepRemoves`, `SweepEnds`; the app serves after it.  A second
launch that raced the single-instance guard (`stray`) runs it too and then finds the port
taken.

**Runs.** `chats_main`: two chats, one of them `Stuck`, two tasks (a deletion and anything
beside it), two launches of the app (one restart after a crash at any point), one stray.

**Divergence.** (10) A chat with files of its own and a folder attached later leaves the files
behind when it is deleted, until the next launch; the repository's README says that they go
(`DeleteIsFinal` in `MCChats_main.cfg`).

**Not promised.** Between a deletion and the next launch a directory may stay or come back
(an attach that had resolved, a turn that starts late); the code relies on the sweep, and
`SweepReclaims` is that reliance.

**Proofs.** `MessagesHaveChats` from `Deleting`: between the statements of a delete its chat
has no messages and no append can run.  `FilesOfChatsKept` and `OrphansReclaimed` from
`SweepInv`: no task runs during the app's own sweep (`Alone`), so its list of chats is the
rows, and what has none is on its list of directories (`Exact`).

`ChatsKeepStore`: the rows, without directories, tasks and launches, are a `ChatStore`.  A chat
is created once; settings and messages reach only a chat that is there; a deletion is `Forget`
and then `Remove`, or ends between the two.  That a chat is never deleted twice rests on `Known`, a task
has only a chat that was created, and that the second of two deletions finds nothing to forget
on `NoOrphanMessages` with what it rests on (`StoreStep`).  What a step does to whether a chat
lives is read off its row (`RowStep`).  The theorems about the page before
this server (`ChatView`) are in the same module; see there.

## Discovery and the catalog: `Discovery`, `MCDiscovery`, `DiscoveryProofs`

**State.** `form` and `cache` are `discovered.json`: empty or absent, torn, or whole with the
catalog in it.  `discovering` is `DISCOVERING`.  A pass (the launch's, or a refresh's) has the
revision it took at its start, what it may reuse of the catalog that was active then, the
repositories it still has to look at, the one whose header it waits for with the version it
pinned, and the entries found.  Of the page there are the revision it shows, the one its poll
compares with (`loaded`, `loadedRevRef`), whether a load is about to be asked for, and the
answers under way.  `origin` and `replaced` are Hugging Face: the version of each
repository's file and when each was replaced.  A hash is a version; an entry has the version
it pins (`pin`), the version its arch block was read from (`of`), and whether that block has
the field the fit wants (`full`).

**Actions.** `Start`, `Search`, then per repository `TreeReuses` (arch by hash), `TreePins`
with `Header` or `HeaderSkips`, or `TreeSkips`; then `SaveOpens` (the truncation of
`fs::write`) and `SaveWrites` or `SaveFails`.  `GivesUp` is every other way out of a pass,
among them a dropped handler.  `PagePolls`, `PageKnob`, `PageLoads` and `PageReceives` are
`pollStatus` and `load`; `Active` is `get_active_catalog`.  `Restart` ends the process
anywhere, also between truncation and write.

**Assumed.** One quant and one file per repository; a hash never comes back; the clock does
not go backwards; the request of a poll and the page's handling of it are one step (the page
polls one after the other at 1.2 s); the loopback requests of the page are answered: a failed
load would leave the page at the revision its poll had already recorded.  `Header` reads the
bytes it was answered with: the code passes them through a temporary file named after the
GGUF file alone (`discovery/mod.rs:144-148`), which two passes at the same file share, so
that one may parse the header that the other wrote between its `fs::write` and its read.
No await lies between the two; the window is not modelled, and `ArchOfPin` does not cover it.

**Run.** `discovery_main`: two passes, one repository with two versions, the second of which
has an incomplete header; a first launch without a cache, or with one left by an earlier build
with an incomplete block; two instants.  Two passes are enough for an old one to write over
or into a newer one's file, and one repository for everything that is said of an entry,
because entries do not depend on each other.  `PageCatchesUp` is under weak fairness of the
timer, of a load asked for and of an answer under way, all of which the browser and the
loopback server provide; no fairness of the passes.  It is about behaviours that are not
relaunched for ever.

**Proofs.** `DiscoveryTyped`, `DiscoveryFlagClears`; `DiscoveryPinsFresh` and
`DiscoveryArchOfPin` come from one inductive invariant, `EntriesInv`: revisions are at most
the clock (`Clocks`); every entry anywhere, in the cache (`Cached`), of a seed (`Seeded`) or
found (`Found`), is `Sound`, that is, pins no version to come and, while its pin is current,
has that version's arch; those found or saved by this build are `Complete` as well, and
`Fresh` for their revision; and so is a pin that waits for its header (`Pinned`).
`UploadKeeps` says that an upload disturbs none of it, which is where the clock is needed.
`PageCatchesUp` is liveness and stays with TLC.

**Divergences** (no run).  (11) `catalog/mod.rs:93` says "Guard on revision so a stale cache
can never shadow a newer bundled build", but a cache's revision is the time of its pass in
seconds (`lib.rs:359`) and a build's is counted by one (`bin/catgen.rs:116-123`): the cache
wins however old it is, and a newer build's catalog is used only until the first pass has
saved.  (12) `DISCOVERING` is "Whether a catalog discovery pass is currently running"
(`lib.rs:328`); the first of two overlapping passes to end clears it for both.  (13) Passes
are not ordered: a slow one that started earlier saves over a newer one's catalog and the
active revision goes back (`maybe_update_catalog`, `catalog/mod.rs:120`, is not called), which
the page, comparing with what it has loaded, does not notice until the next launch or load.
(14) `discovery/mod.rs:16` says "Every outbound request is logged"; a body that breaks off
(`bytes().await?`, lines 68, 98, 142) is not.

## Fit and GGUF: `Fit`, `Gguf`, `MCFit`, `FitProofs`

**State.** An evaluation is one request: `pc`, what it `ask`ed (a model, a context, the bytes
of a cache element, and whether to load, to show a local verdict, or to show the catalog's),
`avail` (free memory less headroom, as it measured it), the layers placed so far (`ngl`,
`used`) and the `verdict`.  Of the machine there are the `sidecar` (the evaluation whose load
started it), whether it is `serving`, that is, has its memory, and what `others` hold.
`seen` is history: what others held when an evaluation looked.  `Header` is what is known of
each model; `MCFit` computes it with `Gguf!Describe` from small files, tensor by tensor.

**Actions.** `MeasureVram` and `MeasureRam` are two readings, between which everything else
moves.  A verdict is one of `Unverified`, `FitsFully`, `FitsTight`, or `Splits` with one
`Place` for each round of the loop and then `GpuCpuSplit`, `CpuOnly` or `Exceeds`.  Then
`Shows`, `LoadRefused`, `Launches` or `LaunchFails`.  `Serves`, `SidecarEnds` and
`OthersMove` are llama-server and the other programs.  The formula is `ComputeBuffer`, `Kv`,
`PerBlock`, `Need`, `Remainder`, under the names of the code.

**Abstracted.** A tenth is taken in floating point, which is the integer quotient up to 2^50;
sums do not overflow 64 bits for a file on a disk.  The readings of card and memory are
right.  An architecture that is not known counts no cache (that is why it is `unverified`).
A `runtime_start` with a number of layers from its client is not evaluated by the code and
not modelled (no page calls it).

**Run.** `fit_main`: two requests beside each other, of eight that differ in one thing each;
40 units of memory of each kind, so that every verdict and 0 to 3 layers occur, on and one
off each boundary.  The constants are small; the theorems are about any.

**Proofs.** `FitTyped`.  The invariant `FitInv` says of every evaluation that its layers are
within the budget it measured (`Underway`), that a verdict has its `Grounds` in what was
measured, and that this leaves what others held and the headroom (`Reserved`); and that a
sidecar was launched on a verdict (`Loaded`).  `FitLaunchesFit`: what a verdict promises of
the measured memory, `Reserved` promises of the machine, because the old process is gone when
the new one allocates.  `FitRefusesRightly`: the loop has placed the most layers there is room
for (`Filled`), and the remainder falls with every layer, so what it cannot hold no other
split can; here it matters that a block has at least a byte, and that blocks are no more than
the weights, the assumption on `Header`.  `FitMoreNeverHurts`: the sizes grow with context and
cache (`SizesGrow`), so `Filled` counts fewer layers (`FilledOrder`).

**Divergences.** (15) "Honest refusal: don't start llama-server for a model ... can't fit at
all" (`lib.rs:759`), which "exceeds this machine's VRAM + RAM" (763): the memory is measured
while Kayon's own sidecar, which the load would have replaced, still has its part, so a model
that fits the machine is refused until the user stops the other (`RefusedExceedsMachine` in
`MCFit_main.cfg`).  (16) `runtime/mod.rs:243` says that the loadable architectures are
"deliberately broader than the fit engine's supported-standard-attention set"; `qwen3moe`,
`dbrx` and `olmoe` are in that set (`gguf/mod.rs:311`) and are not loadable (246-253), so they
get a verdict and are then refused (`RuntimeArchs`, `StandardArchs`).

## The library: `Library`, `Holdings`, `MCLibrary`, `LibraryProofs`

**State.** `path` and `sha` are the rows of `installed_models`; `file` is what is on the disk
at each path, `linked` the paths that are hard links to a blob of Ollama's store, `blob` and
`offer` what Ollama holds and what its manifests (or, for a model of the catalog, the
catalog) name; `libdir` is `library_dir.txt`.  All of these survive a crash.  A file's name
is fixed by its model, so a path is a directory and a model.  Per handler: a relocation's
list (`todo`), the row it is at (`cur`) and the bytes a copy holds (`held`); an adoption's
model, directory and digest; a deletion's row and path; a download's path and pinned hash.

**Actions.** A relocation is `RelocateList`, then per row `RelocateSkips`, or
`RelocateRenames`, or `RelocateCopies`, `RelocateCopied` and `RelocateRemoves`, then
`RelocateRow`; `RelocateEnds` records the directory, `RelocateFails` is every `?` in between.
Adoption is `AdoptStart` (the handler's reads), one of `AdoptRefused`, `AdoptFinds`,
`AdoptLinks`, `AdoptCopies` and `AdoptCopied`, then `AdoptInserts`; `AdoptFails` ends it
after the file.  Deletion is `DeleteReads`, `DeleteFile` or `DeleteFails`, `DeleteRow`.
`Crash` drops every handler.  A download is what `Download` shows of it: it fixes its path,
lands or stops with part of a file, and inserts its row.

**Assumed.** A rename within a volume succeeds.  The page offers to download only what is not
installed (`src/src/pages/Browser.tsx:73`).  Between `fs::copy`'s first and last byte the
file is `Partial`, which is nobody's contents.

**Tangles.** Nothing in the code keeps two operations on one model apart, or an adoption from
inserting a second row for a model that is being relocated.  `tangled` is set when two
handlers have the same model in hand, when two rows name the same model, or when an adoption
heads for a path whose row has no such file; properties are about the behaviours before that.
What follows a tangle was looked at with TLC (no run):

- a relocation renames or copies over a file of that name in the new directory, and the
  UNIQUE path of the other row then fails the update: the relocation ends, its row dangling;
- an adoption that crosses a deletion of the same path replaces the row under a new id, the
  deletion then removes the new row's file and leaves the row;
- a deletion of a model that a relocation has listed leaves a file without a row.

Without any tangle these remain, and no property excludes them: a crash between rename and
row leaves the row naming no file for ever (`RowsSound` allows no file); half a copy left by
a failed adoption refuses every later adoption of that model; and a hard link left by a crash
before its row was inserted is written through by a later copy onto it (relocate away, adopt
by copy, relocate back), which changes Ollama's own blob, and destroys it if that copy fails.

**What is promised.** `Holdings` knows no paths, links or handlers: of each model it knows whether
it is on the `shelf`, in which contents, whether those are `whole` on the disk, and whether
its deletion was asked for (`doomed`).  A model is admitted only if it is whole and no other
version of it is there (`Admit`); files come and go, but not those of what is on the shelf
and not doomed (`Shuffle`); only what is doomed is dropped (`Doom`, `Drop`), and a deletion
may come to nothing (`Spare`).  `Books` in `Library` says where that is: a row stands for its
model and hash, contents are whole if they are at any of the model's paths, a deletion under
way dooms what its row stands for.  `ImplementsHoldings` is that every step is a step of
`Holdings` until something is tangled.  A row that replaces a row of the same path changes
nothing on the shelf; a row whose file is gone stays on it, which is all the code promises of
it.

**Run.** `library_main`: two directories on one volume, a third, the default, on the volume
of Ollama's store, one model of each source, two row ids, one handler of each kind, two
relocations.  That is rename, copy and link each in both directions, there and back again.
`OnlyDeletionLoses` is why a relocation copies, updates the row and only then forgets.
States after a tangle are cut off (`MCUntangled`); no fairness, no liveness.

**Proofs.** `LibraryTyped` from `Types` (what a handler has in hand has its type).
`LibraryRowsSound`: `RowsSound` is not inductive, because a row may only be moved to a
finished copy and inserted for a finished file.  `Holds` says per handler what its file is
(`MoversHold`, `AdoptersHold`, `DeletersHold`, `DrivesHold`), `Apart` that nobody else is at
that model, which follows from `~tangled`, and `LinksHold` that links are on the volume of
Ollama's store, so that a copy never writes the file it reads.  `Sound` is all of it.
`LibraryOnlyDeletionLoses`: `CopiesThere` adds that a relocation's copy is at its new path,
on another volume than the file it then removes, since nobody else is at the model to take it
away.  `RelocateTouches` says what each of its steps leaves of the row's two files; an
adoption writes only where there is no file or half of one, and not through a link
(`AdoptSpares`); a download's model has no row (`DownloadSpares`); and a row that stays keeps
its model (`ModelKept`).

`LibraryKeepsHoldings`: that nothing but a deletion loses a model is the step `Shuffle`, but
`Admit` needs more than `RowsSound`, which allows a row without a file.  `There` says that the
file of an adoption or a download that is about to insert its row is on the disk: nobody else
is at that model to take it away (`AdoptersThere`, `DrivesThere`).  `Shown` adds it to the
invariant above, and `BooksStep` maps the operations one by one: `RelocateBooks` to
`Shuffle`, `AdoptBooks` and `DownloadBooks` to `Shuffle` and for the row, by `InsertBooks`, to
`Admit` or, when it replaces one that stands for the same, to no step, `DeleteBooks` to `Doom`, `Spare` and `Drop`, `CrashBooks` to `Spare`.
`UntangledIsHoldings` is the same without the proviso, for behaviours in which nothing is
ever tangled.

## Not modelled

The hardware probe (system calls), the benchmark (one timed request), the HTTP shell (static
files, the CSRF decision), the other pages, which poll and hold nothing, and the developer's
binaries and packaging: none of them keeps a state that others rely on.  Of the modelled parts
each section says what is abstracted.

## The tools: `Tools`, `Calculator`, `ReadPath`, `MCTools`, `AgentProofs`

**State.** One call at a time: `phase` and `end`; `asked` and `answer` of a call that answers at
once; of a program its `script` file, the process (`child`), a process of its own that it
left behind (`helper`), whether it `hung`, the stream it wants to print to, what each `pipe`
holds, what was `printed` and `kept`, and the streams read to their end (`eof`); of a fetch
the `hops`, the requests `sent` and the rows `logged`.  The calls of a turn follow one another
and those of two turns share nothing but the folder, so one call is enough; `Another` is the
next.  The agent loop is detached from its client, so no call is dropped in the middle but by
the end of the app, which may leave the script.

**Actions.** `Calculate`, `ReadFile`, `BadCall`.  `Stage`, `Launch`, then the program
(`Wants`, `Prints`, `Hangs`, `Forks`, `Exits`) beside the two readers (`Drain` takes any part
of a pipe, `ReachesEnd`), and `Finish` or `Timeout`.  `Finish` says in `answer` what the
answer has of each stream (`Told`).  `Search`, `SearchRedirected` and `Searched`; `Fetch`, then
per hop `Refuses` or `Asks` and `Redirects` or `Fetched`.  The program is the user's.

**Algorithms.** `Calculator!Eval` is the recursive descent, `Meaning` the value that the
grammar gives the same tokens by splitting them in every way; the two agree on every text of
the run (`CalculatorReads`, in `MCTools`).  `Tools` takes the calculator as a constant,
`Calc`, to which the configuration gives `Eval`: what a call does with the value does not
depend on it, and so the proofs need no recursive operator.  A sign binds tighter than `^`,
so `-2^2` is 4.  `ReadPath!Resolve` is the search for the file that a model means, `Meant`
says which that is; a name that two files match is none.

**Abstracted.** Numbers are fractions and small whole exponents; letters of names are three;
a size is a few bytes.  The vetting of addresses and paths, the listing of a directory, the
writing of a file and the text of an HTML page or a PDF are choices or left out.  A stream of
exactly the cap is marked truncated though nothing was cut; one of which only white space was
kept is left out of the answer, unmarked (`blank`, 486 and 491).  A read of a pipe that fails
(516) ends the reading of that stream as its end does, and is left out.

**Runs.** `tools_main`: pipes of two bytes, a cap of two, three bytes to each stream, so
that a program waits for a reader, and the output is below, at and past the cap; as many
hops as the code has, and as many redirects of a search as the HTTP client follows by itself
(ten is the default of `reqwest`, and 562-568 set no other).  Fairness: the readers, the
program while it does not hang, and the requests (20 s) go on; the 30 seconds are assumed to
end only a call whose program hangs or has left its streams to another process.  So
`CallEnds` says that no other call needs them: both streams are read until their end at the
same time, past the cap too.  If `helper` keeps the streams, the call waits for the 30
seconds although the program has ended, and the helper lives on (only the direct child is
killed).

**Proofs.** `CallTypes`, `ProgramsEnd`, `OutputIsTold`, `RequestsAreLogged` and
`FilesAreMeant`, from `CallInv`, for pipes, caps, outputs and chains of any size.
`StreamsRead` says at every step what `OutputTold` says at the end: what is kept of a stream
is the beginning of what was printed and is no longer in the pipe; `StreamsEnd` that a
stream has ended only when its pipe is empty and nobody can print.  `HopsLogged` counts: the
requests of a fetch are the hops and one, rows the requests but the one that waits; a search
has one row at its end.  `FilesAreMeant` needs no bound on names: `Resolve` is shown to find
`Meant` (`ResolveMeant`), because each kind of match is wider than the one before (`Wider`),
so that where a narrower kind has two candidates no wider one has a single one.
`CallsGoOnward` is what `CallEnds` has of safety: what a call has before it is, per stream,
the bytes to print and to read (`ToPrint`) and its end (`ToRead`), the program's own two
last steps (`ToRun`), the requests (`ToAsk`, `ToFollow`) and the answer (`ToEnd`).  Each is
a natural number (`LeftNat`), and every step makes one less and none greater (`LeftFalls`);
only what a process left behind does is `Aside`, which is what the 30 seconds are for.  So
no chain of redirects, no output past the cap and no reading of single bytes keeps a call
going for ever.  That a step is always taken is fairness, and stays with TLC. What the
calculator computes is an induction over texts and a recursive operator, so
`CalculatorReads` is model-checked only, and so is `CallEnds`.

**Divergence** (no run).  (18) `tools/mod.rs:7-8` says of the web tools "every request flows
through the single instrumented client so it lands in the network log (PRIV-5)".  `http_client`
(562-568) sets no redirect policy, so the client of `web_search` follows up to ten redirects by
itself, and `web_search` logs one row whatever it followed.  `EveryRequestLogged`, added to
`MCTools_main.cfg`, shows it.  "Every hop that actually opens a socket is logged" is said of the
fetch, which follows its redirects itself; that is `RequestsLogged`.

## The chat page: `ChatView`, `Ledger`, `ChatStore`, `MCChatView`, `ChatsProofs`

**State.** The server's `life`, `settings` and `saved` (the chat, its settings, its
messages).  Of the page: whether it is `up`, and how often it was opened (`mount`), `busy`,
the chat it has `open`, the messages `shown` and the settings `set`, the flush `timer`, and
`last` in localStorage. What it waits for: the list (`boot`), chats to open (`loads`), a
chat for picked files (`picks`), a deletion (`removal`), and settings on their way
(`flights`).  A turn keeps what its closure does: the chat and settings at the click
(`home`, `chosen`), the opening of the page (`from`) and then the chat it is recorded
`into`.  Folder and auto-approve stand for all settings.  `granted`, `failed` and `strayed`
are history.

**Actions.** Every `await` splits an operation: `OpenSession`, `LoadReads`, `LoadAnswers`;
`RemoveSession`, `Removed`; `FilesPicked`, `AttachCreates` or `AttachFails`; `Mount`,
`BootOpens` or `BootEnds`; `Send`, `EnsureUpdates` or `EnsureCreates` or `EnsureFails`, `Ask`,
`Streams`, `StreamEnds`, `Record`.  A turn that gave neither text nor a tool call has "nothing
at all to record" (289, 293): it ends as `EndsSilent`, with its question recorded and no
answer, and asks nothing more of the server.  `Edit` restarts the timer, and so does `Tweak`, the
side panel (513), which is not locked during a turn; `TimerFires`, and every other
`Flush`, sends what the page shows then to what is open then, and `FlushArrives` in any order.
`apiFetch` (`src/src/lib/api.ts:10`) never throws: a call that failed is an answer, which most
callers do not look at. A turn that was sent goes on when the page is left; only its view of
it is gone (`Here`).  So do the other calls: a deletion or a chat for picked files that was
asked for is made, and what follows it in the code runs on a page that is gone (`~Mine`): it
shows nothing, but it forgets the `last` chat and flushes once more the settings which that
page had when it was left (`left`).

**What is stated.** `TurnsInTheirChat`, `TrustIsPerFolder` and `ComposerFrees` hold whatever
comes late. `ImplementsLedger` says the whole of it at once: `Ledger` is the page without the
page, chats, turns and what is recorded, and `Book` in `ChatView` says where its variables are
(a question is dealt with when the turn streams, an answer when it is done). `ShownOfChat` is
about behaviours in which no answer has moved the page (`~strayed`): the guard at 156, "don't
reset the view out from under an in-flight stream", looks at `busy` at the click, and the
answer of an open, a restore, a deletion or an attach that began before a turn resets or moves
the page while it runs. What follows is a view that shows one chat's stream under another's
name until it is opened again; the rows are right.

`Ledger` leaves an answer out for three reasons: its chat was deleted, the server refused it,
or the turn produced none.  The third is the turn's own saying (`silent`), so of such a turn it
still demands the question.

**Not stated, because it does not hold.** Edits made while an open waits are lost with their
timer (the comment at 122 says that settings "must persist across switches"); two flushes of
one chat may arrive in the other order, and the older settings stay; files picked in one chat
and answered in another leave a chip there (not modelled), and the note at 269 then names
files that are not in that chat's folder.

**Not modelled.** What a stream does to a list of messages that a late deletion has emptied.
Text patches nothing there, as in `Streams`; but a tool card makes `upsertTool` (249) read a
message that is not there, which React raises when it renders, and no component catches it:
the page is torn down until it is loaded again, while the turn goes on and is recorded.

**Run.** `view_main`: two chats, two turns, one folder, six clicks, two openings, one request
of settings and two other calls under way at once.  A click is what the user does; six are
enough to open, send, switch, delete and come back in every order.  `ComposerFrees` assumes that
the server answers, and that a turn of the agent ends (`TurnEnds` in `Agent`).

**Proofs.** `TurnsAreRecorded`, `TrustStays` and `PageShowsItsChat` make the three invariants
of the run theorems, `PageKeepsTheLedger` the refinement; `ViewTypes`, `OneTurnPerPage`,
`TurnKeepsItsChat` and `MessagesStay` say what they rest on. All come from one invariant,
`ViewInv`, in four groups beside the types.

- *Recording.* `TurnsInTheirChat` looks at rows only, and a step that appends to one needs to
  know which turns are where: `InPlace` ties `into` to the chat at the click and to how far
  the turn is, `NotesInPlace` ties every recorded message to `into`, and `Recorded` adds that
  a turn past its question has it in the row, so the answer that is appended comes after it. A
  new chat cannot already hold messages because no id is given twice (`Newborn`).
- *Trust.* `Trust` and `LeftTrusted` are `TrustIsPerFolder` with the settings that picked files
  wait with; without those, `AttachCreates` gives a chat settings nothing is known of.
- *The composer.* `Composer`: a turn of this opening of the page that is under way means
  `busy`, there is one at most, and `busy` means that there is one. It is what makes the
  others inductive: the user can move the page only when no turn of it is under way.
- *What is shown.* `Follows`: until an answer strays, the page stands where its turn is
  recorded; `LoadsInPlace`: what a load has read was recorded in the chat it was asked of,
  whatever becomes of that chat before the answer. With both, a load, a stream or a new turn
  shows what belongs to the chat opened (`ShownBelongs`). A step that changes what is shown,
  open or strayed is one of a few (`MovingSteps`); the others are done once.

*The ledger.* `LedgerTurn` maps each step of a turn to the one of `Ledger` it stands for, and
`LedgerStep` the deletions and the chats made for picked files; the other steps leave what it
knows alone (`ServerSteps`, `TurnSteps`). `MessagesOnce`, that no message is recorded twice,
is proved on the six actions of `Ledger` and not on the forty of the page (`OnceStep`).

*The server.* The page is modelled against a server of its own, whose answers could be made up.
`ViewKeepsStore` says that they are not: that server is a `ChatStore`, which is what the
handlers of `Chats`, in all their steps, are shown to be (`ChatsKeepStore`).  The page's calls
reach it as `Create`, `Update`, `Tell` and `Remove`, and settings for a chat that is gone as no
step (`UpdatesStore`, `CreatesStore`, `AppendsStore`).

Only `ComposerFrees`, a liveness property, stays with TLC.  What it rests on is proved: the
composer is locked only by a turn of the page that is under way (`OneTurnPerPage`), which the
fairness makes end.
