------------------------------- MODULE Update -------------------------------
(***************************************************************************)
(* Self-update (src-tauri/src/update/mod.rs): the check for a newer        *)
(* version, the download of the announced one, its installation.           *)
(*                                                                         *)
(* Three mutexes guard what the handlers share: STATE, what the UI polls;  *)
(* ANNOUNCED, the offer; PENDING, the verified installer.  The check and   *)
(* the download let go of all of them while they wait for the network, and *)
(* the installation never takes STATE.                                     *)
(***************************************************************************)
EXTENDS Naturals

CONSTANTS
    Tasks,        \* request handlers, and the check at launch
    MaxVersion,   \* versions are 0 (the one first installed) .. MaxVersion
    MaxGone,      \* bound on how many clients disconnect while their handler waits
    None          \* no version

ASSUME UpdateAssumption ==
    MaxVersion \in Nat /\ MaxGone \in Nat /\ None \notin Nat /\ "free" \notin Tasks

VARIABLES
    autoCheck,    \* the preference update.auto_check
    running,      \* the version of the running app
    launched,     \* this process has done its launch check
    checking, downloading, ready, error, available,    \* UpdateState
    announced,    \* ANNOUNCED: the version on offer
    pending,      \* PENDING: the version of the bytes that are held
    held,         \* the task that holds the STATE mutex across steps, or Free
    pc,           \* where each task is
    update,       \* the update a task works on
    bytes,        \* the version of the installer a task has taken
    gone,         \* how many clients have disconnected
    \* history
    accepted      \* the versions the user has asked this process to download

status == <<checking, downloading, ready, error, available>>
shared == <<announced, pending, held>>
task   == <<update, bytes>>
app    == <<autoCheck, running, launched, gone>>
vars   == <<app, status, shared, pc, task, accepted>>

Versions == 0 .. MaxVersion
Free     == "free"
Offer    == Versions \cup {None}

InFlight == {"check", "fetch"}
Acting   == {"agreed", "fetch", "clicked", "installing"}
PC       == {"idle", "offer", "withdraw"} \cup InFlight \cup Acting

----------------------------------------------------------------------------
TypeOK ==
    /\ autoCheck \in BOOLEAN /\ launched \in BOOLEAN
    /\ running \in Versions /\ gone \in 0 .. MaxGone
    /\ checking \in BOOLEAN /\ downloading \in BOOLEAN
    /\ ready \in BOOLEAN /\ error \in BOOLEAN
    /\ available \in Offer /\ announced \in Offer /\ pending \in Offer
    /\ held \in Tasks \cup {Free}
    /\ pc \in [Tasks -> PC]
    /\ update \in [Tasks -> Offer] /\ bytes \in [Tasks -> Offer]
    /\ \A t \in Tasks : /\ pc[t] \in Acting \cup {"offer"} => update[t] \in Versions
                        /\ pc[t] = "installing" => bytes[t] \in Versions
    /\ accepted \in SUBSET Versions

Init ==
    /\ autoCheck = TRUE /\ running = 0 /\ launched = FALSE /\ gone = 0
    /\ checking = FALSE /\ downloading = FALSE /\ ready = FALSE /\ error = FALSE
    /\ available = None /\ announced = None /\ pending = None
    /\ held = Free
    /\ pc = [t \in Tasks |-> "idle"]
    /\ update = [t \in Tasks |-> None]
    /\ bytes = [t \in Tasks |-> None]
    /\ accepted = {}

\* A new process: the preference and the version are all that is left.
NewProcess ==
    /\ launched' = FALSE
    /\ checking' = FALSE /\ downloading' = FALSE /\ ready' = FALSE /\ error' = FALSE
    /\ available' = None /\ announced' = None /\ pending' = None
    /\ held' = Free
    /\ pc' = [t \in Tasks |-> "idle"]
    /\ update' = [t \in Tasks |-> None]
    /\ bytes' = [t \in Tasks |-> None]
    /\ accepted' = {}

----------------------------------------------------------------------------
Move(t, from, to) == pc[t] = from /\ pc' = [pc EXCEPT ![t] = to]

\* A handler returns; what it cloned is dropped.
Return(t) ==
    /\ pc' = [pc EXCEPT ![t] = "idle"]
    /\ update' = [update EXCEPT ![t] = None]
    /\ bytes' = [bytes EXCEPT ![t] = None]

(* check().  A check in flight makes a second one return at once.          *)

CheckStart(t) ==
    /\ held = Free /\ ~checking
    /\ checking' = TRUE /\ error' = FALSE
    /\ Move(t, "idle", "check")
    /\ UNCHANGED <<downloading, ready, available, shared, task>>

ManualCheck(t) == CheckStart(t) /\ UNCHANGED <<app, accepted>>

\* The check at launch, which the preference switches off.
LaunchCheck(t) ==
    /\ ~launched /\ launched' = TRUE
    /\ \/ autoCheck /\ CheckStart(t)
       \/ (~autoCheck \/ checking) /\ held = Free /\ UNCHANGED <<status, shared, pc, task>>
    /\ UNCHANGED <<autoCheck, running, gone, accepted>>

\* The manifest names a newer version: bytes of any other one are dropped ...
CheckOffers(t) ==
    /\ held = Free /\ held' = t
    /\ checking' = FALSE
    /\ \E v \in Versions :
          /\ v > running
          /\ update' = [update EXCEPT ![t] = v]
          /\ pending' = IF available = v THEN pending ELSE None
          /\ ready' = (ready /\ available = v)
    /\ Move(t, "check", "offer")
    /\ UNCHANGED <<app, downloading, error, available, announced, bytes, accepted>>

\* ... and then it is announced.
CheckAnnounces(t) ==
    /\ pc[t] = "offer"
    /\ announced' = update[t]
    /\ available' = update[t]
    /\ held' = Free
    /\ Return(t)
    /\ UNCHANGED <<app, checking, downloading, ready, error, pending, accepted>>

\* The manifest names nothing newer: the offer is dropped ...
CheckWithdraws(t) ==
    /\ held = Free /\ held' = t
    /\ checking' = FALSE
    /\ announced' = None
    /\ Move(t, "check", "withdraw")
    /\ UNCHANGED <<app, downloading, ready, error, available, pending, task, accepted>>

\* ... and then the bytes.
CheckDrops(t) ==
    /\ pc[t] = "withdraw"
    /\ pending' = None
    /\ available' = None
    /\ ready' = FALSE
    /\ held' = Free
    /\ Return(t)
    /\ UNCHANGED <<app, checking, downloading, error, announced, accepted>>

CheckFails(t) ==
    /\ held = Free /\ pc[t] = "check"
    /\ checking' = FALSE /\ error' = TRUE
    /\ Return(t)
    /\ UNCHANGED <<app, downloading, ready, available, shared, accepted>>

----------------------------------------------------------------------------
(* download(): takes the announced update, before it looks at STATE.       *)

Download(t) ==
    /\ announced # None
    /\ update' = [update EXCEPT ![t] = announced]
    /\ accepted' = accepted \cup {announced}
    /\ Move(t, "idle", "agreed")
    /\ UNCHANGED <<app, status, shared, bytes>>

\* Mutant: does not ask whether a download is in flight.
DownloadStartsAnyway(t) ==
    /\ held = Free
    /\ Move(t, "agreed", "fetch") /\ UNCHANGED task
    /\ downloading' = TRUE /\ ready' = FALSE /\ error' = FALSE
    /\ UNCHANGED <<app, checking, available, shared, accepted>>

DownloadStarts(t) ==
    /\ held = Free
    /\ \/ /\ ~downloading
          /\ Move(t, "agreed", "fetch") /\ UNCHANGED task
          /\ downloading' = TRUE /\ ready' = FALSE /\ error' = FALSE
       \/ /\ downloading /\ pc[t] = "agreed"
          /\ Return(t)
          /\ UNCHANGED <<downloading, ready, error>>
    /\ UNCHANGED <<app, checking, available, shared, accepted>>

\* The bytes are here and their signature is good.
DownloadDone(t) ==
    /\ held = Free /\ pc[t] = "fetch"
    /\ downloading' = FALSE
    /\ pending' = update[t]
    /\ ready' = TRUE
    /\ Return(t)
    /\ UNCHANGED <<app, checking, error, available, announced, held, accepted>>

\* Mutant: the error path leaves the flag set.
DownloadFailsBusy(t) ==
    /\ held = Free /\ pc[t] = "fetch"
    /\ error' = TRUE
    /\ Return(t)
    /\ UNCHANGED <<app, checking, downloading, ready, available, shared, accepted>>

DownloadFails(t) ==
    /\ held = Free /\ pc[t] = "fetch"
    /\ downloading' = FALSE /\ error' = TRUE
    /\ Return(t)
    /\ UNCHANGED <<app, checking, ready, available, shared, accepted>>

----------------------------------------------------------------------------
(* install_and_relaunch(): reads the offer, and then takes the bytes.      *)

Install(t) ==
    /\ announced # None
    /\ update' = [update EXCEPT ![t] = announced]
    /\ Move(t, "idle", "clicked")
    /\ UNCHANGED <<app, status, shared, bytes, accepted>>

\* Mutant: does not compare the versions.
InstallTakesAny(t) ==
    /\ pc[t] = "clicked" /\ pending # None
    /\ pending' = None
    /\ Move(t, "clicked", "installing")
    /\ bytes' = [bytes EXCEPT ![t] = pending]
    /\ UNCHANGED <<app, status, announced, held, update, accepted>>

\* The bytes are taken, and refused if they are not those of the offer that was read.
InstallTakes(t) ==
    /\ pc[t] = "clicked"
    /\ pending' = None
    /\ \/ /\ pending = update[t]
          /\ Move(t, "clicked", "installing")
          /\ bytes' = [bytes EXCEPT ![t] = pending]
          /\ UNCHANGED update
       \/ pending # update[t] /\ Return(t)
    /\ UNCHANGED <<app, status, announced, held, accepted>>

\* The installer has run: the new version starts.
InstallDone(t) ==
    /\ pc[t] = "installing"
    /\ running' = bytes[t]
    /\ NewProcess
    /\ UNCHANGED <<autoCheck, gone>>

InstallFails(t) ==
    /\ pc[t] = "installing"
    /\ Return(t)
    /\ UNCHANGED <<app, status, shared, accepted>>

----------------------------------------------------------------------------
SetAutoCheck ==
    /\ autoCheck' = ~autoCheck
    /\ UNCHANGED <<running, launched, gone, status, shared, pc, task, accepted>>

\* The client of a waiting handler disconnects: axum drops the handler's future.
ClientGone(t) ==
    /\ gone < MaxGone /\ gone' = gone + 1
    /\ pc[t] \in InFlight
    /\ Return(t)
    /\ UNCHANGED <<autoCheck, running, launched, status, shared, accepted>>

\* The user closes the app, and starts it again.
Restart ==
    /\ NewProcess
    /\ UNCHANGED <<autoCheck, running, gone>>

Checks(t) ==
    \/ CheckOffers(t) \/ CheckAnnounces(t) \/ CheckWithdraws(t) \/ CheckDrops(t) \/ CheckFails(t)

Downloads(t) == DownloadStarts(t) \/ DownloadDone(t) \/ DownloadFails(t)

Installs(t) == InstallTakes(t) \/ InstallDone(t) \/ InstallFails(t)

User(t) == ManualCheck(t) \/ Download(t) \/ Install(t)

Next ==
    \/ \E t \in Tasks : User(t) \/ LaunchCheck(t) \/ Checks(t) \/ Downloads(t) \/ Installs(t)
    \/ \E t \in Tasks : ClientGone(t)
    \/ SetAutoCheck
    \/ Restart

Spec == Init /\ [][Next]_vars

(* A handler runs on, its request is answered or fails in the end, and the *)
(* STATE mutex is not withheld from it for ever.                           *)
Fairness ==
    \A t \in Tasks : SF_vars(Checks(t)) /\ SF_vars(Downloads(t)) /\ WF_vars(Installs(t))

FairSpec == Spec /\ Fairness

----------------------------------------------------------------------------
(* Properties.                                                             *)

\* What the app becomes is the version that was on offer at the click on Relaunch,
\* and one the user had agreed to download: whatever a check made of the offer while
\* the download or the installation was under way.
InstallsAgreed ==
    [][running' # running =>
         running' \in accepted /\ \E t \in Tasks : pc[t] = "installing" /\ update[t] = running']_vars

\* One download at a time feeds the installer, one check at a time the offer, and a
\* handler that is gone never lets a second one in beside one that is still there.
OneAtATime ==
    \A s, t \in Tasks : pc[s] \in InFlight /\ pc[s] = pc[t] => s = t

\* While no client has disconnected in mid-request, a check and a download end, and
\* the next one is let in, whatever their outcome and the failures of others.
UpdateSettles ==
    /\ checking ~> (~checking \/ gone > 0)
    /\ downloading ~> (~downloading \/ gone > 0)

\* `ready`: "Downloaded and verified; the UI offers Relaunch to update from here":
\* the installer of the version shown is held, or being run.
ReadyIsHeld ==
    ready /\ held = Free /\ (\A t \in Tasks : pc[t] # "installing") => pending = available
=============================================================================
