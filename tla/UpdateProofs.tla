---------------------------- MODULE UpdateProofs ----------------------------
(***************************************************************************)
(* Theorems about Update, for any number of handlers, versions and clients *)
(* that go away.                                                           *)
(*                                                                         *)
(* The argument for the installation: the bytes that are held are those of *)
(* a version the user agreed to (Agreed), whatever the offer has become    *)
(* since; the installation compares them with the offer it read, so what   *)
(* it runs is both.                                                        *)
(***************************************************************************)
EXTENDS Update, TLAPS

USE UpdateAssumption

----------------------------------------------------------------------------
(* Type correctness. *)

LEMMA TypeInit == Init => TypeOK
<1> SUFFICES ASSUME Init PROVE TypeOK
  OBVIOUS
<1>1. /\ autoCheck \in BOOLEAN /\ launched \in BOOLEAN /\ checking \in BOOLEAN
      /\ downloading \in BOOLEAN /\ ready \in BOOLEAN /\ error \in BOOLEAN
  BY Zenon DEF Init
<1>2. /\ running \in Versions /\ gone \in 0 .. MaxGone
      /\ available \in Offer /\ announced \in Offer /\ pending \in Offer
      /\ held \in Tasks \cup {Free} /\ accepted \in SUBSET Versions
  BY DEF Init, Versions, Offer
<1>3. /\ pc \in [Tasks -> PC] /\ update \in [Tasks -> Offer] /\ bytes \in [Tasks -> Offer]
      /\ \A t \in Tasks : /\ pc[t] \in Acting \cup {"offer"} => update[t] \in Versions
                          /\ pc[t] = "installing" => bytes[t] \in Versions
  BY DEF Init, PC, Acting, Offer
<1> QED  BY <1>1, <1>2, <1>3 DEF TypeOK

\* The parts of the type invariant that the provers take apart.
Flags == /\ autoCheck \in BOOLEAN /\ launched \in BOOLEAN /\ checking \in BOOLEAN
         /\ downloading \in BOOLEAN /\ ready \in BOOLEAN /\ error \in BOOLEAN

Values == /\ running \in Versions /\ gone \in 0 .. MaxGone
          /\ available \in Offer /\ announced \in Offer /\ pending \in Offer
          /\ held \in Tasks \cup {Free} /\ accepted \in SUBSET Versions

Locals == /\ pc \in [Tasks -> PC] /\ update \in [Tasks -> Offer] /\ bytes \in [Tasks -> Offer]
          /\ \A t \in Tasks : /\ pc[t] \in Acting \cup {"offer"} => update[t] \in Versions
                              /\ pc[t] = "installing" => bytes[t] \in Versions

LEMMA TypeParts == TypeOK <=> Flags /\ Values /\ Locals
BY DEF TypeOK, Flags, Values, Locals

LEMMA FlagsStep == Flags /\ [Next]_vars => Flags'
<1> SUFFICES ASSUME Flags, [Next]_vars PROVE Flags'
  OBVIOUS
<1> USE DEF Flags, app, status, NewProcess
<1>1. ASSUME NEW t \in Tasks, ManualCheck(t) \/ LaunchCheck(t) PROVE Flags'
  BY <1>1, Zenon DEF ManualCheck, LaunchCheck, CheckStart
<1>2. ASSUME NEW t \in Tasks, Checks(t) PROVE Flags'
  <2>1. CASE CheckOffers(t)
    <3>1. ready' \in BOOLEAN /\ checking' \in BOOLEAN
      BY <2>1, Zenon DEF CheckOffers
    <3> QED  BY <2>1, <3>1, Zenon DEF CheckOffers
  <2> QED  BY <1>2, <2>1, Zenon DEF Checks, CheckAnnounces, CheckWithdraws, CheckDrops, CheckFails
<1>3. ASSUME NEW t \in Tasks, Download(t) \/ Downloads(t) PROVE Flags'
  BY <1>3, Zenon DEF Download, Downloads, DownloadStarts, DownloadDone, DownloadFails
<1>4. ASSUME NEW t \in Tasks, Install(t) \/ Installs(t) PROVE Flags'
  BY <1>4, Zenon DEF Install, Installs, InstallTakes, InstallDone, InstallFails
<1>5. ASSUME NEW t \in Tasks, ClientGone(t) PROVE Flags'
  BY <1>5, Zenon DEF ClientGone
<1>6. CASE SetAutoCheck \/ Restart
  BY <1>6, Zenon DEF SetAutoCheck, Restart
<1>7. CASE UNCHANGED vars
  BY <1>7, Zenon DEF vars
<1> QED  BY <1>1, <1>2, <1>3, <1>4, <1>5, <1>6, <1>7 DEF Next, User

LEMMA ValuesStep == Values /\ Locals /\ [Next]_vars => Values'
<1> SUFFICES ASSUME Values, Locals, [Next]_vars PROVE Values'
  OBVIOUS
<1> USE DEF Values, Locals, Versions, Offer, app, status, shared, Move
<1>1. ASSUME NEW t \in Tasks, ManualCheck(t) \/ LaunchCheck(t) PROVE Values'
  BY <1>1 DEF ManualCheck, LaunchCheck, CheckStart
<1>2. ASSUME NEW t \in Tasks, Checks(t) PROVE Values'
  BY <1>2 DEF Checks, CheckOffers, CheckAnnounces, CheckWithdraws, CheckDrops, CheckFails, Acting
<1>3. ASSUME NEW t \in Tasks, Download(t) \/ Downloads(t) PROVE Values'
  BY <1>3 DEF Download, Downloads, DownloadStarts, DownloadDone, DownloadFails, Acting
<1>4. ASSUME NEW t \in Tasks, Install(t) \/ InstallTakes(t) \/ InstallFails(t) PROVE Values'
  BY <1>4 DEF Install, InstallTakes, InstallFails
<1>5. ASSUME NEW t \in Tasks, InstallDone(t) PROVE Values'
  BY <1>5 DEF InstallDone, NewProcess
<1>6. ASSUME NEW t \in Tasks, ClientGone(t) PROVE Values'
  BY <1>6 DEF ClientGone
<1>7. CASE SetAutoCheck \/ Restart
  BY <1>7 DEF SetAutoCheck, Restart, NewProcess
<1>8. CASE UNCHANGED vars
  BY <1>8 DEF vars
<1> QED  BY <1>1, <1>2, <1>3, <1>4, <1>5, <1>6, <1>7, <1>8 DEF Next, User, Installs

LEMMA LocalsStep == Values /\ Locals /\ [Next]_vars => Locals'
<1> SUFFICES ASSUME Values, Locals, [Next]_vars PROVE Locals'
  OBVIOUS
<1> USE DEF Values, Locals, Offer, PC, InFlight, Acting, task, Move, Return, NewProcess
<1>1. ASSUME NEW t \in Tasks, ManualCheck(t) \/ LaunchCheck(t) PROVE Locals'
  BY <1>1 DEF ManualCheck, LaunchCheck, CheckStart
<1>2. ASSUME NEW t \in Tasks, Checks(t) PROVE Locals'
  BY <1>2 DEF Checks, CheckOffers, CheckAnnounces, CheckWithdraws, CheckDrops, CheckFails
<1>3. ASSUME NEW t \in Tasks, Download(t) \/ Downloads(t) PROVE Locals'
  BY <1>3 DEF Download, Downloads, DownloadStarts, DownloadDone, DownloadFails
<1>4. ASSUME NEW t \in Tasks, Install(t) \/ Installs(t) PROVE Locals'
  BY <1>4 DEF Install, Installs, InstallTakes, InstallDone, InstallFails
<1>5. ASSUME NEW t \in Tasks, ClientGone(t) PROVE Locals'
  BY <1>5 DEF ClientGone
<1>6. CASE SetAutoCheck \/ Restart
  BY <1>6 DEF SetAutoCheck, Restart
<1>7. CASE UNCHANGED vars
  BY <1>7 DEF vars
<1> QED  BY <1>1, <1>2, <1>3, <1>4, <1>5, <1>6, <1>7 DEF Next, User

LEMMA TypeStep == TypeOK /\ [Next]_vars => TypeOK'
<1> SUFFICES ASSUME TypeOK, [Next]_vars PROVE TypeOK'
  OBVIOUS
<1>1. Flags' /\ Values' /\ Locals'
  BY TypeParts, FlagsStep, ValuesStep, LocalsStep
<1> QED  BY <1>1 DEF TypeOK, Flags, Values, Locals

\* The variables keep their types in every behaviour.
THEOREM UpdateTyped == Spec => []TypeOK
BY TypeInit, TypeStep, PTL DEF Spec

----------------------------------------------------------------------------
(* One check and one download at a time. *)

\* The flag that lets a handler in is up while one is inside.
FlagUp == \A t \in Tasks : /\ pc[t] = "check" => checking
                           /\ pc[t] = "fetch" => downloading

LEMMA FlagStep ==
    TypeOK /\ FlagUp /\ OneAtATime /\ [Next]_vars => FlagUp' /\ OneAtATime'
<1> SUFFICES ASSUME TypeOK, FlagUp, OneAtATime, [Next]_vars PROVE FlagUp' /\ OneAtATime'
  OBVIOUS
<1> USE DEF TypeOK, FlagUp, OneAtATime, InFlight, task, status, Move, Return, NewProcess
<1>1. ASSUME NEW t \in Tasks, ManualCheck(t) \/ LaunchCheck(t) PROVE FlagUp' /\ OneAtATime'
  <2>1. CASE CheckStart(t)
    <3>1. /\ \A s \in Tasks : pc[s] # "check"
          /\ checking' /\ (downloading' <=> downloading)
      BY <2>1, Zenon DEF CheckStart
    <3>2. pc' = [pc EXCEPT ![t] = "check"]
      BY <2>1 DEF CheckStart
    <3>3. \A s \in Tasks : pc'[s] = IF s = t THEN "check" ELSE pc[s]
      BY <3>2
    <3> QED  BY <3>1, <3>3
  <2>2. CASE ~CheckStart(t)
    BY <1>1, <2>2 DEF ManualCheck, LaunchCheck
  <2> QED  BY <2>1, <2>2
<1>2. ASSUME NEW t \in Tasks, Checks(t) PROVE FlagUp' /\ OneAtATime'
  BY <1>2 DEF Checks, CheckOffers, CheckAnnounces, CheckWithdraws, CheckDrops, CheckFails
<1>3. ASSUME NEW t \in Tasks, Download(t) \/ Downloads(t) PROVE FlagUp' /\ OneAtATime'
  BY <1>3 DEF Download, Downloads, DownloadStarts, DownloadDone, DownloadFails
<1>4. ASSUME NEW t \in Tasks, Install(t) \/ Installs(t) PROVE FlagUp' /\ OneAtATime'
  BY <1>4 DEF Install, Installs, InstallTakes, InstallDone, InstallFails
<1>5. ASSUME NEW t \in Tasks, ClientGone(t) PROVE FlagUp' /\ OneAtATime'
  BY <1>5 DEF ClientGone
<1>6. CASE SetAutoCheck \/ Restart
  BY <1>6 DEF SetAutoCheck, Restart
<1>7. CASE UNCHANGED vars
  BY <1>7 DEF vars
<1> QED  BY <1>1, <1>2, <1>3, <1>4, <1>5, <1>6, <1>7 DEF Next, User

\* At most one check and one download are in flight, however many clients go away.
THEOREM OneTransferAtATime == Spec => []OneAtATime
<1>1. Init => FlagUp /\ OneAtATime
  BY DEF Init, FlagUp, OneAtATime, InFlight
<1> QED  BY <1>1, FlagStep, TypeInit, TypeStep, PTL DEF Spec

----------------------------------------------------------------------------
(* What is installed was agreed to. *)

\* The bytes that are held, being downloaded or being installed are of a version the
\* user agreed to download, and those being installed are of the offer that was read.
Agreed ==
    /\ pending # None => pending \in accepted
    /\ \A t \in Tasks : /\ pc[t] \in {"agreed", "fetch"} => update[t] \in accepted
                        /\ pc[t] = "installing" => bytes[t] = update[t] /\ bytes[t] \in accepted

\* One step installs nothing else.
AgreedInstall ==
    running' # running =>
       running' \in accepted /\ \E t \in Tasks : pc[t] = "installing" /\ update[t] = running'

LEMMA AgreedStep == TypeOK /\ Agreed /\ [Next]_vars => Agreed' /\ AgreedInstall
<1> SUFFICES ASSUME TypeOK, Agreed, [Next]_vars PROVE Agreed' /\ AgreedInstall
  OBVIOUS
<1> USE DEF TypeOK, Agreed, AgreedInstall, task, shared, app, Versions,
            Move, Return, NewProcess
<1>1. ASSUME NEW t \in Tasks, ManualCheck(t) \/ LaunchCheck(t) PROVE Agreed' /\ AgreedInstall
  BY <1>1 DEF ManualCheck, LaunchCheck, CheckStart
<1>2. ASSUME NEW t \in Tasks, Checks(t) PROVE Agreed' /\ AgreedInstall
  BY <1>2 DEF Checks, CheckOffers, CheckAnnounces, CheckWithdraws, CheckDrops, CheckFails
<1>3. ASSUME NEW t \in Tasks, Download(t) \/ Downloads(t) PROVE Agreed' /\ AgreedInstall
  BY <1>3 DEF Download, Downloads, DownloadStarts, DownloadDone, DownloadFails
<1>4. ASSUME NEW t \in Tasks, Install(t) \/ InstallFails(t) PROVE Agreed' /\ AgreedInstall
  BY <1>4 DEF Install, InstallFails
<1>5. ASSUME NEW t \in Tasks, InstallTakes(t) PROVE Agreed' /\ AgreedInstall
  <2>1. pc[t] = "clicked" /\ update[t] \in Versions /\ update[t] # None
    BY <1>5 DEF InstallTakes, Acting
  <2> QED  BY <1>5, <2>1 DEF InstallTakes
<1>6. ASSUME NEW t \in Tasks, InstallDone(t) PROVE Agreed' /\ AgreedInstall
  BY <1>6 DEF InstallDone
<1>7. ASSUME NEW t \in Tasks, ClientGone(t) PROVE Agreed' /\ AgreedInstall
  BY <1>7 DEF ClientGone
<1>8. CASE SetAutoCheck \/ Restart
  BY <1>8 DEF SetAutoCheck, Restart
<1>9. CASE UNCHANGED vars
  BY <1>9 DEF vars
<1> QED  BY <1>1, <1>2, <1>3, <1>4, <1>5, <1>6, <1>7, <1>8, <1>9 DEF Next, User, Installs

\* The app only ever becomes a version the user agreed to download and that was on
\* offer when Relaunch was clicked.
THEOREM InstallIsAgreed == Spec => InstallsAgreed
<1>1. Init => Agreed
  BY DEF Init, Agreed
<1>2. AgreedInstall =>
        [running' # running =>
           running' \in accepted /\ \E t \in Tasks : pc[t] = "installing" /\ update[t] = running']_vars
  BY DEF AgreedInstall
<1> QED  BY <1>1, <1>2, AgreedStep, TypeInit, TypeStep, PTL DEF Spec, InstallsAgreed

----------------------------------------------------------------------------
(* A flag that is up has its task. *)

\* A flag that keeps other handlers out is one of a handler that is still there.
FlagHasTask ==
    gone = 0 => /\ checking => \E t \in Tasks : pc[t] = "check"
                /\ downloading => \E t \in Tasks : pc[t] = "fetch"

LEMMA FlagHasTaskStep ==
    TypeOK /\ OneAtATime /\ FlagHasTask /\ [Next]_vars => FlagHasTask'
<1> SUFFICES ASSUME TypeOK, OneAtATime, FlagHasTask, [Next]_vars PROVE FlagHasTask'
  OBVIOUS
<1> USE DEF TypeOK, OneAtATime, FlagHasTask, InFlight, app, task, status, Move, Return, NewProcess
<1>1. ASSUME NEW t \in Tasks, ManualCheck(t) \/ LaunchCheck(t) PROVE FlagHasTask'
  BY <1>1 DEF ManualCheck, LaunchCheck, CheckStart
<1>2. ASSUME NEW t \in Tasks, Checks(t) PROVE FlagHasTask'
  BY <1>2 DEF Checks, CheckOffers, CheckAnnounces, CheckWithdraws, CheckDrops, CheckFails
<1>3. ASSUME NEW t \in Tasks, Download(t) \/ Downloads(t) PROVE FlagHasTask'
  BY <1>3 DEF Download, Downloads, DownloadStarts, DownloadDone, DownloadFails
<1>4. ASSUME NEW t \in Tasks, Install(t) \/ Installs(t) PROVE FlagHasTask'
  BY <1>4 DEF Install, Installs, InstallTakes, InstallDone, InstallFails
<1>5. ASSUME NEW t \in Tasks, ClientGone(t) PROVE FlagHasTask'
  BY <1>5 DEF ClientGone
<1>6. CASE SetAutoCheck \/ Restart
  BY <1>6 DEF SetAutoCheck, Restart
<1>7. CASE UNCHANGED vars
  BY <1>7 DEF vars
<1> QED  BY <1>1, <1>2, <1>3, <1>4, <1>5, <1>6, <1>7 DEF Next, User

\* While no client has disconnected in mid-request, no failure and no interleaving leaves
\* `checking` or `downloading` set with nobody to clear it.
THEOREM NoFlagIsLeft == Spec => []FlagHasTask
<1>1. Init => FlagHasTask
  BY DEF Init, FlagHasTask
<1> QED  BY <1>1, FlagHasTaskStep, OneTransferAtATime, UpdateTyped, PTL DEF Spec
=============================================================================
