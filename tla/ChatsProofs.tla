---------------------------- MODULE ChatsProofs -----------------------------
(***************************************************************************)
(* Theorems about Chats, for any chats, handlers, launches and directories *)
(* that cannot be removed; and about ChatView, the page before that server,*)
(* for any chats, turns and folders, and however often the page is opened. *)
(*                                                                         *)
(* Of the page, the invariant follows a message from the click to the row: *)
(* into which chat a turn is recorded is settled once, what a load brings  *)
(* was recorded in the chat it was asked of, and a turn that locks the     *)
(* composer keeps the user from moving the page away from it.              *)
(***************************************************************************)
EXTENDS Chats, ChatView, TLAPS

USE ChatsAssumption DEF Instances

----------------------------------------------------------------------------
(* Types.                                                                  *)

Stores ==
    /\ row \in [Chats -> {"unborn", "auto", "attached", "gone"}]
    /\ messages \subseteq Chats
    /\ auto \in [Chats -> {"absent", "empty", "files"}]

Handlers ==
    /\ pc \in [Tasks -> {"idle", "delete", "deleting", "removing", "resolved", "placed", "turn"}]
    /\ chat \in [Tasks -> Chats \cup {None}]
    /\ own \in [Tasks -> BOOLEAN]
    /\ \A t \in Tasks : pc[t] # "idle" => chat[t] \in Chats

Sweeps ==
    /\ phase \in [Instances -> {"off", "read", "list", "sweep", "up"}]
    /\ live \in [Instances -> SUBSET Chats]
    /\ todo \in [Instances -> SUBSET Chats]
    /\ \A i \in Instances : todo[i] # {} => phase[i] = "sweep"
    /\ runs \in [Instances -> Nat]

LEMMA TypeParts == Stores /\ Handlers /\ Sweeps => TypeOK
BY DEF TypeOK, Stores, Handlers, Sweeps

LEMMA StoresStep == Stores /\ Handlers /\ [Next]_vars => Stores'
<1> SUFFICES ASSUME Stores, Handlers, [Next]_vars PROVE Stores'
  OBVIOUS
<1> USE DEF Stores, Handlers
<1>1. ASSUME NEW c \in Chats, Row(c) PROVE Stores'
  BY <1>1 DEF Row, Create, UpdateSettings, AppendMessage
<1>2. ASSUME NEW t \in Tasks, Delete(t) PROVE Stores'
  BY <1>2 DEF Delete, DeleteRead, DeleteMessages, DeleteSession, RemoveWorkspace, RemoveDir
<1>3. ASSUME NEW t \in Tasks, Files(t) PROVE Stores'
  BY <1>3 DEF Files, Resolve, TurnStarts, Place, Attach, TurnWrites, TurnEnds, MakeDir, WriteFile
<1>4. ASSUME NEW i \in Instances, Startup(i) PROVE Stores'
  BY <1>4 DEF Startup, Launch, SweepRead, SweepList, SweepEnds, SweepRemoves, RemoveDir
<1>5. CASE Crash \/ UNCHANGED vars
  BY <1>5 DEF Crash, vars
<1> QED BY <1>1, <1>2, <1>3, <1>4, <1>5 DEF Next

LEMMA HandlersStep == Handlers /\ [Next]_vars => Handlers'
<1> SUFFICES ASSUME Handlers, [Next]_vars PROVE Handlers'
  OBVIOUS
<1> USE DEF Handlers
<1>1. ASSUME NEW t \in Tasks, NEW c \in Chats, NEW kayons \in BOOLEAN,
             NEW to \in {"delete", "resolved", "turn"}, Accept(t, c, kayons, to)
      PROVE  Handlers'
  BY <1>1 DEF Accept
<1>2. ASSUME NEW t \in Tasks, NEW to \in {"deleting", "removing", "placed"},
             pc[t] # "idle", Goto(t, to)
      PROVE  Handlers'
  BY <1>2 DEF Goto
<1>3. ASSUME NEW t \in Tasks, Goto(t, "idle") PROVE Handlers'
  BY <1>3 DEF Goto
<1>4. ASSUME NEW t \in Tasks, Delete(t) PROVE Handlers'
  BY <1>1, <1>2, <1>3, <1>4
     DEF Delete, DeleteRead, DeleteMessages, DeleteSession, RemoveWorkspace
<1>5. ASSUME NEW t \in Tasks, Files(t) PROVE Handlers'
  BY <1>1, <1>2, <1>3, <1>5 DEF Files, Resolve, TurnStarts, Place, Attach, TurnWrites, TurnEnds,
     task
<1>6. CASE Crash
  BY <1>6 DEF Crash
<1>7. ASSUME UNCHANGED task PROVE Handlers'
  BY <1>7 DEF task
<1> QED BY <1>4, <1>5, <1>6, <1>7 DEF Next, Row, Create, UpdateSettings, AppendMessage, Startup,
   Launch, SweepRead, SweepList, SweepEnds, SweepRemoves, vars

LEMMA SweepsStep == Stores /\ Sweeps /\ [Next]_vars => Sweeps'
<1> SUFFICES ASSUME Stores, Sweeps, [Next]_vars PROVE Sweeps'
  OBVIOUS
<1> USE DEF Sweeps
<1>1. ASSUME NEW i \in Instances, Launch(i) PROVE Sweeps'
  BY <1>1 DEF Launch
<1>2. ASSUME NEW i \in Instances, SweepRead(i) PROVE Sweeps'
  BY <1>2 DEF SweepRead, Rows
<1>3. ASSUME NEW i \in Instances, SweepList(i) PROVE Sweeps'
  BY <1>3 DEF SweepList
<1>4. ASSUME NEW i \in Instances, SweepEnds(i) PROVE Sweeps'
  BY <1>4 DEF SweepEnds
<1>5. ASSUME NEW i \in Instances, NEW c \in Chats, SweepRemoves(i, c) PROVE Sweeps'
  BY <1>5 DEF SweepRemoves
<1>6. CASE Crash
  BY <1>6 DEF Crash
<1>7. ASSUME UNCHANGED sweep PROVE Sweeps'
  BY <1>7 DEF sweep
<1> QED BY <1>1, <1>2, <1>3, <1>4, <1>5, <1>6, <1>7
        DEF Next, Row, Create, UpdateSettings, AppendMessage, Delete, DeleteRead, DeleteMessages,
            DeleteSession, RemoveWorkspace, Files, Resolve, TurnStarts, Place, Attach, TurnWrites,
            TurnEnds, Startup, vars

Typed == Stores /\ Handlers /\ Sweeps

LEMMA TypedAlways == Spec => []Typed
<1>1. Init => Typed
  BY DEF Init, Typed, Stores, Handlers, Sweeps
<1>2. Typed /\ [Next]_vars => Typed'
  BY StoresStep, HandlersStep, SweepsStep DEF Typed
<1> QED BY <1>1, <1>2, PTL DEF Spec

\* Every variable keeps its type, and a sweep is over when its list is empty.
THEOREM ChatsTyped == Spec => []TypeOK
BY TypedAlways, TypeParts, PTL DEF Typed

----------------------------------------------------------------------------
(* Rows.                                                                   *)

\* Between the two statements of a delete its chat has no messages; when the directory
\* is removed its row is gone.
Deleting ==
    \A t \in Tasks : /\ pc[t] = "deleting" => chat[t] \notin messages
                     /\ pc[t] = "removing" => row[chat[t]] = "gone"

RowsInv == NoOrphanMessages /\ Deleting

LEMMA RowsStep == Typed /\ RowsInv /\ [Next]_vars => RowsInv'
<1> SUFFICES ASSUME Typed, RowsInv, [Next]_vars PROVE RowsInv'
  OBVIOUS
<1> USE DEF Typed, Stores, Handlers, RowsInv, NoOrphanMessages, Deleting, HasRow
<1>1. ASSUME NEW c \in Chats, Row(c) PROVE RowsInv'
  <2>1. ASSUME NEW w \in {"auto", "attached"}, Create(c, w) PROVE RowsInv'
    BY <2>1 DEF Create, task
  <2>2. ASSUME NEW w \in {"auto", "attached"}, UpdateSettings(c, w) PROVE RowsInv'
    BY <2>2 DEF UpdateSettings, task
  <2>3. CASE AppendMessage(c)
    BY <2>3 DEF AppendMessage, DbFree, task
  <2> QED BY <1>1, <2>1, <2>2, <2>3 DEF Row
<1>2. ASSUME NEW t \in Tasks, Delete(t) PROVE RowsInv'
  <2>1. ASSUME NEW c \in Chats, DeleteRead(t, c) PROVE RowsInv'
    BY <2>1 DEF DeleteRead, Accept
  <2>2. CASE DeleteMessages(t)
    BY <2>2 DEF DeleteMessages, Goto
  <2>3. CASE DeleteSession(t)
    BY <2>3 DEF DeleteSession, Goto
  <2>4. CASE RemoveWorkspace(t)
    BY <2>4 DEF RemoveWorkspace, Goto
  <2> QED BY <1>2, <2>1, <2>2, <2>3, <2>4 DEF Delete
<1>3. ASSUME NEW t \in Tasks, Files(t) PROVE RowsInv'
  BY <1>3 DEF Files, Resolve, TurnStarts, Place, Attach, TurnWrites, TurnEnds, Accept, Goto, task
<1>4. CASE Crash
  BY <1>4 DEF Crash
<1>5. ASSUME UNCHANGED <<row, messages, task>> PROVE RowsInv'
  BY <1>5 DEF task
<1> QED BY <1>1, <1>2, <1>3, <1>4, <1>5
        DEF Next, Startup, Launch, SweepRead, SweepList, SweepEnds, SweepRemoves, vars

LEMMA RowsAlways == Spec => []RowsInv
<1>1. Init => RowsInv
  BY DEF Init, RowsInv, NoOrphanMessages, Deleting
<1> QED BY <1>1, RowsStep, TypedAlways, PTL DEF Spec

\* No message survives its chat.
THEOREM MessagesHaveChats == Spec => []NoOrphanMessages
<1>1. RowsInv => NoOrphanMessages
  BY DEF RowsInv
<1> QED BY <1>1, RowsAlways, PTL

----------------------------------------------------------------------------
(* The sweep.                                                              *)

\* Nothing else runs during the app's own sweep, so its list of chats is the rows, and
\* whatever has none is on its list of directories.
Alone == ~Serving => \A t \in Tasks : pc[t] = "idle"

Exact ==
    /\ phase["app"] \in {"list", "sweep"} => live["app"] = Rows
    /\ \A i \in Instances : todo[i] \cap live[i] = {}
    /\ phase["app"] = "sweep" =>
          \A c \in Chats \ Stuck : HasRow(c) \/ auto[c] = "absent" \/ c \in todo["app"]

SweepInv == Alone /\ Exact

LEMMA AloneStep == Typed /\ Alone /\ [Next]_vars => Alone'
<1> SUFFICES ASSUME Typed, Alone, [Next]_vars PROVE Alone'
  OBVIOUS
<1> USE DEF Typed, Handlers, Sweeps, Alone, Serving
<1>1. ASSUME NEW t \in Tasks, Delete(t) PROVE Alone'
  BY <1>1 DEF Delete, DeleteRead, DeleteMessages, DeleteSession, RemoveWorkspace, Accept, Goto,
     sweep, Serving
<1>2. ASSUME NEW t \in Tasks, Files(t) PROVE Alone'
  BY <1>2 DEF Files, Resolve, TurnStarts, Place, Attach, TurnWrites, TurnEnds, Accept, Goto,
     sweep, task
<1>3. ASSUME NEW i \in Instances, Startup(i) PROVE Alone'
  BY <1>3 DEF Startup, Launch, SweepRead, SweepList, SweepEnds, SweepRemoves, task
<1>4. CASE Crash
  BY <1>4 DEF Crash
<1>5. ASSUME UNCHANGED <<task, sweep>> PROVE Alone'
  BY <1>5 DEF task, sweep
<1> QED BY <1>1, <1>2, <1>3, <1>4, <1>5
        DEF Next, Row, Create, UpdateSettings, AppendMessage, vars

LEMMA ExactStep == Typed /\ Alone /\ Exact /\ [Next]_vars => Exact'
<1> SUFFICES ASSUME Typed, Alone, Exact, [Next]_vars PROVE Exact'
  OBVIOUS
<1> USE DEF Typed, Stores, Sweeps, Exact, Rows, HasRow
<1>1. ASSUME NEW i \in Instances, Launch(i) PROVE Exact'
  BY <1>1 DEF Launch
<1>2. ASSUME NEW i \in Instances, SweepRead(i) PROVE Exact'
  BY <1>2 DEF SweepRead
<1>3. ASSUME NEW i \in Instances, SweepList(i) PROVE Exact'
  BY <1>3 DEF SweepList
<1>4. ASSUME NEW i \in Instances, SweepEnds(i) PROVE Exact'
  BY <1>4 DEF SweepEnds
<1>5. ASSUME NEW i \in Instances, NEW c \in Chats, SweepRemoves(i, c) PROVE Exact'
  BY <1>5 DEF SweepRemoves, RemoveDir
<1>6. CASE Crash
  BY <1>6 DEF Crash
<1>7. ASSUME Serving, UNCHANGED sweep PROVE Exact'
  BY <1>7 DEF sweep, Serving
<1>8. ASSUME UNCHANGED vars PROVE Exact'
  BY <1>8 DEF vars, sweep
<1>9. ASSUME NEW t \in Tasks, Delete(t) \/ Files(t) PROVE Serving /\ UNCHANGED sweep
  BY <1>9 DEF Alone, Delete, DeleteRead, DeleteMessages, DeleteSession, RemoveWorkspace, Accept,
     Files, Resolve, TurnStarts, Place, Attach, TurnWrites, TurnEnds
<1>10. ASSUME NEW c \in Chats, Row(c) PROVE Serving /\ UNCHANGED sweep
  BY <1>10 DEF Row, Create, UpdateSettings, AppendMessage
<1> QED BY <1>1, <1>2, <1>3, <1>4, <1>5, <1>6, <1>7, <1>8, <1>9, <1>10 DEF Next, Startup

LEMMA SweepAlways == Spec => []SweepInv
<1>1. Init => SweepInv
  BY DEF Init, SweepInv, Alone, Exact, Serving
<1>2. Typed /\ SweepInv /\ [Next]_vars => SweepInv'
  BY AloneStep, ExactStep DEF SweepInv
<1> QED BY <1>1, <1>2, TypedAlways, PTL DEF Spec

\* The files of a chat that has a row are removed by nobody but a stray with an older
\* list of chats.
THEOREM FilesOfChatsKept == Spec => LiveFilesKept
<1>1. Typed /\ RowsInv /\ SweepInv /\ [Next]_vars =>
        (\A c \in Chats : HasRow(c) /\ auto[c] = "files" /\ auto'[c] # "files" =>
             phase["stray"] = "sweep" /\ c \in todo["stray"] \ live["stray"])
  <2> SUFFICES ASSUME Typed, RowsInv, SweepInv, [Next]_vars, NEW c \in Chats,
                      HasRow(c), auto[c] = "files", auto'[c] # "files"
               PROVE  phase["stray"] = "sweep" /\ c \in todo["stray"] \ live["stray"]
    OBVIOUS
  <2> USE DEF Typed, Stores, Handlers
  <2>1. ASSUME NEW t \in Tasks, RemoveWorkspace(t) PROVE FALSE
    BY <2>1 DEF RemoveWorkspace, RemoveDir, RowsInv, Deleting, HasRow
  <2>2. ASSUME NEW t \in Tasks, Files(t) PROVE FALSE
    BY <2>2 DEF Files, Resolve, TurnStarts, Place, Attach, TurnWrites, TurnEnds, MakeDir,
       WriteFile
  <2>3. PICK i \in Instances : SweepRemoves(i, c)
    BY <2>1, <2>2 DEF Next, Row, Create, UpdateSettings, AppendMessage, Delete, DeleteRead,
       DeleteMessages, DeleteSession, Startup, Launch, SweepRead, SweepList, SweepEnds,
       SweepRemoves, RemoveDir, Crash, vars
  <2>4. i # "app"
    BY <2>3 DEF SweepRemoves, SweepInv, Exact, Rows
  <2> QED BY <2>3, <2>4 DEF SweepRemoves, SweepInv, Exact
<1> QED BY <1>1, TypedAlways, RowsAlways, SweepAlways, PTL DEF Spec, LiveFilesKept

\* The app serves when nothing that can be removed is left of chats without a row.
THEOREM OrphansReclaimed == Spec => SweepReclaims
<1>1. Typed /\ SweepInv /\ [Next]_vars =>
        (~Serving /\ Serving' => \A c \in Chats \ Stuck : ~HasRow(c) => auto'[c] = "absent")
  <2> SUFFICES ASSUME Typed, SweepInv, [Next]_vars, ~Serving, Serving'
               PROVE  \A c \in Chats \ Stuck : ~HasRow(c) => auto'[c] = "absent"
    OBVIOUS
  <2>1. SweepEnds("app")
    BY DEF Next, Row, Create, UpdateSettings, AppendMessage, Delete, DeleteRead, DeleteMessages,
       DeleteSession, RemoveWorkspace, Files, Resolve, TurnStarts, Place, Attach, TurnWrites,
       TurnEnds, Accept, Startup, Launch, SweepRead, SweepList, SweepEnds, SweepRemoves, Crash,
       vars, sweep, Serving, Typed, Sweeps
  <2> QED BY <2>1 DEF SweepEnds, SweepInv, Exact
<1> QED BY <1>1, TypedAlways, SweepAlways, PTL DEF Spec, SweepReclaims

----------------------------------------------------------------------------
(* The chat page: its invariant.                                           *)

\* A turn is under way.
Active(t) == turn[t] \in {"ensure", "ask", "stream", "record"}

\* The types, part by part.
RowsOK ==
    /\ life \in [ChatIds -> {"unborn", "live", "gone"}]
    /\ settings \in [ChatIds -> Settings] /\ saved \in [ChatIds -> Seq(Note)]
    /\ \A c \in ChatIds : ~Exists(c) => saved[c] = <<>>

PageOK ==
    /\ mount \in 0..MaxMounts /\ up \in BOOLEAN /\ busy \in BOOLEAN /\ (up => mount # 0)
    /\ open \in Born \cup {Nothing} /\ last \in Born \cup {Nothing}
    /\ shown \in Seq(Note) /\ set \in Settings /\ timer \in BOOLEAN
    /\ boot \in {"none", "asked", "cancelled"}
    /\ clicks \in 0..MaxClicks /\ granted \subseteq Folders \cup {Nothing}
    /\ failed \subseteq Turns /\ strayed \in BOOLEAN

Loaded(l) == l.data # Nothing => l.data \in [set : Settings, notes : Seq(Note)]

Removals == [chat : Born, wasOpen : BOOLEAN, from : 1..MaxMounts,
             left : SUBSET [chat : Born, set : Settings]]

WaitsOK ==
    /\ \A l \in loads : l = [chat |-> l.chat, data |-> l.data] /\ l.chat \in Born /\ Loaded(l)
    /\ picks \subseteq [set : Settings, from : 1..MaxMounts]
    /\ removal \subseteq Removals
    /\ flights \subseteq [chat : Born, set : Settings]

TurnsOK ==
    /\ turn \in [Turns -> Step] /\ home \in [Turns -> Born \cup {Nothing}]
    /\ chosen \in [Turns -> Settings] /\ from \in [Turns -> 0..MaxMounts]
    /\ into \in [Turns -> Born \cup {Nothing}]

\* A turn has no chat before ensureSession answers, then the one it was sent from or the one
\* made for it, or none because the server refused.
InPlace ==
    \A t \in Turns :
        /\ turn[t] \in {"idle", "ensure"} => into[t] = Nothing
        /\ turn[t] \notin {"idle", "ensure"} /\ into[t] = Nothing => t \in failed
        /\ into[t] # Nothing => home[t] \in {into[t], Nothing}

\* Every message is in the chat of its turn,
NotesInPlace ==
    \A c \in ChatIds : \A i \in 1..Len(saved[c]) : into[saved[c][i].turn] = c

Question(t) == [turn |-> t, role |-> "user"]
Reply(t) == [turn |-> t, role |-> "assistant"]

\* and what was to be recorded of a turn is there, in order.
Recorded ==
    \A t \in Turns : t \notin failed /\ into[t] # Nothing /\ Exists(into[t]) =>
        /\ turn[t] \in {"stream", "record", "silent"} =>
              \E i \in 1..Len(saved[into[t]]) : saved[into[t]][i] = Question(t)
        /\ turn[t] = "done" =>
              \E i, j \in 1..Len(saved[into[t]]) :
                  /\ i < j /\ saved[into[t]][i] = Question(t)
                  /\ saved[into[t]][j] = Reply(t)

Trusted(s) == s.auto => s.folder \in granted

\* Every copy of some settings, those of picked files that wait for a chat included, has
\* auto-approve on only for a folder it was switched on for.
Trust ==
    /\ Trusted(set) /\ \A c \in ChatIds : Trusted(settings[c])
    /\ \A f \in flights : Trusted(f.set)
    /\ \A t \in Turns : Trusted(chosen[t])
    /\ \A p \in picks : Trusted(p.set)
    /\ \A l \in loads : l.data # Nothing => Trusted(l.data.set)

\* and so have those that a page which is gone will still send.
LeftTrusted == \A r \in removal : \A f \in r.left : Trusted(f.set)

\* While a turn of this opening of the page is under way the composer is locked, and there
\* is one such turn.
Composer ==
    /\ \A t \in Turns : from[t] <= mount
    /\ \A t \in Turns : Here(t) /\ Active(t) => busy
    /\ \A t, u \in Turns : Here(t) /\ Active(t) /\ Here(u) /\ Active(u) => t = u
    /\ busy => \E t \in Turns : Here(t) /\ Active(t)

\* What is on its way to the page is of the chat it was asked of,
LoadsInPlace ==
    \A l \in loads : l.data # Nothing =>
        \A i \in 1..Len(l.data.notes) : into[l.data.notes[i].turn] = l.chat

\* the page is where its turn is unless an answer moved it away,
Follows ==
    ~strayed => \A t \in Turns : Here(t) =>
        /\ turn[t] = "ensure" => home[t] = open
        /\ turn[t] \in {"ask", "stream", "record"} =>
              t \in failed \/ (open # Nothing /\ into[t] = open)

Belongs(t) ==
    \/ open # Nothing /\ into[t] = open
    \/ Here(t) /\ turn[t] = "ensure" /\ home[t] = open
    \/ t \in failed

\* and so is what it shows.
ShownBelongs == ~strayed => \A i \in 1..Len(shown) : Belongs(shown[i].turn)

----------------------------------------------------------------------------
(* Which steps change the server's rows, and which the turns.              *)

ServerStep ==
    \/ \E f \in flights : FlushArrives(f)
    \/ \E r \in removal : Removed(r)
    \/ \E p \in picks, c \in ChatIds : AttachCreates(p, c)
    \/ \E t \in Turns : EnsureUpdates(t) \/ Ask(t) \/ Record(t)
    \/ \E t \in Turns, c \in ChatIds : EnsureCreates(t, c)

LEMMA ServerSteps == [ViewNext]_viewVars => ServerStep \/ UNCHANGED server
<1> SUFFICES ASSUME [ViewNext]_viewVars PROVE ServerStep \/ UNCHANGED server
  OBVIOUS
<1>1. CASE User
  <2>1. ASSUME NEW c \in ChatIds, OpenSession(c) \/ RemoveSession(c) PROVE UNCHANGED server
    BY <2>1 DEF OpenSession, RemoveSession
  <2>2. ASSUME NEW f, ChangeWorkspace(f) PROVE UNCHANGED server
    BY <2>2 DEF ChangeWorkspace, Edit
  <2>3. ASSUME NEW t \in Turns, Send(t) PROVE UNCHANGED server
    BY <2>3 DEF Send
  <2>4. CASE Mount \/ Unmount \/ NewChat \/ Tweak \/ ToggleAuto \/ FilesPicked
    BY <2>4 DEF Mount, Unmount, NewChat, Tweak, ToggleAuto, Edit, FilesPicked
  <2> QED BY <1>1, <2>1, <2>2, <2>3, <2>4 DEF User
<1>2. CASE Answers
  <2>1. CASE TimerFires \/ BootEnds \/ \E c \in ChatIds : BootOpens(c)
    BY <2>1 DEF TimerFires, BootEnds, BootOpens
  <2>2. ASSUME NEW l \in loads, LoadReads(l) \/ LoadAnswers(l) PROVE UNCHANGED server
    BY <2>2 DEF LoadReads, LoadAnswers
  <2>3. ASSUME NEW p \in picks, AttachFails(p) PROVE UNCHANGED server
    BY <2>3 DEF AttachFails
  <2>4. ASSUME NEW t \in Turns, Advance(t) \/ Streams(t) PROVE ServerStep \/ UNCHANGED server
    <3>1. CASE \/ EnsureFails(t) \/ AskFails(t) \/ StreamEnds(t) \/ EndsSilent(t)
               \/ RecordFails(t) \/ Streams(t)
      BY <3>1 DEF EnsureFails, AskFails, StreamEnds, EndsSilent, RecordFails, Streams
    <3> QED BY <2>4, <3>1 DEF Advance, ServerStep
  <2> QED BY <1>2, <2>1, <2>2, <2>3, <2>4 DEF Answers, ServerStep
<1>3. CASE UNCHANGED viewVars
  BY <1>3 DEF viewVars
<1> QED BY <1>1, <1>2, <1>3 DEF ViewNext

TurnStep == \E t \in Turns : Send(t) \/ Advance(t)

LEMMA TurnSteps == [ViewNext]_viewVars => TurnStep \/ UNCHANGED <<turns, failed>>
<1> SUFFICES ASSUME [ViewNext]_viewVars PROVE TurnStep \/ UNCHANGED <<turns, failed>>
  OBVIOUS
<1>1. CASE User
  <2>1. ASSUME NEW c \in ChatIds, OpenSession(c) \/ RemoveSession(c)
        PROVE  UNCHANGED <<turns, failed>>
    BY <2>1 DEF OpenSession, RemoveSession
  <2>2. ASSUME NEW f, ChangeWorkspace(f) PROVE UNCHANGED <<turns, failed>>
    BY <2>2 DEF ChangeWorkspace, Edit
  <2>3. CASE Mount \/ Unmount \/ NewChat \/ Tweak \/ ToggleAuto \/ FilesPicked
    BY <2>3 DEF Mount, Unmount, NewChat, Tweak, ToggleAuto, Edit, FilesPicked
  <2> QED BY <1>1, <2>1, <2>2, <2>3 DEF User, TurnStep
<1>2. CASE Answers
  <2>1. CASE TimerFires \/ BootEnds \/ \E c \in ChatIds : BootOpens(c)
    BY <2>1 DEF TimerFires, BootEnds, BootOpens
  <2>2. ASSUME NEW l \in loads, LoadReads(l) \/ LoadAnswers(l) PROVE UNCHANGED <<turns, failed>>
    BY <2>2 DEF LoadReads, LoadAnswers
  <2>3. ASSUME NEW p \in picks, AttachFails(p) \/ \E c \in ChatIds : AttachCreates(p, c)
        PROVE  UNCHANGED <<turns, failed>>
    BY <2>3 DEF AttachFails, AttachCreates
  <2>4. ASSUME NEW f, FlushArrives(f) PROVE UNCHANGED <<turns, failed>>
    BY <2>4 DEF FlushArrives
  <2>5. ASSUME NEW r, Removed(r) PROVE UNCHANGED <<turns, failed>>
    BY <2>5 DEF Removed
  <2>6. ASSUME NEW t \in Turns, Streams(t) PROVE UNCHANGED <<turns, failed>>
    BY <2>6 DEF Streams
  <2> QED BY <1>2, <2>1, <2>2, <2>3, <2>4, <2>5, <2>6 DEF Answers, TurnStep
<1>3. CASE UNCHANGED viewVars
  BY <1>3 DEF viewVars
<1> QED BY <1>1, <1>2, <1>3 DEF ViewNext

----------------------------------------------------------------------------
(* Types.                                                                  *)

LEMMA Newborn ==
    ASSUME NEW c, NEW s, Creates(c, s)
    PROVE  c \in ChatIds \ Born
<1>1. ChatIds \ Born # {}
  BY DEF Creates, Born
<1> QED BY <1>1 DEF Creates

\* A chat that is gone does not come back, and its id is not given again.
LEMMA LifeStep ==
    ASSUME RowsOK, [ViewNext]_viewVars
    PROVE  /\ Born \subseteq Born'
           /\ \A c \in ChatIds : Exists(c)' => Exists(c) \/ c \notin Born
<1>1. CASE UNCHANGED life
  BY <1>1 DEF Born, Exists
<1>2. ASSUME NEW c, NEW s, Creates(c, s) PROVE
           /\ Born \subseteq Born'
           /\ \A d \in ChatIds : Exists(d)' => Exists(d) \/ d \notin Born
  <2>1. c \in ChatIds /\ c \notin Born /\ life' = [life EXCEPT ![c] = "live"]
    BY <1>2, Newborn DEF Creates
  <2> QED BY <2>1 DEF Born, Exists, RowsOK
<1>3. ASSUME NEW r \in removal, Removed(r) PROVE
           /\ Born \subseteq Born'
           /\ \A d \in ChatIds : Exists(d)' => Exists(d) \/ d \notin Born
  BY <1>1, <1>3 DEF Removed, Born, Exists, RowsOK
<1>4. CASE ServerStep
  <2>1. ASSUME NEW f \in flights, FlushArrives(f) PROVE UNCHANGED life
    BY <2>1 DEF FlushArrives
  <2>2. ASSUME NEW p \in picks, NEW c \in ChatIds, AttachCreates(p, c) PROVE \E s : Creates(c, s)
    BY <2>2 DEF AttachCreates
  <2>3. ASSUME NEW t \in Turns, EnsureUpdates(t) \/ Ask(t) \/ Record(t) PROVE UNCHANGED life
    BY <2>3 DEF EnsureUpdates, Ask, Record
  <2>4. ASSUME NEW t \in Turns, NEW c \in ChatIds, EnsureCreates(t, c) PROVE \E s : Creates(c, s)
    BY <2>4 DEF EnsureCreates
  <2> QED BY <1>1, <1>2, <1>3, <1>4, <2>1, <2>2, <2>3, <2>4 DEF ServerStep
<1>5. CASE UNCHANGED server
  BY <1>1, <1>5 DEF server
<1> QED BY <1>4, <1>5, ServerSteps

LEMMA ViewInitOK == ViewInit => RowsOK /\ PageOK /\ WaitsOK /\ TurnsOK
<1> SUFFICES ASSUME ViewInit PROVE RowsOK /\ PageOK /\ WaitsOK /\ TurnsOK
  OBVIOUS
<1>1. Default \in Settings
  BY DEF Default, Settings
<1>2. RowsOK
  BY <1>1 DEF ViewInit, RowsOK, Exists
<1>3. PageOK
  <2>1. /\ mount = 0 /\ up = FALSE /\ busy = FALSE /\ open = Nothing /\ shown = <<>>
        /\ set = Default /\ timer = FALSE /\ last = Nothing /\ boot = "none"
        /\ clicks = 0 /\ granted = {} /\ failed = {} /\ strayed = FALSE
    BY DEF ViewInit
  <2>2. mount \in 0..MaxMounts /\ clicks \in 0..MaxClicks
    BY <2>1, ViewAssumption
  <2>3. shown \in Seq(Note)
    BY <2>1
  <2>4. /\ open \in Born \cup {Nothing} /\ last \in Born \cup {Nothing}
        /\ set \in Settings /\ (up => mount # 0)
    BY <1>1, <2>1
  <2>5. up \in BOOLEAN /\ busy \in BOOLEAN /\ timer \in BOOLEAN /\ strayed \in BOOLEAN
    BY <2>1
  <2>6. /\ boot \in {"none", "asked", "cancelled"}
        /\ granted \subseteq Folders \cup {Nothing} /\ failed \subseteq Turns
    BY <2>1
  <2> QED BY <2>2, <2>3, <2>4, <2>5, <2>6 DEF PageOK
<1>4. WaitsOK
  BY DEF ViewInit, WaitsOK
<1>5. TurnsOK
  BY <1>1, ViewAssumption DEF ViewInit, TurnsOK, Step
<1> QED BY <1>2, <1>3, <1>4, <1>5

LEMMA AppendsOK ==
    ASSUME RowsOK, NEW c \in ChatIds \cup {Nothing}, NEW t \in Turns,
           NEW role \in {"user", "assistant"}, Appends(c, t, role)
    PROVE  /\ saved' \in [ChatIds -> Seq(Note)]
           /\ \A d \in ChatIds : saved'[d] # saved[d] => Exists(d)
<1>1. [turn |-> t, role |-> role] \in Note
  BY DEF Note
<1> QED BY <1>1 DEF RowsOK, Appends

LEMMA ViewRowsStep ==
    RowsOK /\ WaitsOK /\ TurnsOK /\ [ViewNext]_viewVars => RowsOK'
<1> SUFFICES ASSUME RowsOK, WaitsOK, TurnsOK, [ViewNext]_viewVars PROVE RowsOK'
  OBVIOUS
<1>1. CASE UNCHANGED server
  BY <1>1 DEF RowsOK, server, Exists
<1>2. ASSUME NEW c \in ChatIds, NEW s \in Settings, Updates(c, s), UNCHANGED <<life, saved>>
      PROVE  RowsOK'
  BY <1>2 DEF RowsOK, Updates, Exists
<1>3. ASSUME NEW c, NEW s \in Settings, Creates(c, s), UNCHANGED saved PROVE RowsOK'
  <2>1. c \in ChatIds \ Born
    BY <1>3, Newborn
  <2> QED BY <1>3, <2>1 DEF RowsOK, Creates, Born, Exists
<1>4. ASSUME NEW t \in Turns, NEW role \in {"user", "assistant"}, Appends(into[t], t, role),
             UNCHANGED <<life, settings>>
      PROVE  RowsOK'
  <2>1. into[t] \in ChatIds \cup {Nothing}
    BY DEF TurnsOK, Born
  <2>2. /\ saved' \in [ChatIds -> Seq(Note)]
        /\ \A d \in ChatIds : saved'[d] # saved[d] => Exists(d)
    BY <1>4, <2>1, AppendsOK
  <2> QED BY <1>4, <2>2 DEF RowsOK, Exists
<1>5. ASSUME NEW f \in flights, FlushArrives(f) PROVE RowsOK'
  BY <1>2, <1>5 DEF FlushArrives, WaitsOK, Born
<1>6. ASSUME NEW r \in removal, Removed(r) PROVE RowsOK'
  <2>1. r.chat \in ChatIds
    BY DEF WaitsOK, Removals, Born
  <2>2. settings' = settings
    BY <1>6 DEF Removed
  <2>3. CASE life' = [life EXCEPT ![r.chat] = "gone"] /\ saved' = [saved EXCEPT ![r.chat] = <<>>]
    BY <2>1, <2>2, <2>3 DEF RowsOK, Exists
  <2>4. CASE UNCHANGED <<life, saved>>
    BY <1>1, <2>2, <2>4 DEF server
  <2> QED BY <1>6, <2>3, <2>4 DEF Removed
<1>7. ASSUME NEW p \in picks, NEW c \in ChatIds, AttachCreates(p, c) PROVE RowsOK'
  <2>1. p.set \in Settings
    BY DEF WaitsOK
  <2> QED BY <1>3, <1>7, <2>1 DEF AttachCreates
<1>8. ASSUME NEW t \in Turns, EnsureUpdates(t) PROVE RowsOK'
  <2>1. home[t] \in ChatIds /\ chosen[t] \in Settings
    BY <1>8 DEF EnsureUpdates, TurnsOK, Born
  <2> QED BY <1>2, <1>8, <2>1 DEF EnsureUpdates
<1>9. ASSUME NEW t \in Turns, NEW c \in ChatIds, EnsureCreates(t, c) PROVE RowsOK'
  <2>1. chosen[t] \in Settings
    BY DEF TurnsOK
  <2> QED BY <1>3, <1>9, <2>1 DEF EnsureCreates
<1>10. ASSUME NEW t \in Turns, Ask(t) \/ Record(t) PROVE RowsOK'
  BY <1>4, <1>10 DEF Ask, Record
<1> QED BY <1>1, <1>5, <1>6, <1>7, <1>8, <1>9, <1>10, ServerSteps DEF ServerStep

\* Steps that only move a turn on, or record a message, leave the page's view alone.
LEMMA PageStep ==
    RowsOK /\ PageOK /\ WaitsOK /\ TurnsOK /\ [ViewNext]_viewVars => PageOK'
<1> SUFFICES ASSUME RowsOK, PageOK, WaitsOK, TurnsOK, [ViewNext]_viewVars PROVE PageOK'
  OBVIOUS
<1> USE ViewAssumption DEF PageOK
<1>0. Born \subseteq Born' /\ Born' \subseteq ChatIds
  BY LifeStep DEF Born
<1>1. ASSUME open' = Nothing, shown' = <<>>, set' = Default, timer' = FALSE
      PROVE  /\ open' \in Born' \cup {Nothing} /\ shown' \in Seq(Note)
             /\ set' \in Settings /\ timer' \in BOOLEAN
  <2>1. shown' \in Seq(Note)
    BY <1>1
  <2>2. set' \in Settings
    BY <1>1 DEF Default, Settings
  <2>3. timer' \in BOOLEAN
    BY <1>1
  <2> QED BY <1>1, <2>1, <2>2, <2>3
<1>2. CASE Mount \/ Unmount
  <2>1. CASE Mount
    BY <1>0, <2>1 DEF Mount, Click, view
  <2>2. CASE Unmount
    <3>1. /\ UNCHANGED <<mount, last, granted, failed, strayed>> /\ clicks' \in 0..MaxClicks
          /\ up' = FALSE /\ busy' = FALSE /\ open' = Nothing /\ shown' = <<>>
          /\ set' = Default /\ timer' = FALSE /\ boot' = "none"
      BY <2>2 DEF Unmount, Click, Blank
    <3>2. up' \in BOOLEAN /\ busy' \in BOOLEAN /\ (up' => mount' # 0)
      BY <3>1
    <3> QED BY <1>0, <1>1, <3>1, <3>2
  <2> QED BY <1>2, <2>1, <2>2
<1>3. ASSUME NEW s \in Settings, Edit(s), granted' \subseteq Folders \cup {Nothing} PROVE PageOK'
  <2>1. timer' \in BOOLEAN
    BY <1>3 DEF Edit
  <2> QED BY <1>0, <1>3, <2>1 DEF Edit, stay, waits, Click
<1>4. CASE ToggleAuto
  <2>1. [set EXCEPT !.auto = ~@] \in Settings /\ set.folder \in Folders \cup {Nothing}
    BY DEF Settings
  <2>2. granted' \subseteq Folders \cup {Nothing}
    BY <1>4, <2>1 DEF ToggleAuto
  <2> QED BY <1>3, <1>4, <2>1, <2>2 DEF ToggleAuto
<1>5. ASSUME NEW f \in Folders \cup {Nothing}, ChangeWorkspace(f) PROVE PageOK'
  <2>1. [folder |-> f, auto |-> FALSE] \in Settings
    BY DEF Settings
  <2> QED BY <1>3, <1>5, <2>1 DEF ChangeWorkspace
<1>6. CASE NewChat
  <2>1. /\ UNCHANGED <<mount, up, busy, granted, failed, strayed>> /\ clicks' \in 0..MaxClicks
        /\ open' = Nothing /\ shown' = <<>> /\ set' = Default /\ timer' = FALSE
        /\ last' = Nothing /\ boot' \in {"none", "asked", "cancelled"}
    BY <1>6 DEF NewChat, Blanker, Blank, Cancelled, Click, stay
  <2> QED BY <1>0, <1>1, <2>1
<1>7. CASE FilesPicked
  BY <1>0, <1>7 DEF FilesPicked, Click, stay, view
<1>8. ASSUME NEW c \in ChatIds, OpenSession(c) \/ RemoveSession(c) PROVE PageOK'
  BY <1>0, <1>8 DEF OpenSession, RemoveSession, Click, stay, view
<1>9. ASSUME NEW t \in Turns, Send(t) PROVE PageOK'
  <2>1. [turn |-> t, role |-> "user"] \in Note /\ [turn |-> t, role |-> "assistant"] \in Note
    BY DEF Note
  <2>2. shown' \in Seq(Note)
    BY <1>9, <2>1 DEF Send
  <2> QED BY <1>0, <1>9, <2>2 DEF Send, Click, waits
<1>10. CASE TimerFires \/ BootEnds
  <2>1. /\ UNCHANGED <<mount, up, busy, open, shown, set, last, clicks, granted, failed, strayed>>
        /\ timer' \in BOOLEAN /\ boot' \in {"none", "asked", "cancelled"}
    BY <1>10 DEF TimerFires, BootEnds, stay, waits, view
  <2> QED BY <1>0, <2>1
<1>11. ASSUME NEW c \in ChatIds, BootOpens(c) PROVE PageOK'
  BY <1>0, <1>11 DEF BootOpens, stay, view
<1>12. ASSUME NEW f \in flights, FlushArrives(f) PROVE PageOK'
  BY <1>0, <1>12 DEF FlushArrives, page, stay, view, waits
<1>13. ASSUME NEW l \in loads, LoadReads(l) PROVE PageOK'
  BY <1>0, <1>13 DEF LoadReads, stay, view
<1>14. ASSUME NEW l \in loads, LoadAnswers(l) PROVE PageOK'
  <2>1. l.chat \in Born /\ l.data.set \in Settings /\ l.data.notes \in Seq(Note)
    BY <1>14 DEF LoadAnswers, WaitsOK, Loaded
  <2>2. /\ open' = l.chat /\ shown' = l.data.notes /\ set' = l.data.set /\ last' = l.chat
        /\ UNCHANGED <<mount, up, busy, boot, clicks, granted, failed>>
    BY <1>14 DEF LoadAnswers, stay
  <2>3. timer' \in BOOLEAN /\ strayed' \in BOOLEAN
    BY <1>14 DEF LoadAnswers
  <2> QED BY <1>0, <2>1, <2>2, <2>3
<1>15. ASSUME NEW r \in removal, Removed(r) PROVE PageOK'
  <2>1. UNCHANGED <<mount, up, busy, clicks, granted, failed>>
    BY <1>15 DEF Removed, stay
  <2>2. CASE r.wasOpen /\ Mine(r)
    <3>1. Blanker /\ strayed' \in BOOLEAN
      BY <1>15, <2>2 DEF Removed
    <3>2. /\ open' = Nothing /\ shown' = <<>> /\ set' = Default /\ timer' = FALSE
          /\ last' = Nothing /\ boot' \in {"none", "asked", "cancelled"}
      BY <3>1 DEF Blanker, Blank, Cancelled
    <3> QED BY <1>0, <1>1, <2>1, <3>1, <3>2
  <2>3. CASE ~(r.wasOpen /\ Mine(r))
    <3>1. UNCHANGED <<open, shown, set, timer, boot, strayed>> /\ last' \in {last, Nothing}
      BY <1>15, <2>3 DEF Removed, view
    <3> QED BY <1>0, <2>1, <3>1
  <2> QED BY <2>2, <2>3
<1>16. ASSUME NEW c, NEW s, Creates(c, s), GoesTo(c),
              UNCHANGED <<stay, shown, set, boot, clicks, granted, failed>>, strayed' \in BOOLEAN
       PROVE  PageOK'
  <2>1. c \in Born'
    BY <1>16, Newborn DEF Creates, Born, RowsOK
  <2> QED BY <1>0, <1>16, <2>1 DEF GoesTo, stay
<1>17. ASSUME NEW p \in picks, NEW c \in ChatIds, AttachCreates(p, c) PROVE PageOK'
  <2>1. CASE Mine(p)
    BY <1>16, <1>17, <2>1 DEF AttachCreates
  <2>2. CASE ~Mine(p)
    BY <1>0, <1>17, <2>2 DEF AttachCreates, stay
  <2> QED BY <2>1, <2>2
<1>18. ASSUME NEW p \in picks, AttachFails(p) PROVE PageOK'
  BY <1>0, <1>18 DEF AttachFails, stay, view
<1>19. ASSUME NEW t \in Turns, NEW c \in ChatIds, EnsureCreates(t, c) PROVE PageOK'
  <2>1. CASE Here(t)
    BY <1>16, <1>19, <2>1 DEF EnsureCreates, waits
  <2>2. CASE ~Here(t)
    BY <1>0, <1>19, <2>2 DEF EnsureCreates, stay, waits
  <2> QED BY <2>1, <2>2
<1>20. ASSUME NEW t \in Turns,
              EnsureUpdates(t) \/ EnsureFails(t) \/ Ask(t) \/ AskFails(t) \/ StreamEnds(t)
       PROVE  PageOK'
  BY <1>0, <1>20 DEF EnsureUpdates, EnsureFails, Ask, AskFails, StreamEnds, Fails, page, stay,
     view, waits
<1>21. ASSUME NEW t \in Turns, EndsSilent(t) \/ Record(t) \/ RecordFails(t) PROVE PageOK'
  <2>1. /\ UNCHANGED <<mount, up, open, shown, set, timer, last, boot, clicks, granted, strayed>>
        /\ busy' \in BOOLEAN /\ failed' \subseteq Turns
    BY <1>21 DEF EndsSilent, Record, RecordFails, Unbusy, Fails, view, waits
  <2> QED BY <1>0, <2>1
<1>22. ASSUME NEW t \in Turns, Streams(t) PROVE PageOK'
  <2>1. shown' \in Seq(Note)
    <3>1. Len(shown) \in 1..Len(shown) /\ shown[Len(shown)] \in Note
      BY <1>22 DEF Streams
    <3>2. [shown[Len(shown)] EXCEPT !.turn = t] \in Note
      BY <3>1 DEF Note
    <3> QED BY <1>22, <3>1, <3>2 DEF Streams
  <2> QED BY <1>0, <1>22, <2>1 DEF Streams, stay, waits
<1>23. CASE UNCHANGED viewVars
  BY <1>0, <1>23 DEF viewVars, page, stay, view, waits
<1>24. CASE User
  <2>1. CASE Tweak
    <3>1. timer' \in BOOLEAN
      BY <2>1 DEF Tweak
    <3> QED BY <1>0, <2>1, <3>1 DEF Tweak, stay, waits, Click
  <2> QED BY <1>2, <1>4, <1>5, <1>6, <1>7, <1>8, <1>9, <1>24, <2>1 DEF User
<1>25. CASE Answers
  BY <1>10, <1>11, <1>12, <1>13, <1>14, <1>15, <1>17, <1>18, <1>19, <1>20, <1>21, <1>22, <1>25
     DEF Answers, Advance
<1> QED BY <1>23, <1>24, <1>25 DEF ViewNext

LEMMA TurnsStep ==
    RowsOK /\ PageOK /\ TurnsOK /\ [ViewNext]_viewVars => TurnsOK'
<1> SUFFICES ASSUME RowsOK, PageOK, TurnsOK, [ViewNext]_viewVars PROVE TurnsOK'
  OBVIOUS
<1> USE DEF TurnsOK
<1>0. Born \subseteq Born'
  BY LifeStep
<1>1. CASE UNCHANGED <<turns, failed>>
  BY <1>0, <1>1 DEF turns, click
<1>2. ASSUME NEW t \in Turns, Send(t) PROVE TurnsOK'
  BY <1>0, <1>2 DEF Send, Moves, Step, PageOK
<1>3. ASSUME NEW t \in Turns, EnsureUpdates(t) PROVE TurnsOK'
  BY <1>0, <1>3 DEF EnsureUpdates, Moves, Step, click
<1>4. ASSUME NEW t \in Turns, NEW c \in ChatIds, EnsureCreates(t, c) PROVE TurnsOK'
  <2>1. c \in Born'
    BY <1>4, Newborn DEF EnsureCreates, Creates, Born, RowsOK
  <2> QED BY <1>0, <1>4, <2>1 DEF EnsureCreates, Moves, Step, click
<1>5. ASSUME NEW t \in Turns, NEW s \in Step, Moves(t, s), UNCHANGED <<click, into>> PROVE TurnsOK'
  BY <1>0, <1>5 DEF Moves, click
<1>6. ASSUME NEW t \in Turns,
             EnsureFails(t) \/ Ask(t) \/ AskFails(t) \/ StreamEnds(t) \/ EndsSilent(t) \/ Record(t)
                 \/ RecordFails(t)
      PROVE  TurnsOK'
  <2>1. "stream" \in Step /\ "record" \in Step /\ "silent" \in Step /\ "done" \in Step
    BY DEF Step
  <2> QED BY <1>5, <1>6, <2>1 DEF EnsureFails, Ask, AskFails, StreamEnds, EndsSilent,
     Record, RecordFails
<1> QED BY <1>1, <1>2, <1>3, <1>4, <1>6, TurnSteps DEF TurnStep, Advance

LEMMA FlushOK ==
    ASSUME PageOK, WaitsOK, Flush
    PROVE  flights' \subseteq [chat : Born, set : Settings]
BY DEF PageOK, WaitsOK, Flush, Sends, Unsent

LEMMA RemovalsGrow ==
    ASSUME RowsOK, [ViewNext]_viewVars
    PROVE  Removals \subseteq Removals'
<1>1. Born \subseteq Born'
  BY LifeStep
<1>2. Born \subseteq Born' => Removals \subseteq Removals'
  BY DEF Removals
<1> QED BY <1>1, <1>2

LEMMA WaitsStep ==
    RowsOK /\ PageOK /\ WaitsOK /\ [ViewNext]_viewVars => WaitsOK'
<1> SUFFICES ASSUME RowsOK, PageOK, WaitsOK, [ViewNext]_viewVars PROVE WaitsOK'
  OBVIOUS
<1>0. Born \subseteq Born'
  BY LifeStep
<1>1. ASSUME loads' \subseteq loads, picks' \subseteq picks, removal' \subseteq removal,
             flights' \subseteq [chat : Born, set : Settings]
      PROVE  WaitsOK'
  <2>1. \A l \in loads' : l = [chat |-> l.chat, data |-> l.data] /\ l.chat \in Born' /\ Loaded(l)
    BY <1>0, <1>1 DEF WaitsOK
  <2>2. picks' \subseteq [set : Settings, from : 1..MaxMounts]
    BY <1>1 DEF WaitsOK
  <2>3. removal' \subseteq Removals'
    BY <1>0, <1>1, RemovalsGrow DEF WaitsOK
  <2>4. flights' \subseteq [chat : Born', set : Settings]
    BY <1>0, <1>1
  <2> QED BY <2>1, <2>2, <2>3, <2>4 DEF WaitsOK, Loaded
<1>2. flights \subseteq [chat : Born, set : Settings]
  BY DEF WaitsOK
<1>3. ASSUME NEW c \in Born, loads' = loads \cup {[chat |-> c, data |-> Nothing]},
             UNCHANGED <<picks, removal>>, flights' \subseteq [chat : Born, set : Settings]
      PROVE  WaitsOK'
  <2>1. \A l \in loads' : l = [chat |-> l.chat, data |-> l.data] /\ l.chat \in Born' /\ Loaded(l)
    BY <1>0, <1>3 DEF WaitsOK, Loaded
  <2>2. removal' \subseteq Removals'
    BY <1>0, <1>3, RemovalsGrow DEF WaitsOK
  <2>3. flights' \subseteq [chat : Born', set : Settings]
    BY <1>0, <1>3
  <2> QED BY <1>3, <2>1, <2>2, <2>3 DEF WaitsOK, Loaded
<1>4. CASE Mount \/ Tweak \/ ToggleAuto \/ BootEnds
  BY <1>1, <1>2, <1>4 DEF Mount, Tweak, ToggleAuto, Edit, BootEnds, waits
<1>5. CASE Unmount \/ NewChat \/ TimerFires
  <2>1. CASE NewChat \/ TimerFires
    <3>1. Flush /\ loads' \subseteq loads /\ picks' \subseteq picks /\ removal' \subseteq removal
      BY <2>1 DEF NewChat, Blanker, TimerFires, waits
    <3> QED BY <1>1, <3>1, FlushOK
  <2>2. CASE Unmount
    <3>1. /\ Flush /\ loads' = {} /\ picks' = picks
          /\ removal' = {IF Mine(r) THEN [r EXCEPT !.left = Unsent] ELSE r : r \in removal}
      BY <2>2 DEF Unmount
    <3>2. Unsent \subseteq [chat : Born, set : Settings]
      BY DEF Unsent, PageOK
    <3>3. \A r \in removal : [r EXCEPT !.left = Unsent] \in Removals
      BY <3>2 DEF WaitsOK, Removals
    <3>4. removal' \subseteq Removals'
      BY <1>0, <3>1, <3>3, RemovalsGrow DEF WaitsOK
    <3>5. flights' \subseteq [chat : Born', set : Settings]
      BY <1>0, <3>1, FlushOK
    <3> QED BY <3>1, <3>4, <3>5 DEF WaitsOK, Loaded
  <2> QED BY <1>5, <2>1, <2>2
<1>6. CASE FilesPicked
  <2>1. mount \in 1..MaxMounts
    BY <1>6 DEF FilesPicked, PageOK
  <2>2. [set |-> set, from |-> mount] \in [set : Settings, from : 1..MaxMounts]
    BY <2>1 DEF PageOK
  <2>3. picks' \subseteq [set : Settings, from : 1..MaxMounts]
    BY <1>6, <2>2 DEF FilesPicked, WaitsOK
  <2>4. UNCHANGED <<loads, removal, flights>>
    BY <1>6 DEF FilesPicked
  <2>5. removal' \subseteq Removals'
    BY <2>4, RemovalsGrow DEF WaitsOK
  <2> QED BY <1>0, <2>3, <2>4, <2>5 DEF WaitsOK, Loaded
<1>7. ASSUME NEW f, ChangeWorkspace(f) PROVE WaitsOK'
  BY <1>1, <1>2, <1>7 DEF ChangeWorkspace, Edit, waits
<1>8. ASSUME NEW c \in ChatIds, OpenSession(c) PROVE WaitsOK'
  <2>1. c \in Born /\ Flush /\ loads' = loads \cup {[chat |-> c, data |-> Nothing]}
        /\ UNCHANGED <<picks, removal>>
    BY <1>8 DEF OpenSession
  <2> QED BY <1>3, <2>1, FlushOK
<1>9. ASSUME NEW c \in ChatIds, RemoveSession(c) PROVE WaitsOK'
  <2>1. c \in Born
    BY <1>9 DEF RemoveSession, Exists, Born
  <2>2. [chat |-> c, wasOpen |-> c = open, from |-> mount, left |-> {}] \in Removals
    <3>1. mount \in 1..MaxMounts
      BY <1>9 DEF RemoveSession, PageOK
    <3> QED BY <2>1, <3>1 DEF Removals
  <2>3. removal' \subseteq Removals'
    BY <1>0, <1>9, <2>2, RemovalsGrow DEF RemoveSession, WaitsOK
  <2>4. UNCHANGED <<loads, picks, flights>>
    BY <1>9 DEF RemoveSession
  <2> QED BY <1>0, <2>3, <2>4 DEF WaitsOK, Loaded
<1>10. ASSUME NEW c \in ChatIds, BootOpens(c) PROVE WaitsOK'
  <2>1. c \in Born
    BY <1>10 DEF BootOpens, Exists, Born
  <2> QED BY <1>2, <1>3, <1>10, <2>1 DEF BootOpens
<1>11. ASSUME NEW f \in flights, FlushArrives(f) PROVE WaitsOK'
  <2>1. flights' \subseteq flights /\ UNCHANGED <<loads, picks, removal>>
    BY <1>11 DEF FlushArrives, page, waits
  <2> QED BY <1>1, <1>2, <2>1
<1>12. ASSUME NEW l \in loads, LoadReads(l) PROVE WaitsOK'
  <2>1. UNCHANGED <<picks, removal, flights>>
    BY <1>12 DEF LoadReads
  <2>2. CASE loads' = loads \ {l}
    BY <1>1, <1>2, <2>1, <2>2
  <2>3. ASSUME NEW k,
               k = [l EXCEPT !.data = [set |-> settings[l.chat], notes |-> saved[l.chat]]],
               loads' = (loads \ {l}) \cup {k}
        PROVE  WaitsOK'
    <3>1. l.chat \in Born /\ l.chat \in ChatIds /\ l = [chat |-> l.chat, data |-> l.data]
      BY DEF WaitsOK, Born
    <3>2. k = [chat |-> l.chat, data |-> [set |-> settings[l.chat], notes |-> saved[l.chat]]]
      BY <2>3, <3>1
    <3>3. k.chat = l.chat /\ k.data \in [set : Settings, notes : Seq(Note)]
      BY <3>1, <3>2 DEF RowsOK
    <3>4. \A m \in loads' : m = [chat |-> m.chat, data |-> m.data] /\ m.chat \in Born' /\ Loaded(m)
      <4>1. k = [chat |-> k.chat, data |-> k.data] /\ k.chat \in Born' /\ Loaded(k)
        BY <1>0, <3>1, <3>2, <3>3 DEF Loaded
      <4>2. \A m \in loads :
                m = [chat |-> m.chat, data |-> m.data] /\ m.chat \in Born' /\ Loaded(m)
        BY <1>0 DEF WaitsOK
      <4> QED BY <2>3, <4>1, <4>2
    <3>5. removal' \subseteq Removals'
      BY <2>1, RemovalsGrow DEF WaitsOK
    <3> QED BY <1>0, <2>1, <3>4, <3>5 DEF WaitsOK, Loaded
  <2> QED BY <1>12, <2>2, <2>3 DEF LoadReads
<1>13. ASSUME NEW l \in loads, LoadAnswers(l) PROVE WaitsOK'
  BY <1>1, <1>2, <1>13 DEF LoadAnswers
<1>14. ASSUME NEW r \in removal, Removed(r) PROVE WaitsOK'
  <2>1. /\ removal' \subseteq removal /\ UNCHANGED <<loads, picks>>
        /\ Flush \/ flights' = flights \cup r.left \/ UNCHANGED flights
    BY <1>14 DEF Removed, Blanker, Sends
  <2>2. r.left \subseteq [chat : Born, set : Settings]
    BY DEF WaitsOK, Removals
  <2> QED BY <1>1, <1>2, <2>1, <2>2, FlushOK
<1>15. ASSUME NEW p \in picks, AttachFails(p) \/ \E c \in ChatIds : AttachCreates(p, c)
       PROVE  WaitsOK'
  BY <1>1, <1>2, <1>15 DEF AttachFails, AttachCreates
<1>16. ASSUME NEW t \in Turns, Send(t) \/ Advance(t) \/ Streams(t) PROVE WaitsOK'
  <2>1. UNCHANGED <<loads, picks, removal, flights>>
    BY <1>16 DEF Send, Advance, EnsureUpdates, EnsureCreates, EnsureFails, Ask, AskFails,
       StreamEnds, EndsSilent, Record, RecordFails, Streams, page, waits
  <2> QED BY <1>1, <1>2, <2>1
<1>17. CASE UNCHANGED viewVars
  BY <1>1, <1>2, <1>17 DEF viewVars, page, waits
<1> QED BY <1>4, <1>5, <1>6, <1>7, <1>8, <1>9, <1>10, <1>11, <1>12, <1>13, <1>14, <1>15, <1>16,
   <1>17 DEF ViewNext, User, Answers

----------------------------------------------------------------------------
(* Where a turn is recorded.                                               *)

LEMMA InPlaceStep ==
    RowsOK /\ TurnsOK /\ InPlace /\ [ViewNext]_viewVars => InPlace'
<1> SUFFICES ASSUME RowsOK, TurnsOK, InPlace, [ViewNext]_viewVars PROVE InPlace'
  OBVIOUS
<1> USE DEF InPlace
<1>1. CASE UNCHANGED <<turns, failed>>
  BY <1>1 DEF turns, click
<1>2. ASSUME NEW t \in Turns, Send(t) PROVE InPlace'
  <2>1. turn[t] = "idle"
    BY <1>2 DEF Send, Idle
  <2>2. /\ turn' = [turn EXCEPT ![t] = "ensure"] /\ home' = [home EXCEPT ![t] = open]
        /\ UNCHANGED <<into, failed>>
    BY <1>2 DEF Send, Moves
  <2> QED BY <2>1, <2>2 DEF TurnsOK
<1>3. ASSUME NEW t \in Turns, EnsureUpdates(t) PROVE InPlace'
  BY <1>3 DEF EnsureUpdates, Moves, click, TurnsOK
<1>4. ASSUME NEW t \in Turns, NEW c \in ChatIds, EnsureCreates(t, c) PROVE InPlace'
  BY <1>4, ViewAssumption DEF EnsureCreates, Moves, click, TurnsOK
<1>5. ASSUME NEW t \in Turns, EnsureFails(t) PROVE InPlace'
  BY <1>5 DEF EnsureFails, Moves, Fails, click, TurnsOK
<1>6. ASSUME NEW t \in Turns,
             Ask(t) \/ AskFails(t) \/ StreamEnds(t) \/ EndsSilent(t) \/ Record(t) \/ RecordFails(t)
      PROVE  InPlace'
  <2>1. PICK s \in {"stream", "record", "silent", "done"} : turn' = [turn EXCEPT ![t] = s]
    BY <1>6 DEF Ask, AskFails, StreamEnds, EndsSilent, Record, RecordFails, Moves
  <2>2. turn[t] \notin {"idle", "ensure"} /\ failed \subseteq failed' /\ UNCHANGED <<into, home>>
    BY <1>6 DEF Ask, AskFails, StreamEnds, EndsSilent, Record, RecordFails, Fails, click
  <2> QED BY <2>1, <2>2 DEF TurnsOK
<1> QED BY <1>1, <1>2, <1>3, <1>4, <1>5, <1>6, TurnSteps DEF TurnStep, Advance

\* The chat of a turn changes once, from none.
LEMMA IntoStep ==
    ASSUME InPlace, TurnsOK, [ViewNext]_viewVars, NEW t \in Turns, into[t] # Nothing
    PROVE  into'[t] = into[t]
<1>1. ASSUME NEW u \in Turns, EnsureUpdates(u) \/ \E c \in ChatIds : EnsureCreates(u, c)
      PROVE  into'[t] = into[t]
  <2>1. turn[u] = "ensure" /\ \E c : into' = [into EXCEPT ![u] = c]
    BY <1>1 DEF EnsureUpdates, EnsureCreates
  <2>2. u # t
    BY <2>1 DEF InPlace
  <2> QED BY <2>1, <2>2 DEF TurnsOK
<1>2. ASSUME NEW u \in Turns,
             Send(u) \/ EnsureFails(u) \/ Ask(u) \/ AskFails(u) \/ StreamEnds(u) \/ EndsSilent(u)
                 \/ Record(u) \/ RecordFails(u)
      PROVE  into' = into
  BY <1>2 DEF Send, EnsureFails, Ask, AskFails, StreamEnds, EndsSilent, Record, RecordFails
<1> QED BY <1>1, <1>2, TurnSteps DEF TurnStep, Advance, turns

LEMMA NotesInPlaceStep ==
    RowsOK /\ TurnsOK /\ InPlace /\ NotesInPlace /\ [ViewNext]_viewVars => NotesInPlace'
<1> SUFFICES ASSUME RowsOK, TurnsOK, InPlace, NotesInPlace, [ViewNext]_viewVars,
                    NEW c \in ChatIds, NEW i \in 1..Len(saved'[c])
             PROVE  into'[saved'[c][i].turn] = c
  BY DEF NotesInPlace
<1>0. saved[c] \in Seq(Note)
  BY DEF RowsOK
<1>1. ASSUME i \in 1..Len(saved[c]), saved'[c][i] = saved[c][i] PROVE into'[saved'[c][i].turn] = c
  <2>0. saved[c][i] \in Note
    BY <1>0, <1>1
  <2>1. saved[c][i].turn \in Turns /\ into[saved[c][i].turn] = c
    BY <1>1, <2>0 DEF NotesInPlace, Note
  <2>2. c # Nothing
    BY ViewAssumption
  <2> QED BY <1>1, <2>1, <2>2, IntoStep
<1>2. CASE UNCHANGED saved
  BY <1>1, <1>2
<1>3. ASSUME NEW t \in Turns, NEW role \in {"user", "assistant"}, Appends(into[t], t, role),
             UNCHANGED into
      PROVE  into'[saved'[c][i].turn] = c
  <2>1. CASE c # into[t] \/ UNCHANGED saved
    BY <1>1, <1>3, <2>1 DEF Appends, RowsOK
  <2>2. CASE c = into[t] /\ saved'[c] = Append(saved[c], [turn |-> t, role |-> role])
    <3>1. CASE i = Len(saved[c]) + 1
      BY <1>0, <1>3, <2>2, <3>1
    <3>2. CASE i # Len(saved[c]) + 1
      BY <1>0, <1>1, <2>2, <3>2
    <3> QED BY <3>1, <3>2
  <2>3. c = into[t] => UNCHANGED saved \/ saved'[c] = Append(saved[c], [turn |-> t, role |-> role])
    BY <1>3 DEF Appends, RowsOK
  <2> QED BY <2>1, <2>2, <2>3
<1>4. ASSUME NEW r \in removal, Removed(r) PROVE into'[saved'[c][i].turn] = c
  <2>1. CASE saved' = [saved EXCEPT ![r.chat] = <<>>] /\ r.chat = c
    <3>1. saved'[c] = <<>>
      BY <2>1 DEF RowsOK
    <3> QED BY <3>1
  <2>2. CASE saved' = [saved EXCEPT ![r.chat] = <<>>] /\ r.chat # c
    BY <1>1, <2>2 DEF RowsOK
  <2> QED BY <1>2, <1>4, <2>1, <2>2 DEF Removed
<1>5. ASSUME NEW t \in Turns, Ask(t) \/ Record(t) PROVE into'[saved'[c][i].turn] = c
  BY <1>3, <1>5 DEF Ask, Record
<1>6. CASE ServerStep
  <2>1. ASSUME NEW f \in flights, FlushArrives(f) PROVE UNCHANGED saved
    BY <2>1 DEF FlushArrives
  <2>2. ASSUME NEW p \in picks, NEW d \in ChatIds, AttachCreates(p, d) PROVE UNCHANGED saved
    BY <2>2 DEF AttachCreates
  <2>3. ASSUME NEW t \in Turns, EnsureUpdates(t) \/ \E d \in ChatIds : EnsureCreates(t, d)
        PROVE  UNCHANGED saved
    BY <2>3 DEF EnsureUpdates, EnsureCreates
  <2> QED BY <1>2, <1>4, <1>5, <1>6, <2>1, <2>2, <2>3 DEF ServerStep
<1>7. CASE UNCHANGED server
  BY <1>2, <1>7 DEF server
<1> QED BY <1>6, <1>7, ServerSteps

\* A message of a chat that lives on stays at its place.
LEMMA KeptSaved ==
    ASSUME RowsOK, TurnsOK, WaitsOK, [ViewNext]_viewVars, NEW c \in ChatIds, Exists(c)', c \in Born
    PROVE  /\ Exists(c)
           /\ \/ saved'[c] = saved[c]
              \/ \E t \in Turns, role \in {"user", "assistant"} :
                    saved'[c] = Append(saved[c], [turn |-> t, role |-> role])
<1>1. Exists(c)
  BY LifeStep
<1>2. CASE UNCHANGED saved
  BY <1>1, <1>2
<1>3. ASSUME NEW r \in removal, Removed(r) PROVE saved'[c] = saved[c]
  <2>1. r.chat \in ChatIds
    BY DEF WaitsOK, Removals, Born
  <2>2. CASE life' = [life EXCEPT ![r.chat] = "gone"] /\ saved' = [saved EXCEPT ![r.chat] = <<>>]
    <3>1. r.chat # c
      BY <2>1, <2>2 DEF Exists, RowsOK
    <3> QED BY <2>2, <3>1 DEF RowsOK
  <2> QED BY <1>3, <2>2 DEF Removed
<1>4. ASSUME NEW t \in Turns, Ask(t) \/ Record(t)
      PROVE  \/ saved'[c] = saved[c]
             \/ \E u \in Turns, role \in {"user", "assistant"} :
                    saved'[c] = Append(saved[c], [turn |-> u, role |-> role])
  <2>1. PICK role \in {"user", "assistant"} : Appends(into[t], t, role)
    BY <1>4 DEF Ask, Record
  <2>2. saved'[c] = saved[c] \/ saved'[c] = Append(saved[c], [turn |-> t, role |-> role])
    BY <2>1 DEF Appends, RowsOK
  <2> QED BY <2>2
<1>5. CASE ServerStep
  <2>1. ASSUME NEW f \in flights, FlushArrives(f) PROVE UNCHANGED saved
    BY <2>1 DEF FlushArrives
  <2>2. ASSUME NEW p \in picks, NEW d \in ChatIds, AttachCreates(p, d) PROVE UNCHANGED saved
    BY <2>2 DEF AttachCreates
  <2>3. ASSUME NEW t \in Turns, EnsureUpdates(t) \/ \E d \in ChatIds : EnsureCreates(t, d)
        PROVE  UNCHANGED saved
    BY <2>3 DEF EnsureUpdates, EnsureCreates
  <2> QED BY <1>1, <1>2, <1>3, <1>4, <1>5, <2>1, <2>2, <2>3 DEF ServerStep
<1>6. CASE UNCHANGED server
  BY <1>2, <1>6 DEF server
<1> QED BY <1>5, <1>6, ServerSteps

Asked(t) == \E i \in 1..Len(saved[into[t]]) : saved[into[t]][i] = Question(t)

Answered(t) ==
    \E i, j \in 1..Len(saved[into[t]]) :
        i < j /\ saved[into[t]][i] = Question(t) /\ saved[into[t]][j] = Reply(t)

LEMMA StaysRecorded ==
    ASSUME RowsOK, TurnsOK, WaitsOK, InPlace, [ViewNext]_viewVars, NEW t \in Turns,
           into[t] # Nothing, Exists(into[t])'
    PROVE  (Asked(t) => Asked(t)') /\ (Answered(t) => Answered(t)')
<1>1. into'[t] = into[t] /\ into[t] \in Born /\ into[t] \in ChatIds
  BY IntoStep DEF TurnsOK, Born
<1> DEFINE c == into[t]
<1>2. saved[c] \in Seq(Note)
  BY <1>1 DEF RowsOK
<1>3. Exists(c)'
  BY <1>1 DEF Exists
<1>4. \/ saved'[c] = saved[c]
      \/ \E u \in Turns, role \in {"user", "assistant"} :
            saved'[c] = Append(saved[c], [turn |-> u, role |-> role])
  BY <1>1, <1>3, KeptSaved
<1>5. Len(saved'[c]) >= Len(saved[c]) /\ Len(saved[c]) \in Nat /\ Len(saved'[c]) \in Nat
      /\ \A i \in 1..Len(saved[c]) : saved'[c][i] = saved[c][i]
  <2>1. CASE saved'[c] = saved[c]
    BY <1>2, <2>1
  <2>2. ASSUME NEW n \in Note, saved'[c] = Append(saved[c], n)
        PROVE  Len(saved'[c]) >= Len(saved[c]) /\ Len(saved[c]) \in Nat /\ Len(saved'[c]) \in Nat
               /\ \A i \in 1..Len(saved[c]) : saved'[c][i] = saved[c][i]
    BY <1>2, <2>2
  <2>3. \A u \in Turns, role \in {"user", "assistant"} : [turn |-> u, role |-> role] \in Note
    BY DEF Note
  <2> QED BY <1>4, <2>1, <2>2, <2>3
<1>6. \A i \in 1..Len(saved[c]) : i \in 1..Len(saved'[c])
  BY <1>5
<1>7. Asked(t) => Asked(t)'
  BY <1>1, <1>5, <1>6 DEF Asked, Question
<1>8. Answered(t) => Answered(t)'
  BY <1>1, <1>5, <1>6 DEF Answered, Question, Reply
<1> QED BY <1>7, <1>8

LEMMA RecordedStep ==
    RowsOK /\ WaitsOK /\ TurnsOK /\ InPlace /\ Recorded /\ [ViewNext]_viewVars => Recorded'
<1> SUFFICES ASSUME RowsOK, WaitsOK, TurnsOK, InPlace, Recorded, [ViewNext]_viewVars,
                    NEW t \in Turns, t \notin failed', into'[t] # Nothing, Exists(into[t])'
             PROVE  /\ turn'[t] \in {"stream", "record", "silent"} => Asked(t)'
                    /\ turn'[t] = "done" => Answered(t)'
  BY DEF Recorded, Asked, Answered, Question, Reply
<1>1. t \notin failed
  BY TurnSteps DEF TurnStep, Send, Advance, EnsureUpdates, EnsureCreates, EnsureFails, Ask,
     AskFails, StreamEnds, EndsSilent, Record, RecordFails, Fails
<1>2. ASSUME into[t] # Nothing, turn[t] \in {"stream", "record", "silent"}
      PROVE  Asked(t) /\ Asked(t)'
  <2>1. into[t] \in ChatIds /\ into[t] \in Born /\ into'[t] = into[t]
    BY <1>2, IntoStep DEF TurnsOK, Born
  <2>2. Exists(into[t])
    BY <2>1, LifeStep DEF Exists
  <2> QED BY <1>1, <1>2, <2>2, StaysRecorded DEF Recorded, Asked
<1>3. ASSUME into[t] # Nothing, turn[t] = "done" PROVE Answered(t)'
  <2>1. into[t] \in ChatIds /\ into[t] \in Born /\ into'[t] = into[t]
    BY <1>3, IntoStep DEF TurnsOK, Born
  <2>2. Exists(into[t])
    BY <2>1, LifeStep DEF Exists
  <2> QED BY <1>1, <1>3, <2>2, StaysRecorded DEF Recorded, Answered
<1>4. CASE UNCHANGED <<turn, into>>
  BY <1>2, <1>3, <1>4
<1>5. CASE UNCHANGED <<turns, failed>>
  BY <1>4, <1>5 DEF turns
<1>6. ASSUME NEW u \in Turns, Send(u) \/ Advance(u), u # t
      PROVE  turn'[t] = turn[t] /\ into'[t] = into[t]
  <2>1. CASE Send(u)
    BY <1>6, <2>1 DEF Send, Moves, TurnsOK
  <2>2. CASE Advance(u)
    BY <1>6, <2>2 DEF Advance, EnsureUpdates, EnsureCreates, EnsureFails, Ask, AskFails,
       StreamEnds, EndsSilent, Record, RecordFails, Moves, TurnsOK
  <2> QED BY <1>6, <2>1, <2>2
<1>7. CASE Send(t) \/ EnsureUpdates(t) \/ \E c \in ChatIds : EnsureCreates(t, c)
  <2>1. turn'[t] \in {"ensure", "ask"}
    BY <1>7 DEF Send, EnsureUpdates, EnsureCreates, Moves, TurnsOK
  <2> QED BY <2>1
<1>8. CASE EnsureFails(t) \/ AskFails(t) \/ RecordFails(t)
  BY <1>8 DEF EnsureFails, AskFails, RecordFails, Fails
<1>9. CASE StreamEnds(t) \/ EndsSilent(t)
  <2>1. turn[t] = "stream" /\ turn'[t] \in {"record", "silent"} /\ into'[t] = into[t]
    BY <1>9 DEF StreamEnds, EndsSilent, Moves, TurnsOK
  <2> QED BY <1>2, <2>1
<1>10. ASSUME NEW role \in {"user", "assistant"}, Appends(into[t], t, role),
              UNCHANGED <<life, into>>
       PROVE  /\ saved[into[t]] \in Seq(Note) /\ into[t] # Nothing
              /\ saved'[into[t]] = Append(saved[into[t]], [turn |-> t, role |-> role])
  <2>1. into[t] # Nothing /\ into[t] \in ChatIds
    BY <1>10 DEF TurnsOK, Born
  <2>2. Exists(into[t])
    BY <1>10, <2>1 DEF Exists
  <2> QED BY <1>10, <2>1, <2>2 DEF Appends, RowsOK
<1>11. CASE Ask(t)
  <2>1. turn'[t] = "stream" /\ Appends(into[t], t, "user") /\ UNCHANGED <<life, into>>
    BY <1>11 DEF Ask, Moves, TurnsOK
  <2> DEFINE s == saved[into[t]]
  <2>2. s \in Seq(Note) /\ saved'[into[t]] = Append(s, Question(t))
    BY <1>10, <2>1 DEF Question
  <2>3. /\ Len(s) + 1 \in 1..Len(Append(s, Question(t)))
        /\ Append(s, Question(t))[Len(s) + 1] = Question(t)
    <3>1. Question(t) \in Note
      BY DEF Question, Note
    <3> QED BY <2>2, <3>1
  <2>4. Asked(t)'
    BY <2>1, <2>2, <2>3 DEF Asked, Question
  <2> QED BY <2>1, <2>4
<1>12. CASE Record(t)
  <2>1. /\ turn[t] = "record" /\ turn'[t] = "done" /\ Appends(into[t], t, "assistant")
        /\ UNCHANGED <<life, into>>
    BY <1>12 DEF Record, Moves, TurnsOK
  <2> DEFINE s == saved[into[t]]
             q == Append(s, Reply(t))
  <2>2. s \in Seq(Note) /\ into[t] # Nothing /\ saved'[into[t]] = q
    BY <1>10, <2>1 DEF Reply
  <2>3. PICK i \in 1..Len(s) : s[i] = Question(t)
    BY <1>2, <2>1, <2>2 DEF Asked
  <2>4. Reply(t) \in Note
    BY DEF Reply, Note
  <2>5. /\ i \in 1..Len(q) /\ Len(s) + 1 \in 1..Len(q) /\ i < Len(s) + 1
        /\ q[i] = Question(t) /\ q[Len(s) + 1] = Reply(t)
    BY <2>2, <2>3, <2>4
  <2> HIDE DEF q
  <2>6. Answered(t)'
    BY <2>1, <2>2, <2>5 DEF Answered, Question, Reply
  <2> QED BY <2>1, <2>6
<1> QED BY <1>2, <1>3, <1>5, <1>6, <1>7, <1>8, <1>9, <1>11, <1>12, TurnSteps DEF TurnStep, Advance

----------------------------------------------------------------------------
(* Trust in a folder.                                                      *)

Later(s) == s.auto => s.folder \in granted'

LEMMA GrantedGrows == [ViewNext]_viewVars => granted \subseteq granted'
<1> SUFFICES ASSUME [ViewNext]_viewVars PROVE granted \subseteq granted'
  OBVIOUS
<1>1. CASE User
  <2>1. CASE ToggleAuto
    BY <2>1 DEF ToggleAuto
  <2>2. CASE Mount \/ Unmount \/ NewChat \/ Tweak \/ FilesPicked
    BY <2>2 DEF Mount, Unmount, NewChat, Tweak, FilesPicked
  <2>3. ASSUME NEW f, ChangeWorkspace(f) PROVE UNCHANGED granted
    BY <2>3 DEF ChangeWorkspace
  <2>4. ASSUME NEW c, OpenSession(c) \/ RemoveSession(c) PROVE UNCHANGED granted
    BY <2>4 DEF OpenSession, RemoveSession
  <2>5. ASSUME NEW t, Send(t) PROVE UNCHANGED granted
    BY <2>5 DEF Send
  <2> QED BY <1>1, <2>1, <2>2, <2>3, <2>4, <2>5 DEF User
<1>2. CASE Answers
  BY <1>2 DEF Answers, TimerFires, BootEnds, BootOpens, FlushArrives, LoadReads, LoadAnswers,
     Removed, AttachFails, AttachCreates, Advance, EnsureUpdates, EnsureCreates, EnsureFails,
     Ask, AskFails, StreamEnds, EndsSilent, Record, RecordFails, Streams
<1>3. CASE UNCHANGED viewVars
  BY <1>3 DEF viewVars
<1> QED BY <1>1, <1>2, <1>3 DEF ViewNext

LEMMA RemovalSteps ==
    [ViewNext]_viewVars =>
        Unmount \/ (\E c \in ChatIds : RemoveSession(c)) \/ removal' \subseteq removal
<1> SUFFICES ASSUME [ViewNext]_viewVars, ~Unmount, \A c \in ChatIds : ~RemoveSession(c)
             PROVE  removal' \subseteq removal
  OBVIOUS
<1>1. CASE User
  BY <1>1 DEF User, Mount, NewChat, Tweak, ToggleAuto, FilesPicked, ChangeWorkspace, Edit,
     OpenSession, Send, waits
<1>2. CASE Answers
  BY <1>2 DEF Answers, TimerFires, BootEnds, BootOpens, FlushArrives, LoadReads, LoadAnswers,
     Removed, AttachFails, AttachCreates, Advance, EnsureUpdates, EnsureCreates, EnsureFails,
     Ask, AskFails, StreamEnds, EndsSilent, Record, RecordFails, Streams, page, waits
<1>3. CASE UNCHANGED viewVars
  BY <1>3 DEF viewVars, page, waits
<1> QED BY <1>1, <1>2, <1>3 DEF ViewNext

LEMMA LeftStep ==
    WaitsOK /\ Trust /\ LeftTrusted /\ [ViewNext]_viewVars => LeftTrusted'
<1> SUFFICES ASSUME WaitsOK, Trust, LeftTrusted, [ViewNext]_viewVars,
                    NEW r \in removal', NEW f \in r.left
             PROVE  Later(f.set)
  BY DEF LeftTrusted, Trusted, Later
<1>1. \A s : Trusted(s) => Later(s)
  BY GrantedGrows DEF Trusted, Later
<1>2. CASE r \in removal
  BY <1>1, <1>2 DEF LeftTrusted
<1>3. CASE Unmount /\ r \notin removal
  <2>1. PICK q \in removal : r = [q EXCEPT !.left = Unsent]
    BY <1>3 DEF Unmount
  <2>2. r.left = Unsent
    BY <2>1 DEF WaitsOK, Removals
  <2> QED BY <1>1, <2>2 DEF Unsent, Trust
<1>4. ASSUME NEW c, RemoveSession(c), r \notin removal PROVE FALSE
  BY <1>4 DEF RemoveSession
<1> QED BY <1>2, <1>3, <1>4, RemovalSteps

LEMMA TrustStep ==
    RowsOK /\ PageOK /\ WaitsOK /\ TurnsOK /\ Trust /\ LeftTrusted /\ [ViewNext]_viewVars
        => Trust'
<1> SUFFICES ASSUME RowsOK, PageOK, WaitsOK, TurnsOK, Trust, LeftTrusted,
                    [ViewNext]_viewVars
             PROVE  Trust'
  OBVIOUS
<1>1. granted \subseteq granted'
  BY GrantedGrows
<1>2. \A s : Trusted(s) => Later(s)
  BY <1>1 DEF Trusted, Later
<1>3. Later(Default)
  BY DEF Later, Default
<1> DEFINE TSet == Trusted(set)
           TRows == \A c \in ChatIds : Trusted(settings[c])
           TFlights == \A f \in flights : Trusted(f.set)
           TTurns == \A t \in Turns : Trusted(chosen[t])
           TPicks == \A p \in picks : Trusted(p.set)
           TLoads == \A l \in loads : l.data # Nothing => Trusted(l.data.set)
<1>4. TSet /\ TRows /\ TFlights /\ TTurns /\ TPicks /\ TLoads
  BY DEF Trust
<1>5. ASSUME TSet', TRows', TFlights', TTurns', TPicks', TLoads' PROVE Trust'
  BY <1>5 DEF Trust, Trusted
<1>6. \/ Flush \/ flights' \subseteq flights
      \/ \E r \in removal : flights' \subseteq flights \cup r.left
      => TFlights'
  <2>1. CASE Flush
    <3>1. flights' \subseteq flights \cup {[chat |-> open, set |-> set]}
      BY <2>1 DEF Flush, Sends, Unsent
    <3>2. \A f \in flights' : Later(f.set)
      BY <1>2, <1>4, <3>1
    <3> QED BY <3>2 DEF Trusted, Later
  <2>2. CASE flights' \subseteq flights
    BY <1>2, <1>4, <2>2 DEF Trusted, Later
  <2>3. ASSUME NEW r \in removal, flights' \subseteq flights \cup r.left PROVE TFlights'
    BY <1>2, <1>4, <2>3 DEF LeftTrusted, Trusted, Later
  <2> QED BY <2>1, <2>2, <2>3
<1>7. set' = set \/ set' = Default => TSet'
  BY <1>2, <1>3, <1>4 DEF Trusted, Later
<1>8. settings' = settings => TRows'
  BY <1>2, <1>4 DEF Trusted, Later
<1>9. chosen' = chosen => TTurns'
  BY <1>2, <1>4 DEF Trusted, Later
<1>10. picks' \subseteq picks => TPicks'
  BY <1>2, <1>4 DEF Trusted, Later
<1>11. loads' \subseteq loads => TLoads'
  BY <1>2, <1>4 DEF Trusted, Later
<1>12. ASSUME NEW c \in ChatIds, NEW s, Trusted(s), settings' = [settings EXCEPT ![c] = s]
       PROVE  TRows'
  <2>1. \A d \in ChatIds : Later(settings'[d])
    BY <1>2, <1>4, <1>12 DEF RowsOK
  <2> QED BY <2>1 DEF Trusted, Later
<1> HIDE DEF TSet, TRows, TFlights, TTurns, TPicks, TLoads
<1>13. CASE Mount \/ Unmount \/ NewChat \/ Tweak \/ TimerFires \/ BootEnds
  <2>1. /\ Flush \/ flights' \subseteq flights
        /\ set' = set \/ set' = Default
        /\ settings' = settings /\ chosen' = chosen
        /\ picks' \subseteq picks /\ loads' \subseteq loads
    BY <1>13 DEF Mount, Unmount, NewChat, Tweak, TimerFires, BootEnds, Blanker, Blank, server, view,
       waits, turns, click
  <2> QED BY <1>5, <1>6, <1>7, <1>8, <1>9, <1>10, <1>11, <2>1
<1>14. ASSUME NEW s, Edit(s), Later(s) PROVE Trust'
  <2>1. TSet'
    BY <1>14 DEF TSet, Edit, Trusted, Later
  <2>2. /\ flights' \subseteq flights /\ settings' = settings /\ chosen' = chosen
        /\ picks' \subseteq picks /\ loads' \subseteq loads
    BY <1>14 DEF Edit, server, waits, turns, click
  <2> QED BY <1>5, <1>6, <1>8, <1>9, <1>10, <1>11, <2>1, <2>2
<1>15. ASSUME NEW f, ChangeWorkspace(f) PROVE Trust'
  <2>1. Later([folder |-> f, auto |-> FALSE])
    BY DEF Later
  <2> QED BY <1>14, <1>15, <2>1 DEF ChangeWorkspace
<1>16. CASE ToggleAuto
  <2> DEFINE s == [set EXCEPT !.auto = ~@]
  <2>1. set = [folder |-> set.folder, auto |-> set.auto] /\ set.auto \in BOOLEAN
    BY DEF PageOK, Settings
  <2>2. s.folder = set.folder /\ s.auto = ~set.auto
    BY <2>1
  <2>3. Edit(s) /\ granted' = IF set.auto THEN granted ELSE granted \cup {set.folder}
    BY <1>16 DEF ToggleAuto
  <2> HIDE DEF s
  <2>4. Later(s)
    BY <2>1, <2>2, <2>3 DEF Later
  <2> QED BY <1>14, <2>3, <2>4
<1>17. CASE FilesPicked
  <2>1. TPicks'
    <3>1. picks' = picks \cup {[set |-> set, from |-> mount]}
      BY <1>17 DEF FilesPicked
    <3>2. \A p \in picks' : Later(p.set)
      BY <1>2, <1>4, <3>1 DEF TSet, TPicks
    <3> QED BY <3>2 DEF TPicks, Trusted, Later
  <2>2. /\ flights' \subseteq flights /\ settings' = settings /\ chosen' = chosen
        /\ set' = set /\ loads' \subseteq loads
    BY <1>17 DEF FilesPicked, server, view, turns, click
  <2> QED BY <1>5, <1>6, <1>7, <1>8, <1>9, <1>11, <2>1, <2>2
<1>18. ASSUME NEW c, loads' = loads \cup {[chat |-> c, data |-> Nothing]},
              Flush \/ flights' \subseteq flights, UNCHANGED <<set, settings, chosen, picks>>
       PROVE  Trust'
  <2>1. TLoads'
    <3>1. \A l \in loads' : l.data # Nothing => Later(l.data.set)
      BY <1>2, <1>4, <1>18 DEF TLoads
    <3> QED BY <3>1 DEF TLoads, Trusted, Later
  <2> QED BY <1>5, <1>6, <1>7, <1>8, <1>9, <1>10, <1>18, <2>1
<1>19. ASSUME NEW c, OpenSession(c) \/ BootOpens(c) PROVE Trust'
  BY <1>18, <1>19 DEF OpenSession, BootOpens, server, view, turns, click
<1>20. ASSUME NEW c, RemoveSession(c) PROVE Trust'
  <2>1. UNCHANGED <<set, settings, chosen, picks, loads, flights>>
    BY <1>20 DEF RemoveSession, server, view, turns, click
  <2> QED BY <1>5, <1>6, <1>7, <1>8, <1>9, <1>10, <1>11, <2>1
<1>21. ASSUME NEW t \in Turns, Send(t) PROVE Trust'
  <2>1. chosen' = [chosen EXCEPT ![t] = set]
        /\ UNCHANGED <<set, settings, picks, loads, flights>>
    BY <1>21 DEF Send, server, waits
  <2>2. TTurns'
    <3>1. \A u \in Turns : Later(chosen'[u])
      BY <1>2, <1>4, <2>1 DEF TSet, TTurns, TurnsOK
    <3> QED BY <3>1 DEF TTurns, Trusted, Later
  <2> QED BY <1>5, <1>6, <1>7, <1>8, <1>10, <1>11, <2>1, <2>2
<1>22. ASSUME NEW c \in ChatIds, NEW s, Trusted(s), Updates(c, s) PROVE TRows'
  BY <1>8, <1>12, <1>22 DEF Updates
<1>23. ASSUME NEW f \in flights, FlushArrives(f) PROVE Trust'
  <2>1. f.chat \in ChatIds /\ Trusted(f.set)
    BY <1>4 DEF WaitsOK, Born, TFlights
  <2>2. TRows'
    BY <1>22, <1>23, <2>1 DEF FlushArrives
  <2>3. flights' \subseteq flights /\ UNCHANGED <<set, chosen, picks, loads>>
    BY <1>23 DEF FlushArrives, page, view, waits, turns, click
  <2> QED BY <1>5, <1>6, <1>7, <1>9, <1>10, <1>11, <2>2, <2>3
<1>24. ASSUME NEW l \in loads, LoadReads(l) PROVE Trust'
  <2>1. UNCHANGED <<set, settings, chosen, picks, flights>>
    BY <1>24 DEF LoadReads, server, view, turns, click
  <2>2. CASE loads' = loads \ {l}
    BY <1>5, <1>6, <1>7, <1>8, <1>9, <1>10, <1>11, <2>1, <2>2
  <2>3. ASSUME NEW k,
               k = [l EXCEPT !.data = [set |-> settings[l.chat], notes |-> saved[l.chat]]],
               loads' = (loads \ {l}) \cup {k}
        PROVE  Trust'
    <3>1. l = [chat |-> l.chat, data |-> l.data] /\ l.chat \in ChatIds
      BY DEF WaitsOK, Born
    <3>2. k.data.set = settings[l.chat]
      BY <2>3, <3>1
    <3>3. Trusted(k.data.set)
      BY <1>4, <3>1, <3>2 DEF TRows
    <3>4. \A m \in loads' : m.data # Nothing => Later(m.data.set)
      BY <1>2, <1>4, <2>3, <3>3 DEF TLoads
    <3>5. TLoads'
      BY <3>4 DEF TLoads, Trusted, Later
    <3> QED BY <1>5, <1>6, <1>7, <1>8, <1>9, <1>10, <2>1, <3>5
  <2> QED BY <1>24, <2>2, <2>3 DEF LoadReads
<1>25. ASSUME NEW l \in loads, LoadAnswers(l) PROVE Trust'
  <2>1. set' = l.data.set /\ Trusted(l.data.set)
    BY <1>4, <1>25 DEF LoadAnswers, TLoads
  <2>2. TSet'
    BY <1>2, <2>1 DEF TSet, Trusted, Later
  <2>3. UNCHANGED <<settings, chosen, picks, flights>> /\ loads' \subseteq loads
    BY <1>25 DEF LoadAnswers, server, turns, click
  <2> QED BY <1>5, <1>6, <1>8, <1>9, <1>10, <1>11, <2>2, <2>3
<1>26. ASSUME NEW r \in removal, Removed(r) PROVE Trust'
  <2>1. /\ Flush \/ flights' \subseteq flights \/ flights' \subseteq flights \cup r.left
        /\ set' = set \/ set' = Default
        /\ UNCHANGED <<settings, chosen, picks, loads>>
    BY <1>26 DEF Removed, Sends, Blanker, Blank, view, turns, click
  <2> QED BY <1>5, <1>6, <1>7, <1>8, <1>9, <1>10, <1>11, <2>1
<1>27. ASSUME NEW c, NEW s, Creates(c, s), Trusted(s) PROVE TRows'
  BY <1>12, <1>27, Newborn DEF Creates
<1>28. ASSUME NEW p \in picks, NEW c \in ChatIds, AttachCreates(p, c) PROVE Trust'
  <2>1. TRows'
    BY <1>4, <1>27, <1>28 DEF AttachCreates, TPicks
  <2>2. UNCHANGED <<set, chosen, flights, loads>> /\ picks' \subseteq picks
    BY <1>28 DEF AttachCreates, turns, click
  <2> QED BY <1>5, <1>6, <1>7, <1>9, <1>10, <1>11, <2>1, <2>2
<1>29. ASSUME NEW p \in picks, AttachFails(p) PROVE Trust'
  <2>1. UNCHANGED <<set, settings, chosen, flights, loads>> /\ picks' \subseteq picks
    BY <1>29 DEF AttachFails, server, view, turns, click
  <2> QED BY <1>5, <1>6, <1>7, <1>8, <1>9, <1>10, <1>11, <2>1
<1>30. ASSUME NEW t \in Turns, EnsureUpdates(t) \/ \E c \in ChatIds : EnsureCreates(t, c)
       PROVE  Trust'
  <2>1. Trusted(chosen[t])
    BY <1>4 DEF TTurns
  <2>2. TRows'
    <3>1. CASE EnsureUpdates(t)
      <4>1. home[t] \in ChatIds /\ Updates(home[t], chosen[t])
        BY <3>1 DEF EnsureUpdates, TurnsOK, Born
      <4> QED BY <1>22, <2>1, <4>1
    <3>2. ASSUME NEW c \in ChatIds, EnsureCreates(t, c) PROVE TRows'
      BY <1>27, <2>1, <3>2 DEF EnsureCreates
    <3> QED BY <1>30, <3>1, <3>2
  <2>3. UNCHANGED <<set, chosen, flights, loads, picks>>
    BY <1>30 DEF EnsureUpdates, EnsureCreates, page, view, waits, click
  <2> QED BY <1>5, <1>6, <1>7, <1>9, <1>10, <1>11, <2>2, <2>3
<1>31. ASSUME NEW t \in Turns,
              EnsureFails(t) \/ Ask(t) \/ AskFails(t) \/ StreamEnds(t) \/ EndsSilent(t)
                  \/ Record(t) \/ RecordFails(t) \/ Streams(t)
       PROVE  Trust'
  <2>1. UNCHANGED <<set, settings, chosen, flights, loads, picks>>
    BY <1>31 DEF EnsureFails, Ask, AskFails, StreamEnds, EndsSilent, Record, RecordFails,
       Streams, server, page, view, waits, turns, click
  <2> QED BY <1>5, <1>6, <1>7, <1>8, <1>9, <1>10, <1>11, <2>1
<1>32. CASE UNCHANGED viewVars
  <2>1. UNCHANGED <<set, settings, chosen, flights, loads, picks>>
    BY <1>32 DEF viewVars, server, page, view, waits, turns, click
  <2> QED BY <1>5, <1>6, <1>7, <1>8, <1>9, <1>10, <1>11, <2>1
<1> QED BY <1>13, <1>15, <1>16, <1>17, <1>19, <1>20, <1>21, <1>23, <1>24, <1>25, <1>26, <1>28,
   <1>29, <1>30, <1>31, <1>32 DEF ViewNext, User, Answers, Advance

----------------------------------------------------------------------------
(* What the page shows.                                                    *)

Quiet == UNCHANGED <<stay, turns, failed, open, shown, strayed>>

\* The steps that change what the page shows, where it is or where a turn is.
Moving ==
    \/ Mount \/ Unmount \/ NewChat
    \/ \E l \in loads : LoadAnswers(l)
    \/ \E r \in removal : Removed(r)
    \/ \E p \in picks, c \in ChatIds : AttachCreates(p, c)
    \/ \E t \in Turns : Send(t) \/ Advance(t) \/ Streams(t)

LEMMA MovingSteps == [ViewNext]_viewVars => Quiet \/ Moving
<1> SUFFICES ASSUME [ViewNext]_viewVars PROVE Quiet \/ Moving
  OBVIOUS
<1>1. CASE User
  <2>1. ASSUME NEW c \in ChatIds, OpenSession(c) \/ RemoveSession(c) PROVE Quiet
    BY <2>1 DEF OpenSession, RemoveSession, Quiet, view
  <2>2. ASSUME NEW s, Edit(s) PROVE Quiet
    BY <2>2 DEF Edit, Quiet
  <2>3. CASE Tweak \/ FilesPicked
    BY <2>3 DEF Tweak, FilesPicked, Quiet, view
  <2>4. ToggleAuto \/ (\E f \in Folders \cup {Nothing} : ChangeWorkspace(f)) => \E s : Edit(s)
    BY DEF ToggleAuto, ChangeWorkspace
  <2> QED BY <1>1, <2>1, <2>2, <2>3, <2>4 DEF User, Moving
<1>2. CASE Answers
  <2>1. CASE TimerFires \/ BootEnds \/ \E c \in ChatIds : BootOpens(c)
    BY <2>1 DEF TimerFires, BootEnds, BootOpens, Quiet, view
  <2>2. ASSUME NEW l \in loads, LoadReads(l) PROVE Quiet
    BY <2>2 DEF LoadReads, Quiet, view
  <2>3. ASSUME NEW p \in picks, AttachFails(p) PROVE Quiet
    BY <2>3 DEF AttachFails, Quiet, view
  <2>4. ASSUME NEW f, FlushArrives(f) PROVE Quiet
    BY <2>4 DEF FlushArrives, Quiet, page, view
  <2> QED BY <1>2, <2>1, <2>2, <2>3, <2>4 DEF Answers, Moving
<1>3. CASE UNCHANGED viewVars
  BY <1>3 DEF viewVars, Quiet, page, view
<1> QED BY <1>1, <1>2, <1>3 DEF ViewNext

LEMMA ComposerStep ==
    PageOK /\ TurnsOK /\ Composer /\ [ViewNext]_viewVars => Composer'
<1> SUFFICES ASSUME PageOK, TurnsOK, Composer, [ViewNext]_viewVars PROVE Composer'
  OBVIOUS
<1> USE DEF Composer, Here, Active
<1>1. CASE UNCHANGED <<stay, turn, from>>
  BY <1>1 DEF stay
<1>2. CASE Mount
  <2>1. mount' = mount + 1 /\ from' = from
    BY <1>2 DEF Mount, turns, click
  <2>2. \A t \in Turns : from'[t] <= mount' /\ from'[t] # mount'
    BY <2>1 DEF PageOK, TurnsOK
  <2>3. ~up /\ busy' = busy
    BY <1>2 DEF Mount
  <2> QED BY <2>2, <2>3
<1>3. CASE Unmount
  BY <1>3 DEF Unmount, turns, click
<1>4. ASSUME NEW t \in Turns, Send(t) PROVE Composer'
  <2>1. /\ ~busy /\ busy' = TRUE /\ mount' = mount /\ up' = up
        /\ turn' = [turn EXCEPT ![t] = "ensure"] /\ from' = [from EXCEPT ![t] = mount]
    BY <1>4 DEF Send, Moves
  <2>2. \A u \in Turns : u # t => ~(Here(u)' /\ Active(u)')
    BY <2>1 DEF TurnsOK
  <2>3. \A u \in Turns : from'[u] <= mount'
    BY <2>1 DEF TurnsOK, PageOK
  <2>4. Here(t)' /\ Active(t)'
    BY <1>4, <2>1 DEF Send, TurnsOK
  <2> QED BY <2>1, <2>2, <2>3, <2>4
<1>5. ASSUME NEW t \in Turns, Advance(t) PROVE Composer'
  <2>1. mount' = mount /\ up' = up /\ from' = from
    BY <1>5 DEF Advance, EnsureUpdates, EnsureCreates, EnsureFails, Ask, AskFails, StreamEnds,
       EndsSilent, Record, RecordFails, page, stay, click
  <2>2. /\ turn[t] \in {"ensure", "ask", "stream", "record"}
        /\ \A u \in Turns : u # t => turn'[u] = turn[u]
    BY <1>5 DEF Advance, EnsureUpdates, EnsureCreates, EnsureFails, Ask, AskFails, StreamEnds,
       EndsSilent, Record, RecordFails, Moves, TurnsOK
  <2>3. \/ busy' = busy
        \/ turn'[t] \in {"done", "silent"} /\ busy' = IF Here(t) THEN FALSE ELSE busy
    BY <1>5 DEF Advance, EnsureUpdates, EnsureCreates, EnsureFails, Ask, AskFails, StreamEnds,
       EndsSilent, Record, RecordFails, page, stay, Moves, Unbusy, TurnsOK
  <2>4. \A u \in Turns : Here(u)' /\ Active(u)' => Here(u) /\ Active(u)
    BY <2>1, <2>2
  <2>5. \A u \in Turns : Here(u)' /\ Active(u)' => busy'
    <3>1. CASE busy' = busy
      BY <2>4, <3>1
    <3>2. CASE turn'[t] \in {"done", "silent"} /\ busy' = IF Here(t) THEN FALSE ELSE busy
      <4>1. ASSUME NEW u \in Turns, Here(u)', Active(u)' PROVE busy'
        <5>1. u # t
          BY <3>2, <4>1
        <5>2. Here(u) /\ Active(u) /\ busy
          BY <2>4, <4>1
        <5>3. ~Here(t)
          BY <2>2, <5>1, <5>2
        <5> QED BY <3>2, <5>2, <5>3
      <4> QED BY <4>1
    <3> QED BY <2>3, <3>1, <3>2
  <2>6. busy' => \E u \in Turns : Here(u)' /\ Active(u)'
    <3>1. ASSUME busy', busy, NEW u \in Turns, Here(u), Active(u) PROVE Here(u)' /\ Active(u)'
      <4>1. CASE u # t
        BY <2>1, <2>2, <3>1, <4>1
      <4>2. CASE u = t
        <5>1. ~EndsSilent(t) /\ ~Record(t) /\ ~RecordFails(t)
          BY <3>1, <4>2 DEF EndsSilent, Record, RecordFails, Unbusy
        <5>2. turn'[t] \in {"ask", "stream", "record"}
          BY <1>5, <5>1 DEF Advance, EnsureUpdates, EnsureCreates, EnsureFails, Ask, AskFails,
             StreamEnds, Moves, TurnsOK
        <5> QED BY <2>1, <3>1, <4>2, <5>2
      <4> QED BY <4>1, <4>2
    <3>2. busy' => busy
      BY <2>3
    <3> QED BY <3>1, <3>2
  <2> QED BY <2>1, <2>4, <2>5, <2>6
<1>6. CASE Quiet
  BY <1>1, <1>6 DEF Quiet, turns, click
<1>7. ASSUME NEW l, LoadAnswers(l) PROVE Composer'
  BY <1>1, <1>7 DEF LoadAnswers, turns, click
<1>8. ASSUME NEW r, Removed(r) PROVE Composer'
  BY <1>1, <1>8 DEF Removed, turns, click
<1>9. ASSUME NEW p, NEW c, AttachCreates(p, c) PROVE Composer'
  BY <1>1, <1>9 DEF AttachCreates, turns, click
<1>10. ASSUME NEW t, Streams(t) PROVE Composer'
  BY <1>1, <1>10 DEF Streams, turns, click
<1>11. CASE NewChat
  BY <1>1, <1>11 DEF NewChat, turns, click
<1> QED BY <1>2, <1>3, <1>4, <1>5, <1>6, <1>7, <1>8, <1>9, <1>10, <1>11, MovingSteps DEF Moving

LEMMA LoadsInPlaceStep ==
    RowsOK /\ PageOK /\ WaitsOK /\ TurnsOK /\ InPlace /\ NotesInPlace /\ LoadsInPlace
        /\ [ViewNext]_viewVars => LoadsInPlace'
<1> SUFFICES ASSUME RowsOK, PageOK, WaitsOK, TurnsOK, InPlace, NotesInPlace, LoadsInPlace,
                    [ViewNext]_viewVars
             PROVE  LoadsInPlace'
  OBVIOUS
<1>1. ASSUME NEW l \in loads, l.data # Nothing, NEW i \in 1..Len(l.data.notes)
      PROVE  into'[l.data.notes[i].turn] = l.chat
  <2>1. l.data.notes \in Seq(Note) /\ l.chat \in ChatIds
    BY <1>1 DEF WaitsOK, Loaded, Born
  <2>2. l.data.notes[i] \in Note
    BY <2>1
  <2>3. l.data.notes[i].turn \in Turns
    BY <2>2 DEF Note
  <2>4. into[l.data.notes[i].turn] = l.chat /\ l.chat # Nothing
    BY <1>1, <2>1, ViewAssumption DEF LoadsInPlace
  <2> QED BY <2>3, <2>4, IntoStep
<1>2. ASSUME \A l \in loads' : l \in loads \/ l.data = Nothing PROVE LoadsInPlace'
  BY <1>1, <1>2 DEF LoadsInPlace
<1>3. ASSUME NEW l \in loads, LoadReads(l) PROVE LoadsInPlace'
  <2>1. CASE loads' = loads \ {l}
    BY <1>2, <2>1
  <2>2. ASSUME NEW k,
               k = [l EXCEPT !.data = [set |-> settings[l.chat], notes |-> saved[l.chat]]],
               loads' = (loads \ {l}) \cup {k}
        PROVE  LoadsInPlace'
    <3>1. l = [chat |-> l.chat, data |-> l.data] /\ l.chat \in ChatIds
      BY DEF WaitsOK, Born
    <3>2. k.chat = l.chat /\ k.data.notes = saved[l.chat]
      BY <2>2, <3>1
    <3>3. into' = into
      BY <1>3 DEF LoadReads, turns
    <3>4. \A i \in 1..Len(k.data.notes) : into'[k.data.notes[i].turn] = k.chat
      BY <3>1, <3>2, <3>3 DEF NotesInPlace
    <3> QED BY <1>1, <2>2, <3>4 DEF LoadsInPlace
  <2> QED BY <1>3, <2>1, <2>2 DEF LoadReads
<1>4. CASE \E c \in ChatIds : OpenSession(c) \/ BootOpens(c)
  BY <1>2, <1>4 DEF OpenSession, BootOpens
<1>5. CASE loads' \subseteq loads
  BY <1>2, <1>5
<1>6. CASE User
  <2>1. CASE Mount \/ Unmount \/ NewChat \/ Tweak \/ FilesPicked \/ ToggleAuto
    BY <1>5, <2>1 DEF Mount, Unmount, NewChat, Tweak, FilesPicked, ToggleAuto, Edit, waits
  <2>2. ASSUME NEW f, ChangeWorkspace(f) PROVE loads' \subseteq loads
    BY <2>2 DEF ChangeWorkspace, Edit, waits
  <2>3. ASSUME NEW c, RemoveSession(c) PROVE loads' \subseteq loads
    BY <2>3 DEF RemoveSession
  <2>4. ASSUME NEW t, Send(t) PROVE loads' \subseteq loads
    BY <2>4 DEF Send, waits
  <2> QED BY <1>4, <1>5, <1>6, <2>1, <2>2, <2>3, <2>4 DEF User
<1>7. CASE Answers
  <2>1. CASE TimerFires \/ BootEnds
    BY <1>5, <2>1 DEF TimerFires, BootEnds, waits
  <2>2. ASSUME NEW f, FlushArrives(f) PROVE loads' \subseteq loads
    BY <2>2 DEF FlushArrives, page, waits
  <2>3. ASSUME NEW l, LoadAnswers(l) PROVE loads' \subseteq loads
    BY <2>3 DEF LoadAnswers
  <2>4. ASSUME NEW r, Removed(r) PROVE loads' \subseteq loads
    BY <2>4 DEF Removed
  <2>5. ASSUME NEW p, AttachFails(p) \/ \E c \in ChatIds : AttachCreates(p, c)
        PROVE  loads' \subseteq loads
    BY <2>5 DEF AttachFails, AttachCreates
  <2>6. ASSUME NEW t, Advance(t) \/ Streams(t) PROVE loads' \subseteq loads
    BY <2>6 DEF Advance, EnsureUpdates, EnsureCreates, EnsureFails, Ask, AskFails, StreamEnds,
       EndsSilent, Record, RecordFails, Streams, page, waits
  <2> QED BY <1>3, <1>4, <1>5, <1>7, <2>1, <2>2, <2>3, <2>4, <2>5, <2>6 DEF Answers
<1>8. CASE UNCHANGED viewVars
  BY <1>5, <1>8 DEF viewVars, page, waits
<1> QED BY <1>6, <1>7, <1>8 DEF ViewNext

LEMMA FollowsStep ==
    PageOK /\ WaitsOK /\ TurnsOK /\ InPlace /\ Composer /\ Follows /\ [ViewNext]_viewVars
        => Follows'
<1> SUFFICES ASSUME PageOK, WaitsOK, TurnsOK, InPlace, Composer, Follows,
                    [ViewNext]_viewVars, ~strayed', NEW t \in Turns, Here(t)'
             PROVE  /\ turn'[t] = "ensure" => home'[t] = open'
                    /\ turn'[t] \in {"ask", "stream", "record"} =>
                          t \in failed' \/ (open' # Nothing /\ into'[t] = open')
  BY DEF Follows, Here
<1> DEFINE Goal == /\ turn'[t] = "ensure" => home'[t] = open'
                   /\ turn'[t] \in {"ask", "stream", "record"} =>
                          t \in failed' \/ (open' # Nothing /\ into'[t] = open')
<1>1. ASSUME Here(t), UNCHANGED <<turns, open>>, failed' = failed, ~strayed PROVE Goal
  BY <1>1 DEF Follows, turns, click
<1>2. ASSUME UNCHANGED <<turns, stay>>, ~busy PROVE Goal
  <2>1. Here(t) /\ turn' = turn
    BY <1>2 DEF Here, stay, turns, click
  <2>2. turn[t] \notin {"ensure", "ask", "stream", "record"}
    BY <1>2, <2>1 DEF Composer, Active
  <2> QED BY <2>1, <2>2
<1>3. CASE Quiet
  <2>1. Here(t)
    BY <1>3 DEF Quiet, Here, stay, turns, click
  <2> QED BY <1>1, <1>3, <2>1 DEF Quiet
<1>4. CASE Mount
  <2>1. mount' = mount + 1 /\ from' = from
    BY <1>4 DEF Mount, turns, click
  <2>2. from[t] <= mount /\ from[t] \in Nat /\ mount \in Nat
    BY DEF Composer, TurnsOK, PageOK
  <2>3. ~Here(t)'
    BY <2>1, <2>2 DEF Here
  <2> QED BY <2>3
<1>5. CASE Unmount
  BY <1>5 DEF Unmount, Here
<1>6. CASE NewChat
  BY <1>2, <1>6 DEF NewChat
<1>7. ASSUME NEW l, LoadAnswers(l) PROVE Goal
  BY <1>2, <1>7 DEF LoadAnswers
<1>8. ASSUME NEW r, Removed(r) PROVE Goal
  <2>1. CASE r.wasOpen /\ Mine(r)
    BY <1>2, <1>8, <2>1 DEF Removed
  <2>2. CASE ~(r.wasOpen /\ Mine(r))
    <3>1. Quiet
      BY <1>8, <2>2 DEF Removed, Quiet, view
    <3> QED BY <1>3, <3>1
  <2> QED BY <2>1, <2>2
<1>9. ASSUME NEW p, NEW c, AttachCreates(p, c) PROVE Goal
  <2>1. CASE Mine(p)
    BY <1>2, <1>9, <2>1 DEF AttachCreates
  <2>2. CASE ~Mine(p)
    BY <1>3, <1>9, <2>2 DEF AttachCreates, Quiet
  <2> QED BY <2>1, <2>2
<1>10. ASSUME NEW u, Streams(u) PROVE Goal
  <2>1. Here(t)
    BY <1>10 DEF Streams, Here, stay, turns, click
  <2> QED BY <1>1, <1>10, <2>1 DEF Streams
<1>11. ASSUME NEW u \in Turns, Send(u) PROVE Goal
  <2>1. /\ ~busy /\ up' = up /\ mount' = mount /\ open' = open
        /\ turn' = [turn EXCEPT ![u] = "ensure"] /\ home' = [home EXCEPT ![u] = open]
        /\ from' = [from EXCEPT ![u] = mount]
    BY <1>11 DEF Send, Moves
  <2>2. CASE u = t
    BY <2>1, <2>2 DEF TurnsOK
  <2>3. CASE u # t
    <3>1. Here(t) /\ turn'[t] = turn[t]
      BY <2>1, <2>3 DEF Here, TurnsOK
    <3>2. turn[t] \notin {"ensure", "ask", "stream", "record"}
      BY <2>1, <3>1 DEF Composer, Active
    <3> QED BY <3>1, <3>2
  <2> QED BY <2>2, <2>3
<1>12. ASSUME NEW u \in Turns, Advance(u) PROVE Goal
  <2>1. /\ mount' = mount /\ up' = up /\ from' = from /\ home' = home /\ strayed' = strayed
        /\ failed \subseteq failed'
    BY <1>12 DEF Advance, EnsureUpdates, EnsureCreates, EnsureFails, Ask, AskFails, StreamEnds,
       EndsSilent, Record, RecordFails, Fails, page, stay, click
  <2>2. turn[u] \in {"ensure", "ask", "stream", "record"}
    BY <1>12 DEF Advance, EnsureUpdates, EnsureCreates, EnsureFails, Ask, AskFails, StreamEnds,
       EndsSilent, Record, RecordFails
  <2>3. Here(t)
    BY <2>1 DEF Here
  <2>4. CASE u # t
    <3>1. turn'[t] = turn[t] /\ into'[t] = into[t]
      BY <1>12, <2>4 DEF Advance, EnsureUpdates, EnsureCreates, EnsureFails, Ask, AskFails,
         StreamEnds, EndsSilent, Record, RecordFails, Moves, TurnsOK
    <3>2. CASE turn[t] \in {"ensure", "ask", "stream", "record"}
      <4>1. ~Here(u)
        BY <2>2, <2>3, <2>4, <3>2 DEF Composer, Active
      <4>2. open' = open
        BY <1>12, <4>1 DEF Advance, EnsureUpdates, EnsureCreates, EnsureFails, Ask, AskFails,
           StreamEnds, EndsSilent, Record, RecordFails, page, view
      <4> QED BY <2>1, <2>3, <3>1, <4>2 DEF Follows
    <3>3. CASE turn[t] \notin {"ensure", "ask", "stream", "record"}
      BY <3>1, <3>3
    <3> QED BY <3>2, <3>3
  <2>5. CASE u = t
    <3>1. CASE EnsureUpdates(t)
      <4>1. /\ turn[t] = "ensure" /\ turn'[t] = "ask" /\ home[t] # Nothing
            /\ into'[t] = home[t] /\ open' = open
        BY <3>1 DEF EnsureUpdates, Moves, page, view, TurnsOK
      <4> QED BY <2>1, <2>3, <4>1 DEF Follows
    <3>2. ASSUME NEW c \in ChatIds, EnsureCreates(t, c) PROVE Goal
      <4>1. turn'[t] = "ask" /\ into'[t] = c /\ open' = c
        BY <2>3, <3>2 DEF EnsureCreates, Moves, GoesTo, TurnsOK
      <4> QED BY <4>1, ViewAssumption
    <3>3. CASE EnsureFails(t) \/ AskFails(t) \/ RecordFails(t)
      <4>1. t \in failed' /\ turn'[t] # "ensure"
        BY <3>3 DEF EnsureFails, AskFails, RecordFails, Fails, Moves, TurnsOK
      <4> QED BY <4>1
    <3>4. CASE Ask(t) \/ StreamEnds(t)
      <4>1. /\ turn[t] \in {"ask", "stream"} /\ turn'[t] # "ensure"
            /\ into' = into /\ open' = open
        BY <3>4 DEF Ask, StreamEnds, Moves, page, view, TurnsOK
      <4> QED BY <2>1, <2>3, <4>1 DEF Follows
    <3>5. CASE EndsSilent(t) \/ Record(t)
      <4>1. turn'[t] \in {"silent", "done"}
        BY <3>5 DEF EndsSilent, Record, Moves, TurnsOK
      <4> QED BY <4>1
    <3> QED BY <1>12, <2>5, <3>1, <3>2, <3>3, <3>4, <3>5 DEF Advance
  <2> QED BY <2>4, <2>5
<1> QED BY <1>3, <1>4, <1>5, <1>6, <1>7, <1>8, <1>9, <1>10, <1>11, <1>12, MovingSteps DEF Moving

LEMMA ConcatAt ==
    ASSUME NEW T, NEW s \in Seq(T), NEW r \in Seq(T), NEW i \in 1..Len(s \o r)
    PROVE  /\ i \in 1..Len(s) + Len(r)
           /\ (s \o r)[i] = IF i <= Len(s) THEN s[i] ELSE r[i - Len(s)]
OBVIOUS

LEMMA ShownBelongsStep ==
    PageOK /\ WaitsOK /\ TurnsOK /\ InPlace /\ Composer /\ LoadsInPlace /\ Follows /\ ShownBelongs
        /\ [ViewNext]_viewVars => ShownBelongs'
<1> SUFFICES ASSUME PageOK, WaitsOK, TurnsOK, InPlace, Composer, LoadsInPlace, Follows,
                    ShownBelongs, [ViewNext]_viewVars, ~strayed',
                    NEW i \in 1..Len(shown'), NEW t, t = shown'[i].turn
             PROVE  Belongs(t)'
  BY DEF ShownBelongs, Belongs, Here
<1>1. ASSUME shown' = shown, ~strayed PROVE t \in Turns /\ Belongs(t)
  <2>1. i \in 1..Len(shown) /\ shown[i] \in Note /\ t = shown[i].turn
    BY <1>1 DEF PageOK
  <2> QED BY <1>1, <2>1 DEF ShownBelongs, Note
<1>2. CASE Quiet
  <2>1. Belongs(t) /\ UNCHANGED <<turn, home, from, into, failed, open, up, mount>>
    BY <1>1, <1>2 DEF Quiet, turns, click, stay
  <2> QED BY <2>1 DEF Belongs, Here
<1>3. CASE shown' = <<>>
  BY <1>3
<1>4. CASE Mount
  <2>1. /\ Belongs(t) /\ ~up
        /\ UNCHANGED <<open, into, failed>>
    BY <1>1, <1>4 DEF Mount, view, turns
  <2> QED BY <2>1 DEF Belongs, Here
<1>5. CASE Unmount \/ NewChat
  BY <1>3, <1>5 DEF Unmount, NewChat, Blanker, Blank
<1>6. ASSUME NEW l \in loads, LoadAnswers(l) PROVE Belongs(t)'
  <2>1. /\ shown' = l.data.notes /\ open' = l.chat /\ into' = into /\ l.data # Nothing
    BY <1>6 DEF LoadAnswers, turns
  <2>2. into[t] = l.chat
    BY <2>1 DEF LoadsInPlace
  <2>3. l.chat # Nothing
    BY ViewAssumption DEF WaitsOK, Born
  <2> QED BY <2>1, <2>2, <2>3 DEF Belongs
<1>7. ASSUME NEW r, Removed(r) PROVE Belongs(t)'
  <2>1. CASE r.wasOpen /\ Mine(r)
    BY <1>3, <1>7, <2>1 DEF Removed, Blanker, Blank
  <2>2. CASE ~(r.wasOpen /\ Mine(r))
    <3>1. Quiet
      BY <1>7, <2>2 DEF Removed, Quiet, view
    <3> QED BY <1>2, <3>1
  <2> QED BY <2>1, <2>2
<1>8. ASSUME NEW p, NEW c, AttachCreates(p, c) PROVE Belongs(t)'
  <2>1. CASE Mine(p)
    BY <1>3, <1>8, <2>1 DEF AttachCreates
  <2>2. CASE ~Mine(p)
    BY <1>2, <1>8, <2>2 DEF AttachCreates, Quiet
  <2> QED BY <2>1, <2>2
<1>9. ASSUME NEW u \in Turns, Send(u) PROVE Belongs(t)'
  <2> DEFINE both == <<[turn |-> u, role |-> "user"], [turn |-> u, role |-> "assistant"]>>
  <2>1. /\ up /\ up' = up /\ mount' = mount /\ open' = open /\ into' = into /\ failed' = failed
        /\ strayed' = strayed /\ shown' = shown \o both
        /\ turn' = [turn EXCEPT ![u] = "ensure"] /\ home' = [home EXCEPT ![u] = open]
        /\ from' = [from EXCEPT ![u] = mount]
    BY <1>9 DEF Send, Moves
  <2>2. CASE t = u
    <3>1. Here(t)'
      BY <2>1, <2>2 DEF Here, TurnsOK
    <3> QED BY <2>1, <2>2, <3>1 DEF Belongs, TurnsOK
  <2>3. CASE t # u
    <3>1. shown \in Seq(Note) /\ both \in Seq(Note) /\ Len(both) = 2
      BY DEF PageOK, Note
    <3>2. \A j \in 1..2 : both[j].turn = u
      OBVIOUS
    <3> HIDE DEF both
    <3>3. /\ i \in 1..Len(shown) + 2
          /\ shown'[i] = IF i <= Len(shown) THEN shown[i] ELSE both[i - Len(shown)]
      BY <2>1, <3>1, ConcatAt
    <3>4. i <= Len(shown)
      <4>1. ASSUME ~(i <= Len(shown)) PROVE FALSE
        <5>1. i - Len(shown) \in 1..2 /\ shown'[i] = both[i - Len(shown)]
          BY <3>1, <3>3, <4>1
        <5> QED BY <2>3, <3>2, <5>1
      <4> QED BY <4>1
    <3>5. i \in 1..Len(shown) /\ t = shown[i].turn /\ shown[i] \in Note
      BY <3>1, <3>3, <3>4
    <3>6. Belongs(t) /\ t \in Turns
      BY <2>1, <3>5 DEF ShownBelongs, Note
    <3>7. turn'[t] = turn[t] /\ home'[t] = home[t] /\ from'[t] = from[t]
      BY <2>1, <2>3, <3>6 DEF TurnsOK
    <3> QED BY <2>1, <3>6, <3>7 DEF Belongs, Here
  <2> QED BY <2>2, <2>3
<1>10. ASSUME NEW u \in Turns, Streams(u) PROVE Belongs(t)'
  <2>1. /\ turn[u] = "stream" /\ Here(u) /\ ~strayed
        /\ UNCHANGED <<turn, home, from, into, failed, open, up, mount>>
        /\ shown # <<>> /\ shown' = [shown EXCEPT ![Len(shown)].turn = u]
    BY <1>10 DEF Streams, turns, click, stay
  <2>2. CASE i = Len(shown)
    <3>1. shown[i] \in Note /\ shown' = [shown EXCEPT ![i] = [shown[i] EXCEPT !.turn = u]]
      BY <2>1, <2>2 DEF PageOK
    <3>2. shown'[i] = [shown[i] EXCEPT !.turn = u]
      BY <2>1, <2>2, <3>1 DEF PageOK
    <3>3. t = u
      BY <3>1, <3>2 DEF Note
    <3> QED BY <2>1, <3>3 DEF Belongs, Follows
  <2>3. CASE i # Len(shown)
    <3>1. i \in 1..Len(shown) /\ shown'[i] = shown[i]
      BY <2>1, <2>3 DEF PageOK
    <3>2. Belongs(t)
      BY <2>1, <3>1 DEF ShownBelongs
    <3>3. UNCHANGED <<turn, home, from, into, failed, open, up, mount>>
      BY <2>1
    <3> QED BY <3>2, <3>3 DEF Belongs, Here
  <2> QED BY <2>2, <2>3
<1>11. ASSUME NEW u \in Turns, Advance(u) PROVE Belongs(t)'
  <2>1. /\ mount' = mount /\ up' = up /\ from' = from /\ home' = home /\ strayed' = strayed
        /\ failed \subseteq failed' /\ shown' = shown
    BY <1>11 DEF Advance, EnsureUpdates, EnsureCreates, EnsureFails, Ask, AskFails, StreamEnds,
       EndsSilent, Record, RecordFails, Fails, page, stay, view, click
  <2>2. t \in Turns /\ Belongs(t)
    BY <1>1, <2>1
  <2>3. CASE EnsureUpdates(u)
    <3>1. /\ turn[u] = "ensure" /\ home[u] # Nothing /\ open' = open
          /\ into' = [into EXCEPT ![u] = home[u]] /\ turn' = [turn EXCEPT ![u] = "ask"]
      BY <2>3 DEF EnsureUpdates, Moves, page, view
    <3>2. CASE t = u
      <4>1. into[t] = Nothing /\ into'[t] = home[t]
        BY <2>2, <3>1, <3>2 DEF InPlace, TurnsOK
      <4> QED BY <2>1, <2>2, <3>1, <3>2, <4>1 DEF Belongs
    <3>3. CASE t # u
      <4>1. into'[t] = into[t] /\ turn'[t] = turn[t]
        BY <2>2, <3>1, <3>3 DEF TurnsOK
      <4> QED BY <2>1, <2>2, <3>1, <4>1 DEF Belongs, Here
    <3> QED BY <3>2, <3>3
  <2>4. ASSUME NEW c \in ChatIds, EnsureCreates(u, c) PROVE Belongs(t)'
    <3>1. /\ turn[u] = "ensure" /\ home[u] = Nothing
          /\ into' = [into EXCEPT ![u] = c] /\ turn' = [turn EXCEPT ![u] = "ask"]
          /\ IF Here(u) THEN open' = c ELSE open' = open
      BY <2>4 DEF EnsureCreates, Moves, GoesTo
    <3>2. into[u] = Nothing
      BY <3>1 DEF InPlace
    <3>3. CASE Here(u)
      <4>1. open = Nothing /\ open' = c /\ c # Nothing
        BY <2>1, <3>1, <3>3, ViewAssumption DEF Follows
      <4>2. CASE t = u
        BY <2>2, <3>1, <4>1, <4>2 DEF Belongs, TurnsOK
      <4>3. CASE t # u
        <5>1. ~(Here(t) /\ turn[t] = "ensure")
          BY <2>2, <3>1, <3>3, <4>3 DEF Composer, Active
        <5> QED BY <2>1, <2>2, <4>1, <5>1 DEF Belongs
      <4> QED BY <4>2, <4>3
    <3>4. CASE ~Here(u)
      <4>1. CASE t = u
        BY <2>1, <2>2, <3>2, <3>4, <4>1 DEF Belongs
      <4>2. CASE t # u
        <5>1. into'[t] = into[t] /\ turn'[t] = turn[t] /\ open' = open
          BY <2>2, <3>1, <3>4, <4>2 DEF TurnsOK
        <5> QED BY <2>1, <2>2, <5>1 DEF Belongs, Here
      <4> QED BY <4>1, <4>2
    <3> QED BY <3>3, <3>4
  <2>5. CASE EnsureFails(u)
    <3>1. /\ u \in failed' /\ UNCHANGED <<open, into>> /\ turn' = [turn EXCEPT ![u] = "stream"]
      BY <2>5 DEF EnsureFails, Fails, Moves, page, view
    <3>2. t # u => turn'[t] = turn[t]
      BY <2>2, <3>1 DEF TurnsOK
    <3> QED BY <2>1, <2>2, <3>1, <3>2 DEF Belongs, Here
  <2>6. CASE Ask(u) \/ AskFails(u) \/ StreamEnds(u) \/ EndsSilent(u) \/ Record(u) \/ RecordFails(u)
    <3>1. turn[u] # "ensure" /\ UNCHANGED <<open, into>> /\ \E s : turn' = [turn EXCEPT ![u] = s]
      BY <2>6 DEF Ask, AskFails, StreamEnds, EndsSilent, Record, RecordFails, Moves, page, view
    <3>2. turn[t] = "ensure" => turn'[t] = "ensure"
      BY <2>2, <3>1 DEF TurnsOK
    <3> QED BY <2>1, <2>2, <3>1, <3>2 DEF Belongs, Here
  <2> QED BY <1>11, <2>3, <2>4, <2>5, <2>6 DEF Advance
<1> QED BY <1>2, <1>4, <1>5, <1>6, <1>7, <1>8, <1>9, <1>10, <1>11, MovingSteps DEF Moving

----------------------------------------------------------------------------
(* Theorems about the page.                                                *)

ViewInv ==
    /\ RowsOK /\ PageOK /\ WaitsOK /\ TurnsOK
    /\ InPlace /\ NotesInPlace /\ Recorded
    /\ Trust /\ LeftTrusted
    /\ Composer /\ LoadsInPlace /\ Follows /\ ShownBelongs

LEMMA ViewInvInit == ViewInit => ViewInv
<1> SUFFICES ASSUME ViewInit PROVE ViewInv
  OBVIOUS
<1>1. InPlace /\ NotesInPlace /\ Recorded
  BY DEF ViewInit, InPlace, NotesInPlace, Recorded
<1>2. Trust /\ LeftTrusted
  BY DEF ViewInit, Trust, LeftTrusted, Trusted, Default
<1>3. Composer
  BY DEF ViewInit, Composer, Here, Active
<1>4. LoadsInPlace /\ Follows /\ ShownBelongs
  BY DEF ViewInit, LoadsInPlace, Follows, ShownBelongs, Here
<1> QED BY <1>1, <1>2, <1>3, <1>4, ViewInitOK DEF ViewInv

LEMMA ViewInvariant == ViewInit /\ [][ViewNext]_viewVars => []ViewInv
<1>1. ViewInv /\ [ViewNext]_viewVars => ViewInv'
  BY ViewRowsStep, PageStep, WaitsStep, TurnsStep, InPlaceStep, NotesInPlaceStep, RecordedStep,
     TrustStep, LeftStep, ComposerStep, LoadsInPlaceStep, FollowsStep, ShownBelongsStep DEF ViewInv
<1> QED BY <1>1, ViewInvInit, PTL

\* Every variable of the page, the turns and the rows keeps its type: a chat that is gone
\* has no messages, and nothing is under way for a chat that never was.
THEOREM ViewTypes == ViewSpec => []ViewTypeOK
<1>1. ViewInv => ViewTypeOK
  <2> SUFFICES ASSUME ViewInv PROVE ViewTypeOK
    OBVIOUS
  <2>1. /\ life \in [ChatIds -> {"unborn", "live", "gone"}] /\ settings \in [ChatIds -> Settings]
        /\ \A c \in ChatIds : saved[c] \in Seq(Note) /\ (~Exists(c) => saved[c] = <<>>)
    BY DEF ViewInv, RowsOK
  <2>2. /\ \A l \in loads : l.chat \in Born
        /\ picks \subseteq [set: Settings, from: 1..MaxMounts]
        /\ removal \subseteq [chat: Born, wasOpen: BOOLEAN, from: 1..MaxMounts,
                              left: SUBSET [chat: Born, set: Settings]]
        /\ flights \subseteq [chat: Born, set: Settings]
    BY DEF ViewInv, WaitsOK, Removals
  <2> QED BY <2>1, <2>2 DEF ViewInv, PageOK, TurnsOK, ViewTypeOK
<1> QED BY <1>1, ViewInvariant, PTL DEF ViewSpec

\* Whatever answers come late and wherever the page is by then, a turn is recorded in the
\* chat it was sent from or in the one made for it, whole, unless the server refused,
\* the chat is gone, or there was no answer to record.
THEOREM TurnsAreRecorded == ViewSpec => []TurnsInTheirChat
<1>1. ViewInv => TurnsInTheirChat
  <2> SUFFICES ASSUME ViewInv PROVE TurnsInTheirChat
    OBVIOUS
  <2>1. ASSUME NEW t \in Turns, NEW c \in ChatIds, NEW note \in Notes(c), note.turn = t
        PROVE  c = into[t] /\ home[t] \in {c, Nothing}
    <3>1. c = into[t]
      BY <2>1 DEF ViewInv, NotesInPlace, Notes
    <3>2. c # Nothing
      BY ViewAssumption
    <3> QED BY <3>1, <3>2 DEF ViewInv, InPlace
  <2>2. ASSUME NEW t \in Turns, turn[t] = "silent", t \notin failed, Exists(into[t])
        PROVE  [turn |-> t, role |-> "user"] \in Notes(into[t])
    <3>1. into[t] # Nothing
      BY <2>2 DEF ViewInv, InPlace
    <3> QED BY <2>2, <3>1 DEF ViewInv, Recorded, Question, Notes
  <2>3. ASSUME NEW t \in Turns, turn[t] = "done", t \notin failed, Exists(into[t])
        PROVE  \E i, j \in 1..Len(saved[into[t]]) :
                   /\ i < j
                   /\ saved[into[t]][i] = [turn |-> t, role |-> "user"]
                   /\ saved[into[t]][j] = [turn |-> t, role |-> "assistant"]
    <3>1. into[t] # Nothing
      BY <2>3 DEF ViewInv, InPlace
    <3> QED BY <2>3, <3>1 DEF ViewInv, Recorded, Question, Reply
  <2> QED BY <2>1, <2>2, <2>3 DEF TurnsInTheirChat, Notes
<1> QED BY <1>1, ViewInvariant, PTL DEF ViewSpec

\* No settings the page, a turn, a row or a request holds auto-approve calls in a folder
\* the user has not trusted, in whatever order they arrive.
THEOREM TrustStays == ViewSpec => []TrustIsPerFolder
<1>1. ViewInv => TrustIsPerFolder
  <2> SUFFICES ASSUME ViewInv, NEW s \in Held PROVE s.auto => s.folder \in granted
    BY DEF TrustIsPerFolder
  <2>1. Trust /\ LeftTrusted
    BY DEF ViewInv
  <2>2. Trusted(s)
    BY <2>1 DEF Trust, LeftTrusted, Held
  <2> QED BY <2>2 DEF Trusted
<1> QED BY <1>1, ViewInvariant, PTL DEF ViewSpec

\* Until an answer moves the page away from a turn, it shows messages of the open chat
\* only, those of the turn under way, or of one the server refused to record.
THEOREM PageShowsItsChat == ViewSpec => []ShownOfChat
<1>1. ViewInv => ShownOfChat
  <2> SUFFICES ASSUME ViewInv, ~strayed, NEW i \in 1..Len(shown), NEW t, t = shown[i].turn
               PROVE  \/ into[t] = open
                      \/ Here(t) /\ busy /\ turn[t] = "ensure" /\ home[t] = open
                      \/ t \in failed
    BY DEF ShownOfChat
  <2>1. shown[i] \in Note
    BY DEF ViewInv, PageOK
  <2>2. t \in Turns
    BY <2>1 DEF Note
  <2>3. Belongs(t)
    BY DEF ViewInv, ShownBelongs
  <2>4. Here(t) /\ turn[t] = "ensure" => busy
    BY <2>2 DEF ViewInv, Composer, Active
  <2> QED BY <2>3, <2>4 DEF Belongs
<1> QED BY <1>1, ViewInvariant, PTL DEF ViewSpec

\* The composer is locked while a turn sent from this opening of the page is under way, and
\* only then, so one that will end unlocks it; and there is never a second such turn: what
\* send's check of busy is for.
THEOREM OneTurnPerPage == ViewSpec => []Composer
<1>1. ViewInv => Composer
  BY DEF ViewInv
<1> QED BY <1>1, ViewInvariant, PTL DEF ViewSpec

\* The chat that a turn is recorded in is settled once: nothing that happens to the page
\* afterwards changes it.
THEOREM TurnKeepsItsChat ==
    ViewSpec => [][\A t \in Turns : into[t] # Nothing => into'[t] = into[t]]_viewVars
<1>1. ViewInv /\ [ViewNext]_viewVars => \A t \in Turns : into[t] # Nothing => into'[t] = into[t]
  BY IntoStep DEF ViewInv
<1> QED BY <1>1, ViewInvariant, PTL DEF ViewSpec

\* A recorded message stays, at its place, until its chat is deleted: messages are only
\* ever appended.
THEOREM MessagesStay ==
    ViewSpec => [][\A c \in ChatIds : Exists(c) /\ Exists(c)' =>
                       \A i \in 1..Len(saved[c]) :
                           i \in 1..Len(saved'[c]) /\ saved'[c][i] = saved[c][i]]_viewVars
<1>1. ViewInv /\ [ViewNext]_viewVars =>
          \A c \in ChatIds : Exists(c) /\ Exists(c)' =>
              \A i \in 1..Len(saved[c]) :
                  i \in 1..Len(saved'[c]) /\ saved'[c][i] = saved[c][i]
  <2> SUFFICES ASSUME ViewInv, [ViewNext]_viewVars, NEW c \in ChatIds, Exists(c), Exists(c)',
                      NEW i \in 1..Len(saved[c])
               PROVE  i \in 1..Len(saved'[c]) /\ saved'[c][i] = saved[c][i]
    BY DEF Exists
  <2>1. saved[c] \in Seq(Note) /\ c \in Born
    BY DEF ViewInv, RowsOK, Born, Exists
  <2>2. \/ saved'[c] = saved[c]
        \/ \E t \in Turns, role \in {"user", "assistant"} :
              saved'[c] = Append(saved[c], [turn |-> t, role |-> role])
    BY <2>1, KeptSaved DEF ViewInv
  <2>3. ASSUME NEW n \in Note, saved'[c] = Append(saved[c], n)
        PROVE  i \in 1..Len(saved'[c]) /\ saved'[c][i] = saved[c][i]
    BY <2>1, <2>3
  <2>4. \A t \in Turns, role \in {"user", "assistant"} : [turn |-> t, role |-> role] \in Note
    BY DEF Note
  <2> QED BY <2>2, <2>3, <2>4
<1> QED BY <1>1, ViewInvariant, PTL DEF ViewSpec

----------------------------------------------------------------------------
(* The page implements Ledger.                                             *)

Sent == {t \in Turns : turn[t] # "idle"}
Heard == {t \in Turns : turn[t] \in {"stream", "record", "done", "silent"}}
Closed == {t \in Turns : turn[t] \in {"done", "silent"}}
Quieted == {t \in Turns : turn[t] = "silent"}

LEMMA BookVars ==
    UNCHANGED <<life, saved, turns, failed>> => UNCHANGED Book!vars
BY DEF Book!vars, turns, click

\* What a turn's step does to the sets that Ledger knows.
LEMMA MovesSets ==
    ASSUME TurnsOK, NEW t \in Turns, NEW s \in Step, Moves(t, s)
    PROVE  /\ Sent' = IF s = "idle" THEN Sent \ {t} ELSE Sent \cup {t}
           /\ Heard' = IF s \in {"stream", "record", "done", "silent"}
                        THEN Heard \cup {t} ELSE Heard \ {t}
           /\ Closed' = IF s \in {"done", "silent"} THEN Closed \cup {t} ELSE Closed \ {t}
           /\ Quieted' = IF s = "silent" THEN Quieted \cup {t} ELSE Quieted \ {t}
BY DEF TurnsOK, Moves, Sent, Heard, Closed, Quieted

LEMMA LedgerTurn ==
    ASSUME ViewInv, NEW t \in Turns, Send(t) \/ Advance(t)
    PROVE  Book!Next \/ UNCHANGED Book!vars
<1> USE DEF Step
<1>1. CASE Send(t)
  <2>1. open \in ChatIds \cup {Nothing} /\ (open # Nothing => life[open] # "unborn")
    BY DEF ViewInv, PageOK, Born
  <2>2. turn[t] = "idle"
    BY <1>1 DEF Send, Idle
  <2>3. Sent' = Sent \cup {t} /\ UNCHANGED <<Heard, Closed, Quieted>> /\ t \notin Sent
    BY <1>1, <2>2, MovesSets DEF Send, ViewInv, Sent, Heard, Closed, Quieted
  <2>4. PICK c \in ChatIds \cup {Nothing} : c = open
    BY <2>1
  <2>5. Book!SendFrom(t, c)
    BY <1>1, <2>1, <2>3, <2>4 DEF Send, Book!SendFrom, Sent, Heard, Closed, Quieted, server
  <2> QED BY <2>5 DEF Book!Next
<1>2. CASE EnsureUpdates(t) \/ \E c \in ChatIds : EnsureCreates(t, c)
  <2>1. turn[t] = "ensure" /\ Moves(t, "ask") /\ into[t] = Nothing
    BY <1>2 DEF EnsureUpdates, EnsureCreates, ViewInv, InPlace
  <2>2. UNCHANGED <<Sent, Heard, Closed, Quieted>> /\ t \in Sent \ Heard
    BY <2>1, MovesSets DEF ViewInv, Sent, Heard, Closed, Quieted
  <2>3. UNCHANGED <<saved, home, failed>>
    BY <1>2 DEF EnsureUpdates, EnsureCreates, click
  <2>4. CASE EnsureUpdates(t)
    <3>1. home[t] \in ChatIds
      BY <2>4 DEF EnsureUpdates, ViewInv, TurnsOK, Born
    <3>2. Book!Settle(t, home[t])
      BY <2>1, <2>2, <2>3, <2>4 DEF EnsureUpdates, Book!Settle, Sent, Heard, Closed, Quieted
    <3> QED BY <3>1, <3>2 DEF Book!Next
  <2>5. ASSUME NEW c \in ChatIds, EnsureCreates(t, c) PROVE Book!Next
    <3>1. c \notin Born
      BY <2>5, Newborn DEF EnsureCreates
    <3>2. Book!Begins(c)
      BY <2>5, <3>1 DEF EnsureCreates, Creates, Book!Begins, Born
    <3>3. Book!Settle(t, c)
      BY <2>1, <2>2, <2>3, <2>5, <3>2 DEF EnsureCreates, Book!Settle, Sent, Heard, Closed, Quieted
    <3> QED BY <3>3 DEF Book!Next
  <2> QED BY <1>2, <2>4, <2>5
<1>3. CASE EnsureFails(t) \/ Ask(t) \/ AskFails(t)
  <2>1. turn[t] \in {"ensure", "ask"} /\ Moves(t, "stream")
    BY <1>3 DEF EnsureFails, Ask, AskFails
  <2>2. Heard' = Heard \cup {t} /\ UNCHANGED <<Sent, Closed, Quieted>> /\ t \in Sent \ Heard
    BY <2>1, MovesSets DEF ViewInv, Sent, Heard, Closed, Quieted
  <2>3. UNCHANGED <<life, home, into>>
    BY <1>3 DEF EnsureFails, Ask, AskFails, click, server
  <2>4. Book!Records(t, "user")
    <3>1. CASE EnsureFails(t) \/ AskFails(t)
      BY <3>1 DEF EnsureFails, AskFails, Fails, server, Book!Records
    <3>2. CASE Ask(t)
      <4>1. into[t] # Nothing \/ t \in failed
        BY <3>2 DEF Ask, ViewInv, InPlace
      <4>2. Book!Writes(t, "user")
        BY <3>2 DEF Ask, Appends, Exists, Book!Writes
      <4> QED BY <3>2, <4>1, <4>2 DEF Ask, Book!Records
    <3> QED BY <1>3, <3>1, <3>2
  <2>5. Book!Question(t)
    BY <2>2, <2>3, <2>4 DEF Book!Question, Sent, Heard, Closed, Quieted
  <2> QED BY <2>5 DEF Book!Next
<1>4. CASE StreamEnds(t)
  <2>1. turn[t] = "stream" /\ Moves(t, "record")
    BY <1>4 DEF StreamEnds
  <2>2. UNCHANGED <<Sent, Heard, Closed, Quieted>>
    BY <2>1, MovesSets DEF ViewInv, Sent, Heard, Closed, Quieted
  <2> QED BY <1>4, <2>2 DEF StreamEnds, Book!vars, Sent, Heard, Closed, Quieted, server, click
<1>5. CASE Record(t) \/ RecordFails(t)
  <2>1. turn[t] = "record" /\ Moves(t, "done")
    BY <1>5 DEF Record, RecordFails
  <2>2. Closed' = Closed \cup {t} /\ UNCHANGED <<Sent, Heard, Quieted>> /\ t \in Heard \ Closed
    BY <2>1, MovesSets DEF ViewInv, Sent, Heard, Closed, Quieted
  <2>3. UNCHANGED <<life, home, into>>
    BY <1>5 DEF Record, RecordFails, click, server
  <2>4. Book!Records(t, "assistant")
    <3>1. CASE RecordFails(t)
      BY <3>1 DEF RecordFails, Fails, server, Book!Records
    <3>2. CASE Record(t)
      <4>1. into[t] # Nothing \/ t \in failed
        BY <2>1 DEF ViewInv, InPlace
      <4>2. Book!Writes(t, "assistant")
        BY <3>2 DEF Record, Appends, Exists, Book!Writes
      <4> QED BY <3>2, <4>1, <4>2 DEF Record, Book!Records
    <3> QED BY <1>5, <3>1, <3>2
  <2>5. Book!Answer(t)
    BY <2>2, <2>3, <2>4 DEF Book!Answer, Sent, Heard, Closed, Quieted
  <2> QED BY <2>5 DEF Book!Next
<1>6. CASE EndsSilent(t)
  <2>1. turn[t] = "stream" /\ Moves(t, "silent")
    BY <1>6 DEF EndsSilent
  <2>2. /\ Closed' = Closed \cup {t} /\ Quieted' = Quieted \cup {t}
        /\ UNCHANGED <<Sent, Heard>> /\ t \in Heard \ Closed
    BY <2>1, MovesSets DEF ViewInv, Sent, Heard, Closed, Quieted
  <2>3. Book!Answer(t)
    BY <1>6, <2>2 DEF EndsSilent, Book!Answer, Sent, Heard, Closed, Quieted, server, click
  <2> QED BY <2>3 DEF Book!Next
<1> QED BY <1>1, <1>2, <1>3, <1>4, <1>5, <1>6 DEF Advance

LEMMA LedgerStep == ViewInv /\ [ViewNext]_viewVars => [Book!Next]_(Book!vars)
<1> SUFFICES ASSUME ViewInv, [ViewNext]_viewVars PROVE Book!Next \/ UNCHANGED Book!vars
  OBVIOUS
<1>1. CASE TurnStep
  BY <1>1, LedgerTurn DEF TurnStep
<1>2. ASSUME UNCHANGED <<turns, failed>>, NEW f \in flights, FlushArrives(f)
      PROVE  UNCHANGED Book!vars
  BY <1>2, BookVars DEF FlushArrives
<1>3. ASSUME UNCHANGED <<turns, failed>>, NEW r \in removal, Removed(r)
      PROVE  Book!Next \/ UNCHANGED Book!vars
  <2>1. r.chat \in ChatIds /\ life[r.chat] # "unborn"
    BY DEF ViewInv, WaitsOK, Removals, Born
  <2>2. CASE UNCHANGED <<life, saved>>
    BY <1>3, <2>2, BookVars
  <2>3. CASE life' = [life EXCEPT ![r.chat] = "gone"] /\ saved' = [saved EXCEPT ![r.chat] = <<>>]
    <3>1. Book!Delete(r.chat)
      BY <1>3, <2>1, <2>3 DEF Book!Delete, turns, click
    <3> QED BY <2>1, <3>1 DEF Book!Next
  <2> QED BY <1>3, <2>2, <2>3 DEF Removed
<1>4. ASSUME UNCHANGED <<turns, failed>>, NEW p \in picks, NEW c \in ChatIds, AttachCreates(p, c)
      PROVE  Book!Next
  <2>1. c \notin Born
    BY <1>4, Newborn DEF AttachCreates
  <2>2. Book!Create(c)
    BY <1>4, <2>1
       DEF AttachCreates, Creates, Born, Book!Create, Book!Begins, turns, click
  <2> QED BY <2>2 DEF Book!Next
<1>5. CASE UNCHANGED <<turns, failed>> /\ UNCHANGED server
  BY <1>5, BookVars DEF server
<1>6. ServerStep =>
          \/ TurnStep
          \/ \E f \in flights : FlushArrives(f)
          \/ \E r \in removal : Removed(r)
          \/ \E p \in picks, c \in ChatIds : AttachCreates(p, c)
  BY DEF ServerStep, TurnStep, Advance
<1> QED BY <1>1, <1>2, <1>3, <1>4, <1>5, <1>6, ServerSteps, TurnSteps

\* The chat page, with its server, implements Ledger.
THEOREM PageKeepsTheLedger == ViewSpec => ImplementsLedger
<1>1. ViewInit => Book!Init
  BY DEF ViewInit, Book!Init
<1> QED BY <1>1, LedgerStep, ViewInvariant, PTL DEF ViewSpec, ImplementsLedger, Book!Spec

\* Only what a turn has been through is recorded of it.
NotesTold ==
    \A c \in ChatIds : \A i \in 1..Len(saved[c]) :
        saved[c][i].turn \in IF saved[c][i].role = "user" THEN Heard ELSE Closed

NotesOnce ==
    \A c \in ChatIds : \A i, j \in 1..Len(saved[c]) : saved[c][i] = saved[c][j] => i = j

\* A message nobody has recorded yet is added once.
LEMMA WritesOnce ==
    ASSUME ViewInv, NotesTold, NotesOnce, NEW t \in Turns, NEW role \in {"user", "assistant"},
           Book!Records(t, role),
           t \notin IF role = "user" THEN Heard ELSE Closed,
           Heard \subseteq Heard', Closed \subseteq Closed',
           t \in (IF role = "user" THEN Heard' ELSE Closed')
    PROVE  NotesTold' /\ NotesOnce'
<1> DEFINE note == [turn |-> t, role |-> role]
<1>1. SUFFICES ASSUME NEW c \in ChatIds
               PROVE  /\ \A i \in 1..Len(saved'[c]) :
                             saved'[c][i].turn \in
                                 IF saved'[c][i].role = "user" THEN Heard' ELSE Closed'
                      /\ \A i, j \in 1..Len(saved'[c]) : saved'[c][i] = saved'[c][j] => i = j
  BY DEF NotesTold, NotesOnce
<1>2. saved[c] \in Seq(Note) /\ note \in Note
  BY DEF ViewInv, RowsOK, Note
<1>3. /\ \A i \in 1..Len(saved[c]) :
             saved[c][i].turn \in IF saved[c][i].role = "user" THEN Heard' ELSE Closed'
      /\ \A i \in 1..Len(saved[c]) : saved[c][i] # note
  BY DEF NotesTold
<1>4. saved'[c] = saved[c] \/ saved'[c] = Append(saved[c], note)
  BY DEF Book!Records, Book!Writes, ViewInv, RowsOK
<1>5. CASE saved'[c] = saved[c]
  BY <1>3, <1>5 DEF NotesOnce
<1>6. CASE saved'[c] = Append(saved[c], note)
  <2>1. /\ Len(saved'[c]) = Len(saved[c]) + 1 /\ Len(saved[c]) \in Nat
        /\ \A i \in 1..Len(saved[c]) : saved'[c][i] = saved[c][i]
        /\ saved'[c][Len(saved[c]) + 1] = note
    BY <1>2, <1>6
  <2>2. \A i \in 1..Len(saved'[c]) : i \in 1..Len(saved[c]) \/ i = Len(saved[c]) + 1
    BY <2>1
  <2> HIDE DEF note
  <2>3. note.turn = t /\ note.role = role
    BY DEF note
  <2>4. \A i \in 1..Len(saved'[c]) :
            saved'[c][i].turn \in IF saved'[c][i].role = "user" THEN Heard' ELSE Closed'
    BY <1>3, <2>1, <2>2, <2>3
  <2>5. \A i, j \in 1..Len(saved'[c]) : saved'[c][i] = saved'[c][j] => i = j
    BY <1>3, <2>1, <2>2 DEF NotesOnce
  <2> QED BY <2>4, <2>5
<1> QED BY <1>4, <1>5, <1>6

LEMMA OnceStep ==
    ViewInv /\ NotesTold /\ NotesOnce /\ [Book!Next]_(Book!vars) => NotesTold' /\ NotesOnce'
<1> SUFFICES ASSUME ViewInv, NotesTold, NotesOnce, [Book!Next]_(Book!vars)
             PROVE  NotesTold' /\ NotesOnce'
  OBVIOUS
<1>1. ASSUME UNCHANGED <<Heard, Closed>>, NEW d \in ChatIds,
             UNCHANGED saved \/ saved' = [saved EXCEPT ![d] = <<>>]
      PROVE  NotesTold' /\ NotesOnce'
  <2>1. \A c \in ChatIds : saved'[c] = saved[c] \/ saved'[c] = <<>>
    BY <1>1 DEF ViewInv, RowsOK
  <2> QED BY <1>1, <2>1 DEF NotesTold, NotesOnce
<1>2. ASSUME UNCHANGED <<saved, Heard, Closed>> PROVE NotesTold' /\ NotesOnce'
  BY <1>2 DEF NotesTold, NotesOnce
<1>3. ASSUME NEW c \in ChatIds, Book!Create(c) \/ Book!Delete(c) PROVE NotesTold' /\ NotesOnce'
  BY <1>1, <1>2, <1>3 DEF Book!Create, Book!Delete, Heard, Closed
<1>4. ASSUME NEW t, NEW c, Book!SendFrom(t, c) \/ Book!Settle(t, c) PROVE NotesTold' /\ NotesOnce'
  BY <1>2, <1>4 DEF Book!SendFrom, Book!Settle, Heard, Closed
<1>5. ASSUME NEW t \in Turns, Book!Question(t) PROVE NotesTold' /\ NotesOnce'
  <2>1. t \notin Heard /\ Heard' = Heard \cup {t} /\ Closed' = Closed
    BY <1>5 DEF Book!Question, Heard, Closed
  <2>2. Book!Records(t, "user")
    BY <1>5 DEF Book!Question
  <2> QED BY <2>1, <2>2, WritesOnce
<1>6. ASSUME NEW t \in Turns, Book!Answer(t) PROVE NotesTold' /\ NotesOnce'
  <2>1. t \notin Closed /\ Closed' = Closed \cup {t} /\ Heard' = Heard
    BY <1>6 DEF Book!Answer, Heard, Closed
  <2>2. CASE Book!Records(t, "assistant")
    BY <2>1, <2>2, WritesOnce
  <2>3. CASE saved' = saved
    BY <2>1, <2>3 DEF NotesTold, NotesOnce
  <2> QED BY <1>6, <2>2, <2>3 DEF Book!Answer
<1>7. CASE UNCHANGED Book!vars
  BY <1>2, <1>7 DEF Book!vars, Heard, Closed
<1> QED BY <1>3, <1>4, <1>5, <1>6, <1>7 DEF Book!Next

\* No message is recorded twice, in one chat or in two: not by a page that is left and
\* reopened during a turn, and not by a turn whose calls fail.
THEOREM MessagesOnce ==
    ViewSpec => [](\A c, d \in ChatIds : \A i \in 1..Len(saved[c]), j \in 1..Len(saved[d]) :
                       saved[c][i] = saved[d][j] => c = d /\ i = j)
<1>1. ViewInit => NotesTold /\ NotesOnce
  BY DEF ViewInit, NotesTold, NotesOnce
<1>2. ViewInv /\ NotesTold /\ NotesOnce /\ [ViewNext]_viewVars => NotesTold' /\ NotesOnce'
  BY LedgerStep, OnceStep
<1>3. ViewInv /\ NotesOnce =>
          \A c, d \in ChatIds : \A i \in 1..Len(saved[c]), j \in 1..Len(saved[d]) :
              saved[c][i] = saved[d][j] => c = d /\ i = j
  BY DEF ViewInv, NotesInPlace, NotesOnce
<1> QED BY <1>1, <1>2, <1>3, ViewInvariant, PTL DEF ViewSpec

----------------------------------------------------------------------------
(* One store of chats behind the handlers and before the page.             *)

Alive == [c \in Chats |-> IF HasRow(c) THEN "live" ELSE row[c]]
WithFolder == {c \in Chats : row[c] = "attached"}

\* The rows of Chats are the store,
Store == INSTANCE ChatStore WITH life <- Alive, told <- messages, attached <- WithFolder

\* A step on one row.
LEMMA RowStep ==
    ASSUME Stores, NEW c \in Chats, NEW w \in {"auto", "attached", "gone"},
           row' = [row EXCEPT ![c] = w]
    PROVE  /\ Alive' = [Alive EXCEPT ![c] = IF w = "gone" THEN w ELSE "live"]
           /\ WithFolder' = IF w = "attached" THEN WithFolder \cup {c} ELSE WithFolder \ {c}
<1>1. \A d \in Chats : row'[d] = IF d = c THEN w ELSE row[d]
  BY DEF Stores
<1>2. \A d \in Chats : HasRow(d)' <=> IF d = c THEN w # "gone" ELSE HasRow(d)
  BY <1>1 DEF HasRow
<1>3. Alive' = [Alive EXCEPT ![c] = IF w = "gone" THEN w ELSE "live"]
  BY <1>1, <1>2 DEF Alive
<1> QED BY <1>1, <1>3 DEF WithFolder

LEMMA RowSame == UNCHANGED row => UNCHANGED <<Alive, WithFolder>>
BY DEF Alive, WithFolder, HasRow

\* A chat that a task has in hand was once there.
Known == \A t \in Tasks : pc[t] # "idle" => row[chat[t]] # "unborn"

LEMMA KnownStep == Typed /\ Known /\ [Next]_vars => Known'
<1> SUFFICES ASSUME Typed, Known, [Next]_vars PROVE Known'
  OBVIOUS
<1> USE DEF Typed, Stores, Handlers, Known
<1>1. ASSUME NEW c \in Chats, Row(c) PROVE Known'
  BY <1>1 DEF Row, Create, UpdateSettings, AppendMessage, task
<1>2. ASSUME NEW t \in Tasks, NEW to, pc[t] # "idle", Goto(t, to), row' = row PROVE Known'
  <2>1. \A u \in Tasks : pc'[u] # "idle" => chat'[u] = chat[u] /\ pc[u] # "idle"
    BY <1>2 DEF Goto
  <2> QED BY <1>2, <2>1
<1>3. ASSUME NEW t \in Tasks, NEW c \in Chats, NEW kayons, NEW to, Accept(t, c, kayons, to),
             row[c] # "unborn", row' = row
      PROVE  Known'
  BY <1>3 DEF Accept
<1>4. ASSUME NEW t \in Tasks, Delete(t) PROVE Known'
  <2>1. CASE DeleteSession(t)
    <3>1. /\ chat[t] \in Chats /\ row' = [row EXCEPT ![chat[t]] = "gone"]
          /\ \A u \in Tasks : pc'[u] # "idle" => chat'[u] = chat[u] /\ pc[u] # "idle"
      BY <2>1 DEF DeleteSession, Goto
    <3> QED BY <3>1
  <2> QED BY <1>2, <1>3, <1>4, <2>1 DEF Delete, DeleteRead, DeleteMessages, RemoveWorkspace
<1>5. ASSUME NEW t \in Tasks, Files(t) PROVE Known'
  BY <1>2, <1>3, <1>5
  DEF Files, Resolve, TurnStarts, Place, Attach, TurnWrites, TurnEnds, HasRow, task
<1>6. CASE Crash
  BY <1>6 DEF Crash
<1>7. CASE UNCHANGED <<row, task>>
  BY <1>7 DEF task
<1> QED BY <1>1, <1>4, <1>5, <1>6, <1>7
        DEF Next, Startup, Launch, SweepRead, SweepList, SweepEnds, SweepRemoves, vars

LEMMA StoreStep == Typed /\ RowsInv /\ Known /\ [Next]_vars => [Store!Next]_(Store!vars)
<1> SUFFICES ASSUME Typed, RowsInv, Known, [Next]_vars PROVE [Store!Next]_(Store!vars)
  OBVIOUS
<1>1. Stores /\ Handlers
  BY DEF Typed
<1>2. ASSUME NEW c \in Chats, NEW w \in {"auto", "attached"}, Create(c, w)
      PROVE  Store!Create(c)
  <2>1. Alive[c] = "unborn" /\ c \notin WithFolder
    BY <1>2 DEF Create, Alive, HasRow, WithFolder
  <2>2. WithFolder \ {c} = WithFolder
    BY <2>1
  <2> QED BY <1>1, <1>2, <2>1, <2>2, RowStep DEF Create, Store!Create
<1>3. ASSUME NEW c \in Chats, NEW w \in {"auto", "attached"}, UpdateSettings(c, w)
      PROVE  Store!Update(c)
  <2>1. Alive[c] = "live"
    BY <1>3 DEF UpdateSettings, Alive
  <2>2. [Alive EXCEPT ![c] = "live"] = Alive
    BY <2>1 DEF Alive
  <2> QED BY <1>1, <1>3, <2>1, <2>2, RowStep DEF UpdateSettings, Store!Update
<1>4. ASSUME NEW c \in Chats, AppendMessage(c) PROVE Store!Tell(c)
  BY <1>4, RowSame DEF AppendMessage, Store!Tell, Alive
<1>5. ASSUME NEW t \in Tasks, DeleteMessages(t) PROVE [Store!Next]_(Store!vars)
  <2>1. /\ chat[t] \in Chats /\ messages' = messages \ {chat[t]}
        /\ UNCHANGED <<Alive, WithFolder>>
    BY <1>1, <1>5, RowSame DEF DeleteMessages, Handlers
  <2>2. CASE HasRow(chat[t])
    BY <2>1, <2>2 DEF Alive, Store!Forget, Store!Next
  <2>3. CASE ~HasRow(chat[t])
    BY <2>1, <2>3 DEF RowsInv, NoOrphanMessages, Store!vars
  <2> QED BY <2>2, <2>3
<1>6. ASSUME NEW t \in Tasks, DeleteSession(t) PROVE [Store!Next]_(Store!vars)
  <2>1. /\ chat[t] \in Chats /\ chat[t] \notin messages /\ messages' = messages
        /\ row' = [row EXCEPT ![chat[t]] = "gone"]
    BY <1>1, <1>6 DEF DeleteSession, Handlers, RowsInv, Deleting
  <2>2. /\ Alive' = [Alive EXCEPT ![chat[t]] = "gone"]
        /\ WithFolder' = WithFolder \ {chat[t]}
    BY <1>1, <2>1, RowStep
  <2>3. CASE HasRow(chat[t])
    <3>1. Alive[chat[t]] = "live" /\ messages' = messages \ {chat[t]}
      BY <2>1, <2>3 DEF Alive
    <3> QED BY <2>1, <2>2, <3>1 DEF Store!Remove, Store!Next
  <2>4. CASE row[chat[t]] = "gone"
    <3>1. row' = row
      BY <1>1, <2>1, <2>4 DEF Stores
    <3> QED BY <2>1, <3>1, RowSame DEF Store!vars
  <2>5. row[chat[t]] # "unborn"
    BY <1>6 DEF DeleteSession, Known
  <2> QED BY <1>1, <2>1, <2>3, <2>4, <2>5 DEF Stores, HasRow
<1>7. CASE UNCHANGED <<row, messages>>
  BY <1>7, RowSame DEF Store!vars
<1> QED
  BY <1>2, <1>3, <1>4, <1>5, <1>6, <1>7
  DEF Next, Row, Delete, DeleteRead, RemoveWorkspace, Files, Resolve, TurnStarts, Place, Attach,
      TurnWrites, TurnEnds, Startup, Launch, SweepRead, SweepList, SweepEnds, SweepRemoves, Crash,
      vars, Store!Next

\* Through deletions that take two statements, run beside one another or are cut off by a
\* crash, the rows of the chats are one store: only a chat that is there takes messages
\* and a folder, and a chat goes with its messages, for good.
THEOREM ChatsKeepStore == Spec => Store!Spec
<1>1. Init => Store!Init
  BY DEF Init, Store!Init, Alive, WithFolder, HasRow
<1>2. Init => Known
  BY DEF Init, Known
<1> QED BY <1>1, <1>2, KnownStep, StoreStep, TypedAlways, RowsAlways, PTL DEF Spec, Store!Spec

Told == {c \in ChatIds : saved[c] # <<>>}
FolderOf == {c \in ChatIds : Exists(c) /\ settings[c].folder # Nothing}

\* and so is the server the page is modelled against.
ViewStore == INSTANCE ChatStore WITH
    Chats <- ChatIds, told <- Told, attached <- FolderOf

LEMMA UpdatesStore ==
    ASSUME RowsOK, NEW c \in ChatIds, NEW s \in Settings, Updates(c, s), UNCHANGED <<life, saved>>
    PROVE  ViewStore!Update(c) \/ UNCHANGED ViewStore!vars
<1>1. CASE UNCHANGED settings
  BY <1>1 DEF ViewStore!vars, Told, FolderOf, Exists
<1>2. CASE Exists(c) /\ settings' = [settings EXCEPT ![c] = s]
  <2>1. \A d \in ChatIds : settings'[d] = IF d = c THEN s ELSE settings[d]
    BY <1>2 DEF RowsOK
  <2>2. FolderOf' \in {FolderOf \cup {c}, FolderOf \ {c}}
    BY <1>2, <2>1 DEF FolderOf, Exists
  <2>3. Told' = Told
    BY DEF Told
  <2> QED BY <1>2, <2>2, <2>3 DEF ViewStore!Update, Exists
<1> QED BY <1>1, <1>2 DEF Updates

LEMMA CreatesStore ==
    ASSUME RowsOK, NEW c, NEW s \in Settings, Creates(c, s), UNCHANGED saved
    PROVE  c \in ChatIds /\ ViewStore!Create(c)
<1>1. c \in ChatIds /\ life[c] = "unborn"
  BY Newborn DEF Born
<1>2. \A d \in ChatIds : /\ settings'[d] = IF d = c THEN s ELSE settings[d]
                         /\ life'[d] = IF d = c THEN "live" ELSE life[d]
  BY DEF RowsOK, Creates
<1>3. c \notin FolderOf /\ FolderOf' \in {FolderOf, FolderOf \cup {c}}
  BY <1>1, <1>2 DEF FolderOf, Exists
<1>4. Told' = Told
  BY DEF Told
<1> QED BY <1>1, <1>3, <1>4 DEF ViewStore!Create, Creates

LEMMA AppendsStore ==
    ASSUME RowsOK, NEW c \in ChatIds \cup {Nothing}, NEW t \in Turns,
           NEW role \in {"user", "assistant"}, Appends(c, t, role), UNCHANGED <<life, settings>>
    PROVE  ViewStore!Next \/ UNCHANGED ViewStore!vars
<1>1. FolderOf' = FolderOf
  BY DEF FolderOf, Exists
<1>2. CASE c \in ChatIds /\ Exists(c)
  <2>1. saved' = [saved EXCEPT ![c] = Append(@, [turn |-> t, role |-> role])]
    BY <1>2, ViewAssumption DEF Appends
  <2>2. Append(saved[c], [turn |-> t, role |-> role]) # <<>>
    <3>1. saved[c] \in Seq(Note) /\ [turn |-> t, role |-> role] \in Note
      BY <1>2 DEF RowsOK, Note
    <3> HIDE DEF Note
    <3>2. Len(Append(saved[c], [turn |-> t, role |-> role])) = Len(saved[c]) + 1
      BY <3>1
    <3> QED BY <3>1, <3>2
  <2>3. Told' = Told \cup {c}
    BY <1>2, <2>1, <2>2 DEF RowsOK, Told
  <2> QED BY <1>1, <1>2, <2>3 DEF Exists, ViewStore!Tell, ViewStore!Next
<1>3. CASE ~(c \in ChatIds /\ Exists(c))
  <2>1. saved' = saved
    BY <1>3 DEF Appends
  <2> QED BY <1>1, <2>1 DEF ViewStore!vars, Told
<1> QED BY <1>2, <1>3

LEMMA ViewStoreStep ==
    ViewInv /\ [ViewNext]_viewVars => [ViewStore!Next]_(ViewStore!vars)
<1> SUFFICES ASSUME ViewInv, [ViewNext]_viewVars PROVE [ViewStore!Next]_(ViewStore!vars)
  OBVIOUS
<1>1. RowsOK /\ WaitsOK /\ TurnsOK
  BY DEF ViewInv
<1>2. CASE UNCHANGED server
  BY <1>2 DEF server, ViewStore!vars, Told, FolderOf, Exists
<1>3. ASSUME NEW f \in flights, FlushArrives(f) PROVE [ViewStore!Next]_(ViewStore!vars)
  <2>1. f.chat \in ChatIds /\ f.set \in Settings
    BY <1>1 DEF WaitsOK, Removals, Born
  <2> QED BY <1>1, <1>3, <2>1, UpdatesStore DEF FlushArrives, ViewStore!Next
<1>4. ASSUME NEW r \in removal, Removed(r) PROVE [ViewStore!Next]_(ViewStore!vars)
  <2>1. PICK c \in ChatIds : c = r.chat
    BY <1>1 DEF WaitsOK, Removals, Born
  <2>2. settings' = settings
    BY <1>4 DEF Removed
  <2>3. CASE life' = [life EXCEPT ![c] = "gone"] /\ saved' = [saved EXCEPT ![c] = <<>>]
    <3>1. \A d \in ChatIds : /\ life'[d] = IF d = c THEN "gone" ELSE life[d]
                             /\ saved'[d] = IF d = c THEN <<>> ELSE saved[d]
      BY <1>1, <2>3 DEF RowsOK
    <3>2. Told' = Told \ {c} /\ FolderOf' = FolderOf \ {c}
      BY <2>2, <3>1 DEF Told, FolderOf, Exists
    <3>3. CASE Exists(c)
      BY <2>3, <3>2, <3>3 DEF Exists, ViewStore!Remove, ViewStore!Next
    <3>4. CASE ~Exists(c)
      <4>1. life[c] = "gone" /\ c \notin Told /\ c \notin FolderOf
        BY <1>1, <2>1, <3>4 DEF RowsOK, WaitsOK, Removals, Born, Exists, Told, FolderOf
      <4>2. life' = life
        BY <1>1, <2>3, <4>1 DEF RowsOK
      <4> QED BY <3>2, <4>1, <4>2 DEF ViewStore!vars
    <3> QED BY <3>3, <3>4
  <2>4. CASE UNCHANGED <<life, saved>>
    BY <1>2, <2>2, <2>4 DEF server
  <2> QED BY <1>4, <2>1, <2>3, <2>4 DEF Removed
<1>5. ASSUME NEW p \in picks, NEW c \in ChatIds, AttachCreates(p, c)
      PROVE  [ViewStore!Next]_(ViewStore!vars)
  <2>1. p.set \in Settings
    BY <1>1 DEF WaitsOK
  <2> QED BY <1>1, <1>5, <2>1, CreatesStore DEF AttachCreates, ViewStore!Next
<1>6. ASSUME NEW t \in Turns, EnsureUpdates(t) PROVE [ViewStore!Next]_(ViewStore!vars)
  <2>1. home[t] \in ChatIds /\ chosen[t] \in Settings
    BY <1>1, <1>6 DEF EnsureUpdates, TurnsOK, Born
  <2> QED BY <1>1, <1>6, <2>1, UpdatesStore DEF EnsureUpdates, ViewStore!Next
<1>7. ASSUME NEW t \in Turns, NEW c \in ChatIds, EnsureCreates(t, c)
      PROVE  [ViewStore!Next]_(ViewStore!vars)
  <2>1. chosen[t] \in Settings
    BY <1>1 DEF TurnsOK
  <2> QED BY <1>1, <1>7, <2>1, CreatesStore DEF EnsureCreates, ViewStore!Next
<1>8. ASSUME NEW t \in Turns, Ask(t) \/ Record(t) PROVE [ViewStore!Next]_(ViewStore!vars)
  <2>1. into[t] \in ChatIds \cup {Nothing}
    BY <1>1 DEF TurnsOK, Born
  <2> QED BY <1>1, <1>8, <2>1, AppendsStore DEF Ask, Record
<1> QED BY <1>2, <1>3, <1>4, <1>5, <1>6, <1>7, <1>8, ServerSteps DEF ServerStep

\* The rows behind the page are the store that the handlers keep.
THEOREM ViewKeepsStore == ViewSpec => ViewStore!Spec
<1>1. ViewInit => ViewStore!Init
  BY DEF ViewInit, ViewStore!Init, Told, FolderOf, Exists
<1> QED BY <1>1, ViewStoreStep, ViewInvariant, PTL DEF ViewSpec, ViewStore!Spec
=============================================================================
