-------------------------------- MODULE Chats --------------------------------
(***************************************************************************)
(* Chats and their workspaces: the chat handlers of lib.rs, the session    *)
(* and message rows of db/mod.rs, the workspace an agent turn works in,    *)
(* and the sweep of orphaned workspaces at startup.                        *)
(*                                                                         *)
(* A chat without an attached folder has a workspace of Kayon's own, the   *)
(* directory named after its id.  Rows and directories are changed one     *)
(* after the other, by concurrent handlers.                                *)
(***************************************************************************)
EXTENDS Naturals, FiniteSets

CONSTANTS
    Chats,      \* ids of chats
    Tasks,      \* concurrent handlers and agent turns
    Stuck,      \* chats whose directory another program keeps open
    MaxRuns,    \* bound: launches of the app, and of strays beside it
    None        \* no chat

Instances == {"app", "stray"}

ASSUME ChatsAssumption ==
    Stuck \subseteq Chats /\ MaxRuns \in [Instances -> Nat] /\ None \notin Chats

VARIABLES
    row,        \* the session row: its workspace is Kayon's, or an attached folder
    messages,   \* chats with message rows
    auto,       \* Kayon's own directory of each chat
    pc,         \* where each task is,
    chat,       \* its chat,
    own,        \* and whether it found the workspace to be Kayon's own
    phase,      \* where the startup of each instance is
    live,       \* the ids its sweep has read,
    todo,       \* and the directories it still has to remove
    runs        \* how often each instance was launched

task == <<pc, chat, own>>
sweep == <<phase, live, todo, runs>>
vars == <<row, messages, auto, task, sweep>>

HasRow(c) == row[c] \in {"auto", "attached"}
Rows == {c \in Chats : HasRow(c)}

Init ==
    /\ row = [c \in Chats |-> "unborn"] /\ messages = {}
    /\ auto = [c \in Chats |-> "absent"]
    /\ pc = [t \in Tasks |-> "idle"]
    /\ chat = [t \in Tasks |-> None]
    /\ own = [t \in Tasks |-> FALSE]
    /\ phase = [i \in Instances |-> "off"]
    /\ live = [i \in Instances |-> {}] /\ todo = [i \in Instances |-> {}]
    /\ runs = [i \in Instances |-> 0]

Serving == phase["app"] = "up"

\* The connection's mutex: a delete holds it over both of its statements.
DbFree == \A t \in Tasks : pc[t] # "deleting"

\* A task that is over forgets its locals.
Goto(t, to) ==
    /\ pc' = [pc EXCEPT ![t] = to]
    /\ chat' = [chat EXCEPT ![t] = IF to = "idle" THEN None ELSE @]
    /\ own' = [own EXCEPT ![t] = @ /\ to # "idle"]

Accept(t, c, kayons, to) ==
    /\ Serving /\ pc[t] = "idle"
    /\ pc' = [pc EXCEPT ![t] = to]
    /\ chat' = [chat EXCEPT ![t] = c]
    /\ own' = [own EXCEPT ![t] = kayons]

\* create_dir_all of the directory of a chat.
MakeDir(c) == auto' = [auto EXCEPT ![c] = IF @ = "absent" THEN "empty" ELSE @]

\* fs::write into it fails when it is gone.
WriteFile(c) == auto' = [auto EXCEPT ![c] = IF @ = "absent" THEN @ ELSE "files"]

\* remove_auto_workspace.
RemoveDir(c) == auto' = IF c \in Stuck THEN auto ELSE [auto EXCEPT ![c] = "absent"]

----------------------------------------------------------------------------
(* Rows.                                                                   *)

Create(c, w) ==
    /\ Serving /\ DbFree /\ row[c] = "unborn"
    /\ row' = [row EXCEPT ![c] = w]
    /\ UNCHANGED <<messages, auto, task, sweep>>

\* The settings of a chat: a folder is attached or detached at any time.
UpdateSettings(c, w) ==
    /\ Serving /\ DbFree /\ HasRow(c)
    /\ row' = [row EXCEPT ![c] = w]
    /\ UNCHANGED <<messages, auto, task, sweep>>

\* (Mutant: the chat need not exist.)
AppendAnyway(c) ==
    /\ Serving /\ DbFree /\ row[c] # "unborn"
    /\ messages' = messages \cup {c}
    /\ UNCHANGED <<row, auto, task, sweep>>

AppendMessage(c) ==
    /\ Serving /\ DbFree /\ HasRow(c)
    /\ messages' = messages \cup {c}
    /\ UNCHANGED <<row, auto, task, sweep>>

\* A delete reads whose the workspace is, while it still can.
DeleteRead(t, c) ==
    /\ DbFree /\ row[c] # "unborn"
    /\ Accept(t, c, row[c] = "auto", "delete")
    /\ UNCHANGED <<row, messages, auto, sweep>>

\* The two statements of the database's delete.
DeleteMessages(t) ==
    /\ pc[t] = "delete" /\ DbFree
    /\ messages' = messages \ {chat[t]}
    /\ Goto(t, "deleting")
    /\ UNCHANGED <<row, auto, sweep>>

DeleteSession(t) ==
    /\ pc[t] = "deleting"
    /\ row' = [row EXCEPT ![chat[t]] = "gone"]
    /\ Goto(t, IF own[t] THEN "removing" ELSE "idle")
    /\ UNCHANGED <<messages, auto, sweep>>

RemoveWorkspace(t) ==
    /\ pc[t] = "removing"
    /\ RemoveDir(chat[t])
    /\ Goto(t, "idle")
    /\ UNCHANGED <<row, messages, sweep>>

----------------------------------------------------------------------------
(* Files.                                                                  *)

\* session_workspace, for a file to attach, a listing or a file to view.
Resolve(t, c) ==
    /\ DbFree /\ HasRow(c)
    /\ Accept(t, c, row[c] = "auto", "resolved")
    /\ UNCHANGED <<row, messages, auto, sweep>>

\* Its second half; a listing and a view only read from here on.
Place(t, to) ==
    /\ pc[t] = "resolved"
    /\ IF own[t] THEN MakeDir(chat[t]) ELSE UNCHANGED auto
    /\ Goto(t, to)
    /\ UNCHANGED <<row, messages, sweep>>

Attach(t) ==
    /\ pc[t] = "placed"
    /\ IF own[t] THEN WriteFile(chat[t]) ELSE UNCHANGED auto
    /\ Goto(t, "idle")
    /\ UNCHANGED <<row, messages, sweep>>

\* A turn takes folder and chat from its request and looks neither up.
TurnStarts(t, c, kayons) ==
    /\ row[c] # "unborn"
    /\ Accept(t, c, kayons, "turn")
    /\ IF kayons THEN MakeDir(c) ELSE UNCHANGED auto
    /\ UNCHANGED <<row, messages, sweep>>

TurnWrites(t) ==
    /\ pc[t] = "turn" /\ own[t]
    /\ WriteFile(chat[t])
    /\ UNCHANGED <<row, messages, task, sweep>>

TurnEnds(t) ==
    /\ pc[t] = "turn"
    /\ Goto(t, "idle")
    /\ UNCHANGED <<row, messages, auto, sweep>>

----------------------------------------------------------------------------
(* Startup, a stray beside it, and the end of the app.                     *)

\* The single-instance guard keeps a second launch out, unless it is raced.
Launch(i) ==
    /\ phase[i] = "off" /\ runs[i] < MaxRuns[i]
    /\ runs' = [runs EXCEPT ![i] = @ + 1]
    /\ phase' = [phase EXCEPT ![i] = "read"]
    /\ UNCHANGED <<row, messages, auto, task, live, todo>>

SweepRead(i) ==
    /\ phase[i] = "read"
    /\ live' = [live EXCEPT ![i] = Rows]
    /\ phase' = [phase EXCEPT ![i] = "list"]
    /\ UNCHANGED <<row, messages, auto, task, todo, runs>>

\* (Mutant: every directory with the shape of an id is an orphan.)
SweepListAll(i) ==
    /\ phase[i] = "list"
    /\ todo' = [todo EXCEPT ![i] = {c \in Chats : auto[c] # "absent"}]
    /\ phase' = [phase EXCEPT ![i] = "sweep"]
    /\ UNCHANGED <<row, messages, auto, task, live, runs>>

SweepList(i) ==
    /\ phase[i] = "list"
    /\ todo' = [todo EXCEPT ![i] = {c \in Chats : auto[c] # "absent"} \ live[i]]
    /\ phase' = [phase EXCEPT ![i] = "sweep"]
    /\ UNCHANGED <<row, messages, auto, task, live, runs>>

SweepRemoves(i, c) ==
    /\ phase[i] = "sweep" /\ c \in todo[i]
    /\ RemoveDir(c)
    /\ todo' = [todo EXCEPT ![i] = @ \ {c}]
    /\ UNCHANGED <<row, messages, task, phase, live, runs>>

\* (Mutant: the server is up before the sweep is over.)
SweepEndsEarly(i) ==
    /\ phase[i] = "sweep"
    /\ phase' = [phase EXCEPT ![i] = IF i = "app" THEN "up" ELSE "off"]
    /\ live' = [live EXCEPT ![i] = {}]
    /\ UNCHANGED <<row, messages, auto, task, todo, runs>>

\* The app serves from here on; a stray finds the port taken and ends.
SweepEnds(i) ==
    /\ phase[i] = "sweep" /\ todo[i] = {}
    /\ phase' = [phase EXCEPT ![i] = IF i = "app" THEN "up" ELSE "off"]
    /\ live' = [live EXCEPT ![i] = {}]
    /\ UNCHANGED <<row, messages, auto, task, todo, runs>>

Crash ==
    /\ phase["app"] # "off"
    /\ phase' = [phase EXCEPT !["app"] = "off"]
    /\ live' = [live EXCEPT !["app"] = {}] /\ todo' = [todo EXCEPT !["app"] = {}]
    /\ pc' = [t \in Tasks |-> "idle"]
    /\ chat' = [t \in Tasks |-> None] /\ own' = [t \in Tasks |-> FALSE]
    /\ UNCHANGED <<row, messages, auto, runs>>

----------------------------------------------------------------------------
Row(c) ==
    \/ \E w \in {"auto", "attached"} : Create(c, w) \/ UpdateSettings(c, w)
    \/ AppendMessage(c)

Delete(t) ==
    \/ \E c \in Chats : DeleteRead(t, c)
    \/ DeleteMessages(t) \/ DeleteSession(t) \/ RemoveWorkspace(t)

Files(t) ==
    \/ \E c \in Chats : Resolve(t, c) \/ \E kayons \in BOOLEAN : TurnStarts(t, c, kayons)
    \/ \E to \in {"placed", "idle"} : Place(t, to)
    \/ Attach(t) \/ TurnWrites(t) \/ TurnEnds(t)

Startup(i) ==
    \/ Launch(i) \/ SweepRead(i) \/ SweepList(i) \/ SweepEnds(i)
    \/ \E c \in Chats : SweepRemoves(i, c)

Next ==
    \/ \E c \in Chats : Row(c)
    \/ \E t \in Tasks : Delete(t) \/ Files(t)
    \/ \E i \in Instances : Startup(i)
    \/ Crash

Spec == Init /\ [][Next]_vars

----------------------------------------------------------------------------
(* Properties.                                                             *)

TypeOK ==
    /\ row \in [Chats -> {"unborn", "auto", "attached", "gone"}]
    /\ messages \subseteq Chats
    /\ auto \in [Chats -> {"absent", "empty", "files"}]
    /\ pc \in [Tasks -> {"idle", "delete", "deleting", "removing", "resolved", "placed", "turn"}]
    /\ chat \in [Tasks -> Chats \cup {None}]
    /\ own \in [Tasks -> BOOLEAN]
    /\ phase \in [Instances -> {"off", "read", "list", "sweep", "up"}]
    /\ live \in [Instances -> SUBSET Chats] /\ todo \in [Instances -> SUBSET Chats]
    /\ \A i \in Instances : todo[i] # {} => phase[i] = "sweep"
    /\ runs \in [Instances -> Nat]

\* No message survives its chat: neither a crash between the statements of a delete
\* nor an append that arrives late leaves a row that no list or view ever shows.
NoOrphanMessages == \A c \in messages : HasRow(c)

\* The files of a chat that has a row are not removed, whatever is deleted, attached,
\* detached or swept; except by a stray whose list of chats is older than the chat.
LiveFilesKept ==
    [][\A c \in Chats : HasRow(c) /\ auto[c] = "files" /\ auto'[c] # "files" =>
          phase["stray"] = "sweep" /\ c \in todo["stray"] \ live["stray"]]_vars

\* When the app begins to serve, nothing is left of the chats that were deleted, in
\* whatever state the last run ended: documents "the user believed were gone".
SweepReclaims ==
    [][~Serving /\ Serving' =>
          \A c \in Chats \ Stuck : ~HasRow(c) => auto'[c] = "absent"]_vars

\* "Deleting a chat deletes that chat's auto-workspace and the files in it, because a
\* delete that looks final should be final."
DeleteIsFinal ==
    [][\A t \in Tasks : pc[t] \in {"deleting", "removing"} /\ pc'[t] = "idle" /\ Serving' =>
          auto'[chat[t]] = "absent"]_vars
=============================================================================
