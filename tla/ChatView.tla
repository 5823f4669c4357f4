------------------------------ MODULE ChatView ------------------------------
(***************************************************************************)
(* The chat page: src/src/pages/Chat.tsx against the rows the server keeps.*)
(*                                                                         *)
(* Everything the page does awaits the server, and the user goes on        *)
(* meanwhile: sends, opens another chat, deletes one, leaves the page and  *)
(* comes back, so that answers arrive at a page that has moved on.  A turn *)
(* outlives the page it was sent from.                                     *)
(***************************************************************************)
EXTENDS Integers, Sequences, FiniteSets

CONSTANTS
    ChatIds,    \* ids the server may give
    Turns,      \* messages the user may send
    Folders,    \* folders the user may attach
    MaxMounts,  \* bound: how often the page is opened
    MaxClicks,  \* bound: what the user does
    MaxFlights, \* bound: settings on their way to the server
    MaxWaits,   \* bound: other calls of the page under way at once
    Nothing

ASSUME ViewAssumption ==
    /\ MaxMounts \in Nat \ {0}
    /\ MaxClicks \in Nat /\ MaxFlights \in Nat /\ MaxWaits \in Nat
    /\ Nothing \notin ChatIds \cup Turns \cup Folders

\* The folder (or none) and auto-approve stand for the settings of a chat.
Settings == [folder: Folders \cup {Nothing}, auto: BOOLEAN]
Default == [folder |-> Nothing, auto |-> FALSE]

Note == [turn: Turns, role: {"user", "assistant"}]

VARIABLES
    life,       \* server: which chats there are,
    settings,   \* their settings
    saved,      \* and their messages
    mount,      \* how often the page was opened; 0 before the first time
    up,         \* the page is open
    busy,       \* a turn is under way
    open,       \* the chat it shows, or Nothing
    shown,      \* the messages it shows
    set,        \* the settings it shows
    timer,      \* they will be flushed in 400 ms
    last,       \* localStorage: the chat that was last open
    boot,       \* the page waits for the list it reopens a chat from
    loads,      \* chats it waits for: [chat, data], data Nothing until the server has read it
    picks,      \* picked files that wait for a chat: [set, from]
    removal,    \* chats it waits to be deleted: [chat, wasOpen, from, left], left being the
                \* settings that a page which is gone would still send for itself
    flights,    \* settings on their way: [chat, set]
    turn,       \* where each turn is: see Step
    home,       \* the chat open at the click,
    chosen,     \* and the settings,
    from,       \* and which opening of the page it was sent from
    into,       \* the chat it is recorded in, or Nothing
    clicks,
    granted,    \* history: folders for which the user switched auto-approve on
    failed,     \* history: turns one of whose calls the server refused
    strayed     \* history: an answer moved the page away from what it shows

server == <<life, settings, saved>>
stay == <<mount, up, busy>>
view == <<open, shown, set, timer, last>>
waits == <<boot, loads, picks, removal>>
page == <<stay, view, waits>>
click == <<home, chosen, from>>
turns == <<turn, click, into>>
viewVars == <<server, page, flights, turns, clicks, granted, failed, strayed>>

Step == {"idle", "ensure", "ask", "stream", "record", "done", "silent"}

Exists(c) == life[c] = "live"
Born == {c \in ChatIds : life[c] # "unborn"}

ViewInit ==
    /\ life = [c \in ChatIds |-> "unborn"] /\ settings = [c \in ChatIds |-> Default]
    /\ saved = [c \in ChatIds |-> <<>>]
    /\ mount = 0 /\ up = FALSE /\ busy = FALSE
    /\ open = Nothing /\ shown = <<>> /\ set = Default /\ timer = FALSE /\ last = Nothing
    /\ boot = "none" /\ loads = {} /\ picks = {} /\ removal = {} /\ flights = {}
    /\ turn = [t \in Turns |-> "idle"] /\ home = [t \in Turns |-> Nothing]
    /\ chosen = [t \in Turns |-> Default] /\ from = [t \in Turns |-> 0]
    /\ into = [t \in Turns |-> Nothing]
    /\ clicks = 0 /\ granted = {} /\ failed = {} /\ strayed = FALSE

Click == clicks < MaxClicks /\ clicks' = clicks + 1
FewWaits == Cardinality(loads) + Cardinality(picks) + Cardinality(removal) < MaxWaits

----------------------------------------------------------------------------
(* Opening and leaving the page.                                           *)

\* flushSettings: what is shown now goes to the chat that is open now.
Unsent == IF open = Nothing THEN {} ELSE {[chat |-> open, set |-> set]}
Sends(requests) == flights' = flights \cup requests /\ Cardinality(flights') <= MaxFlights
Flush == Sends(Unsent)

Blank == open' = Nothing /\ shown' = <<>> /\ set' = Default /\ timer' = FALSE

Mount ==
    /\ Click /\ ~up /\ mount < MaxMounts
    /\ up' = TRUE /\ mount' = mount + 1 /\ boot' = "asked"
    /\ UNCHANGED <<server, busy, view, loads, picks, removal, flights, turns,
                   granted, failed, strayed>>

\* A call was made by the page that is there now.
Mine(call) == up /\ call.from = mount

\* A last flush; answers that come later find no page, but what was asked is done.
Unmount ==
    /\ Click /\ up /\ Flush
    /\ up' = FALSE /\ busy' = FALSE /\ Blank
    /\ boot' = "none" /\ loads' = {}
    /\ removal' = {IF Mine(r) THEN [r EXCEPT !.left = Unsent] ELSE r : r \in removal}
    /\ UNCHANGED <<server, mount, last, picks, turns, granted, failed, strayed>>

\* The list is here: the last chat is reopened if it is still there, else the most
\* recent one, unless the user has picked a view meanwhile.
BootOpens(c) ==
    /\ boot = "asked" /\ open = Nothing /\ FewWaits
    /\ Exists(c) /\ (last \in ChatIds /\ Exists(last) => c = last)
    /\ boot' = "none"
    /\ loads' = loads \cup {[chat |-> c, data |-> Nothing]}
    /\ UNCHANGED <<server, stay, view, picks, removal, flights, turns, clicks,
                   granted, failed, strayed>>

\* It has, or there is no chat, or no list.
BootEnds ==
    /\ boot # "none" /\ boot' = "none"
    /\ UNCHANGED <<server, stay, view, loads, picks, removal, flights, turns, clicks,
                   granted, failed, strayed>>

----------------------------------------------------------------------------
(* Settings.                                                               *)

Edit(s) ==
    /\ up /\ ~busy /\ Click /\ s # set
    /\ set' = s /\ timer' = (open # Nothing)
    /\ UNCHANGED <<server, stay, open, shown, last, waits, flights, turns,
                   failed, strayed>>

\* The side panel: settings of no concern here, but the timer starts again; it is not
\* locked while a turn is under way.
Tweak ==
    /\ up /\ Click /\ timer' = (open # Nothing)
    /\ UNCHANGED <<server, stay, open, shown, set, last, waits, flights, turns,
                   granted, failed, strayed>>

\* (Mutant: a new folder keeps the trust in the old one.)
ChangeWorkspaceKeeps(f) == Edit([set EXCEPT !.folder = f]) /\ UNCHANGED granted

\* changeWorkspace: attach or detach a folder.
ChangeWorkspace(f) == Edit([folder |-> f, auto |-> FALSE]) /\ UNCHANGED granted

ToggleAuto ==
    /\ Edit([set EXCEPT !.auto = ~@])
    /\ granted' = IF set.auto THEN granted ELSE granted \cup {set.folder}

TimerFires ==
    /\ timer /\ Flush /\ timer' = FALSE
    /\ UNCHANGED <<server, stay, open, shown, set, last, waits, turns, clicks,
                   granted, failed, strayed>>

\* update_chat_settings, which finds the chat or not; nobody looks whether it failed.
Updates(c, s) ==
    \/ UNCHANGED settings
    \/ Exists(c) /\ settings' = [settings EXCEPT ![c] = s]

\* Requests are handled in any order.
FlushArrives(f) ==
    /\ f \in flights /\ flights' = flights \ {f}
    /\ Updates(f.chat, f.set)
    /\ UNCHANGED <<life, saved, page, turns, clicks, granted, failed, strayed>>

----------------------------------------------------------------------------
(* Chats.                                                                  *)

Cancelled == IF boot = "asked" THEN "cancelled" ELSE boot

\* (Mutant: the messages stay on the page.)
BlankerKeeps ==
    /\ Flush /\ open' = Nothing /\ set' = Default /\ timer' = FALSE /\ UNCHANGED shown
    /\ last' = Nothing /\ boot' = Cancelled

\* newChat, once it has found that no turn is under way.
Blanker == Flush /\ Blank /\ last' = Nothing /\ boot' = Cancelled

NewChat ==
    /\ Click /\ up /\ ~busy /\ Blanker
    /\ UNCHANGED <<server, stay, loads, picks, removal, turns, granted, failed, strayed>>

OpenSession(c) ==
    /\ Click /\ up /\ ~busy /\ c \in Born /\ c # open /\ FewWaits
    /\ Flush
    /\ loads' = loads \cup {[chat |-> c, data |-> Nothing]}
    /\ UNCHANGED <<server, stay, view, boot, picks, removal, turns,
                   granted, failed, strayed>>

\* The server reads the chat, or fails, and then nothing happens ...
LoadReads(l) ==
    /\ l \in loads /\ l.data = Nothing
    /\ \/ loads' = loads \ {l}
       \/ /\ Exists(l.chat)
          /\ loads' = (loads \ {l}) \cup
                 {[l EXCEPT !.data = [set |-> settings[l.chat], notes |-> saved[l.chat]]]}
    /\ UNCHANGED <<server, stay, view, boot, picks, removal, flights, turns, clicks,
                   granted, failed, strayed>>

\* ... and the answer replaces what the page shows, whatever that is by now.  What was
\* not flushed is lost with its timer, and settings other than those shown start one.
LoadAnswers(l) ==
    /\ l \in loads /\ l.data # Nothing
    /\ loads' = loads \ {l}
    /\ open' = l.chat /\ shown' = l.data.notes /\ set' = l.data.set /\ last' = l.chat
    /\ timer' = (timer \/ open # l.chat \/ set # l.data.set)
    /\ strayed' = (strayed \/ busy)
    /\ UNCHANGED <<server, stay, boot, picks, removal, flights, turns, clicks, granted, failed>>

RemoveSession(c) ==
    /\ Click /\ up /\ ~busy /\ Exists(c) /\ FewWaits
    /\ removal' = removal \cup
           {[chat |-> c, wasOpen |-> c = open, from |-> mount, left |-> {}]}
    /\ UNCHANGED <<server, stay, view, boot, loads, picks, flights, turns,
                   granted, failed, strayed>>

\* The chat is gone, or deleting it failed; if it was open at the click the page is
\* blanked, even if a turn has been sent since; a page that is gone forgets the last chat.
Removed(r) ==
    /\ r \in removal /\ removal' = removal \ {r}
    /\ \/ life' = [life EXCEPT ![r.chat] = "gone"] /\ saved' = [saved EXCEPT ![r.chat] = <<>>]
       \/ UNCHANGED <<life, saved>>
    /\ \/ r.wasOpen /\ Mine(r) /\ Blanker /\ strayed' = (strayed \/ busy)
       \/ /\ r.wasOpen /\ ~Mine(r) /\ Sends(r.left) /\ last' = Nothing
          /\ UNCHANGED <<open, shown, set, timer, boot, strayed>>
       \/ ~r.wasOpen /\ UNCHANGED <<view, boot, flights, strayed>>
    /\ UNCHANGED <<settings, stay, loads, picks, turns, clicks, granted, failed>>

\* A chat is created, and the page that asked for it, if it is there, goes to it, wherever
\* it is by now.  Which of its ids the chat gets is all one.
Creates(c, s) ==
    /\ ChatIds # Born /\ c = CHOOSE d \in ChatIds \ Born : TRUE
    /\ life' = [life EXCEPT ![c] = "live"]
    /\ settings' = [settings EXCEPT ![c] = s]

GoesTo(c) == open' = c /\ last' = c /\ timer' = TRUE

\* onFilesPicked, when no chat is open: one is needed to keep them,
FilesPicked ==
    /\ Click /\ up /\ ~busy /\ open = Nothing /\ FewWaits
    /\ picks' = picks \cup {[set |-> set, from |-> mount]}
    /\ UNCHANGED <<server, stay, view, boot, loads, removal, flights, turns,
                   granted, failed, strayed>>

\* ensureSessionForAttach: and gets the settings shown at the click.
AttachCreates(p, c) ==
    /\ p \in picks /\ picks' = picks \ {p}
    /\ Creates(c, p.set)
    /\ IF Mine(p) THEN GoesTo(c) /\ strayed' = (strayed \/ busy \/ shown # <<>>)
                  ELSE UNCHANGED <<open, last, timer, strayed>>
    /\ UNCHANGED <<saved, stay, shown, set, boot, loads, removal, flights, turns, clicks,
                   granted, failed>>

\* Or the server refuses, and nothing was attached.
AttachFails(p) ==
    /\ p \in picks /\ picks' = picks \ {p}
    /\ UNCHANGED <<server, stay, view, boot, loads, removal, flights, turns, clicks,
                   granted, failed, strayed>>

----------------------------------------------------------------------------
(* A turn: send.                                                           *)

Moves(t, s) == turn' = [turn EXCEPT ![t] = s]

\* The page the turn was sent from is still there.
Here(t) == up /\ from[t] = mount

Idle == {t \in Turns : turn[t] = "idle"}
Fails(t) == failed' = failed \cup {t}

Send(t) ==
    /\ Click /\ up /\ ~busy /\ Idle # {} /\ t = CHOOSE u \in Idle : TRUE
    /\ Moves(t, "ensure") /\ busy' = TRUE
    /\ home' = [home EXCEPT ![t] = open] /\ chosen' = [chosen EXCEPT ![t] = set]
    /\ from' = [from EXCEPT ![t] = mount]
    /\ shown' = shown \o <<[turn |-> t, role |-> "user"], [turn |-> t, role |-> "assistant"]>>
    /\ UNCHANGED <<server, mount, up, open, set, timer, last, waits, flights, into,
                   granted, failed, strayed>>

\* ensureSession: the settings go to the chat that was open,
EnsureUpdates(t) ==
    /\ turn[t] = "ensure" /\ home[t] # Nothing /\ Moves(t, "ask")
    /\ Updates(home[t], chosen[t])
    /\ into' = [into EXCEPT ![t] = home[t]]
    /\ UNCHANGED <<life, saved, page, flights, click, clicks, granted, failed, strayed>>

\* or a chat is created with them;
EnsureCreates(t, c) ==
    /\ turn[t] = "ensure" /\ home[t] = Nothing /\ Moves(t, "ask")
    /\ Creates(c, chosen[t])
    /\ into' = [into EXCEPT ![t] = c]
    /\ IF Here(t) THEN GoesTo(c) ELSE UNCHANGED <<open, last, timer>>
    /\ UNCHANGED <<saved, stay, shown, set, waits, flights, click, clicks,
                   granted, failed, strayed>>

\* if that fails the turn goes on unrecorded.
EnsureFails(t) ==
    /\ turn[t] = "ensure" /\ home[t] = Nothing /\ Moves(t, "stream")
    /\ Fails(t)
    /\ UNCHANGED <<server, page, flights, click, into, clicks, granted, strayed>>

\* (Mutant: a chat that is gone takes messages.)
AppendsAnyway(c, t, role) ==
    saved' = IF c # Nothing
             THEN [saved EXCEPT ![c] = Append(@, [turn |-> t, role |-> role])] ELSE saved

\* append_chat_message, which finds the chat or not.
Appends(c, t, role) ==
    saved' = IF c # Nothing /\ Exists(c)
             THEN [saved EXCEPT ![c] = Append(@, [turn |-> t, role |-> role])] ELSE saved

\* The question is recorded before the model is asked.
Ask(t) ==
    /\ turn[t] = "ask" /\ Moves(t, "stream")
    /\ Appends(into[t], t, "user")
    /\ UNCHANGED <<life, settings, page, flights, click, into, clicks, granted, failed, strayed>>

AskFails(t) ==
    /\ turn[t] = "ask" /\ Moves(t, "stream") /\ Fails(t)
    /\ UNCHANGED <<server, page, flights, click, into, clicks, granted, strayed>>

\* patchLast: what streams goes into the last message the page shows, if it shows one: on
\* a list that a late removal has emptied text patches nothing.
Streams(t) ==
    /\ turn[t] = "stream" /\ Here(t) /\ shown # <<>>
    /\ shown' = [shown EXCEPT ![Len(shown)].turn = t]
    /\ UNCHANGED <<server, stay, open, set, timer, last, waits, flights, turns, clicks,
                   granted, failed, strayed>>

\* The stream ends or breaks; what it gave, or the error, is to be recorded,
StreamEnds(t) ==
    /\ turn[t] = "stream" /\ Moves(t, "record")
    /\ UNCHANGED <<server, page, flights, click, into, clicks, granted, failed, strayed>>

Unbusy(t) == busy' = IF Here(t) THEN FALSE ELSE busy

\* unless it gave nothing, "nothing at all to record",
EndsSilent(t) ==
    /\ turn[t] = "stream" /\ Moves(t, "silent") /\ Unbusy(t)
    /\ UNCHANGED <<server, mount, up, view, waits, flights, click, into, clicks,
                   granted, failed, strayed>>

\* (Mutant: the answer goes to the chat that is open now.)
RecordOpen(t) ==
    /\ turn[t] = "record" /\ Moves(t, "done") /\ Unbusy(t)
    /\ Appends(open, t, "assistant")
    /\ UNCHANGED <<life, settings, mount, up, view, waits, flights, click, into, clicks,
                   granted, failed, strayed>>

\* and the composer is free again,
Record(t) ==
    /\ turn[t] = "record" /\ Moves(t, "done") /\ Unbusy(t)
    /\ Appends(into[t], t, "assistant")
    /\ UNCHANGED <<life, settings, mount, up, view, waits, flights, click, into, clicks,
                   granted, failed, strayed>>

\* (Mutant: a failing write escapes.)
RecordFailsWedged(t) ==
    /\ turn[t] = "record" /\ Moves(t, "done") /\ Fails(t)
    /\ UNCHANGED <<server, page, flights, click, into, clicks, granted, strayed>>

\* even if that fails.
RecordFails(t) ==
    /\ turn[t] = "record" /\ Moves(t, "done") /\ Unbusy(t) /\ Fails(t)
    /\ UNCHANGED <<server, mount, up, view, waits, flights, click, into, clicks,
                   granted, strayed>>

----------------------------------------------------------------------------
User ==
    \/ Mount \/ Unmount \/ NewChat \/ Tweak \/ ToggleAuto \/ FilesPicked
    \/ \E f \in Folders \cup {Nothing} : ChangeWorkspace(f)
    \/ \E c \in ChatIds : OpenSession(c) \/ RemoveSession(c)
    \/ \E t \in Turns : Send(t)

Advance(t) ==
    \/ EnsureUpdates(t) \/ (\E c \in ChatIds : EnsureCreates(t, c)) \/ EnsureFails(t)
    \/ Ask(t) \/ AskFails(t) \/ StreamEnds(t) \/ EndsSilent(t) \/ Record(t) \/ RecordFails(t)

Answers ==
    \/ TimerFires
    \/ BootEnds \/ \E c \in ChatIds : BootOpens(c)
    \/ \E f \in flights : FlushArrives(f)
    \/ \E l \in loads : LoadReads(l) \/ LoadAnswers(l)
    \/ \E r \in removal : Removed(r)
    \/ \E p \in picks : AttachFails(p) \/ \E c \in ChatIds : AttachCreates(p, c)
    \/ \E t \in Turns : Advance(t) \/ Streams(t)

ViewNext == User \/ Answers

\* The server answers, and a turn of the agent ends.
ViewFairness == \A t \in Turns : WF_viewVars(Advance(t))

ViewSpec == ViewInit /\ [][ViewNext]_viewVars /\ ViewFairness

----------------------------------------------------------------------------
(* Properties.                                                             *)

ViewTypeOK ==
    /\ life \in [ChatIds -> {"unborn", "live", "gone"}] /\ settings \in [ChatIds -> Settings]
    /\ \A c \in ChatIds : saved[c] \in Seq(Note) /\ (~Exists(c) => saved[c] = <<>>)
    /\ mount \in 0..MaxMounts /\ up \in BOOLEAN /\ busy \in BOOLEAN
    /\ open \in Born \cup {Nothing} /\ last \in Born \cup {Nothing}
    /\ shown \in Seq(Note) /\ set \in Settings /\ timer \in BOOLEAN
    /\ boot \in {"none", "asked", "cancelled"}
    /\ \A l \in loads : l.chat \in Born
    /\ picks \subseteq [set: Settings, from: 1..MaxMounts]
    /\ removal \subseteq [chat: Born, wasOpen: BOOLEAN, from: 1..MaxMounts,
                          left: SUBSET [chat: Born, set: Settings]]
    /\ flights \subseteq [chat: Born, set: Settings]
    /\ turn \in [Turns -> Step] /\ home \in [Turns -> Born \cup {Nothing}]
    /\ chosen \in [Turns -> Settings] /\ from \in [Turns -> 0..MaxMounts]
    /\ into \in [Turns -> Born \cup {Nothing}]
    /\ clicks \in 0..MaxClicks /\ granted \subseteq Folders \cup {Nothing}
    /\ failed \subseteq Turns /\ strayed \in BOOLEAN

Notes(c) == {saved[c][i] : i \in 1..Len(saved[c])}

\* Wherever the page has gone and whatever answers come late, a turn is recorded in the
\* chat that was open when it was sent, or in the one made for it, and in no other, its
\* question before its answer; and all of it, unless the server refused, the chat is gone,
\* or there was no answer to record.
TurnsInTheirChat ==
    \A t \in Turns :
        /\ \A c \in ChatIds : \A note \in Notes(c) : note.turn = t =>
              c = into[t] /\ home[t] \in {c, Nothing}
        /\ turn[t] = "silent" /\ t \notin failed /\ Exists(into[t]) =>
              [turn |-> t, role |-> "user"] \in Notes(into[t])
        /\ turn[t] = "done" /\ t \notin failed /\ Exists(into[t]) =>
              \E i, j \in 1..Len(saved[into[t]]) :
                  /\ i < j
                  /\ saved[into[t]][i] = [turn |-> t, role |-> "user"]
                  /\ saved[into[t]][j] = [turn |-> t, role |-> "assistant"]

Held == {set} \cup {settings[c] : c \in {b \in ChatIds : Exists(b)}} \cup {f.set : f \in flights}
            \cup {chosen[t] : t \in Turns}
            \cup {l.data.set : l \in {k \in loads : k.data # Nothing}}
            \cup UNION {{f.set : f \in r.left} : r \in removal}

\* "trust is per-folder, so a new folder must never inherit a previous folder's
\* auto-approval": neither the page, nor a turn, nor a row, nor a request on its way has
\* auto-approve on for a folder the user has not switched it on for.
TrustIsPerFolder == \A s \in Held : s.auto => s.folder \in granted

\* As long as no answer has moved the page away from a turn, what it shows is of the chat
\* that is open: messages recorded there, or of a turn the server refused to record or
\* that is under way there.
ShownOfChat ==
    ~strayed => \A i \in 1..Len(shown) :
        LET t == shown[i].turn
        IN \/ into[t] = open
           \/ Here(t) /\ busy /\ turn[t] = "ensure" /\ home[t] = open
           \/ t \in failed

\* However a turn and its calls fail, the composer does not stay locked.
ComposerFrees == [](busy => <>~busy)

\* Of all that the page does, and of the answers that come late, what is said and recorded
\* shows nothing but what Ledger allows: each turn in one chat, once, in order.
Book == INSTANCE Ledger WITH
    rows <- saved,
    sent <- {t \in Turns : turn[t] # "idle"},
    asked <- {t \in Turns : turn[t] \in {"stream", "record", "done", "silent"}},
    answered <- {t \in Turns : turn[t] \in {"done", "silent"}},
    silent <- {t \in Turns : turn[t] = "silent"}

ImplementsLedger == Book!Spec
=============================================================================
