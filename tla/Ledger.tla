------------------------------- MODULE Ledger -------------------------------
(***************************************************************************)
(* What the chat page promises of what is said in it, whatever the user    *)
(* does meanwhile and however late the server answers: a turn goes to the  *)
(* chat it was sent from, or to one made for it at that moment; its        *)
(* question is recorded there once, and then its answer, once; a message   *)
(* is missing only if its chat has been deleted or the server refused it,  *)
(* or, of an answer, if the turn produced nothing; and only deleting its   *)
(* chat removes it.                                                        *)
(***************************************************************************)
EXTENDS Sequences

CONSTANTS ChatIds, Turns, Nothing

VARIABLES
    life,       \* which chats there are: unborn, live or gone
    rows,       \* the messages recorded in each
    sent,       \* turns the user has sent,
    home,       \* and the chat open at the click, or Nothing
    into,       \* the chat a turn is recorded in, or Nothing
    asked,      \* turns whose question has been dealt with,
    answered,   \* or their answer,
    silent,     \* or that produced none
    failed      \* turns of which the server refused something

vars == <<life, rows, sent, home, into, asked, answered, silent, failed>>

Init ==
    /\ life = [c \in ChatIds |-> "unborn"] /\ rows = [c \in ChatIds |-> <<>>]
    /\ home = [t \in Turns |-> Nothing] /\ into = [t \in Turns |-> Nothing]
    /\ sent = {} /\ asked = {} /\ answered = {} /\ silent = {} /\ failed = {}

Begins(c) == life[c] = "unborn" /\ life' = [life EXCEPT ![c] = "live"]

Create(c) ==
    Begins(c) /\ UNCHANGED <<rows, sent, home, into, asked, answered, silent, failed>>

Delete(c) ==
    /\ life[c] # "unborn"
    /\ life' = [life EXCEPT ![c] = "gone"] /\ rows' = [rows EXCEPT ![c] = <<>>]
    /\ UNCHANGED <<sent, home, into, asked, answered, silent, failed>>

SendFrom(t, c) ==
    /\ t \notin sent /\ sent' = sent \cup {t}
    /\ c # Nothing => life[c] # "unborn"
    /\ home' = [home EXCEPT ![t] = c]
    /\ UNCHANGED <<life, rows, into, asked, answered, silent, failed>>

\* Once, and before anything of the turn is recorded: the chat it was sent from, which may
\* be gone by now, or a new one.
Settle(t, c) ==
    /\ t \in sent \ asked /\ into[t] = Nothing
    /\ \/ home[t] = c /\ UNCHANGED life
       \/ home[t] = Nothing /\ Begins(c)
    /\ into' = [into EXCEPT ![t] = c]
    /\ UNCHANGED <<rows, sent, home, asked, answered, silent, failed>>

Writes(t, role) ==
    rows' = IF into[t] # Nothing /\ life[into[t]] = "live"
            THEN [rows EXCEPT ![into[t]] = Append(@, [turn |-> t, role |-> role])] ELSE rows

\* A message is written, unless its chat is gone; or the server refuses.
Records(t, role) ==
    \/ (into[t] # Nothing \/ t \in failed) /\ Writes(t, role) /\ UNCHANGED failed
    \/ failed' = failed \cup {t} /\ UNCHANGED rows

Question(t) ==
    /\ t \in sent \ asked /\ asked' = asked \cup {t}
    /\ Records(t, "user")
    /\ UNCHANGED <<life, sent, home, into, answered, silent>>

Answer(t) ==
    /\ t \in asked \ answered /\ answered' = answered \cup {t}
    /\ \/ Records(t, "assistant") /\ UNCHANGED silent
       \/ silent' = silent \cup {t} /\ UNCHANGED <<rows, failed>>
    /\ UNCHANGED <<life, sent, home, into, asked>>

Next ==
    \/ \E c \in ChatIds : Create(c) \/ Delete(c)
    \/ \E t \in Turns :
          \/ \E c \in ChatIds \cup {Nothing} : SendFrom(t, c)
          \/ \E c \in ChatIds : Settle(t, c)
          \/ Question(t) \/ Answer(t)

Spec == Init /\ [][Next]_vars
=============================================================================
