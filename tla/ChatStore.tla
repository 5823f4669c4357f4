------------------------------ MODULE ChatStore ------------------------------
(***************************************************************************)
(* What the server promises of the chats it keeps: a chat is made once and *)
(* deleted once, and is not there before and after; only what is there     *)
(* takes messages and settings; and nothing but a deletion takes messages  *)
(* away.  Of a chat it is told apart whether it has messages and whether a *)
(* folder is attached to it.                                               *)
(***************************************************************************)
CONSTANT Chats

VARIABLES
    life,     \* of each chat: unborn, live or gone
    told,     \* the chats with messages
    attached  \* the chats with a folder of the user's

vars == <<life, told, attached>>

Init == life = [c \in Chats |-> "unborn"] /\ told = {} /\ attached = {}

Create(c) ==
    /\ life[c] = "unborn" /\ life' = [life EXCEPT ![c] = "live"]
    /\ attached' \in {attached, attached \cup {c}}
    /\ UNCHANGED told

Update(c) ==
    /\ life[c] = "live"
    /\ attached' \in {attached \cup {c}, attached \ {c}}
    /\ UNCHANGED <<life, told>>

Tell(c) ==
    /\ life[c] = "live" /\ told' = told \cup {c}
    /\ UNCHANGED <<life, attached>>

\* A deletion may forget the messages first, and end there.
Forget(c) ==
    /\ life[c] = "live" /\ told' = told \ {c}
    /\ UNCHANGED <<life, attached>>

Remove(c) ==
    /\ life[c] = "live" /\ life' = [life EXCEPT ![c] = "gone"]
    /\ told' = told \ {c} /\ attached' = attached \ {c}

Next == \E c \in Chats : Create(c) \/ Update(c) \/ Tell(c) \/ Forget(c) \/ Remove(c)

Spec == Init /\ [][Next]_vars
=============================================================================
