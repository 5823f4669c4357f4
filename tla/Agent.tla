-------------------------------- MODULE Agent --------------------------------
(***************************************************************************)
(* The agentic tool loop: agent/mod.rs (run), its confirmations, and the   *)
(* decision endpoint of lib.rs.                                            *)
(*                                                                         *)
(* A turn is one run of the loop.  Turns are concurrent and share the      *)
(* registry of pending confirmations.  A tool call is told apart by the    *)
(* name of its tool, a round is the calls of one answer of the model.      *)
(***************************************************************************)
EXTENDS Naturals, Sequences

CONSTANTS
    Turns,      \* runs of the loop
    Requests,   \* what the requests may say
    Rounds,     \* the rounds of tool calls a model may answer with
    MaxIters    \* how often the model is called (8)

Tools == {"read", "write", "code", "nameless"}

Answer == << >>

ASSUME AgentAssumption ==
    /\ MaxIters \in Nat \ {0}
    /\ Requests \subseteq [tools : BOOLEAN, auto : BOOLEAN, own : BOOLEAN]
    /\ Rounds \subseteq Seq(Tools) /\ Answer \notin Rounds

VARIABLES
    pc,         \* where each turn is
    req,        \* what its request says: tools advertised, auto-approve, own workspace
    iter,       \* the iteration
    round,      \* the calls of the last round,
    at,         \* and which of them is next
    force,      \* the model repeats itself: no more tools
    closed,     \* the client is gone
    pending,    \* the registry: the id of a call, and the turn that waits for it
    sending,    \* decisions taken from the registry and not sent yet
    verdict,    \* what a turn's channel holds
    approved    \* history: the user has approved the call the turn is at

loop == <<iter, round, at, force>>
confirm == <<pending, sending, verdict, approved>>
vars == <<pc, req, loop, closed, confirm>>

Init ==
    /\ pc = [t \in Turns |-> "idle"]
    /\ req \in [Turns -> Requests]
    /\ iter = [t \in Turns |-> 0]
    /\ round = [t \in Turns |-> Answer]
    /\ at = [t \in Turns |-> 1]
    /\ force = [t \in Turns |-> FALSE]
    /\ closed = [t \in Turns |-> FALSE]
    /\ pending = {} /\ sending = {}
    /\ verdict = [t \in Turns |-> "none"]
    /\ approved = [t \in Turns |-> FALSE]

Move(t, from, to) == pc[t] = from /\ pc' = [pc EXCEPT ![t] = to]

\* The turn ends, and its locals with it.
Return(t) ==
    /\ pc' = [pc EXCEPT ![t] = "done"]
    /\ iter' = [iter EXCEPT ![t] = 0]
    /\ round' = [round EXCEPT ![t] = Answer]
    /\ at' = [at EXCEPT ![t] = 1]
    /\ force' = [force EXCEPT ![t] = FALSE]
    /\ closed' = [closed EXCEPT ![t] = FALSE]
    /\ UNCHANGED <<req, confirm>>

Call(t) == round[t][at[t]]

\* (Mutant: the model's own id, which every stream synthesizes alike.)
UiIdOfModel(t) == <<"call", at[t]>>

\* The id of a call in the registry and on the card the user sees: a fresh uuid.
UiId(t) == <<t, iter[t], at[t]>>

\* Code always, a file only outside of Kayon's own workspace, nothing under auto-approve.
NeedsConfirmation(t) ==
    ~req[t].auto /\ (Call(t) = "code" \/ (Call(t) = "write" /\ ~req[t].own))

WithTools(t) == req[t].tools /\ ~force[t] /\ iter[t] + 1 < MaxIters

----------------------------------------------------------------------------
(* The rounds.                                                             *)

Start(t) ==
    /\ Move(t, "idle", "top")
    /\ UNCHANGED <<req, loop, closed, confirm>>

\* The loop asks for the next answer, unless it has run out or the client is gone.
AskModel(t) ==
    /\ iter[t] < MaxIters /\ ~closed[t]
    /\ Move(t, "top", "model")
    /\ UNCHANGED <<req, loop, closed, confirm>>

TurnAborted(t) ==
    /\ pc[t] = "top" /\ iter[t] < MaxIters /\ closed[t]
    /\ Return(t)

\* The model has answered; or the request, its status or its stream is an error; or
\* the loop drops calls it did not ask for, and the message is the answer.
ModelEnds(t) ==
    /\ pc[t] = "model"
    /\ Return(t)

\* The same round again: not executed, and the next one is without tools.
CallsRepeated(t) ==
    /\ WithTools(t) /\ round[t] \in Rounds
    /\ Move(t, "model", "top")
    /\ force' = [force EXCEPT ![t] = TRUE]
    /\ iter' = [iter EXCEPT ![t] = @ + 1]
    /\ UNCHANGED <<req, round, at, closed, confirm>>

CallsMade(t) ==
    /\ WithTools(t)
    /\ Move(t, "model", "calls")
    /\ \E r \in Rounds \ {round[t]} : round' = [round EXCEPT ![t] = r]
    /\ at' = [at EXCEPT ![t] = 1]
    /\ UNCHANGED <<req, iter, force, closed, confirm>>

----------------------------------------------------------------------------
(* The calls of a round.                                                   *)

Calling(t) == pc[t] = "calls" /\ at[t] <= Len(round[t])

NextCall(t) ==
    /\ at' = [at EXCEPT ![t] = @ + 1]
    /\ approved' = [approved EXCEPT ![t] = FALSE]

CallAborted(t) ==
    /\ Calling(t) /\ closed[t]
    /\ Return(t)

CallNameless(t) ==
    /\ Calling(t) /\ ~closed[t] /\ Call(t) = "nameless"
    /\ NextCall(t)
    /\ UNCHANGED <<pc, req, iter, round, force, closed, pending, sending, verdict>>

\* The sender goes into the registry, in place of one with the same id.
CallAsks(t) ==
    /\ Calling(t) /\ ~closed[t] /\ NeedsConfirmation(t)
    /\ Move(t, "calls", "asking")
    /\ pending' = {p \in pending : p.id # UiId(t)} \cup {[id |-> UiId(t), turn |-> t]}
    /\ UNCHANGED <<req, loop, closed, sending, verdict, approved>>

CallRuns(t) ==
    /\ Calling(t) /\ ~closed[t] /\ Call(t) # "nameless" /\ ~NeedsConfirmation(t)
    /\ Move(t, "calls", "running")
    /\ UNCHANGED <<req, loop, closed, confirm>>

\* (Mutant: the wait has no timeout.)
ExpiresNever(t) ==
    /\ verdict[t] = "none" /\ closed[t]
    /\ Move(t, "asking", "answered")
    /\ UNCHANGED <<req, loop, closed, confirm>>

\* The decision arrives, or 300 s have passed without one.
Answered(t) ==
    /\ verdict[t] # "none"
    /\ Move(t, "asking", "answered")
    /\ UNCHANGED <<req, loop, closed, confirm>>

Expires(t) ==
    /\ verdict[t] = "none"
    /\ Move(t, "asking", "answered")
    /\ UNCHANGED <<req, loop, closed, confirm>>

Unregister(t) == pending' = {p \in pending : p.id # UiId(t)}

Approves(t) ==
    /\ verdict[t] = "yes"
    /\ Move(t, "answered", "running")
    /\ Unregister(t)
    /\ verdict' = [verdict EXCEPT ![t] = "none"]
    /\ UNCHANGED <<req, loop, closed, sending, approved>>

\* (Mutant: the entry of a call that timed out stays in the registry.)
DeclinesLeaks(t) ==
    /\ verdict[t] # "yes"
    /\ Move(t, "answered", "calls")
    /\ verdict' = [verdict EXCEPT ![t] = "none"]
    /\ NextCall(t)
    /\ UNCHANGED <<req, iter, round, force, closed, pending, sending>>

Declines(t) ==
    /\ verdict[t] # "yes"
    /\ Move(t, "answered", "calls")
    /\ Unregister(t)
    /\ verdict' = [verdict EXCEPT ![t] = "none"]
    /\ NextCall(t)
    /\ UNCHANGED <<req, iter, round, force, closed, sending>>

\* tools::execute, and the result appended to the conversation.
Run(t) ==
    /\ Move(t, "running", "calls")
    /\ NextCall(t)
    /\ UNCHANGED <<req, iter, round, force, closed, pending, sending, verdict>>

RoundEnds(t) ==
    /\ at[t] > Len(round[t])
    /\ Move(t, "calls", "top")
    /\ iter' = [iter EXCEPT ![t] = @ + 1]
    /\ UNCHANGED <<req, round, at, force, closed, confirm>>

----------------------------------------------------------------------------
(* The user and the client.                                                *)

\* The user decides on the card of the call turn t is at: tool_decision takes
\* the sender under the registry's mutex and sends after it.
Decide(t, v) ==
    /\ pc[t] \in {"asking", "answered"}
    /\ \E p \in pending :
          /\ p.id = UiId(t)
          /\ pending' = pending \ {p}
          /\ sending' = sending \cup {[id |-> p.id, turn |-> p.turn, answer |-> v]}
    /\ approved' = [approved EXCEPT ![t] = v = "yes"]
    /\ UNCHANGED <<pc, req, loop, closed, verdict>>

\* A channel has one receiver, which is gone once its call is over.
Send(d) ==
    /\ d \in sending
    /\ sending' = sending \ {d}
    /\ verdict' = IF pc[d.turn] = "asking" /\ UiId(d.turn) = d.id
                  THEN [verdict EXCEPT ![d.turn] = d.answer] ELSE verdict
    /\ UNCHANGED <<pc, req, loop, closed, pending, approved>>

ClientGone(t) ==
    /\ pc[t] \notin {"idle", "done"}
    /\ ~closed[t]
    /\ closed' = [closed EXCEPT ![t] = TRUE]
    /\ UNCHANGED <<pc, req, loop, confirm>>

Loop(t) ==
    \/ AskModel(t) \/ TurnAborted(t)
    \/ ModelEnds(t) \/ CallsRepeated(t) \/ CallsMade(t)
    \/ CallAborted(t) \/ CallNameless(t) \/ CallAsks(t) \/ CallRuns(t)
    \/ Answered(t) \/ Expires(t) \/ Approves(t) \/ Declines(t) \/ RoundEnds(t)

Decisions ==
    \/ \E t \in Turns, v \in {"yes", "no"} : Decide(t, v)
    \/ \E d \in sending : Send(d)

Next ==
    \/ \E t \in Turns : Start(t) \/ Loop(t) \/ Run(t) \/ ClientGone(t)
    \/ Decisions

Spec == Init /\ [][Next]_vars

(* The model answers or fails, tools return, and a confirmation is given   *)
(* or times out.                                                           *)
Fairness == \A t \in Turns : WF_vars(Loop(t) \/ Run(t))

FairSpec == Spec /\ Fairness

----------------------------------------------------------------------------
(* Properties.                                                             *)

TypeOK ==
    /\ pc \in [Turns -> {"idle", "top", "model", "calls", "asking", "answered", "running",
                         "done"}]
    /\ req \in [Turns -> Requests]
    /\ iter \in [Turns -> 0..MaxIters]
    /\ round \in [Turns -> Rounds \cup {Answer}]
    /\ at \in [Turns -> Nat]
    /\ \A t \in Turns : at[t] \in 1..Len(round[t]) + 1
    /\ force \in [Turns -> BOOLEAN]
    /\ closed \in [Turns -> BOOLEAN]
    /\ pending \subseteq [id : Turns \X Nat \X Nat, turn : Turns]
    /\ sending \subseteq [id : Turns \X Nat \X Nat, turn : Turns, answer : {"yes", "no"}]
    /\ verdict \in [Turns -> {"none", "yes", "no"}]
    /\ approved \in [Turns -> BOOLEAN]

\* No code runs, and nothing is written outside of Kayon's own workspace, before the
\* user has approved that very call: not one like it of another turn, not one that was
\* asked before, and not one whose approval came after its time.
SideEffectsApproved ==
    \A t \in Turns : pc[t] = "running" /\ NeedsConfirmation(t) => approved[t]

\* The registry holds only calls that a turn waits for: neither a timeout nor a
\* decision on its way leaves an entry behind.
PendingIsAwaited ==
    \A p \in pending : pc[p.turn] \in {"asking", "answered"} /\ p.id = UiId(p.turn)

\* "Unreachable in practice": the last iteration and the one after a repeated round
\* offer no tools, so a turn ends with an answer or an error, and never falls out of the
\* loop for having made calls in its last iteration.
NeverFallsThrough == \A t \in Turns : pc[t] = "top" => iter[t] < MaxIters

\* Every turn ends, whatever the model calls and whether or not anybody decides.
TurnEnds == \A t \in Turns : pc[t] # "idle" ~> pc[t] = "done"
=============================================================================
