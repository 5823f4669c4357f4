---------------------------- MODULE AgentProofs -----------------------------
(***************************************************************************)
(* Theorems about Agent, for any turns, rounds of calls and iteration cap, *)
(* and about Tools, one call that a turn makes: for any names in a folder, *)
(* any sizes of pipes and outputs, and any number of redirects.            *)
(*                                                                         *)
(* An approval can go wrong in three ways: it may reach another call, come *)
(* twice with different answers, or be of an earlier call of the turn.     *)
(* Earlier says that every decision on its way is of a call the turn has   *)
(* reached, so a new call finds none; Single, that no decision is on its   *)
(* way for a call that can still be decided.                               *)
(***************************************************************************)
EXTENDS Agent, Tools, FiniteSetTheorems, TLAPS

USE AgentAssumption

Waiting == {"asking", "answered"}

InRound == {"calls", "asking", "answered", "running"}

----------------------------------------------------------------------------
(* Types.                                                                  *)

Places == pc \in [Turns -> {"idle", "top", "model", "calls", "asking", "answered", "running",
                            "done"}]

Counts ==
    /\ iter \in [Turns -> 0..MaxIters]
    /\ round \in [Turns -> Rounds \cup {Answer}]
    /\ at \in [Turns -> Nat]
    /\ \A t \in Turns : at[t] \in 1..Len(round[t]) + 1

\* An iteration in progress is one of MaxIters, one with tools is not the last, and
\* a call in progress is one of the round.
Iterates ==
    \A t \in Turns : /\ pc[t] \in {"idle", "top", "model"} => iter[t] < MaxIters
                     /\ pc[t] \in InRound => iter[t] + 1 < MaxIters
                     /\ pc[t] \in {"asking", "answered", "running"} => at[t] <= Len(round[t])

Flags ==
    /\ req \in [Turns -> Requests]
    /\ force \in [Turns -> BOOLEAN] /\ closed \in [Turns -> BOOLEAN]

Ids == Turns \X Nat \X Nat

Channels ==
    /\ pending \subseteq [id : Ids, turn : Turns]
    /\ sending \subseteq [id : Ids, turn : Turns, answer : {"yes", "no"}]
    /\ verdict \in [Turns -> {"none", "yes", "no"}]
    /\ approved \in [Turns -> BOOLEAN]

LEMMA TypeParts == TypeOK <=> Places /\ Counts /\ Flags /\ Channels
BY DEF TypeOK, Places, Counts, Flags, Channels, Ids

LEMMA PlacesStep == Places /\ [Next]_vars => Places'
<1> SUFFICES ASSUME Places, [Next]_vars PROVE Places'
  OBVIOUS
<1> USE DEF Places
<1>1. ASSUME NEW t \in Turns, Loop(t) PROVE Places'
  BY <1>1 DEF Loop, AskModel, TurnAborted, ModelEnds, CallsRepeated, CallsMade,
     CallAborted, CallNameless, CallAsks, CallRuns, Answered, Expires, Approves, Declines,
     RoundEnds, Move, Return
<1>2. ASSUME NEW t \in Turns, Start(t) \/ Run(t) \/ ClientGone(t) PROVE Places'
  BY <1>2 DEF Start, Run, ClientGone, Move
<1>3. CASE Decisions
  BY <1>3 DEF Decisions, Decide, Send
<1>4. CASE UNCHANGED vars
  BY <1>4 DEF vars
<1> QED BY <1>1, <1>2, <1>3, <1>4 DEF Next

LEMMA FlagsStep == Flags /\ [Next]_vars => Flags'
<1> SUFFICES ASSUME Flags, [Next]_vars PROVE Flags'
  OBVIOUS
<1> USE DEF Flags
<1>1. ASSUME NEW t \in Turns, Loop(t) PROVE Flags'
  BY <1>1, Zenon DEF Loop, AskModel, TurnAborted, ModelEnds, CallsRepeated,
     CallsMade, CallAborted, CallNameless, CallAsks, CallRuns, Answered, Expires, Approves,
     Declines, RoundEnds, Return, loop
<1>2. ASSUME NEW t \in Turns, Start(t) \/ Run(t) \/ ClientGone(t) PROVE Flags'
  BY <1>2, Zenon DEF Start, Run, ClientGone, loop
<1>3. CASE Decisions
  BY <1>3, Zenon DEF Decisions, Decide, Send, loop
<1>4. CASE UNCHANGED vars
  BY <1>4, Zenon DEF vars, loop
<1> QED BY <1>1, <1>2, <1>3, <1>4 DEF Next

LEMMA CountsStep == Places /\ Counts /\ Iterates /\ [Next]_vars => Counts' /\ Iterates'
<1> SUFFICES ASSUME Places, Counts, Iterates, [Next]_vars PROVE Counts' /\ Iterates'
  OBVIOUS
<1> USE DEF Places, Counts, Iterates, InRound
<1>1. ASSUME NEW t \in Turns, Loop(t) PROVE Counts' /\ Iterates'
  <2>0. Len(Answer) = 0 /\ \A r \in Rounds : Len(r) \in Nat
    BY DEF Answer
  <2>1. CASE AskModel(t)
    BY <2>1 DEF AskModel, Move, loop
  <2>2. ASSUME Return(t) PROVE Counts' /\ Iterates'
    BY <2>0, <2>2 DEF Return
  <2>3. CASE CallsRepeated(t)
    BY <2>3 DEF CallsRepeated, WithTools, Move
  <2>4. CASE CallsMade(t)
    BY <2>0, <2>4 DEF CallsMade, WithTools, Move
  <2>5. CASE CallNameless(t)
    BY <2>0, <2>5 DEF CallNameless, Calling, NextCall
  <2>6. CASE CallAsks(t) \/ CallRuns(t)
    BY <2>6 DEF CallAsks, CallRuns, Calling, Move, loop
  <2>7. CASE Answered(t) \/ Expires(t) \/ Approves(t)
    BY <2>7 DEF Answered, Expires, Approves, Move, loop
  <2>8. CASE Declines(t)
    BY <2>0, <2>8 DEF Declines, NextCall, Move
  <2>9. CASE RoundEnds(t)
    BY <2>9 DEF RoundEnds, Move
  <2> QED BY <1>1, <2>1, <2>2, <2>3, <2>4, <2>5, <2>6, <2>7, <2>8, <2>9
          DEF Loop, TurnAborted, ModelEnds, CallAborted
<1>2. ASSUME NEW t \in Turns, Start(t) \/ ClientGone(t) PROVE Counts' /\ Iterates'
  BY <1>2 DEF Start, ClientGone, Move, loop
<1>3. ASSUME NEW t \in Turns, Run(t) PROVE Counts' /\ Iterates'
  BY <1>3 DEF Run, NextCall, Move
<1>4. CASE Decisions \/ UNCHANGED vars
  BY <1>4 DEF Decisions, Decide, Send, vars, loop
<1> QED BY <1>1, <1>2, <1>3, <1>4 DEF Next

LEMMA ChannelsStep == Counts /\ Channels /\ [Next]_vars => Channels'
<1> SUFFICES ASSUME Counts, Channels, [Next]_vars PROVE Channels'
  OBVIOUS
<1> USE DEF Counts, Channels, Ids
<1>0. \A t \in Turns : UiId(t) \in Turns \X Nat \X Nat
  BY DEF UiId
<1>1. ASSUME NEW t \in Turns, CallAsks(t) PROVE Channels'
  BY <1>0, <1>1 DEF CallAsks
<1>2. ASSUME NEW t \in Turns, Approves(t) \/ Declines(t) PROVE Channels'
  BY <1>2 DEF Approves, Declines, Unregister, NextCall
<1>3. ASSUME NEW t \in Turns, CallNameless(t) \/ Run(t) PROVE Channels'
  BY <1>3 DEF CallNameless, Run, NextCall
<1>4. ASSUME NEW t \in Turns, NEW v \in {"yes", "no"}, Decide(t, v) PROVE Channels'
  <2>1. approved' \in [Turns -> BOOLEAN]
    BY <1>4, Zenon DEF Decide
  <2>2. PICK p \in pending :
            /\ pending' = pending \ {p}
            /\ sending' = sending \cup {[id |-> p.id, turn |-> p.turn, answer |-> v]}
    BY <1>4 DEF Decide
  <2>3. [id |-> p.id, turn |-> p.turn, answer |-> v]
            \in [id : Turns \X Nat \X Nat, turn : Turns, answer : {"yes", "no"}]
    BY <2>2
  <2>4. verdict' = verdict
    BY <1>4 DEF Decide
  <2> QED BY <2>1, <2>2, <2>3, <2>4
<1>5. ASSUME NEW d \in sending, Send(d) PROVE Channels'
  BY <1>5 DEF Send
<1>6. ASSUME UNCHANGED confirm PROVE Channels'
  BY <1>6 DEF confirm
<1> QED BY <1>1, <1>2, <1>3, <1>4, <1>5, <1>6
        DEF Next, Loop, Decisions, AskModel, TurnAborted, ModelEnds, CallsRepeated,
            CallsMade, CallAborted, CallRuns, Answered, Expires, RoundEnds, Start, ClientGone,
            Return, vars

LEMMA TypesInit == Init => Places /\ Counts /\ Iterates /\ Flags /\ Channels
<1> SUFFICES ASSUME Init PROVE Places /\ Counts /\ Iterates /\ Flags /\ Channels
  OBVIOUS
<1>1. Places
  BY DEF Init, Places
<1>2. Counts /\ Iterates
  BY DEF Init, Counts, Iterates, InRound, Answer
<1>3. Flags
  BY Zenon DEF Init, Flags
<1>4. Channels
  BY DEF Init, Channels
<1> QED BY <1>1, <1>2, <1>3, <1>4

\* What the types of all variables add up to.
Typed == Places /\ Counts /\ Iterates /\ Flags /\ Channels

LEMMA TypedAlways == Spec => []Typed
<1>1. Init => Typed
  BY TypesInit DEF Typed
<1>2. Typed /\ [Next]_vars => Typed'
  BY PlacesStep, CountsStep, FlagsStep, ChannelsStep DEF Typed
<1> QED BY <1>1, <1>2, PTL DEF Spec

\* Every variable keeps its type.
THEOREM AgentTyped == Spec => []TypeOK
<1>1. Typed => TypeOK
  BY TypeParts DEF Typed
<1> QED BY <1>1, TypedAlways, PTL

\* A turn never runs out of iterations: it ends with an answer or an error.
THEOREM LoopIsBounded == Spec => []NeverFallsThrough
<1>1. Typed => NeverFallsThrough
  BY DEF Typed, Iterates, NeverFallsThrough
<1> QED BY <1>1, TypedAlways, PTL

----------------------------------------------------------------------------
(* Approvals.                                                              *)

\* The turn has come as far as the call of an id.
Reached(t, id) ==
    \/ pc[t] = "done"
    \/ id[2] < iter[t]
    \/ /\ id[2] = iter[t] /\ pc[t] \in InRound
       /\ id[3] < at[t] \/ (id[3] = at[t] /\ pc[t] # "calls")

Earlier == \A d \in sending : d.turn = d.id[1] /\ Reached(d.turn, d.id)

Single ==
    /\ \A p \in pending : \A d \in sending : d.id # p.id
    /\ \A p \in pending : verdict[p.turn] = "none"

\* A decision that will still count is the user's.
Truthful ==
    /\ \A d \in sending :
          pc[d.turn] = "asking" /\ UiId(d.turn) = d.id /\ d.answer = "yes" => approved[d.turn]
    /\ \A t \in Turns : verdict[t] # "none" => pc[t] \in Waiting
    /\ \A t \in Turns : verdict[t] = "yes" => approved[t]

ApprovalInv == PendingIsAwaited /\ Earlier /\ Single /\ Truthful /\ SideEffectsApproved

LEMMA ApprovalInit == Init => ApprovalInv
BY DEF Init, ApprovalInv, PendingIsAwaited, Earlier, Single, Truthful, SideEffectsApproved

LEMMA StartKeeps ==
    ASSUME Typed, ApprovalInv, NEW t \in Turns, Start(t)
    PROVE  ApprovalInv'
<1>1. PendingIsAwaited'
  BY DEF Typed, Places, Counts, Iterates, Channels, Ids, ApprovalInv, PendingIsAwaited, UiId,
     Waiting, Start, Move, loop, confirm
<1>2. Earlier'
  BY DEF Typed, Places, Counts, Iterates, Channels, Ids, ApprovalInv, Earlier, Reached, InRound,
     PendingIsAwaited, UiId, Waiting, Start, Move, loop, confirm
<1>3. Single'
  BY DEF Typed, Places, Counts, Iterates, Channels, Ids, ApprovalInv, Single, Earlier, Reached,
     InRound, UiId, PendingIsAwaited, Truthful, Waiting, Start, Move, loop, confirm
<1>4. Truthful'
  BY DEF Typed, Places, Counts, Iterates, Channels, Ids, ApprovalInv, Truthful, UiId, Waiting,
     Single, PendingIsAwaited, Start, Move, loop, confirm
<1>5. SideEffectsApproved'
  BY DEF Typed, Places, Counts, Iterates, Channels, Ids, ApprovalInv, SideEffectsApproved,
     Truthful, NeedsConfirmation, Call, Waiting, PendingIsAwaited, Start, Move, loop, confirm
<1> QED BY <1>1, <1>2, <1>3, <1>4, <1>5 DEF ApprovalInv

LEMMA AskModelKeeps ==
    ASSUME Typed, ApprovalInv, NEW t \in Turns, AskModel(t)
    PROVE  ApprovalInv'
<1>1. PendingIsAwaited'
  BY DEF Typed, Places, Counts, Iterates, Channels, Ids, ApprovalInv, PendingIsAwaited, UiId,
     Waiting, AskModel, Move, loop, confirm
<1>2. Earlier'
  BY DEF Typed, Places, Counts, Iterates, Channels, Ids, ApprovalInv, Earlier, Reached, InRound,
     PendingIsAwaited, UiId, Waiting, AskModel, Move, loop, confirm
<1>3. Single'
  BY DEF Typed, Places, Counts, Iterates, Channels, Ids, ApprovalInv, Single, Earlier, Reached,
     InRound, UiId, PendingIsAwaited, Truthful, Waiting, AskModel, Move, loop, confirm
<1>4. Truthful'
  BY DEF Typed, Places, Counts, Iterates, Channels, Ids, ApprovalInv, Truthful, UiId, Waiting,
     Single, PendingIsAwaited, AskModel, Move, loop, confirm
<1>5. SideEffectsApproved'
  BY DEF Typed, Places, Counts, Iterates, Channels, Ids, ApprovalInv, SideEffectsApproved,
     Truthful, NeedsConfirmation, Call, Waiting, PendingIsAwaited, AskModel, Move, loop, confirm
<1> QED BY <1>1, <1>2, <1>3, <1>4, <1>5 DEF ApprovalInv

LEMMA ReturnKeeps ==
    ASSUME Typed, ApprovalInv, NEW t \in Turns, pc[t] \in {"top", "model", "calls"}, Return(t)
    PROVE  ApprovalInv'
<1>1. PendingIsAwaited'
  BY DEF Typed, Places, Counts, Iterates, Channels, Ids, ApprovalInv, PendingIsAwaited, UiId,
     Waiting, Return, confirm
<1>2. Earlier'
  BY DEF Typed, Places, Counts, Iterates, Channels, Ids, ApprovalInv, Earlier, Reached, InRound,
     PendingIsAwaited, UiId, Waiting, Return, confirm
<1>3. Single'
  BY DEF Typed, Places, Counts, Iterates, Channels, Ids, ApprovalInv, Single, Earlier, Reached,
     InRound, UiId, PendingIsAwaited, Truthful, Waiting, Return, confirm
<1>4. Truthful'
  BY DEF Typed, Places, Counts, Iterates, Channels, Ids, ApprovalInv, Truthful, UiId, Waiting,
     Single, PendingIsAwaited, Return, confirm
<1>5. SideEffectsApproved'
  BY DEF Typed, Places, Counts, Iterates, Channels, Ids, ApprovalInv, SideEffectsApproved,
     Truthful, NeedsConfirmation, Call, Waiting, PendingIsAwaited, Return, confirm
<1> QED BY <1>1, <1>2, <1>3, <1>4, <1>5 DEF ApprovalInv

LEMMA CallsRepeatedKeeps ==
    ASSUME Typed, ApprovalInv, NEW t \in Turns, CallsRepeated(t)
    PROVE  ApprovalInv'
<1>1. PendingIsAwaited'
  BY DEF Typed, Places, Counts, Iterates, Channels, Ids, ApprovalInv, PendingIsAwaited, UiId,
     Waiting, CallsRepeated, Move, confirm
<1>2. Earlier'
  <2>1. ASSUME NEW d \in sending PROVE d.turn = d.id[1] /\ Reached(d.turn, d.id)'
    <3>1. /\ d.turn \in Turns /\ d.id[2] \in Nat /\ d.id[3] \in Nat
          /\ d.turn = d.id[1] /\ Reached(d.turn, d.id)
      BY DEF Typed, Places, Counts, Iterates, Channels, Ids, ApprovalInv, Earlier
    <3>2. CASE d.turn = t
      BY <3>1, <3>2 DEF Typed, Places, Counts, CallsRepeated, Move, Reached, InRound
    <3>3. CASE d.turn # t
      BY <3>1, <3>3 DEF Typed, Places, Counts, CallsRepeated, Move, Reached, InRound
    <3> QED BY <3>2, <3>3, <3>1
  <2> QED BY <2>1 DEF Earlier, CallsRepeated, confirm
<1>3. Single'
  BY DEF Typed, Places, Counts, Iterates, Channels, Ids, ApprovalInv, Single, Earlier, Reached,
     InRound, UiId, PendingIsAwaited, Truthful, Waiting, CallsRepeated, Move, confirm
<1>4. Truthful'
  BY DEF Typed, Places, Counts, Iterates, Channels, Ids, ApprovalInv, Truthful, UiId, Waiting,
     Single, PendingIsAwaited, CallsRepeated, Move, confirm
<1>5. SideEffectsApproved'
  BY DEF Typed, Places, Counts, Iterates, Channels, Ids, ApprovalInv, SideEffectsApproved,
     Truthful, NeedsConfirmation, Call, Waiting, PendingIsAwaited, CallsRepeated, Move, confirm
<1> QED BY <1>1, <1>2, <1>3, <1>4, <1>5 DEF ApprovalInv

LEMMA CallsMadeKeeps ==
    ASSUME Typed, ApprovalInv, NEW t \in Turns, CallsMade(t)
    PROVE  ApprovalInv'
<1>1. PendingIsAwaited'
  BY DEF Typed, Places, Counts, Iterates, Channels, Ids, ApprovalInv, PendingIsAwaited, UiId,
     Waiting, CallsMade, WithTools, Move, confirm
<1>2. Earlier'
  BY DEF Typed, Places, Counts, Iterates, Channels, Ids, ApprovalInv, Earlier, Reached, InRound,
     PendingIsAwaited, UiId, Waiting, CallsMade, WithTools, Move, confirm
<1>3. Single'
  BY DEF Typed, Places, Counts, Iterates, Channels, Ids, ApprovalInv, Single, Earlier, Reached,
     InRound, UiId, PendingIsAwaited, Truthful, Waiting, CallsMade, WithTools, Move, confirm
<1>4. Truthful'
  BY DEF Typed, Places, Counts, Iterates, Channels, Ids, ApprovalInv, Truthful, UiId, Waiting,
     Single, PendingIsAwaited, CallsMade, WithTools, Move, confirm
<1>5. SideEffectsApproved'
  BY DEF Typed, Places, Counts, Iterates, Channels, Ids, ApprovalInv, SideEffectsApproved,
     Truthful, NeedsConfirmation, Call, Waiting, PendingIsAwaited, CallsMade, WithTools, Move,
     confirm
<1> QED BY <1>1, <1>2, <1>3, <1>4, <1>5 DEF ApprovalInv

LEMMA CallNamelessKeeps ==
    ASSUME Typed, ApprovalInv, NEW t \in Turns, CallNameless(t)
    PROVE  ApprovalInv'
<1>1. PendingIsAwaited'
  BY DEF Typed, Places, Counts, Iterates, Channels, Ids, ApprovalInv, PendingIsAwaited, UiId,
     Waiting, CallNameless, Calling, NextCall
<1>2. Earlier'
  BY DEF Typed, Places, Counts, Iterates, Channels, Ids, ApprovalInv, Earlier, Reached, InRound,
     PendingIsAwaited, UiId, Waiting, CallNameless, Calling, NextCall
<1>3. Single'
  BY DEF Typed, Places, Counts, Iterates, Channels, Ids, ApprovalInv, Single, Earlier, Reached,
     InRound, UiId, PendingIsAwaited, Truthful, Waiting, CallNameless, Calling, NextCall
<1>4. Truthful'
  BY DEF Typed, Places, Counts, Iterates, Channels, Ids, ApprovalInv, Truthful, UiId, Waiting,
     Single, PendingIsAwaited, CallNameless, Calling, NextCall
<1>5. SideEffectsApproved'
  BY DEF Typed, Places, Counts, Iterates, Channels, Ids, ApprovalInv, SideEffectsApproved,
     Truthful, NeedsConfirmation, Call, Waiting, PendingIsAwaited, CallNameless, Calling,
     NextCall
<1> QED BY <1>1, <1>2, <1>3, <1>4, <1>5 DEF ApprovalInv

LEMMA CallAsksKeeps ==
    ASSUME Typed, ApprovalInv, NEW t \in Turns, CallAsks(t)
    PROVE  ApprovalInv'
<1>1. PendingIsAwaited'
  BY DEF Typed, Places, Counts, Iterates, Channels, Ids, ApprovalInv, PendingIsAwaited, UiId,
     Waiting, CallAsks, Calling, Move, loop
<1>2. Earlier'
  BY DEF Typed, Places, Counts, Iterates, Channels, Ids, ApprovalInv, Earlier, Reached, InRound,
     PendingIsAwaited, UiId, Waiting, CallAsks, Calling, Move, loop
<1>3. Single'
  <2>1. \A d \in sending : d.id # UiId(t)
    <3> SUFFICES ASSUME NEW d \in sending, d.id = UiId(t) PROVE FALSE
      OBVIOUS
    <3>1. d.id[1] = t /\ d.id[2] = iter[t] /\ d.id[3] = at[t]
      BY DEF UiId
    <3>2. d.turn = t /\ Reached(t, d.id)
      BY <3>1 DEF ApprovalInv, Earlier
    <3>3. pc[t] = "calls" /\ iter[t] \in Nat /\ at[t] \in Nat
      BY DEF Typed, Counts, CallAsks, Move
    <3> QED BY <3>1, <3>2, <3>3 DEF Reached
  <2>2. verdict[t] = "none"
     BY DEF Typed, Places, Counts, Iterates, Channels, Ids, ApprovalInv, Truthful, Waiting,
        CallAsks, Move
  <2> QED BY <2>1, <2>2 DEF Single, CallAsks, ApprovalInv
<1>4. Truthful'
  <2>1. \A d \in sending : d.id # UiId(t)
    <3> SUFFICES ASSUME NEW d \in sending, d.id = UiId(t) PROVE FALSE
      OBVIOUS
    <3>1. d.id[1] = t /\ d.id[2] = iter[t] /\ d.id[3] = at[t]
      BY DEF UiId
    <3>2. d.turn = t /\ Reached(t, d.id)
      BY <3>1 DEF ApprovalInv, Earlier
    <3>3. pc[t] = "calls" /\ iter[t] \in Nat /\ at[t] \in Nat
      BY DEF Typed, Counts, CallAsks, Move
    <3> QED BY <3>1, <3>2, <3>3 DEF Reached
  <2>2. \A u \in Turns : UiId(u)' = UiId(u)
     BY DEF CallAsks, UiId, loop
  <2> QED BY <2>1, <2>2 DEF Typed, Places, Counts, Iterates, Channels, Ids, ApprovalInv, Truthful,
     Waiting, CallAsks, Move
<1>5. SideEffectsApproved'
  BY DEF Typed, Places, Counts, Iterates, Channels, Ids, ApprovalInv, SideEffectsApproved,
     Truthful, NeedsConfirmation, Call, Waiting, PendingIsAwaited, CallAsks, Calling, Move, loop
<1> QED BY <1>1, <1>2, <1>3, <1>4, <1>5 DEF ApprovalInv

LEMMA CallRunsKeeps ==
    ASSUME Typed, ApprovalInv, NEW t \in Turns, CallRuns(t)
    PROVE  ApprovalInv'
<1>1. PendingIsAwaited'
  BY DEF Typed, Places, Counts, Iterates, Channels, Ids, ApprovalInv, PendingIsAwaited, UiId,
     Waiting, CallRuns, Calling, Move, loop, confirm
<1>2. Earlier'
  BY DEF Typed, Places, Counts, Iterates, Channels, Ids, ApprovalInv, Earlier, Reached, InRound,
     PendingIsAwaited, UiId, Waiting, CallRuns, Calling, Move, loop, confirm
<1>3. Single'
  BY DEF Typed, Places, Counts, Iterates, Channels, Ids, ApprovalInv, Single, Earlier, Reached,
     InRound, UiId, PendingIsAwaited, Truthful, Waiting, CallRuns, Calling, Move, loop, confirm
<1>4. Truthful'
  BY DEF Typed, Places, Counts, Iterates, Channels, Ids, ApprovalInv, Truthful, UiId, Waiting,
     Single, PendingIsAwaited, CallRuns, Calling, Move, loop, confirm
<1>5. SideEffectsApproved'
  BY DEF Typed, Places, Counts, Iterates, Channels, Ids, ApprovalInv, SideEffectsApproved,
     Truthful, NeedsConfirmation, Call, Waiting, PendingIsAwaited, CallRuns, Calling, Move,
     loop, confirm
<1> QED BY <1>1, <1>2, <1>3, <1>4, <1>5 DEF ApprovalInv

LEMMA AnsweredKeeps ==
    ASSUME Typed, ApprovalInv, NEW t \in Turns, Answered(t)
    PROVE  ApprovalInv'
<1>1. PendingIsAwaited'
  BY DEF Typed, Places, Counts, Iterates, Channels, Ids, ApprovalInv, PendingIsAwaited, UiId,
     Waiting, Answered, Move, loop, confirm
<1>2. Earlier'
  BY DEF Typed, Places, Counts, Iterates, Channels, Ids, ApprovalInv, Earlier, Reached, InRound,
     PendingIsAwaited, UiId, Waiting, Answered, Move, loop, confirm
<1>3. Single'
  BY DEF Typed, Places, Counts, Iterates, Channels, Ids, ApprovalInv, Single, Earlier, Reached,
     InRound, UiId, PendingIsAwaited, Truthful, Waiting, Answered, Move, loop, confirm
<1>4. Truthful'
  BY DEF Typed, Places, Counts, Iterates, Channels, Ids, ApprovalInv, Truthful, UiId, Waiting,
     Single, PendingIsAwaited, Answered, Move, loop, confirm
<1>5. SideEffectsApproved'
  BY DEF Typed, Places, Counts, Iterates, Channels, Ids, ApprovalInv, SideEffectsApproved,
     Truthful, NeedsConfirmation, Call, Waiting, PendingIsAwaited, Answered, Move, loop, confirm
<1> QED BY <1>1, <1>2, <1>3, <1>4, <1>5 DEF ApprovalInv

LEMMA ExpiresKeeps ==
    ASSUME Typed, ApprovalInv, NEW t \in Turns, Expires(t)
    PROVE  ApprovalInv'
<1>1. PendingIsAwaited'
  BY DEF Typed, Places, Counts, Iterates, Channels, Ids, ApprovalInv, PendingIsAwaited, UiId,
     Waiting, Expires, Move, loop, confirm
<1>2. Earlier'
  BY DEF Typed, Places, Counts, Iterates, Channels, Ids, ApprovalInv, Earlier, Reached, InRound,
     PendingIsAwaited, UiId, Waiting, Expires, Move, loop, confirm
<1>3. Single'
  BY DEF Typed, Places, Counts, Iterates, Channels, Ids, ApprovalInv, Single, Earlier, Reached,
     InRound, UiId, PendingIsAwaited, Truthful, Waiting, Expires, Move, loop, confirm
<1>4. Truthful'
  BY DEF Typed, Places, Counts, Iterates, Channels, Ids, ApprovalInv, Truthful, UiId, Waiting,
     Single, PendingIsAwaited, Expires, Move, loop, confirm
<1>5. SideEffectsApproved'
  BY DEF Typed, Places, Counts, Iterates, Channels, Ids, ApprovalInv, SideEffectsApproved,
     Truthful, NeedsConfirmation, Call, Waiting, PendingIsAwaited, Expires, Move, loop, confirm
<1> QED BY <1>1, <1>2, <1>3, <1>4, <1>5 DEF ApprovalInv

LEMMA ApprovesKeeps ==
    ASSUME Typed, ApprovalInv, NEW t \in Turns, Approves(t)
    PROVE  ApprovalInv'
<1>1. PendingIsAwaited'
  BY DEF Typed, Places, Counts, Iterates, Channels, Ids, ApprovalInv, PendingIsAwaited, UiId,
     Waiting, Approves, Move, Unregister, loop
<1>2. Earlier'
  BY DEF Typed, Places, Counts, Iterates, Channels, Ids, ApprovalInv, Earlier, Reached, InRound,
     PendingIsAwaited, UiId, Waiting, Approves, Move, Unregister, loop
<1>3. Single'
  BY DEF Typed, Places, Counts, Iterates, Channels, Ids, ApprovalInv, Single, Earlier, Reached,
     InRound, UiId, PendingIsAwaited, Waiting, Approves, Move, Unregister, loop
<1>4. Truthful'
  BY DEF Typed, Places, Counts, Iterates, Channels, Ids, ApprovalInv, Truthful, UiId, Waiting,
     Single, PendingIsAwaited, Approves, Move, Unregister, loop
<1>5. SideEffectsApproved'
  BY DEF Typed, Places, Counts, Iterates, Channels, Ids, ApprovalInv, SideEffectsApproved,
     Truthful, NeedsConfirmation, Call, Waiting, PendingIsAwaited, Approves, Move, Unregister,
     loop
<1> QED BY <1>1, <1>2, <1>3, <1>4, <1>5 DEF ApprovalInv

LEMMA DeclinesKeeps ==
    ASSUME Typed, ApprovalInv, NEW t \in Turns, Declines(t)
    PROVE  ApprovalInv'
<1>1. PendingIsAwaited'
  BY DEF Typed, Places, Counts, Iterates, Channels, Ids, ApprovalInv, PendingIsAwaited, UiId,
     Waiting, Declines, Move, Unregister, NextCall
<1>2. Earlier'
  BY DEF Typed, Places, Counts, Iterates, Channels, Ids, ApprovalInv, Earlier, Reached, InRound,
     PendingIsAwaited, UiId, Waiting, Declines, Move, Unregister, NextCall
<1>3. Single'
  BY DEF Typed, Places, Counts, Iterates, Channels, Ids, ApprovalInv, Single, Earlier, Reached,
     InRound, UiId, PendingIsAwaited, Truthful, Waiting, Declines, Move, Unregister, NextCall
<1>4. Truthful'
  BY DEF Typed, Places, Counts, Iterates, Channels, Ids, ApprovalInv, Truthful, UiId, Waiting,
     Single, PendingIsAwaited, Declines, Move, Unregister, NextCall
<1>5. SideEffectsApproved'
  BY DEF Typed, Places, Counts, Iterates, Channels, Ids, ApprovalInv, SideEffectsApproved,
     Truthful, NeedsConfirmation, Call, Waiting, PendingIsAwaited, Declines, Move, Unregister,
     NextCall
<1> QED BY <1>1, <1>2, <1>3, <1>4, <1>5 DEF ApprovalInv

LEMMA RunKeeps ==
    ASSUME Typed, ApprovalInv, NEW t \in Turns, Run(t)
    PROVE  ApprovalInv'
<1>1. PendingIsAwaited'
  BY DEF Typed, Places, Counts, Iterates, Channels, Ids, ApprovalInv, PendingIsAwaited, UiId,
     Waiting, Run, Move, NextCall
<1>2. Earlier'
  BY DEF Typed, Places, Counts, Iterates, Channels, Ids, ApprovalInv, Earlier, Reached, InRound,
     PendingIsAwaited, UiId, Waiting, Run, Move, NextCall
<1>3. Single'
  BY DEF Typed, Places, Counts, Iterates, Channels, Ids, ApprovalInv, Single, Earlier, Reached,
     InRound, UiId, PendingIsAwaited, Truthful, Waiting, Run, Move, NextCall
<1>4. Truthful'
  BY DEF Typed, Places, Counts, Iterates, Channels, Ids, ApprovalInv, Truthful, UiId, Waiting,
     Single, PendingIsAwaited, Run, Move, NextCall
<1>5. SideEffectsApproved'
  BY DEF Typed, Places, Counts, Iterates, Channels, Ids, ApprovalInv, SideEffectsApproved,
     Truthful, NeedsConfirmation, Call, Waiting, PendingIsAwaited, Run, Move, NextCall
<1> QED BY <1>1, <1>2, <1>3, <1>4, <1>5 DEF ApprovalInv

LEMMA RoundEndsKeeps ==
    ASSUME Typed, ApprovalInv, NEW t \in Turns, RoundEnds(t)
    PROVE  ApprovalInv'
<1>1. PendingIsAwaited'
  BY DEF Typed, Places, Counts, Iterates, Channels, Ids, ApprovalInv, PendingIsAwaited, UiId,
     Waiting, RoundEnds, Move, confirm
<1>2. Earlier'
  <2>1. ASSUME NEW d \in sending PROVE d.turn = d.id[1] /\ Reached(d.turn, d.id)'
    <3>1. /\ d.turn \in Turns /\ d.id[2] \in Nat /\ d.id[3] \in Nat
          /\ d.turn = d.id[1] /\ Reached(d.turn, d.id)
      BY DEF Typed, Places, Counts, Iterates, Channels, Ids, ApprovalInv, Earlier
    <3>2. CASE d.turn = t
      BY <3>1, <3>2 DEF Typed, Places, Counts, RoundEnds, Move, Reached, InRound
    <3>3. CASE d.turn # t
      BY <3>1, <3>3 DEF Typed, Places, Counts, RoundEnds, Move, Reached, InRound
    <3> QED BY <3>2, <3>3, <3>1
  <2> QED BY <2>1 DEF Earlier, RoundEnds, confirm
<1>3. Single'
  BY DEF Typed, Places, Counts, Iterates, Channels, Ids, ApprovalInv, Single, Earlier, Reached,
     InRound, UiId, PendingIsAwaited, Truthful, Waiting, RoundEnds, Move, confirm
<1>4. Truthful'
  BY DEF Typed, Places, Counts, Iterates, Channels, Ids, ApprovalInv, Truthful, UiId, Waiting,
     Single, PendingIsAwaited, RoundEnds, Move, confirm
<1>5. SideEffectsApproved'
  BY DEF Typed, Places, Counts, Iterates, Channels, Ids, ApprovalInv, SideEffectsApproved,
     Truthful, NeedsConfirmation, Call, Waiting, PendingIsAwaited, RoundEnds, Move, confirm
<1> QED BY <1>1, <1>2, <1>3, <1>4, <1>5 DEF ApprovalInv

LEMMA ClientGoneKeeps ==
    ASSUME Typed, ApprovalInv, NEW t \in Turns, ClientGone(t)
    PROVE  ApprovalInv'
<1>1. PendingIsAwaited'
  BY DEF Typed, Places, Counts, Iterates, Channels, Ids, ApprovalInv, PendingIsAwaited, UiId,
     Waiting, ClientGone, loop, confirm
<1>2. Earlier'
  BY DEF Typed, Places, Counts, Iterates, Channels, Ids, ApprovalInv, Earlier, Reached, InRound,
     PendingIsAwaited, UiId, Waiting, ClientGone, loop, confirm
<1>3. Single'
  BY DEF Typed, Places, Counts, Iterates, Channels, Ids, ApprovalInv, Single, Earlier, Reached,
     InRound, UiId, PendingIsAwaited, Truthful, Waiting, ClientGone, loop, confirm
<1>4. Truthful'
  BY DEF Typed, Places, Counts, Iterates, Channels, Ids, ApprovalInv, Truthful, UiId, Waiting,
     Single, PendingIsAwaited, ClientGone, loop, confirm
<1>5. SideEffectsApproved'
  BY DEF Typed, Places, Counts, Iterates, Channels, Ids, ApprovalInv, SideEffectsApproved,
     Truthful, NeedsConfirmation, Call, Waiting, PendingIsAwaited, ClientGone, loop, confirm
<1> QED BY <1>1, <1>2, <1>3, <1>4, <1>5 DEF ApprovalInv

LEMMA DecideKeeps ==
    ASSUME Typed, ApprovalInv, NEW t \in Turns, NEW v \in {"yes", "no"}, Decide(t, v)
    PROVE  ApprovalInv'
<1>1. PendingIsAwaited'
  BY DEF Typed, Places, Counts, Iterates, Channels, Ids, ApprovalInv, PendingIsAwaited, UiId,
     Waiting, Decide, loop
<1>2. Earlier'
  BY DEF Typed, Places, Counts, Iterates, Channels, Ids, ApprovalInv, Earlier, Reached, InRound,
     PendingIsAwaited, UiId, Waiting, Decide, loop
<1>3. Single'
  <2>1. PICK p \in pending : /\ p.id = UiId(t) /\ pending' = pending \ {p}
            /\ sending' = sending \cup {[id |-> p.id, turn |-> p.turn, answer |-> v]}
    BY DEF Decide
  <2>2. \A q \in pending : q.id = p.id => q = p
    <3>1. \A q \in pending : q.turn = q.id[1] /\ q = [id |-> q.id, turn |-> q.turn]
      BY DEF Typed, Places, Counts, Iterates, Channels, Ids, ApprovalInv, PendingIsAwaited, UiId
    <3> QED BY <3>1
  <2> QED BY <2>1, <2>2 DEF Decide, Single, ApprovalInv
<1>4. Truthful'
  <2>1. PICK p \in pending : /\ p.id = UiId(t) /\ pending' = pending \ {p}
            /\ sending' = sending \cup {[id |-> p.id, turn |-> p.turn, answer |-> v]}
    BY DEF Decide
  <2>2. p.turn = t
    BY <2>1 DEF Typed, Places, Counts, Iterates, Channels, Ids, ApprovalInv, PendingIsAwaited,
       UiId
  <2>3. verdict[t] = "none" /\ \A d \in sending : d.id # UiId(t)
    BY <2>1, <2>2 DEF ApprovalInv, Single
  <2>4. /\ v = "yes" => approved'[t]
        /\ \A u \in Turns \ {t} : approved'[u] = approved[u]
    BY Zenon DEF Decide, Typed, Places, Counts, Iterates, Channels, Ids, ApprovalInv
  <2>5. \A u \in Turns : UiId(u)' = UiId(u)
    BY DEF Decide, UiId, loop
  <2>6. ASSUME NEW d \in sending', pc'[d.turn] = "asking", UiId(d.turn)' = d.id, d.answer = "yes"
        PROVE  approved'[d.turn]
    <3>0. \A u \in Turns \ {t} : UiId(u) # UiId(t)
      BY DEF UiId
    <3>1. CASE d \in sending
      <4>1. d.turn \in Turns /\ pc[d.turn] = "asking" /\ UiId(d.turn) = d.id
        BY <2>5, <2>6, <3>1 DEF Typed, Places, Counts, Iterates, Channels, Ids, ApprovalInv,
           Decide
      <4>2. d.turn # t /\ approved[d.turn]
        BY <2>3, <2>6, <3>1, <4>1 DEF ApprovalInv, Truthful
      <4> QED BY <2>4, <4>1, <4>2
    <3>2. CASE d = [id |-> p.id, turn |-> p.turn, answer |-> v]
      BY <2>2, <2>4, <2>6, <3>2
    <3> QED BY <2>1, <3>1, <3>2
  <2>7. \A u \in Turns : verdict'[u] # "none" => pc'[u] \in Waiting
    BY DEF Decide, ApprovalInv, Truthful
  <2>8. \A u \in Turns : verdict'[u] = "yes" => approved'[u]
    BY <2>3, <2>4 DEF Decide, ApprovalInv, Truthful
  <2> QED BY <2>6, <2>7, <2>8, Zenon DEF Truthful
<1>5. SideEffectsApproved'
  BY DEF Typed, Places, Counts, Iterates, Channels, Ids, ApprovalInv, SideEffectsApproved,
     Truthful, NeedsConfirmation, Call, Waiting, PendingIsAwaited, Decide, loop
<1> QED BY <1>1, <1>2, <1>3, <1>4, <1>5 DEF ApprovalInv

LEMMA SendKeeps ==
    ASSUME Typed, ApprovalInv, NEW d \in sending, Send(d)
    PROVE  ApprovalInv'
<1>1. PendingIsAwaited'
  BY DEF Typed, Places, Counts, Iterates, Channels, Ids, ApprovalInv, PendingIsAwaited, UiId,
     Waiting, Send, loop
<1>2. Earlier'
  BY DEF Typed, Places, Counts, Iterates, Channels, Ids, ApprovalInv, Earlier, Reached, InRound,
     PendingIsAwaited, UiId, Waiting, Send, loop
<1>3. Single'
  <2>1. \A p \in pending : p.id = UiId(p.turn) /\ p.id # d.id /\ verdict[p.turn] = "none"
    BY DEF ApprovalInv, PendingIsAwaited, Single
  <2>2. \A p \in pending : verdict'[p.turn] = "none"
    BY <2>1 DEF Send, Typed, Places, Counts, Iterates, Channels, Ids, ApprovalInv
  <2> QED BY <2>2 DEF Send, ApprovalInv, Single
<1>4. Truthful'
  BY DEF Typed, Places, Counts, Iterates, Channels, Ids, ApprovalInv, Truthful, UiId, Waiting,
     Single, PendingIsAwaited, Send, loop
<1>5. SideEffectsApproved'
  BY DEF Typed, Places, Counts, Iterates, Channels, Ids, ApprovalInv, SideEffectsApproved,
     Truthful, NeedsConfirmation, Call, Waiting, PendingIsAwaited, Send, loop
<1> QED BY <1>1, <1>2, <1>3, <1>4, <1>5 DEF ApprovalInv

LEMMA ApprovalStep == Typed /\ ApprovalInv /\ [Next]_vars => ApprovalInv'
<1> SUFFICES ASSUME Typed, ApprovalInv, [Next]_vars PROVE ApprovalInv'
  OBVIOUS
<1>1. ASSUME NEW t \in Turns, Loop(t) PROVE ApprovalInv'
  BY <1>1, AskModelKeeps, ReturnKeeps, CallsRepeatedKeeps, CallsMadeKeeps,
     CallNamelessKeeps, CallAsksKeeps, CallRunsKeeps, AnsweredKeeps, ExpiresKeeps,
     ApprovesKeeps, DeclinesKeeps, RoundEndsKeeps
     DEF Loop, TurnAborted, ModelEnds, CallAborted, Calling
<1>2. ASSUME NEW t \in Turns, Start(t) \/ Run(t) \/ ClientGone(t) PROVE ApprovalInv'
  BY <1>2, StartKeeps, RunKeeps, ClientGoneKeeps
<1>3. CASE Decisions
  BY <1>3, DecideKeeps, SendKeeps DEF Decisions
<1>4. CASE UNCHANGED vars
  BY <1>4, Zenon DEF vars, loop, confirm, ApprovalInv, PendingIsAwaited, Earlier, Reached, Single,
     Truthful, SideEffectsApproved, NeedsConfirmation, Call, UiId
<1> QED BY <1>1, <1>2, <1>3, <1>4 DEF Next

LEMMA ApprovalAlways == Spec => []ApprovalInv
BY ApprovalInit, ApprovalStep, TypedAlways, PTL DEF Spec

\* No tool with a side effect runs before the user has approved that very call.
THEOREM ApprovedBeforeRun == Spec => []SideEffectsApproved
<1>1. ApprovalInv => SideEffectsApproved
  BY DEF ApprovalInv
<1> QED BY <1>1, ApprovalAlways, PTL

\* The registry of confirmations holds only what a turn waits for.
THEOREM RegistryIsClean == Spec => []PendingIsAwaited
<1>1. ApprovalInv => PendingIsAwaited
  BY DEF ApprovalInv
<1> QED BY <1>1, ApprovalAlways, PTL

----------------------------------------------------------------------------
(* Turns go on and never back.                                             *)

\* The steps of one call.
CallSteps == {<<"calls", "asking">>, <<"asking", "answered">>, <<"answered", "running">>,
              <<"calls", "running">>}

\* A turn starts or ends; or its iteration goes up; or within one it goes from the top to the
\* model and from there to the calls, and within a round to the next step or the next call.
Onward(t) ==
    \/ pc[t] = "idle" /\ pc'[t] = "top"
    \/ pc[t] # "done" /\ pc'[t] = "done"
    \/ /\ pc[t] \notin {"idle", "done"} /\ pc'[t] \notin {"idle", "done"}
       /\ iter'[t] > iter[t]
    \/ /\ <<pc[t], pc'[t]>> \in {<<"top", "model">>, <<"model", "calls">>}
       /\ iter'[t] = iter[t]
    \/ /\ pc[t] \in InRound /\ pc'[t] \in InRound
       /\ iter'[t] = iter[t] /\ round'[t] = round[t]
       /\ at'[t] > at[t] \/ (at'[t] = at[t] /\ <<pc[t], pc'[t]>> \in CallSteps)

Still(t) == UNCHANGED <<pc[t], iter[t], round[t], at[t]>>

LEMMA OnwardStep == Typed /\ [Next]_vars => \A t \in Turns : Still(t) \/ Onward(t)
<1> SUFFICES ASSUME Typed, [Next]_vars, NEW u \in Turns PROVE Still(u) \/ Onward(u)
  OBVIOUS
<1> USE DEF Typed, Places, Counts, Still, Onward, InRound, CallSteps
<1>1. ASSUME NEW t \in Turns, Start(t) PROVE Still(u) \/ Onward(u)
  BY <1>1 DEF Start, Move, loop
<1>2. ASSUME NEW t \in Turns, Return(t), pc[t] # "done" PROVE Still(u) \/ Onward(u)
  BY <1>2 DEF Return
<1>3. ASSUME NEW t \in Turns, Loop(t) PROVE Still(u) \/ Onward(u)
  <2>1. CASE TurnAborted(t) \/ ModelEnds(t) \/ CallAborted(t)
    BY <1>2, <2>1 DEF TurnAborted, ModelEnds, CallAborted, Calling
  <2>2. CASE AskModel(t)
    BY <2>2 DEF AskModel, Move, loop
  <2>3. CASE CallsRepeated(t) \/ RoundEnds(t)
    BY <2>3 DEF CallsRepeated, RoundEnds, Move
  <2>4. CASE CallsMade(t)
    BY <2>4 DEF CallsMade, Move
  <2>5. CASE CallNameless(t)
    BY <2>5 DEF CallNameless, Calling, NextCall
  <2>6. CASE CallAsks(t) \/ CallRuns(t)
    BY <2>6 DEF CallAsks, CallRuns, Move, loop
  <2>7. CASE Answered(t) \/ Expires(t) \/ Approves(t)
    BY <2>7 DEF Answered, Expires, Approves, Move, loop
  <2>8. CASE Declines(t)
    BY <2>8 DEF Declines, Move, NextCall
  <2> QED BY <1>3, <2>1, <2>2, <2>3, <2>4, <2>5, <2>6, <2>7, <2>8 DEF Loop
<1>4. ASSUME NEW t \in Turns, Run(t) PROVE Still(u) \/ Onward(u)
  BY <1>4 DEF Run, Move, NextCall
<1>5. ASSUME NEW t \in Turns, ClientGone(t) PROVE Still(u) \/ Onward(u)
  BY <1>5 DEF ClientGone, loop
<1>6. CASE Decisions
  BY <1>6 DEF Decisions, Decide, Send, loop
<1>7. CASE UNCHANGED vars
  BY <1>7 DEF vars, loop
<1> QED BY <1>1, <1>3, <1>4, <1>5, <1>6, <1>7 DEF Next

\* No step takes a turn back: not a repeated round, a decision that comes late, nor a client
\* that leaves.  With at most MaxIters iterations and rounds of finitely many calls, there is
\* no behaviour in which a turn goes round for ever.
THEOREM TurnsGoOnward == Spec => [][\A t \in Turns : Still(t) \/ Onward(t)]_vars
<1>1. Typed /\ [Next]_vars => \A t \in Turns : Still(t) \/ Onward(t)
  BY OnwardStep
<1> QED BY <1>1, TypedAlways, PTL DEF Spec

----------------------------------------------------------------------------
(* A call of a tool: where it is.                                          *)

\* Only a running call has a living program, and only one that could not stage its file
\* ends with the file there.
CallPlaces ==
    /\ phase \in {"idle", "staged", "running", "searching", "vetting", "waiting", "over"}
    /\ end \in Outcomes \cup {None}
    /\ (end = None) <=> (phase # "over")
    /\ script \in BOOLEAN /\ child \in {"none", "alive", "exited"}
    /\ helper \in BOOLEAN /\ hung \in BOOLEAN
    /\ child = "alive" => phase = "running"
    /\ child # "none" => phase \in {"running", "over"}
    /\ script => phase \in {"staged", "running"} \/ end = "unstaged"
    /\ phase # "over" => asked = None

LEMMA CallPlacesInit == ToolsInit => CallPlaces
BY ToolsAssumption DEF ToolsInit, CallPlaces

LEMMA CallPlacesStep == CallPlaces /\ [ToolsNext]_toolVars => CallPlaces'
<1> SUFFICES ASSUME CallPlaces, [ToolsNext]_toolVars PROVE CallPlaces'
  OBVIOUS
<1> USE ToolsAssumption DEF CallPlaces, Outcomes, Ends, Goes, process, net, pure
<1>1. CASE Another
  BY <1>1 DEF Another
<1>2. CASE AtOnce
  BY <1>2 DEF AtOnce, BadCall, Calculate, ReadFile, Answers
<1>3. CASE Stage \/ StageFails \/ Launch \/ LaunchFails
  BY <1>3 DEF Stage, StageFails, Launch, LaunchFails
<1>4. CASE Program
  BY <1>4 DEF Program, Wants, Prints, Hangs, Forks, Exits, Working
<1>5. CASE HelperEnds \/ Finish \/ Timeout
  <2>1. CASE HelperEnds
    BY <2>1 DEF HelperEnds
  <2>2. CASE Finish
    BY <2>2 DEF Finish
  <2>3. CASE Timeout
    BY <2>3 DEF Timeout
  <2> QED BY <1>5, <2>1, <2>2, <2>3
<1>6. ASSUME NEW s \in Streams, NEW n \in 1..PipeSize, Drain(s, n) PROVE CallPlaces'
  BY <1>6 DEF Drain
<1>7. ASSUME NEW s \in Streams, ReachesEnd(s) PROVE CallPlaces'
  BY <1>7 DEF ReachesEnd
<1>8. CASE Search \/ Fetch
  BY <1>8 DEF Search, Fetch
<1>9. CASE Web
  BY <1>9 DEF Web, SearchRedirected, Searched, Refuses, Asks, Redirects, Fetched
<1>10. CASE UNCHANGED toolVars
  BY <1>10 DEF toolVars
<1> QED BY <1>1, <1>2, <1>3, <1>4, <1>5, <1>6, <1>7, <1>8, <1>9, <1>10 DEF ToolsNext, Reading

----------------------------------------------------------------------------
(* What a program prints and what is kept of it.                           *)

\* What is kept of a stream is the beginning of what was read of it, and a stream that
\* has ended has nothing left to read.
StreamsRead ==
    /\ pipe \in [Streams -> 0..PipeSize]
    /\ printed \in [Streams -> 0..MaxPrint] /\ kept \in [Streams -> 0..OutCap]
    /\ \A s \in Streams :
          /\ pipe[s] <= printed[s]
          /\ kept[s] = IF printed[s] - pipe[s] <= OutCap THEN printed[s] - pipe[s] ELSE OutCap
          /\ s \in eof => pipe[s] = 0

StreamsEnd ==
    /\ wants \in Streams \cup {None}
    /\ \A s \in Streams : wants = s => printed[s] < MaxPrint
    /\ eof \subseteq Streams
    /\ eof # {} => phase \in {"running", "over"} /\ child # "alive"
    /\ end = "output" => eof = Streams

LEMMA StreamsInit == ToolsInit => StreamsRead /\ StreamsEnd
BY ToolsAssumption DEF ToolsInit, StreamsRead, StreamsEnd, Zero, Streams, Outcomes

LEMMA StreamsReadStep ==
    StreamsRead /\ StreamsEnd /\ [ToolsNext]_toolVars => StreamsRead'
<1> SUFFICES ASSUME StreamsRead, StreamsEnd, [ToolsNext]_toolVars PROVE StreamsRead'
  OBVIOUS
<1> USE ToolsAssumption DEF StreamsRead
<1>1. CASE Another
  BY <1>1 DEF Another, Zero
<1>2. CASE UNCHANGED <<pipe, printed, kept, eof>>
  BY <1>2
<1>3. ASSUME NEW s \in Streams, Prints(s) PROVE StreamsRead'
  <2>1. printed[s] < MaxPrint /\ s \notin eof
    BY <1>3 DEF StreamsEnd, Prints, Working
  <2>2. /\ pipe' = [pipe EXCEPT ![s] = @ + 1] /\ printed' = [printed EXCEPT ![s] = @ + 1]
        /\ pipe[s] < PipeSize /\ kept' = kept /\ eof' = eof
    BY <1>3 DEF Prints
  <2>3. pipe' \in [Streams -> 0..PipeSize] /\ printed' \in [Streams -> 0..MaxPrint]
    BY <2>1, <2>2
  <2>4. ASSUME NEW r \in Streams
        PROVE  /\ pipe'[r] <= printed'[r]
               /\ printed'[r] - pipe'[r] = printed[r] - pipe[r]
               /\ r \in eof' => pipe'[r] = 0
    <3>1. CASE r = s
      <4>1. pipe'[s] = pipe[s] + 1 /\ printed'[s] = printed[s] + 1
        BY <2>2
      <4>2. pipe[s] \in Nat /\ printed[s] \in Nat /\ pipe[s] <= printed[s]
        BY DEF Streams
      <4> QED BY <2>1, <2>2, <3>1, <4>1, <4>2
    <3>2. CASE r # s
      BY <2>2, <3>2
    <3> QED BY <3>1, <3>2
  <2> QED BY <2>2, <2>3, <2>4
<1>4. ASSUME NEW s \in Streams, NEW n \in 1..PipeSize, Drain(s, n) PROVE StreamsRead'
  <2>1. /\ pipe' = [pipe EXCEPT ![s] = @ - n] /\ kept' = [kept EXCEPT ![s] = @ + Take(s, n)]
        /\ n <= pipe[s] /\ printed' = printed /\ eof' = eof
    BY <1>4 DEF Drain
  <2>2. kept[s] + Take(s, n) =
            IF printed[s] - (pipe[s] - n) <= OutCap THEN printed[s] - (pipe[s] - n) ELSE OutCap
    BY <2>1 DEF Take
  <2>3. kept[s] + Take(s, n) \in 0..OutCap /\ pipe[s] - n \in 0..PipeSize
    BY <2>1 DEF Take
  <2>4. pipe' \in [Streams -> 0..PipeSize] /\ kept' \in [Streams -> 0..OutCap]
    BY <2>1, <2>3
  <2>5. s \notin eof
    BY <2>1
  <2>6. ASSUME NEW r \in Streams
        PROVE  /\ pipe'[r] <= printed'[r]
               /\ kept'[r] = IF printed'[r] - pipe'[r] <= OutCap
                             THEN printed'[r] - pipe'[r] ELSE OutCap
               /\ r \in eof' => pipe'[r] = 0
    <3>1. CASE r = s
      BY <2>1, <2>2, <2>5, <3>1
    <3>2. CASE r # s
      BY <2>1, <3>2
    <3> QED BY <3>1, <3>2
  <2> QED BY <2>1, <2>4, <2>6
<1>5. ASSUME NEW s \in Streams, ReachesEnd(s) PROVE StreamsRead'
  BY <1>5 DEF ReachesEnd
<1>6. CASE AtOnce \/ Search \/ Fetch \/ Web
  <2>1. UNCHANGED <<pipe, printed, kept, eof>>
    BY <1>6 DEF AtOnce, BadCall, Calculate, ReadFile, Answers, Search, Fetch, Web, Searched,
       SearchRedirected, Refuses, Asks, Redirects, Fetched, process
  <2> QED BY <2>1, <1>2
<1>7. CASE Stage \/ StageFails \/ Launch \/ LaunchFails \/ HelperEnds \/ Finish \/ Timeout
  <2>1. UNCHANGED <<pipe, printed, kept, eof>>
    BY <1>7 DEF Stage, StageFails, Launch, LaunchFails, HelperEnds, Finish, Timeout
  <2> QED BY <2>1, <1>2
<1>8. ASSUME NEW s \in Streams, Wants(s) \/ Hangs \/ Forks \/ Exits PROVE StreamsRead'
  <2>1. UNCHANGED <<pipe, printed, kept, eof>>
    BY <1>8 DEF Wants, Hangs, Forks, Exits
  <2> QED BY <2>1, <1>2
<1>9. CASE UNCHANGED toolVars
  <2>1. UNCHANGED <<pipe, printed, kept, eof>>
    BY <1>9 DEF toolVars, process
  <2> QED BY <2>1, <1>2
<1>10. CASE Program
  <2>1. Streams # {}
    BY DEF Streams
  <2> QED BY <1>10, <1>3, <1>8, <2>1 DEF Program
<1> QED BY <1>1, <1>4, <1>5, <1>6, <1>7, <1>9, <1>10 DEF ToolsNext, Reading

LEMMA StreamsEndStep ==
    CallPlaces /\ StreamsRead /\ StreamsEnd /\ [ToolsNext]_toolVars => StreamsEnd'
<1> SUFFICES ASSUME CallPlaces, StreamsRead, StreamsEnd, [ToolsNext]_toolVars
             PROVE  StreamsEnd'
  OBVIOUS
<1> USE ToolsAssumption DEF StreamsEnd
<1>1. CASE Another
  BY <1>1 DEF Another, Outcomes, Streams
<1>2. CASE UNCHANGED <<wants, printed, eof, child, end, phase>>
  BY <1>2
<1>3. ASSUME NEW s \in Streams, Prints(s) PROVE StreamsEnd'
  <2>1. wants' = None /\ eof' = eof /\ child' = child /\ end' = end /\ phase' = phase
    BY <1>3 DEF Prints
  <2>2. None \notin Streams
    BY DEF Streams
  <2> QED BY <2>1, <2>2
<1>4. ASSUME NEW s \in Streams, NEW n \in 1..PipeSize, Drain(s, n) PROVE StreamsEnd'
  BY <1>4, <1>2 DEF Drain
<1>5. ASSUME NEW s \in Streams, ReachesEnd(s) PROVE StreamsEnd'
  <2>1. /\ wants' = wants /\ printed' = printed /\ child' = child /\ end' = end
        /\ eof' = eof \cup {s} /\ child # "alive" /\ phase' = phase
    BY <1>5 DEF ReachesEnd
  <2>2. phase = "running"
    BY <1>5 DEF ReachesEnd
  <2>3. end # "output"
    BY <2>2 DEF CallPlaces, Outcomes
  <2> QED BY <2>1, <2>2, <2>3
<1>6. CASE AtOnce \/ Search \/ Fetch \/ Web
  <2>1. /\ UNCHANGED <<wants, printed, eof, child>> /\ (end' = end \/ end' # "output")
        /\ phase # "running" /\ phase # "over"
    BY <1>6 DEF AtOnce, BadCall, Calculate, ReadFile, Answers, Search, Fetch, Web, Searched,
       SearchRedirected, Refuses, Asks, Redirects, Fetched, process, Ends, Goes
  <2> QED BY <2>1, <1>2
<1>7. CASE Stage \/ StageFails \/ LaunchFails \/ HelperEnds
  <2>1. /\ UNCHANGED <<wants, printed, eof, child>> /\ (end' = end \/ end' # "output")
        /\ UNCHANGED phase \/ phase \in {"idle", "staged"}
    BY <1>7 DEF Stage, StageFails, LaunchFails, HelperEnds, Ends
  <2> QED BY <2>1, <1>2
<1>8. CASE Launch
  <2>1. UNCHANGED <<wants, printed, eof, end>> /\ child' = "alive"
    BY <1>8 DEF Launch
  <2>2. eof = {}
    BY <1>8 DEF Launch
  <2> QED BY <2>1, <2>2 DEF CallPlaces, Outcomes
<1>9. CASE Finish \/ Timeout
  BY <1>9 DEF Finish, Timeout, Ends
<1>10. CASE Program
  <2>1. ASSUME NEW s \in Streams, Wants(s) PROVE StreamsEnd'
    BY <2>1 DEF Wants
  <2>2. CASE Hangs \/ Forks \/ Exits
    BY <2>2 DEF Hangs, Forks, Exits
  <2> QED BY <1>3, <1>10, <2>1, <2>2 DEF Program
<1>11. CASE UNCHANGED toolVars
  BY <1>11 DEF toolVars, process
<1> QED BY <1>1, <1>4, <1>5, <1>6, <1>7, <1>8, <1>9, <1>10, <1>11 DEF ToolsNext, Reading

\* The answer tells of each stream what was kept of it.
OutputAnswered == end = "output" => \E blank \in SUBSET Streams : answer = Told(blank)

LEMMA OutputAnsweredStep ==
    CallPlaces /\ OutputAnswered /\ [ToolsNext]_toolVars => OutputAnswered'
<1> SUFFICES ASSUME CallPlaces, OutputAnswered, [ToolsNext]_toolVars PROVE OutputAnswered'
  OBVIOUS
<1>1. CASE UNCHANGED <<end, answer, kept>>
  BY <1>1 DEF OutputAnswered, Told
<1>2. ASSUME end' # "output" PROVE OutputAnswered'
  BY <1>2 DEF OutputAnswered
<1>3. end # "output" \/ phase = "over"
  BY ToolsAssumption DEF CallPlaces, Outcomes
<1>4. CASE Finish
  <2>1. PICK blank \in SUBSET Streams : answer' = Told(blank)
    BY <1>4 DEF Finish
  <2>2. Told(blank)' = Told(blank)
    BY <1>4 DEF Finish, Told
  <2> QED BY <2>1, <2>2 DEF OutputAnswered
<1>5. CASE Another
  BY <1>2, <1>5, ToolsAssumption DEF Another, Outcomes
<1>6. CASE AtOnce \/ Stage \/ StageFails \/ Launch \/ LaunchFails \/ Search \/ Fetch \/ Timeout
  BY <1>2, <1>3, <1>6 DEF AtOnce, BadCall, Calculate, ReadFile, Answers, Stage, StageFails, Launch,
     LaunchFails, Search, Fetch, Timeout, Ends, Goes
<1>7. CASE Web
  BY <1>2, <1>3, <1>7 DEF Web, SearchRedirected, Searched, Refuses, Asks, Redirects, Fetched, Ends,
     Goes
<1>8. CASE Program
  BY <1>1, <1>2, <1>3, <1>8 DEF Program, Wants, Prints, Hangs, Forks, Exits, Working, pure
<1>9. CASE HelperEnds \/ UNCHANGED toolVars
  BY <1>1, <1>9 DEF HelperEnds, toolVars, pure, process
<1>10. ASSUME NEW s \in Streams, NEW n \in 1..PipeSize, Drain(s, n)
       PROVE  OutputAnswered'
  BY <1>2, <1>3, <1>10 DEF Drain
<1>11. ASSUME NEW s \in Streams, ReachesEnd(s) PROVE OutputAnswered'
  BY <1>2, <1>3, <1>11 DEF ReachesEnd
<1> QED
  BY <1>4, <1>5, <1>6, <1>7, <1>8, <1>9, <1>10, <1>11 DEF ToolsNext, Reading

----------------------------------------------------------------------------
(* Requests and rows.                                                      *)

\* A fetch that follows redirects has made a request for each, and logged it; a search has
\* logged only that it was made.
HopsLogged ==
    /\ hops \in 0..MaxHops /\ sent \in Nat
    /\ sent <= IF Searches THEN MaxFollowed + 1 ELSE MaxHops + 1
    /\ ~Searches => logged = IF phase = "waiting" THEN sent - 1 ELSE sent
    /\ end = "searched" => logged = 1 /\ sent >= 1
    /\ phase \in {"idle", "staged", "running"} => sent = 0 /\ hops = 0
    /\ phase = "searching" => sent >= 1 /\ logged = 0 /\ hops = 0
    /\ phase = "vetting" => sent = hops
    /\ phase = "waiting" => sent = hops + 1

LEMMA HopsLoggedInit == ToolsInit => HopsLogged
BY ToolsAssumption DEF ToolsInit, HopsLogged, Searches, Outcomes

LEMMA HopsLoggedStep == CallPlaces /\ HopsLogged /\ [ToolsNext]_toolVars => HopsLogged'
<1> SUFFICES ASSUME CallPlaces, HopsLogged, [ToolsNext]_toolVars PROVE HopsLogged'
  OBVIOUS
<1> USE ToolsAssumption DEF HopsLogged, Searches, CallPlaces, Outcomes, Ends, Goes, Logs, net
<1>1. CASE Another
  BY <1>1 DEF Another
<1>2. CASE AtOnce
  BY <1>2 DEF AtOnce, BadCall, Calculate, ReadFile, Answers
<1>3. CASE Stage \/ StageFails \/ Launch \/ LaunchFails
  BY <1>3 DEF Stage, StageFails, Launch, LaunchFails
<1>4. CASE Program
  BY <1>4 DEF Program, Wants, Prints, Hangs, Forks, Exits, Working
<1>5. CASE HelperEnds \/ Finish \/ Timeout
  BY <1>5 DEF HelperEnds, Finish, Timeout
<1>6. ASSUME NEW s \in Streams, NEW n \in 1..PipeSize, Drain(s, n) PROVE HopsLogged'
  BY <1>6 DEF Drain
<1>7. ASSUME NEW s \in Streams, ReachesEnd(s) PROVE HopsLogged'
  BY <1>7 DEF ReachesEnd
<1>8. CASE Search \/ Fetch
  BY <1>8 DEF Search, Fetch
<1>9. CASE Web
  <2>1. CASE SearchRedirected
    BY <2>1 DEF SearchRedirected
  <2>2. CASE Searched
    BY <2>2 DEF Searched
  <2>3. CASE Refuses
    BY <2>3 DEF Refuses
  <2>4. CASE Asks
    BY <2>4 DEF Asks
  <2>5. CASE Redirects
    BY <2>5 DEF Redirects
  <2>6. CASE Fetched
    BY <2>6 DEF Fetched
  <2> QED BY <1>9, <2>1, <2>2, <2>3, <2>4, <2>5, <2>6 DEF Web
<1>10. CASE UNCHANGED toolVars
  BY <1>10 DEF toolVars
<1> QED BY <1>1, <1>2, <1>3, <1>4, <1>5, <1>6, <1>7, <1>8, <1>9, <1>10 DEF ToolsNext, Reading

----------------------------------------------------------------------------
(* The file that is meant.                                                 *)

Letters == {Lower[x] : x \in DOMAIN Lower}

LEMMA LoweredSeq ==
    ASSUME NEW name \in Names
    PROVE  Lowered(name) \in Seq(Letters) /\ Lowered(name) # <<>>
<1>1. name \in Seq(DOMAIN Lower) /\ name # <<>>
  BY ToolsAssumption
<1>2. \A i \in 1..Len(name) : name[i] \in DOMAIN Lower
  BY <1>1
<1>3. \A i \in 1..Len(name) : Lower[name[i]] \in Letters
  BY <1>2 DEF Letters
<1>4. Lowered(name) = [i \in 1..Len(name) |-> Lower[name[i]]]
  BY <1>1 DEF Lowered
<1>5. Len(name) \in Nat /\ Len(name) # 0
  BY <1>1
<1>6. Lowered(name) \in Seq(Letters)
  BY <1>3, <1>4, <1>5
<1>7. DOMAIN Lowered(name) = 1..Len(name)
  BY <1>4
<1> QED BY <1>5, <1>6, <1>7

LEMMA SuffixOfItself ==
    ASSUME NEW T, NEW s \in Seq(T)
    PROVE  IsSuffix(s, s)
<1>1. Len(Reverse(s)) = Len(s)
  BY DEF Reverse
<1> QED BY <1>1 DEF IsSuffix, IsPrefix

LEMMA SameSeq ==
    ASSUME NEW T, NEW s \in Seq(T), NEW r \in Seq(T), Len(s) = Len(r),
           \A k \in 1..Len(s) : s[k] = r[k]
    PROVE  s = r
<1>1. s = [k \in 1..Len(s) |-> s[k]] /\ r = [k \in 1..Len(r) |-> r[k]]
  OBVIOUS
<1> QED BY <1>1

LEMMA SuffixWithin ==
    ASSUME NEW T, NEW w \in Seq(T), NEW s \in Seq(T), w # <<>>, IsSuffix(w, s)
    PROVE  Within(w, s)
<1> DEFINE n == Len(w)
           m == Len(s)
           i == m - n + 1
<1>1. n \in Nat /\ m \in Nat /\ n >= 1
  OBVIOUS
<1>2. Reverse(w) = [j \in 1..n |-> w[n - j + 1]] /\ Reverse(s) = [j \in 1..m |-> s[m - j + 1]]
  BY DEF Reverse
<1>3. \A j \in 1..n : w[n - j + 1] \in T
  BY <1>1
<1>4. \A j \in 1..m : s[m - j + 1] \in T
  BY <1>1
<1>5. Reverse(w) \in Seq(T) /\ Len(Reverse(w)) = n
  BY <1>1, <1>2, <1>3
<1>6. Reverse(s) \in Seq(T) /\ Len(Reverse(s)) = m
  BY <1>1, <1>2, <1>4
<1>7. n <= m /\ SubSeq(Reverse(w), 1, n) = SubSeq(Reverse(s), 1, n)
  BY <1>5, <1>6 DEF IsSuffix, IsPrefix
<1>8. ASSUME NEW j \in 1..n PROVE w[n - j + 1] = s[m - j + 1]
  <2>1. SubSeq(Reverse(w), 1, n)[j] = Reverse(w)[j]
    BY <1>1, <1>5
  <2>2. SubSeq(Reverse(s), 1, n)[j] = Reverse(s)[j]
    BY <1>1, <1>6, <1>7
  <2>3. j \in 1..m
    BY <1>1, <1>7
  <2> QED BY <1>2, <1>7, <2>1, <2>2, <2>3
<1>9. i \in 1..m /\ i + n - 1 = m
  BY <1>1, <1>7
<1>10. Len(SubSeq(s, i, m)) = n /\ SubSeq(s, i, m) \in Seq(T)
  BY <1>1, <1>9
<1>11. ASSUME NEW k \in 1..n PROVE SubSeq(s, i, m)[k] = w[k]
  <2>1. SubSeq(s, i, m)[k] = s[i + k - 1]
    BY <1>1, <1>9
  <2> DEFINE j == n - k + 1
  <2>2. j \in 1..n /\ n - j + 1 = k /\ m - j + 1 = i + k - 1
    BY <1>1
  <2> QED BY <1>8, <2>1, <2>2
<1>12. SubSeq(s, i, m) = w
  <2> DEFINE sub == SubSeq(s, i, m)
  <2>1. sub \in Seq(T) /\ Len(sub) = Len(w) /\ \A k \in 1..Len(sub) : sub[k] = w[k]
    BY <1>10, <1>11
  <2> HIDE DEF sub
  <2>2. sub = w
    BY <2>1, SameSeq
  <2> QED BY <2>2 DEF sub
<1>13. SubSeq(s, i, i + n - 1) = w
  BY <1>9, <1>12, Zenon
<1> HIDE DEF i
<1> QED BY <1>7, <1>9, <1>13 DEF Within

\* Each way to match is wider than the one before.
LEMMA Wider ==
    ASSUME NEW want \in Names, NEW names \in SUBSET Names
    PROVE  /\ Same(want, names) \subseteq Ending(want, names)
           /\ Ending(want, names) \subseteq Holding(want, names)
<1>1. ASSUME NEW n \in names, Lowered(n) = Lowered(want)
      PROVE  IsSuffix(Lowered(want), Lowered(n))
  BY <1>1, LoweredSeq, SuffixOfItself
<1>2. ASSUME NEW n \in names, IsSuffix(Lowered(want), Lowered(n))
      PROVE  Within(Lowered(want), Lowered(n))
  BY <1>2, LoweredSeq, SuffixWithin
<1> QED BY <1>1, <1>2 DEF Same, Ending, Holding

LEMMA UniqueIs ==
    ASSUME NEW S, IsFiniteSet(S), None \notin S
    PROVE  /\ Unique(S) # None => S = {Unique(S)} /\ Cardinality(S) = 1
           /\ Unique(S) = None => Cardinality(S) # 1 /\ \A x : S # {x}
<1>1. Cardinality(S) = 1 <=> \E x : S = {x}
  BY FS_Singleton
<1> QED BY <1>1 DEF Unique

LEMMA ResolveMeant ==
    ASSUME NEW want \in Names, NEW names \in SUBSET Names
    PROVE  Meant(want, names) =
               IF Resolve(want, names) = None THEN {} ELSE {Resolve(want, names)}
<1> DEFINE same == Same(want, names)
           ending == Ending(want, names)
           holding == Holding(want, names)
           kinds == <<names \cap {want}, same, ending, holding>>
           some == {k \in 1..4 : kinds[k] # {}}
           first == CHOOSE k \in some : \A l \in some : k <= l
<1>1. IsFiniteSet(names) /\ None \notin names /\ want # None
  BY ToolsAssumption, FS_Subset
<1>2. same \subseteq ending /\ ending \subseteq holding /\ holding \subseteq names
  BY Wider DEF Holding
<1>3. ASSUME NEW k \in 1..4, kinds[k] # {}, \A l \in 1..4 : l < k => kinds[l] = {}
      PROVE  Meant(want, names) = IF Cardinality(kinds[k]) = 1 THEN kinds[k] ELSE {}
  <2>1. k \in some /\ \A l \in some : k <= l
    BY <1>3
  <2>2. first = k
    BY <2>1
  <2> HIDE DEF some
  <2>3. some # {}
    BY <2>1
  <2> QED BY <2>2, <2>3 DEF Meant, some
<1>4. ASSUME \A k \in 1..4 : kinds[k] = {} PROVE Meant(want, names) = {}
  BY <1>4 DEF Meant
<1>5. ASSUME NEW S \in {same, ending, holding}
      PROVE  /\ Unique(S) # None => S = {Unique(S)} /\ Cardinality(S) = 1
             /\ Unique(S) = None => Cardinality(S) # 1 /\ \A x : S # {x}
  <2>1. S \subseteq names
    BY <1>2
  <2> QED BY <1>1, <2>1, FS_Subset, UniqueIs
<1> HIDE DEF same, ending, holding
<1>6. CASE want \in names
  <2>1. kinds[1] = {want} /\ Cardinality({want}) = 1
    BY <1>6, FS_Singleton
  <2>2. Meant(want, names) = IF Cardinality(kinds[1]) = 1 THEN kinds[1] ELSE {}
    <3>1. kinds[1] # {} /\ \A l \in 1..4 : l < 1 => kinds[l] = {}
      BY <2>1
    <3> HIDE DEF kinds
    <3> QED BY <1>3, <3>1
  <2>3. Meant(want, names) = {want}
    BY <2>1, <2>2, Zenon
  <2> QED BY <1>1, <1>6, <2>3 DEF Resolve
<1>7. CASE want \notin names
  <2>1. kinds[1] = {} /\ kinds[2] = same /\ kinds[3] = ending /\ kinds[4] = holding
    BY <1>7
  <2>2. Resolve(want, names) = IF Unique(same) # None THEN Unique(same)
                               ELSE IF Unique(ending) # None THEN Unique(ending)
                               ELSE Unique(holding)
    BY <1>7 DEF Resolve, same, ending, holding
  <2> HIDE DEF kinds
  <2>3. CASE same # {}
    <3>1. Meant(want, names) = IF Cardinality(same) = 1 THEN same ELSE {}
      BY <1>3, <2>1, <2>3
    <3>2. CASE Unique(same) # None
      BY <1>5, <2>2, <3>1, <3>2
    <3>3. CASE Unique(same) = None
      <4>1. \A x : ending # {x} /\ holding # {x}
        BY <1>2, <1>5, <2>3, <3>3
      <4>2. Unique(ending) = None /\ Unique(holding) = None
        BY <1>5, <4>1
      <4> QED BY <1>5, <2>2, <3>1, <3>3, <4>2
    <3> QED BY <3>2, <3>3
  <2>4. CASE same = {} /\ ending # {}
    <3>1. Meant(want, names) = IF Cardinality(ending) = 1 THEN ending ELSE {}
      BY <1>3, <2>1, <2>4
    <3>2. Unique(same) = None
      BY <1>5, <2>4
    <3>3. CASE Unique(ending) # None
      BY <1>5, <2>2, <3>1, <3>2, <3>3
    <3>4. CASE Unique(ending) = None
      <4>1. \A x : holding # {x}
        BY <1>2, <1>5, <2>4, <3>4
      <4>2. Unique(holding) = None
        BY <1>5, <4>1
      <4> QED BY <1>5, <2>2, <3>1, <3>2, <3>4, <4>2
    <3> QED BY <3>3, <3>4
  <2>5. CASE same = {} /\ ending = {}
    <3>1. Unique(same) = None /\ Unique(ending) = None
      BY <1>5, <2>5
    <3>2. Meant(want, names) = IF Cardinality(holding) = 1 THEN holding ELSE {}
      <4>1. CASE holding = {}
        <5>1. \A k \in 1..4 : kinds[k] = {}
          BY <2>1, <2>5, <4>1
        <5> QED BY <1>4, <4>1, <5>1
      <4>2. CASE holding # {}
        BY <1>3, <2>1, <2>5, <4>2
      <4> QED BY <4>1, <4>2
    <3> QED BY <1>5, <2>2, <3>1, <3>2
  <2> QED BY <2>3, <2>4, <2>5
<1> QED BY <1>6, <1>7

\* What a call of read_file was asked, and that it answers with what that resolves to.
FileAnswered ==
    asked # None =>
        \/ asked.tool # "read_file"
        \/ \E want \in Names, names \in SUBSET Names, f \in File :
              /\ asked = [tool |-> "read_file", want |-> want, names |-> names, file |-> f]
              /\ answer = [name |-> Resolve(want, names),
                           content |-> IF Resolve(want, names) = None THEN NoContent
                                       ELSE Content(f)]

LEMMA FileAnsweredStep ==
    CallPlaces /\ FileAnswered /\ [ToolsNext]_toolVars => FileAnswered'
<1> SUFFICES ASSUME CallPlaces, FileAnswered, [ToolsNext]_toolVars PROVE FileAnswered'
  OBVIOUS
<1>1. CASE UNCHANGED pure
  BY <1>1 DEF FileAnswered, pure
<1>2. ASSUME asked' = None PROVE FileAnswered'
  BY <1>2 DEF FileAnswered
<1>3. CASE AtOnce
  <2>1. CASE BadCall
    BY <1>1, <2>1 DEF BadCall
  <2>2. ASSUME NEW e \in Expressions, Calculate(e) PROVE FileAnswered'
    <3>1. asked' = [tool |-> "calculator", expr |-> e]
      BY <2>2 DEF Calculate, Answers
    <3>2. asked'.tool # "read_file"
      BY <3>1
    <3> QED BY <3>2 DEF FileAnswered
  <2>3. ASSUME NEW want \in Names, NEW names \in SUBSET Names, NEW f \in File,
               ReadFile(want, names, f)
        PROVE  FileAnswered'
    <3>1. /\ asked' = [tool |-> "read_file", want |-> want, names |-> names, file |-> f]
          /\ answer' = [name |-> Resolve(want, names),
                        content |-> IF Resolve(want, names) = None THEN NoContent
                                    ELSE Content(f)]
      BY <2>3 DEF ReadFile, Answers
    <3> QED BY <3>1 DEF FileAnswered
  <2> QED BY <1>3, <2>1, <2>2, <2>3 DEF AtOnce
<1>4. CASE Stage \/ StageFails \/ Launch \/ LaunchFails \/ Program \/ HelperEnds \/ Reading
  <2>1. CASE Finish
    BY <1>2, <2>1 DEF Finish, CallPlaces
  <2>2. CASE ~Finish
    BY <1>1, <1>4, <2>2 DEF Stage, StageFails, Launch, LaunchFails, Program, Wants, Prints, Hangs,
       Forks, Exits, HelperEnds, Reading, ReachesEnd, Drain
  <2> QED BY <2>1, <2>2
<1>5. CASE Timeout \/ Search \/ Fetch \/ Web
  BY <1>1, <1>5 DEF Timeout, Search, Fetch, Web, SearchRedirected, Searched, Refuses, Asks,
     Redirects, Fetched
<1>6. CASE Another
  BY <1>2, <1>6 DEF Another
<1>7. CASE UNCHANGED toolVars
  BY <1>1, <1>7 DEF toolVars
<1> QED BY <1>3, <1>4, <1>5, <1>6, <1>7 DEF ToolsNext

LEMMA FileIsMeant == FileAnswered => ReadsTheFile
<1> SUFFICES ASSUME FileAnswered, asked # None, asked.tool = "read_file" PROVE ReadsTheFile
  BY DEF ReadsTheFile
<1>1. PICK want \in Names, names \in SUBSET Names, f \in File :
          /\ asked = [tool |-> "read_file", want |-> want, names |-> names, file |-> f]
          /\ answer = [name |-> Resolve(want, names),
                       content |-> IF Resolve(want, names) = None THEN NoContent
                                   ELSE Content(f)]
  BY DEF FileAnswered
<1>2. /\ asked.want = want /\ asked.names = names /\ asked.file = f
      /\ answer.name = Resolve(want, names)
      /\ answer.content = IF Resolve(want, names) = None THEN NoContent ELSE Content(f)
  BY <1>1
<1>3. Meant(asked.want, asked.names) = IF answer.name = None THEN {} ELSE {answer.name}
  BY <1>2, ResolveMeant
<1>4. answer.content.ok =>
          answer.content.bytes = asked.file.size \/
          (answer.content.cut /\ answer.content.bytes = MaxRead)
  <2>1. CASE answer.content = NoContent
    BY <2>1 DEF NoContent
  <2>2. CASE answer.content = Content(f) /\ f.kind \in {"text", "pdf"}
    <3>1. Content(f).bytes = (IF f.size > MaxRead THEN MaxRead ELSE f.size)
          /\ Content(f).cut = (f.size > MaxRead)
      BY <2>2 DEF Content
    <3>2. f.size \in 0..MaxRead + 1
      BY DEF File
    <3> QED BY <1>2, <2>2, <3>1, <3>2, ToolsAssumption
  <2>3. CASE answer.content = Content(f) /\ f.kind \notin {"text", "pdf"}
    BY <2>3 DEF Content, NoContent
  <2> QED BY <1>2, <2>1, <2>2, <2>3
<1> QED BY <1>3, <1>4 DEF ReadsTheFile

----------------------------------------------------------------------------
(* Theorems about a call.                                                  *)

CallInv ==
    /\ CallPlaces /\ StreamsRead /\ StreamsEnd /\ OutputAnswered /\ HopsLogged
    /\ FileAnswered

LEMMA CallInvariant == ToolsInit /\ [][ToolsNext]_toolVars => []CallInv
<1>1. ToolsInit => CallInv
  <2>1. ToolsInit => FileAnswered /\ OutputAnswered
    BY ToolsAssumption DEF ToolsInit, FileAnswered, OutputAnswered, Outcomes
  <2> QED BY <2>1, CallPlacesInit, StreamsInit, HopsLoggedInit DEF CallInv
<1>2. CallInv /\ [ToolsNext]_toolVars => CallInv'
  BY CallPlacesStep, StreamsReadStep, StreamsEndStep, OutputAnsweredStep, HopsLoggedStep,
     FileAnsweredStep DEF CallInv
<1> QED BY <1>1, <1>2, PTL

\* Every variable of a call keeps its type, and no more is kept of a stream than OUT_CAP.
THEOREM CallTypes == ToolsSpec => []ToolsTypeOK
<1>1. CallInv => ToolsTypeOK
  <2> SUFFICES ASSUME CallInv PROVE ToolsTypeOK
    OBVIOUS
  <2>1. /\ phase \in {"idle", "staged", "running", "searching", "vetting", "waiting", "over"}
        /\ end \in Outcomes \cup {None}
        /\ (end = None) <=> (phase # "over")
        /\ script \in BOOLEAN /\ child \in {"none", "alive", "exited"}
        /\ helper \in BOOLEAN /\ hung \in BOOLEAN
    BY DEF CallInv, CallPlaces
  <2>2. /\ wants \in Streams \cup {None}
        /\ pipe \in [Streams -> 0..PipeSize]
        /\ printed \in [Streams -> 0..MaxPrint] /\ kept \in [Streams -> 0..OutCap]
        /\ eof \subseteq Streams
    BY DEF CallInv, StreamsRead, StreamsEnd
  <2>3. sent \in 0..MaxHops + MaxFollowed + 1 /\ logged \in 0..sent /\ hops \in 0..MaxHops
    BY <2>1, ToolsAssumption DEF CallInv, HopsLogged, Searches
  <2>4. (end = None) = (phase # "over")
    BY <2>1
  <2> QED BY <2>1, <2>2, <2>3, <2>4 DEF ToolsTypeOK
<1> QED BY <1>1, CallInvariant, PTL DEF ToolsSpec

\* However a launched program ends, it is not left running, nor its file behind.
THEOREM ProgramsEnd == ToolsSpec => []NothingLeft
<1>1. CallInv => NothingLeft
  BY ToolsAssumption DEF CallInv, CallPlaces, Outcomes, NothingLeft
<1> QED BY <1>1, CallInvariant, PTL DEF ToolsSpec

\* Of a program that ends by itself the beginning of what it printed to each stream is kept,
\* and what the answer gives without a mark is all of it.
THEOREM OutputIsTold == ToolsSpec => []OutputTold
<1>1. CallInv => OutputTold
  <2> SUFFICES ASSUME CallInv, end = "output", NEW s \in Streams
               PROVE  /\ kept[s] = IF printed[s] <= OutCap THEN printed[s] ELSE OutCap
                      /\ answer[s] = "all" => kept[s] = printed[s]
    BY DEF OutputTold
  <2>1. pipe[s] = 0 /\ printed[s] \in Nat
    BY DEF CallInv, StreamsRead, StreamsEnd, Streams
  <2>2. kept[s] = IF printed[s] - pipe[s] <= OutCap THEN printed[s] - pipe[s] ELSE OutCap
    BY DEF CallInv, StreamsRead
  <2>3. PICK blank \in SUBSET Streams : answer = Told(blank)
    BY DEF CallInv, OutputAnswered
  <2>4. answer[s] = "all" => kept[s] < OutCap
    BY <2>3, <2>2, <2>1, ToolsAssumption DEF Told
  <2> QED BY ToolsAssumption, <2>1, <2>2, <2>4
<1> QED BY <1>1, CallInvariant, PTL DEF ToolsSpec

\* Every request of a fetch is logged before the next is made, and there are no more than
\* MaxHops + 1; of a search there is one row when it is over.
THEOREM RequestsAreLogged == ToolsSpec => []RequestsLogged
<1>1. CallInv => RequestsLogged
  <2> SUFFICES ASSUME CallInv PROVE RequestsLogged
    OBVIOUS
  <2>1. CASE Searches
    BY <2>1, ToolsAssumption DEF CallInv, CallPlaces, HopsLogged, RequestsLogged, Searches, Outcomes
  <2>2. CASE ~Searches
    BY <2>2 DEF CallInv, HopsLogged, RequestsLogged
  <2> QED BY <2>1, <2>2
<1> QED BY <1>1, CallInvariant, PTL DEF ToolsSpec

\* Whatever the names in the folder, read_file reads the one that is meant or none.
THEOREM FilesAreMeant == ToolsSpec => []ReadsTheFile
<1>1. CallInv => ReadsTheFile
  BY FileIsMeant DEF CallInv
<1> QED BY <1>1, CallInvariant, PTL DEF ToolsSpec

----------------------------------------------------------------------------
(* A call goes on and never back.                                          *)

Bit(b) == IF b THEN 1 ELSE 0

\* What a call has before it: of each stream what its program may still print, the wish to
\* print it, the print and the read being three steps; the ends of the streams; the end of
\* its program; redirects, each to be vetted and asked, or followed by a search; and its own
\* end.
ToPrint(s) == 3 * (MaxPrint - printed[s]) + pipe[s] - Bit(wants = s)
ToRead == Bit("out" \notin eof) + Bit("err" \notin eof)
ToRun == Bit(child # "exited") + Bit(~hung)
ToAsk == 2 * (MaxHops - hops) + Bit(phase = "vetting")
ToFollow == IF phase = "searching" THEN MaxFollowed + 1 - sent ELSE 0
ToEnd == IF phase = "staged" THEN 2 ELSE Bit(phase # "over")

LeftNat ==
    /\ ToPrint("out") \in Nat /\ ToPrint("err") \in Nat
    /\ ToRead \in Nat /\ ToRun \in Nat /\ ToAsk \in Nat /\ ToFollow \in Nat /\ ToEnd \in Nat

LEMMA LeftIsNat == CallInv => LeftNat
<1> SUFFICES ASSUME CallInv PROVE LeftNat
  OBVIOUS
<1> USE ToolsAssumption DEF Bit
<1>1. ASSUME NEW s \in Streams PROVE ToPrint(s) \in Nat
  <2>1. printed[s] \in 0..MaxPrint /\ pipe[s] \in Nat /\ (wants = s => printed[s] < MaxPrint)
    BY DEF CallInv, StreamsRead, StreamsEnd
  <2> QED BY <2>1 DEF ToPrint
<1>2. ToRead \in Nat /\ ToRun \in Nat /\ ToEnd \in Nat
  BY DEF ToRead, ToRun, ToEnd
<1>3. ToAsk \in Nat
  <2>1. hops \in 0..MaxHops /\ MaxHops \in Nat
    BY DEF CallInv, HopsLogged
  <2> QED BY <2>1 DEF ToAsk
<1>4. ToFollow \in Nat
  BY DEF CallInv, HopsLogged, Searches, ToFollow
<1> QED BY <1>1, <1>2, <1>3, <1>4 DEF LeftNat, Streams

\* None of it grows, and some of it falls.
LeftFalls ==
    /\ ToPrint("out")' <= ToPrint("out") /\ ToPrint("err")' <= ToPrint("err")
    /\ ToRead' <= ToRead /\ ToRun' <= ToRun /\ ToAsk' <= ToAsk /\ ToFollow' <= ToFollow
    /\ ToEnd' <= ToEnd
    /\ \/ ToPrint("out")' < ToPrint("out") \/ ToPrint("err")' < ToPrint("err")
       \/ ToRead' < ToRead \/ ToRun' < ToRun \/ ToAsk' < ToAsk \/ ToFollow' < ToFollow
       \/ ToEnd' < ToEnd

\* What another process does changes nothing of the call.
Aside == UNCHANGED <<phase, end, pure, script, child, hung, wants, pipe, printed, kept, eof, net>>

LEMMA CallOnwardStep ==
    ASSUME CallInv, LeftNat, LeftNat', ToolsNext, phase \notin {"idle", "over"}
    PROVE  Aside \/ LeftFalls
<1> USE ToolsAssumption
<1>1. /\ \A s \in Streams : ToPrint(s) \in Nat
      /\ ToRead \in Nat /\ ToRun \in Nat /\ ToAsk \in Nat /\ ToFollow \in Nat /\ ToEnd \in Nat
  BY DEF LeftNat, Streams
<1>2. /\ printed \in [Streams -> 0..MaxPrint] /\ pipe \in [Streams -> 0..PipeSize]
      /\ MaxPrint \in Nat /\ PipeSize \in Nat /\ MaxHops \in Nat /\ hops \in 0..MaxHops
      /\ child \in {"none", "alive", "exited"} /\ hung \in BOOLEAN
  BY DEF CallInv, CallPlaces, StreamsRead, HopsLogged
<1>3. UNCHANGED <<pipe, printed, wants>> =>
          ToPrint("out")' <= ToPrint("out") /\ ToPrint("err")' <= ToPrint("err")
  BY <1>1 DEF ToPrint, Streams
<1>4. UNCHANGED eof => ToRead' <= ToRead
  BY <1>1 DEF ToRead
<1>5. UNCHANGED <<child, hung>> => ToRun' <= ToRun
  BY <1>1 DEF ToRun
<1>6. UNCHANGED <<phase, hops>> => ToAsk' <= ToAsk
  BY <1>1 DEF ToAsk
<1>7. UNCHANGED phase => ToEnd' <= ToEnd
  BY <1>1 DEF ToEnd
<1>17. UNCHANGED sent /\ (UNCHANGED phase \/ phase' # "searching") => ToFollow' <= ToFollow
  BY <1>1 DEF ToFollow
<1>8. CASE Launch \/ LaunchFails
  <2>1. UNCHANGED <<pipe, printed, wants, eof, hung, hops>>
    BY <1>8 DEF Launch, LaunchFails, net
  <2>2. ToAsk' <= ToAsk
    BY <1>2, <1>8, <2>1 DEF Launch, LaunchFails, Ends, ToAsk, Bit
  <2>5. ToFollow' <= ToFollow
    BY <1>8, <1>17 DEF Launch, LaunchFails, Ends, net
  <2>3. ToRun' <= ToRun
    BY <1>8, <2>1 DEF Launch, LaunchFails, ToRun, Bit, CallInv, CallPlaces
  <2>4. ToEnd' < ToEnd /\ ToEnd' <= ToEnd
    BY <1>8 DEF Launch, LaunchFails, Ends, ToEnd, Bit
  <2> QED BY <1>3, <1>4, <2>1, <2>2, <2>3, <2>4, <2>5 DEF LeftFalls
<1>9. ASSUME NEW s \in Streams, NEW n \in 1..PipeSize, Wants(s) \/ Prints(s) \/ Drain(s, n)
      PROVE  LeftFalls
  <2>1. \A r \in Streams \ {s} : ToPrint(r)' <= ToPrint(r)
    <3>1. ASSUME NEW r \in Streams \ {s}
          PROVE  printed'[r] = printed[r] /\ pipe'[r] = pipe[r] /\ (wants' = r <=> wants = r)
      BY <1>2, <1>9 DEF Wants, Prints, Drain, Streams
    <3> QED BY <1>1, <3>1 DEF ToPrint, Bit
  <2>2. ToPrint(s)' < ToPrint(s)
    <3>1. CASE Wants(s)
      BY <1>2, <3>1 DEF Wants, ToPrint, Bit, Streams
    <3>2. CASE Prints(s)
      <4>1. /\ printed'[s] = printed[s] + 1 /\ pipe'[s] = pipe[s] + 1
            /\ wants = s /\ wants' # s
        BY <1>2, <3>2 DEF Prints, Streams
      <4> QED BY <1>2, <4>1 DEF ToPrint, Bit
    <3>3. CASE Drain(s, n)
      <4>1. printed'[s] = printed[s] /\ pipe'[s] = pipe[s] - n /\ wants' = wants
        BY <1>2, <3>3 DEF Drain
      <4> QED BY <1>2, <4>1 DEF ToPrint, Bit
    <3> QED BY <1>9, <3>1, <3>2, <3>3
  <2>3. /\ ToPrint("out")' <= ToPrint("out") /\ ToPrint("err")' <= ToPrint("err")
        /\ ToPrint("out")' < ToPrint("out") \/ ToPrint("err")' < ToPrint("err")
    <3>1. CASE s = "out"
      <4>1. "err" \in Streams \ {s}
        BY <3>1 DEF Streams
      <4> QED BY <1>1, <2>1, <2>2, <3>1, <4>1 DEF LeftNat, Streams
    <3>2. CASE s = "err"
      <4>1. "out" \in Streams \ {s}
        BY <3>2 DEF Streams
      <4> QED BY <1>1, <2>1, <2>2, <3>2, <4>1 DEF LeftNat, Streams
    <3> QED BY <3>1, <3>2 DEF Streams
  <2>4. UNCHANGED <<eof, child, hung, phase, hops, sent>>
    BY <1>9 DEF Wants, Prints, Drain, net
  <2> QED BY <1>4, <1>5, <1>6, <1>7, <1>17, <2>3, <2>4 DEF LeftFalls
<1>10. ASSUME NEW s \in Streams, Wants(s) \/ Prints(s) PROVE LeftFalls
  <2>1. 1 \in 1..PipeSize
    OBVIOUS
  <2> QED BY <1>9, <1>10, <2>1
<1>11. CASE Hangs \/ Exits
  <2>1. ToRun' < ToRun /\ ToRun' <= ToRun
    BY <1>11 DEF Hangs, Exits, Working, ToRun, Bit
  <2>2. UNCHANGED <<pipe, printed, wants, eof, phase, hops, sent>>
    BY <1>11 DEF Hangs, Exits, net
  <2> QED BY <1>3, <1>4, <1>6, <1>7, <1>17, <2>1, <2>2 DEF LeftFalls
<1>12. CASE Forks \/ HelperEnds
  BY <1>12 DEF Forks, HelperEnds, Aside
<1>13. ASSUME NEW s \in Streams, ReachesEnd(s) PROVE LeftFalls
  <2>1. ToRead' < ToRead /\ ToRead' <= ToRead
    BY <1>13 DEF ReachesEnd, ToRead, Bit, Streams
  <2>2. UNCHANGED <<pipe, printed, wants, child, hung, phase, hops, sent>>
    BY <1>13 DEF ReachesEnd, net
  <2> QED BY <1>3, <1>5, <1>6, <1>7, <1>17, <2>1, <2>2 DEF LeftFalls
<1>14. CASE Finish \/ Timeout
  <2>1. ToEnd' < ToEnd /\ ToEnd' <= ToEnd
    BY <1>14 DEF Finish, Timeout, Ends, ToEnd, Bit
  <2>2. ToRun' <= ToRun /\ ToAsk' <= ToAsk
    BY <1>2, <1>14 DEF Finish, Timeout, Ends, net, ToRun, ToAsk, Bit
  <2>3. UNCHANGED <<pipe, printed, wants, eof>>
    BY <1>14 DEF Finish, Timeout
  <2>4. ToFollow' <= ToFollow
    BY <1>14, <1>17 DEF Finish, Timeout, Ends, net
  <2> QED BY <1>3, <1>4, <2>1, <2>2, <2>3, <2>4 DEF LeftFalls
<1>15. CASE Web
  <2>1. UNCHANGED <<pipe, printed, wants, eof, child, hung>>
    BY <1>15 DEF Web, SearchRedirected, Searched, Refuses, Asks, Redirects, Fetched, process
  <2>3. CASE SearchRedirected
    <3>1. ToFollow' < ToFollow /\ ToFollow' <= ToFollow
      BY <1>1, <2>3 DEF SearchRedirected, ToFollow, CallInv, HopsLogged
    <3>2. UNCHANGED <<phase, hops>>
      BY <2>3 DEF SearchRedirected
    <3> QED BY <1>3, <1>4, <1>5, <1>6, <1>7, <2>1, <3>1, <3>2 DEF LeftFalls
  <2>4. ASSUME ~SearchRedirected PROVE ToFollow' <= ToFollow
    BY <1>1, <1>15, <2>4 DEF Web, Searched, Refuses, Asks, Redirects, Fetched, Ends, Goes, ToFollow
  <2>2. ASSUME ~SearchRedirected
        PROVE  ToAsk' <= ToAsk /\ ToEnd' <= ToEnd /\ (ToAsk' < ToAsk \/ ToEnd' < ToEnd)
    <3>1. CASE Searched \/ Refuses \/ Fetched
      BY <1>2, <3>1 DEF Searched, Refuses, Fetched, Ends, net, ToAsk, ToEnd, Bit
    <3>2. CASE Asks
      BY <1>2, <3>2 DEF Asks, Goes, ToAsk, ToEnd, Bit
    <3>3. CASE Redirects /\ hops >= MaxHops
      BY <1>2, <3>3 DEF Redirects, Ends, ToAsk, ToEnd, Bit
    <3>4. CASE Redirects /\ ~(hops >= MaxHops)
      BY <1>2, <3>4 DEF Redirects, Goes, ToAsk, ToEnd, Bit
    <3> QED BY <1>15, <2>2, <3>1, <3>2, <3>3, <3>4 DEF Web
  <2> QED BY <1>3, <1>4, <1>5, <2>1, <2>2, <2>3, <2>4 DEF LeftFalls
<1>16. ~Another /\ ~AtOnce /\ ~Stage /\ ~StageFails /\ ~Search /\ ~Fetch
  BY DEF Another, AtOnce, BadCall, Calculate, ReadFile, Answers, Stage, StageFails, Search, Fetch
<1> QED
  BY <1>8, <1>9, <1>10, <1>11, <1>12, <1>13, <1>14, <1>15, <1>16 DEF ToolsNext, Program, Reading

\* A call cannot go round for ever: whatever its program prints, however little of it is
\* read at a time, and wherever its page redirects, every step but those of a process it
\* left behind takes from what the call has before it, and adds nothing.
THEOREM CallsGoOnward ==
    ToolsSpec => /\ []LeftNat
                 /\ [][phase \notin {"idle", "over"} => Aside \/ LeftFalls]_toolVars
<1>1. CallInv /\ LeftNat /\ LeftNat' /\ [ToolsNext]_toolVars =>
          [phase \notin {"idle", "over"} => Aside \/ LeftFalls]_toolVars
  BY CallOnwardStep
<1> QED BY <1>1, LeftIsNat, CallInvariant, PTL DEF ToolsSpec
=============================================================================
