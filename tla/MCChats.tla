------------------------------ MODULE MCChats -------------------------------
(* Instances of Chats for TLC. *)
EXTENDS Chats

CONSTANTS c1, c2, t1, t2

\* The app is restarted once; a stray may be launched beside it.
MCMaxRuns == [app |-> 2, stray |-> 1]
=============================================================================
