------------------------------ MODULE MCAgent -------------------------------
(* Instances of Agent for TLC. *)
EXTENDS Agent

CONSTANTS t1, t2

\* A chat in its own workspace, and one in an attached folder.
MCRequests ==
    {[tools |-> TRUE, auto |-> FALSE, own |-> TRUE],
     [tools |-> TRUE, auto |-> FALSE, own |-> FALSE]}

MCRounds == {<<"code">>, <<"write", "nameless">>}
=============================================================================
