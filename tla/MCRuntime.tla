----------------------------- MODULE MCRuntime ------------------------------
(* Instances of Runtime for TLC. *)
EXTENDS Runtime

CONSTANTS l1, l2, l3, p1, p2, p3
=============================================================================
