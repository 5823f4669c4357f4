------------------------------ MODULE MCUpdate ------------------------------
(* Instances of Update for TLC. *)
EXTENDS Update, TLC

CONSTANTS u1, u2, u3

TaskSymmetry == Permutations(Tasks)
=============================================================================
