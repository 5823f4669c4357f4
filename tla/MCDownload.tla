----------------------------- MODULE MCDownload -----------------------------
(* Instances of Download for TLC: one id, or two ids of the same target. *)
EXTENDS Download, TLC

CONSTANTS d1, d2, p1, t1, t2, t3

Single     == d1 :> p1
SameTarget == (d1 :> p1) @@ (d2 :> p1)

TaskSymmetry == Permutations(Tasks)

\* Ids of one target are interchangeable.
TaskAndIdSymmetry == TaskSymmetry \cup Permutations(Ids)
=============================================================================
