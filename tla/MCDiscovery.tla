----------------------------- MODULE MCDiscovery -----------------------------
(* Instances of Discovery for TLC. *)
EXTENDS Discovery

CONSTANTS m

\* The header of the second version lacks a field.
MCFull == {<<m, 1>>}
=============================================================================
