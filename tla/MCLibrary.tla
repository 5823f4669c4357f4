------------------------------ MODULE MCLibrary ------------------------------
(* Instances of Library for TLC. *)
EXTENDS Library, TLC

CONSTANTS a, b, c, i1, i2

\* Two directories on one volume, and the default on the volume of Ollama's store.
MCVolume == [d \in {a, b, c} |-> IF d = b THEN 2 ELSE 1]

\* A row id is a uuid.
MCIdsAlike == Permutations(Ids)

\* What follows a tangle is outside every property but the types.
MCUntangled == ~tangled
=============================================================================
