--------------------------- MODULE VerifiedShelf ---------------------------
(***************************************************************************)
(* What the download manager promises the library ("Nothing enters your    *)
(* library without matching its pinned hash"): files come and go, and      *)
(* change, at target paths; a path enters the library only while the file  *)
(* there is the whole pinned model; and from then on that file is left     *)
(* alone.                                                                  *)
(***************************************************************************)
CONSTANT Paths

VARIABLES
    shelf,    \* the paths in the library
    whole     \* the paths whose file is the pinned one

vars == <<shelf, whole>>

Init == shelf = {} /\ whole = {}

\* A transfer makes, completes, spoils or discards a file that is not shelved.
Rewrite(p) ==
    /\ p \notin shelf
    /\ whole' \in {whole \cup {p}, whole \ {p}}
    /\ UNCHANGED shelf

Admit(p) ==
    /\ p \in whole
    /\ shelf' = shelf \cup {p}
    /\ UNCHANGED whole

Next == \E p \in Paths : Rewrite(p) \/ Admit(p)

Spec == Init /\ [][Next]_vars
=============================================================================
