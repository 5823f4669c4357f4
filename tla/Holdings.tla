------------------------------ MODULE Holdings ------------------------------
(***************************************************************************)
(* What the user is promised of the models in the library, whoever         *)
(* downloads, adopts, relocates or deletes: a model enters only whole, and *)
(* in one version; it then stays in the library, and whole on the disk,    *)
(* wherever its file is moved and whatever fails, until its deletion is    *)
(* asked for.                                                              *)
(***************************************************************************)
CONSTANTS Models, Contents

VARIABLES
    shelf,    \* what is in the library: models, each with its contents
    whole,    \* what is whole on the disk, in the library or not
    doomed    \* what is being deleted

vars == <<shelf, whole, doomed>>

Init == shelf = {} /\ whole = {} /\ doomed = {}

\* Files come and go, but not those of what is in the library and nobody deletes.
Shuffle ==
    /\ \A g \in shelf \ doomed : g \in whole => g \in whole'
    /\ UNCHANGED <<shelf, doomed>>

Admit(g) ==
    /\ g \in whole /\ \A other \in shelf : other[1] # g[1]
    /\ shelf' = shelf \cup {g}
    /\ UNCHANGED <<whole, doomed>>

Doom(g) ==
    /\ g \in shelf /\ doomed' = doomed \cup {g}
    /\ UNCHANGED <<shelf, whole>>

\* Deletions fail, or are cut off by the end of the program.
Spare ==
    /\ doomed' \subseteq doomed
    /\ UNCHANGED <<shelf, whole>>

Drop(g) ==
    /\ g \in doomed
    /\ shelf' = shelf \ {g} /\ doomed' = doomed \ {g}
    /\ UNCHANGED whole

Next ==
    \/ Shuffle \/ Spare
    \/ \E g \in Models \X Contents : Admit(g) \/ Doom(g) \/ Drop(g)

Spec == Init /\ [][Next]_vars
=============================================================================
