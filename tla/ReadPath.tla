------------------------------ MODULE ReadPath ------------------------------
(***************************************************************************)
(* Which file a model means that asks for one: resolve_read_path of        *)
(* src/src-tauri/src/tools/mod.rs.  A name is a sequence of letters; the   *)
(* names of the folder are those of its files, subfolders left out.        *)
(***************************************************************************)
EXTENDS Naturals, FiniteSets, SequencesExt

CONSTANTS
    Lower,      \* the lower case of a letter
    None

Lowered(name) == [i \in DOMAIN name |-> Lower[name[i]]]

Within(want, name) ==
    \E i \in 1..Len(name) : i + Len(want) - 1 <= Len(name)
                            /\ SubSeq(name, i, i + Len(want) - 1) = want

\* The three ways a name may match, each wider than the one before.
Same(want, names) == {n \in names : Lowered(n) = Lowered(want)}
Ending(want, names) == {n \in names : IsSuffix(Lowered(want), Lowered(n))}
Holding(want, names) == {n \in names : Within(Lowered(want), Lowered(n))}

\* (Mutant: the first that matches.)
UniqueAny(matches) == IF matches # {} THEN CHOOSE n \in matches : TRUE ELSE None

Unique(matches) == IF Cardinality(matches) = 1 THEN CHOOSE n \in matches : TRUE ELSE None

Resolve(want, names) ==
    LET same == Unique(Same(want, names))
        ending == Unique(Ending(want, names))
    IN IF want \in names THEN want
       ELSE IF same # None THEN same
       ELSE IF ending # None THEN ending
       ELSE Unique(Holding(want, names))

\* The file of that very name, or else the only one of the narrowest kind of match there
\* is: two candidates are never settled by a wider match, and never by their order.
Meant(want, names) ==
    LET kinds == <<names \cap {want}, Same(want, names), Ending(want, names),
                   Holding(want, names)>>
        some == {k \in 1..4 : kinds[k] # {}}
    IN IF some = {} THEN {}
       ELSE LET best == kinds[CHOOSE k \in some : \A l \in some : k <= l]
            IN IF Cardinality(best) = 1 THEN best ELSE {}
=============================================================================
