--------------------------- MODULE LibraryProofs ----------------------------
(***************************************************************************)
(* Theorems about Library, for any directories, volumes, models, rows and  *)
(* handlers.                                                               *)
(***************************************************************************)
EXTENDS Library, TLAPS

----------------------------------------------------------------------------
(* Types: what a handler has in hand has the type its next step needs.     *)

StoreTypes == path \in [Ids -> Paths \cup {None}] /\ sha \in [Ids -> Digests \cup {None}]

DiskTypes ==
    /\ file \in [Paths -> Data \cup {None}] /\ linked \subseteq Paths
    /\ offer \in [Models -> Digests] /\ blob \in [Tags -> Data]
    /\ libdir \in Dirs /\ tangled \in BOOLEAN

MoverTypes ==
    /\ move \in [Movers -> {"idle", "loop", "copying", "copied", "moved"}]
    /\ dest \in [Movers -> Dirs \cup {None}]
    /\ todo \in [Movers -> [Ids -> Paths \cup {None}]]
    /\ cur \in [Movers -> Ids \cup {None}] /\ held \in [Movers -> Data \cup {None}]
    /\ moves \in Nat
    /\ \A r \in Movers :
         /\ move[r] # "idle" => dest[r] \in Dirs
         /\ move[r] \in {"copying", "copied", "moved"} =>
              cur[r] \in Ids /\ todo[r][cur[r]] \in Paths
         /\ move[r] = "copying" => held[r] \in Data

AdopterTypes ==
    /\ adopt \in [Adopters -> {"idle", "gate", "copying", "insert"}]
    /\ tag \in [Adopters -> Tags \cup {None}] /\ into \in [Adopters -> Dirs \cup {None}]
    /\ digest \in [Adopters -> Digests \cup {None}]
    /\ \A a \in Adopters :
         adopt[a] # "idle" => tag[a] \in Tags /\ into[a] \in Dirs /\ digest[a] \in Digests

DeleterTypes ==
    /\ del \in [Deleters -> {"idle", "read", "removed"}]
    /\ id \in [Deleters -> Ids \cup {None}] /\ at \in [Deleters -> Paths \cup {None}]
    /\ \A x \in Deleters : del[x] # "idle" => id[x] \in Ids /\ at[x] \in Paths

DownloadTypes ==
    /\ drive \in [Quants -> {"none", "transfer", "landed"}]
    /\ target \in [Quants -> Paths \cup {None}] /\ pinned \in [Quants -> Digests \cup {None}]
    /\ \A q \in Quants : drive[q] # "none" => target[q] \in Paths /\ pinned[q] \in Digests

Types ==
    StoreTypes /\ DiskTypes /\ MoverTypes /\ AdopterTypes /\ DeleterTypes /\ DownloadTypes

LEMMA TypeParts == Types => TypeOK
BY DEF Types, TypeOK, StoreTypes, DiskTypes, MoverTypes, AdopterTypes, DeleterTypes, DownloadTypes

LEMMA PathOf == ASSUME NEW d \in Dirs, NEW p \in Paths PROVE <<d, p[2]>> \in Paths
BY DEF Paths

LEMMA TagPath == ASSUME NEW d \in Dirs, NEW m \in Models PROVE <<d, m>> \in Paths
BY DEF Paths

LEMMA DataParts == Digests \subseteq Data /\ Partial \in Data /\ Tags \subseteq Models /\ Quants \subseteq Models
BY DEF Data, Models

\* What a relocation has at hand is a path.
LEMMA ToPath ==
    ASSUME MoverTypes, NEW r \in Movers, NEW i \in Ids, move[r] # "idle", todo[r][i] \in Paths
    PROVE  To(r, i) \in Paths
BY PathOf DEF MoverTypes, To

LEMMA DestPath ==
    ASSUME AdopterTypes, NEW a \in Adopters, adopt[a] # "idle"
    PROVE  Dest(a) \in Paths
BY TagPath, DataParts DEF AdopterTypes, Dest

LEMMA StoreStep == ASSUME Types, [Next]_vars PROVE StoreTypes'
<1> USE DEF Types
<1>1. ASSUME NEW r \in Movers, RelocateRow(r) PROVE StoreTypes'
  <2>1. To(r, cur[r]) \in Paths
    BY <1>1, ToPath DEF RelocateRow, MoverTypes
  <2> QED BY <1>1, <2>1 DEF RelocateRow, StoreTypes
<1>2. ASSUME NEW i \in Ids, NEW p \in Paths, NEW h \in Digests, Insert(i, p, h) PROVE StoreTypes'
  BY <1>2 DEF Insert, StoreTypes
<1>3. ASSUME NEW a \in Adopters, Adopt(a) PROVE StoreTypes'
  <2>1. ASSUME NEW i \in Ids, AdoptInserts(a, i) PROVE StoreTypes'
    BY <2>1, <1>2, DestPath DEF AdoptInserts, AdopterTypes
  <2> QED BY <1>3, <2>1 DEF Adopt, AdoptStart, AdoptRefused, AdoptFinds, AdoptLinks, AdoptCopies,
        AdoptCopied, AdoptFails, store, StoreTypes
<1>4. ASSUME NEW r \in Movers, Relocate(r) PROVE StoreTypes'
  BY <1>4, <1>1 DEF Relocate, RelocateList, RelocateSkips, RelocateRenames, RelocateCopies,
     RelocateCopied, RelocateFails, RelocateRemoves, RelocateEnds, store, StoreTypes
<1>5. ASSUME NEW x \in Deleters, Delete(x) PROVE StoreTypes'
  BY <1>5 DEF Delete, DeleteReads, DeleteFile, DeleteFails, DeleteRow, store, StoreTypes
<1>6. ASSUME NEW q \in Quants, Download(q) PROVE StoreTypes'
  <2>1. ASSUME NEW i \in Ids, DownloadInstalls(q, i) PROVE StoreTypes'
    BY <2>1, <1>2 DEF DownloadInstalls, DownloadTypes
  <2> QED BY <1>6, <2>1 DEF Download, DownloadStarts, DownloadLands, DownloadStops, store, StoreTypes
<1>7. CASE (\E t \in Tags, h \in Digests : Pull(t, h)) \/ Crash \/ UNCHANGED vars
  BY <1>7 DEF Pull, Crash, vars, store, StoreTypes
<1> QED BY <1>3, <1>4, <1>5, <1>6, <1>7 DEF Next, Step

LEMMA WriteTypes ==
    ASSUME DiskTypes, NEW p \in Paths, NEW data \in Data, Write(p, data)
    PROVE  /\ file' \in [Paths -> Data \cup {None}] /\ linked' \subseteq Paths
           /\ blob' \in [Tags -> Data]
BY DEF Write, DiskTypes

LEMMA RenameTypes ==
    ASSUME DiskTypes, NEW p \in Paths, NEW q \in Paths, Rename(p, q)
    PROVE  /\ file' \in [Paths -> Data \cup {None}] /\ linked' \subseteq Paths
           /\ blob' \in [Tags -> Data]
BY DEF Rename, DiskTypes, disk

LEMMA RemoveTypes ==
    ASSUME DiskTypes, NEW p \in Paths, Remove(p)
    PROVE  /\ file' \in [Paths -> Data \cup {None}] /\ linked' \subseteq Paths
           /\ blob' \in [Tags -> Data]
BY DEF Remove, DiskTypes

\* Everything on the disk but the history variable.
Volumes ==
    /\ file \in [Paths -> Data \cup {None}] /\ linked \subseteq Paths
    /\ offer \in [Models -> Digests] /\ blob \in [Tags -> Data]
    /\ libdir \in Dirs

LEMMA DiskStep == ASSUME Types, [Next]_vars PROVE DiskTypes'
<1> USE DEF Types
<1>0. Volumes
  BY DEF Volumes, DiskTypes
<1>1. ASSUME NEW r \in Movers, Relocate(r) PROVE Volumes'
  <2>1. ASSUME NEW i \in Ids, RelocateRenames(r, i) PROVE Volumes'
    <3>1. todo[r][i] \in Paths /\ To(r, i) \in Paths
      BY <2>1, ToPath DEF RelocateRenames, Reaches, MoverTypes
    <3> QED BY <1>0, <2>1, <3>1, RenameTypes DEF RelocateRenames, Volumes
  <2>2. ASSUME NEW i \in Ids, RelocateCopies(r, i) PROVE Volumes'
    <3>1. todo[r][i] \in Paths /\ To(r, i) \in Paths
      BY <2>2, ToPath DEF RelocateCopies, Reaches, MoverTypes
    <3> QED BY <1>0, <2>2, <3>1, WriteTypes, DataParts DEF RelocateCopies, Volumes
  <2>3. ASSUME RelocateCopied(r) PROVE Volumes'
    <3>1. To(r, cur[r]) \in Paths /\ held[r] \in Data
      BY <2>3, ToPath DEF RelocateCopied, MoverTypes
    <3>2. CASE UNCHANGED disk
      BY <1>0, <2>3, <3>2 DEF RelocateCopied, Volumes, disk
    <3>3. CASE Write(To(r, cur[r]), held[r])
      BY <1>0, <2>3, <3>1, <3>3, WriteTypes DEF RelocateCopied, Volumes
    <3> QED BY <2>3, <3>2, <3>3 DEF RelocateCopied
  <2>4. ASSUME RelocateRemoves(r) PROVE Volumes'
    <3>1. todo[r][cur[r]] \in Paths
      BY <2>4 DEF RelocateRemoves, MoverTypes
    <3>2. CASE UNCHANGED disk
      BY <1>0, <2>4, <3>2 DEF RelocateRemoves, Volumes, disk
    <3>3. CASE Remove(todo[r][cur[r]])
      BY <1>0, <2>4, <3>1, <3>3, RemoveTypes DEF RelocateRemoves, Volumes
    <3> QED BY <2>4, <3>2, <3>3 DEF RelocateRemoves
  <2>5. ASSUME RelocateEnds(r) PROVE Volumes'
    BY <1>0, <2>5 DEF RelocateEnds, MoverTypes, Volumes, disk
  <2> QED BY <1>0, <1>1, <2>1, <2>2, <2>3, <2>4, <2>5 DEF Relocate, RelocateList, RelocateSkips,
        RelocateFails, RelocateRow, disk, Volumes
<1>2. ASSUME NEW a \in Adopters, Adopt(a) PROVE Volumes'
  <2>1. ASSUME AdoptLinks(a) PROVE Volumes'
    <3>1. Dest(a) \in Paths /\ tag[a] \in Tags
      BY <2>1, DestPath DEF AdoptLinks, AdopterTypes
    <3> QED BY <1>0, <2>1, <3>1 DEF AdoptLinks, Volumes
  <2>2. ASSUME AdoptCopies(a) PROVE Volumes'
    <3>1. Dest(a) \in Paths
      BY <2>2, DestPath DEF AdoptCopies
    <3> QED BY <1>0, <2>2, <3>1, WriteTypes, DataParts DEF AdoptCopies, Volumes
  <2>3. ASSUME AdoptCopied(a) PROVE Volumes'
    <3>1. Dest(a) \in Paths /\ digest[a] \in Data
      BY <2>3, DestPath, DataParts DEF AdoptCopied, AdopterTypes
    <3>2. CASE UNCHANGED disk
      BY <1>0, <2>3, <3>2 DEF AdoptCopied, Volumes, disk
    <3>3. CASE Write(Dest(a), digest[a])
      BY <1>0, <2>3, <3>1, <3>3, WriteTypes DEF AdoptCopied, Volumes
    <3> QED BY <2>3, <3>2, <3>3 DEF AdoptCopied
  <2> QED BY <1>0, <1>2, <2>1, <2>2, <2>3 DEF Adopt, AdoptStart, AdoptRefused, AdoptFinds,
        AdoptFails, AdoptInserts, disk, Volumes
<1>3. ASSUME NEW x \in Deleters, Delete(x) PROVE Volumes'
  <2>1. ASSUME DeleteFile(x) PROVE Volumes'
    BY <1>0, <2>1, RemoveTypes DEF DeleteFile, DeleterTypes, Volumes
  <2> QED BY <1>0, <1>3, <2>1 DEF Delete, DeleteReads, DeleteFails, DeleteRow, disk, Volumes
<1>4. ASSUME NEW q \in Quants, Download(q) PROVE Volumes'
  <2>1. ASSUME DownloadLands(q) PROVE Volumes'
    BY <1>0, <2>1, WriteTypes, DataParts DEF DownloadLands, DownloadTypes, Volumes
  <2>2. ASSUME DownloadStops(q) PROVE Volumes'
    BY <1>0, <2>2, WriteTypes, DataParts DEF DownloadStops, DownloadTypes, Volumes
  <2> QED BY <1>0, <1>4, <2>1, <2>2 DEF Download, DownloadStarts, DownloadInstalls, disk, Volumes
<1>5. ASSUME NEW t \in Tags, NEW h \in Digests, Pull(t, h) PROVE Volumes'
  BY <1>0, <1>5, DataParts DEF Pull, Volumes
<1>6. ASSUME Crash \/ UNCHANGED vars PROVE Volumes'
  BY <1>0, <1>6 DEF Crash, vars, disk, Volumes
<1>7. Volumes'
  BY <1>1, <1>2, <1>3, <1>4, <1>5, <1>6 DEF Next, Step
<1>8. tangled' \in BOOLEAN
  <2>1. CASE UNCHANGED vars
    BY <2>1 DEF vars, DiskTypes
  <2>2. CASE tangled' = (tangled \/ Tangle')
    BY <2>2, Zenon
  <2> QED BY <2>1, <2>2 DEF Next
<1> QED BY <1>7, <1>8 DEF Volumes, DiskTypes

LEMMA MoverStep == ASSUME Types, [Next]_vars PROVE MoverTypes'
<1> USE DEF Types
<1>1. ASSUME NEW r \in Movers, Forget(r) PROVE MoverTypes'
  BY <1>1 DEF Forget, MoverTypes
<1>2. ASSUME NEW r \in Movers, Relocate(r) PROVE MoverTypes'
  <2>1. ASSUME NEW d \in Dirs, RelocateList(r, d) PROVE MoverTypes'
    BY <2>1 DEF RelocateList, MoverTypes, StoreTypes
  <2>2. ASSUME NEW i \in Ids, RelocateSkips(r, i) PROVE MoverTypes'
    BY <2>2 DEF RelocateSkips, Reaches, MoverTypes
  <2>3. ASSUME NEW i \in Ids, RelocateRenames(r, i) PROVE MoverTypes'
    BY <2>3 DEF RelocateRenames, Reaches, MoverTypes
  <2>4. ASSUME NEW i \in Ids, RelocateCopies(r, i) PROVE MoverTypes'
    <3>1. todo[r][i] \in Paths /\ file[todo[r][i]] \in Data
      BY <2>4 DEF RelocateCopies, Reaches, MoverTypes, DiskTypes
    <3> QED BY <2>4, <3>1 DEF RelocateCopies, Reaches, MoverTypes
  <2>5. ASSUME RelocateCopied(r) PROVE MoverTypes'
    BY <2>5 DEF RelocateCopied, MoverTypes
  <2>6. ASSUME RelocateRemoves(r) PROVE MoverTypes'
    BY <2>6 DEF RelocateRemoves, MoverTypes
  <2>7. ASSUME RelocateRow(r) PROVE MoverTypes'
    <3>1. \/ Forget(r)
          \/ /\ move' = [move EXCEPT ![r] = "loop"]
             /\ todo' = [todo EXCEPT ![r][cur[r]] = None]
             /\ cur' = [cur EXCEPT ![r] = None]
             /\ UNCHANGED <<dest, held, moves>>
      BY <2>7, Zenon DEF RelocateRow
    <3>2. cur[r] \in Ids /\ dest[r] \in Dirs
      BY <2>7 DEF RelocateRow, MoverTypes
    <3>3. ASSUME move' = [move EXCEPT ![r] = "loop"],
                 todo' = [todo EXCEPT ![r][cur[r]] = None],
                 cur' = [cur EXCEPT ![r] = None],
                 UNCHANGED <<dest, held, moves>>
          PROVE  MoverTypes'
      BY <3>2, <3>3 DEF MoverTypes
    <3> QED BY <1>1, <3>1, <3>3
  <2> QED BY <1>1, <1>2, <2>1, <2>2, <2>3, <2>4, <2>5, <2>6, <2>7
        DEF Relocate, RelocateFails, RelocateEnds
<1>3. ASSUME NEW a \in Adopters, Adopt(a) PROVE MoverTypes'
  BY <1>3 DEF Adopt, AdoptStart, AdoptRefused, AdoptFinds, AdoptLinks, AdoptCopies, AdoptCopied,
     AdoptFails, AdoptInserts, mover, MoverTypes
<1>4. ASSUME NEW x \in Deleters, Delete(x) PROVE MoverTypes'
  BY <1>4 DEF Delete, DeleteReads, DeleteFile, DeleteFails, DeleteRow, mover, MoverTypes
<1>5. ASSUME NEW q \in Quants, Download(q) PROVE MoverTypes'
  BY <1>5 DEF Download, DownloadStarts, DownloadLands, DownloadStops, DownloadInstalls, EndDownload, mover, MoverTypes
<1>6. CASE (\E t \in Tags, h \in Digests : Pull(t, h)) \/ UNCHANGED vars
  BY <1>6 DEF Pull, vars, mover, MoverTypes
<1>7. CASE Crash
  BY <1>7 DEF Crash, MoverTypes
<1> QED BY <1>2, <1>3, <1>4, <1>5, <1>6, <1>7 DEF Next, Step

LEMMA AdopterStep == ASSUME Types, [Next]_vars PROVE AdopterTypes'
<1> USE DEF Types
<1>1. ASSUME NEW a \in Adopters, Leave(a) PROVE AdopterTypes'
  BY <1>1 DEF Leave, AdopterTypes
<1>2. ASSUME NEW a \in Adopters, Adopt(a) PROVE AdopterTypes'
  <2>1. ASSUME NEW t \in Tags, AdoptStart(a, t) PROVE AdopterTypes'
    BY <2>1, DataParts DEF AdoptStart, AdopterTypes, DiskTypes
  <2>2. ASSUME AdoptFinds(a) \/ AdoptLinks(a) \/ AdoptCopies(a) \/ AdoptCopied(a) PROVE AdopterTypes'
    BY <2>2 DEF AdoptFinds, AdoptLinks, AdoptCopies, AdoptCopied, AdopterTypes
  <2> QED BY <1>1, <1>2, <2>1, <2>2 DEF Adopt, AdoptRefused, AdoptFails, AdoptInserts
<1>3. ASSUME NEW r \in Movers, Relocate(r) PROVE AdopterTypes'
  BY <1>3 DEF Relocate, RelocateList, RelocateSkips, RelocateRenames, RelocateCopies,
     RelocateCopied, RelocateFails, RelocateRemoves, RelocateRow, RelocateEnds, adopter, AdopterTypes
<1>4. ASSUME NEW x \in Deleters, Delete(x) PROVE AdopterTypes'
  BY <1>4 DEF Delete, DeleteReads, DeleteFile, DeleteFails, DeleteRow, adopter, AdopterTypes
<1>5. ASSUME NEW q \in Quants, Download(q) PROVE AdopterTypes'
  BY <1>5 DEF Download, DownloadStarts, DownloadLands, DownloadStops, DownloadInstalls, EndDownload, adopter, AdopterTypes
<1>6. CASE (\E t \in Tags, h \in Digests : Pull(t, h)) \/ Crash \/ UNCHANGED vars
  BY <1>6 DEF Pull, Crash, vars, adopter, AdopterTypes
<1> QED BY <1>2, <1>3, <1>4, <1>5, <1>6 DEF Next, Step

LEMMA DeleterStep == ASSUME Types, [Next]_vars PROVE DeleterTypes'
<1> USE DEF Types
<1>1. ASSUME NEW x \in Deleters, Delete(x) PROVE DeleterTypes'
  BY <1>1 DEF Delete, DeleteReads, DeleteFile, DeleteFails, DeleteRow, Row, DeleterTypes, StoreTypes
<1>2. ASSUME NEW r \in Movers, Relocate(r) PROVE DeleterTypes'
  BY <1>2 DEF Relocate, RelocateList, RelocateSkips, RelocateRenames, RelocateCopies,
     RelocateCopied, RelocateFails, RelocateRemoves, RelocateRow, RelocateEnds, deleter, DeleterTypes
<1>3. ASSUME NEW a \in Adopters, Adopt(a) PROVE DeleterTypes'
  BY <1>3 DEF Adopt, AdoptStart, AdoptRefused, AdoptFinds, AdoptLinks, AdoptCopies, AdoptCopied,
     AdoptFails, AdoptInserts, deleter, DeleterTypes
<1>4. ASSUME NEW q \in Quants, Download(q) PROVE DeleterTypes'
  BY <1>4 DEF Download, DownloadStarts, DownloadLands, DownloadStops, DownloadInstalls, EndDownload, deleter, DeleterTypes
<1>5. CASE (\E t \in Tags, h \in Digests : Pull(t, h)) \/ Crash \/ UNCHANGED vars
  BY <1>5 DEF Pull, Crash, vars, deleter, DeleterTypes
<1> QED BY <1>1, <1>2, <1>3, <1>4, <1>5 DEF Next, Step

LEMMA DownloadStep == ASSUME Types, [Next]_vars PROVE DownloadTypes'
<1> USE DEF Types
<1>1. ASSUME NEW q \in Quants, Download(q) PROVE DownloadTypes'
  <2>1. <<libdir, q>> \in Paths /\ offer[q] \in Digests
    BY TagPath, DataParts DEF DiskTypes
  <2> QED BY <1>1, <2>1 DEF Download, DownloadStarts, DownloadLands, DownloadStops, DownloadInstalls, EndDownload, DownloadTypes
<1>2. ASSUME NEW r \in Movers, Relocate(r) PROVE DownloadTypes'
  BY <1>2 DEF Relocate, RelocateList, RelocateSkips, RelocateRenames, RelocateCopies,
     RelocateCopied, RelocateFails, RelocateRemoves, RelocateRow, RelocateEnds, download, DownloadTypes
<1>3. ASSUME NEW a \in Adopters, Adopt(a) PROVE DownloadTypes'
  BY <1>3 DEF Adopt, AdoptStart, AdoptRefused, AdoptFinds, AdoptLinks, AdoptCopies, AdoptCopied,
     AdoptFails, AdoptInserts, download, DownloadTypes
<1>4. ASSUME NEW x \in Deleters, Delete(x) PROVE DownloadTypes'
  BY <1>4 DEF Delete, DeleteReads, DeleteFile, DeleteFails, DeleteRow, download, DownloadTypes
<1>5. CASE (\E t \in Tags, h \in Digests : Pull(t, h)) \/ UNCHANGED vars
  BY <1>5 DEF Pull, vars, download, DownloadTypes
<1>6. CASE Crash
  BY <1>6 DEF Crash, DownloadTypes
<1> QED BY <1>1, <1>2, <1>3, <1>4, <1>5, <1>6 DEF Next, Step

LEMMA InitTypes == Init => Types
<1> SUFFICES ASSUME Init PROVE Types
  OBVIOUS
<1> USE LibraryAssumption, DataParts DEF Init
<1>1. StoreTypes
  BY DEF StoreTypes
<1>2. DiskTypes
  BY DEF DiskTypes
<1>3. MoverTypes
  BY DEF MoverTypes
<1>4. AdopterTypes /\ DeleterTypes /\ DownloadTypes
  BY DEF AdopterTypes, DeleterTypes, DownloadTypes
<1> QED BY <1>1, <1>2, <1>3, <1>4 DEF Types

LEMMA TypesAlways == Spec => []Types
<1>1. ASSUME Types, [Next]_vars PROVE Types'
  BY <1>1, StoreStep, DiskStep, MoverStep, AdopterStep, DeleterStep, DownloadStep DEF Types
<1> QED BY InitTypes, <1>1, PTL DEF Spec

\* Every variable keeps its type (library/mod.rs, the adoption of ollama/mod.rs,
\* and the end of a download), for any directories, models, rows and handlers.
THEOREM LibraryTyped == Spec => []TypeOK
BY TypesAlways, TypeParts, PTL

----------------------------------------------------------------------------
(* Rows stand for their files.                                             *)
(*                                                                         *)
(* RowsSound is not inductive: that a row may be moved to a copy, or        *)
(* inserted, needs that the file at hand is the model of the row.  Holds    *)
(* says so for each handler, Apart that nobody else is at that model.       *)

LinksHold == \A p \in linked : p[1] \in Near /\ p[2] \in Tags

RowsHold == \A i \in Ids : Row(i) => sha[i] \in Digests /\ file[path[i]] \in {None, sha[i]}

MoversHold ==
    \A r \in Movers :
      /\ \A i \in Ids : todo[r][i] # None => path[i] = todo[r][i]
      /\ move[r] = "copying" =>
           /\ held[r] = sha[cur[r]]
           /\ Volume[todo[r][cur[r]][1]] # Volume[dest[r]]
      /\ move[r] \in {"copied", "moved"} => file[To(r, cur[r])] \in {None, sha[cur[r]]}

AdoptersHold ==
    \A a \in Adopters :
      /\ adopt[a] = "copying" => into[a] \notin Near /\ file[Dest(a)] \in {None, Partial}
      /\ adopt[a] = "insert" => file[Dest(a)] \in {None, digest[a]}

DeletersHold == \A x \in Deleters : del[x] # "idle" => path[id[x]] = at[x]

DrivesHold ==
    \A q \in Quants :
      /\ drive[q] # "none" => target[q][2] = q /\ \A i \in Ids : Row(i) => path[i][2] # q
      /\ drive[q] = "landed" => file[target[q]] \in {None, pinned[q]}

Holds == RowsHold /\ MoversHold /\ AdoptersHold /\ DeletersHold /\ DrivesHold

RowsApart == \A i, j \in Ids : i # j /\ Row(i) /\ Row(j) => path[i][2] # path[j][2]

MoversApart ==
    \A r \in Movers, i \in Ids : todo[r][i] # None =>
      /\ \A s \in Movers, j \in Ids : s # r /\ todo[s][j] # None => todo[s][j][2] # todo[r][i][2]
      /\ \A a \in Adopters : adopt[a] # "idle" => tag[a] # todo[r][i][2]
      /\ \A x \in Deleters : del[x] # "idle" => at[x][2] # todo[r][i][2]
      /\ \A q \in Quants : drive[q] # "none" => q # todo[r][i][2]

AdoptersApart ==
    \A a \in Adopters : adopt[a] # "idle" =>
      /\ \A b \in Adopters : b # a /\ adopt[b] # "idle" => tag[b] # tag[a]
      /\ \A x \in Deleters : del[x] # "idle" => at[x][2] # tag[a]
      /\ \A i \in Ids : path[i] = Dest(a) => file[path[i]] = sha[i]

DeletersApart ==
    \A x, y \in Deleters : x # y /\ del[x] # "idle" /\ del[y] # "idle" => at[x][2] # at[y][2]

Apart == RowsApart /\ MoversApart /\ AdoptersApart /\ DeletersApart

LEMMA PathParts == ASSUME NEW p \in Paths PROVE p = <<p[1], p[2]>> /\ p[1] \in Dirs /\ p[2] \in Models
BY DEF Paths

LEMMA ToParts == ASSUME NEW r, NEW i PROVE To(r, i)[1] = dest[r] /\ To(r, i)[2] = todo[r][i][2]
BY DEF To

LEMMA DestParts == ASSUME NEW a PROVE Dest(a)[1] = into[a] /\ Dest(a)[2] = tag[a]
BY DEF Dest

LEMMA Kinds ==
    /\ \A r \in Movers, a \in Adopters : r # a
    /\ \A r \in Movers, x \in Deleters : r # x
    /\ \A r \in Movers, q \in Quants : r # q
    /\ \A a \in Adopters, x \in Deleters : a # x
    /\ \A t \in Tags, q \in Quants : t # q
    /\ None \notin Paths /\ None \notin Ids /\ None \notin Data /\ Partial \notin Digests
BY LibraryAssumption

LEMMA TangleApart == ASSUME Types, ~Tangle PROVE Apart
<1> USE DEF Types
<1>1. ASSUME NEW m \in Models, NEW o \in Hands(m), NEW p \in Hands(m) PROVE o = p
  BY <1>1 DEF Tangle
<1>2. ASSUME NEW r \in Movers, NEW i \in Ids, todo[r][i] # None
      PROVE  todo[r][i][2] \in Models /\ r \in Hands(todo[r][i][2])
  <2>1. todo[r][i] \in Paths
    BY <1>2 DEF MoverTypes
  <2> QED BY <2>1, PathParts DEF Hands
<1>3. ASSUME NEW a \in Adopters, adopt[a] # "idle" PROVE tag[a] \in Models /\ a \in Hands(tag[a])
  BY <1>3, DataParts DEF AdopterTypes, Hands
<1>4. ASSUME NEW x \in Deleters, del[x] # "idle" PROVE at[x][2] \in Models /\ x \in Hands(at[x][2])
  <2>1. at[x] \in Paths
    BY <1>4 DEF DeleterTypes
  <2> QED BY <2>1, PathParts DEF Hands
<1>5. ASSUME NEW q \in Quants, drive[q] # "none" PROVE q \in Models /\ q \in Hands(q)
  BY <1>5, DataParts DEF Hands
<1>6. RowsApart
  BY DEF Tangle, RowsApart
<1>7. MoversApart
  BY <1>1, <1>2, <1>3, <1>4, <1>5, Kinds DEF MoversApart
<1>8. AdoptersApart
  <2>1. ASSUME NEW a \in Adopters, adopt[a] # "idle", NEW i \in Ids, path[i] = Dest(a)
        PROVE  file[path[i]] = sha[i]
    BY <2>1 DEF Tangle, Dest
  <2> QED BY <1>1, <1>3, <1>4, <2>1, Kinds DEF AdoptersApart
<1>9. DeletersApart
  BY <1>1, <1>4 DEF DeletersApart
<1> QED BY <1>6, <1>7, <1>8, <1>9 DEF Apart

LEMMA LinksStep == ASSUME Types, LinksHold, [Next]_vars PROVE LinksHold'
<1> USE DEF Types, LinksHold
<1>1. ASSUME NEW r \in Movers, Relocate(r) PROVE LinksHold'
  <2>1. ASSUME NEW i \in Ids, RelocateRenames(r, i) PROVE LinksHold'
    <3>1. todo[r][i] \in Paths /\ dest[r] \in Dirs /\ Volume[todo[r][i][1]] = Volume[dest[r]]
      BY <2>1 DEF RelocateRenames, Reaches, MoverTypes
    <3>2. todo[r][i] \in linked => To(r, i)[1] \in Near /\ To(r, i)[2] \in Tags
      BY <3>1, ToParts, PathParts, LibraryAssumption
    <3>3. \A p \in linked' : p \in linked \/ (todo[r][i] \in linked /\ p = To(r, i))
      BY <2>1 DEF RelocateRenames, Rename, disk
    <3> QED BY <3>2, <3>3
  <2> QED BY <1>1, <2>1 DEF Relocate, RelocateList, RelocateSkips, RelocateCopies, RelocateCopied,
        RelocateFails, RelocateRemoves, RelocateRow, RelocateEnds, disk, Write, Remove
<1>2. ASSUME NEW a \in Adopters, Adopt(a) PROVE LinksHold'
  <2>1. ASSUME AdoptLinks(a) PROVE LinksHold'
    BY <2>1, DestParts DEF AdoptLinks, AdopterTypes
  <2> QED BY <1>2, <2>1 DEF Adopt, AdoptStart, AdoptRefused, AdoptFinds, AdoptCopies, AdoptCopied,
        AdoptFails, AdoptInserts, disk, Write
<1>3. ASSUME NEW x \in Deleters, Delete(x) PROVE LinksHold'
  BY <1>3 DEF Delete, DeleteReads, DeleteFile, DeleteFails, DeleteRow, disk, Remove
<1>4. ASSUME NEW q \in Quants, Download(q) PROVE LinksHold'
  BY <1>4 DEF Download, DownloadStarts, DownloadLands, DownloadStops, DownloadInstalls, disk, Write
<1>5. CASE (\E t \in Tags, h \in Digests : Pull(t, h)) \/ Crash \/ UNCHANGED vars
  BY <1>5 DEF Pull, Crash, vars, disk
<1> QED BY <1>1, <1>2, <1>3, <1>4, <1>5 DEF Next, Step

\* A write, a removal or a rename changes the files of one model only.
Elsewhere(m) == \A p \in Paths : p[2] # m => file'[p] = file[p]

LEMMA WriteElsewhere ==
    ASSUME NEW p \in Paths, NEW data, Write(p, data)
    PROVE  Elsewhere(p[2]) /\ file'[p] = data
BY DEF Write, Elsewhere

LEMMA WriteHere ==
    ASSUME NEW p \in Paths, NEW data, Write(p, data), NEW q \in Paths, q # p,
           p \notin linked \/ q \notin linked
    PROVE  file'[q] = file[q]
BY DEF Write

LEMMA RemoveElsewhere ==
    ASSUME DiskTypes, NEW p \in Paths, Remove(p)
    PROVE  Elsewhere(p[2]) /\ \A q \in Paths : file'[q] \in {None, file[q]}
BY DEF Remove, Elsewhere, DiskTypes

LEMMA RenameElsewhere ==
    ASSUME DiskTypes, NEW p \in Paths, NEW q \in Paths, p[2] = q[2], Rename(p, q)
    PROVE  Elsewhere(p[2]) /\ file'[q] = file[p]
BY DEF Rename, Elsewhere, DiskTypes, disk

\* What a step that leaves a part's own variables alone must keep of the rest.
LEMMA RowsFrame ==
    ASSUME RowsHold, UNCHANGED store,
           \A i \in Ids : Row(i) => file'[path[i]] \in {None, sha[i]}
    PROVE  RowsHold'
BY DEF RowsHold, Row, store

LEMMA MoversFrame ==
    ASSUME Types, MoversHold, UNCHANGED <<mover, store>>, NEW m, Elsewhere(m),
           \A r \in Movers, i \in Ids : todo[r][i] # None => todo[r][i][2] # m
    PROVE  MoversHold'
<1> USE DEF Types
<1>1. ASSUME NEW r \in Movers, move[r] \in {"copied", "moved"}
      PROVE  file'[To(r, cur[r])] = file[To(r, cur[r])]
  <2>1. cur[r] \in Ids /\ todo[r][cur[r]] \in Paths /\ todo[r][cur[r]] # None
    BY <1>1, Kinds DEF MoverTypes
  <2>2. To(r, cur[r]) \in Paths /\ To(r, cur[r])[2] # m
    BY <1>1, <2>1, ToPath, ToParts
  <2> QED BY <2>2 DEF Elsewhere
<1> QED BY <1>1 DEF MoversHold, mover, store, To

LEMMA AdoptersFrame ==
    ASSUME Types, AdoptersHold, UNCHANGED adopter, NEW m, Elsewhere(m),
           \A a \in Adopters : adopt[a] # "idle" => tag[a] # m
    PROVE  AdoptersHold'
<1> USE DEF Types
<1>1. ASSUME NEW a \in Adopters, adopt[a] # "idle" PROVE file'[Dest(a)] = file[Dest(a)]
  BY <1>1, DestPath, DestParts DEF Elsewhere
<1> QED BY <1>1 DEF AdoptersHold, adopter, Dest

LEMMA DrivesFrame ==
    ASSUME Types, DrivesHold, UNCHANGED <<download, store>>, NEW m, Elsewhere(m),
           \A q \in Quants : drive[q] # "none" => q # m
    PROVE  DrivesHold'
<1> USE DEF Types
<1>1. ASSUME NEW q \in Quants, drive[q] = "landed" PROVE file'[target[q]] = file[target[q]]
  BY <1>1 DEF DrivesHold, DownloadTypes, Elsewhere
<1> QED BY <1>1 DEF DrivesHold, Row, download, store

LEMMA DeletersFrame == ASSUME DeletersHold, UNCHANGED <<deleter, store>> PROVE DeletersHold'
BY DEF DeletersHold, deleter, store

\* A file that goes harms nobody.
LEMMA ShrinkFrame ==
    ASSUME Types, Holds, UNCHANGED store, \A p \in Paths : file'[p] \in {None, file[p]}
    PROVE  /\ RowsHold'
           /\ UNCHANGED mover => MoversHold'
           /\ UNCHANGED adopter => AdoptersHold'
           /\ UNCHANGED download => DrivesHold'
<1> USE DEF Types, Holds
<1>1. RowsHold'
  BY RowsFrame DEF RowsHold, Row, StoreTypes
<1>2. ASSUME UNCHANGED mover PROVE MoversHold'
  <2>1. ASSUME NEW r \in Movers, move[r] \in {"copied", "moved"}
        PROVE  file'[To(r, cur[r])] \in {None, file[To(r, cur[r])]}
    <3>1. cur[r] \in Ids /\ todo[r][cur[r]] \in Paths
      BY <2>1 DEF MoverTypes
    <3> QED BY <2>1, <3>1, ToPath
  <2> QED BY <1>2, <2>1 DEF MoversHold, mover, store, To
<1>3. ASSUME UNCHANGED adopter PROVE AdoptersHold'
  <2>1. ASSUME NEW a \in Adopters, adopt[a] # "idle" PROVE file'[Dest(a)] \in {None, file[Dest(a)]}
    BY <2>1, DestPath
  <2> QED BY <1>3, <2>1 DEF AdoptersHold, adopter, Dest
<1>4. ASSUME UNCHANGED download PROVE DrivesHold'
  BY <1>4 DEF DrivesHold, DownloadTypes, Row, download, store
<1> QED BY <1>1, <1>2, <1>3, <1>4

LEMMA SameFrame ==
    ASSUME Types, Holds, UNCHANGED <<store, file>>
    PROVE  /\ RowsHold'
           /\ UNCHANGED mover => MoversHold'
           /\ UNCHANGED adopter => AdoptersHold'
           /\ UNCHANGED download => DrivesHold'
BY ShrinkFrame

----------------------------------------------------------------------------
(* Relocation.                                                             *)

LEMMA RenameHolds ==
    ASSUME Types, Holds, Apart, NEW r \in Movers, NEW i \in Ids, RelocateRenames(r, i)
    PROVE  Holds'
<1> DEFINE p == todo[r][i]
           t == To(r, i)
<1> USE DEF Types, Holds, Apart
<1>1. p \in Paths /\ p # None /\ t \in Paths /\ t[2] = p[2] /\ path[i] = p
  BY ToPath, ToParts, Kinds DEF RelocateRenames, Reaches, MoverTypes, MoversHold
<1>2. Elsewhere(p[2]) /\ file'[t] = file[p] /\ file[p] = sha[i] /\ file'[p] \in {None, sha[i]}
  <2>1. Elsewhere(p[2]) /\ file'[t] = file[p]
    BY <1>1, RenameElsewhere DEF RelocateRenames
  <2>2. file[p] = sha[i]
    BY <1>1 DEF RelocateRenames, RowsHold, Row
  <2> QED BY <1>1, <2>1, <2>2 DEF RelocateRenames, Rename, DiskTypes, disk
<1>3. UNCHANGED <<store, adopter, deleter, download>>
  BY DEF RelocateRenames
<1>4. RowsHold'
  <2>1. ASSUME NEW j \in Ids, Row(j), j # i PROVE file'[path[j]] = file[path[j]]
    BY <1>1, <1>2, <2>1 DEF RowsApart, Row, Elsewhere, StoreTypes
  <2> QED BY <1>1, <1>2, <1>3, <2>1, RowsFrame DEF RowsHold
<1>5. MoversHold'
  <2>1. ASSUME NEW s \in Movers, s # r, move[s] \in {"copied", "moved"}
        PROVE  file'[To(s, cur[s])] = file[To(s, cur[s])]
    <3>1. cur[s] \in Ids /\ todo[s][cur[s]] \in Paths /\ todo[s][cur[s]] # None
      BY <2>1, Kinds DEF MoverTypes
    <3>2. To(s, cur[s]) \in Paths /\ To(s, cur[s])[2] # p[2]
      BY <1>1, <2>1, <3>1, ToPath, ToParts DEF MoversApart
    <3> QED BY <1>2, <3>2 DEF Elsewhere
  <2>2. ASSUME NEW s \in Movers, s # r, move[s] \in {"copied", "moved"}
        PROVE  file'[To(s, cur[s])'] \in {None, sha'[cur'[s]]}
    BY <1>3, <2>1, <2>2 DEF MoversHold, To, RelocateRenames, MoverTypes, store
  <2>3. file'[To(r, cur[r])'] \in {None, sha'[cur'[r]]}
    BY <1>2, <1>3 DEF To, RelocateRenames, MoverTypes, store
  <2> QED BY <1>3, <2>2, <2>3 DEF MoversHold, RelocateRenames, MoverTypes, store
<1>6. AdoptersHold' /\ DrivesHold' /\ DeletersHold'
  BY <1>1, <1>2, <1>3, AdoptersFrame, DrivesFrame, DeletersFrame DEF MoversApart
<1> QED BY <1>4, <1>5, <1>6

LEMMA CopyHolds ==
    ASSUME Types, LinksHold, Holds, Apart, NEW r \in Movers, NEW i \in Ids,
           todo[r][i] \in Paths, move[r] # "idle", NEW data,
           Volume[todo[r][i][1]] # Volume[dest[r]], Write(To(r, i), data), UNCHANGED store
    PROVE  /\ RowsHold' /\ file'[To(r, i)] = data /\ file'[todo[r][i]] = file[todo[r][i]]
           /\ UNCHANGED adopter => AdoptersHold'
           /\ UNCHANGED download => DrivesHold'
           /\ Elsewhere(todo[r][i][2])
<1> DEFINE p == todo[r][i]
           t == To(r, i)
<1> USE DEF Types, Holds, Apart
<1>1. p # None /\ t \in Paths /\ t[2] = p[2] /\ t[1] = dest[r] /\ path[i] = p
  BY ToPath, ToParts, Kinds DEF MoversHold
<1>2. Elsewhere(p[2]) /\ file'[t] = data
  BY <1>1, WriteElsewhere
<1>3. t \notin linked \/ p \notin linked
  BY <1>1, PathParts, LibraryAssumption DEF LinksHold
<1>4. file'[p] = file[p]
  BY <1>1, <1>3, WriteHere
<1>5. RowsHold'
  <2>1. ASSUME NEW j \in Ids, Row(j), j # i PROVE file'[path[j]] = file[path[j]]
    BY <1>1, <1>2, <2>1 DEF RowsApart, Row, Elsewhere, StoreTypes
  <2> QED BY <1>1, <1>4, <2>1, RowsFrame DEF RowsHold
<1>6. UNCHANGED adopter => AdoptersHold'
  BY <1>1, <1>2, AdoptersFrame DEF MoversApart
<1>7. UNCHANGED download => DrivesHold'
  BY <1>1, <1>2, DrivesFrame DEF MoversApart
<1> QED BY <1>2, <1>4, <1>5, <1>6, <1>7

\* The other relocations hold through a step of one that is at another model.
LEMMA OthersHold ==
    ASSUME Types, Holds, Apart, NEW r \in Movers, NEW i \in Ids, todo[r][i] \in Paths,
           Elsewhere(todo[r][i][2]), NEW s \in Movers, s # r,
           move[s] \in {"copied", "moved"}
    PROVE  file'[To(s, cur[s])] \in {None, sha[cur[s]]}
<1> USE DEF Types, Holds, Apart
<1>1. cur[s] \in Ids /\ todo[s][cur[s]] \in Paths /\ todo[s][cur[s]] # None /\ todo[r][i] # None
  BY Kinds DEF MoverTypes
<1>2. To(s, cur[s]) \in Paths /\ To(s, cur[s])[2] # todo[r][i][2]
  BY <1>1, ToPath, ToParts DEF MoversApart
<1> QED BY <1>2 DEF Elsewhere, MoversHold

LEMMA RelocateCopiesHolds ==
    ASSUME Types, LinksHold, Holds, Apart, NEW r \in Movers, NEW i \in Ids, RelocateCopies(r, i)
    PROVE  Holds'
<1> USE DEF Types, Holds
<1>1. todo[r][i] \in Paths /\ move[r] # "idle" /\ path[i] = todo[r][i] /\ path[i] # None
  BY Kinds DEF RelocateCopies, Reaches, MoverTypes, MoversHold
<1>2. UNCHANGED <<store, adopter, deleter, download>>
  BY DEF RelocateCopies
<1>3. RowsHold' /\ AdoptersHold' /\ DrivesHold' /\ Elsewhere(todo[r][i][2])
  BY <1>1, <1>2, CopyHolds DEF RelocateCopies
<1>4. held'[r] = sha[i] /\ Volume[todo[r][i][1]] # Volume[dest[r]]
  BY <1>1 DEF RelocateCopies, RowsHold, Row, MoverTypes
<1>5. ASSUME NEW s \in Movers, s # r, move[s] \in {"copied", "moved"}
      PROVE  file'[To(s, cur[s])'] \in {None, sha'[cur'[s]]}
  BY <1>1, <1>2, <1>3, <1>5, OthersHold DEF To, RelocateCopies, MoverTypes, store
<1>6. MoversHold'
  BY <1>2, <1>4, <1>5 DEF MoversHold, RelocateCopies, MoverTypes, store
<1> QED BY <1>2, <1>3, <1>6, DeletersFrame

LEMMA RelocateCopiedHolds ==
    ASSUME Types, LinksHold, Holds, Apart, NEW r \in Movers, RelocateCopied(r)
    PROVE  Holds'
<1> DEFINE i == cur[r]
<1> USE DEF Types, Holds
<1>1. /\ i \in Ids /\ todo[r][i] \in Paths /\ move[r] # "idle"
      /\ held[r] = sha[i] /\ Volume[todo[r][i][1]] # Volume[dest[r]]
  BY DEF RelocateCopied, MoverTypes, MoversHold
<1>2. UNCHANGED <<store, adopter, deleter, download>>
  BY DEF RelocateCopied
<1>3. /\ RowsHold' /\ AdoptersHold' /\ DrivesHold'
      /\ file'[To(r, i)] \in {None, sha[i]} /\ Elsewhere(todo[r][i][2])
  <2>1. CASE UNCHANGED disk /\ file[To(r, i)] = None
    BY <1>2, <2>1, SameFrame DEF disk, Elsewhere
  <2>2. CASE Write(To(r, i), held[r])
    BY <1>1, <1>2, <2>2, CopyHolds
  <2> QED BY <2>1, <2>2 DEF RelocateCopied
<1>4. ASSUME NEW s \in Movers, s # r, move[s] \in {"copied", "moved"}
      PROVE  file'[To(s, cur[s])'] \in {None, sha'[cur'[s]]}
  BY <1>1, <1>2, <1>3, <1>4, OthersHold DEF To, RelocateCopied, MoverTypes, store
<1>5. file'[To(r, cur[r])'] \in {None, sha'[cur'[r]]}
  BY <1>2, <1>3 DEF To, RelocateCopied, store
<1>6. MoversHold'
  BY <1>2, <1>4, <1>5 DEF MoversHold, RelocateCopied, MoverTypes, store
<1> QED BY <1>2, <1>3, <1>6, DeletersFrame

LEMMA RelocateRemovesHolds ==
    ASSUME Types, Holds, NEW r \in Movers, RelocateRemoves(r)
    PROVE  Holds'
<1> USE DEF Types, Holds
<1>1. \A p \in Paths : file'[p] \in {None, file[p]}
  <2>1. todo[r][cur[r]] \in Paths
    BY DEF RelocateRemoves, MoverTypes
  <2> QED BY <2>1, RemoveElsewhere DEF RelocateRemoves, disk
<1>2. UNCHANGED <<store, adopter, deleter, download>>
  BY DEF RelocateRemoves
<1>3. ASSUME NEW s \in Movers, move[s] \in {"copied", "moved"}
      PROVE  file'[To(s, cur[s])] \in {None, sha[cur[s]]}
  <2>1. cur[s] \in Ids /\ todo[s][cur[s]] \in Paths
    BY <1>3 DEF MoverTypes
  <2> QED BY <1>1, <1>3, <2>1, ToPath DEF MoversHold
<1>4. MoversHold'
  BY <1>2, <1>3 DEF MoversHold, RelocateRemoves, MoverTypes, store, To
<1> QED BY <1>1, <1>2, <1>4, ShrinkFrame, DeletersFrame

\* A relocation that forgets its list changes no row and no file.
LEMMA ForgetHolds ==
    ASSUME Types, Holds, NEW r \in Movers, Forget(r), UNCHANGED <<store, file, adopter, deleter, download>>
    PROVE  Holds'
<1> USE DEF Types, Holds
<1>1. RowsHold' /\ AdoptersHold' /\ DrivesHold' /\ DeletersHold'
  BY SameFrame, DeletersFrame
<1>2. MoversHold'
  <2>1. ASSUME NEW s \in Movers, NEW i \in Ids, todo'[s][i] # None PROVE path'[i] = todo'[s][i]
    BY <2>1 DEF Forget, MoversHold, MoverTypes, store
  <2>2. ASSUME NEW s \in Movers, s # r
        PROVE  move'[s] = move[s] /\ todo'[s] = todo[s] /\ cur'[s] = cur[s] /\ held'[s] = held[s]
                 /\ dest'[s] = dest[s]
    BY <2>2 DEF Forget, MoverTypes
  <2>3. move'[r] = "idle"
    BY DEF Forget, MoverTypes
  <2> QED BY <2>1, <2>2, <2>3 DEF MoversHold, To, store
<1> QED BY <1>1, <1>2

LEMMA RelocateRowHolds ==
    ASSUME Types, Holds, Apart, NEW r \in Movers, RelocateRow(r)
    PROVE  Holds'
<1> DEFINE i == cur[r]
<1> USE DEF Types, Holds, Apart
<1>1. /\ i \in Ids /\ todo[r][i] \in Paths /\ todo[r][i] # None /\ path[i] = todo[r][i]
      /\ To(r, i) \in Paths /\ file[To(r, i)] \in {None, sha[i]}
      /\ To(r, i)[2] = path[i][2]
  BY ToPath, ToParts, Kinds DEF RelocateRow, MoverTypes, MoversHold
<1>2. UNCHANGED <<sha, file, adopter, deleter, download>>
  BY DEF RelocateRow, disk
<1>3. CASE Forget(r) /\ UNCHANGED path
  BY <1>2, <1>3, ForgetHolds DEF store
<1>4. CASE /\ path' = [path EXCEPT ![i] = IF @ = None THEN None ELSE To(r, i)]
           /\ move' = [move EXCEPT ![r] = "loop"]
           /\ todo' = [todo EXCEPT ![r][i] = None]
           /\ cur' = [cur EXCEPT ![r] = None]
           /\ UNCHANGED <<dest, held, moves>>
  <2>1. path'[i] = To(r, i) /\ \A j \in Ids : j # i => path'[j] = path[j]
    BY <1>1, <1>4, Kinds DEF StoreTypes
  <2>2. RowsHold'
    BY <1>1, <1>2, <2>1 DEF RowsHold, Row
  <2>3. ASSUME NEW s \in Movers, NEW j \in Ids, todo'[s][j] # None PROVE path'[j] = todo'[s][j]
    <3>1. todo'[s][j] = todo[s][j] /\ (s # r \/ j # i)
      BY <1>4, <2>3 DEF MoverTypes
    <3>2. path[j] = todo[s][j]
      BY <2>3, <3>1 DEF MoversHold
    <3>3. CASE j # i
      BY <2>1, <3>1, <3>2, <3>3
    <3>4. CASE j = i /\ s # r
      BY <1>1, <2>3, <3>1, <3>2, <3>4 DEF MoversApart
    <3> QED BY <3>1, <3>3, <3>4
  <2>4. ASSUME NEW s \in Movers, s # r
        PROVE  move'[s] = move[s] /\ cur'[s] = cur[s] /\ todo'[s] = todo[s]
    BY <1>4, <2>4 DEF MoverTypes
  <2>5. move'[r] = "loop"
    BY <1>4 DEF MoverTypes
  <2>6. MoversHold'
    BY <1>2, <1>4, <2>3, <2>4, <2>5 DEF MoversHold, To
  <2>7. DeletersHold'
    <3>1. ASSUME NEW x \in Deleters, del[x] # "idle" PROVE id[x] \in Ids /\ id[x] # i
      BY <1>1, <3>1 DEF MoversApart, DeletersHold, DeleterTypes
    <3> QED BY <1>2, <2>1, <3>1 DEF DeletersHold, deleter
  <2>8. DrivesHold'
    BY <1>1, <1>2, <2>1, Kinds DEF DrivesHold, Row, download
  <2>9. AdoptersHold'
    BY <1>2 DEF AdoptersHold, adopter, Dest
  <2> QED BY <2>2, <2>6, <2>7, <2>8, <2>9
<1> QED
  <2>1. (Forget(r) /\ UNCHANGED path)
         \/ /\ path' = [path EXCEPT ![i] = IF @ = None THEN None ELSE To(r, i)]
            /\ move' = [move EXCEPT ![r] = "loop"]
            /\ todo' = [todo EXCEPT ![r][i] = None]
            /\ cur' = [cur EXCEPT ![r] = None]
            /\ UNCHANGED <<dest, held, moves>>
    BY Zenon DEF RelocateRow
  <2> QED BY <1>3, <1>4, <2>1

\* The steps of a relocation that touch neither rows nor files.
LEMMA RelocateQuietHolds ==
    ASSUME Types, Holds, NEW r \in Movers,
           \/ \E d \in Dirs : RelocateList(r, d)
           \/ \E i \in Ids : RelocateSkips(r, i)
           \/ RelocateFails(r) \/ RelocateEnds(r)
    PROVE  Holds'
<1> USE DEF Types, Holds
<1>1. ASSUME NEW d \in Dirs, RelocateList(r, d) PROVE Holds'
  <2>1. RowsHold' /\ AdoptersHold' /\ DrivesHold' /\ DeletersHold'
    BY <1>1, SameFrame, DeletersFrame DEF RelocateList, disk
  <2>2. MoversHold'
    BY <1>1 DEF RelocateList, MoversHold, MoverTypes, To, disk, store
  <2> QED BY <2>1, <2>2
<1>2. ASSUME NEW i \in Ids, RelocateSkips(r, i) PROVE Holds'
  <2>1. RowsHold' /\ AdoptersHold' /\ DrivesHold' /\ DeletersHold'
    BY <1>2, SameFrame, DeletersFrame DEF RelocateSkips, disk
  <2>2. ASSUME NEW s \in Movers, NEW j \in Ids, todo'[s][j] # None PROVE todo'[s][j] = todo[s][j]
    BY <1>2, <2>2 DEF RelocateSkips, MoverTypes
  <2>3. ASSUME NEW s \in Movers, move[s] # "loop" PROVE todo'[s] = todo[s]
    BY <1>2, <2>3 DEF RelocateSkips, Reaches, MoverTypes
  <2>4. UNCHANGED <<path, sha, file, move, dest, cur, held>>
    BY <1>2 DEF RelocateSkips, disk, store
  <2>5. ASSUME NEW s \in Movers, NEW j \in Ids, todo'[s][j] # None PROVE path'[j] = todo'[s][j]
    BY <2>2, <2>4, <2>5 DEF MoversHold
  <2>6. ASSUME NEW s \in Movers, move'[s] \in {"copied", "moved"}
        PROVE  file'[To(s, cur[s])'] \in {None, sha'[cur'[s]]}
    BY <2>3, <2>4, <2>6 DEF MoversHold, To
  <2>7. ASSUME NEW s \in Movers, move'[s] = "copying"
        PROVE  held'[s] = sha'[cur'[s]] /\ Volume[todo'[s][cur'[s]][1]] # Volume[dest'[s]]
    BY <2>3, <2>4, <2>7 DEF MoversHold
  <2>8. MoversHold'
    BY <2>5, <2>6, <2>7 DEF MoversHold
  <2> QED BY <2>1, <2>8
<1>3. CASE RelocateFails(r)
  BY <1>3, ForgetHolds DEF RelocateFails, disk
<1>4. CASE RelocateEnds(r)
  BY <1>4, ForgetHolds DEF RelocateEnds, disk
<1> QED BY <1>1, <1>2, <1>3, <1>4

----------------------------------------------------------------------------
(* Adoption.                                                               *)

\* A step of an adoption that writes its own path keeps all but its own promise.
LEMMA AdoptFrame ==
    ASSUME Types, Holds, Apart, NEW a \in Adopters, adopt[a] # "idle", file[Dest(a)] \notin Digests,
           UNCHANGED <<store, mover, deleter, download>>, NEW data,
           file'[Dest(a)] = data, \A p \in Paths : p # Dest(a) => file'[p] = file[p],
           \A b \in Adopters : b # a =>
             adopt'[b] = adopt[b] /\ tag'[b] = tag[b] /\ into'[b] = into[b] /\ digest'[b] = digest[b]
    PROVE  /\ RowsHold' /\ MoversHold' /\ DeletersHold' /\ DrivesHold'
           /\ \A b \in Adopters : b # a =>
                /\ adopt'[b] = "copying" => into'[b] \notin Near /\ file'[Dest(b)'] \in {None, Partial}
                /\ adopt'[b] = "insert" => file'[Dest(b)'] \in {None, digest'[b]}
<1> USE DEF Types, Holds, Apart
<1>1. Dest(a) \in Paths /\ Dest(a)[2] = tag[a] /\ tag[a] \in Tags
  BY DestPath, DestParts DEF AdopterTypes
<1>2. Elsewhere(tag[a])
  BY <1>1 DEF Elsewhere
<1>3. RowsHold'
  <2>1. ASSUME NEW i \in Ids, Row(i) PROVE path[i] # Dest(a) /\ path[i] \in Paths
    BY <2>1 DEF AdoptersApart, RowsHold, Row, StoreTypes
  <2> QED BY <2>1, RowsFrame DEF RowsHold
<1>4. MoversHold'
  BY <1>2, MoversFrame DEF MoversApart
<1>5. DrivesHold'
  BY <1>1, <1>2, Kinds, DrivesFrame
<1>6. ASSUME NEW b \in Adopters, b # a, adopt[b] # "idle" PROVE file'[Dest(b)'] = file[Dest(b)]
  <2>1. Dest(b)' = Dest(b) /\ Dest(b) \in Paths /\ Dest(b)[2] = tag[b] /\ tag[b] # tag[a]
    BY <1>6, DestPath, DestParts DEF Dest, AdoptersApart
  <2> QED BY <1>2, <2>1 DEF Elsewhere
<1>7. ASSUME NEW b \in Adopters, b # a
      PROVE  /\ adopt'[b] = "copying" => into'[b] \notin Near /\ file'[Dest(b)'] \in {None, Partial}
             /\ adopt'[b] = "insert" => file'[Dest(b)'] \in {None, digest'[b]}
  BY <1>6, <1>7 DEF AdoptersHold
<1> QED BY <1>3, <1>4, <1>5, <1>7, DeletersFrame

LEMMA AdoptLinksHolds ==
    ASSUME Types, Holds, Apart, NEW a \in Adopters, AdoptLinks(a) PROVE Holds'
<1> USE DEF Types
<1>1. Dest(a) \in Paths /\ adopt[a] = "gate" /\ file[Dest(a)] \notin Digests
  BY DestPath, Kinds, DataParts DEF AdoptLinks
<1>2. file'[Dest(a)] = digest[a] /\ \A p \in Paths : p # Dest(a) => file'[p] = file[p]
  BY <1>1 DEF AdoptLinks, Genuine, DiskTypes
<1>3. UNCHANGED <<store, mover, deleter, download, tag, into, digest>>
      /\ adopt'[a] = "insert" /\ \A b \in Adopters : b # a => adopt'[b] = adopt[b]
  BY DEF AdoptLinks, AdopterTypes
<1>4. /\ RowsHold' /\ MoversHold' /\ DeletersHold' /\ DrivesHold'
      /\ \A b \in Adopters : b # a =>
           /\ adopt'[b] = "copying" => into'[b] \notin Near /\ file'[Dest(b)'] \in {None, Partial}
           /\ adopt'[b] = "insert" => file'[Dest(b)'] \in {None, digest'[b]}
  BY <1>1, <1>2, <1>3, AdoptFrame
<1>5. AdoptersHold'
  BY <1>2, <1>3, <1>4 DEF AdoptersHold, Dest
<1> QED BY <1>4, <1>5 DEF Holds

LEMMA AdoptCopiesHolds ==
    ASSUME Types, LinksHold, Holds, Apart, NEW a \in Adopters, AdoptCopies(a) PROVE Holds'
<1> USE DEF Types
<1>1. Dest(a) \in Paths /\ adopt[a] = "gate" /\ file[Dest(a)] \notin Digests /\ Dest(a) \notin linked
  BY DestPath, DestParts, Kinds, DataParts DEF AdoptCopies, LinksHold
<1>2. file'[Dest(a)] = Partial /\ \A p \in Paths : p # Dest(a) => file'[p] = file[p]
  BY <1>1 DEF AdoptCopies, Write
<1>3. UNCHANGED <<store, mover, deleter, download, tag, into, digest>> /\ into[a] \notin Near
      /\ adopt'[a] = "copying" /\ \A b \in Adopters : b # a => adopt'[b] = adopt[b]
  BY DEF AdoptCopies, AdopterTypes
<1>4. /\ RowsHold' /\ MoversHold' /\ DeletersHold' /\ DrivesHold'
      /\ \A b \in Adopters : b # a =>
           /\ adopt'[b] = "copying" => into'[b] \notin Near /\ file'[Dest(b)'] \in {None, Partial}
           /\ adopt'[b] = "insert" => file'[Dest(b)'] \in {None, digest'[b]}
  BY <1>1, <1>2, <1>3, AdoptFrame
<1>5. AdoptersHold'
  BY <1>2, <1>3, <1>4 DEF AdoptersHold, Dest
<1> QED BY <1>4, <1>5 DEF Holds

LEMMA AdoptCopiedHolds ==
    ASSUME Types, LinksHold, Holds, Apart, NEW a \in Adopters, AdoptCopied(a) PROVE Holds'
<1> USE DEF Types
<1>1. /\ Dest(a) \in Paths /\ adopt[a] = "copying" /\ file[Dest(a)] \in {None, Partial}
      /\ file[Dest(a)] \notin Digests /\ Dest(a) \notin linked
  BY DestPath, DestParts, Kinds, DataParts DEF AdoptCopied, LinksHold, Holds, AdoptersHold
<1>2. file'[Dest(a)] \in {None, digest[a]} /\ \A p \in Paths : p # Dest(a) => file'[p] = file[p]
  <2>1. CASE file[Dest(a)] = None /\ UNCHANGED disk
    BY <2>1 DEF disk
  <2>2. CASE Write(Dest(a), digest[a])
    BY <1>1, <2>2 DEF Write
  <2> QED BY <2>1, <2>2 DEF AdoptCopied
<1>3. UNCHANGED <<store, mover, deleter, download, tag, into, digest>>
      /\ adopt'[a] = "insert" /\ \A b \in Adopters : b # a => adopt'[b] = adopt[b]
  BY DEF AdoptCopied, AdopterTypes
<1>4. /\ RowsHold' /\ MoversHold' /\ DeletersHold' /\ DrivesHold'
      /\ \A b \in Adopters : b # a =>
           /\ adopt'[b] = "copying" => into'[b] \notin Near /\ file'[Dest(b)'] \in {None, Partial}
           /\ adopt'[b] = "insert" => file'[Dest(b)'] \in {None, digest'[b]}
  BY <1>1, <1>2, <1>3, AdoptFrame
<1>5. AdoptersHold'
  BY <1>2, <1>3, <1>4 DEF AdoptersHold, Dest
<1> QED BY <1>4, <1>5 DEF Holds

\* The steps of an adoption that touch neither rows nor files.
LEMMA AdoptQuietHolds ==
    ASSUME Types, Holds, NEW a \in Adopters,
           \/ \E t \in Tags : AdoptStart(a, t)
           \/ AdoptRefused(a) \/ AdoptFinds(a) \/ AdoptFails(a)
    PROVE  Holds'
<1> USE DEF Types
<1>1. UNCHANGED <<store, file, mover, deleter, download>>
  <2>1. ASSUME NEW t \in Tags, AdoptStart(a, t) PROVE UNCHANGED <<store, file, mover, deleter, download>>
    BY <2>1 DEF AdoptStart, disk
  <2> QED BY <2>1 DEF AdoptRefused, AdoptFinds, AdoptFails, disk
<1>2. RowsHold' /\ MoversHold' /\ DrivesHold' /\ DeletersHold'
  BY <1>1, SameFrame, DeletersFrame DEF Holds
<1>3. ASSUME NEW b \in Adopters, b # a
      PROVE  adopt'[b] = adopt[b] /\ tag'[b] = tag[b] /\ into'[b] = into[b] /\ digest'[b] = digest[b]
  <2>1. ASSUME NEW t \in Tags, AdoptStart(a, t)
        PROVE  adopt'[b] = adopt[b] /\ tag'[b] = tag[b] /\ into'[b] = into[b] /\ digest'[b] = digest[b]
    BY <1>3, <2>1 DEF AdoptStart, AdopterTypes
  <2>2. CASE AdoptRefused(a) \/ AdoptFails(a)
    BY <1>3, <2>2 DEF AdoptRefused, AdoptFails, Leave, AdopterTypes
  <2>3. CASE AdoptFinds(a)
    BY <1>3, <2>3 DEF AdoptFinds, AdopterTypes
  <2> QED BY <2>1, <2>2, <2>3
<1>4. /\ adopt'[a] # "copying"
      /\ adopt'[a] = "insert" => file'[Dest(a)'] \in {None, digest'[a]}
  <2>1. ASSUME NEW t \in Tags, AdoptStart(a, t) PROVE adopt'[a] = "gate"
    BY <2>1 DEF AdoptStart, AdopterTypes
  <2>2. CASE AdoptRefused(a) \/ AdoptFails(a)
    BY <2>2 DEF AdoptRefused, AdoptFails, Leave, AdopterTypes
  <2>3. CASE AdoptFinds(a)
    BY <2>3 DEF AdoptFinds, AdopterTypes, Dest, disk
  <2> QED BY <2>1, <2>2, <2>3
<1>5. AdoptersHold'
  BY <1>1, <1>3, <1>4 DEF Holds, AdoptersHold, Dest
<1> QED BY <1>2, <1>5 DEF Holds

\* A row inserted at a path whose file is its model, by a handler alone at the model.
LEMMA InsertHolds ==
    ASSUME Types, Holds, NEW i \in Ids, NEW p \in Paths, NEW h \in Digests, Insert(i, p, h),
           file[p] \in {None, h}, UNCHANGED <<file, mover, deleter>>,
           \A r \in Movers, j \in Ids : todo[r][j] # None => j # i /\ todo[r][j] # p,
           \A r \in Movers : cur[r] # i,
           \A x \in Deleters : del[x] # "idle" => id[x] # i /\ at[x] # p
    PROVE  /\ RowsHold' /\ MoversHold' /\ DeletersHold'
           /\ \A j \in Ids : Row(j)' => (Row(j) /\ path'[j] = path[j]) \/ path'[j] = p
<1> USE DEF Types, Holds
<1>1. /\ path'[i] = p /\ sha'[i] = h
      /\ \A j \in Ids : j # i /\ path[j] # p => path'[j] = path[j] /\ sha'[j] = sha[j]
      /\ \A j \in Ids : j # i /\ path[j] = p => path'[j] = None
  BY DEF Insert
<1>2. RowsHold'
  BY <1>1 DEF RowsHold, Row
<1>3. ASSUME NEW r \in Movers, NEW j \in Ids, todo[r][j] # None
      PROVE  path'[j] = todo[r][j] /\ sha'[j] = sha[j]
  BY <1>1, <1>3 DEF MoversHold
<1>4. ASSUME NEW r \in Movers, move[r] \in {"copying", "copied", "moved"}
      PROVE  cur[r] \in Ids /\ todo[r][cur[r]] # None
  BY <1>4, Kinds DEF MoverTypes
<1>5. MoversHold'
  BY <1>3, <1>4 DEF MoversHold, mover, To
<1>6. DeletersHold'
  BY <1>1 DEF DeletersHold, DeleterTypes, deleter
<1>7. \A j \in Ids : Row(j)' => (Row(j) /\ path'[j] = path[j]) \/ path'[j] = p
  BY <1>1 DEF Row
<1> QED BY <1>2, <1>5, <1>6, <1>7

LEMMA AdoptInsertsHolds ==
    ASSUME Types, Holds, Apart, NEW a \in Adopters, NEW i \in Ids, AdoptInserts(a, i) PROVE Holds'
<1> USE DEF Types
<1>1. /\ Dest(a) \in Paths /\ adopt[a] = "insert" /\ Dest(a)[2] = tag[a] /\ digest[a] \in Digests
      /\ tag[a] \in Tags
  BY DestPath, DestParts DEF AdoptInserts, AdopterTypes
<1>2. /\ file[Dest(a)] \in {None, digest[a]} /\ Insert(i, Dest(a), digest[a])
      /\ UNCHANGED <<file, mover, deleter, download>>
  BY <1>1 DEF AdoptInserts, disk, Holds, AdoptersHold
<1>3. \A r \in Movers, j \in Ids : todo[r][j] # None => j # i /\ todo[r][j] # Dest(a)
  BY <1>1 DEF AdoptInserts, Fresh, Apart, MoversApart
<1>4. \A r \in Movers : cur[r] # i
  BY DEF AdoptInserts, Fresh
<1>5. \A x \in Deleters : del[x] # "idle" => id[x] # i /\ at[x] # Dest(a)
  BY <1>1 DEF AdoptInserts, Fresh, Apart, AdoptersApart
<1>6. /\ RowsHold' /\ MoversHold' /\ DeletersHold'
      /\ \A j \in Ids : Row(j)' => (Row(j) /\ path'[j] = path[j]) \/ path'[j] = Dest(a)
  BY <1>1, <1>2, <1>3, <1>4, <1>5, InsertHolds
<1>7. DrivesHold'
  <2>1. ASSUME NEW q \in Quants, drive[q] # "none", NEW j \in Ids, Row(j)' PROVE path'[j][2] # q
    BY <1>1, <1>6, <2>1, Kinds DEF Holds, DrivesHold
  <2> QED BY <1>2, <2>1 DEF Holds, DrivesHold, download
<1>8. ASSUME NEW b \in Adopters, b # a
      PROVE  adopt'[b] = adopt[b] /\ tag'[b] = tag[b] /\ into'[b] = into[b] /\ digest'[b] = digest[b]
  BY <1>8 DEF AdoptInserts, Leave, AdopterTypes
<1>9. adopt'[a] = "idle"
  BY DEF AdoptInserts, Leave, AdopterTypes
<1>10. AdoptersHold'
  BY <1>2, <1>8, <1>9 DEF Holds, AdoptersHold, Dest
<1> QED BY <1>6, <1>7, <1>10 DEF Holds

LEMMA AdoptHolds ==
    ASSUME Types, LinksHold, Holds, Apart, NEW a \in Adopters, Adopt(a) PROVE Holds'
<1>1. ASSUME NEW t \in Tags, AdoptStart(a, t) PROVE Holds'
  BY <1>1, AdoptQuietHolds
<1>2. ASSUME NEW i \in Ids, AdoptInserts(a, i) PROVE Holds'
  BY <1>2, AdoptInsertsHolds
<1> QED BY <1>1, <1>2, AdoptQuietHolds, AdoptLinksHolds, AdoptCopiesHolds, AdoptCopiedHolds DEF Adopt

LEMMA RelocateHolds ==
    ASSUME Types, LinksHold, Holds, Apart, NEW r \in Movers, Relocate(r) PROVE Holds'
<1>1. ASSUME NEW d \in Dirs, RelocateList(r, d) PROVE Holds'
  BY <1>1, RelocateQuietHolds
<1>2. ASSUME NEW i \in Ids, RelocateSkips(r, i) \/ RelocateRenames(r, i) \/ RelocateCopies(r, i)
      PROVE  Holds'
  BY <1>2, RelocateQuietHolds, RenameHolds, RelocateCopiesHolds
<1> QED BY <1>1, <1>2, RelocateQuietHolds, RelocateCopiedHolds, RelocateRemovesHolds,
        RelocateRowHolds DEF Relocate

----------------------------------------------------------------------------
(* Deletion, download and the rest.                                        *)

LEMMA DeleteHolds ==
    ASSUME Types, Holds, Apart, NEW x \in Deleters, Delete(x) PROVE Holds'
<1> USE DEF Types, Holds, Apart
<1>1. ASSUME NEW i \in Ids, DeleteReads(x, i) PROVE Holds'
  <2>1. RowsHold' /\ MoversHold' /\ AdoptersHold' /\ DrivesHold'
    BY <1>1, SameFrame DEF DeleteReads, disk
  <2>2. DeletersHold'
    BY <1>1 DEF DeleteReads, DeletersHold, DeleterTypes, store
  <2> QED BY <2>1, <2>2
<1>2. CASE DeleteFile(x)
  <2>1. at[x] \in Paths
    BY <1>2 DEF DeleteFile, DeleterTypes
  <2>2. \A p \in Paths : file'[p] \in {None, file[p]}
    BY <1>2, <2>1, RemoveElsewhere DEF DeleteFile
  <2>3. RowsHold' /\ MoversHold' /\ AdoptersHold' /\ DrivesHold'
    BY <1>2, <2>2, ShrinkFrame DEF DeleteFile
  <2>4. DeletersHold'
    BY <1>2 DEF DeleteFile, DeletersHold, DeleterTypes, store
  <2> QED BY <2>3, <2>4
<1>3. CASE DeleteFails(x)
  <2>1. RowsHold' /\ MoversHold' /\ AdoptersHold' /\ DrivesHold'
    BY <1>3, SameFrame DEF DeleteFails, disk
  <2>2. DeletersHold'
    BY <1>3 DEF DeleteFails, DeletersHold, DeleterTypes, store
  <2> QED BY <2>1, <2>2
<1>4. CASE DeleteRow(x)
  <2>1. id[x] \in Ids /\ path[id[x]] = at[x] /\ at[x] \in Paths /\ del[x] # "idle"
    BY <1>4 DEF DeleteRow, DeleterTypes, DeletersHold
  <2>2. /\ path'[id[x]] = None
        /\ \A j \in Ids : j # id[x] => path'[j] = path[j] /\ sha'[j] = sha[j]
        /\ UNCHANGED <<file, mover, adopter, download>>
    BY <1>4, <2>1 DEF DeleteRow, StoreTypes, disk
  <2>3. RowsHold'
    BY <2>2 DEF RowsHold, Row
  <2>4. ASSUME NEW r \in Movers, NEW i \in Ids, todo[r][i] # None
        PROVE  path'[i] = todo[r][i] /\ sha'[i] = sha[i]
    <3>1. path[i] = todo[r][i] /\ todo[r][i][2] # at[x][2]
      BY <2>1, <2>4 DEF MoversHold, MoversApart
    <3> QED BY <2>1, <2>2, <3>1
  <2>5. ASSUME NEW r \in Movers, move[r] \in {"copying", "copied", "moved"}
        PROVE  cur[r] \in Ids /\ todo[r][cur[r]] # None
    BY <2>5, Kinds DEF MoverTypes
  <2>6. MoversHold'
    BY <2>2, <2>4, <2>5 DEF MoversHold, mover, To
  <2>7. DeletersHold'
    <3>1. ASSUME NEW y \in Deleters, y # x, del[y] # "idle"
          PROVE  id[y] \in Ids /\ path[id[y]] = at[y] /\ id[y] # id[x]
      BY <2>1, <3>1 DEF DeletersHold, DeletersApart, DeleterTypes
    <3>2. ASSUME NEW y \in Deleters, y # x PROVE del'[y] = del[y] /\ id'[y] = id[y] /\ at'[y] = at[y]
      BY <1>4, <3>2 DEF DeleteRow, DeleterTypes
    <3>3. del'[x] = "idle"
      BY <1>4 DEF DeleteRow, DeleterTypes
    <3> QED BY <2>2, <3>1, <3>2, <3>3 DEF DeletersHold
  <2>8. AdoptersHold'
    BY <2>2 DEF AdoptersHold, adopter, Dest
  <2>9. DrivesHold'
    <3>1. \A j \in Ids : Row(j)' => Row(j) /\ path'[j] = path[j]
      BY <2>2 DEF Row
    <3> QED BY <2>2, <3>1 DEF DrivesHold, download
  <2> QED BY <2>3, <2>6, <2>7, <2>8, <2>9
<1> QED BY <1>1, <1>2, <1>3, <1>4 DEF Delete

\* A download writes the file of a model that no row and no other handler has.
LEMMA WriteHolds ==
    ASSUME Types, LinksHold, Holds, Apart, NEW q \in Quants, drive[q] # "none", NEW data,
           Write(target[q], data), UNCHANGED <<store, mover, adopter, deleter>>
    PROVE  /\ RowsHold' /\ MoversHold' /\ AdoptersHold' /\ DeletersHold'
           /\ file'[target[q]] = data /\ Elsewhere(q)
<1> USE DEF Types, Holds, Apart
<1>1. target[q] \in Paths /\ target[q][2] = q
  BY DEF DownloadTypes, DrivesHold
<1>2. Elsewhere(q) /\ file'[target[q]] = data
  BY <1>1, WriteElsewhere
<1>3. RowsHold'
  <2>1. ASSUME NEW i \in Ids, Row(i) PROVE file'[path[i]] = file[path[i]]
    BY <1>2, <2>1 DEF DrivesHold, StoreTypes, Row, Elsewhere
  <2> QED BY <2>1, RowsFrame DEF RowsHold
<1>4. MoversHold'
  BY <1>2, MoversFrame DEF MoversApart
<1>5. AdoptersHold'
  BY <1>2, AdoptersFrame, Kinds DEF AdopterTypes
<1> QED BY <1>2, <1>3, <1>4, <1>5, DeletersFrame

LEMMA DownloadHolds ==
    ASSUME Types, LinksHold, Holds, Apart, NEW q \in Quants, Download(q) PROVE Holds'
<1> USE DEF Types, Holds, Apart
<1>1. CASE DownloadStarts(q)
  <2>1. RowsHold' /\ MoversHold' /\ AdoptersHold' /\ DeletersHold'
    BY <1>1, SameFrame, DeletersFrame DEF DownloadStarts, disk
  <2>2. DrivesHold'
    BY <1>1 DEF DownloadStarts, DrivesHold, DownloadTypes, Row, disk, store
  <2> QED BY <2>1, <2>2
<1>2. CASE DownloadLands(q) \/ DownloadStops(q)
  <2>1. /\ RowsHold' /\ MoversHold' /\ AdoptersHold' /\ DeletersHold' /\ Elsewhere(q)
        /\ DownloadLands(q) => file'[target[q]] = pinned[q]
    BY <1>2, WriteHolds DEF DownloadLands, DownloadStops
  <2>2. ASSUME NEW p \in Quants, p # q, drive[p] # "none"
        PROVE  file'[target[p]] = file[target[p]]
    BY <2>1, <2>2 DEF DrivesHold, DownloadTypes, Elsewhere
  <2>3. ASSUME NEW p \in Quants, p # q
        PROVE  drive'[p] = drive[p] /\ target'[p] = target[p] /\ pinned'[p] = pinned[p]
    BY <1>2, <2>3 DEF DownloadLands, DownloadStops, EndDownload, DownloadTypes
  <2>4. ASSUME drive'[q] # "none"
        PROVE  /\ target'[q] = target[q] /\ pinned'[q] = pinned[q]
               /\ file'[target[q]] = pinned[q] /\ drive[q] # "none"
    BY <1>2, <2>1, <2>4 DEF DownloadLands, DownloadStops, EndDownload, DownloadTypes
  <2>5. UNCHANGED store
    BY <1>2 DEF DownloadLands, DownloadStops
  <2>6. DrivesHold'
    BY <2>2, <2>3, <2>4, <2>5 DEF DrivesHold, Row, store
  <2> QED BY <2>1, <2>6
<1>3. ASSUME NEW i \in Ids, DownloadInstalls(q, i) PROVE Holds'
  <2>1. /\ target[q] \in Paths /\ pinned[q] \in Digests /\ file[target[q]] \in {None, pinned[q]}
        /\ drive[q] # "none" /\ target[q][2] = q /\ \A j \in Ids : path[j] # target[q]
    <3>1. drive[q] = "landed"
      BY <1>3 DEF DownloadInstalls
    <3>2. /\ target[q] \in Paths /\ pinned[q] \in Digests /\ file[target[q]] \in {None, pinned[q]}
          /\ target[q][2] = q /\ \A j \in Ids : Row(j) => path[j][2] # q
      BY <3>1 DEF DrivesHold, DownloadTypes
    <3> QED BY <3>1, <3>2, Kinds DEF Row
  <2>2. Fresh(i) /\ Insert(i, target[q], pinned[q]) /\ UNCHANGED <<file, mover, adopter, deleter>>
    BY <1>3, <2>1 DEF DownloadInstalls, disk
  <2>3. \A r \in Movers, j \in Ids : todo[r][j] # None => j # i /\ todo[r][j] # target[q]
    BY <2>1, <2>2 DEF Fresh, MoversApart
  <2>4. \A x \in Deleters : del[x] # "idle" => id[x] # i /\ at[x] # target[q]
    BY <2>1, <2>2 DEF Fresh, DeletersHold, DeleterTypes
  <2>5. /\ RowsHold' /\ MoversHold' /\ DeletersHold'
        /\ \A j \in Ids : Row(j)' => (Row(j) /\ path'[j] = path[j]) \/ path'[j] = target[q]
    BY <2>1, <2>2, <2>3, <2>4, InsertHolds DEF Fresh
  <2>6. AdoptersHold'
    BY <2>2 DEF AdoptersHold, adopter, Dest
  <2>7. ASSUME NEW p \in Quants, drive'[p] # "none"
        PROVE  p # q /\ drive'[p] = drive[p] /\ target'[p] = target[p] /\ pinned'[p] = pinned[p]
    BY <1>3, <2>7 DEF DownloadInstalls, EndDownload, DownloadTypes
  <2>8. ASSUME NEW p \in Quants, drive'[p] # "none", NEW j \in Ids, Row(j)' PROVE path'[j][2] # p
    BY <2>1, <2>5, <2>7, <2>8 DEF DrivesHold
  <2>9. DrivesHold'
    BY <2>2, <2>7, <2>8 DEF DrivesHold
  <2> QED BY <2>5, <2>6, <2>9
<1> QED BY <1>1, <1>2, <1>3 DEF Download

LEMMA PullHolds ==
    ASSUME Types, Holds, NEW t \in Tags, NEW h \in Digests, Pull(t, h) PROVE Holds'
BY SameFrame, DeletersFrame DEF Holds, Pull

LEMMA CrashHolds == ASSUME Types, Holds, Crash PROVE Holds'
<1> USE DEF Types, Holds
<1>1. UNCHANGED <<store, file>>
  BY DEF Crash, disk
<1>2. RowsHold'
  BY <1>1, SameFrame
<1>3. \A r \in Movers, i \in Ids : move'[r] = "idle" /\ todo'[r][i] = None
  BY DEF Crash
<1>4. \A a \in Adopters : adopt'[a] = "idle"
  BY DEF Crash
<1>5. \A x \in Deleters : del'[x] = "idle"
  BY DEF Crash
<1>6. \A q \in Quants : drive'[q] # "none" =>
        drive'[q] = drive[q] /\ drive[q] # "landed" /\ target'[q] = target[q]
  BY DEF Crash, DownloadTypes
<1>7. DrivesHold'
  BY <1>1, <1>6 DEF DrivesHold, Row, store
<1>8. MoversHold'
  <2>1. \A r \in Movers, i \in Ids : todo'[r][i] = None
    BY <1>3
  <2>2. ASSUME NEW r \in Movers
        PROVE  move'[r] # "copying" /\ move'[r] \notin {"copied", "moved"}
    BY <2>2 DEF Crash
  <2> QED BY <2>1, <2>2 DEF MoversHold, To
<1>9. AdoptersHold'
  BY <1>4 DEF AdoptersHold
<1>10. DeletersHold'
  BY <1>5 DEF DeletersHold
<1> QED BY <1>2, <1>7, <1>8, <1>9, <1>10

----------------------------------------------------------------------------
(* The invariant: while nothing is tangled, rows stand for their files.    *)

Sound == LinksHold /\ (~tangled => Apart /\ Holds)

LEMMA UntangledApart == Types /\ ~Tangle => Apart
BY TangleApart

LEMMA InitSound == Init => Types /\ Sound
<1> SUFFICES ASSUME Init PROVE Types /\ Sound
  OBVIOUS
<1>1. Types
  BY InitTypes
<1>2. LinksHold
  BY DEF Init, LinksHold
<1>3. RowsApart /\ DeletersApart
  BY DEF Init, RowsApart, DeletersApart, Row
<1>4. MoversApart /\ AdoptersApart
  BY DEF Init, MoversApart, AdoptersApart
<1>5. RowsHold /\ DeletersHold /\ DrivesHold
  BY DEF Init, RowsHold, DeletersHold, DrivesHold, Row
<1>6. MoversHold /\ AdoptersHold
  BY DEF Init, MoversHold, AdoptersHold
<1> QED BY <1>1, <1>2, <1>3, <1>4, <1>5, <1>6 DEF Sound, Holds, Apart

LEMMA StepSound == Types /\ Types' /\ Sound /\ [Next]_vars => Sound'
<1> SUFFICES ASSUME Types, Types', Sound, [Next]_vars PROVE Sound'
  OBVIOUS
<1>1. LinksHold'
  BY LinksStep DEF Sound
<1>2. CASE UNCHANGED vars
  <2>1. UNCHANGED <<store, disk, mover, adopter, deleter, download, tangled>>
    BY <1>2 DEF vars
  <2> QED BY <1>1, <2>1 DEF Sound, store, disk, mover, adopter, deleter, download, Apart, RowsApart,
        MoversApart, AdoptersApart, DeletersApart, Holds, RowsHold, MoversHold, AdoptersHold,
        DeletersHold, DrivesHold, Row, To, Dest
<1>3. ASSUME Next, ~tangled' PROVE Apart' /\ Holds'
  <2>1. ~tangled /\ ~Tangle' /\ Step
    BY <1>3 DEF Next
  <2>2. LinksHold /\ Apart /\ Holds
    BY <2>1 DEF Sound
  <2>3. Apart'
    BY <2>1, UntangledApart, PTL
  <2>4. Holds'
    BY <2>1, <2>2, RelocateHolds, AdoptHolds, DeleteHolds, DownloadHolds, PullHolds, CrashHolds
       DEF Step
  <2> QED BY <2>3, <2>4
<1> QED BY <1>1, <1>2, <1>3 DEF Sound

\* Whatever moves, is adopted, deleted or downloaded, and wherever it fails or crashes, a
\* row never stands for contents other than its own.
THEOREM LibraryRowsSound == Spec => []RowsSound
<1>1. Types /\ Sound => RowsSound
  BY DEF Sound, Holds, RowsHold, RowsSound
<1>2. Spec => []Types
  BY TypesAlways
<1>3. Types /\ Types' /\ Sound /\ [Next]_vars => Sound'
  BY StepSound
<1> QED BY <1>1, <1>2, <1>3, InitSound, PTL DEF Spec

----------------------------------------------------------------------------
(* Models stay on the disk.                                                *)
(*                                                                         *)
(* Before a relocation removes a file, its copy is on another volume, and  *)
(* nobody else is at the model to take the copy away.                      *)

CopiesThere ==
    \A r \in Movers :
      /\ move[r] \in {"copying", "copied", "moved"} => file[To(r, cur[r])] # None
      /\ move[r] = "copied" => Volume[todo[r][cur[r]][1]] # Volume[dest[r]]

\* A relocation that is at another model keeps its copy.
LEMMA CopyOfOther ==
    ASSUME Types, CopiesThere, NEW m, Elsewhere(m), NEW s \in Movers,
           move[s] \in {"copying", "copied", "moved"}, todo[s][cur[s]][2] # m
    PROVE  file'[To(s, cur[s])] # None
<1>1. cur[s] \in Ids /\ todo[s][cur[s]] \in Paths /\ move[s] # "idle"
  BY DEF Types, MoverTypes
<1>2. To(s, cur[s]) \in Paths /\ To(s, cur[s])[2] # m
  BY <1>1, ToPath, ToParts DEF Types
<1> QED BY <1>2 DEF Elsewhere, CopiesThere

LEMMA CopiesFrame ==
    ASSUME Types, CopiesThere, UNCHANGED mover, NEW m, Elsewhere(m),
           \A r \in Movers, i \in Ids : todo[r][i] # None => todo[r][i][2] # m
    PROVE  CopiesThere'
<1>1. ASSUME NEW s \in Movers, move[s] \in {"copying", "copied", "moved"}
      PROVE  file'[To(s, cur[s])] # None
  <2>1. cur[s] \in Ids /\ todo[s][cur[s]] # None
    BY <1>1, Kinds DEF Types, MoverTypes
  <2> QED BY <1>1, <2>1, CopyOfOther
<1> QED BY <1>1 DEF CopiesThere, mover, To

\* The others' copies through a relocation's step at one model.
LEMMA CopiesOfOthers ==
    ASSUME Types, Apart, CopiesThere, NEW r \in Movers, NEW i \in Ids, todo[r][i] \in Paths,
           Elsewhere(todo[r][i][2]), NEW s \in Movers, s # r,
           move[s] \in {"copying", "copied", "moved"}
    PROVE  file'[To(s, cur[s])] # None
<1>1. cur[s] \in Ids /\ todo[s][cur[s]] # None /\ todo[r][i] # None
  BY Kinds DEF Types, MoverTypes
<1>2. todo[s][cur[s]][2] # todo[r][i][2]
  BY <1>1 DEF Apart, MoversApart
<1> QED BY <1>2, CopyOfOther

\* What each step of a relocation at row i leaves of the row's files.
LEMMA RelocateTouches ==
    ASSUME Types, LinksHold, Holds, Apart, CopiesThere, NEW r \in Movers, NEW i \in Ids,
           \/ RelocateRenames(r, i) \/ RelocateCopies(r, i)
           \/ i = cur[r] /\ (RelocateCopied(r) \/ RelocateRemoves(r))
    PROVE  /\ todo[r][i] \in Paths /\ path[i] = todo[r][i] /\ To(r, i) \in Paths
           /\ Elsewhere(path[i][2]) /\ file'[To(r, i)] # None
           /\ file'[To(r, i)] = sha[i] \/ file'[path[i]] = sha[i]
<1> USE DEF Types
<1>1. todo[r][i] \in Paths /\ todo[r][i] # None /\ move[r] # "idle"
  BY Kinds DEF RelocateRenames, RelocateCopies, RelocateCopied, RelocateRemoves, Reaches, MoverTypes
<1>2. /\ path[i] = todo[r][i] /\ Row(i) /\ To(r, i) \in Paths
      /\ To(r, i)[2] = path[i][2] /\ To(r, i)[1] = dest[r]
  BY <1>1, ToPath, ToParts, Kinds DEF Holds, MoversHold, Row
<1>3. sha[i] \in Digests /\ file[path[i]] \in {None, sha[i]} /\ sha[i] # None
  BY <1>2, Kinds, DataParts DEF Holds, RowsHold
<1>4. CASE RelocateRenames(r, i)
  <2>1. Elsewhere(path[i][2]) /\ file'[To(r, i)] = file[path[i]]
    BY <1>1, <1>2, <1>4, RenameElsewhere DEF RelocateRenames
  <2> QED BY <1>1, <1>2, <1>3, <1>4, <2>1 DEF RelocateRenames
<1>5. CASE RelocateCopies(r, i)
  <2>1. /\ Elsewhere(path[i][2]) /\ file'[To(r, i)] = Partial
        /\ file'[path[i]] = file[path[i]]
    BY <1>1, <1>2, <1>5, CopyHolds DEF RelocateCopies
  <2>2. file[path[i]] # None /\ Partial # None
    BY <1>2, <1>5, Kinds, DataParts DEF RelocateCopies
  <2> QED BY <1>1, <1>2, <1>3, <2>1, <2>2
<1>6. CASE i = cur[r] /\ RelocateCopied(r)
  <2>1. file[To(r, i)] # None /\ held[r] = sha[i]
    BY <1>6 DEF RelocateCopied, CopiesThere, Holds, MoversHold
  <2>2. Write(To(r, i), sha[i])
    BY <1>6, <2>1 DEF RelocateCopied
  <2>3. Elsewhere(path[i][2]) /\ file'[To(r, i)] = sha[i]
    BY <1>2, <2>2, WriteElsewhere
  <2> QED BY <1>1, <1>2, <1>3, <2>3
<1>7. CASE i = cur[r] /\ RelocateRemoves(r)
  <2>1. /\ file[To(r, i)] = sha[i]
        /\ Volume[todo[r][i][1]] # Volume[dest[r]]
    BY <1>7 DEF RelocateRemoves, CopiesThere, Holds, MoversHold
  <2>2. To(r, i) # path[i]
    BY <1>2, <2>1
  <2>3. Remove(path[i]) \/ file' = file
    BY <1>2, <1>7 DEF RelocateRemoves, disk
  <2>4. \A p \in Paths : p # path[i] => file'[p] = file[p]
    BY <1>1, <1>2, <2>3 DEF Remove, DiskTypes
  <2>5. Elsewhere(path[i][2]) /\ file'[To(r, i)] = file[To(r, i)]
    BY <1>2, <2>2, <2>4 DEF Elsewhere
  <2> QED BY <1>1, <1>2, <1>3, <2>1, <2>5
<1> QED BY <1>4, <1>5, <1>6, <1>7

LEMMA RelocateCopiesThere ==
    ASSUME Types, LinksHold, Holds, Apart, CopiesThere, NEW r \in Movers, Relocate(r)
    PROVE  CopiesThere'
<1> USE DEF Types
<1> DEFINE Same(s) == /\ move'[s] = move[s] /\ cur'[s] = cur[s] /\ dest'[s] = dest[s]
                      /\ todo'[s] = todo[s]
<1>1. ASSUME NEW s \in Movers, s # r PROVE Same(s)
  BY <1>1 DEF Relocate, RelocateList, RelocateSkips, RelocateRenames, RelocateCopies, RelocateCopied,
     RelocateFails, RelocateRemoves, RelocateRow, RelocateEnds, Forget, MoverTypes
<1>2. ASSUME NEW i \in Ids,
             \/ RelocateRenames(r, i) \/ RelocateCopies(r, i)
             \/ i = cur[r] /\ (RelocateCopied(r) \/ RelocateRemoves(r))
      PROVE  CopiesThere'
  <2>1. /\ todo[r][i] \in Paths /\ Elsewhere(todo[r][i][2])
        /\ file'[To(r, i)] # None
    BY <1>2, RelocateTouches
  <2>2. ASSUME NEW s \in Movers, s # r, move[s] \in {"copying", "copied", "moved"}
        PROVE  file'[To(s, cur[s])] # None
    BY <2>1, <2>2, CopiesOfOthers
  <2>3. /\ cur'[r] = i /\ dest'[r] = dest[r] /\ todo'[r] = todo[r]
    BY <1>2 DEF RelocateRenames, RelocateCopies, RelocateCopied, RelocateRemoves, MoverTypes
  <2>4. move'[r] = "copied" => Volume[todo[r][i][1]] # Volume[dest[r]]
    BY <1>2 DEF RelocateRenames, RelocateCopies, RelocateCopied, RelocateRemoves, MoverTypes,
       Holds, MoversHold
  <2> QED BY <1>1, <2>1, <2>2, <2>3, <2>4 DEF CopiesThere, To
<1>3. ASSUME file' = file, move'[r] \in {"idle", "loop"} PROVE CopiesThere'
  BY <1>1, <1>3 DEF CopiesThere, To
<1>4. ASSUME \/ \E d \in Dirs : RelocateList(r, d)
             \/ \E i \in Ids : RelocateSkips(r, i)
             \/ RelocateFails(r) \/ RelocateRow(r) \/ RelocateEnds(r)
      PROVE  file' = file /\ move'[r] \in {"idle", "loop"}
  <2>1. CASE \E d \in Dirs : RelocateList(r, d)
    BY <2>1 DEF RelocateList, MoverTypes, disk
  <2>2. CASE \E i \in Ids : RelocateSkips(r, i)
    BY <2>2 DEF RelocateSkips, Reaches, disk
  <2>3. CASE RelocateFails(r) \/ RelocateRow(r) \/ RelocateEnds(r)
    BY <2>3 DEF RelocateFails, RelocateRow, RelocateEnds, Forget, MoverTypes, disk
  <2> QED BY <1>4, <2>1, <2>2, <2>3
<1>5. RelocateCopied(r) \/ RelocateRemoves(r) => cur[r] \in Ids
  BY DEF RelocateCopied, RelocateRemoves, MoverTypes
<1> QED BY <1>2, <1>3, <1>4, <1>5 DEF Relocate

\* A step of an adoption touches files of its model only.
LEMMA AdoptElsewhere ==
    ASSUME Types, NEW a \in Adopters, Adopt(a)
    PROVE  file' = file \/ (adopt[a] # "idle" /\ Elsewhere(tag[a]))
<1> USE DEF Types
<1>1. ASSUME adopt[a] # "idle" PROVE Dest(a) \in Paths /\ Dest(a)[2] = tag[a]
  BY <1>1, DestPath, DestParts
<1>2. CASE AdoptLinks(a)
  BY <1>1, <1>2 DEF AdoptLinks, Elsewhere, DiskTypes
<1>3. CASE AdoptCopies(a) \/ AdoptCopied(a)
  BY <1>1, <1>3, WriteElsewhere DEF AdoptCopies, AdoptCopied, disk
<1> QED BY <1>2, <1>3 DEF Adopt, AdoptStart, AdoptRefused, AdoptFinds, AdoptFails, AdoptInserts, disk

LEMMA DeleteElsewhere ==
    ASSUME Types, NEW x \in Deleters, Delete(x)
    PROVE  file' = file \/ (del[x] # "idle" /\ Elsewhere(at[x][2]))
<1>1. CASE DeleteFile(x)
  BY <1>1, RemoveElsewhere DEF DeleteFile, Types, DeleterTypes
<1> QED BY <1>1 DEF Delete, DeleteReads, DeleteFails, DeleteRow, disk

LEMMA DownloadElsewhere ==
    ASSUME Types, DrivesHold, NEW q \in Quants, Download(q)
    PROVE  file' = file \/ (drive[q] # "none" /\ Elsewhere(q))
<1>1. CASE DownloadLands(q) \/ DownloadStops(q)
  <2>1. drive[q] # "none" /\ target[q] \in Paths /\ target[q][2] = q
    BY <1>1 DEF DownloadLands, DownloadStops, DrivesHold, Types, DownloadTypes
  <2> QED BY <1>1, <2>1, WriteElsewhere DEF DownloadLands, DownloadStops
<1> QED BY <1>1 DEF Download, DownloadStarts, DownloadInstalls, disk

LEMMA CopiesThereStep ==
    ASSUME Types, LinksHold, Holds, Apart, CopiesThere, Step PROVE CopiesThere'
<1>1. ASSUME file' = file, UNCHANGED mover PROVE CopiesThere'
  BY <1>1 DEF CopiesThere, mover, To
<1>2. ASSUME NEW r \in Movers, Relocate(r) PROVE CopiesThere'
  BY <1>2, RelocateCopiesThere
<1>3. ASSUME NEW a \in Adopters, Adopt(a) PROVE CopiesThere'
  <2>1. UNCHANGED mover
    BY <1>3 DEF Adopt, AdoptStart, AdoptRefused, AdoptFinds, AdoptLinks, AdoptCopies, AdoptCopied,
       AdoptFails, AdoptInserts
  <2>2. ASSUME adopt[a] # "idle", Elsewhere(tag[a]) PROVE CopiesThere'
    BY <2>1, <2>2, CopiesFrame DEF Apart, MoversApart
  <2> QED BY <1>1, <1>3, <2>1, <2>2, AdoptElsewhere
<1>4. ASSUME NEW x \in Deleters, Delete(x) PROVE CopiesThere'
  <2>1. UNCHANGED mover
    BY <1>4 DEF Delete, DeleteReads, DeleteFile, DeleteFails, DeleteRow
  <2>2. ASSUME del[x] # "idle", Elsewhere(at[x][2]) PROVE CopiesThere'
    BY <2>1, <2>2, CopiesFrame DEF Apart, MoversApart
  <2> QED BY <1>1, <1>4, <2>1, <2>2, DeleteElsewhere
<1>5. ASSUME NEW q \in Quants, Download(q) PROVE CopiesThere'
  <2>1. UNCHANGED mover
    BY <1>5 DEF Download, DownloadStarts, DownloadLands, DownloadStops, DownloadInstalls
  <2>2. ASSUME drive[q] # "none", Elsewhere(q) PROVE CopiesThere'
    BY <2>1, <2>2, CopiesFrame DEF Apart, MoversApart
  <2> QED BY <1>1, <1>5, <2>1, <2>2, DownloadElsewhere DEF Holds
<1>6. CASE \E t \in Tags, h \in Digests : Pull(t, h)
  BY <1>1, <1>6 DEF Pull
<1>7. CASE Crash
  BY <1>7 DEF Crash, CopiesThere
<1> QED BY <1>2, <1>3, <1>4, <1>5, <1>6, <1>7 DEF Step

\* A row's contents are still somewhere.
Spared(i) == \E d \in Dirs : file'[<<d, path[i][2]>>] = sha[i]

\* They are where they were unless the file changed, which takes a step at the model.
LEMMA SparedElsewhere ==
    ASSUME Types, NEW i \in Ids, Row(i), OnDisk(i), NEW m,
           file' = file \/ (Elsewhere(m) /\ m # path[i][2])
    PROVE  Spared(i)
<1>1. path[i] \in Paths /\ path[i][2] \in Models
  BY PathParts DEF Row, Types, StoreTypes
<1>2. PICK d \in Dirs : file[<<d, path[i][2]>>] = sha[i]
  BY DEF OnDisk
<1>3. <<d, path[i][2]>> \in Paths /\ <<d, path[i][2]>>[2] = path[i][2]
  BY <1>1, TagPath
<1>4. file'[<<d, path[i][2]>>] = sha[i]
  BY <1>2, <1>3 DEF Elsewhere
<1> QED BY <1>4 DEF Spared

\* They are where they were if only files that hold something else changed.
LEMMA SparedOthers ==
    ASSUME Types, NEW i \in Ids, Row(i), OnDisk(i), NEW p \in Paths, file[p] # sha[i],
           \A q \in Paths : q # p => file'[q] = file[q]
    PROVE  Spared(i)
<1>1. path[i] \in Paths /\ path[i][2] \in Models
  BY PathParts DEF Row, Types, StoreTypes
<1>2. PICK d \in Dirs : file[<<d, path[i][2]>>] = sha[i]
  BY DEF OnDisk
<1>3. <<d, path[i][2]>> \in Paths /\ <<d, path[i][2]>> # p
  BY <1>1, <1>2, TagPath
<1>4. file'[<<d, path[i][2]>>] = sha[i]
  BY <1>2, <1>3
<1> QED BY <1>4 DEF Spared

LEMMA RelocateSpares ==
    ASSUME Types, LinksHold, Holds, Apart, CopiesThere, NEW r \in Movers, Relocate(r),
           NEW i \in Ids, Row(i), OnDisk(i)
    PROVE  Spared(i)
<1> USE DEF Types
<1>1. ASSUME NEW j \in Ids,
             \/ RelocateRenames(r, j) \/ RelocateCopies(r, j)
             \/ j = cur[r] /\ (RelocateCopied(r) \/ RelocateRemoves(r))
      PROVE  Spared(i)
  <2>1. /\ todo[r][j] \in Paths /\ path[j] = todo[r][j] /\ To(r, j) \in Paths
        /\ Elsewhere(path[j][2])
        /\ file'[To(r, j)] = sha[j] \/ file'[path[j]] = sha[j]
    BY <1>1, RelocateTouches
  <2>2. CASE j # i
    <3>1. path[j][2] # path[i][2]
      BY <2>1, <2>2, Kinds DEF Apart, RowsApart, Row
    <3> QED BY <2>1, <3>1, SparedElsewhere
  <2>3. CASE j = i
    <3>1. path[i] = <<path[i][1], path[i][2]>> /\ path[i][1] \in Dirs
      BY <2>1, <2>3, PathParts
    <3>2. To(r, i) = <<To(r, i)[1], path[i][2]>> /\ To(r, i)[1] \in Dirs
      BY <2>1, <2>3, PathParts, ToParts
    <3> QED BY <2>1, <2>3, <3>1, <3>2 DEF Spared
  <2> QED BY <2>2, <2>3
<1>2. CASE \/ \E d \in Dirs : RelocateList(r, d)
           \/ \E j \in Ids : RelocateSkips(r, j)
           \/ RelocateFails(r) \/ RelocateRow(r) \/ RelocateEnds(r)
  <2>1. file' = file
    BY <1>2 DEF RelocateList, RelocateSkips, RelocateFails, RelocateRow, RelocateEnds, disk
  <2> QED BY <2>1, SparedElsewhere
<1>3. RelocateCopied(r) \/ RelocateRemoves(r) => cur[r] \in Ids
  BY DEF RelocateCopied, RelocateRemoves, MoverTypes
<1> QED BY <1>1, <1>2, <1>3 DEF Relocate

\* An adoption writes where there is no file, or half of one.
LEMMA AdoptSpares ==
    ASSUME Types, LinksHold, Holds, NEW a \in Adopters, Adopt(a), NEW i \in Ids, Row(i), OnDisk(i)
    PROVE  Spared(i)
<1> USE DEF Types
<1>1. sha[i] \in Digests /\ sha[i] # None /\ sha[i] # Partial
  BY Kinds, DataParts DEF Holds, RowsHold
<1>2. ASSUME adopt[a] # "idle" PROVE Dest(a) \in Paths /\ Dest(a)[1] = into[a]
  BY <1>2, DestPath, DestParts
<1>3. CASE AdoptLinks(a)
  <2>1. /\ file[Dest(a)] # sha[i] /\ Dest(a) \in Paths
        /\ \A q \in Paths : q # Dest(a) => file'[q] = file[q]
    BY <1>1, <1>2, <1>3 DEF AdoptLinks, DiskTypes
  <2> QED BY <2>1, SparedOthers
<1>4. CASE AdoptCopies(a) \/ (AdoptCopied(a) /\ file' # file)
  <2>1. /\ Dest(a) \in Paths /\ Dest(a)[1] = into[a] /\ into[a] \notin Near
        /\ file[Dest(a)] # sha[i]
    BY <1>1, <1>2, <1>4 DEF AdoptCopies, AdoptCopied, Holds, AdoptersHold
  <2>2. PICK data : Write(Dest(a), data)
    BY <1>4 DEF AdoptCopies, AdoptCopied, disk
  <2>3. \A q \in Paths : q # Dest(a) => file'[q] = file[q]
    BY <2>1, <2>2, WriteHere DEF LinksHold
  <2> QED BY <2>1, <2>3, SparedOthers
<1>5. ASSUME file' = file PROVE Spared(i)
  BY <1>5, SparedElsewhere
<1> QED BY <1>3, <1>4, <1>5 DEF Adopt, AdoptStart, AdoptRefused, AdoptFinds, AdoptFails,
      AdoptInserts, disk

LEMMA DeleteSpares ==
    ASSUME Types, Holds, Apart, NEW x \in Deleters, Delete(x), NEW i \in Ids, Row(i), OnDisk(i)
    PROVE  Spared(i) \/ id[x] = i
<1> USE DEF Types
<1>1. ASSUME del[x] # "idle", id[x] # i PROVE at[x][2] # path[i][2]
  BY <1>1, Kinds DEF Holds, DeletersHold, DeleterTypes, Apart, RowsApart, Row
<1> QED BY <1>1, DeleteElsewhere, SparedElsewhere

LEMMA DownloadSpares ==
    ASSUME Types, Holds, NEW q \in Quants, Download(q), NEW i \in Ids, Row(i), OnDisk(i)
    PROVE  Spared(i)
<1>1. drive[q] # "none" => path[i][2] # q
  BY DEF Holds, DrivesHold
<1> QED BY <1>1, DownloadElsewhere, SparedElsewhere DEF Holds

\* No step but a deletion takes a row's contents.
LEMMA StepSpares ==
    ASSUME Types, LinksHold, Holds, Apart, CopiesThere, Step, NEW i \in Ids, Row(i), OnDisk(i)
    PROVE  Spared(i) \/ \E x \in Deleters : id[x] = i
<1>1. CASE (\E t \in Tags, h \in Digests : Pull(t, h)) \/ Crash
  BY <1>1, SparedElsewhere DEF Pull, Crash, disk
<1> QED BY <1>1, RelocateSpares, AdoptSpares, DeleteSpares, DownloadSpares DEF Step

\* A row that stays keeps its model, though its path may change.
LEMMA ModelKept ==
    ASSUME Types, Holds, Step, NEW i \in Ids, Row(i), Row(i)' PROVE path'[i][2] = path[i][2]
<1> USE DEF Types
<1>1. ASSUME NEW r \in Movers, Relocate(r) PROVE path'[i][2] = path[i][2]
  <2>1. CASE RelocateRow(r)
    <3>1. cur[r] \in Ids /\ path[cur[r]] = todo[r][cur[r]]
      BY <2>1, Kinds DEF RelocateRow, MoverTypes, Holds, MoversHold
    <3>2. path'[i] = path[i] \/ (i = cur[r] /\ path'[i] = To(r, i))
      BY <2>1, <3>1 DEF RelocateRow, StoreTypes, Row
    <3> QED BY <3>1, <3>2, ToParts
  <2> QED BY <1>1, <2>1 DEF Relocate, RelocateList, RelocateSkips, RelocateRenames, RelocateCopies,
        RelocateCopied, RelocateFails, RelocateRemoves, RelocateEnds, store
<1>2. ASSUME NEW j \in Ids, NEW p, NEW h, Insert(j, p, h), j # i PROVE path'[i] = path[i]
  BY <1>2 DEF Insert, Row
<1>3. ASSUME NEW a \in Adopters, Adopt(a) PROVE path'[i][2] = path[i][2]
  <2>1. ASSUME NEW j \in Ids, AdoptInserts(a, j) PROVE path'[i] = path[i]
    BY <1>2, <2>1 DEF AdoptInserts, Fresh
  <2> QED BY <1>3, <2>1 DEF Adopt, AdoptStart, AdoptRefused, AdoptFinds, AdoptLinks, AdoptCopies,
        AdoptCopied, AdoptFails, store
<1>4. ASSUME NEW x \in Deleters, Delete(x) PROVE path'[i][2] = path[i][2]
  BY <1>4 DEF Delete, DeleteReads, DeleteFile, DeleteFails, DeleteRow, store, StoreTypes, Row
<1>5. ASSUME NEW q \in Quants, Download(q) PROVE path'[i][2] = path[i][2]
  <2>1. ASSUME NEW j \in Ids, DownloadInstalls(q, j) PROVE path'[i] = path[i]
    <3>1. target[q][2] = q /\ path[i][2] # q
      BY <2>1 DEF DownloadInstalls, Holds, DrivesHold
    <3>2. j # i
      BY <2>1, <3>1 DEF DownloadInstalls, Fresh
    <3> QED BY <1>2, <2>1, <3>2 DEF DownloadInstalls
  <2> QED BY <1>5, <2>1 DEF Download, DownloadStarts, DownloadLands, DownloadStops, store
<1>6. CASE (\E t \in Tags, h \in Digests : Pull(t, h)) \/ Crash
  BY <1>6 DEF Pull, Crash, store
<1> QED BY <1>1, <1>3, <1>4, <1>5, <1>6 DEF Step

\* The invariant of the theorem.
Kept == Sound /\ (~tangled => CopiesThere)

LEMMA InitKept == Init => Kept
BY InitSound DEF Init, Kept, CopiesThere

LEMMA StepKept == Types /\ Types' /\ Kept /\ [Next]_vars => Kept'
<1> SUFFICES ASSUME Types, Types', Kept, [Next]_vars PROVE Kept'
  OBVIOUS
<1>1. Sound'
  BY StepSound DEF Kept
<1>2. CASE UNCHANGED vars
  <2>1. UNCHANGED <<file, move, cur, dest, todo, tangled>>
    BY <1>2 DEF vars, disk, mover
  <2>2. CopiesThere => CopiesThere'
    BY <2>1 DEF CopiesThere, To
  <2> QED BY <1>1, <2>1, <2>2, Zenon DEF Kept
<1>3. ASSUME Next, ~tangled' PROVE CopiesThere'
  BY <1>3, CopiesThereStep DEF Next, Kept, Sound
<1> QED BY <1>1, <1>2, <1>3 DEF Kept

\* Whatever moves, is adopted, deleted or downloaded, and wherever it fails or crashes, what
\* a row stands for leaves the disk by a deletion only (library/mod.rs, ollama/mod.rs).
THEOREM LibraryOnlyDeletionLoses == Spec => OnlyDeletionLoses
<1> DEFINE Loses(i) ==
      (~tangled' /\ Row(i) /\ OnDisk(i) /\ Row(i)' /\ sha'[i] = sha[i] /\ ~OnDisk(i)') =>
        \E x \in Deleters : id[x] = i
<1>1. ASSUME Types, Kept, [Next]_vars PROVE [\A i \in Ids : Loses(i)]_vars
  <2>1. ASSUME Next, NEW i \in Ids PROVE Loses(i)
    <3>1. ASSUME ~tangled', Row(i), OnDisk(i), Row(i)', sha'[i] = sha[i], ~OnDisk(i)'
          PROVE  \E x \in Deleters : id[x] = i
      <4>1. Step /\ LinksHold /\ Holds /\ Apart /\ CopiesThere
        BY <1>1, <2>1, <3>1 DEF Next, Kept, Sound
      <4>2. path'[i][2] = path[i][2]
        BY <1>1, <3>1, <4>1, ModelKept
      <4>3. ~Spared(i)
        BY <3>1, <4>2 DEF Spared, OnDisk
      <4> QED BY <1>1, <3>1, <4>1, <4>3, StepSpares
    <3> QED BY <3>1
  <2> QED BY <1>1, <2>1
<1>2. Types /\ Types' /\ Kept /\ [Next]_vars => Kept'
  BY StepKept
<1> QED BY <1>1, <1>2, InitKept, TypesAlways, PTL DEF Spec, OnlyDeletionLoses

----------------------------------------------------------------------------
(* The library is what Holdings promises.                                  *)
(*                                                                         *)
(* Holdings admits what is whole only, so a file that is about to get its  *)
(* row must still be there.                                                *)

AdoptersThere ==
    \A a \in Adopters : adopt[a] \in {"copying", "insert"} => file[Dest(a)] # None

DrivesThere == \A q \in Quants : drive[q] = "landed" => file[target[q]] # None

There == AdoptersThere /\ DrivesThere

LEMMA ThereFrame ==
    ASSUME Types, Holds, There, NEW m, Elsewhere(m)
    PROVE  /\ UNCHANGED adopter /\ (\A a \in Adopters : adopt[a] # "idle" => tag[a] # m)
                => AdoptersThere'
           /\ UNCHANGED download /\ (\A q \in Quants : drive[q] # "none" => q # m)
                => DrivesThere'
<1> USE DEF Types
<1>1. ASSUME UNCHANGED adopter, \A a \in Adopters : adopt[a] # "idle" => tag[a] # m
      PROVE  AdoptersThere'
  <2>1. ASSUME NEW a \in Adopters, adopt[a] \in {"copying", "insert"} PROVE file'[Dest(a)] # None
    <3>1. Dest(a) \in Paths /\ Dest(a)[2] # m
      BY <1>1, <2>1, DestPath, DestParts
    <3> QED BY <2>1, <3>1 DEF There, AdoptersThere, Elsewhere
  <2> QED BY <1>1, <2>1 DEF AdoptersThere, adopter, Dest
<1>2. ASSUME UNCHANGED download, \A q \in Quants : drive[q] # "none" => q # m
      PROVE  DrivesThere'
  <2>1. ASSUME NEW q \in Quants, drive[q] = "landed" PROVE file'[target[q]] # None
    <3>1. target[q] \in Paths /\ target[q][2] # m
      BY <1>2, <2>1 DEF DownloadTypes, Holds, DrivesHold
    <3> QED BY <2>1, <3>1 DEF There, DrivesThere, Elsewhere
  <2> QED BY <1>2, <2>1 DEF DrivesThere, download
<1> QED BY <1>1, <1>2

LEMMA ThereSame ==
    ASSUME There, file' = file
    PROVE  (UNCHANGED adopter => AdoptersThere') /\ (UNCHANGED download => DrivesThere')
BY DEF There, AdoptersThere, DrivesThere, adopter, download, Dest

\* The file a relocation is at is that of a model no adoption and no download is at.
LEMMA RelocateElsewhere ==
    ASSUME Types, LinksHold, Holds, Apart, CopiesThere, NEW r \in Movers, Relocate(r)
    PROVE  \/ file' = file
           \/ \E m : /\ Elsewhere(m)
                     /\ \A a \in Adopters : adopt[a] # "idle" => tag[a] # m
                     /\ \A q \in Quants : drive[q] # "none" => q # m
<1>1. ASSUME NEW i \in Ids,
             \/ RelocateRenames(r, i) \/ RelocateCopies(r, i)
             \/ i = cur[r] /\ (RelocateCopied(r) \/ RelocateRemoves(r))
      PROVE  \E m : /\ Elsewhere(m)
                    /\ \A a \in Adopters : adopt[a] # "idle" => tag[a] # m
                    /\ \A q \in Quants : drive[q] # "none" => q # m
  <2>1. todo[r][i] \in Paths /\ path[i] = todo[r][i] /\ Elsewhere(path[i][2])
    BY <1>1, RelocateTouches
  <2>2. todo[r][i] # None
    BY <2>1, Kinds
  <2>3. /\ \A a \in Adopters : adopt[a] # "idle" => tag[a] # path[i][2]
        /\ \A q \in Quants : drive[q] # "none" => q # path[i][2]
    BY <2>1, <2>2 DEF Apart, MoversApart
  <2> QED BY <2>1, <2>3
<1>2. RelocateCopied(r) \/ RelocateRemoves(r) => cur[r] \in Ids
  BY DEF RelocateCopied, RelocateRemoves, Types, MoverTypes
<1>3. ASSUME \/ \E d \in Dirs : RelocateList(r, d)
             \/ \E i \in Ids : RelocateSkips(r, i)
             \/ RelocateFails(r) \/ RelocateRow(r) \/ RelocateEnds(r)
      PROVE  file' = file
  BY <1>3 DEF RelocateList, RelocateSkips, RelocateFails, RelocateRow, RelocateEnds, disk
<1> QED BY <1>1, <1>2, <1>3 DEF Relocate

LEMMA RelocateThere ==
    ASSUME Types, LinksHold, Holds, Apart, CopiesThere, There, NEW r \in Movers, Relocate(r)
    PROVE  There'
<1>1. UNCHANGED <<adopter, download>>
  BY DEF Relocate, RelocateList, RelocateSkips, RelocateRenames, RelocateCopies,
     RelocateCopied, RelocateFails, RelocateRemoves, RelocateRow, RelocateEnds
<1>2. CASE file' = file
  BY <1>1, <1>2, ThereSame DEF There
<1>3. ASSUME NEW m, Elsewhere(m), \A a \in Adopters : adopt[a] # "idle" => tag[a] # m,
             \A q \in Quants : drive[q] # "none" => q # m
      PROVE  There'
  BY <1>1, <1>3, ThereFrame DEF There
<1> QED BY <1>2, <1>3, RelocateElsewhere

LEMMA AdoptThere ==
    ASSUME Types, Holds, Apart, There, NEW a \in Adopters, Adopt(a)
    PROVE  There'
<1> USE DEF Types
<1>1. UNCHANGED download
  BY DEF Adopt, AdoptStart, AdoptRefused, AdoptFinds, AdoptLinks, AdoptCopies, AdoptCopied,
     AdoptFails, AdoptInserts
<1>2. DrivesThere'
  <2>1. ASSUME adopt[a] # "idle", Elsewhere(tag[a]) PROVE DrivesThere'
    <3>1. tag[a] \in Tags
      BY <2>1 DEF AdopterTypes
    <3> QED BY <1>1, <2>1, <3>1, Kinds, ThereFrame
  <2> QED BY <1>1, <2>1, ThereSame, AdoptElsewhere
<1>3. ASSUME NEW b \in Adopters, b # a
      PROVE  adopt'[b] = adopt[b] /\ into'[b] = into[b] /\ tag'[b] = tag[b]
  BY <1>3 DEF Adopt, AdoptStart, AdoptRefused, AdoptFinds, AdoptLinks, AdoptCopies, AdoptCopied,
     AdoptFails, AdoptInserts, Leave, AdopterTypes
<1>4. ASSUME NEW b \in Adopters, b # a, adopt[b] \in {"copying", "insert"}
      PROVE  file'[Dest(b)] # None
  <2>1. Dest(b) \in Paths /\ Dest(b)[2] = tag[b]
    BY <1>4, DestPath, DestParts
  <2>2. adopt[a] # "idle" => tag[b] # tag[a]
    BY <1>4 DEF Apart, AdoptersApart
  <2> QED BY <1>4, <2>1, <2>2, AdoptElsewhere DEF There, AdoptersThere, Elsewhere
<1>5. ASSUME adopt'[a] \in {"copying", "insert"} PROVE file'[Dest(a)'] # None
  <2>1. adopt[a] \in {"gate", "copying"} /\ UNCHANGED <<tag, into>>
    BY <1>5 DEF Adopt, AdoptStart, AdoptRefused, AdoptFinds, AdoptLinks, AdoptCopies, AdoptCopied,
       AdoptFails, AdoptInserts, Leave, AdopterTypes
  <2>2. Dest(a) \in Paths /\ Dest(a)' = Dest(a) /\ digest[a] \in Digests /\ tag[a] \in Tags
    BY <2>1, DestPath DEF Dest, AdopterTypes
  <2>3. CASE AdoptFinds(a)
    BY <2>2, <2>3, Kinds, DataParts DEF AdoptFinds, disk
  <2>4. CASE AdoptLinks(a)
    <3>1. file'[Dest(a)] = digest[a]
      BY <2>2, <2>4 DEF AdoptLinks, Genuine, DiskTypes
    <3> QED BY <2>2, <3>1, Kinds, DataParts
  <2>5. CASE AdoptCopies(a) \/ AdoptCopied(a)
    <3>1. AdoptCopied(a) => file[Dest(a)] # None
      BY DEF AdoptCopied, There, AdoptersThere
    <3>2. PICK data \in {Partial, digest[a]} : Write(Dest(a), data)
      BY <2>5, <3>1 DEF AdoptCopies, AdoptCopied
    <3>3. file'[Dest(a)] = data
      BY <2>2, <3>2, WriteElsewhere
    <3> QED BY <2>2, <3>2, <3>3, Kinds, DataParts
  <2> QED BY <1>5, <2>1, <2>3, <2>4, <2>5 DEF Adopt, AdoptStart, AdoptRefused,
        AdoptFails, AdoptInserts, Leave, AdopterTypes
<1>6. AdoptersThere'
  <2>1. ASSUME NEW b \in Adopters, b # a, adopt'[b] \in {"copying", "insert"}
        PROVE  file'[Dest(b)'] # None
    BY <1>3, <1>4, <2>1 DEF Dest
  <2> QED BY <1>5, <2>1 DEF AdoptersThere
<1> QED BY <1>2, <1>6 DEF There

LEMMA DeleteThere ==
    ASSUME Types, Holds, Apart, There, NEW x \in Deleters, Delete(x)
    PROVE  There'
<1>1. UNCHANGED <<adopter, download>>
  BY DEF Delete, DeleteReads, DeleteFile, DeleteFails, DeleteRow
<1>2. CASE file' = file
  BY <1>1, <1>2, ThereSame DEF There
<1>3. ASSUME del[x] # "idle", Elsewhere(at[x][2]) PROVE There'
  <2>1. \A a \in Adopters : adopt[a] # "idle" => tag[a] # at[x][2]
    BY <1>3 DEF Apart, AdoptersApart
  <2>2. ASSUME NEW q \in Quants, drive[q] # "none" PROVE q # at[x][2]
    <3>1. id[x] \in Ids /\ path[id[x]] = at[x] /\ at[x] # None
      BY <1>3, Kinds DEF Types, DeleterTypes, Holds, DeletersHold
    <3> QED BY <2>2, <3>1 DEF Holds, DrivesHold, Row
  <2> QED BY <1>1, <1>3, <2>1, <2>2, ThereFrame DEF There
<1> QED BY <1>2, <1>3, DeleteElsewhere

LEMMA DownloadThere ==
    ASSUME Types, Holds, Apart, There, NEW q \in Quants, Download(q)
    PROVE  There'
<1> USE DEF Types
<1>1. UNCHANGED adopter
  BY DEF Download, DownloadStarts, DownloadLands, DownloadStops, DownloadInstalls
<1>2. AdoptersThere'
  <2>1. ASSUME drive[q] # "none", Elsewhere(q) PROVE AdoptersThere'
    <3>1. \A a \in Adopters : adopt[a] # "idle" => tag[a] # q
      BY Kinds DEF AdopterTypes
    <3> QED BY <1>1, <2>1, <3>1, ThereFrame
  <2> QED BY <1>1, <2>1, ThereSame, DownloadElsewhere DEF Holds
<1>3. ASSUME NEW p \in Quants, p # q PROVE drive'[p] = drive[p] /\ target'[p] = target[p]
  BY <1>3 DEF Download, DownloadStarts, DownloadLands, DownloadStops, DownloadInstalls,
     EndDownload, DownloadTypes
<1>4. ASSUME NEW p \in Quants, p # q, drive[p] = "landed" PROVE file'[target[p]] # None
  <2>1. target[p] \in Paths /\ target[p][2] = p
    BY <1>4 DEF DownloadTypes, Holds, DrivesHold
  <2> QED BY <1>4, <2>1, DownloadElsewhere DEF There, DrivesThere, Elsewhere, Holds
<1>5. ASSUME drive'[q] = "landed" PROVE file'[target'[q]] # None
  <2>1. DownloadLands(q)
    BY <1>5 DEF Download, DownloadStarts, DownloadLands, DownloadStops, DownloadInstalls,
       EndDownload, DownloadTypes
  <2>2. target[q] \in Paths /\ pinned[q] \in Digests /\ target'[q] = target[q]
    BY <2>1 DEF DownloadLands, DownloadTypes
  <2>3. file'[target[q]] = pinned[q]
    BY <2>1, <2>2, WriteElsewhere DEF DownloadLands
  <2> QED BY <2>2, <2>3, Kinds, DataParts
<1>6. DrivesThere'
  BY <1>3, <1>4, <1>5 DEF DrivesThere
<1> QED BY <1>2, <1>6 DEF There

LEMMA ThereStep ==
    ASSUME Types, LinksHold, Holds, Apart, CopiesThere, There, Step PROVE There'
<1>1. CASE \E t \in Tags, h \in Digests : Pull(t, h)
  BY <1>1, ThereSame DEF Pull, There
<1>2. CASE Crash
  <2>1. AdoptersThere'
    BY <1>2 DEF Crash, AdoptersThere
  <2>2. DrivesThere'
    BY <1>2 DEF Crash, DrivesThere
  <2> QED BY <2>1, <2>2 DEF There
<1> QED BY <1>1, <1>2, RelocateThere, AdoptThere, DeleteThere, DownloadThere DEF Step

\* What Holdings knows of the state after a step of its own.
LEMMA ShelvedSame ==
    ASSUME \A i \in Ids : Row(i)' = Row(i) /\ (Row(i) => Good(i)' = Good(i))
    PROVE  Shelved' = Shelved
<1>1. ASSUME NEW g PROVE g \in Shelved' <=> \E i \in Ids : Row(i)' /\ g = Good(i)'
  BY DEF Shelved
<1>2. ASSUME NEW g PROVE g \in Shelved <=> \E i \in Ids : Row(i) /\ g = Good(i)
  BY DEF Shelved
<1> QED BY <1>1, <1>2

LEMMA DoomedIs ==
    ASSUME NEW g PROVE g \in Doomed <=> \E x \in Deleters : del[x] # "idle" /\ g = Good(id[x])
BY DEF Doomed

LEMMA DoomedSame ==
    ASSUME UNCHANGED deleter,
           \A x \in Deleters : del[x] # "idle" => Good(id[x])' = Good(id[x])
    PROVE  Doomed' = Doomed
<1>1. ASSUME NEW g
      PROVE  g \in Doomed' <=> \E x \in Deleters : del'[x] # "idle" /\ g = Good(id[x])'
  BY DEF Doomed
<1> QED BY <1>1, DoomedIs DEF deleter

LEMMA WholeSame == ASSUME file' = file PROVE WholeGoods' = WholeGoods
BY DEF WholeGoods

\* A row that stays what it is.
LEMMA GoodSame ==
    ASSUME UNCHANGED store PROVE \A i : Row(i)' = Row(i) /\ Good(i)' = Good(i)
BY DEF store, Row, Good

LEMMA RowsOfStore ==
    ASSUME Types, NEW i \in Ids, Row(i)
    PROVE  path[i] \in Paths /\ path[i] = <<path[i][1], path[i][2]>>
             /\ path[i][1] \in Dirs /\ path[i][2] \in Models
BY PathParts DEF Types, StoreTypes, Row

\* The row of a deletion that is under way.
LEMMA DeletersRow ==
    ASSUME Types, Holds, NEW x \in Deleters, del[x] # "idle"
    PROVE  id[x] \in Ids /\ Row(id[x]) /\ path[id[x]] = at[x]
BY Kinds DEF Types, DeleterTypes, Holds, DeletersHold, Row

\* A step that changes files only is a Shuffle.
LEMMA ShuffleStep ==
    ASSUME Types, Types', Holds, UNCHANGED <<store, deleter>>,
           \A i \in Ids : Row(i) /\ OnDisk(i) =>
             Spared(i) \/ \E x \in Deleters : del[x] # "idle" /\ id[x] = i
    PROVE  Books!Shuffle
<1>1. Shelved' = Shelved /\ Doomed' = Doomed
  <2>1. Shelved' = Shelved
    BY GoodSame, ShelvedSame
  <2>2. \A x \in Deleters : Good(id[x])' = Good(id[x])
    BY DEF Good, store, deleter
  <2> QED BY <2>1, <2>2, DoomedSame
<1>2. ASSUME NEW g \in Shelved, g \notin Doomed, g \in WholeGoods PROVE g \in WholeGoods'
  <2>1. PICK i \in Ids : Row(i) /\ g = Good(i)
    BY <1>2 DEF Shelved
  <2>2. g[1] = path[i][2] /\ g[2] = sha[i] /\ g \in Models \X Digests
    BY <1>2, <2>1 DEF Good, WholeGoods
  <2>3. OnDisk(i)
    BY <1>2, <2>2 DEF WholeGoods, OnDisk
  <2>4. Spared(i)
    BY <1>2, <2>1, <2>3, DoomedIs
  <2> QED BY <2>2, <2>4 DEF Spared, WholeGoods
<1> QED BY <1>1, <1>2 DEF Books!Shuffle

LEMMA RelocateBooks ==
    ASSUME Types, Types', LinksHold, Holds, Apart, CopiesThere, NEW r \in Movers, Relocate(r)
    PROVE  Books!Shuffle
<1>1. UNCHANGED deleter
  BY DEF Relocate, RelocateList, RelocateSkips, RelocateRenames, RelocateCopies,
     RelocateCopied, RelocateFails, RelocateRemoves, RelocateRow, RelocateEnds
<1>2. CASE UNCHANGED store
  BY <1>1, <1>2, RelocateSpares, ShuffleStep
<1>3. CASE RelocateRow(r)
  <2>1. /\ cur[r] \in Ids /\ path[cur[r]] = todo[r][cur[r]] /\ todo[r][cur[r]] \in Paths
        /\ To(r, cur[r]) \in Paths /\ To(r, cur[r])[2] = path[cur[r]][2]
    BY <1>3, ToPath, ToParts, Kinds DEF RelocateRow, Types, MoverTypes, Holds, MoversHold
  <2>2. UNCHANGED <<sha, file>>
    BY <1>3 DEF RelocateRow, disk
  <2>3. ASSUME NEW i \in Ids
        PROVE  path'[i] = path[i] \/ (i = cur[r] /\ path[i] # None /\ path'[i] = To(r, i))
    BY <1>3, <2>1 DEF RelocateRow, Types, StoreTypes
  <2>4. ASSUME NEW i \in Ids PROVE Row(i)' = Row(i) /\ Good(i)' = Good(i)
    BY <2>1, <2>2, <2>3, Kinds DEF Row, Good
  <2>5. Shelved' = Shelved
    BY <2>4, ShelvedSame
  <2>6. Doomed' = Doomed
    <3>1. ASSUME NEW x \in Deleters, del[x] # "idle" PROVE Good(id[x])' = Good(id[x])
      <4>1. id[x] \in Ids /\ id'[x] = id[x]
        BY <1>1, <3>1, DeletersRow DEF deleter
      <4> QED BY <2>4, <4>1 DEF Good
    <3> QED BY <1>1, <3>1, DoomedSame
  <2>7. WholeGoods' = WholeGoods
    BY <2>2, WholeSame
  <2> QED BY <2>5, <2>6, <2>7 DEF Books!Shuffle
<1> QED BY <1>2, <1>3 DEF Relocate, RelocateList, RelocateSkips, RelocateRenames, RelocateCopies,
      RelocateCopied, RelocateFails, RelocateRemoves, RelocateEnds

\* A row for a model of which there is no other, or one row in place of another that
\* stands for the same.
LEMMA InsertBooks ==
    ASSUME Types, Types', Holds, NEW i \in Ids, NEW p \in Paths, NEW h \in Digests,
           file[p] = h, Insert(i, p, h), ~Row(i), UNCHANGED <<file, deleter>>, RowsApart',
           \A j \in Ids : path[j] = p => sha[j] = h,
           \A x \in Deleters : del[x] # "idle" => path[id[x]] # p
    PROVE  Books!Admit(<<p[2], h>>) \/ UNCHANGED <<Shelved, WholeGoods, Doomed>>
<1> DEFINE g == <<p[2], h>>
<1>1. /\ p = <<p[1], p[2]>> /\ p[1] \in Dirs /\ p[2] \in Models
      /\ p # None
  BY PathParts, Kinds
<1>2. g \in WholeGoods /\ WholeGoods' = WholeGoods
  BY <1>1, WholeSame DEF WholeGoods
<1>3. /\ path'[i] = p /\ sha'[i] = h
      /\ \A j \in Ids : j # i /\ path[j] # p => path'[j] = path[j] /\ sha'[j] = sha[j]
      /\ \A j \in Ids : j # i /\ path[j] = p => path'[j] = None
  BY DEF Insert
<1>4. Doomed' = Doomed
  <2>1. ASSUME NEW x \in Deleters, del[x] # "idle" PROVE Good(id[x])' = Good(id[x])
    <3>1. id[x] \in Ids /\ id[x] # i /\ path[id[x]] # p /\ id'[x] = id[x]
      BY <2>1, DeletersRow DEF deleter
    <3> QED BY <1>3, <3>1 DEF Good
  <2> QED BY <2>1, DoomedSame
<1>5. ASSUME NEW e PROVE e \in Shelved <=> \E j \in Ids : Row(j) /\ e = Good(j)
  BY DEF Shelved
<1>6. ASSUME NEW e PROVE e \in Shelved' <=> \E j \in Ids : Row(j)' /\ e = Good(j)'
  BY DEF Shelved
<1>7. Shelved' = Shelved \cup {g}
  <2>1. ASSUME NEW e \in Shelved' PROVE e \in Shelved \cup {g}
    <3>1. PICK j \in Ids : Row(j)' /\ e = Good(j)'
      BY <1>6, <2>1
    <3>2. CASE j = i
      BY <1>3, <3>1, <3>2 DEF Good
    <3>3. CASE j # i
      <4>1. path'[j] = path[j] /\ sha'[j] = sha[j] /\ path[j] # None
        BY <1>3, <3>1, <3>3 DEF Row
      <4> QED BY <1>5, <3>1, <4>1 DEF Good, Row
    <3> QED BY <3>2, <3>3
  <2>2. ASSUME NEW e \in Shelved PROVE e \in Shelved'
    <3>1. PICK j \in Ids : Row(j) /\ e = Good(j)
      BY <1>5, <2>2
    <3>2. CASE path[j] = p
      <4>1. e = Good(i)' /\ Row(i)'
        BY <1>1, <1>3, <3>1, <3>2 DEF Good, Row
      <4> QED BY <1>6, <4>1
    <3>3. CASE path[j] # p
      <4>1. j # i
        BY <3>1
      <4>2. Row(j)' /\ e = Good(j)'
        BY <1>3, <3>1, <3>3, <4>1 DEF Good, Row
      <4> QED BY <1>6, <4>2
    <3> QED BY <3>2, <3>3
  <2>3. g \in Shelved'
    <3>1. Row(i)' /\ g = Good(i)'
      BY <1>1, <1>3 DEF Good, Row
    <3> QED BY <1>6, <3>1
  <2> QED BY <2>1, <2>2, <2>3
<1>8. CASE g \in Shelved
  BY <1>2, <1>4, <1>7, <1>8
<1>9. CASE g \notin Shelved
  <2>1. ASSUME NEW other \in Shelved PROVE other[1] # p[2]
    <3>1. PICK j \in Ids : Row(j) /\ other = Good(j)
      BY <1>5, <2>1
    <3>2. other[1] = path[j][2] /\ j # i
      BY <3>1 DEF Good
    <3>3. path[j] # p
      BY <1>9, <2>1, <3>1 DEF Good
    <3>4. Row(j)' /\ Row(i)' /\ path'[j] = path[j] /\ path'[i] = p
      BY <1>1, <1>3, <3>1, <3>2, <3>3 DEF Row
    <3>5. path[j][2] # p[2]
      BY <3>2, <3>4 DEF RowsApart
    <3> QED BY <3>2, <3>5
  <2>2. Books!Admit(g)
    BY <1>2, <1>4, <1>7, <2>1 DEF Books!Admit
  <2> QED BY <2>2
<1> QED BY <1>8, <1>9

LEMMA AdoptBooks ==
    ASSUME Types, Types', LinksHold, Holds, Apart, RowsApart', There, NEW a \in Adopters, Adopt(a)
    PROVE  \/ Books!Shuffle \/ UNCHANGED <<Shelved, WholeGoods, Doomed>>
           \/ \E g \in Models \X Digests : Books!Admit(g)
<1> USE DEF Types
<1>1. UNCHANGED deleter
  BY DEF Adopt, AdoptStart, AdoptRefused, AdoptFinds, AdoptLinks, AdoptCopies, AdoptCopied,
     AdoptFails, AdoptInserts
<1>2. CASE UNCHANGED store
  BY <1>1, <1>2, AdoptSpares, ShuffleStep
<1>3. ASSUME NEW i \in Ids, AdoptInserts(a, i)
      PROVE  \/ UNCHANGED <<Shelved, WholeGoods, Doomed>>
             \/ \E g \in Models \X Digests : Books!Admit(g)
  <2>1. /\ adopt[a] = "insert" /\ Insert(i, Dest(a), digest[a]) /\ ~Row(i) /\ file' = file
    BY <1>3 DEF AdoptInserts, Fresh, disk
  <2>2. /\ Dest(a) \in Paths /\ digest[a] \in Digests /\ Dest(a)[2] = tag[a]
        /\ tag[a] \in Models
    BY <2>1, DestPath, DestParts, DataParts DEF AdopterTypes
  <2>3. file[Dest(a)] = digest[a]
    BY <2>1 DEF Holds, AdoptersHold, There, AdoptersThere
  <2>4. \A j \in Ids : path[j] = Dest(a) => sha[j] = digest[a]
    BY <2>1, <2>3 DEF Apart, AdoptersApart
  <2>5. ASSUME NEW x \in Deleters, del[x] # "idle" PROVE path[id[x]] # Dest(a)
    BY <2>1, <2>2, <2>5, DeletersRow DEF Apart, AdoptersApart
  <2>6. Books!Admit(<<Dest(a)[2], digest[a]>>) \/ UNCHANGED <<Shelved, WholeGoods, Doomed>>
    BY <1>1, <2>1, <2>2, <2>3, <2>4, <2>5, InsertBooks
  <2>7. <<Dest(a)[2], digest[a]>> \in Models \X Digests
    BY <2>2
  <2> QED BY <2>6, <2>7
<1> QED BY <1>2, <1>3 DEF Adopt, AdoptStart, AdoptRefused, AdoptFinds, AdoptLinks, AdoptCopies,
      AdoptCopied, AdoptFails

LEMMA DownloadBooks ==
    ASSUME Types, Types', Holds, Apart, RowsApart', There, NEW q \in Quants, Download(q)
    PROVE  \/ Books!Shuffle \/ UNCHANGED <<Shelved, WholeGoods, Doomed>>
           \/ \E g \in Models \X Digests : Books!Admit(g)
<1> USE DEF Types
<1>1. UNCHANGED deleter
  BY DEF Download, DownloadStarts, DownloadLands, DownloadStops, DownloadInstalls
<1>2. CASE UNCHANGED store
  BY <1>1, <1>2, DownloadSpares, ShuffleStep
<1>3. ASSUME NEW i \in Ids, DownloadInstalls(q, i)
      PROVE  \/ UNCHANGED <<Shelved, WholeGoods, Doomed>>
             \/ \E g \in Models \X Digests : Books!Admit(g)
  <2>1. /\ drive[q] = "landed" /\ Insert(i, target[q], pinned[q]) /\ file' = file
    BY <1>3 DEF DownloadInstalls, disk
  <2>2. /\ target[q] \in Paths /\ pinned[q] \in Digests /\ target[q][2] = q /\ q \in Models
        /\ \A j \in Ids : Row(j) => path[j][2] # q
    BY <2>1, DataParts DEF DownloadTypes, Holds, DrivesHold
  <2>3. \A j \in Ids : path[j] # target[q]
    BY <2>2, Kinds DEF Row
  <2>4. ~Row(i)
    BY <1>3, <2>3 DEF DownloadInstalls, Fresh
  <2>5. file[target[q]] = pinned[q]
    BY <2>1 DEF Holds, DrivesHold, There, DrivesThere
  <2>6. \A x \in Deleters : del[x] # "idle" => path[id[x]] # target[q]
    BY <2>3, DeletersRow
  <2>7. Books!Admit(<<target[q][2], pinned[q]>>) \/ UNCHANGED <<Shelved, WholeGoods, Doomed>>
    BY <1>1, <2>1, <2>2, <2>3, <2>4, <2>5, <2>6, InsertBooks
  <2>8. <<target[q][2], pinned[q]>> \in Models \X Digests
    BY <2>2
  <2> QED BY <2>7, <2>8
<1> QED BY <1>2, <1>3 DEF Download, DownloadStarts, DownloadLands, DownloadStops

LEMMA DeleteBooks ==
    ASSUME Types, Types', Holds, Apart, NEW x \in Deleters, Delete(x)
    PROVE  \/ Books!Shuffle \/ Books!Spare
           \/ \E g \in Models \X Digests : Books!Doom(g) \/ Books!Drop(g)
<1> USE DEF Types
<1>1. CASE DeleteFile(x)
  <2>1. UNCHANGED <<store, id>> /\ del[x] = "read" /\ del' = [del EXCEPT ![x] = "removed"]
    BY <1>1 DEF DeleteFile
  <2>2. Shelved' = Shelved
    BY <2>1, GoodSame, ShelvedSame
  <2>3. Doomed' = Doomed
    <3>1. ASSUME NEW g
          PROVE  g \in Doomed' <=> \E y \in Deleters : del'[y] # "idle" /\ g = Good(id[y])'
      BY DEF Doomed
    <3>2. \A y \in Deleters : del'[y] # "idle" <=> del[y] # "idle"
      BY <2>1 DEF DeleterTypes
    <3>3. \A y \in Deleters : Good(id[y])' = Good(id[y])
      BY <2>1 DEF Good, store
    <3> QED BY <3>1, <3>2, <3>3, DoomedIs
  <2>4. ASSUME NEW g \in Shelved, g \notin Doomed, g \in WholeGoods PROVE g \in WholeGoods'
    <3>1. PICK i \in Ids : Row(i) /\ g = Good(i)
      BY <2>4 DEF Shelved
    <3>2. g[1] = path[i][2] /\ g[2] = sha[i] /\ g \in Models \X Digests
      BY <2>4, <3>1 DEF Good, WholeGoods
    <3>3. OnDisk(i)
      BY <2>4, <3>2 DEF WholeGoods, OnDisk
    <3>4. id[x] # i
      BY <2>1, <2>4, <3>1, DoomedIs
    <3>5. Spared(i)
      BY <1>1, <3>1, <3>3, <3>4, DeleteSpares DEF Delete
    <3> QED BY <3>2, <3>5 DEF Spared, WholeGoods
  <2> QED BY <2>2, <2>3, <2>4 DEF Books!Shuffle
<1>2. ASSUME NEW i \in Ids, DeleteReads(x, i) PROVE \E g \in Models \X Digests : Books!Doom(g)
  <2>1. /\ Row(i) /\ del[x] = "idle" /\ del'[x] # "idle" /\ id'[x] = i /\ UNCHANGED <<store, file>>
        /\ \A y \in Deleters : y # x => del'[y] = del[y] /\ id'[y] = id[y]
    BY <1>2 DEF DeleteReads, disk, DeleterTypes
  <2>2. Good(i) \in Shelved /\ Good(i) \in Models \X Digests
    BY <2>1, RowsOfStore DEF Shelved, Good, Holds, RowsHold
  <2>3. Shelved' = Shelved /\ WholeGoods' = WholeGoods
    BY <2>1, GoodSame, ShelvedSame, WholeSame
  <2>4. ASSUME NEW g PROVE g \in Doomed' <=> g \in Doomed \cup {Good(i)}
    <3>1. g \in Doomed' <=> \E y \in Deleters : del'[y] # "idle" /\ g = Good(id[y])'
      BY DEF Doomed
    <3>2. Good(id[x])' = Good(i) /\ \A y \in Deleters : y # x => Good(id[y])' = Good(id[y])
      BY <2>1 DEF Good, store
    <3> QED BY <2>1, <3>1, <3>2, DoomedIs
  <2>5. Doomed' = Doomed \cup {Good(i)}
    BY <2>4
  <2>6. Books!Doom(Good(i))
    BY <2>2, <2>3, <2>5 DEF Books!Doom
  <2> QED BY <2>2, <2>6
<1>3. CASE DeleteFails(x)
  <2>1. /\ del'[x] = "idle" /\ UNCHANGED <<store, file>>
        /\ \A y \in Deleters : y # x => del'[y] = del[y] /\ id'[y] = id[y]
    BY <1>3 DEF DeleteFails, disk, DeleterTypes
  <2>2. Shelved' = Shelved /\ WholeGoods' = WholeGoods
    BY <2>1, GoodSame, ShelvedSame, WholeSame
  <2>3. ASSUME NEW g \in Doomed' PROVE g \in Doomed
    <3>1. PICK y \in Deleters : del'[y] # "idle" /\ g = Good(id[y])'
      BY <2>3 DEF Doomed
    <3>2. y # x /\ Good(id[y])' = Good(id[y])
      BY <2>1, <3>1 DEF Good, store
    <3> QED BY <2>1, <3>1, <3>2, DoomedIs
  <2>4. Books!Spare
    BY <2>2, <2>3 DEF Books!Spare
  <2> QED BY <2>4
<1>4. CASE DeleteRow(x)
  <2>1. PICK i \in Ids : i = id[x] /\ Row(i) /\ path[i] = at[x] /\ del[x] # "idle"
    BY <1>4, DeletersRow DEF DeleteRow
  <2>2. /\ path' = [path EXCEPT ![i] = None] /\ sha' = [sha EXCEPT ![i] = None]
        /\ del'[x] = "idle" /\ file' = file
        /\ \A y \in Deleters : y # x => del'[y] = del[y] /\ id'[y] = id[y]
    BY <1>4, <2>1 DEF DeleteRow, disk, DeleterTypes
  <2>3. \A j \in Ids : j # i => Row(j)' = Row(j) /\ Good(j)' = Good(j)
    BY <2>1, <2>2 DEF Row, Good, StoreTypes
  <2>4. ~Row(i)'
    BY <2>1, <2>2 DEF Row, StoreTypes
  <2>5. \A j \in Ids : j # i /\ Row(j) => Good(j) # Good(i)
    BY <2>1 DEF Apart, RowsApart, Good
  <2>6. Shelved' = Shelved \ {Good(i)}
    <3>1. ASSUME NEW g PROVE g \in Shelved' <=> \E j \in Ids : Row(j)' /\ g = Good(j)'
      BY DEF Shelved
    <3>2. ASSUME NEW g PROVE g \in Shelved <=> \E j \in Ids : Row(j) /\ g = Good(j)
      BY DEF Shelved
    <3>3. ASSUME NEW g \in Shelved' PROVE g \in Shelved /\ g # Good(i)
      <4>1. PICK j \in Ids : Row(j)' /\ g = Good(j)'
        BY <3>1, <3>3
      <4> QED BY <2>3, <2>4, <2>5, <3>2, <4>1
    <3>4. ASSUME NEW g \in Shelved, g # Good(i) PROVE g \in Shelved'
      <4>1. PICK j \in Ids : Row(j) /\ g = Good(j)
        BY <3>2, <3>4
      <4> QED BY <2>3, <3>1, <3>4, <4>1
    <3> QED BY <3>3, <3>4
  <2>7. ASSUME NEW y \in Deleters, y # x, del[y] # "idle"
        PROVE  Good(id[y])' = Good(id[y]) /\ Good(id[y]) # Good(i)
    <3>1. id[y] \in Ids /\ Row(id[y]) /\ path[id[y]] = at[y]
      BY <2>7, DeletersRow
    <3>2. id[y] # i
      BY <2>1, <2>7, <3>1 DEF Apart, DeletersApart
    <3>3. Good(id[y])' = Good(id[y])
      BY <2>1, <2>2, <2>7, <3>1, <3>2 DEF Good, StoreTypes
    <3> QED BY <2>5, <3>1, <3>2, <3>3
  <2>8. Doomed' = Doomed \ {Good(i)}
    <3>1. ASSUME NEW g
          PROVE  g \in Doomed' <=> \E y \in Deleters : del'[y] # "idle" /\ g = Good(id[y])'
      BY DEF Doomed
    <3>2. ASSUME NEW g \in Doomed' PROVE g \in Doomed /\ g # Good(i)
      <4>1. PICK y \in Deleters : del'[y] # "idle" /\ g = Good(id[y])'
        BY <3>1, <3>2
      <4> QED BY <2>2, <2>7, <4>1, DoomedIs
    <3>3. ASSUME NEW g \in Doomed, g # Good(i) PROVE g \in Doomed'
      <4>1. PICK y \in Deleters : del[y] # "idle" /\ g = Good(id[y])
        BY <3>3, DoomedIs
      <4>2. y # x
        BY <2>1, <3>3, <4>1
      <4> QED BY <2>2, <2>7, <3>1, <4>1, <4>2
    <3> QED BY <3>2, <3>3
  <2>9. Good(i) \in Doomed /\ Good(i) \in Models \X Digests /\ WholeGoods' = WholeGoods
    BY <2>1, <2>2, DoomedIs, RowsOfStore, WholeSame DEF Good, Holds, RowsHold
  <2>10. Books!Drop(Good(i))
    BY <2>6, <2>8, <2>9 DEF Books!Drop
  <2> QED BY <2>9, <2>10
<1> QED BY <1>1, <1>2, <1>3, <1>4 DEF Delete

LEMMA CrashBooks == ASSUME Crash PROVE Books!Spare
<1>1. Shelved' = Shelved /\ WholeGoods' = WholeGoods
  BY GoodSame, ShelvedSame, WholeSame DEF Crash, disk
<1>2. Doomed' = {}
  BY DEF Crash, Doomed
<1> QED BY <1>1, <1>2 DEF Books!Spare

LEMMA PullBooks ==
    ASSUME NEW t \in Tags, NEW h \in Digests, Pull(t, h)
    PROVE  UNCHANGED <<Shelved, WholeGoods, Doomed>>
<1>1. Shelved' = Shelved /\ WholeGoods' = WholeGoods
  BY GoodSame, ShelvedSame, WholeSame DEF Pull
<1>2. \A x \in Deleters : Good(id[x])' = Good(id[x])
  BY DEF Pull, Good, store, deleter
<1> QED BY <1>1, <1>2, DoomedSame DEF Pull

\* Every step is one of Holdings, or none of its concern.
LEMMA BooksStep ==
    ASSUME Types, Types', LinksHold, Holds, Apart, Apart', CopiesThere, There, Step
    PROVE  [Books!Next]_(Books!vars)
<1>1. RowsApart'
  BY DEF Apart
<1>2. ASSUME \/ Books!Shuffle \/ Books!Spare \/ UNCHANGED <<Shelved, WholeGoods, Doomed>>
             \/ \E g \in Models \X Digests : Books!Admit(g) \/ Books!Doom(g) \/ Books!Drop(g)
      PROVE  [Books!Next]_(Books!vars)
  BY <1>2 DEF Books!Next, Books!vars
<1>3. \A r \in Movers : Relocate(r) => Books!Shuffle
  BY RelocateBooks
<1>4. ASSUME NEW a \in Adopters, Adopt(a) PROVE [Books!Next]_(Books!vars)
  BY <1>1, <1>2, <1>4, AdoptBooks
<1>5. ASSUME NEW q \in Quants, Download(q) PROVE [Books!Next]_(Books!vars)
  BY <1>1, <1>2, <1>5, DownloadBooks
<1>6. ASSUME NEW x \in Deleters, Delete(x) PROVE [Books!Next]_(Books!vars)
  BY <1>2, <1>6, DeleteBooks
<1> QED BY <1>2, <1>3, <1>4, <1>5, <1>6, CrashBooks, PullBooks DEF Step

\* The invariant of the theorem.
Shown == Kept /\ (~tangled => There)

LEMMA InitShown == Init => Shown
BY InitKept DEF Init, Shown, There, AdoptersThere, DrivesThere

LEMMA StepShown ==
    Types /\ Types' /\ Shown /\ [Next]_vars => Shown' /\ [Books!Next \/ tangled']_(Books!vars)
<1> SUFFICES ASSUME Types, Types', Shown, [Next]_vars
             PROVE  Shown' /\ [Books!Next \/ tangled']_(Books!vars)
  OBVIOUS
<1>1. Kept'
  BY StepKept DEF Shown
<1>2. CASE UNCHANGED vars
  <2>1. UNCHANGED <<store, file, deleter, adopter, download, tangled>>
    BY <1>2 DEF vars, disk
  <2>2. There => There'
    BY <2>1, ThereSame DEF There
  <2>3. Shelved' = Shelved /\ WholeGoods' = WholeGoods
    BY <2>1, GoodSame, ShelvedSame, WholeSame
  <2>4. \A x \in Deleters : Good(id[x])' = Good(id[x])
    BY <2>1 DEF Good, store, deleter
  <2>5. Doomed' = Doomed
    BY <2>1, <2>4, DoomedSame
  <2>6. Shown'
    BY <1>1, <2>1, <2>2, Zenon DEF Shown
  <2> QED BY <2>3, <2>5, <2>6 DEF Books!vars
<1>3. ASSUME Next, ~tangled' PROVE There' /\ [Books!Next]_(Books!vars)
  <2>1. Step /\ LinksHold /\ Holds /\ Apart /\ CopiesThere /\ There
    <3>1. Step /\ tangled' = (tangled \/ Tangle')
      BY <1>3, Zenon DEF Next
    <3>2. ~tangled
      BY <1>3, <3>1, Zenon
    <3> QED BY <3>1, <3>2 DEF Shown, Kept, Sound
  <2>2. Apart'
    BY <1>1, <1>3 DEF Kept, Sound
  <2> QED BY <2>1, <2>2, ThereStep, BooksStep
<1> QED BY <1>1, <1>2, <1>3 DEF Shown

\* Whatever moves, is adopted, deleted or downloaded, and wherever it fails or crashes, the
\* library does what Holdings promises of it, until something is tangled.
THEOREM LibraryKeepsHoldings == Spec => ImplementsHoldings
<1>1. Init => Books!Init
  <2> SUFFICES ASSUME Init PROVE Books!Init
    OBVIOUS
  <2>1. Shelved = {} /\ Doomed = {}
    BY DEF Init, Shelved, Doomed, Row
  <2>2. WholeGoods = {}
    <3>1. ASSUME NEW g \in Models \X Digests, NEW d \in Dirs PROVE file[<<d, g[1]>>] # g[2]
      <4>1. <<d, g[1]>> \in Paths /\ g[2] # None
        BY TagPath, Kinds, DataParts
      <4> QED BY <4>1 DEF Init
    <3> QED BY <3>1 DEF WholeGoods
  <2> QED BY <2>1, <2>2 DEF Books!Init
<1>2. Types /\ Types' /\ Shown /\ [Next]_vars => Shown' /\ [Books!Next \/ tangled']_(Books!vars)
  BY StepShown
<1>3. Spec => []Types
  BY TypesAlways
<1> QED BY <1>1, <1>2, <1>3, InitShown, PTL DEF Spec, ImplementsHoldings

\* A library in which nothing tangles implements Holdings.
THEOREM UntangledIsHoldings == Spec /\ []~tangled => Books!Spec
<1>1. [Books!Next \/ tangled']_(Books!vars) /\ ~tangled' => [Books!Next]_(Books!vars)
  OBVIOUS
<1> QED BY <1>1, LibraryKeepsHoldings, PTL DEF ImplementsHoldings, Books!Spec

=============================================================================
