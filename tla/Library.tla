------------------------------- MODULE Library -------------------------------
(***************************************************************************)
(* The library: the rows of installed_models and the files they name.      *)
(* Files enter by download (the end of download/mod.rs) and by adoption    *)
(* from Ollama's store (ollama/mod.rs and its handler in lib.rs), move     *)
(* when the library is relocated, and leave by deletion (library/mod.rs).  *)
(*                                                                         *)
(* Row and file are changed one after the other, by concurrent handlers,   *)
(* and the process may die between the two.  A file's name is fixed by the *)
(* model it holds, so a path is a directory and a model.  A link shares    *)
(* its contents with Ollama's blob: to remove or rename the one leaves the *)
(* other alone, to write the one writes the other.                         *)
(***************************************************************************)
EXTENDS Naturals, FiniteSets

CONSTANTS
    Dirs,       \* directories the library may be in
    Tags,       \* models in Ollama's store
    Quants,     \* models of the catalog
    Ids,        \* row ids (bound: rows at a time)
    Digests,    \* contents a model may have,
    First,      \* the one it has at first,
    Partial,    \* and what half a copy is
    Near,       \* directories on the volume of Ollama's store
    Volume,     \* the volume of each directory
    Home,       \* the default library directory
    Movers,     \* concurrent relocations,
    MaxMoves,   \* (bound: of that many starts)
    Adopters,   \* adoptions,
    Deleters,   \* and deletions
    None        \* no file, no row, no local

Models == Tags \cup Quants
Paths == Dirs \X Models
Data == Digests \cup {Partial}

ASSUME LibraryAssumption ==
    /\ Near \subseteq Dirs /\ Home \in Dirs /\ First \in Digests /\ MaxMoves \in Nat
    /\ Tags \cap Quants = {} /\ Partial \notin Digests
    /\ \A d \in Dirs, e \in Near : d \in Near <=> Volume[d] = Volume[e]
    /\ Movers \cap (Adopters \cup Deleters \cup Quants) = {}
    /\ Adopters \cap (Deleters \cup Quants) = {} /\ Deleters \cap Quants = {}
    /\ None \notin Data \cup Ids \cup Dirs \cup Models \cup Paths

VARIABLES
    path,       \* the path of each row,
    sha,        \* and its hash
    file,       \* what is at each path,
    linked,     \* and the paths that are links to Ollama's blob
    offer,      \* the hash the manifest or the catalog names
    blob,       \* what is in Ollama's blob
    libdir,     \* library_dir.txt
    move,       \* per relocation: where it is,
    dest,       \* where it goes,
    todo,       \* the paths it listed and has not reached, by row,
    cur,        \* the row it is at,
    held,       \* and the contents it copies
    moves,      \* relocations started
    adopt,      \* per adoption: where it is,
    tag, into, digest, \* its model, directory and hash
    del,        \* per deletion: where it is,
    id, at,     \* its row and path
    drive,      \* per model of the catalog: where its download is,
    target, pinned, \* its path and hash
    tangled     \* history: see Tangle

store == <<path, sha>>
disk == <<file, linked, blob>>
mover == <<move, dest, todo, cur, held, moves>>
adopter == <<adopt, tag, into, digest>>
deleter == <<del, id, at>>
download == <<drive, target, pinned>>
vars == <<store, disk, offer, libdir, mover, adopter, deleter, download, tangled>>

Init ==
    /\ path = [i \in Ids |-> None] /\ sha = [i \in Ids |-> None]
    /\ file = [p \in Paths |-> None] /\ linked = {}
    /\ offer = [m \in Models |-> First] /\ blob = [t \in Tags |-> First]
    /\ libdir = Home
    /\ move = [r \in Movers |-> "idle"] /\ dest = [r \in Movers |-> None]
    /\ todo = [r \in Movers |-> [i \in Ids |-> None]]
    /\ cur = [r \in Movers |-> None] /\ held = [r \in Movers |-> None] /\ moves = 0
    /\ adopt = [a \in Adopters |-> "idle"] /\ tag = [a \in Adopters |-> None]
    /\ into = [a \in Adopters |-> None] /\ digest = [a \in Adopters |-> None]
    /\ del = [x \in Deleters |-> "idle"] /\ id = [x \in Deleters |-> None]
    /\ at = [x \in Deleters |-> None]
    /\ drive = [q \in Quants |-> "none"] /\ target = [q \in Quants |-> None]
    /\ pinned = [q \in Quants |-> None]
    /\ tangled = FALSE

Row(i) == path[i] # None

\* The operations that have a model in hand.
Hands(m) ==
    {r \in Movers : \E i \in Ids, d \in Dirs : todo[r][i] = <<d, m>>}
      \cup {a \in Adopters : tag[a] = m}
      \cup {x \in Deleters : \E d \in Dirs : at[x] = <<d, m>>}
      \cup {q \in {m} \cap Quants : drive[q] # "none"}

\* What none of the operations looks for: another operation on its model, another
\* row for it, or, when it adopts, a row that names a file to be made or half made.
\* Once it was so, tangled stays set.
Tangle ==
    \/ \E m \in Models : \E o, p \in Hands(m) : o # p
    \/ \E i, j \in Ids : i # j /\ Row(i) /\ Row(j) /\ path[i][2] = path[j][2]
    \/ \E a \in Adopters, i \in Ids :
         /\ adopt[a] # "idle" /\ path[i] = <<into[a], tag[a]>>
         /\ file[path[i]] # sha[i]

----------------------------------------------------------------------------
(* The file system. *)

\* fs::write and fs::copy open an existing file and write through its links.
Write(p, data) ==
    LET through == p \in linked
    IN  /\ file' = [q \in Paths |->
                      IF q = p \/ (through /\ q \in linked /\ q[2] = p[2]) THEN data ELSE file[q]]
        /\ blob' = [t \in Tags |-> IF through /\ t = p[2] THEN data ELSE blob[t]]
        /\ UNCHANGED linked

Remove(p) ==
    /\ file' = [file EXCEPT ![p] = None]
    /\ linked' = linked \ {p}
    /\ UNCHANGED blob

\* rename replaces what is at the new path.  It does nothing for one and the same, and
\* some systems do nothing for two links to one blob.
Rename(p, q) ==
    \/ /\ p \in linked /\ q \in linked /\ file[p] = file[q]
       /\ UNCHANGED disk
    \/ /\ file' = [[file EXCEPT ![p] = None] EXCEPT ![q] = file[p]]
       /\ linked' = IF p = q THEN linked
                    ELSE (linked \ {p, q}) \cup (IF p \in linked THEN {q} ELSE {})
       /\ UNCHANGED blob

----------------------------------------------------------------------------
(* Relocation, library/mod.rs. *)

Forget(r) ==
    /\ move' = [move EXCEPT ![r] = "idle"]
    /\ dest' = [dest EXCEPT ![r] = None]
    /\ todo' = [todo EXCEPT ![r] = [i \in Ids |-> None]]
    /\ cur' = [cur EXCEPT ![r] = None]
    /\ held' = [held EXCEPT ![r] = None]
    /\ UNCHANGED moves

To(r, i) == <<dest[r], todo[r][i][2]>>

RelocateList(r, d) ==
    /\ move[r] = "idle" /\ moves < MaxMoves
    /\ moves' = moves + 1
    /\ move' = [move EXCEPT ![r] = "loop"]
    /\ dest' = [dest EXCEPT ![r] = d]
    /\ todo' = [todo EXCEPT ![r] = path]
    /\ UNCHANGED <<store, disk, offer, libdir, cur, held, adopter, deleter, download>>

\* The rows come newest first; the model takes them in any order.
Reaches(r, i) == move[r] = "loop" /\ todo[r][i] # None

\* A mutant: the row of a file that is not there is dropped.
RelocatePrunes(r, i) ==
    /\ Reaches(r, i)
    /\ file[todo[r][i]] = None
    /\ todo' = [todo EXCEPT ![r][i] = None]
    /\ path' = [path EXCEPT ![i] = None] /\ sha' = [sha EXCEPT ![i] = None]
    /\ UNCHANGED <<disk, offer, libdir, move, dest, cur, held, moves, adopter, deleter, download>>

RelocateSkips(r, i) ==
    /\ Reaches(r, i)
    /\ file[todo[r][i]] = None
    /\ todo' = [todo EXCEPT ![r][i] = None]
    /\ UNCHANGED <<store, disk, offer, libdir, move, dest, cur, held, moves, adopter, deleter, download>>

\* A rename within a volume succeeds, one across volumes does not.
RelocateRenames(r, i) ==
    /\ Reaches(r, i)
    /\ file[todo[r][i]] # None
    /\ Volume[todo[r][i][1]] = Volume[dest[r]]
    /\ Rename(todo[r][i], To(r, i))
    /\ move' = [move EXCEPT ![r] = "moved"]
    /\ cur' = [cur EXCEPT ![r] = i]
    /\ UNCHANGED <<store, offer, libdir, dest, todo, held, moves, adopter, deleter, download>>

\* fs::copy has both files open from its first moment on.
RelocateCopies(r, i) ==
    /\ Reaches(r, i)
    /\ file[todo[r][i]] # None
    /\ Volume[todo[r][i][1]] # Volume[dest[r]]
    /\ Write(To(r, i), Partial)
    /\ move' = [move EXCEPT ![r] = "copying"]
    /\ cur' = [cur EXCEPT ![r] = i]
    /\ held' = [held EXCEPT ![r] = file[todo[r][i]]]
    /\ UNCHANGED <<store, offer, libdir, dest, todo, moves, adopter, deleter, download>>

RelocateCopied(r) ==
    /\ move[r] = "copying"
    /\ IF file[To(r, cur[r])] = None
       THEN UNCHANGED disk      \* removed meanwhile: the copy went to no name
       ELSE Write(To(r, cur[r]), held[r])
    /\ move' = [move EXCEPT ![r] = "copied"]
    /\ held' = [held EXCEPT ![r] = None]
    /\ UNCHANGED <<store, offer, libdir, dest, todo, cur, moves, adopter, deleter, download>>

\* A mutant: the result of fs::copy is dropped like that of remove_file.
RelocateIgnores(r) ==
    /\ move[r] = "copying"
    /\ move' = [move EXCEPT ![r] = "copied"]
    /\ held' = [held EXCEPT ![r] = None]
    /\ UNCHANGED <<store, disk, offer, libdir, dest, todo, cur, moves, adopter, deleter, download>>

\* Any error ends the relocation where it is; half a copy stays.
RelocateFails(r) ==
    /\ move[r] \in {"loop", "copying", "moved"}
    /\ Forget(r)
    /\ UNCHANGED <<store, disk, offer, libdir, adopter, deleter, download>>

\* The result of remove_file is dropped.
RelocateRemoves(r) ==
    /\ move[r] = "copied"
    /\ Remove(todo[r][cur[r]]) \/ UNCHANGED disk
    /\ move' = [move EXCEPT ![r] = "moved"]
    /\ UNCHANGED <<store, offer, libdir, dest, todo, cur, held, moves, adopter, deleter, download>>

\* update_installed_path: a row deleted meanwhile is not there to update, and a
\* path another row has fails the statement and ends the relocation.
RelocateRow(r) ==
    LET i == cur[r]
        taken == Row(i) /\ \E j \in Ids \ {i} : path[j] = To(r, i)
    IN  /\ move[r] = "moved"
        /\ IF taken THEN Forget(r) /\ UNCHANGED path
           ELSE /\ path' = [path EXCEPT ![i] = IF @ = None THEN None ELSE To(r, i)]
                /\ move' = [move EXCEPT ![r] = "loop"]
                /\ todo' = [todo EXCEPT ![r][i] = None]
                /\ cur' = [cur EXCEPT ![r] = None]
                /\ UNCHANGED <<dest, held, moves>>
        /\ UNCHANGED <<sha, disk, offer, libdir, adopter, deleter, download>>

RelocateEnds(r) ==
    /\ move[r] = "loop"
    /\ \A i \in Ids : todo[r][i] = None
    /\ libdir' = dest[r]
    /\ Forget(r)
    /\ UNCHANGED <<store, disk, offer, adopter, deleter, download>>

----------------------------------------------------------------------------
(* Adoption, ollama/mod.rs and lib.rs. *)

\* insert_installed_model replaces the row of the same id or path.
Insert(i, p, h) ==
    /\ path' = [j \in Ids |-> IF j = i THEN p ELSE IF path[j] = p THEN None ELSE path[j]]
    /\ sha' = [j \in Ids |-> IF j = i THEN h ELSE IF path[j] = p THEN None ELSE sha[j]]

\* A uuid is nobody's: of no row, and of none that a handler still has in hand.
Fresh(i) ==
    /\ ~Row(i)
    /\ \A r \in Movers : cur[r] # i /\ todo[r][i] = None
    /\ \A x \in Deleters : id[x] # i

Leave(a) ==
    /\ adopt' = [adopt EXCEPT ![a] = "idle"]
    /\ tag' = [tag EXCEPT ![a] = None]
    /\ into' = [into EXCEPT ![a] = None]
    /\ digest' = [digest EXCEPT ![a] = None]

Dest(a) == <<into[a], tag[a]>>

\* The handler reads the library's directory and resolves the manifest.
AdoptStart(a, t) ==
    /\ adopt[a] = "idle"
    /\ adopt' = [adopt EXCEPT ![a] = "gate"]
    /\ tag' = [tag EXCEPT ![a] = t]
    /\ into' = [into EXCEPT ![a] = libdir]
    /\ digest' = [digest EXCEPT ![a] = offer[t]]
    /\ UNCHANGED <<store, disk, offer, libdir, mover, deleter, download>>

\* The blob is there and hashes to the manifest's digest.
Genuine(a) == offer[tag[a]] = digest[a] /\ blob[tag[a]] = digest[a]

AdoptRefused(a) ==
    /\ adopt[a] = "gate"
    /\ \/ ~Genuine(a)
       \/ file[Dest(a)] \notin {None, digest[a]}
       \/ into[a] \notin Near   \* too little room
    /\ Leave(a)
    /\ UNCHANGED <<store, disk, offer, libdir, mover, deleter, download>>

\* A mutant: a file that is there is taken for the blob.
AdoptFindsAny(a) ==
    /\ adopt[a] = "gate" /\ Genuine(a)
    /\ file[Dest(a)] # None
    /\ adopt' = [adopt EXCEPT ![a] = "insert"]
    /\ UNCHANGED <<store, disk, offer, libdir, mover, tag, into, digest, deleter, download>>

\* The file is there already and is this blob.
AdoptFinds(a) ==
    /\ adopt[a] = "gate" /\ Genuine(a)
    /\ file[Dest(a)] = digest[a]
    /\ adopt' = [adopt EXCEPT ![a] = "insert"]
    /\ UNCHANGED <<store, disk, offer, libdir, mover, tag, into, digest, deleter, download>>

AdoptLinks(a) ==
    /\ adopt[a] = "gate" /\ Genuine(a)
    /\ into[a] \in Near /\ file[Dest(a)] = None
    /\ file' = [file EXCEPT ![Dest(a)] = blob[tag[a]]]
    /\ linked' = linked \cup {Dest(a)}
    /\ adopt' = [adopt EXCEPT ![a] = "insert"]
    /\ UNCHANGED <<store, blob, offer, libdir, mover, tag, into, digest, deleter, download>>

AdoptCopies(a) ==
    /\ adopt[a] = "gate" /\ Genuine(a)
    /\ into[a] \notin Near /\ file[Dest(a)] = None
    /\ Write(Dest(a), Partial)
    /\ adopt' = [adopt EXCEPT ![a] = "copying"]
    /\ UNCHANGED <<store, offer, libdir, mover, tag, into, digest, deleter, download>>

AdoptCopied(a) ==
    /\ adopt[a] = "copying"
    /\ IF file[Dest(a)] = None THEN UNCHANGED disk ELSE Write(Dest(a), digest[a])
    /\ adopt' = [adopt EXCEPT ![a] = "insert"]
    /\ UNCHANGED <<store, offer, libdir, mover, tag, into, digest, deleter, download>>

\* The copy or the insertion fails; the file stays as it is.
AdoptFails(a) ==
    /\ adopt[a] \in {"copying", "insert"}
    /\ Leave(a)
    /\ UNCHANGED <<store, disk, offer, libdir, mover, deleter, download>>

AdoptInserts(a, i) ==
    /\ adopt[a] = "insert" /\ Fresh(i)
    /\ Insert(i, Dest(a), digest[a])
    /\ Leave(a)
    /\ UNCHANGED <<disk, offer, libdir, mover, deleter, download>>

----------------------------------------------------------------------------
(* Deletion, library/mod.rs. *)

DeleteReads(x, i) ==
    /\ del[x] = "idle" /\ Row(i)
    /\ del' = [del EXCEPT ![x] = "read"]
    /\ id' = [id EXCEPT ![x] = i]
    /\ at' = [at EXCEPT ![x] = path[i]]
    /\ UNCHANGED <<store, disk, offer, libdir, mover, adopter, download>>

DeleteFile(x) ==
    /\ del[x] = "read"
    /\ Remove(at[x])
    /\ del' = [del EXCEPT ![x] = "removed"]
    /\ UNCHANGED <<store, offer, libdir, mover, adopter, id, at, download>>

\* The file is in use: the row stays, too.
DeleteFails(x) ==
    /\ del[x] = "read"
    /\ del' = [del EXCEPT ![x] = "idle"]
    /\ id' = [id EXCEPT ![x] = None]
    /\ at' = [at EXCEPT ![x] = None]
    /\ UNCHANGED <<store, disk, offer, libdir, mover, adopter, download>>

DeleteRow(x) ==
    /\ del[x] = "removed"
    /\ path' = [path EXCEPT ![id[x]] = None]
    /\ sha' = [sha EXCEPT ![id[x]] = None]
    /\ del' = [del EXCEPT ![x] = "idle"]
    /\ id' = [id EXCEPT ![x] = None]
    /\ at' = [at EXCEPT ![x] = None]
    /\ UNCHANGED <<disk, offer, libdir, mover, adopter, download>>

----------------------------------------------------------------------------
(* Download, as far as the library sees it. *)

\* The path is fixed at the start; the page offers no model that is installed.
DownloadStarts(q) ==
    /\ drive[q] = "none"
    /\ \A i \in Ids : Row(i) => path[i][2] # q
    /\ drive' = [drive EXCEPT ![q] = "transfer"]
    /\ target' = [target EXCEPT ![q] = <<libdir, q>>]
    /\ pinned' = [pinned EXCEPT ![q] = offer[q]]
    /\ UNCHANGED <<store, disk, offer, libdir, mover, adopter, deleter>>

\* What the drive appends is no model until its hash is checked and its row completed.
DownloadLands(q) ==
    /\ drive[q] = "transfer"
    /\ Write(target[q], pinned[q])
    /\ drive' = [drive EXCEPT ![q] = "landed"]
    /\ UNCHANGED <<store, offer, libdir, mover, adopter, deleter, target, pinned>>

EndDownload(q) ==
    /\ drive' = [drive EXCEPT ![q] = "none"]
    /\ target' = [target EXCEPT ![q] = None]
    /\ pinned' = [pinned EXCEPT ![q] = None]

\* Cancelled or failed, with part of the file on the disk.
DownloadStops(q) ==
    /\ drive[q] = "transfer"
    /\ Write(target[q], Partial)
    /\ EndDownload(q)
    /\ UNCHANGED <<store, offer, libdir, mover, adopter, deleter>>

\* The row of the path is replaced under its id.
DownloadInstalls(q, i) ==
    /\ drive[q] = "landed"
    /\ path[i] = target[q] \/ (Fresh(i) /\ \A j \in Ids : path[j] # target[q])
    /\ Insert(i, target[q], pinned[q])
    /\ EndDownload(q)
    /\ UNCHANGED <<disk, offer, libdir, mover, adopter, deleter>>

----------------------------------------------------------------------------
(* The world around it. *)

\* ollama pull: a new blob; the old one lives on in its links.
Pull(t, h) ==
    /\ offer[t] = First /\ h # First
    /\ offer' = [offer EXCEPT ![t] = h]
    /\ blob' = [blob EXCEPT ![t] = h]
    /\ linked' = {p \in linked : p[2] # t}
    /\ UNCHANGED <<store, file, libdir, mover, adopter, deleter, download>>

\* The process dies.  A download whose row was not completed is driven again.
Crash ==
    /\ move' = [r \in Movers |-> "idle"] /\ dest' = [r \in Movers |-> None]
    /\ todo' = [r \in Movers |-> [i \in Ids |-> None]]
    /\ cur' = [r \in Movers |-> None] /\ held' = [r \in Movers |-> None]
    /\ adopt' = [a \in Adopters |-> "idle"] /\ tag' = [a \in Adopters |-> None]
    /\ into' = [a \in Adopters |-> None] /\ digest' = [a \in Adopters |-> None]
    /\ del' = [x \in Deleters |-> "idle"] /\ id' = [x \in Deleters |-> None]
    /\ at' = [x \in Deleters |-> None]
    /\ drive' = [q \in Quants |-> IF drive[q] = "landed" THEN "none" ELSE drive[q]]
    /\ target' = [q \in Quants |-> IF drive[q] = "landed" THEN None ELSE target[q]]
    /\ pinned' = [q \in Quants |-> IF drive[q] = "landed" THEN None ELSE pinned[q]]
    /\ UNCHANGED <<store, disk, offer, libdir, moves>>

Relocate(r) ==
    \/ \E d \in Dirs : RelocateList(r, d)
    \/ \E i \in Ids : RelocateSkips(r, i) \/ RelocateRenames(r, i) \/ RelocateCopies(r, i)
    \/ RelocateCopied(r) \/ RelocateFails(r) \/ RelocateRemoves(r)
    \/ RelocateRow(r) \/ RelocateEnds(r)

Adopt(a) ==
    \/ \E t \in Tags : AdoptStart(a, t)
    \/ AdoptRefused(a) \/ AdoptFinds(a) \/ AdoptLinks(a) \/ AdoptCopies(a)
    \/ AdoptCopied(a) \/ AdoptFails(a)
    \/ \E i \in Ids : AdoptInserts(a, i)

Delete(x) ==
    \/ \E i \in Ids : DeleteReads(x, i)
    \/ DeleteFile(x) \/ DeleteFails(x) \/ DeleteRow(x)

Download(q) ==
    \/ DownloadStarts(q) \/ DownloadLands(q) \/ DownloadStops(q)
    \/ \E i \in Ids : DownloadInstalls(q, i)

Step ==
    \/ \E r \in Movers : Relocate(r)
    \/ \E a \in Adopters : Adopt(a)
    \/ \E x \in Deleters : Delete(x)
    \/ \E q \in Quants : Download(q)
    \/ \E t \in Tags, h \in Digests : Pull(t, h)
    \/ Crash

Next == Step /\ tangled' = (tangled \/ Tangle')

Spec == Init /\ [][Next]_vars

----------------------------------------------------------------------------
\* Every variable keeps its type: a row names a path of the library, and what
\* library_dir.txt names is a directory (library/mod.rs:60).
TypeOK ==
    /\ path \in [Ids -> Paths \cup {None}] /\ sha \in [Ids -> Digests \cup {None}]
    /\ file \in [Paths -> Data \cup {None}] /\ linked \subseteq Paths
    /\ offer \in [Models -> Digests] /\ blob \in [Tags -> Data]
    /\ libdir \in Dirs
    /\ move \in [Movers -> {"idle", "loop", "copying", "copied", "moved"}]
    /\ dest \in [Movers -> Dirs \cup {None}]
    /\ todo \in [Movers -> [Ids -> Paths \cup {None}]]
    /\ cur \in [Movers -> Ids \cup {None}] /\ held \in [Movers -> Data \cup {None}]
    /\ moves \in Nat
    /\ adopt \in [Adopters -> {"idle", "gate", "copying", "insert"}]
    /\ tag \in [Adopters -> Tags \cup {None}] /\ into \in [Adopters -> Dirs \cup {None}]
    /\ digest \in [Adopters -> Digests \cup {None}]
    /\ del \in [Deleters -> {"idle", "read", "removed"}]
    /\ id \in [Deleters -> Ids \cup {None}] /\ at \in [Deleters -> Paths \cup {None}]
    /\ drive \in [Quants -> {"none", "transfer", "landed"}]
    /\ target \in [Quants -> Paths \cup {None}] /\ pinned \in [Quants -> Digests \cup {None}]
    /\ tangled \in BOOLEAN

\* A row names a file that hashes to what the row says, or no file at all: half a
\* copy and another model's contents never stand under a row's hash, whichever step
\* fails or crashes.  The gate of ollama/mod.rs:150-173 and the order of copy, row
\* and location in library/mod.rs:44-62 see to it.  Where tangled is set it is false.
RowsSound ==
    ~tangled => \A i \in Ids : Row(i) => file[path[i]] \in {None, sha[i]}

OnDisk(i) == \E d \in Dirs : file[<<d, path[i][2]>>] = sha[i]

\* The contents a row stands for leave the disk only while a deletion of the row
\* is under way: no relocation, however it fails or crashes, and no adoption
\* or download loses a model.  library/mod.rs:33-36 promises to move the files.
OnlyDeletionLoses ==
    [][\A i \in Ids :
         (~tangled' /\ Row(i) /\ OnDisk(i) /\ Row(i)' /\ sha'[i] = sha[i] /\ ~OnDisk(i)') =>
           \E x \in Deleters : id[x] = i]_vars

\* What a row stands for, whatever its path.
Good(i) == <<path[i][2], sha[i]>>

Shelved == {Good(i) : i \in {j \in Ids : Row(j)}}
WholeGoods == {g \in Models \X Digests : \E d \in Dirs : file[<<d, g[1]>>] = g[2]}
Doomed == {Good(id[x]) : x \in {y \in Deleters : del[y] # "idle"}}

\* The library as its user knows it.
Books == INSTANCE Holdings WITH
    Contents <- Digests, shelf <- Shelved, whole <- WholeGoods, doomed <- Doomed

\* A model is its row, or the two of which one replaces the other, and its file wherever a
\* relocation has it.  Until something is tangled, every step of lib.rs, library/mod.rs and
\* ollama/mod.rs is one of Holdings or none of its concern: no model enters half made, none
\* drops out of the library or off the disk but by its deletion, and none is there in two
\* versions.
ImplementsHoldings == Books!Init /\ [][Books!Next \/ tangled']_(Books!vars)
=============================================================================
