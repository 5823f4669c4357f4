------------------------------ MODULE Discovery ------------------------------
(***************************************************************************)
(* Discovery and the active catalog: the passes over Hugging Face (one at  *)
(* launch, one per refresh, lib.rs and discovery/mod.rs), the file they    *)
(* leave (discovered.json), the catalog bundled with the build, what a     *)
(* reader gets of the two (catalog/mod.rs), and the page that polls it     *)
(* (pages/Browser.tsx).                                                    *)
(*                                                                         *)
(* A pass is awaits from end to end, so passes overlap each other, the     *)
(* uploads they look at, and the page.  An upload replaces the one file a  *)
(* repository has by its next version; a file's hash is its version, its   *)
(* arch block the version whose header was read.                           *)
(***************************************************************************)
EXTENDS Naturals

CONSTANTS
    Passes,     \* concurrent passes
    Repos,      \* repositories
    Full,       \* the versions whose header has every field the fit wants
    Since,      \* when this build was first launched
    MaxTime,    \* (bound: of the clock),
    MaxVersion, \* (and of the versions of a file)
    None        \* no entry, no local

Versions == 1..MaxVersion
Entry == [pin : Versions, of : Versions, full : BOOLEAN]
Entries == [Repos -> Entry \cup {None}]
Catalog == [rev : Nat, entries : Entries]

ASSUME DiscoveryAssumption ==
    /\ Full \subseteq Repos \X Versions
    /\ Since \in Nat \ {0, 1} /\ MaxTime \in Nat /\ MaxVersion \in Nat \ {0}
    /\ None \notin Entry \cup Repos \cup Versions

VARIABLES
    clock,      \* unix seconds
    origin,     \* the version each repository has,
    replaced,   \* and when each version was replaced
    form,       \* discovered.json: empty (or absent), torn, or whole,
    cache,      \* and then the catalog in it
    discovering, \* DISCOVERING
    pc,         \* per pass: where it is,
    rev,        \* its revision,
    seed,       \* what it may reuse of the catalog it started from,
    todo,       \* the repositories it has listed and not looked at,
    at, pin,    \* the one whose header it fetches, and its version,
    found,      \* and its entries
    shown,      \* the page: the revision it shows,
    loaded,     \* loadedRevRef,
    asked,      \* whether it is about to load the catalog,
    loads       \* and the answers on their way, by revision

world == <<clock, origin, replaced>>
file == <<form, cache>>
pass == <<pc, rev, seed, todo, at, pin, found>>
page == <<shown, loaded, asked, loads>>
vars == <<world, file, discovering, pass, page>>

NoEntries == [r \in Repos |-> None]
NoCatalog == [rev |-> 0, entries |-> NoEntries]

\* What catgen made of a repository, and the catalog it made for the build.
Known(r, n) == [pin |-> n, of |-> n, full |-> <<r, n>> \in Full]
Bundled == [rev |-> 1, entries |-> [r \in Repos |-> Known(r, 1)]]

\* What a build before this one made of a repository.
Thin(r, n) == [pin |-> n, of |-> n, full |-> FALSE]

Init ==
    /\ clock = Since
    /\ origin = [r \in Repos |-> 1] /\ replaced = [r \in Repos |-> [n \in Versions |-> 0]]
    /\ \/ form = "empty" /\ cache = NoCatalog
       \/ form = "whole" /\ cache = [rev |-> Since - 1, entries |-> [r \in Repos |-> Thin(r, 1)]]
    /\ discovering = FALSE
    /\ pc = [p \in Passes |-> "idle"] /\ rev = [p \in Passes |-> 0]
    /\ seed = [p \in Passes |-> NoEntries] /\ todo = [p \in Passes |-> {}]
    /\ at = [p \in Passes |-> None] /\ pin = [p \in Passes |-> None]
    /\ found = [p \in Passes |-> NoEntries]
    /\ shown = 0 /\ loaded = 0 /\ asked = TRUE /\ loads = {}

\* get_active_catalog.
Active == IF form = "whole" /\ cache.rev >= Bundled.rev THEN cache ELSE Bundled

----------------------------------------------------------------------------
(* A pass. *)

\* DISCOVERING is set, the active catalog read, the revision taken.
Start(p) ==
    /\ pc[p] = "idle"
    /\ pc' = [pc EXCEPT ![p] = "search"]
    /\ discovering' = TRUE
    /\ seed' = [seed EXCEPT ![p] = Active.entries]
    /\ rev' = [rev EXCEPT ![p] = clock]
    /\ UNCHANGED <<world, file, todo, at, pin, found, page>>

\* The pass returns, its guard is dropped.
Return(p) ==
    /\ pc' = [pc EXCEPT ![p] = "idle"]
    /\ discovering' = FALSE
    /\ rev' = [rev EXCEPT ![p] = 0]
    /\ seed' = [seed EXCEPT ![p] = NoEntries]
    /\ todo' = [todo EXCEPT ![p] = {}]
    /\ at' = [at EXCEPT ![p] = None]
    /\ pin' = [pin EXCEPT ![p] = None]
    /\ found' = [found EXCEPT ![p] = NoEntries]

\* The search lists some of the repositories.
Search(p, S) ==
    /\ pc[p] = "search"
    /\ pc' = [pc EXCEPT ![p] = "repos"]
    /\ todo' = [todo EXCEPT ![p] = S]
    /\ seed' = [seed EXCEPT ![p] = [r \in Repos |-> IF r \in S THEN @[r] ELSE None]]
    /\ UNCHANGED <<world, file, discovering, rev, at, pin, found, page>>

\* With a repository that is through goes what could be reused of it.
Done(p, r) ==
    /\ todo' = [todo EXCEPT ![p] = @ \ {r}]
    /\ seed' = [seed EXCEPT ![p][r] = None]

Looks(p, r) == pc[p] = "repos" /\ r \in todo[p]

\* A mutant: any arch block that is known is reused.
ReusableThin(p, r) == seed[p][r] # None /\ seed[p][r].pin = origin[r]

\* The arch block of this very file is known and has the field the fit wants.
Reusable(p, r) == seed[p][r] # None /\ seed[p][r].pin = origin[r] /\ seed[p][r].full

TreeReuses(p, r) ==
    /\ Looks(p, r) /\ Reusable(p, r)
    /\ found' = [found EXCEPT ![p][r] = seed[p][r]]
    /\ Done(p, r)
    /\ UNCHANGED <<world, file, discovering, pc, rev, at, pin, page>>

TreePins(p, r) ==
    /\ Looks(p, r) /\ ~Reusable(p, r)
    /\ pc' = [pc EXCEPT ![p] = "header"]
    /\ at' = [at EXCEPT ![p] = r]
    /\ pin' = [pin EXCEPT ![p] = origin[r]]
    /\ UNCHANGED <<world, file, discovering, rev, seed, todo, found, page>>

\* An error, no name it can place, no single-file quant: the repository is skipped.
TreeSkips(p, r) ==
    /\ Looks(p, r)
    /\ Done(p, r)
    /\ UNCHANGED <<world, file, discovering, pc, rev, at, pin, found, page>>

\* The header is that of the file the repository has by now.
Header(p) ==
    /\ pc[p] = "header"
    /\ found' = [found EXCEPT ![p][at[p]] =
                   [pin |-> pin[p], of |-> origin[at[p]], full |-> <<at[p], origin[at[p]]>> \in Full]]
    /\ pc' = [pc EXCEPT ![p] = "repos"]
    /\ Done(p, at[p])
    /\ at' = [at EXCEPT ![p] = None]
    /\ pin' = [pin EXCEPT ![p] = None]
    /\ UNCHANGED <<world, file, discovering, rev, page>>

HeaderSkips(p) ==
    /\ pc[p] = "header"
    /\ pc' = [pc EXCEPT ![p] = "repos"]
    /\ Done(p, at[p])
    /\ at' = [at EXCEPT ![p] = None]
    /\ pin' = [pin EXCEPT ![p] = None]
    /\ UNCHANGED <<world, file, discovering, rev, found, page>>

Through(p) == pc[p] = "repos" /\ todo[p] = {}

\* The search fails, nothing usable was found, the file cannot be opened, or the client
\* that asked for the refresh goes away during a request.
GivesUp(p) ==
    /\ pc[p] \in {"search", "repos", "header"}
    /\ Return(p)
    /\ UNCHANGED <<world, file, page>>

\* A mutant: the revision is that of the end of the pass.
SaveStampsLate(p) ==
    /\ Through(p) /\ found[p] # NoEntries
    /\ pc' = [pc EXCEPT ![p] = "writing"]
    /\ form' = "empty" /\ cache' = NoCatalog
    /\ rev' = [rev EXCEPT ![p] = clock]
    /\ UNCHANGED <<world, discovering, seed, todo, at, pin, found, page>>

\* fs::write truncates, whatever is there.
SaveOpens(p) ==
    /\ Through(p) /\ found[p] # NoEntries
    /\ pc' = [pc EXCEPT ![p] = "writing"]
    /\ form' = "empty" /\ cache' = NoCatalog
    /\ UNCHANGED <<world, discovering, rev, seed, todo, at, pin, found, page>>

\* Over what another pass has written since, a shorter catalog leaves a tail.
SaveWrites(p) ==
    /\ pc[p] = "writing"
    /\ \/ form' = "whole" /\ cache' = [rev |-> rev[p], entries |-> found[p]]
       \/ form # "empty" /\ form' = "torn" /\ cache' = NoCatalog
    /\ Return(p)
    /\ UNCHANGED <<world, page>>

\* Something of it is written, or nothing.
SaveFails(p) ==
    /\ pc[p] = "writing"
    /\ \/ form' = "torn" /\ cache' = NoCatalog
       \/ UNCHANGED file
    /\ Return(p)
    /\ UNCHANGED <<world, page>>

----------------------------------------------------------------------------
(* The page. *)

\* pollStatus: a newer revision asks for a load.
PagePolls ==
    /\ Active.rev > loaded
    /\ loaded' = Active.rev
    /\ asked' = TRUE
    /\ UNCHANGED <<world, file, discovering, pass, shown, loads>>

\* A knob is turned, which loads as well.
PageKnob ==
    /\ asked' = TRUE
    /\ UNCHANGED <<world, file, discovering, pass, shown, loaded, loads>>

\* The server reads the catalog for the page.
PageLoads ==
    /\ asked
    /\ asked' = FALSE
    /\ loads' = loads \cup {Active.rev}
    /\ UNCHANGED <<world, file, discovering, pass, shown, loaded>>

\* A mutant: what a load brings does not set the revision the poll compares.
PageReceivesOnly(v) ==
    /\ v \in loads
    /\ loads' = loads \ {v}
    /\ shown' = v
    /\ UNCHANGED <<world, file, discovering, pass, loaded, asked>>

\* Answers come in any order.
PageReceives(v) ==
    /\ v \in loads
    /\ loads' = loads \ {v}
    /\ shown' = v
    /\ loaded' = v
    /\ UNCHANGED <<world, file, discovering, pass, asked>>

----------------------------------------------------------------------------
(* The world around it. *)

Tick ==
    /\ clock < MaxTime
    /\ clock' = clock + 1
    /\ UNCHANGED <<origin, replaced, file, discovering, pass, page>>

Upload(r) ==
    /\ origin[r] < MaxVersion
    /\ origin' = [origin EXCEPT ![r] = @ + 1]
    /\ replaced' = [replaced EXCEPT ![r][origin[r]] = clock]
    /\ UNCHANGED <<clock, file, discovering, pass, page>>

\* The process ends, or dies, and is launched again.
Restart ==
    /\ discovering' = FALSE
    /\ pc' = [p \in Passes |-> "idle"] /\ rev' = [p \in Passes |-> 0]
    /\ seed' = [p \in Passes |-> NoEntries] /\ todo' = [p \in Passes |-> {}]
    /\ at' = [p \in Passes |-> None] /\ pin' = [p \in Passes |-> None]
    /\ found' = [p \in Passes |-> NoEntries]
    /\ shown' = 0 /\ loaded' = 0 /\ asked' = TRUE /\ loads' = {}
    /\ UNCHANGED <<world, file>>

Pass(p) ==
    \/ Start(p)
    \/ \E S \in SUBSET Repos : Search(p, S)
    \/ \E r \in Repos : TreeReuses(p, r) \/ TreePins(p, r) \/ TreeSkips(p, r)
    \/ Header(p) \/ HeaderSkips(p)
    \/ GivesUp(p) \/ SaveOpens(p) \/ SaveWrites(p) \/ SaveFails(p)

Page == PagePolls \/ PageKnob \/ PageLoads \/ \E v \in loads : PageReceives(v)

Next ==
    \/ \E p \in Passes : Pass(p)
    \/ Page
    \/ Tick \/ \E r \in Repos : Upload(r)
    \/ Restart

Spec == Init /\ [][Next]_vars

\* The page polls by a timer, and its requests are answered.
Fairness ==
    WF_vars(PagePolls) /\ WF_vars(PageLoads) /\ WF_vars(\E v \in loads : PageReceives(v))

FairSpec == Spec /\ Fairness

----------------------------------------------------------------------------
\* Every variable keeps its type, and a pass that fetches a header has its repository
\* still to do (discovery/mod.rs:311).
TypeOK ==
    /\ clock \in Nat /\ origin \in [Repos -> Versions] /\ replaced \in [Repos -> [Versions -> Nat]]
    /\ form \in {"empty", "torn", "whole"} /\ cache \in Catalog
    /\ discovering \in BOOLEAN
    /\ pc \in [Passes -> {"idle", "search", "repos", "header", "writing"}]
    /\ rev \in [Passes -> Nat] /\ seed \in [Passes -> Entries]
    /\ todo \in [Passes -> SUBSET Repos]
    /\ at \in [Passes -> Repos \cup {None}] /\ pin \in [Passes -> Versions \cup {None}]
    /\ found \in [Passes -> Entries]
    /\ \A p \in Passes : pc[p] = "header" => at[p] \in todo[p] /\ pin[p] \in Versions
    /\ shown \in Nat /\ loaded \in Nat /\ asked \in BOOLEAN /\ loads \subseteq Nat

\* "the flag can never get stuck on" (lib.rs:330-333): with no pass at work it is off,
\* whichever way the passes ended and overlapped.
FlagClears == (\A p \in Passes : pc[p] = "idle") => ~discovering

\* "its checksums are re-pinned fresh" (discovery/mod.rs:331-333): a catalog of revision t
\* pins no file that had been replaced before t, so a reader who compares revisions
\* compares the ages of the pins.
PinsFresh ==
    form = "whole" => \A r \in Repos : LET e == cache.entries[r] IN
      e # None => e.pin = origin[r] \/ replaced[r][e.pin] >= cache.rev

\* What this build has saved has, for every file that is still the repository's, the arch
\* block of that very file and with every field its header has: neither an upload between
\* the two requests nor an incomplete block of an earlier build (discovery/mod.rs:297-316)
\* is handed on from catalog to catalog.
ArchOfPin ==
    form = "whole" /\ cache.rev >= Since =>
      \A r \in Repos : cache.entries[r] \in {None, Known(r, origin[r])}
                         \/ cache.entries[r].pin # origin[r]

\* The page does not stay behind the active catalog (pages/Browser.tsx:189-195), in
\* whatever order the answers arrive and whenever the file is read half written, unless
\* the app is launched over and over again.
PageCatchesUp == []<>(shown >= Active.rev) \/ []<><<Restart>>_vars
=============================================================================
