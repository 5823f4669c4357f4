--------------------------- MODULE DiscoveryProofs --------------------------
(***************************************************************************)
(* Theorems about Discovery, for any passes, repositories, versions and    *)
(* headers, and a clock that runs as far as it likes.                      *)
(***************************************************************************)
EXTENDS Discovery, TLAPS

USE DiscoveryAssumption

----------------------------------------------------------------------------
(* Types.                                                                  *)

World ==
    /\ clock \in Nat /\ origin \in [Repos -> Versions] /\ replaced \in [Repos -> [Versions -> Nat]]

File ==
    /\ form \in {"empty", "torn", "whole"} /\ cache \in Catalog
    /\ discovering \in BOOLEAN

Passing ==
    /\ pc \in [Passes -> {"idle", "search", "repos", "header", "writing"}]
    /\ rev \in [Passes -> Nat]
    /\ todo \in [Passes -> SUBSET Repos]
    /\ at \in [Passes -> Repos \cup {None}] /\ pin \in [Passes -> Versions \cup {None}]
    /\ \A p \in Passes : pc[p] = "header" => at[p] \in todo[p] /\ pin[p] \in Versions

Kept == seed \in [Passes -> Entries] /\ found \in [Passes -> Entries]

Paging == shown \in Nat /\ loaded \in Nat /\ asked \in BOOLEAN /\ loads \subseteq Nat

Typed == World /\ File /\ Passing /\ Kept /\ Paging

LEMMA TypedIsTypeOK == Typed => TypeOK
BY DEF Typed, TypeOK, World, File, Passing, Kept, Paging

LEMMA KnownEntry == \A r \in Repos, n \in Versions : Known(r, n) \in Entry /\ Thin(r, n) \in Entry
BY DEF Known, Thin, Entry

LEMMA FirstVersion == 1 \in Versions
BY DEF Versions

LEMMA ActiveTyped == cache \in Catalog => Active \in Catalog
<1>1. Bundled \in Catalog
  BY KnownEntry, FirstVersion DEF Bundled, Catalog, Entries
<1> QED BY <1>1 DEF Active

LEMMA NoneTyped == NoEntries \in Entries /\ NoCatalog \in Catalog
BY DEF NoEntries, NoCatalog, Entries, Catalog

LEMMA TypedInit == Init => Typed
<1> SUFFICES ASSUME Init PROVE Typed
  OBVIOUS
<1>1. World
  BY FirstVersion DEF Init, World
<1>2. File
  <2>1. [rev |-> Since - 1, entries |-> [r \in Repos |-> Thin(r, 1)]] \in Catalog
    BY KnownEntry, FirstVersion DEF Catalog, Entries
  <2> QED BY <2>1, NoneTyped DEF Init, File
<1>3. Passing
  BY DEF Init, Passing
<1>4. Kept
  BY NoneTyped DEF Init, Kept
<1>5. Paging
  BY DEF Init, Paging
<1> QED BY <1>1, <1>2, <1>3, <1>4, <1>5 DEF Typed

\* The steps of a pass, by what they leave of its variables.
Steps(p) ==
    \/ Start(p)
    \/ \E S \in SUBSET Repos : Search(p, S)
    \/ \E r \in Repos : TreeReuses(p, r) \/ TreePins(p, r) \/ TreeSkips(p, r)
    \/ Header(p) \/ HeaderSkips(p)

Saves(p) == GivesUp(p) \/ SaveOpens(p) \/ SaveWrites(p) \/ SaveFails(p)

Outside ==
    \/ Page \/ Tick \/ \E r \in Repos : Upload(r)

LEMMA NextSplit ==
    [Next]_vars => (\E p \in Passes : Steps(p) \/ Saves(p)) \/ Outside \/ Restart \/ UNCHANGED vars
BY DEF Next, Pass, Steps, Saves, Outside

LEMMA WorldStep == World /\ [Next]_vars => World'
<1> SUFFICES ASSUME World, [Next]_vars PROVE World'
  OBVIOUS
<1>1. ASSUME NEW r \in Repos, Upload(r) PROVE World'
  BY <1>1 DEF World, Upload, Versions
<1>2. CASE Tick
  BY <1>2 DEF World, Tick
<1>3. ASSUME UNCHANGED world PROVE World'
  BY <1>3 DEF World, world
<1> QED BY <1>1, <1>2, <1>3
        DEF Next, Pass, Start, Search, TreeReuses, TreePins, TreeSkips, Header, HeaderSkips, GivesUp,
            SaveOpens, SaveWrites, SaveFails, Page, PagePolls, PageKnob, PageLoads, PageReceives,
            Restart, vars, world

LEMMA FileStep == Typed /\ [Next]_vars => File'
<1> SUFFICES ASSUME Typed, [Next]_vars PROVE File'
  OBVIOUS
<1> USE DEF Typed, File
<1>1. ASSUME NEW p \in Passes, SaveWrites(p) PROVE File'
  <2>1. [rev |-> rev[p], entries |-> found[p]] \in Catalog
    BY DEF Passing, Kept, Catalog
  <2> QED BY <1>1, <2>1, NoneTyped DEF SaveWrites, Return
<1>2. ASSUME NEW p \in Passes, GivesUp(p) \/ SaveOpens(p) \/ SaveFails(p) PROVE File'
  BY <1>2, NoneTyped DEF GivesUp, SaveOpens, SaveFails, Return, file
<1>3. ASSUME NEW p \in Passes, Start(p) PROVE File'
  BY <1>3 DEF Start, file
<1>4. CASE Restart
  BY <1>4 DEF Restart, file
<1>5. ASSUME UNCHANGED file, UNCHANGED discovering PROVE File'
  BY <1>5 DEF file
<1> QED BY <1>1, <1>2, <1>3, <1>4, <1>5
        DEF Next, Pass, Search, TreeReuses, TreePins, TreeSkips, Header, HeaderSkips,
            Page, PagePolls, PageKnob, PageLoads, PageReceives, Tick, Upload, vars

LEMMA PassingStep == Typed /\ [Next]_vars => Passing'
<1> SUFFICES ASSUME Typed, [Next]_vars PROVE Passing'
  OBVIOUS
<1> USE DEF Typed, Passing
<1>1. ASSUME NEW p \in Passes, Start(p) PROVE Passing'
  BY <1>1 DEF Start, World
<1>2. ASSUME NEW p \in Passes, NEW S \in SUBSET Repos, Search(p, S) PROVE Passing'
  BY <1>2 DEF Search
<1>3. ASSUME NEW p \in Passes, NEW r \in Repos, TreeReuses(p, r) \/ TreeSkips(p, r) PROVE Passing'
  BY <1>3 DEF TreeReuses, TreeSkips, Looks, Done
<1>4. ASSUME NEW p \in Passes, NEW r \in Repos, TreePins(p, r) PROVE Passing'
  BY <1>4 DEF TreePins, Looks, World
<1>5. ASSUME NEW p \in Passes, Header(p) \/ HeaderSkips(p) PROVE Passing'
  BY <1>5 DEF Header, HeaderSkips, Done
<1>6. ASSUME NEW p \in Passes, Return(p) PROVE Passing'
  BY <1>6 DEF Return
<1>7. ASSUME NEW p \in Passes, SaveOpens(p) PROVE Passing'
  BY <1>7 DEF SaveOpens
<1>8. CASE Restart
  BY <1>8 DEF Restart
<1>9. ASSUME UNCHANGED <<pc, rev, todo, at, pin>> PROVE Passing'
  BY <1>9
<1> QED BY <1>1, <1>2, <1>3, <1>4, <1>5, <1>6, <1>7, <1>8, <1>9
        DEF Next, Pass, GivesUp, SaveWrites, SaveFails, Page, PagePolls, PageKnob, PageLoads,
            PageReceives, Tick, Upload, vars, pass

LEMMA KeptStep == Typed /\ [Next]_vars => Kept'
<1> SUFFICES ASSUME Typed, [Next]_vars PROVE Kept'
  OBVIOUS
<1> USE DEF Typed, Kept
<1>1. ASSUME NEW p \in Passes, Start(p) PROVE Kept'
  <2>1. Active.entries \in Entries
    BY ActiveTyped DEF File, Catalog
  <2> QED BY <1>1, <2>1 DEF Start
<1>2. ASSUME NEW p \in Passes, NEW S \in SUBSET Repos, Search(p, S) PROVE Kept'
  <2>1. [r \in Repos |-> IF r \in S THEN seed[p][r] ELSE None] \in Entries
    BY DEF Entries
  <2> QED BY <1>2, <2>1 DEF Search
<1>3. ASSUME NEW p \in Passes, NEW r \in Repos, TreeReuses(p, r) \/ TreeSkips(p, r) PROVE Kept'
  <2>1. [seed[p] EXCEPT ![r] = None] \in Entries /\ [found[p] EXCEPT ![r] = seed[p][r]] \in Entries
    BY DEF Entries
  <2> QED BY <1>3, <2>1 DEF TreeReuses, TreeSkips, Done
<1>4. ASSUME NEW p \in Passes, Header(p) PROVE Kept'
  <2>1. at[p] \in Repos
    BY <1>4 DEF Header, Passing
  <2>2. [pin |-> pin[p], of |-> origin[at[p]], full |-> <<at[p], origin[at[p]]>> \in Full] \in Entry
    BY <1>4, <2>1 DEF Header, Passing, World, Entry
  <2> QED BY <1>4, <2>1, <2>2 DEF Header, Done, Entries
<1>5. ASSUME NEW p \in Passes, HeaderSkips(p) PROVE Kept'
  BY <1>5 DEF HeaderSkips, Done, Entries, Passing
<1>6. ASSUME NEW p \in Passes, Return(p) PROVE Kept'
  BY <1>6, NoneTyped DEF Return
<1>7. CASE Restart
  BY <1>7, NoneTyped DEF Restart
<1>8. ASSUME UNCHANGED <<seed, found>> PROVE Kept'
  BY <1>8
<1> QED BY <1>1, <1>2, <1>3, <1>4, <1>5, <1>6, <1>7, <1>8
        DEF Next, Pass, TreePins, GivesUp, SaveOpens, SaveWrites, SaveFails, Page, PagePolls, PageKnob,
            PageLoads, PageReceives, Tick, Upload, vars, pass

LEMMA PagingStep == Typed /\ [Next]_vars => Paging'
<1> SUFFICES ASSUME Typed, [Next]_vars PROVE Paging'
  OBVIOUS
<1> USE DEF Typed, Paging
<1>1. Active.rev \in Nat
  BY ActiveTyped DEF File, Catalog
<1>2. CASE Page
  BY <1>1, <1>2 DEF Page, PagePolls, PageKnob, PageLoads, PageReceives
<1>3. CASE Restart
  BY <1>3 DEF Restart
<1>4. ASSUME UNCHANGED page PROVE Paging'
  BY <1>4 DEF page
<1> QED BY <1>2, <1>3, <1>4
        DEF Next, Pass, Start, Search, TreeReuses, TreePins, TreeSkips, Header, HeaderSkips, GivesUp,
            SaveOpens, SaveWrites, SaveFails, Tick, Upload, vars

LEMMA TypedStep == Typed /\ [Next]_vars => Typed'
BY WorldStep, FileStep, PassingStep, KeptStep, PagingStep DEF Typed

LEMMA TypedAlways == Spec => []Typed
BY TypedInit, TypedStep, PTL DEF Spec

\* Every variable keeps its type (lib.rs:328-376, discovery/mod.rs:268-366).
THEOREM DiscoveryTyped == Spec => []TypeOK
BY TypedAlways, TypedIsTypeOK, PTL

----------------------------------------------------------------------------
(* The flag.                                                               *)

\* With no pass at work the flag is off (lib.rs:332-340): whichever ends clears it, and
\* only one that is at work has set it.
THEOREM DiscoveryFlagClears == Spec => []FlagClears
<1>1. Init => FlagClears
  BY DEF Init, FlagClears
<1>2. Typed /\ FlagClears /\ [Next]_vars => FlagClears'
  <2> SUFFICES ASSUME Typed, FlagClears, [Next]_vars PROVE FlagClears'
    OBVIOUS
  <2> USE DEF Typed, Passing, FlagClears
  <2>1. ASSUME NEW p \in Passes, Steps(p) PROVE FlagClears'
    BY <2>1 DEF Steps, Start, Search, TreeReuses, TreePins, TreeSkips, Looks, Header, HeaderSkips
  <2>2. ASSUME NEW p \in Passes, Saves(p) PROVE FlagClears'
    BY <2>2 DEF Saves, GivesUp, SaveOpens, SaveWrites, SaveFails, Return
  <2>3. CASE Restart
    BY <2>3 DEF Restart
  <2>4. CASE Outside \/ UNCHANGED vars
    BY <2>4 DEF Outside, Page, PagePolls, PageKnob, PageLoads, PageReceives, Tick, Upload, vars, pass
  <2> QED BY <2>1, <2>2, <2>3, <2>4, NextSplit
<1> QED BY <1>1, <1>2, TypedAlways, PTL DEF Spec

----------------------------------------------------------------------------
(* Entries.  An entry is sound when it pins no version yet to come and, while it pins the  *)
(* repository's file, has that file's arch block; complete when the block then has every   *)
(* field as well; fresh for t when its pin was still the file at t.                        *)

Sound(e, r) ==
    e # None =>
      /\ e.pin <= origin[r]
      /\ e.pin = origin[r] => e.of = e.pin /\ (e.full => <<r, e.of>> \in Full)

Complete(e, r) == e # None /\ e.pin = origin[r] => e.of = e.pin /\ e.full = (<<r, e.of>> \in Full)

FreshPin(n, r, t) == n = origin[r] \/ t <= replaced[r][n]

Fresh(e, r, t) == e # None => FreshPin(e.pin, r, t)

\* The clock is past every revision.
Clocks ==
    /\ Since <= clock /\ cache.rev <= clock
    /\ \A p \in Passes : rev[p] <= clock /\ (pc[p] # "idle" => Since <= rev[p])

Cached ==
    \A r \in Repos :
      /\ Sound(cache.entries[r], r)
      /\ Since <= cache.rev => Complete(cache.entries[r], r)
      /\ Fresh(cache.entries[r], r, cache.rev)

Seeded == \A p \in Passes, r \in Repos : Sound(seed[p][r], r)

Pinned ==
    \A p \in Passes : pc[p] = "header" =>
      pin[p] <= origin[at[p]] /\ FreshPin(pin[p], at[p], rev[p])

Found ==
    \A p \in Passes, r \in Repos :
      /\ Sound(found[p][r], r) /\ Complete(found[p][r], r) /\ Fresh(found[p][r], r, rev[p])
      /\ pc[p] \in {"idle", "search"} => found[p][r] = None

EntriesInv == Clocks /\ Cached /\ Seeded /\ Pinned /\ Found

LEMMA EntriesInit == Init => EntriesInv
<1> SUFFICES ASSUME Init PROVE EntriesInv
  OBVIOUS
<1>1. \A r \in Repos : Sound(None, r) /\ Complete(None, r) /\ \A t \in Nat : Fresh(None, r, t)
  BY DEF Sound, Complete, Fresh
<1>2. Clocks
  BY DEF Init, Clocks, NoCatalog
<1>3. Cached
  BY <1>1 DEF Init, Cached, NoCatalog, NoEntries, Thin, Sound, Fresh, FreshPin
<1>4. Seeded /\ Pinned /\ Found
  BY <1>1 DEF Init, Seeded, Pinned, Found, NoEntries
<1> QED BY <1>2, <1>3, <1>4 DEF EntriesInv

LEMMA ClocksStep == Typed /\ Clocks /\ [Next]_vars => Clocks'
<1> SUFFICES ASSUME Typed, Clocks, [Next]_vars PROVE Clocks'
  OBVIOUS
<1> USE DEF Clocks, Typed, World, File, Passing, Catalog
<1>1. ASSUME NEW p \in Passes, Start(p) PROVE Clocks'
  BY <1>1 DEF Start, world, file
<1>2. ASSUME NEW p \in Passes, Steps(p), ~Start(p) PROVE Clocks'
  BY <1>2 DEF Steps, Search, TreeReuses, TreePins, TreeSkips, Looks, Header, HeaderSkips, world, file
<1>3. ASSUME NEW p \in Passes, Saves(p) PROVE Clocks'
  BY <1>3 DEF Saves, GivesUp, SaveOpens, SaveWrites, SaveFails, Through, Return, NoCatalog, world, file
<1>4. CASE Restart
  BY <1>4 DEF Restart, world, file
<1>5. CASE Outside \/ UNCHANGED vars
  BY <1>5 DEF Outside, Page, PagePolls, PageKnob, PageLoads, PageReceives, Tick, Upload, vars, pass,
              world, file
<1> QED BY <1>1, <1>2, <1>3, <1>4, <1>5, NextSplit

\* An upload leaves every entry what it was: the new version is pinned by none, and the
\* old one is replaced now.
LEMMA UploadKeeps ==
    ASSUME World, NEW q \in Repos, Upload(q), NEW r \in Repos, NEW e \in Entry \cup {None},
           Sound(e, r)
    PROVE  /\ Sound(e, r)' /\ (Complete(e, r) => Complete(e, r)')
           /\ \A t \in Nat : t <= clock /\ Fresh(e, r, t) => Fresh(e, r, t)'
<1>1. CASE e = None
  BY <1>1 DEF Sound, Complete, Fresh
<1>2. CASE e \in Entry /\ r # q
  <2>1. origin'[r] = origin[r] /\ replaced'[r] = replaced[r]
    BY <1>2 DEF Upload, World
  <2> QED BY <2>1 DEF Sound, Complete, Fresh, FreshPin
<1>3. CASE e \in Entry /\ r = q
  <2>1. PICK n \in Versions : n = e.pin
    BY <1>3 DEF Entry
  <2>2. PICK o \in Nat : o = origin[r] /\ origin'[r] = o + 1
    BY <1>3 DEF Upload, World, Versions
  <2>3. n <= o /\ e # None
    BY <1>3, <2>1, <2>2 DEF Sound, Entry
  <2>4. n # o + 1 /\ n <= o + 1
    BY <2>3 DEF Versions
  <2>5. replaced'[r] = [replaced[r] EXCEPT ![o] = clock] /\ replaced[r] \in [Versions -> Nat]
    BY <1>3, <2>2 DEF Upload, World
  <2>6. ASSUME NEW t \in Nat, t <= clock, FreshPin(n, r, t) PROVE FreshPin(n, r, t)'
    <3>1. CASE n = o
      BY <2>5, <2>6, <3>1 DEF FreshPin
    <3>2. CASE n # o
      BY <2>2, <2>5, <2>6, <3>2 DEF FreshPin
    <3> QED BY <3>1, <3>2
  <2>7. Sound(e, r)' /\ Complete(e, r)'
    BY <2>1, <2>2, <2>4 DEF Sound, Complete
  <2>8. ASSUME NEW t \in Nat, t <= clock, Fresh(e, r, t) PROVE Fresh(e, r, t)'
    BY <2>1, <2>3, <2>6, <2>8 DEF Fresh
  <2> QED BY <2>7, <2>8
<1> QED BY <1>1, <1>2, <1>3

LEMMA UploadKeepsPin ==
    ASSUME World, NEW q \in Repos, Upload(q), NEW r \in Repos, NEW n \in Versions, NEW t \in Nat,
           n <= origin[r], FreshPin(n, r, t), t <= clock
    PROVE  n <= origin'[r] /\ FreshPin(n, r, t)'
<1> USE DEF World, Versions, Upload, FreshPin
<1>1. CASE r # q
  BY <1>1
<1>2. CASE r = q /\ n = origin[r]
  BY <1>2
<1>3. CASE r = q /\ n # origin[r]
  BY <1>3
<1> QED BY <1>1, <1>2, <1>3

\* What is bundled, or kept from before, is sound.
LEMMA ActiveSound ==
    ASSUME Typed, Cached, NEW r \in Repos
    PROVE  Sound(Active.entries[r], r)
<1>1. CASE Active = cache
  BY <1>1 DEF Cached
<1>2. CASE Active = Bundled
  <2>1. Bundled.entries[r] = [pin |-> 1, of |-> 1, full |-> <<r, 1>> \in Full]
    BY DEF Bundled, Known
  <2>2. Bundled.entries[r].pin = 1 /\ Bundled.entries[r].of = 1
    BY <2>1
  <2>3. ASSUME Bundled.entries[r].full, <<r, 1>> \notin Full PROVE FALSE
    <3>1. (<<r, 1>> \in Full) = FALSE
      BY <2>3
    <3>2. Bundled.entries[r] = [pin |-> 1, of |-> 1, full |-> FALSE]
      BY <2>1, <3>1
    <3> QED BY <2>3, <3>2
  <2>4. 1 <= origin[r]
    BY DEF Typed, World, Versions
  <2>5. Sound(Bundled.entries[r], r)
    BY <2>2, <2>3, <2>4 DEF Sound
  <2> QED BY <1>2, <2>5
<1>3. Active = cache \/ Active = Bundled
  BY DEF Active
<1> QED BY <1>1, <1>2, <1>3

LEMMA CachedStep == Typed /\ EntriesInv /\ [Next]_vars => Cached'
<1> SUFFICES ASSUME Typed, EntriesInv, [Next]_vars, NEW r \in Repos
             PROVE  /\ Sound(cache.entries[r], r)'
                    /\ Since <= cache'.rev => Complete(cache.entries[r], r)'
                    /\ Fresh(cache.entries[r], r, cache.rev)'
  BY DEF Cached
<1>1. ASSUME UNCHANGED <<cache, origin, replaced>>
      PROVE  /\ Sound(cache.entries[r], r)'
             /\ Since <= cache'.rev => Complete(cache.entries[r], r)'
             /\ Fresh(cache.entries[r], r, cache.rev)'
  BY <1>1 DEF EntriesInv, Cached, Sound, Complete, Fresh, FreshPin
<1>2. ASSUME NEW q \in Repos, Upload(q)
      PROVE  /\ Sound(cache.entries[r], r)'
             /\ Since <= cache'.rev => Complete(cache.entries[r], r)'
             /\ Fresh(cache.entries[r], r, cache.rev)'
  <2>1. cache' = cache /\ cache.entries[r] \in Entry \cup {None} /\ cache.rev \in Nat /\ cache.rev <= clock
    BY <1>2 DEF Upload, file, Typed, File, Catalog, Entries, EntriesInv, Clocks
  <2>2. PICK e \in Entry \cup {None} : e = cache.entries[r]
    BY <2>1
  <2>3. World /\ Sound(e, r) /\ (Since <= cache.rev => Complete(e, r)) /\ Fresh(e, r, cache.rev)
    BY <2>2 DEF EntriesInv, Cached, Typed
  <2>4. /\ Sound(e, r)' /\ (Complete(e, r) => Complete(e, r)')
        /\ \A t \in Nat : t <= clock /\ Fresh(e, r, t) => Fresh(e, r, t)'
    BY <1>2, <2>3, UploadKeeps
  <2>5. PICK t \in Nat : t = cache.rev
    BY <2>1
  <2>6. Sound(e, r)' /\ (Since <= cache.rev => Complete(e, r)') /\ Fresh(e, r, t)'
    BY <2>1, <2>3, <2>4, <2>5
  <2> QED BY <2>1, <2>2, <2>5, <2>6 DEF Sound, Complete, Fresh, FreshPin
<1>3. ASSUME cache' = NoCatalog
      PROVE  /\ Sound(cache.entries[r], r)'
             /\ Since <= cache'.rev => Complete(cache.entries[r], r)'
             /\ Fresh(cache.entries[r], r, cache.rev)'
  BY <1>3 DEF NoCatalog, NoEntries, Sound, Complete, Fresh
<1>4. ASSUME NEW p \in Passes, cache' = [rev |-> rev[p], entries |-> found[p]],
             UNCHANGED <<origin, replaced>>
      PROVE  /\ Sound(cache.entries[r], r)'
             /\ Since <= cache'.rev => Complete(cache.entries[r], r)'
             /\ Fresh(cache.entries[r], r, cache.rev)'
  BY <1>4 DEF EntriesInv, Found, Sound, Complete, Fresh, FreshPin
<1>5. ASSUME NEW p \in Passes, Steps(p) PROVE UNCHANGED <<cache, origin, replaced>>
  BY <1>5 DEF Steps, Start, Search, TreeReuses, TreePins, TreeSkips, Header, HeaderSkips, world, file
<1>6. ASSUME NEW p \in Passes, Saves(p)
      PROVE  /\ UNCHANGED <<origin, replaced>>
             /\ cache' \in {cache, NoCatalog, [rev |-> rev[p], entries |-> found[p]]}
  BY <1>6 DEF Saves, GivesUp, SaveOpens, SaveWrites, SaveFails, world, file
<1>7. CASE Restart \/ Page \/ Tick \/ UNCHANGED vars
  BY <1>1, <1>7 DEF Restart, Page, PagePolls, PageKnob, PageLoads, PageReceives, Tick, vars, world, file
<1> QED BY <1>1, <1>2, <1>3, <1>4, <1>5, <1>6, <1>7, NextSplit DEF Outside

LEMMA SeededStep == Typed /\ EntriesInv /\ [Next]_vars => Seeded'
<1> SUFFICES ASSUME Typed, EntriesInv, [Next]_vars, NEW o \in Passes, NEW r \in Repos
             PROVE  Sound(seed[o][r], r)'
  BY DEF Seeded
<1>1. Sound(seed[o][r], r) /\ seed[o][r] \in Entry \cup {None}
  BY DEF EntriesInv, Seeded, Typed, Kept, Entries
<1>2. ASSUME UNCHANGED <<origin, replaced>>, seed'[o][r] \in {seed[o][r], None, Active.entries[r]}
      PROVE  Sound(seed[o][r], r)'
  BY <1>1, <1>2, ActiveSound DEF EntriesInv, Sound
<1>3. ASSUME NEW q \in Repos, Upload(q) PROVE Sound(seed[o][r], r)'
  <2>1. PICK e \in Entry \cup {None} : e = seed[o][r]
    BY <1>1
  <2>2. Sound(e, r) /\ World /\ seed' = seed
    BY <1>1, <1>3, <2>1 DEF Typed, Upload, pass
  <2>3. Sound(e, r)'
    BY <1>3, <2>2, UploadKeeps
  <2> QED BY <2>1, <2>2, <2>3 DEF Sound
<1> USE DEF Typed, Kept, Entries
<1>4. ASSUME NEW p \in Passes, Start(p) PROVE Sound(seed[o][r], r)'
  BY <1>2, <1>4 DEF Start, world
<1>5. ASSUME NEW p \in Passes, NEW S \in SUBSET Repos, Search(p, S) PROVE Sound(seed[o][r], r)'
  BY <1>2, <1>5 DEF Search, world
<1>6. ASSUME NEW p \in Passes, NEW q \in Repos, TreeReuses(p, q) \/ TreePins(p, q) \/ TreeSkips(p, q)
      PROVE  Sound(seed[o][r], r)'
  BY <1>2, <1>6 DEF TreeReuses, TreePins, TreeSkips, Done, world
<1>7. ASSUME NEW p \in Passes, Header(p) \/ HeaderSkips(p) PROVE Sound(seed[o][r], r)'
  <2>1. UNCHANGED world /\ Done(p, at[p])
    BY <1>7 DEF Header, HeaderSkips
  <2>2. seed' = [seed EXCEPT ![p] = [seed[p] EXCEPT ![at[p]] = None]]
    BY <2>1 DEF Done
  <2> QED BY <1>2, <2>1, <2>2 DEF world
<1>8. ASSUME NEW p \in Passes, Saves(p) PROVE Sound(seed[o][r], r)'
  BY <1>2, <1>8 DEF Saves, GivesUp, SaveOpens, SaveWrites, SaveFails, Return, NoEntries, world
<1>9. CASE Restart
  BY <1>2, <1>9 DEF Restart, NoEntries, world
<1>10. CASE Page \/ Tick \/ UNCHANGED vars
  BY <1>2, <1>10 DEF Page, PagePolls, PageKnob, PageLoads, PageReceives, Tick, vars, world, pass
<1> QED BY <1>3, <1>4, <1>5, <1>6, <1>7, <1>8, <1>9, <1>10, NextSplit DEF Outside, Steps

LEMMA PinnedStep == Typed /\ EntriesInv /\ [Next]_vars => Pinned'
<1> SUFFICES ASSUME Typed, EntriesInv, [Next]_vars, NEW o \in Passes, pc'[o] = "header"
             PROVE  pin'[o] <= origin'[at'[o]] /\ FreshPin(pin[o], at[o], rev[o])'
  BY DEF Pinned
<1> USE DEF Typed, Passing
<1>1. ASSUME UNCHANGED <<origin, replaced>>, pc[o] = "header", at'[o] = at[o], pin'[o] = pin[o],
             rev'[o] = rev[o]
      PROVE  pin'[o] <= origin'[at'[o]] /\ FreshPin(pin[o], at[o], rev[o])'
  BY <1>1 DEF EntriesInv, Pinned, FreshPin
<1>2. ASSUME NEW q \in Repos, Upload(q)
      PROVE  pin'[o] <= origin'[at'[o]] /\ FreshPin(pin[o], at[o], rev[o])'
  <2>1. UNCHANGED <<pc, at, pin, rev>> /\ pc[o] = "header"
    BY <1>2 DEF Upload, pass
  <2>2. PICK r \in Repos, n \in Versions, t \in Nat : r = at[o] /\ n = pin[o] /\ t = rev[o]
    BY <2>1
  <2>3. n <= origin[r] /\ FreshPin(n, r, t) /\ t <= clock /\ World
    BY <2>1, <2>2 DEF EntriesInv, Pinned, Clocks
  <2>4. n <= origin'[r] /\ FreshPin(n, r, t)'
    BY <1>2, <2>3, UploadKeepsPin
  <2> QED BY <2>1, <2>2, <2>4 DEF FreshPin
<1>3. ASSUME NEW p \in Passes, NEW r \in Repos, TreePins(p, r)
      PROVE  pin'[o] <= origin'[at'[o]] /\ FreshPin(pin[o], at[o], rev[o])'
  <2>1. CASE o = p
    BY <1>3, <2>1 DEF TreePins, FreshPin, world, World, Versions
  <2>2. CASE o # p
    BY <1>1, <1>3, <2>2 DEF TreePins, world
  <2> QED BY <2>1, <2>2
<1>4. ASSUME NEW p \in Passes, Start(p) \/ Header(p) \/ HeaderSkips(p) \/ Saves(p)
      PROVE  pin'[o] <= origin'[at'[o]] /\ FreshPin(pin[o], at[o], rev[o])'
  BY <1>1, <1>4 DEF Start, Header, HeaderSkips, Saves, GivesUp, SaveOpens, SaveWrites, SaveFails,
                    Return, world
<1>5. ASSUME NEW p \in Passes, NEW S \in SUBSET Repos, Search(p, S)
      PROVE  pin'[o] <= origin'[at'[o]] /\ FreshPin(pin[o], at[o], rev[o])'
  BY <1>1, <1>5 DEF Search, world
<1>6. ASSUME NEW p \in Passes, NEW r \in Repos, TreeReuses(p, r) \/ TreeSkips(p, r)
      PROVE  pin'[o] <= origin'[at'[o]] /\ FreshPin(pin[o], at[o], rev[o])'
  BY <1>1, <1>6 DEF TreeReuses, TreeSkips, world
<1>7. ~Restart
  BY DEF Restart
<1>8. CASE Page \/ Tick \/ UNCHANGED vars
  BY <1>1, <1>8 DEF Page, PagePolls, PageKnob, PageLoads, PageReceives, Tick, vars, world, pass
<1> QED BY <1>2, <1>3, <1>4, <1>5, <1>6, <1>7, <1>8, NextSplit DEF Outside, Steps

\* What a look at a repository finds, of the file it has or of the one it had.
LEMMA ReusedIsComplete ==
    ASSUME Typed, EntriesInv, NEW p \in Passes, NEW r \in Repos, Reusable(p, r)
    PROVE  /\ Sound(seed[p][r], r) /\ Complete(seed[p][r], r) /\ Fresh(seed[p][r], r, rev[p])
<1>1. Sound(seed[p][r], r) /\ seed[p][r] \in Entry
  BY DEF EntriesInv, Seeded, Typed, Kept, Entries, Reusable
<1>2. seed[p][r].full = TRUE /\ seed[p][r].pin = origin[r]
  BY <1>1 DEF Reusable, Entry
<1>3. <<r, seed[p][r].of>> \in Full /\ seed[p][r].of = seed[p][r].pin
  BY <1>1, <1>2 DEF Sound, Reusable
<1>4. (<<r, seed[p][r].of>> \in Full) = TRUE
  BY <1>3
<1> QED BY <1>1, <1>2, <1>3, <1>4 DEF Complete, Fresh, FreshPin

\* A name for the value of a membership.
LEMMA BooleanOf == \A x, S : \E b \in BOOLEAN : b = (x \in S)
<1> SUFFICES ASSUME NEW x, NEW S PROVE \E b \in BOOLEAN : b = (x \in S)
  OBVIOUS
<1>1. CASE x \in S
  <2>1. TRUE = (x \in S)
    BY <1>1
  <2> QED BY <2>1
<1>2. CASE x \notin S
  <2>1. FALSE = (x \in S)
    BY <1>2
  <2> QED BY <2>1
<1> QED BY <1>1, <1>2

LEMMA FoundStep == Typed /\ EntriesInv /\ [Next]_vars => Found'
<1> SUFFICES ASSUME Typed, EntriesInv, [Next]_vars, NEW o \in Passes, NEW r \in Repos
             PROVE  /\ Sound(found[o][r], r)' /\ Complete(found[o][r], r)'
                    /\ Fresh(found[o][r], r, rev[o])'
                    /\ pc'[o] \in {"idle", "search"} => found'[o][r] = None
  BY DEF Found
<1> DEFINE Goal == /\ Sound(found[o][r], r)' /\ Complete(found[o][r], r)'
                   /\ Fresh(found[o][r], r, rev[o])'
                   /\ pc'[o] \in {"idle", "search"} => found'[o][r] = None
<1> USE DEF Typed, Passing
<1>1. ASSUME UNCHANGED <<origin, replaced>>, found'[o] = found[o], rev'[o] = rev[o],
             pc'[o] = pc[o] \/ pc'[o] \notin {"idle", "search"} \/ pc[o] = "idle"
      PROVE  Goal
  BY <1>1 DEF EntriesInv, Found, Sound, Complete, Fresh, FreshPin
<1>2. ASSUME found'[o][r] = None PROVE Goal
  BY <1>2 DEF Sound, Complete, Fresh
<1>3. ASSUME NEW q \in Repos, Upload(q) PROVE Goal
  <2>1. UNCHANGED <<pc, rev, found>>
    BY <1>3 DEF Upload, pass
  <2>2. found[o][r] \in Entry \cup {None}
    BY DEF Kept, Entries
  <2>3. PICK e \in Entry \cup {None}, t \in Nat : e = found[o][r] /\ t = rev[o]
    BY <2>2
  <2>4. /\ World /\ Sound(e, r) /\ Complete(e, r) /\ Fresh(e, r, t) /\ t <= clock
        /\ pc[o] \in {"idle", "search"} => e = None
    BY <2>3 DEF EntriesInv, Found, Clocks
  <2>5. Sound(e, r)' /\ Complete(e, r)' /\ Fresh(e, r, t)'
    BY <1>3, <2>4, UploadKeeps
  <2> QED BY <2>1, <2>3, <2>4, <2>5 DEF Sound, Complete, Fresh, FreshPin
<1>4. ASSUME NEW p \in Passes, Start(p) PROVE Goal
  <2>1. CASE o = p
    BY <1>2, <1>4, <2>1 DEF Start, EntriesInv, Found
  <2>2. CASE o # p
    BY <1>1, <1>4, <2>2 DEF Start, world
  <2> QED BY <2>1, <2>2
<1>5. ASSUME NEW p \in Passes, NEW S \in SUBSET Repos, Search(p, S) PROVE Goal
  BY <1>1, <1>5 DEF Search, world
<1>6. ASSUME NEW p \in Passes, NEW q \in Repos, TreePins(p, q) \/ TreeSkips(p, q) PROVE Goal
  BY <1>1, <1>6 DEF TreePins, TreeSkips, world
<1>7. ASSUME NEW p \in Passes, NEW q \in Repos, TreeReuses(p, q) PROVE Goal
  <2>1. CASE o = p /\ q = r
    <3>1. /\ found'[o][r] = seed[p][r] /\ UNCHANGED <<origin, replaced, rev, pc>>
          /\ pc[o] = "repos" /\ Reusable(p, r)
      BY <1>7, <2>1 DEF TreeReuses, Looks, Kept, Entries, world
    <3>2. Sound(seed[p][r], r) /\ Complete(seed[p][r], r) /\ Fresh(seed[p][r], r, rev[p])
      BY <3>1, ReusedIsComplete
    <3> QED BY <2>1, <3>1, <3>2 DEF Sound, Complete, Fresh, FreshPin
  <2>2. CASE ~(o = p /\ q = r)
    <3>1. found'[o][r] = found[o][r] /\ UNCHANGED <<origin, replaced, rev, pc>>
      BY <1>7, <2>2 DEF TreeReuses, Kept, Entries, world
    <3> QED BY <3>1 DEF EntriesInv, Found, Sound, Complete, Fresh, FreshPin
  <2> QED BY <2>1, <2>2
<1>8. ASSUME NEW p \in Passes, Header(p) PROVE Goal
  <2>1. UNCHANGED <<origin, replaced, rev>> /\ pc[p] = "header" /\ at[p] \in Repos
    BY <1>8 DEF Header, world
  <2>2. CASE o = p /\ at[p] = r
    <3>1. PICK b \in BOOLEAN : b = (<<r, origin[r]>> \in Full)
      BY BooleanOf
    <3>2. found'[o][r] = [pin |-> pin[p], of |-> origin[r], full |-> b]
      BY <1>8, <2>2, <3>1 DEF Header, Kept, Entries
    <3>3. pin[p] <= origin[r] /\ FreshPin(pin[p], r, rev[p])
      BY <2>1, <2>2 DEF EntriesInv, Pinned
    <3>4. found'[o][r].pin = pin[p] /\ found'[o][r].of = origin[r] /\ found'[o][r].full = b
      BY <3>2
    <3>5. found'[o][r].full = (<<r, found'[o][r].of>> \in Full)
      BY <3>1, <3>4
    <3>6. found'[o][r].full => <<r, found'[o][r].of>> \in Full
      BY <3>5
    <3>7. Sound(found[o][r], r)' /\ Complete(found[o][r], r)'
      BY <2>1, <3>3, <3>4, <3>5, <3>6 DEF Sound, Complete
    <3>8. Fresh(found[o][r], r, rev[o])'
      BY <2>1, <2>2, <3>3, <3>4 DEF Fresh, FreshPin
    <3>9. pc'[o] = "repos"
      BY <1>8, <2>2 DEF Header
    <3> QED BY <3>7, <3>8, <3>9
  <2>3. CASE ~(o = p /\ at[p] = r)
    <3>1. found'[o][r] = found[o][r] /\ (pc'[o] = pc[o] \/ pc'[o] = "repos")
      BY <1>8, <2>1, <2>3 DEF Header, Kept, Entries
    <3> QED BY <2>1, <3>1 DEF EntriesInv, Found, Sound, Complete, Fresh, FreshPin
  <2> QED BY <2>2, <2>3
<1>9. ASSUME NEW p \in Passes, HeaderSkips(p) PROVE Goal
  BY <1>1, <1>9 DEF HeaderSkips, world
<1>10. ASSUME NEW p \in Passes, SaveOpens(p) PROVE Goal
  BY <1>1, <1>10 DEF SaveOpens, world
<1>11. ASSUME NEW p \in Passes, Return(p), UNCHANGED world PROVE Goal
  <2>1. CASE o = p
    BY <1>2, <1>11, <2>1 DEF Return, NoEntries, Kept
  <2>2. CASE o # p
    BY <1>1, <1>11, <2>2 DEF Return, world, Kept
  <2> QED BY <2>1, <2>2
<1>12. CASE Restart
  BY <1>2, <1>12 DEF Restart, NoEntries
<1>13. CASE Page \/ Tick \/ UNCHANGED vars
  BY <1>1, <1>13 DEF Page, PagePolls, PageKnob, PageLoads, PageReceives, Tick, vars, world, pass
<1> QED BY <1>3, <1>4, <1>5, <1>6, <1>7, <1>8, <1>9, <1>10, <1>11, <1>12, <1>13, NextSplit
        DEF Outside, Steps, Saves, GivesUp, SaveWrites, SaveFails

LEMMA EntriesAlways == Spec => []EntriesInv
<1>1. Typed /\ EntriesInv /\ [Next]_vars => EntriesInv'
  <2> SUFFICES ASSUME Typed, EntriesInv, [Next]_vars PROVE EntriesInv'
    OBVIOUS
  <2>1. Clocks'
    BY ClocksStep DEF EntriesInv
  <2>2. Cached' /\ Seeded' /\ Pinned' /\ Found'
    BY CachedStep, SeededStep, PinnedStep, FoundStep
  <2> QED BY <2>1, <2>2 DEF EntriesInv
<1> QED BY <1>1, EntriesInit, TypedAlways, PTL DEF Spec

\* A catalog of revision t pins no file that had been replaced before t
\* (discovery/mod.rs:281-294, lib.rs:357-363): a pass is as fresh as its start, and what it
\* reuses it has compared with the repository.
THEOREM DiscoveryPinsFresh == Spec => []PinsFresh
<1>1. EntriesInv => PinsFresh
  BY DEF EntriesInv, Cached, Fresh, FreshPin, PinsFresh
<1> QED BY <1>1, EntriesAlways, PTL

\* What this build has saved has the arch block of the very file it pins, and with every
\* field its header has, for as long as that is the repository's (discovery/mod.rs:297-316).
THEOREM DiscoveryArchOfPin == Spec => []ArchOfPin
<1>1. Typed /\ EntriesInv => ArchOfPin
  <2> SUFFICES ASSUME Typed, EntriesInv, Since <= cache.rev, NEW r \in Repos,
                      cache.entries[r] # None, cache.entries[r].pin = origin[r]
               PROVE  cache.entries[r] = Known(r, origin[r])
    BY DEF ArchOfPin, Typed, File, Catalog
  <2> DEFINE e == cache.entries[r]
  <2>1. e \in Entry
    BY DEF Typed, File, Catalog, Entries
  <2>2. e.of = origin[r] /\ e.full = (<<r, e.of>> \in Full)
    BY DEF EntriesInv, Cached, Complete
  <2>3. PICK b \in BOOLEAN : b = (<<r, origin[r]>> \in Full)
    BY BooleanOf
  <2>4. e = [pin |-> origin[r], of |-> origin[r], full |-> b]
    BY <2>1, <2>2, <2>3 DEF Entry
  <2> QED BY <2>3, <2>4 DEF Known
<1> QED BY <1>1, TypedAlways, EntriesAlways, PTL

=============================================================================
