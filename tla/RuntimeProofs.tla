---------------------------- MODULE RuntimeProofs ----------------------------
(* Proofs about Runtime, for any loads, ports, probes and restarts.        *)
EXTENDS Runtime, TLAPS

\* A load whose server has not been spawned yet, and one that holds the mutex.
Early == {"idle", "found", "killed"}

Holding == {"killed", "spawned"}

----------------------------------------------------------------------------
(* Types.                                                                  *)

\* Every step keeps every variable's type.
LEMMA TypedStep == TypeOK /\ [Next]_vars => TypeOK'
<1> SUFFICES ASSUME TypeOK, [Next]_vars PROVE TypeOK'
  OBVIOUS
<1> USE RuntimeAssumption DEF TypeOK, Up, MissLimit
<1>1. ASSUME NEW l \in Loads, Handler(l) PROVE TypeOK'
  BY <1>1 DEF Handler, Find, Kill, Spawn, SpawnFails, Show, Move, Unload, watch, procs, status
<1>2. ASSUME NEW l \in Loads, Watcher(l) PROVE TypeOK'
  <2>1. CASE ProbeAnswered(l) \/ Check(l) \/ Alive(l)
    BY <2>1 DEF ProbeAnswered, Check, Alive, Move, watch, procs, status
  <2>2. CASE ProbeMissed(l)
    BY <2>2 DEF ProbeMissed, watch, procs, status
  <2>3. CASE GiveUp(l) \/ MarkReady(l) \/ MarkLost(l)
    BY <2>3 DEF GiveUp, MarkReady, MarkLost, Mark, Move, watch, procs, status
  <2>4. CASE Miss(l)
    BY <2>4 DEF Miss, Move, watch, procs, status
  <2> QED BY <1>2, <2>1, <2>2, <2>3, <2>4 DEF Watcher
<1>3. ASSUME NEW l \in Loads, Process(l) PROVE TypeOK'
  BY <1>3 DEF Process, Serves, Hangs, Dies, watch, procs, status
<1>4. CASE Stop \/ StopShow
  BY <1>4 DEF Stop, StopShow, Unload, watch, procs, status
<1>5. CASE Restart
  BY <1>5 DEF Restart, watch, procs, status
<1>6. CASE UNCHANGED vars
  BY <1>6 DEF vars, watch, procs, status
<1> QED BY <1>1, <1>2, <1>3, <1>4, <1>5, <1>6 DEF Next

\* Every variable keeps its type.
THEOREM RuntimeTyped == Spec => []TypeOK
<1>1. Init => TypeOK
  BY RuntimeAssumption DEF Init, TypeOK, Up, MissLimit
<1> QED BY <1>1, TypedStep, PTL DEF Spec

----------------------------------------------------------------------------
(* One sidecar, and the status that names it.                              *)

LockInv ==
    /\ \A l \in Loads : lock = l <=> pc[l] \in Holding
    /\ \A l \in Loads : pc[l] = "killed" => child = None
    /\ \A l \in Loads : pc[l] = "spawned" => child = l
    /\ lock = Stopper => child = None

NotUpEarly == \A l \in Loads : pc[l] \in Early => server[l] \notin Up

SidecarInv == LockInv /\ NotUpEarly /\ OneSidecar /\ StatusNamesChild

LEMMA SidecarInit == Init => SidecarInv
BY RuntimeAssumption
   DEF Init, SidecarInv, LockInv, NotUpEarly, OneSidecar, StatusNamesChild, Early, Holding, Up

LEMMA SidecarStep == TypeOK /\ SidecarInv /\ [Next]_vars => SidecarInv'
<1> SUFFICES ASSUME TypeOK, SidecarInv, [Next]_vars PROVE SidecarInv'
  OBVIOUS
<1> USE RuntimeAssumption
    DEF TypeOK, SidecarInv, LockInv, NotUpEarly, OneSidecar, StatusNamesChild, Early, Holding, Up
<1>1. ASSUME NEW l \in Loads, Handler(l) PROVE SidecarInv'
  <2>1. CASE Find(l)
    BY <2>1 DEF Find, Move, watch, procs, status
  <2>2. CASE Kill(l)
    BY <2>2 DEF Kill, Unload, Move, watch, status
  <2>3. CASE Spawn(l)
    BY <2>3 DEF Spawn, Move, watch, status
  <2>4. CASE SpawnFails(l)
    BY <2>4 DEF SpawnFails, Move, watch, status
  <2>5. CASE Show(l)
    BY <2>5 DEF Show, Move, watch
  <2> QED BY <1>1, <2>1, <2>2, <2>3, <2>4, <2>5 DEF Handler
<1>2. ASSUME NEW l \in Loads, Watcher(l) PROVE SidecarInv'
  <2>1. /\ pc[l] \in {"probing", "ready", "watching", "asking", "lost"}
        /\ \E to \in {"probing", "ready", "watching", "asking", "lost", "done"} :
              pc' = [pc EXCEPT ![l] = to]
        /\ UNCHANGED <<server, child, lock, shown>>
    BY <1>2, Zenon
       DEF Watcher, ProbeAnswered, ProbeMissed, GiveUp, MarkReady, Check, Alive, Miss, MarkLost,
           Mark, Move, procs, status
  <2> QED BY <2>1
<1>3. ASSUME NEW l \in Loads, Process(l) PROVE SidecarInv'
  BY <1>3 DEF Process, Serves, Hangs, Dies, watch, status
<1>4. CASE Stop \/ StopShow
  BY <1>4 DEF Stop, StopShow, Unload, watch, status
<1>5. CASE Restart
  BY <1>5 DEF Restart, watch
<1>6. CASE UNCHANGED vars
  BY <1>6 DEF vars, procs, status
<1> QED BY <1>1, <1>2, <1>3, <1>4, <1>5, <1>6 DEF Next

\* Of the sidecars of one run of the app only the held one lives.
THEOREM OneSidecarLives == Spec => []OneSidecar
<1>1. SidecarInv => OneSidecar
  BY DEF SidecarInv
<1> QED BY <1>1, RuntimeTyped, SidecarInit, SidecarStep, PTL DEF Spec

\* Between two requests the status is of the sidecar that is held.
THEOREM StatusIsOfTheSidecar == Spec => []StatusNamesChild
<1>1. SidecarInv => StatusNamesChild
  BY DEF SidecarInv
<1> QED BY <1>1, RuntimeTyped, SidecarInit, SidecarStep, PTL DEF Spec

----------------------------------------------------------------------------
(* While no port is given out twice, a watcher speaks of its own load.     *)

\* A load has a port from its first step on, and is shown only once it is watched.
PortInv ==
    /\ \A l \in Loads : port[l] = None <=> pc[l] = "idle"
    /\ shown # None => pc[shown] \notin Early \cup Holding
    /\ shown = None => kind = "Stopped"

\* A server is not loading any more.
Served(l) == server[l] \in {"serving", "hung", "dead"}

SeenServing ==
    Fresh => /\ \A l \in Loads : pc[l] \in {"ready", "watching", "asking", "lost"} => Served(l)
             /\ kind = "Running" => Served(shown)

WatchInv == PortInv /\ SeenServing

LEMMA WatchInit == Init => WatchInv
BY RuntimeAssumption DEF Init, WatchInv, PortInv, SeenServing, Fresh, Served, Early, Holding

\* A port that was given out twice stays so.
LEMMA FreshBefore == TypeOK /\ PortInv /\ [Next]_vars /\ Fresh' => Fresh
<1> SUFFICES ASSUME TypeOK, PortInv, [Next]_vars, Fresh' PROVE Fresh
  OBVIOUS
<1> DEFINE Keeps == \A l \in Loads : port[l] # None => port'[l] = port[l]
<1>1. Keeps
  <2>1. ASSUME NEW l \in Loads, Find(l) PROVE Keeps
    BY <2>1 DEF Find, Move, PortInv, TypeOK
  <2> QED
    BY <2>1 DEF Next, Handler, Watcher, Process, Kill, Spawn, SpawnFails, Show, ProbeAnswered,
           ProbeMissed, GiveUp, MarkReady, Check, Alive, Miss, MarkLost, Serves, Hangs, Dies,
           Stop, StopShow, Restart, vars
<1> QED BY <1>1 DEF Fresh

\* While no port is given out twice, a watcher whose port is shown is the one of the
\* load that is shown, and a server that answers it is its own.
LEMMA OwnPort ==
    ASSUME TypeOK, PortInv, Fresh, NEW l \in Loads, pc[l] # "idle"
    PROVE  /\ Shows(l) => shown = l
           /\ Answers(l) => server[l] = "serving"
BY DEF TypeOK, PortInv, Fresh, Shows, Answers

LEMMA WatchStep == TypeOK /\ SidecarInv /\ WatchInv /\ [Next]_vars => WatchInv'
<1> SUFFICES ASSUME TypeOK, SidecarInv, WatchInv, [Next]_vars PROVE WatchInv'
  OBVIOUS
<1>0. Fresh' => Fresh
  BY FreshBefore DEF WatchInv
<1> USE RuntimeAssumption
    DEF TypeOK, WatchInv, PortInv, SeenServing, Served, Early, Holding, Up
<1>1. ASSUME NEW l \in Loads, Handler(l) PROVE WatchInv'
  <2>1. CASE Find(l)
    BY <1>0, <2>1 DEF Find, Move, watch, procs, status
  <2>2. CASE Kill(l)
    BY <1>0, <2>2 DEF Kill, Unload, Move, watch, status
  <2>3. CASE Spawn(l)
    BY <1>0, <2>3 DEF Spawn, Move, watch, status
  <2>4. CASE SpawnFails(l)
    BY <1>0, <2>4 DEF SpawnFails, Move, watch, status
  <2>5. CASE Show(l)
    BY <1>0, <2>5 DEF Show, Move, watch
  <2> QED BY <1>1, <2>1, <2>2, <2>3, <2>4, <2>5 DEF Handler
<1>2. ASSUME NEW l \in Loads, Watcher(l) PROVE WatchInv'
  <2>0. pc[l] # "idle"
    BY <1>2 DEF Watcher, ProbeAnswered, ProbeMissed, GiveUp, MarkReady, Check, Alive, Miss,
                MarkLost, Move
  <2>1. CASE ProbeAnswered(l)
    BY <1>0, <2>0, <2>1, OwnPort DEF ProbeAnswered, Move, watch, procs, status
  <2>2. CASE ProbeMissed(l)
    BY <1>0, <2>2 DEF ProbeMissed, procs, status
  <2>3. CASE GiveUp(l) \/ MarkLost(l)
    BY <1>0, <2>3 DEF GiveUp, MarkLost, Mark, Move, watch, procs, Shows
  <2>4. CASE MarkReady(l)
    BY <1>0, <2>0, <2>4, OwnPort DEF MarkReady, Mark, Move, watch, procs, Shows
  <2>5. CASE Check(l) \/ Alive(l) \/ Miss(l)
    BY <1>0, <2>5 DEF Check, Alive, Miss, Move, watch, procs, status
  <2> QED BY <1>2, <2>1, <2>2, <2>3, <2>4, <2>5 DEF Watcher
<1>3. ASSUME NEW l \in Loads, Process(l) PROVE WatchInv'
  BY <1>0, <1>3 DEF Process, Serves, Hangs, Dies, watch, status
<1>4. CASE Stop \/ StopShow
  BY <1>0, <1>4 DEF Stop, StopShow, Unload, watch, status
<1>5. CASE Restart
  <2>1. shown' = None /\ kind' = "Stopped" /\ UNCHANGED port
    BY <1>5 DEF Restart
  <2>2. \A l \in Loads : /\ pc'[l] \in {"idle", "orphan", "done"}
                         /\ pc'[l] = "idle" <=> pc[l] = "idle"
    BY <1>5 DEF Restart
  <2>3. SeenServing'
    BY <2>1, <2>2
  <2>4. PortInv'
    BY <2>1, <2>2
  <2> QED BY <2>3, <2>4
<1>6. CASE UNCHANGED vars
  BY <1>0, <1>6 DEF vars, procs, status
<1> QED BY <1>1, <1>2, <1>3, <1>4, <1>5, <1>6 DEF Next

\* While no port is given out twice, Running is never said of a server that is loading.
THEOREM RunningIsReal == Spec => []RunningHasServed
<1>1. WatchInv => RunningHasServed
  BY DEF WatchInv, SeenServing, Served, RunningHasServed
<1> QED BY <1>1, RuntimeTyped, SidecarInit, SidecarStep, WatchInit, WatchStep, PTL DEF Spec

LEMMA OwnVerdict ==
    TypeOK /\ WatchInv /\ [Next]_vars
        => (Fresh /\ kind' # kind /\ kind' \in {"Running", "Error"} => Marking(shown))
<1> SUFFICES ASSUME TypeOK, WatchInv, [Next]_vars, Fresh, kind' # kind,
                    kind' \in {"Running", "Error"}
             PROVE  Marking(shown)
  OBVIOUS
<1>1. PICK l \in Loads : GiveUp(l) \/ MarkReady(l) \/ MarkLost(l)
  BY DEF Next, Handler, Watcher, Process, Find, Kill, Spawn, SpawnFails, Show, ProbeAnswered,
         ProbeMissed, Check, Alive, Miss, Serves, Hangs, Dies, Stop, StopShow, Restart, vars, status
<1>2. Shows(l)
  BY <1>1 DEF GiveUp, MarkReady, MarkLost, Mark
<1>3. pc[l] \in {"probing", "ready", "lost"} /\ pc'[l] # pc[l]
  BY <1>1 DEF GiveUp, MarkReady, MarkLost, Move, TypeOK
<1> QED BY <1>2, <1>3, OwnPort DEF WatchInv, Marking

\* While no port is given out twice, no stale watcher writes a verdict.
THEOREM NoStaleVerdict == Spec => VerdictsAreOwn
BY OwnVerdict, RuntimeTyped, SidecarInit, SidecarStep, WatchInit, WatchStep, PTL
   DEF Spec, VerdictsAreOwn

----------------------------------------------------------------------------
(* Somebody always watches what the status will not say for ever.          *)

Watching(l) == pc[l] \in {"watching", "asking", "lost"}

\* A load that is shown as it starts is probed by its own watcher; a sidecar that is shown
\* Running has a watcher at its port, which on a reused port may be an older one's.
Watched ==
    /\ kind = "Starting" => shown # None /\ pc[shown] \in {"probing", "ready"}
    /\ kind = "Running" => /\ shown # None
                           /\ \E l \in Loads : port[l] = port[shown] /\ Watching(l)

LEMMA WatchedStep == TypeOK /\ PortInv /\ Watched /\ [Next]_vars => Watched'
<1> SUFFICES ASSUME TypeOK, PortInv, Watched, [Next]_vars PROVE Watched'
  OBVIOUS
<1> USE RuntimeAssumption DEF TypeOK, PortInv, Watched, Watching, Early, Holding
<1>1. ASSUME NEW l \in Loads, Handler(l) PROVE Watched'
  <2>1. CASE Find(l)
    BY <2>1 DEF Find, Move, status
  <2>2. CASE Kill(l) \/ Spawn(l) \/ SpawnFails(l)
    BY <2>2 DEF Kill, Spawn, SpawnFails, Move, status
  <2>3. CASE Show(l)
    BY <2>3 DEF Show, Move
  <2> QED BY <1>1, <2>1, <2>2, <2>3 DEF Handler
<1>2. ASSUME NEW l \in Loads, Watcher(l) PROVE Watched'
  <2>1. CASE ProbeAnswered(l) \/ Alive(l) \/ Miss(l)
    BY <2>1 DEF ProbeAnswered, Alive, Miss, Move, status
  <2>2. CASE ProbeMissed(l)
    BY <2>2 DEF ProbeMissed, status
  <2>3. CASE GiveUp(l) \/ MarkLost(l)
    BY <2>3 DEF GiveUp, MarkLost, Mark, Shows, Move
  <2>4. CASE MarkReady(l)
    BY <2>4 DEF MarkReady, Mark, Shows, Move
  <2>5. CASE Check(l)
    BY <2>5 DEF Check, Shows, Move, status
  <2> QED BY <1>2, <2>1, <2>2, <2>3, <2>4, <2>5 DEF Watcher
<1>3. ASSUME NEW l \in Loads, Process(l) PROVE Watched'
  BY <1>3 DEF Process, Serves, Hangs, Dies, status
<1>4. CASE Stop \/ StopShow \/ Restart
  BY <1>4 DEF Stop, StopShow, Restart, status
<1>5. CASE UNCHANGED vars
  BY <1>5 DEF vars, status
<1> QED BY <1>1, <1>2, <1>3, <1>4, <1>5 DEF Next

\* Whatever ports the system gives out, a status that says Starting or Running has a watcher
\* that will change it: no switch, stop or late verdict leaves it to itself.
THEOREM StatusIsWatched == Spec => []Watched
<1>1. Init => Watched
  BY DEF Init, Watched
<1> QED BY <1>1, WatchedStep, RuntimeTyped, SidecarInit, SidecarStep, WatchInit, WatchStep, PTL
        DEF Spec, WatchInv
=============================================================================
