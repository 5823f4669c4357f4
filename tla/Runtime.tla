------------------------------- MODULE Runtime -------------------------------
(***************************************************************************)
(* The llama-server sidecar: runtime/mod.rs (RuntimeManager) and the       *)
(* handlers and the health watcher of lib.rs.                              *)
(*                                                                         *)
(* A load is one call of runtime_start or runtime_load that was not        *)
(* refused: the handler, the server it spawns, and the watcher it leaves.  *)
(* Steps end where another thread can come between: at an await, and       *)
(* between the two mutexes, since the watchers take `status` alone.        *)
(***************************************************************************)
EXTENDS Naturals

CONSTANTS
    Loads,          \* the loads
    Ports,          \* the loopback ports
    Probes,         \* how often a watcher asks before it gives up (20)
    MaxRestarts,    \* bound: how often the app is closed and started again
    None, Stopper   \* no load or port; a stop request holding the lock

ASSUME RuntimeAssumption ==
    /\ Probes \in Nat \ {0} /\ MaxRestarts \in Nat
    /\ None \notin Loads \cup Ports /\ Stopper \notin Loads /\ Stopper # None

VARIABLES
    pc,         \* where the handler, then the watcher, of each load is
    port,       \* the port each load was given
    tries,      \* probes of the watcher so far
    misses,     \* probes missed in a row since the server was ready
    server,     \* the llama-server process of each load
    child,      \* the load whose process the manager holds
    lock,       \* who holds the child mutex
    kind,       \* the status: its kind,
    shown,      \* and the load whose model, pid and port it shows
    restarts

procs == <<server, child, lock>>
status == <<kind, shown>>
watch == <<tries, misses>>
vars == <<pc, port, watch, procs, status, restarts>>

\* A hung server accepts connections and never answers.
Up == {"loading", "serving", "hung"}

\* Misses in a row that make a sidecar dead.
MissLimit == 2

Init ==
    /\ pc = [l \in Loads |-> "idle"]
    /\ port = [l \in Loads |-> None]
    /\ tries = [l \in Loads |-> 0]
    /\ misses = [l \in Loads |-> 0]
    /\ server = [l \in Loads |-> "none"]
    /\ child = None /\ lock = None
    /\ kind = "Stopped" /\ shown = None
    /\ restarts = 0

Move(l, from, to) == pc[l] = from /\ pc' = [pc EXCEPT ![l] = to]

----------------------------------------------------------------------------
(* The handlers.                                                           *)

\* find_available_port: a port the system has free now; nothing reserves it.
Find(l) ==
    /\ Move(l, "idle", "found")
    /\ \E p \in {q \in Ports : \A m \in Loads : port[m] = q => server[m] \notin Up} :
          port' = [port EXCEPT ![l] = p]
    /\ UNCHANGED <<watch, procs, status, restarts>>

\* (Mutant: the switch forgets the old process instead of killing it.)
UnloadForgets ==
    /\ child' = None
    /\ UNCHANGED server

\* Under the child mutex, the held process is killed and reaped.
Unload ==
    /\ server' = [m \in Loads |-> IF m = child THEN "dead" ELSE server[m]]
    /\ child' = None

Kill(l) ==
    /\ Move(l, "found", "killed")
    /\ lock = None /\ lock' = l
    /\ Unload
    /\ UNCHANGED <<port, watch, status, restarts>>

\* (Mutant: the child mutex is released before the status is written.)
SpawnUnlocks(l) ==
    /\ Move(l, "killed", "spawned")
    /\ server' = [server EXCEPT ![l] = "loading"]
    /\ child' = l /\ lock' = None
    /\ UNCHANGED <<port, watch, status, restarts>>

Spawn(l) ==
    /\ Move(l, "killed", "spawned")
    /\ server' = [server EXCEPT ![l] = "loading"]
    /\ child' = l
    /\ UNCHANGED <<port, watch, lock, status, restarts>>

\* The status is left as it was.
SpawnFails(l) ==
    /\ Move(l, "killed", "done")
    /\ lock' = None
    /\ UNCHANGED <<port, watch, server, child, status, restarts>>

\* The status is written, the mutex released, and the watcher spawned.
Show(l) ==
    /\ Move(l, "spawned", "probing")
    /\ kind' = "Starting" /\ shown' = l
    /\ lock' = None
    /\ UNCHANGED <<port, watch, server, child, restarts>>

Stop ==
    /\ lock = None /\ lock' = Stopper
    /\ Unload
    /\ UNCHANGED <<pc, port, watch, status, restarts>>

StopShow ==
    /\ lock = Stopper /\ lock' = None
    /\ kind' = "Stopped" /\ shown' = None
    /\ UNCHANGED <<pc, port, watch, server, child, restarts>>

----------------------------------------------------------------------------
(* The watcher of a load: spawn_health_wait.                               *)

\* A server answers /health with success on the load's port.
Answers(l) == \E m \in Loads : port[m] = port[l] /\ server[m] = "serving"

\* (Mutant: no port guard.)
ShowsAny(l) == shown # None

\* mark_running and mark_error: the status shows the load's port.
Shows(l) == shown # None /\ port[shown] = port[l]

Mark(l, k) ==
    /\ kind' = IF Shows(l) THEN k ELSE kind
    /\ UNCHANGED shown

ProbeAnswered(l) ==
    /\ Move(l, "probing", "ready")
    /\ tries[l] < Probes /\ Answers(l)
    /\ UNCHANGED <<port, watch, procs, status, restarts>>

\* A hung server holds the load's port: the request has no timeout, so it is pending
\* until the server dies.
Silent(l) == \E m \in Loads : port[m] = port[l] /\ server[m] = "hung"

\* Refused, reset, or answered without success.
ProbeMissed(l) ==
    /\ pc[l] = "probing"
    /\ tries[l] < Probes /\ ~Silent(l)
    /\ tries' = [tries EXCEPT ![l] = @ + 1]
    /\ UNCHANGED <<pc, port, misses, procs, status, restarts>>

GiveUp(l) ==
    /\ Move(l, "probing", "done")
    /\ tries[l] >= Probes
    /\ Mark(l, "Error")
    /\ UNCHANGED <<port, watch, procs, restarts>>

\* (Mutant: nobody watches a server that came up.)
MarkReadyOnly(l) ==
    /\ Move(l, "ready", "done")
    /\ Mark(l, "Running")
    /\ UNCHANGED <<port, watch, procs, restarts>>

MarkReady(l) ==
    /\ Move(l, "ready", "watching")
    /\ Mark(l, "Running")
    /\ UNCHANGED <<port, watch, procs, restarts>>

\* Each round ends the watch of a load that was switched or stopped.
Check(l) ==
    /\ Move(l, "watching", IF Shows(l) THEN "asking" ELSE "done")
    /\ UNCHANGED <<port, watch, procs, status, restarts>>

Alive(l) ==
    /\ Move(l, "asking", "watching")
    /\ Answers(l)
    /\ misses' = [misses EXCEPT ![l] = 0]
    /\ UNCHANGED <<port, tries, procs, status, restarts>>

Miss(l) ==
    /\ ~Silent(l)
    /\ Move(l, "asking", IF misses[l] + 1 >= MissLimit THEN "lost" ELSE "watching")
    /\ misses' = [misses EXCEPT ![l] = @ + 1]
    /\ UNCHANGED <<port, tries, procs, status, restarts>>

MarkLost(l) ==
    /\ Move(l, "lost", "done")
    /\ Mark(l, "Error")
    /\ UNCHANGED <<port, watch, procs, restarts>>

----------------------------------------------------------------------------
(* The server processes, and the end of the app.                           *)

Serves(l) ==
    /\ server[l] = "loading"
    /\ server' = [server EXCEPT ![l] = "serving"]
    /\ UNCHANGED <<pc, port, watch, child, lock, status, restarts>>

Hangs(l) ==
    /\ server[l] \in {"loading", "serving"}
    /\ server' = [server EXCEPT ![l] = "hung"]
    /\ UNCHANGED <<pc, port, watch, child, lock, status, restarts>>

Dies(l) ==
    /\ server[l] \in Up
    /\ server' = [server EXCEPT ![l] = "dead"]
    /\ UNCHANGED <<pc, port, watch, child, lock, status, restarts>>

\* Nothing stops the sidecar when the app ends: it goes on as an orphan.
Restart ==
    /\ restarts < MaxRestarts /\ restarts' = restarts + 1
    /\ pc' = [l \in Loads |-> IF pc[l] = "idle" THEN "idle"
                              ELSE IF server[l] \in Up THEN "orphan" ELSE "done"]
    /\ child' = None /\ lock' = None
    /\ kind' = "Stopped" /\ shown' = None
    /\ UNCHANGED <<port, watch, server>>

Handler(l) == Find(l) \/ Kill(l) \/ Spawn(l) \/ SpawnFails(l) \/ Show(l)

Watcher(l) ==
    \/ ProbeAnswered(l) \/ ProbeMissed(l) \/ GiveUp(l) \/ MarkReady(l)
    \/ Check(l) \/ Alive(l) \/ Miss(l) \/ MarkLost(l)

Process(l) == Serves(l) \/ Hangs(l) \/ Dies(l)

Next ==
    \/ \E l \in Loads : Handler(l) \/ Watcher(l) \/ Process(l)
    \/ Stop \/ StopShow
    \/ Restart

Spec == Init /\ [][Next]_vars

\* Watchers are tasks of a multi-threaded executor; a handler that holds the mutex
\* does not block.  Nothing is assumed of llama-server.
Fairness ==
    /\ \A l \in Loads : WF_vars(Watcher(l)) /\ WF_vars(Spawn(l) \/ SpawnFails(l) \/ Show(l))
    /\ WF_vars(StopShow)

FairSpec == Spec /\ Fairness

----------------------------------------------------------------------------
(* Properties.                                                             *)

TypeOK ==
    /\ pc \in [Loads -> {"idle", "found", "killed", "spawned", "probing", "ready",
                         "watching", "asking", "lost", "done", "orphan"}]
    /\ port \in [Loads -> Ports \cup {None}]
    /\ tries \in [Loads -> 0..Probes]
    /\ misses \in [Loads -> 0..MissLimit]
    /\ \A l \in Loads : misses[l] = MissLimit => pc[l] \in {"lost", "done", "orphan"}
    /\ server \in [Loads -> Up \cup {"none", "dead"}]
    /\ child \in Loads \cup {None}
    /\ lock \in Loads \cup {None, Stopper}
    /\ kind \in {"Stopped", "Starting", "Running", "Error"}
    /\ shown \in Loads \cup {None}
    /\ restarts \in 0..MaxRestarts

\* "strict single active model": of the sidecars of this run of the app only the one
\* that is held lives, however starts, switches, stops and failed spawns interleave.
OneSidecar == \A l \in Loads : server[l] \in Up /\ pc[l] # "orphan" => child = l

\* Between two requests the status is of the sidecar that is held, so it never says
\* Stopped, or names another model, while one runs.
StatusNamesChild == lock = None /\ child # None => shown = child

\* The system has given no two loads the same port.
Fresh == \A l, m \in Loads : port[l] = port[m] /\ port[l] # None => l = m

\* While the system does not give a port out twice, no probe of another sidecar, however
\* late its answer is written, makes a model that is still loading look ready.
RunningHasServed == Fresh /\ kind = "Running" => server[shown] \in {"serving", "hung", "dead"}

Marking(l) == pc[l] \in {"probing", "ready", "lost"} /\ pc'[l] # pc[l]

\* While the system does not give a port out twice, "a stale health probe from a
\* previous model (since stopped or switched) can't overwrite the status of the
\* current/next runtime": each verdict is by the watcher of the load it is about.
VerdictsAreOwn ==
    [][Fresh /\ kind' # kind /\ kind' \in {"Running", "Error"} => Marking(shown)]_vars

\* The same, whatever ports the system gives out.
StaleProbeHarmless ==
    [][kind' # kind /\ kind' \in {"Running", "Error"} => Marking(shown)]_vars

\* A load comes to a verdict unless a hung server holds its watcher for ever, and the
\* death of a sidecar that is shown Running is seen: "flip the status to Error ... instead
\* of reporting Running on a dead port".
StatusSettles ==
    \A l \in Loads :
        /\ shown = l /\ kind = "Starting" ~> shown # l \/ kind # "Starting" \/ []Silent(l)
        /\ shown = l /\ kind = "Running" /\ server[l] = "dead"
               ~> shown # l \/ kind # "Running"

\* "Liveness watch: this is still the active port, and the sidecar stops responding": a
\* sidecar that is shown Running and answers no more does not stay so.  Not kept: a probe
\* has no timeout.
HangIsSeen ==
    \A l \in Loads : shown = l /\ kind = "Running" /\ server[l] = "hung"
                         ~> shown # l \/ kind # "Running"
=============================================================================
