------------------------------- MODULE Lifecycle -------------------------------
(***************************************************************************)
(* The life of the process: run and its hot reload (main/cmd/cmd.go),      *)
(* Manager.Start and Close (manager/manager.go) and the periodic tasks     *)
(* (helper/task/task.go), whose polls outlive the server they were started *)
(* for.                                                                    *)
(*                                                                         *)
(* Two goroutines work on the manager under its statusLock: "main", which  *)
(* starts it and closes it at a signal, and "watcher", viper's, which      *)
(* reloads it when the file changes.  A generation is one core server with *)
(* its controllers; the tasks of all controllers of a generation are taken *)
(* together, in any order.  What a poll does to the core is a matter of    *)
(* Controller and Traffic.                                                 *)
(***************************************************************************)
EXTENDS Integers

CONSTANTS
  Gens,      \* bound on the servers whose polls are still under way, and one
  Tasks,
  Keys, Values,
  Debounce,  \* the three seconds of OnConfigChange
  MaxEvents, \* bound on the events that wait for the watcher
  None

ASSUME LifecycleAssumption ==
  /\ Debounce \in Nat /\ MaxEvents \in Nat
  /\ None \notin Gens \cup Values \cup {"main", "watcher"}

Actors == {"main", "watcher"}
Pairs == Gens \X Tasks

\* What a file or a Config says: a key may be missing.
Configs == [Keys -> Values \cup {None}]

\* A time since something, as far as it matters.
Late == Debounce + 1
Ages == 0..Late
Older(a) == IF a < Late THEN a + 1 ELSE a

VARIABLES
  file,       \* the file
  conf,       \* what viper last read of it
  config,     \* managerConfig
  events,     \* how many changes the watcher has not seen yet
  age,        \* the time since lastTime
  pc, todo,   \* of the two goroutines
  statusLock,
  server, service, \* m.Server, m.Service
  up,         \* the servers that are started and not closed
  running,    \* the tasks that are: Periodic.running
  job,        \* what the timer of a task does
  runs        \* the configuration a server was started with

cmdVars == <<file, conf, config, events, age>>
mgrVars == <<server, service, up, runs>>
vars == <<cmdVars, pc, todo, statusLock, mgrVars, running, job>>

Holding == {"closing", "core", "services"}

\* Everything a process keeps, when there is none.
Down ==
  /\ conf' = [k \in Keys |-> None] /\ config' = [k \in Keys |-> None]
  /\ events' = 0 /\ age' = 0
  /\ pc' = [a \in Actors |-> "dead"] /\ todo' = [a \in Actors |-> {}]
  /\ statusLock' = None
  /\ server' = None /\ service' = {} /\ up' = {}
  /\ runs' = [g \in Gens |-> [k \in Keys |-> None]]
  /\ running' = {} /\ job' = [p \in Pairs |-> "off"]

Init ==
  /\ file \in Configs
  /\ conf = [k \in Keys |-> None] /\ config = [k \in Keys |-> None]
  /\ events = 0 /\ age = 0
  /\ pc = [a \in Actors |-> "dead"] /\ todo = [a \in Actors |-> {}]
  /\ statusLock = None
  /\ server = None /\ service = {} /\ up = {}
  /\ runs = [g \in Gens |-> [k \in Keys |-> None]]
  /\ running = {} /\ job = [p \in Pairs |-> "off"]
-----------------------------------------------------------------------------
(* The world. *)

\* The process is started.  Between getConfig and the lock of Start nothing of
\* the process waits.
Boot ==
  /\ pc["main"] = "dead"
  /\ conf' = file /\ config' = file
  /\ age' = 0
  /\ pc' = [main |-> "core", watcher |-> "idle"]
  /\ statusLock' = "main"
  /\ UNCHANGED <<file, events, todo, mgrVars, running, job>>

Edit ==
  /\ events < MaxEvents
  /\ \E c \in Configs : c # file /\ file' = c
  /\ events' = IF pc["main"] = "dead" THEN events ELSE events + 1
  /\ UNCHANGED <<conf, config, age, pc, todo, statusLock, mgrVars, running, job>>

Tick ==
  /\ pc["main"] # "dead"
  /\ age' = Older(age)
  /\ UNCHANGED <<file, conf, config, events, pc, todo, statusLock, mgrVars, running, job>>

Signal ==
  /\ pc["main"] = "wait"
  /\ pc' = [pc EXCEPT !["main"] = "close"]
  /\ UNCHANGED <<cmdVars, todo, statusLock, mgrVars, running, job>>
-----------------------------------------------------------------------------
(* OnConfigChange.  viper reads the file before it calls. *)

\* Mutant: the manager is not closed.
Event_NoClose ==
  /\ pc["watcher"] = "idle" /\ events > 0
  /\ conf' = file
  /\ events' = events - 1
  /\ pc' = IF age > Debounce THEN [pc EXCEPT !["watcher"] = "unmarshal"] ELSE pc
  /\ UNCHANGED <<file, config, age, todo, statusLock, mgrVars, running, job>>

Event ==
  /\ pc["watcher"] = "idle" /\ events > 0
  /\ conf' = file
  /\ events' = events - 1
  /\ pc' = IF age > Debounce THEN [pc EXCEPT !["watcher"] = "close"] ELSE pc
  /\ UNCHANGED <<file, config, age, todo, statusLock, mgrVars, running, job>>

Lock(a, at, then) ==
  /\ pc[a] = at /\ statusLock = None
  /\ statusLock' = a
  /\ pc' = [pc EXCEPT ![a] = then]
  /\ todo' = [todo EXCEPT ![a] = IF then = "closing" THEN service \X Tasks ELSE {}]
  /\ UNCHANGED <<cmdVars, mgrVars, running, job>>

\* Mutant: the old configuration is used again.
Unmarshal_Skipped ==
  /\ pc["watcher"] = "unmarshal"
  /\ pc' = [pc EXCEPT !["watcher"] = "start"]
  /\ UNCHANGED <<cmdVars, todo, statusLock, mgrVars, running, job>>

\* mapstructure leaves a field alone whose key is missing.
Unmarshal ==
  /\ pc["watcher"] = "unmarshal"
  /\ config' = [k \in Keys |-> IF conf[k] = None THEN config[k] ELSE conf[k]]
  /\ pc' = [pc EXCEPT !["watcher"] = "start"]
  /\ UNCHANGED <<file, conf, events, age, todo, statusLock, mgrVars, running, job>>
\* What does not decode, or leaves no LogConfig to ask for its level, ends the
\* process behind the Close.
UnmarshalFails ==
  /\ pc["watcher"] = "unmarshal"
  /\ Down /\ UNCHANGED file
-----------------------------------------------------------------------------
(* Manager.Close. *)

\* PeriodicTask.Close: the timer is stopped, a poll goes on.
CloseTask(a, p) ==
  /\ pc[a] = "closing" /\ p \in todo[a]
  /\ running' = running \ {p}
  /\ job' = [job EXCEPT ![p] = IF @ = "wait" THEN "off" ELSE @]
  /\ todo' = [todo EXCEPT ![a] = @ \ {p}]
  /\ UNCHANGED <<cmdVars, pc, statusLock, mgrVars>>

\* Mutant: m.Service is not cleared.
CloseServer_KeepsService(a) ==
  /\ pc[a] = "closing" /\ todo[a] = {}
  /\ IF a = "main"
       THEN Down
       ELSE /\ up' = up \ {server}
            /\ statusLock' = None
            /\ pc' = [pc EXCEPT ![a] = "unmarshal"]
            /\ UNCHANGED <<conf, config, events, age, todo, server, service, runs, running, job>>
  /\ UNCHANGED file

\* main returns after it, and the process ends.
CloseServer(a) ==
  /\ pc[a] = "closing" /\ todo[a] = {}
  /\ IF a = "main"
       THEN Down
       ELSE /\ service' = {} /\ up' = up \ {server}
            /\ statusLock' = None
            /\ pc' = [pc EXCEPT ![a] = "unmarshal"]
            /\ UNCHANGED <<conf, config, events, age, todo, server, runs, running, job>>
  /\ UNCHANGED file
-----------------------------------------------------------------------------
(* Manager.Start. *)

\* A server is new when nothing of an older one goes by its name.
New(g) == g \notin up /\ g \notin service /\ \A t \in Tasks : job[<<g, t>>] = "off"

LoadCore(a) ==
  /\ pc[a] = "core"
  /\ \E g \in Gens :
       /\ New(g)
       /\ server' = g /\ service' = service \cup {g} /\ up' = up \cup {g}
       /\ runs' = [runs EXCEPT ![g] = config]
  /\ todo' = [todo EXCEPT ![a] = service' \X Tasks]
  /\ pc' = [pc EXCEPT ![a] = "services"]
  /\ UNCHANGED <<cmdVars, statusLock, running, job>>

\* Periodic.Start makes the first poll itself: one task after the other.
StartTask(a, p) ==
  /\ pc[a] = "services" /\ p \in todo[a] /\ todo[a] \cap running = {}
  /\ running' = running \cup {p}
  /\ job' = [job EXCEPT ![p] = "poll"]
  /\ UNCHANGED <<cmdVars, pc, todo, statusLock, mgrVars>>

\* Mutant: nothing unlocks.
Started_KeepsLock(a) ==
  /\ pc[a] = "services" /\ todo[a] = {}
  /\ pc' = [pc EXCEPT ![a] = IF a = "main" THEN "wait" ELSE "idle"]
  /\ age' = IF a = "watcher" THEN 0 ELSE age
  /\ UNCHANGED <<file, conf, config, events, todo, statusLock, mgrVars, running, job>>

Started(a) ==
  /\ pc[a] = "services" /\ todo[a] = {}
  /\ statusLock' = None
  /\ pc' = [pc EXCEPT ![a] = IF a = "main" THEN "wait" ELSE "idle"]
  /\ age' = IF a = "watcher" THEN 0 ELSE age
  /\ UNCHANGED <<file, conf, config, events, todo, mgrVars, running, job>>

\* A file that cannot be read, a core that does not start, a controller that
\* does not: log.Panicf, in either goroutine, ends the process.
Panic(a) ==
  /\ \/ pc[a] = "core"
     \/ pc[a] = "services" /\ todo[a] # {} /\ todo[a] \cap running = {}
  /\ Down /\ UNCHANGED file
-----------------------------------------------------------------------------
(* task.Periodic. *)

\* The timer fires: hasClosed is asked before the poll is made.
Fire(p) ==
  /\ job[p] = "wait"
  /\ job' = [job EXCEPT ![p] = "due"]
  /\ UNCHANGED <<cmdVars, pc, todo, statusLock, mgrVars, running>>

Poll(p) ==
  /\ job[p] = "due"
  /\ job' = [job EXCEPT ![p] = "poll"]
  /\ UNCHANGED <<cmdVars, pc, todo, statusLock, mgrVars, running>>

\* Mutant: a closed task is armed again.
EndPoll_Rearms(p) ==
  /\ job[p] = "poll"
  /\ job' = [job EXCEPT ![p] = "wait"]
  /\ todo' = [a \in Actors |-> IF pc[a] = "services" THEN todo[a] \ {p} ELSE todo[a]]
  /\ UNCHANGED <<cmdVars, pc, statusLock, mgrVars, running>>

\* A poll returns nil whatever happens.  The first one lets Start go on.
EndPoll(p) ==
  /\ job[p] = "poll"
  /\ job' = [job EXCEPT ![p] = IF p \in running THEN "wait" ELSE "off"]
  /\ todo' = [a \in Actors |-> IF pc[a] = "services" THEN todo[a] \ {p} ELSE todo[a]]
  /\ UNCHANGED <<cmdVars, pc, statusLock, mgrVars, running>>

\* log.Panic in a poll.
PollPanics(p) ==
  /\ job[p] = "poll"
  /\ Down /\ UNCHANGED file
-----------------------------------------------------------------------------
Step(a) ==
  \/ Lock(a, "close", "closing") \/ Lock(a, "start", "core")
  \/ CloseServer(a) \/ LoadCore(a) \/ Started(a)
  \/ \E p \in Pairs : CloseTask(a, p) \/ StartTask(a, p)

Next ==
  \/ Boot \/ Edit \/ Tick \/ Signal \/ Event \/ Unmarshal \/ UnmarshalFails
  \/ \E a \in Actors : Step(a) \/ Panic(a)
  \/ \E p \in Pairs : Fire(p) \/ Poll(p) \/ EndPoll(p) \/ PollPanics(p)

Spec == Init /\ [][Next]_vars

\* Goroutines run, and the requests a poll waits for time out.
FairSpec ==
  /\ Spec
  /\ WF_vars(Event \/ Unmarshal) /\ \A a \in Actors : WF_vars(Step(a))
  /\ \A p \in Pairs : WF_vars(Poll(p) \/ EndPoll(p))
-----------------------------------------------------------------------------
(* Correctness properties. *)

\* Every variable has its type, and the lock is held by whoever is between
\* Lock and Unlock.
TypeOK ==
  /\ {file, conf, config} \subseteq Configs
  /\ events \in 0..MaxEvents /\ age \in Ages
  /\ pc \in [Actors -> Holding \cup {"dead", "wait", "idle", "close", "unmarshal", "start"}]
  /\ todo \in [Actors -> SUBSET Pairs]
  /\ statusLock \in Actors \cup {None}
  /\ \A a \in Actors : statusLock = a <=> pc[a] \in Holding
  /\ server \in Gens \cup {None} /\ service \subseteq Gens /\ up \subseteq Gens
  /\ runs \in [Gens -> Configs]
  /\ running \subseteq Pairs /\ job \in [Pairs -> {"off", "wait", "due", "poll"}]

\* Whatever reloads, signals and panics do, two servers are never up at once,
\* and no task is scheduled for another than the server of the manager.
OneServer ==
  /\ \A g, h \in up : g = h
  /\ running \subseteq {server} \X Tasks

\* A process nobody is working on serves: its server is up with all its tasks.
IdleServes ==
  statusLock = None /\ pc["main"] = "wait" /\ pc["watcher"] \in {"idle", "close"}
    => server \in up /\ running = {server} \X Tasks

\* After Close of a server no new poll is scheduled for it: those that are under
\* way end, and that is all (PeriodicTask.Close against the timer).
ClosedStaysClosed ==
  [][\A p \in Pairs : p[1] \notin up \cup up' =>
       (job[p] = "off" => job'[p] = "off") /\ job'[p] # "wait"]_vars

\* A reload ends with what viper read at its event, in all that the file says.
ReloadsWhatItRead ==
  [][pc["watcher"] = "services" /\ pc'["watcher"] = "idle" =>
       \A k \in Keys : conf[k] # None => runs[server][k] = conf[k]]_vars

\* A reload ends, with the process or without it: no lock, task or poll holds it
\* up for ever.
ReloadEnds ==
  pc["watcher"] \notin {"idle", "dead"} ~> pc["watcher"] \in {"idle", "dead"}
=============================================================================
