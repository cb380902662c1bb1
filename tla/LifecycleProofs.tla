---------------------------- MODULE LifecycleProofs ----------------------------
(***************************************************************************)
(* Proofs about Lifecycle: its type invariant, that there is one server at *)
(* most, that a process nobody is working on serves, that the tasks of a   *)
(* closed server end, and that a reload runs what was read.                *)
(***************************************************************************)
EXTENDS Lifecycle, TLAPS

USE LifecycleAssumption

LEMMA NoneConfig == [k \in Keys |-> None] \in Configs
  BY DEF Configs

LEMMA OlderType == ASSUME NEW a \in Ages PROVE Older(a) \in Ages
  BY DEF Ages, Older, Late

LEMMA ActorsDiffer == "main" \in Actors /\ "watcher" \in Actors
  BY DEF Actors

\* A process that is gone leaves every variable in its type.
LEMMA DownType ==
  ASSUME TypeOK, Down, file' = file
  PROVE  TypeOK'
<1>1. 0 \in Ages /\ 0 \in 0..MaxEvents
  BY LifecycleAssumption DEF Ages, Late
<1>2. \A a \in Actors : None # a
  BY DEF Actors
<1> QED BY <1>1, <1>2, NoneConfig DEF Down, TypeOK, Holding

LEMMA TypeInit == Init => TypeOK
<1>1. 0 \in Ages /\ 0 \in 0..MaxEvents
  BY LifecycleAssumption DEF Ages, Late
<1>2. \A a \in Actors : None # a
  BY DEF Actors
<1> QED BY <1>1, <1>2, NoneConfig DEF Init, TypeOK, Holding

LEMMA TypeNext == TypeOK /\ [Next]_vars => TypeOK'
<1> SUFFICES ASSUME TypeOK, [Next]_vars PROVE TypeOK'
  OBVIOUS
<1>0. \A a \in Actors : None # a
  BY DEF Actors
<1>1. CASE UNCHANGED vars
  BY <1>1 DEF TypeOK, vars, cmdVars, mgrVars
<1>2. CASE Boot
  <2>1. 0 \in Ages
    BY DEF Ages, Late
  <2>2. \A a \in Actors : (statusLock' = a) = (pc'[a] \in Holding)
    BY <1>2 DEF Boot, Actors, Holding
  <2>3. pc' \in [Actors -> {"core", "idle"}]
    BY <1>2 DEF Boot, Actors
  <2> QED BY <1>2, <2>1, <2>2, <2>3, ActorsDiffer DEF Boot, TypeOK, mgrVars, Holding
<1>3. CASE Edit
  <2>1. events' \in 0..MaxEvents
    BY <1>3, LifecycleAssumption DEF Edit, TypeOK
  <2> QED BY <1>3, <2>1 DEF Edit, TypeOK, mgrVars
<1>4. CASE Tick
  BY <1>4, OlderType DEF Tick, TypeOK, mgrVars
<1>5. CASE Signal
  BY <1>5, <1>0, ActorsDiffer DEF Signal, TypeOK, cmdVars, mgrVars, Holding
<1>6. CASE Event
  <2>1. events' \in 0..MaxEvents
    BY <1>6, LifecycleAssumption DEF Event, TypeOK
  <2> QED BY <1>6, <2>1, <1>0, ActorsDiffer DEF Event, TypeOK, mgrVars, Holding
<1>7. CASE Unmarshal
  <2>1. config' \in Configs
    BY <1>7 DEF Unmarshal, TypeOK, Configs
  <2> QED BY <1>7, <2>1, <1>0, ActorsDiffer DEF Unmarshal, TypeOK, mgrVars, Holding
<1>8. ASSUME NEW a \in Actors, Lock(a, "close", "closing") \/ Lock(a, "start", "core")
      PROVE  TypeOK'
  <2>1. service \X Tasks \subseteq Pairs
    BY DEF TypeOK, Pairs
  <2>2. todo' \in [Actors -> SUBSET Pairs]
    BY <1>8, <2>1 DEF Lock, TypeOK
  <2> QED BY <1>8, <2>2, <1>0 DEF Lock, TypeOK, cmdVars, mgrVars, Holding
<1>9. ASSUME NEW a \in Actors, CloseServer(a) PROVE TypeOK'
  <2>1. CASE a = "main"
    BY <1>9, <2>1, DownType DEF CloseServer
  <2>2. CASE a # "main"
    BY <1>9, <2>2, <1>0 DEF CloseServer, TypeOK, Holding
  <2> QED BY <2>1, <2>2
<1>10. ASSUME NEW a \in Actors, LoadCore(a) PROVE TypeOK'
  <2>1. PICK g \in Gens : /\ server' = g /\ service' = service \cup {g}
                          /\ up' = up \cup {g} /\ runs' = [runs EXCEPT ![g] = config]
    BY <1>10 DEF LoadCore
  <2>2. service' \X Tasks \subseteq Pairs
    BY <2>1 DEF TypeOK, Pairs
  <2>3. todo' \in [Actors -> SUBSET Pairs]
    BY <1>10, <2>2 DEF LoadCore, TypeOK
  <2>4. runs' \in [Gens -> Configs]
    BY <2>1 DEF TypeOK
  <2>5. pc[a] = "core" /\ pc' = [pc EXCEPT ![a] = "services"] /\ statusLock' = statusLock
    BY <1>10 DEF LoadCore
  <2> QED BY <1>10, <2>1, <2>3, <2>4, <2>5, <1>0 DEF LoadCore, TypeOK, cmdVars, Holding
<1>11. ASSUME NEW a \in Actors, Started(a) PROVE TypeOK'
  <2>1. age' \in Ages
    BY <1>11 DEF Started, TypeOK, Ages, Late
  <2> QED BY <1>11, <2>1, <1>0 DEF Started, TypeOK, mgrVars, Holding
<1>12. ASSUME NEW a \in Actors, NEW p \in Pairs, CloseTask(a, p) \/ StartTask(a, p)
       PROVE  TypeOK'
  BY <1>12 DEF CloseTask, StartTask, TypeOK, cmdVars, mgrVars
<1>13. ASSUME NEW a \in Actors, Panic(a) PROVE TypeOK'
  BY <1>13, DownType DEF Panic
<1>14. ASSUME NEW p \in Pairs, Fire(p) \/ Poll(p) \/ EndPoll(p) PROVE TypeOK'
  BY <1>14 DEF Fire, Poll, EndPoll, TypeOK, cmdVars, mgrVars
<1>15. ASSUME NEW p \in Pairs, PollPanics(p) PROVE TypeOK'
  BY <1>15, DownType DEF PollPanics
<1>16. CASE UnmarshalFails
  BY <1>16, DownType DEF UnmarshalFails
<1> QED
  BY <1>1, <1>2, <1>3, <1>4, <1>5, <1>6, <1>7, <1>8, <1>9, <1>10, <1>11, <1>12,
     <1>13, <1>14, <1>15, <1>16 DEF Next, Step

\* The type invariant, for any number of tasks, keys and generations; with it,
\* that statusLock is held exactly by whoever is in Start or Close.
THEOREM TypeCorrect == Spec => []TypeOK
  BY TypeInit, TypeNext, PTL DEF Spec
-----------------------------------------------------------------------------
(* The strengthening: what the manager holds in each phase of its goroutines. *)

Empty == up = {} /\ service = {} /\ running = {}
One == server \in Gens /\ up = {server} /\ service = {server}
All == {server} \X Tasks

\* A process is there for both goroutines, and main starts before it waits.
PhaseInv ==
  /\ pc["main"] \in Holding \cup {"dead", "wait", "close"}
  /\ pc["watcher"] \in Holding \cup {"dead", "idle", "close", "unmarshal", "start"}
  /\ pc["main"] = "dead" <=> pc["watcher"] = "dead"
  /\ pc["main"] \in {"core", "services"} => pc["watcher"] \in {"idle", "close"}

\* Between Close and Start, and without a process, there is nothing ...
EmptyInv ==
  /\ pc["main"] = "dead" => Empty
  /\ \A a \in Actors : pc[a] = "core" => Empty
  /\ pc["watcher"] \in {"unmarshal", "start"} => Empty

\* ... Start is on its way from there to all the tasks of one server ...
StartInv ==
  \A a \in Actors : pc[a] = "services" =>
    /\ One /\ running \cup todo[a] = All
    /\ \A p \in todo[a] \ running : job[p] = "off"

\* ... Close on its way back ...
CloseInv ==
  /\ pc["watcher"] = "closing" => One /\ running \subseteq todo["watcher"]
  /\ \A a \in Actors : pc[a] = "closing" => running \subseteq All

\* ... and otherwise the server is up and served.
ServeInv ==
  pc["main"] \in {"wait", "close"} /\ pc["watcher"] \in {"idle", "close"}
    => One /\ running = All

LifeInv ==
  /\ TypeOK /\ PhaseInv /\ EmptyInv /\ StartInv /\ CloseInv /\ ServeInv
  /\ up \subseteq {server} /\ service \subseteq {server} /\ running \subseteq All

\* One goroutine at a time holds the lock.
LEMMA Exclusion ==
  ASSUME TypeOK, NEW a \in Actors, NEW b \in Actors, pc[a] \in Holding, pc[b] \in Holding
  PROVE  a = b
  BY DEF TypeOK

LEMMA DownLife == ASSUME TypeOK', Down PROVE LifeInv'
<1>1. pc'["main"] = "dead" /\ pc'["watcher"] = "dead"
  BY ActorsDiffer DEF Down
<1>2. \A a \in Actors : pc'[a] = "dead"
  BY DEF Down
<1>3. up' = {} /\ service' = {} /\ running' = {}
  BY DEF Down
<1> QED
  BY <1>1, <1>2, <1>3 DEF LifeInv, PhaseInv, EmptyInv, StartInv, CloseInv, ServeInv,
                          Empty, Holding

LEMMA LifeInit == Init => LifeInv
<1> SUFFICES ASSUME Init PROVE LifeInv
  OBVIOUS
<1>0. TypeOK
  BY TypeInit
<1>1. pc["main"] = "dead" /\ pc["watcher"] = "dead" /\ \A a \in Actors : pc[a] = "dead"
  BY ActorsDiffer DEF Init
<1>2. up = {} /\ service = {} /\ running = {}
  BY DEF Init
<1> QED
  BY <1>0, <1>1, <1>2 DEF LifeInv, PhaseInv, EmptyInv, StartInv, CloseInv, ServeInv,
                          Empty, Holding

\* A step that leaves the goroutines and the tasks alone.
LEMMA LifeKept ==
  ASSUME LifeInv, TypeOK', UNCHANGED <<pc, todo, server, service, up, running, job>>
  PROVE  LifeInv'
  BY DEF LifeInv, PhaseInv, EmptyInv, StartInv, CloseInv, ServeInv, Empty, One, All

LEMMA LifeNext == LifeInv /\ [Next]_vars => LifeInv'
<1> SUFFICES ASSUME LifeInv, [Next]_vars PROVE LifeInv'
  OBVIOUS
<1>0. TypeOK /\ TypeOK'
  BY TypeNext DEF LifeInv
<1> USE ActorsDiffer
<1> USE DEF Actors
<1>1. CASE UNCHANGED vars \/ Edit \/ Tick
  BY <1>0, <1>1, LifeKept DEF vars, cmdVars, mgrVars, Edit, Tick
<1>2. CASE Boot
  <2>1. pc["main"] = "dead" /\ pc'["main"] = "core" /\ pc'["watcher"] = "idle"
    BY <1>2 DEF Boot
  <2>2. UNCHANGED <<todo, server, service, up, running, job>>
    BY <1>2 DEF Boot, mgrVars
  <2> QED BY <1>0, <2>1, <2>2 DEF LifeInv, PhaseInv, EmptyInv, StartInv, CloseInv,
                                  ServeInv, Empty, One, All, Holding
<1>3. CASE Signal
  <2>1. /\ pc["main"] = "wait" /\ pc' = [pc EXCEPT !["main"] = "close"]
        /\ UNCHANGED <<todo, server, service, up, running, job>>
    BY <1>3 DEF Signal, mgrVars
  <2>2. pc'["main"] = "close" /\ pc'["watcher"] = pc["watcher"]
    BY <1>0, <2>1 DEF TypeOK
  <2> QED BY <1>0, <2>1, <2>2 DEF LifeInv, PhaseInv, EmptyInv, StartInv, CloseInv,
                                  ServeInv, Empty, One, All, Holding
<1>4. CASE Event
  <2>1. /\ pc["watcher"] = "idle" /\ pc' \in {pc, [pc EXCEPT !["watcher"] = "close"]}
        /\ UNCHANGED <<todo, server, service, up, running, job>>
    BY <1>4 DEF Event, mgrVars
  <2>2. pc'["watcher"] \in {"idle", "close"} /\ pc'["main"] = pc["main"]
    BY <1>0, <2>1 DEF TypeOK
  <2> QED BY <1>0, <2>1, <2>2 DEF LifeInv, PhaseInv, EmptyInv, StartInv, CloseInv,
                                  ServeInv, Empty, One, All, Holding
<1>5. CASE Unmarshal
  <2>1. /\ pc["watcher"] = "unmarshal" /\ pc' = [pc EXCEPT !["watcher"] = "start"]
        /\ UNCHANGED <<todo, server, service, up, running, job>>
    BY <1>5 DEF Unmarshal, mgrVars
  <2>2. pc'["watcher"] = "start" /\ pc'["main"] = pc["main"]
    BY <1>0, <2>1 DEF TypeOK
  <2> QED BY <1>0, <2>1, <2>2 DEF LifeInv, PhaseInv, EmptyInv, StartInv, CloseInv,
                                  ServeInv, Empty, One, All, Holding
<1>6. ASSUME NEW a \in Actors, Lock(a, "close", "closing") PROVE LifeInv'
  <2>1. /\ pc[a] = "close" /\ statusLock = None /\ pc' = [pc EXCEPT ![a] = "closing"]
        /\ todo' = [todo EXCEPT ![a] = service \X Tasks]
        /\ UNCHANGED <<server, service, up, running, job>>
    BY <1>6 DEF Lock, mgrVars
  <2>2. pc'[a] = "closing" /\ todo'[a] = service \X Tasks
        /\ \A b \in Actors : b # a => pc'[b] = pc[b]
    BY <1>0, <2>1 DEF TypeOK
  <2>3. \A b \in Actors : pc[b] \notin Holding
    BY <1>0, <2>1 DEF TypeOK
  <2>4. a = "watcher" => One /\ running = All
    BY <2>1, <2>3 DEF LifeInv, ServeInv, PhaseInv, Holding
  <2>5. a = "watcher" => running \subseteq todo'[a]
    BY <2>2, <2>4 DEF One, All
  <2> QED BY <1>0, <2>1, <2>2, <2>3, <2>4, <2>5
          DEF LifeInv, PhaseInv, EmptyInv, StartInv, CloseInv, ServeInv, Empty, One, All,
              Holding
<1>7. ASSUME NEW a \in Actors, Lock(a, "start", "core") PROVE LifeInv'
  <2>1. /\ pc[a] = "start" /\ statusLock = None /\ pc' = [pc EXCEPT ![a] = "core"]
        /\ UNCHANGED <<server, service, up, running, job>>
    BY <1>7 DEF Lock, mgrVars
  <2>2. pc'[a] = "core" /\ \A b \in Actors : b # a => pc'[b] = pc[b]
    BY <1>0, <2>1 DEF TypeOK
  <2>3. \A b \in Actors : pc[b] \notin Holding
    BY <1>0, <2>1 DEF TypeOK
  <2>4. a = "watcher"
    BY <2>1 DEF LifeInv, PhaseInv, Holding
  <2> QED BY <1>0, <2>1, <2>2, <2>3, <2>4
          DEF LifeInv, PhaseInv, EmptyInv, StartInv, CloseInv, ServeInv, Empty, One, All,
              Holding
<1>8. ASSUME NEW a \in Actors, CloseServer(a) PROVE LifeInv'
  <2>1. CASE a = "main"
    BY <1>0, <1>8, <2>1, DownLife DEF CloseServer
  <2>2. CASE a = "watcher"
    <3>1. /\ pc[a] = "closing" /\ todo[a] = {} /\ service' = {} /\ up' = up \ {server}
          /\ pc' = [pc EXCEPT ![a] = "unmarshal"]
          /\ UNCHANGED <<todo, server, running, job>>
      BY <1>8, <2>2 DEF CloseServer
    <3>2. pc'["watcher"] = "unmarshal" /\ pc'["main"] = pc["main"]
      BY <1>0, <2>2, <3>1 DEF TypeOK
    <3>3. Empty'
      BY <2>2, <3>1 DEF LifeInv, CloseInv, One, Empty
    <3>4. pc["main"] \notin Holding
      BY <1>0, <2>2, <3>1, Exclusion DEF Holding
    <3> QED BY <1>0, <3>1, <3>2, <3>3, <3>4
            DEF LifeInv, PhaseInv, EmptyInv, StartInv, CloseInv, ServeInv, Empty, Holding
  <2> QED BY <2>1, <2>2
<1>9. ASSUME NEW a \in Actors, LoadCore(a) PROVE LifeInv'
  <2>1. PICK g \in Gens : /\ New(g) /\ server' = g /\ service' = service \cup {g}
                          /\ up' = up \cup {g}
    BY <1>9 DEF LoadCore
  <2>2. /\ pc[a] = "core" /\ pc' = [pc EXCEPT ![a] = "services"]
        /\ todo' = [todo EXCEPT ![a] = service' \X Tasks] /\ UNCHANGED <<running, job>>
    BY <1>9 DEF LoadCore
  <2>3. pc'[a] = "services" /\ todo'[a] = service' \X Tasks
        /\ \A b \in Actors : b # a => pc'[b] = pc[b] /\ pc[b] \notin Holding
    BY <1>0, <2>2, Exclusion DEF TypeOK, Holding
  <2>4. Empty
    BY <2>2 DEF LifeInv, EmptyInv
  <2>5. One' /\ running' = {} /\ todo'[a] = All'
    BY <2>1, <2>2, <2>3, <2>4 DEF Empty, One, All
  <2>6. \A p \in todo'[a] : job'[p] = "off"
    BY <2>1, <2>2, <2>5 DEF New, All
  <2>7. StartInv'
    BY <2>3, <2>5, <2>6 DEF StartInv, Holding
  <2> QED BY <1>0, <2>2, <2>3, <2>5, <2>7
          DEF LifeInv, PhaseInv, EmptyInv, CloseInv, ServeInv, One, Holding
<1>10. ASSUME NEW a \in Actors, Started(a) PROVE LifeInv'
  <2>1. /\ pc[a] = "services" /\ todo[a] = {}
        /\ pc' = [pc EXCEPT ![a] = IF a = "main" THEN "wait" ELSE "idle"]
        /\ UNCHANGED <<todo, server, service, up, running, job>>
    BY <1>10 DEF Started, mgrVars
  <2>2. pc'[a] = (IF a = "main" THEN "wait" ELSE "idle")
        /\ \A b \in Actors : b # a => pc'[b] = pc[b] /\ pc[b] \notin Holding
    BY <1>0, <2>1, Exclusion DEF TypeOK, Holding
  <2>3. One /\ running = All
    BY <2>1 DEF LifeInv, StartInv
  <2> QED BY <1>0, <2>1, <2>2, <2>3
          DEF LifeInv, PhaseInv, EmptyInv, StartInv, CloseInv, ServeInv, One, All, Holding
<1>11. ASSUME NEW a \in Actors, NEW p \in Pairs, CloseTask(a, p) PROVE LifeInv'
  <2>1. /\ pc[a] = "closing" /\ running' = running \ {p}
        /\ todo' = [todo EXCEPT ![a] = @ \ {p}] /\ UNCHANGED <<pc, server, service, up>>
    BY <1>11 DEF CloseTask, mgrVars
  <2>2. todo'[a] = todo[a] \ {p}
    BY <1>0, <2>1 DEF TypeOK
  <2>3. \A b \in Actors : b # a => pc[b] \notin Holding
    BY <1>0, <2>1, Exclusion DEF Holding
  <2>4. CloseInv'
    BY <2>1, <2>2, <2>3 DEF LifeInv, CloseInv, One, All, Holding
  <2>5. EmptyInv'
    BY <2>1 DEF LifeInv, EmptyInv, Empty
  <2> QED BY <1>0, <2>1, <2>3, <2>4, <2>5
          DEF LifeInv, PhaseInv, StartInv, ServeInv, One, All, Holding
<1>12. ASSUME NEW a \in Actors, NEW p \in Pairs, StartTask(a, p) PROVE LifeInv'
  <2>1. /\ pc[a] = "services" /\ p \in todo[a] /\ running' = running \cup {p}
        /\ job' = [job EXCEPT ![p] = "poll"]
        /\ UNCHANGED <<pc, todo, server, service, up>>
    BY <1>12 DEF StartTask, mgrVars
  <2>2. \A b \in Actors : b # a => pc[b] \notin Holding
    BY <1>0, <2>1, Exclusion DEF Holding
  <2>3. One /\ running \cup todo[a] = All
    BY <2>1 DEF LifeInv, StartInv
  <2>4. \A q \in todo[a] \ running' : job'[q] = "off"
    BY <1>0, <2>1 DEF LifeInv, StartInv, TypeOK
  <2>5. StartInv'
    BY <2>1, <2>2, <2>3, <2>4 DEF StartInv, One, All, Holding
  <2>6. EmptyInv' /\ CloseInv' /\ ServeInv'
    BY <2>1, <2>2 DEF LifeInv, PhaseInv, EmptyInv, CloseInv, ServeInv, Holding
  <2> QED BY <1>0, <2>1, <2>3, <2>5, <2>6 DEF LifeInv, PhaseInv, One, All
<1>13. ASSUME NEW p \in Pairs, Fire(p) \/ Poll(p) PROVE LifeInv'
  <2>1. /\ job[p] # "off" /\ \A q \in Pairs : q # p => job'[q] = job[q]
        /\ UNCHANGED <<pc, todo, server, service, up, running>>
    BY <1>0, <1>13 DEF Fire, Poll, mgrVars, TypeOK
  <2>2. StartInv'
    BY <1>0, <2>1 DEF LifeInv, StartInv, One, All, TypeOK
  <2> QED BY <1>0, <2>1, <2>2
          DEF LifeInv, PhaseInv, EmptyInv, CloseInv, ServeInv, Empty, One, All
<1>14. ASSUME NEW p \in Pairs, EndPoll(p) PROVE LifeInv'
  <2>1. /\ job[p] = "poll" /\ \A q \in Pairs : q # p => job'[q] = job[q]
        /\ todo' = [a \in Actors |-> IF pc[a] = "services" THEN todo[a] \ {p} ELSE todo[a]]
        /\ UNCHANGED <<pc, server, service, up, running>>
    BY <1>0, <1>14 DEF EndPoll, mgrVars, TypeOK
  <2>2. StartInv'
    <3> SUFFICES ASSUME NEW a \in Actors, pc[a] = "services"
                 PROVE  /\ One' /\ running' \cup todo'[a] = All'
                        /\ \A q \in todo'[a] \ running' : job'[q] = "off"
      BY <2>1 DEF StartInv
    <3>1. /\ One /\ running \cup todo[a] = All
          /\ \A q \in todo[a] \ running : job[q] = "off"
      BY DEF LifeInv, StartInv
    <3>2. p \in todo[a] => p \in running
      BY <2>1, <3>1
    <3>3. todo'[a] = todo[a] \ {p}
      BY <2>1
    <3>4. todo[a] \subseteq Pairs
      BY <1>0 DEF TypeOK
    <3> QED BY <2>1, <3>1, <3>2, <3>3, <3>4 DEF One, All
  <2>3. pc["watcher"] = "closing" => todo'["watcher"] = todo["watcher"]
    BY <2>1
  <2> QED BY <1>0, <2>1, <2>2, <2>3
          DEF LifeInv, PhaseInv, EmptyInv, CloseInv, ServeInv, Empty, One, All
<1>15. ASSUME NEW a \in Actors, Panic(a) PROVE LifeInv'
  BY <1>0, <1>15, DownLife DEF Panic
<1>16. ASSUME NEW p \in Pairs, PollPanics(p) PROVE LifeInv'
  BY <1>0, <1>16, DownLife DEF PollPanics
<1>17. CASE UnmarshalFails
  BY <1>0, <1>17, DownLife DEF UnmarshalFails
<1> QED
  BY <1>1, <1>2, <1>3, <1>4, <1>5, <1>6, <1>7, <1>8, <1>9, <1>10, <1>11, <1>12,
     <1>13, <1>14, <1>15, <1>16, <1>17 DEF Next, Step

LEMMA LifeCorrect == Spec => []LifeInv
  BY LifeInit, LifeNext, PTL DEF Spec

\* However reloads, signals and panics interleave, two servers are never up at
\* once and no task runs for another than the manager's (Close before Start,
\* both under statusLock), for any number of tasks.
THEOREM ServersDoNotMeet == Spec => []OneServer
<1>1. LifeInv => OneServer
  BY DEF LifeInv, OneServer, All
<1> QED BY <1>1, LifeCorrect, PTL

\* Whenever nobody works on the manager, its server is up with all its tasks: no
\* interleaving of the two goroutines leaves a process that lives and serves
\* nothing.
THEOREM IdleProcessServes == Spec => []IdleServes
<1>1. LifeInv => IdleServes
  BY ActorsDiffer DEF LifeInv, ServeInv, IdleServes, One, All
<1> QED BY <1>1, LifeCorrect, PTL
-----------------------------------------------------------------------------
(* The polls of a server that is closed. *)

\* A timer is armed for a task that runs, and a task runs for a server that is up.
TimerInv ==
  /\ \A p \in Pairs : job[p] = "wait" => p \in running
  /\ running # {} => server \in up

LEMMA TimerInit == Init => TimerInv
  BY DEF Init, TimerInv

LEMMA DownTimer == ASSUME Down PROVE TimerInv'
  BY DEF Down, TimerInv

LEMMA TimerNext == LifeInv /\ TimerInv /\ [Next]_vars => TimerInv'
<1> SUFFICES ASSUME LifeInv, TimerInv, [Next]_vars PROVE TimerInv'
  OBVIOUS
<1>0. TypeOK
  BY DEF LifeInv
<1>1. CASE UNCHANGED <<server, up, running, job>>
  BY <1>1 DEF TimerInv
<1>2. CASE UNCHANGED vars \/ Boot \/ Edit \/ Tick \/ Signal \/ Event \/ Unmarshal
  BY <1>1, <1>2 DEF vars, cmdVars, mgrVars, Boot, Edit, Tick, Signal, Event, Unmarshal
<1>3. ASSUME NEW a \in Actors,
             Lock(a, "close", "closing") \/ Lock(a, "start", "core") \/ Started(a)
      PROVE  TimerInv'
  BY <1>1, <1>3 DEF mgrVars, Lock, Started
<1>4. ASSUME NEW a \in Actors, CloseServer(a) PROVE TimerInv'
  <2>1. CASE a = "main"
    BY <1>4, <2>1, DownTimer DEF CloseServer
  <2>2. CASE a # "main"
    <3>1. a = "watcher" /\ pc[a] = "closing" /\ todo[a] = {} /\ UNCHANGED <<running, job>>
      BY <1>4, <2>2 DEF CloseServer, Actors
    <3>2. running = {}
      BY <3>1 DEF LifeInv, CloseInv
    <3> QED BY <3>1, <3>2 DEF TimerInv
  <2> QED BY <2>1, <2>2
<1>5. ASSUME NEW a \in Actors, LoadCore(a) PROVE TimerInv'
  <2>1. pc[a] = "core" /\ UNCHANGED <<running, job>>
    BY <1>5 DEF LoadCore
  <2>2. running = {}
    BY <2>1 DEF LifeInv, EmptyInv, Empty
  <2> QED BY <2>1, <2>2 DEF TimerInv
<1>6. ASSUME NEW a \in Actors, NEW p \in Pairs, CloseTask(a, p) PROVE TimerInv'
  <2>1. /\ running' = running \ {p} /\ UNCHANGED <<server, up>>
        /\ job' = [job EXCEPT ![p] = IF @ = "wait" THEN "off" ELSE @]
    BY <1>6 DEF CloseTask, mgrVars
  <2>2. job'[p] # "wait" /\ \A q \in Pairs : q # p => job'[q] = job[q]
    BY <1>0, <2>1 DEF TypeOK
  <2> QED BY <2>1, <2>2 DEF TimerInv
<1>7. ASSUME NEW a \in Actors, NEW p \in Pairs, StartTask(a, p) PROVE TimerInv'
  <2>1. /\ pc[a] = "services" /\ running' = running \cup {p} /\ UNCHANGED <<server, up>>
        /\ job' = [job EXCEPT ![p] = "poll"]
    BY <1>7 DEF StartTask, mgrVars
  <2>2. server \in up
    BY <2>1 DEF LifeInv, StartInv, One
  <2>3. job'[p] # "wait" /\ \A q \in Pairs : q # p => job'[q] = job[q]
    BY <1>0, <2>1 DEF TypeOK
  <2> QED BY <2>1, <2>2, <2>3 DEF TimerInv
<1>8. ASSUME NEW p \in Pairs, Fire(p) \/ Poll(p) \/ EndPoll(p) PROVE TimerInv'
  <2>1. UNCHANGED <<server, up, running>>
    BY <1>8 DEF Fire, Poll, EndPoll, mgrVars
  <2>2. job'[p] = "wait" => p \in running
    BY <1>0, <1>8 DEF Fire, Poll, EndPoll, TypeOK
  <2>3. \A q \in Pairs : q # p => job'[q] = job[q]
    BY <1>0, <1>8 DEF Fire, Poll, EndPoll, TypeOK
  <2> QED BY <2>1, <2>2, <2>3 DEF TimerInv
<1>9. ASSUME NEW a \in Actors, Panic(a) PROVE TimerInv'
  BY <1>9, DownTimer DEF Panic
<1>10. ASSUME NEW p \in Pairs, PollPanics(p) PROVE TimerInv'
  BY <1>10, DownTimer DEF PollPanics
<1>11. CASE UnmarshalFails
  BY <1>11, DownTimer DEF UnmarshalFails
<1> QED
  BY <1>2, <1>3, <1>4, <1>5, <1>6, <1>7, <1>8, <1>9, <1>10, <1>11 DEF Next, Step

LEMMA TimerCorrect == Spec => [](LifeInv /\ TimerInv)
<1>1. Init => LifeInv /\ TimerInv
  BY LifeInit, TimerInit
<1>2. LifeInv /\ TimerInv /\ [Next]_vars => LifeInv' /\ TimerInv'
  BY LifeNext, TimerNext
<1> QED BY <1>1, <1>2, PTL DEF Spec

\* What ClosedStaysClosed says of one step.
Quiet ==
  \A p \in Pairs : p[1] \notin up \cup up' =>
    (job[p] = "off" => job'[p] = "off") /\ job'[p] # "wait"

LEMMA QuietStep ==
  ASSUME LifeInv, TimerInv, LifeInv', TimerInv', [Next]_vars PROVE Quiet
<1> SUFFICES ASSUME NEW p \in Pairs, p[1] \notin up, p[1] \notin up'
             PROVE  (job[p] = "off" => job'[p] = "off") /\ job'[p] # "wait"
  BY DEF Quiet
<1>0. TypeOK
  BY DEF LifeInv
<1>1. job'[p] # "wait"
  <2> SUFFICES ASSUME job'[p] = "wait" PROVE FALSE
    OBVIOUS
  <2>1. p \in running' /\ server' \in up'
    BY DEF TimerInv
  <2>2. p[1] = server'
    BY <2>1 DEF LifeInv, All
  <2> QED BY <2>1, <2>2
<1>2. ASSUME job[p] = "off" PROVE job'[p] = "off"
  <2>1. CASE UNCHANGED job
    BY <1>2, <2>1
  <2>2. CASE Down
    BY <2>2 DEF Down
  <2>3. CASE UNCHANGED vars \/ Boot \/ Edit \/ Tick \/ Signal \/ Event \/ Unmarshal
    BY <2>1, <2>3 DEF vars, Boot, Edit, Tick, Signal, Event, Unmarshal
  <2>4. ASSUME NEW a \in Actors,
               \/ Lock(a, "close", "closing") \/ Lock(a, "start", "core")
               \/ CloseServer(a) \/ LoadCore(a) \/ Started(a) \/ Panic(a)
        PROVE  job'[p] = "off"
    BY <2>1, <2>2, <2>4 DEF Lock, CloseServer, LoadCore, Started, Panic
  <2>5. ASSUME NEW a \in Actors, NEW q \in Pairs, CloseTask(a, q) PROVE job'[p] = "off"
    BY <1>0, <1>2, <2>5 DEF CloseTask, TypeOK
  <2>6. ASSUME NEW a \in Actors, NEW q \in Pairs, StartTask(a, q) PROVE job'[p] = "off"
    <3>1. pc[a] = "services" /\ q \in todo[a] /\ job' = [job EXCEPT ![q] = "poll"]
      BY <2>6 DEF StartTask
    <3>2. q[1] \in up
      BY <3>1 DEF LifeInv, StartInv, One, All
    <3> QED BY <1>0, <1>2, <3>1, <3>2 DEF TypeOK
  <2>7. ASSUME NEW q \in Pairs, Fire(q) \/ Poll(q) \/ EndPoll(q) PROVE job'[p] = "off"
    BY <1>0, <1>2, <2>7 DEF Fire, Poll, EndPoll, TypeOK
  <2>8. ASSUME NEW q \in Pairs, PollPanics(q) PROVE job'[p] = "off"
    BY <2>2, <2>8 DEF PollPanics
  <2>9. CASE UnmarshalFails
    BY <2>2, <2>9 DEF UnmarshalFails
  <2> QED BY <2>3, <2>4, <2>5, <2>6, <2>7, <2>8, <2>9 DEF Next, Step
<1> QED BY <1>1, <1>2

\* After Close of a server no timer is armed for it and no finished task comes back:
\* what its timers and polls were about at that moment ends, and that is all
\* (PeriodicTask.Close, hasClosed), for any number of tasks.
THEOREM ClosedServersStayQuiet == Spec => ClosedStaysClosed
<1>1. LifeInv /\ TimerInv /\ LifeInv' /\ TimerInv' /\ [Next]_vars => [Quiet]_vars
  BY QuietStep
<1>2. [][Quiet]_vars => ClosedStaysClosed
  BY DEF Quiet, ClosedStaysClosed
<1> QED BY <1>1, <1>2, TimerCorrect, PTL DEF Spec
-----------------------------------------------------------------------------
(* The configuration of a reload. *)

\* From Unmarshal on, what the watcher starts is what viper read.
ReadInv ==
  /\ pc["watcher"] \in {"start", "core", "services"} =>
       \A k \in Keys : conf[k] # None => config[k] = conf[k]
  /\ pc["watcher"] = "services" => runs[server] = config

LEMMA DownRead == ASSUME Down PROVE ReadInv'
  BY ActorsDiffer DEF Down, ReadInv

LEMMA ReadInit == Init => ReadInv
  BY ActorsDiffer DEF Init, ReadInv

LEMMA ReadNext == LifeInv /\ ReadInv /\ [Next]_vars => ReadInv'
<1> SUFFICES ASSUME LifeInv, ReadInv, [Next]_vars PROVE ReadInv'
  OBVIOUS
<1>0. TypeOK
  BY DEF LifeInv
<1> USE ActorsDiffer
<1>1. CASE UNCHANGED <<pc, conf, config, server, runs>>
  BY <1>1 DEF ReadInv
<1>2. CASE pc'["watcher"] \notin {"start", "core", "services"}
  BY <1>2 DEF ReadInv
<1>3. CASE UNCHANGED vars \/ Edit \/ Tick
  BY <1>1, <1>3 DEF vars, cmdVars, mgrVars, Edit, Tick
<1>4. CASE Boot \/ Event
  BY <1>0, <1>2, <1>4 DEF Boot, Event, TypeOK
<1>5. CASE Signal
  <2>1. pc'["watcher"] = pc["watcher"] /\ UNCHANGED <<conf, config, server, runs>>
    BY <1>0, <1>5 DEF Signal, cmdVars, mgrVars, TypeOK
  <2> QED BY <2>1 DEF ReadInv
<1>6. CASE Unmarshal
  <2>1. pc'["watcher"] = "start" /\ conf' = conf
        /\ \A k \in Keys : config'[k] = IF conf[k] = None THEN config[k] ELSE conf[k]
    BY <1>0, <1>6 DEF Unmarshal, TypeOK
  <2> QED BY <2>1 DEF ReadInv
<1>7. ASSUME NEW a \in Actors, Lock(a, "close", "closing") \/ Lock(a, "start", "core")
      PROVE  ReadInv'
  <2>1. UNCHANGED <<conf, config, server, runs>>
    BY <1>7 DEF Lock, cmdVars, mgrVars
  <2>2. \/ pc'["watcher"] \in {pc["watcher"], "closing"}
        \/ pc["watcher"] = "start" /\ pc'["watcher"] = "core"
    BY <1>0, <1>7 DEF Lock, TypeOK
  <2> QED BY <2>1, <2>2 DEF ReadInv
<1>8. ASSUME NEW a \in Actors, CloseServer(a) PROVE ReadInv'
  <2>1. CASE a = "main"
    BY <1>8, <2>1, DownRead DEF CloseServer
  <2>2. CASE a # "main"
    <3>1. pc'["watcher"] = "unmarshal"
      BY <1>0, <1>8, <2>2 DEF CloseServer, TypeOK, Actors
    <3> QED BY <1>2, <3>1
  <2> QED BY <2>1, <2>2
<1>9. ASSUME NEW a \in Actors, LoadCore(a) PROVE ReadInv'
  <2>1. PICK g \in Gens : server' = g /\ runs' = [runs EXCEPT ![g] = config]
    BY <1>9 DEF LoadCore
  <2>2. /\ pc[a] = "core" /\ pc' = [pc EXCEPT ![a] = "services"]
        /\ UNCHANGED <<conf, config>>
    BY <1>9 DEF LoadCore, cmdVars
  <2>3. runs'[server'] = config
    BY <1>0, <2>1 DEF TypeOK
  <2>4. CASE a = "watcher"
    BY <2>2, <2>3, <2>4 DEF ReadInv
  <2>5. CASE a = "main"
    <3>1. pc'["watcher"] \in {"idle", "close"}
      BY <1>0, <2>2, <2>5 DEF LifeInv, PhaseInv, TypeOK
    <3> QED BY <1>2, <3>1
  <2> QED BY <2>4, <2>5 DEF Actors
<1>10. ASSUME NEW a \in Actors, Started(a) PROVE ReadInv'
  <2>1. pc'["watcher"] \in {pc["watcher"], "idle"} /\ UNCHANGED <<conf, config, server, runs>>
    BY <1>0, <1>10 DEF Started, mgrVars, TypeOK, Actors
  <2> QED BY <2>1 DEF ReadInv
<1>11. ASSUME NEW a \in Actors, NEW p \in Pairs, CloseTask(a, p) \/ StartTask(a, p)
       PROVE  ReadInv'
  BY <1>1, <1>11 DEF CloseTask, StartTask, cmdVars, mgrVars
<1>12. ASSUME NEW p \in Pairs, Fire(p) \/ Poll(p) \/ EndPoll(p) PROVE ReadInv'
  BY <1>1, <1>12 DEF Fire, Poll, EndPoll, cmdVars, mgrVars
<1>13. ASSUME NEW a \in Actors, Panic(a) PROVE ReadInv'
  BY <1>13, DownRead DEF Panic
<1>14. ASSUME NEW p \in Pairs, PollPanics(p) PROVE ReadInv'
  BY <1>14, DownRead DEF PollPanics
<1>15. CASE UnmarshalFails
  BY <1>15, DownRead DEF UnmarshalFails
<1> QED
  BY <1>3, <1>4, <1>5, <1>6, <1>7, <1>8, <1>9, <1>10, <1>11, <1>12, <1>13, <1>14, <1>15
  DEF Next, Step

\* A reload that ends runs a server with what viper read at its event, in every key
\* the file has: neither a later edit nor a signal in between mixes two readings
\* (OnConfigChange, Unmarshal, Start).
THEOREM ReloadsAreFaithful == Spec => ReloadsWhatItRead
<1> DEFINE Faithful ==
      pc["watcher"] = "services" /\ pc'["watcher"] = "idle" =>
        \A k \in Keys : conf[k] # None => runs[server][k] = conf[k]
<1>1. ReadInv => Faithful
  BY DEF ReadInv
<1>2. Init => LifeInv /\ ReadInv
  BY LifeInit, ReadInit
<1>3. LifeInv /\ ReadInv /\ [Next]_vars => LifeInv' /\ ReadInv'
  BY LifeNext, ReadNext
<1>4. ReloadsWhatItRead <=> [][Faithful]_vars
  BY DEF ReloadsWhatItRead
<1> QED BY <1>1, <1>2, <1>3, <1>4, PTL DEF Spec
=============================================================================
