------------------------------- MODULE GlobalLimit -------------------------------
(***************************************************************************)
(* The IP limit of a user over all nodes (globalLimit, pushIP and the      *)
(* chain of caches AddInboundLimiter makes): a map of addresses per user,  *)
(* kept in a cache of every inbound in front of one in redis.  A           *)
(* connection reads the map, and a goroutine writes it back whole, with no *)
(* lock and no version; every entry of both caches expires as a whole.     *)
(*                                                                         *)
(* Abstractions.  One user: the key is his email with the tag replaced by  *)
(* his limit, so all nodes share it.  Time goes in ticks that every read   *)
(* and write is shorter than (Timeout is much less than Expiry).  The      *)
(* chain (gocache) is external: it reads the first cache that has the key, *)
(* sets it back into the ones before it by a goroutine of its own, and     *)
(* writes to both in turn.                                                 *)
(***************************************************************************)
EXTENDS Naturals, Sequences, FiniteSets

CONSTANTS
  Nodes,    \* the inbounds of the user, of one process or of many
  IPs,
  Limit,    \* ipLimit; 0 for none
  Expiry,   \* of an entry, in ticks
  Calls,    \* bound on the connections looked at at a time
  Channel,  \* room in the channel of a chain
  MaxConns, \* bound on the connections in a tick
  None

ASSUME GlobalLimitAssumption ==
  /\ Limit \in Nat /\ Expiry \in Nat \ {0} /\ Channel \in Nat \ {0} /\ MaxConns \in Nat
  /\ IsFiniteSet(IPs) /\ None \notin Nodes \cup IPs

VARIABLES
  local,  \* the go-cache of every inbound
  redis,
  back,   \* entries of redis a chain has still to set back
  call,   \* globalLimit and the pushIP it starts
  conns   \* connections since the last tick

vars == <<local, redis, back, call, conns>>

Entry == [map : SUBSET IPs, ttl : 0..Expiry]
NoEntry == [map |-> {}, ttl |-> 0]
Full(m) == Limit > 0 /\ Cardinality(m) >= Limit

\* base is the map that was read, map the one to write.
Call == [pc : {"idle", "redis", "pushLocal", "pushRedis"}, node : Nodes \cup {None},
         ip : IPs \cup {None}, base : SUBSET IPs, map : SUBSET IPs]
NoCall == [pc |-> "idle", node |-> None, ip |-> None, base |-> {}, map |-> {}]

Init ==
  /\ local = [n \in Nodes |-> NoEntry] /\ redis = NoEntry
  /\ back = [n \in Nodes |-> <<>>]
  /\ call = [c \in Calls |-> NoCall]
  /\ conns = 0
-----------------------------------------------------------------------------
(* globalLimit. *)

Push(n, base, m) == [pc |-> "pushLocal", node |-> n, ip |-> None, base |-> base, map |-> m]

\* Mutant: one address too many.
Decide_OneMore(n, ip, m) ==
  IF ip \in m \/ (Limit > 0 /\ Cardinality(m) > Limit) THEN NoCall ELSE Push(n, m, m \cup {ip})

\* Mutant: the new address alone is written.
Decide_Alone(n, ip, m) ==
  IF ip \in m \/ Full(m) THEN NoCall ELSE Push(n, m, {ip})

\* Mutant: a known address renews the entry.
Decide_Renews(n, ip, m) ==
  IF ip \notin m /\ Full(m) THEN NoCall ELSE Push(n, m, m \cup {ip})

\* A known address is let in and a new one refused, when the map is full, with
\* nothing written; any other is let in and written.
Decide(n, ip, m) ==
  IF ip \in m \/ Full(m) THEN NoCall ELSE Push(n, m, m \cup {ip})

Connect(c) ==
  /\ call[c].pc = "idle" /\ conns < MaxConns
  /\ \E n \in Nodes, ip \in IPs :
       call' = [call EXCEPT ![c] =
                  IF local[n].ttl > 0 THEN Decide(n, ip, local[n].map)
                  ELSE [NoCall EXCEPT !.pc = "redis", !.node = n, !.ip = ip]]
  /\ conns' = conns + 1
  /\ UNCHANGED <<local, redis, back>>

\* Not found: the address is the first one.  Where redis cannot be asked the
\* connection is let in, and nothing is written.
ReadRedis(c) ==
  LET n == call[c].node IN
  /\ call[c].pc = "redis"
  /\ \/ /\ redis.ttl > 0 /\ Len(back[n]) < Channel
        /\ back' = [back EXCEPT ![n] = Append(@, redis)]
        /\ call' = [call EXCEPT ![c] = Decide(n, @.ip, redis.map)]
     \/ /\ redis.ttl = 0
        /\ call' = [call EXCEPT ![c] = Push(n, {}, {@.ip})]
        /\ UNCHANGED back
     \/ call' = [call EXCEPT ![c] = NoCall] /\ UNCHANGED back
  /\ UNCHANGED <<local, redis, conns>>

\* The goroutine of the chain.
SetBack(n) ==
  /\ back[n] # <<>>
  /\ local' = [local EXCEPT ![n] = Head(back[n])]
  /\ back' = [back EXCEPT ![n] = Tail(@)]
  /\ UNCHANGED <<redis, call, conns>>
-----------------------------------------------------------------------------
(* pushIP. *)

PushLocal(c) ==
  /\ call[c].pc = "pushLocal"
  /\ local' = [local EXCEPT ![call[c].node] = [map |-> call[c].map, ttl |-> Expiry]]
  /\ call' = [call EXCEPT ![c].pc = "pushRedis"]
  /\ UNCHANGED <<redis, back, conns>>

\* The entry is renewed, unless redis cannot be reached.
PushRedis(c) ==
  /\ call[c].pc = "pushRedis"
  /\ redis' \in {redis, [map |-> call[c].map, ttl |-> Expiry]}
  /\ call' = [call EXCEPT ![c] = NoCall]
  /\ UNCHANGED <<local, back, conns>>
-----------------------------------------------------------------------------
(* Time. *)

\* Mutant: what has expired is still in the map.
Older_Kept(e) == [e EXCEPT !.ttl = IF @ > 0 THEN @ - 1 ELSE 0]

Older(e) == IF e.ttl > 1 THEN [e EXCEPT !.ttl = @ - 1] ELSE NoEntry

Tick ==
  /\ \A c \in Calls : call[c].pc = "idle"
  /\ \A n \in Nodes : back[n] = <<>>
  /\ local' = [n \in Nodes |-> Older(local[n])]
  /\ redis' = Older(redis)
  /\ conns' = 0
  /\ UNCHANGED <<back, call>>
-----------------------------------------------------------------------------
Work ==
  \/ \E c \in Calls : ReadRedis(c) \/ PushLocal(c) \/ PushRedis(c)
  \/ \E n \in Nodes : SetBack(n)

Next == (\E c \in Calls : Connect(c)) \/ Work \/ Tick

Spec == Init /\ [][Next]_vars

\* Reads and writes end, and time goes on.
FairSpec == Spec /\ WF_vars(Work) /\ WF_vars(Tick)
-----------------------------------------------------------------------------
(* Correctness properties. *)

\* Every variable has its type, and what has expired is gone.
TypeOK ==
  /\ local \in [Nodes -> Entry] /\ redis \in Entry
  /\ \A n \in Nodes : local[n].ttl = 0 => local[n] = NoEntry
  /\ redis.ttl = 0 => redis = NoEntry
  /\ back \in [Nodes -> Seq(Entry)] /\ \A n \in Nodes : Len(back[n]) <= Channel
  /\ call \in [Calls -> Call] /\ conns \in 0..MaxConns
  /\ \A c \in Calls : /\ call[c].pc = "idle" \/ call[c].node \in Nodes
                      /\ call[c].pc = "redis" => call[c].ip \in IPs

\* No map that is cached, on its way to a cache or to be set back ever holds more
\* addresses than the limit, however reads, writes and expiries of several nodes
\* interleave (the test of limiter.go:268; the local limit is one looser).
Within(m) == Limit > 0 => Cardinality(m) <= Limit

NeverOverfull ==
  /\ Within(redis.map)
  /\ \A n \in Nodes : /\ Within(local[n].map)
                      /\ \A i \in 1..Len(back[n]) : Within(back[n][i].map)
  /\ \A c \in Calls : Within(call[c].map)

\* An address leaves the map of redis only when the entry expires, or when a
\* connection writes that had read another map: one that is alone forgets nobody.
DroppedOnlyByRace ==
  [][redis.map \ redis'.map # {} =>
       \/ redis'.ttl = 0
       \/ \E c \in Calls : /\ call[c].pc = "pushRedis" /\ call'[c].pc = "idle"
                           /\ call[c].base # redis.map]_vars

\* What globalLimit goes by at a node.
View(n) == IF local[n].ttl > 0 THEN local[n].map ELSE redis.map

\* No node refuses new addresses for ever: whoever goes on connecting, a full map
\* expires, since only a new address renews it.
FullExpires == \A n \in Nodes : []<>~Full(View(n))
=============================================================================
