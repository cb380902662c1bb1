--------------------------- MODULE GlobalLimitProofs ---------------------------
(***************************************************************************)
(* Proofs about GlobalLimit, for any nodes, addresses, connections, limit  *)
(* and life of an entry: its type invariant, that no map is ever too full, *)
(* and that only a race drops an address before its entry expires.         *)
(***************************************************************************)
EXTENDS GlobalLimit, FiniteSetTheorems, TLAPS

\* Every map is below the limit, one to be written holds what was read, and one
\* to be set back has not expired: time waits for it.
MapsInv ==
  /\ NeverOverfull
  /\ \A c \in Calls : call[c].base \subseteq call[c].map
  /\ \A n \in Nodes : \A i \in 1..Len(back[n]) : back[n][i].ttl > 0

LimitInv == TypeOK /\ MapsInv

LEMMA NoCallType == NoCall \in Call /\ NoCall.pc = "idle" /\ NoCall.map = {} /\ NoCall.base = {}
  BY DEF NoCall, Call

LEMMA NoEntryType == NoEntry \in Entry /\ NoEntry.ttl = 0 /\ NoEntry.map = {}
  BY GlobalLimitAssumption DEF NoEntry, Entry

\* What is decided about a connection is a call that is over or one that writes.
LEMMA DecideType ==
  ASSUME NEW n \in Nodes, NEW ip \in IPs, NEW m \in SUBSET IPs
  PROVE  /\ Decide(n, ip, m) \in Call
         /\ Decide(n, ip, m).pc = "idle" \/ Decide(n, ip, m).node \in Nodes
         /\ Decide(n, ip, m).pc # "redis"
         /\ Decide(n, ip, m).base \subseteq Decide(n, ip, m).map
  BY NoCallType DEF Decide, Push, Call

LEMMA NoneFull == Within({})
  BY FS_EmptySet, GlobalLimitAssumption DEF Within

\* One address more is within the limit of a map that is not full.
LEMMA DecideWithin ==
  ASSUME NEW n \in Nodes, NEW ip \in IPs, NEW m \in SUBSET IPs
  PROVE  Within(Decide(n, ip, m).map)
<1>1. CASE ip \in m \/ Full(m)
  BY <1>1, NoCallType, NoneFull DEF Decide
<1>2. CASE ~(ip \in m \/ Full(m))
  <2>1. IsFiniteSet(m) /\ Cardinality(m) \in Nat
    BY FS_Subset, FS_CardinalityType, GlobalLimitAssumption
  <2>2. Cardinality(m \cup {ip}) = Cardinality(m) + 1
    BY <1>2, <2>1, FS_AddElement
  <2>3. Decide(n, ip, m).map = m \cup {ip}
    BY <1>2 DEF Decide, Push
  <2> QED BY <1>2, <2>1, <2>2, <2>3, GlobalLimitAssumption DEF Full, Within
<1> QED BY <1>1, <1>2

LEMMA FirstWithin ==
  ASSUME NEW ip \in IPs PROVE Within({ip})
  BY FS_Singleton, GlobalLimitAssumption DEF Within

LEMMA OlderType ==
  ASSUME NEW e \in Entry, e.ttl = 0 => e = NoEntry
  PROVE  /\ Older(e) \in Entry /\ (Older(e).ttl = 0 => Older(e) = NoEntry)
         /\ Older(e).map \in {e.map, {}}
         /\ Older(e).ttl = 0 \/ Older(e).map = e.map
  BY NoEntryType, GlobalLimitAssumption DEF Older, Entry
-----------------------------------------------------------------------------
LEMMA InvInit == Init => LimitInv
<1> SUFFICES ASSUME Init PROVE LimitInv
  OBVIOUS
<1>1. TypeOK
  BY NoCallType, NoEntryType, GlobalLimitAssumption DEF Init, TypeOK
<1>2. MapsInv
  <2>1. \A n \in Nodes : 1..Len(back[n]) = {}
    BY DEF Init
  <2> QED BY <2>1, NoCallType, NoEntryType, NoneFull DEF Init, MapsInv, NeverOverfull
<1> QED BY <1>1, <1>2 DEF LimitInv

LEMMA ConnectInv ==
  ASSUME LimitInv, NEW c \in Calls, Connect(c)
  PROVE  LimitInv'
<1> USE DEF LimitInv
<1>1. PICK n \in Nodes, ip \in IPs :
        call' = [call EXCEPT ![c] =
                   IF local[n].ttl > 0 THEN Decide(n, ip, local[n].map)
                   ELSE [NoCall EXCEPT !.pc = "redis", !.node = n, !.ip = ip]]
  BY DEF Connect
<1> DEFINE new == IF local[n].ttl > 0 THEN Decide(n, ip, local[n].map)
                  ELSE [NoCall EXCEPT !.pc = "redis", !.node = n, !.ip = ip]
<1>2. /\ new \in Call /\ (new.pc = "idle" \/ new.node \in Nodes)
      /\ (new.pc = "redis" => new.ip \in IPs)
      /\ new.base \subseteq new.map /\ Within(new.map)
  <2>1. local[n].map \in SUBSET IPs
    BY DEF TypeOK, Entry
  <2>2. CASE local[n].ttl > 0
    BY <2>1, <2>2, DecideType, DecideWithin
  <2>3. CASE ~(local[n].ttl > 0)
    BY <2>3, NoneFull, NoCallType DEF NoCall, Call
  <2> QED BY <2>2, <2>3
<1> HIDE DEF new
<1>3. call' = [call EXCEPT ![c] = new]
  BY <1>1 DEF new
<1>4. conns' \in 0..MaxConns /\ UNCHANGED <<local, redis, back>>
  BY GlobalLimitAssumption DEF Connect, TypeOK
<1>5. TypeOK'
  BY <1>2, <1>3, <1>4 DEF TypeOK
<1>6. MapsInv'
  BY <1>2, <1>3, <1>4 DEF TypeOK, MapsInv, NeverOverfull
<1> QED BY <1>5, <1>6

LEMMA ReadRedisInv ==
  ASSUME LimitInv, NEW c \in Calls, ReadRedis(c)
  PROVE  LimitInv'
<1> USE DEF LimitInv
<1> DEFINE n == call[c].node
<1> DEFINE ip == call[c].ip
<1>1. /\ n \in Nodes /\ ip \in IPs
      /\ UNCHANGED <<local, redis, conns>>
      /\ redis.map \in SUBSET IPs /\ Within(redis.map)
      /\ back \in [Nodes -> Seq(Entry)] /\ redis \in Entry
  BY DEF ReadRedis, TypeOK, Entry, MapsInv, NeverOverfull
\* However it ends, the call is one that may be left so.
<1>2. PICK new :
        /\ call' = [call EXCEPT ![c] = new]
        /\ new \in Call /\ (new.pc = "idle" \/ new.node \in Nodes) /\ new.pc # "redis"
        /\ new.base \subseteq new.map /\ Within(new.map)
  <2>1. CASE call' = [call EXCEPT ![c] = Decide(n, @.ip, redis.map)]
    BY <2>1, <1>1, DecideType, DecideWithin
  <2>2. CASE call' = [call EXCEPT ![c] = Push(n, {}, {@.ip})]
    <3>1. call' = [call EXCEPT ![c] = Push(n, {}, {ip})]
      BY <2>2
    <3>2. Push(n, {}, {ip}) \in Call /\ Push(n, {}, {ip}).node \in Nodes
          /\ Push(n, {}, {ip}).pc # "redis"
          /\ Push(n, {}, {ip}).base = {} /\ Push(n, {}, {ip}).map = {ip}
      BY <1>1 DEF Push, Call
    <3>3. Within({ip})
      BY <1>1, FirstWithin
    <3> QED BY <3>1, <3>2, <3>3
  <2>3. CASE call' = [call EXCEPT ![c] = NoCall]
    BY <2>3, NoCallType, NoneFull
  <2> QED BY <2>1, <2>2, <2>3 DEF ReadRedis
<1>3. /\ back' \in [Nodes -> Seq(Entry)]
      /\ \A k \in Nodes : Len(back'[k]) <= Channel
      /\ \A k \in Nodes : \A i \in 1..Len(back'[k]) :
           Within(back'[k][i].map) /\ back'[k][i].ttl > 0
  <2>1. CASE back' = [back EXCEPT ![n] = Append(@, redis)] /\ Len(back[n]) < Channel
             /\ redis.ttl > 0
    <3>1. back'[n] = Append(back[n], redis) /\ \A k \in Nodes : k # n => back'[k] = back[k]
      BY <2>1, <1>1
    <3>2. Len(back'[n]) = Len(back[n]) + 1 /\ back'[n][Len(back[n]) + 1] = redis
          /\ \A i \in 1..Len(back[n]) : back'[n][i] = back[n][i]
      BY <3>1, <1>1
    <3>3. Len(back[n]) \in Nat
      BY <1>1
    <3>4. ASSUME NEW i \in 1..Len(back'[n])
          PROVE  Within(back'[n][i].map) /\ back'[n][i].ttl > 0
      <4>1. CASE i = Len(back[n]) + 1
        BY <4>1, <3>2, <2>1, <1>1
      <4>2. CASE i # Len(back[n]) + 1
        <5>1. i \in 1..Len(back[n]) /\ back'[n][i] = back[n][i]
          BY <4>2, <3>2, <3>3
        <5> QED BY <5>1, <1>1 DEF MapsInv, NeverOverfull
      <4> QED BY <4>1, <4>2
    <3>5. back' \in [Nodes -> Seq(Entry)]
      BY <2>1, <1>1
    <3>6. Len(back'[n]) <= Channel
      BY <2>1, <3>2, <3>3, GlobalLimitAssumption
    <3> QED BY <3>1, <3>4, <3>5, <3>6 DEF TypeOK, MapsInv, NeverOverfull
  <2>2. CASE UNCHANGED back
    BY <2>2 DEF TypeOK, MapsInv, NeverOverfull
  <2> QED BY <2>1, <2>2 DEF ReadRedis
<1> HIDE DEF n, ip
<1>4. TypeOK'
  BY <1>1, <1>2, <1>3 DEF TypeOK
<1>5. MapsInv'
  BY <1>1, <1>2, <1>3 DEF TypeOK, MapsInv, NeverOverfull
<1> QED BY <1>4, <1>5

LEMMA SetBackInv ==
  ASSUME LimitInv, NEW n \in Nodes, SetBack(n)
  PROVE  LimitInv'
<1> USE DEF LimitInv
<1>1. /\ back[n] \in Seq(Entry) /\ back[n] # <<>>
      /\ local' = [local EXCEPT ![n] = Head(back[n])]
      /\ back' = [back EXCEPT ![n] = Tail(@)]
      /\ UNCHANGED <<redis, call, conns>>
  BY DEF SetBack, TypeOK
<1>2. /\ Head(back[n]) = back[n][1] /\ Head(back[n]) \in Entry
      /\ 1 \in 1..Len(back[n])
      /\ Tail(back[n]) \in Seq(Entry) /\ Len(Tail(back[n])) = Len(back[n]) - 1
      /\ \A i \in 1..Len(Tail(back[n])) : Tail(back[n])[i] = back[n][i + 1]
      /\ Len(back[n]) \in Nat
  BY <1>1
<1>3. Within(Head(back[n]).map)
  BY <1>2 DEF MapsInv, NeverOverfull
<1>4. \A i \in 1..Len(Tail(back[n])) : Within(Tail(back[n])[i].map)
  BY <1>2 DEF MapsInv, NeverOverfull
<1>5. Len(Tail(back[n])) <= Channel
  BY <1>2, GlobalLimitAssumption DEF TypeOK
<1>6. Head(back[n]).ttl # 0 /\ \A i \in 1..Len(Tail(back[n])) : Tail(back[n])[i].ttl > 0
  BY <1>2 DEF MapsInv
<1>7. TypeOK'
  BY <1>1, <1>2, <1>5, <1>6 DEF TypeOK
<1>8. MapsInv'
  BY <1>1, <1>3, <1>4, <1>6 DEF TypeOK, MapsInv, NeverOverfull
<1> QED BY <1>7, <1>8

LEMMA PushLocalInv ==
  ASSUME LimitInv, NEW c \in Calls, PushLocal(c)
  PROVE  LimitInv'
<1> USE DEF LimitInv
<1> DEFINE e == [map |-> call[c].map, ttl |-> Expiry]
<1>1. /\ e \in Entry /\ e.ttl # 0 /\ Within(e.map) /\ call[c].node \in Nodes
      /\ local' = [local EXCEPT ![call[c].node] = e]
      /\ call' = [call EXCEPT ![c].pc = "pushRedis"]
      /\ UNCHANGED <<redis, back, conns>>
  BY GlobalLimitAssumption DEF PushLocal, TypeOK, MapsInv, NeverOverfull, Entry, Call
<1> HIDE DEF e
<1>2. TypeOK'
  BY <1>1 DEF TypeOK, Call
<1>3. MapsInv'
  BY <1>1 DEF TypeOK, Call, MapsInv, NeverOverfull
<1> QED BY <1>2, <1>3

LEMMA PushRedisInv ==
  ASSUME LimitInv, NEW c \in Calls, PushRedis(c)
  PROVE  LimitInv'
<1> USE DEF LimitInv
<1> DEFINE e == [map |-> call[c].map, ttl |-> Expiry]
<1>1. /\ e \in Entry /\ e.ttl # 0 /\ Within(e.map)
      /\ redis' \in {redis, e}
      /\ call' = [call EXCEPT ![c] = NoCall]
      /\ UNCHANGED <<local, back, conns>>
  BY GlobalLimitAssumption DEF PushRedis, TypeOK, MapsInv, NeverOverfull, Entry, Call
<1> HIDE DEF e
<1>2. TypeOK'
  BY <1>1, NoCallType DEF TypeOK
<1>3. MapsInv'
  BY <1>1, NoCallType, NoneFull DEF TypeOK, MapsInv, NeverOverfull
<1> QED BY <1>2, <1>3

LEMMA TickInv ==
  ASSUME LimitInv, Tick
  PROVE  LimitInv'
<1> USE DEF LimitInv
<1>1. /\ local' = [n \in Nodes |-> Older(local[n])] /\ redis' = Older(redis)
      /\ conns' = 0 /\ UNCHANGED <<back, call>>
      /\ 0 \in 0..MaxConns
  BY GlobalLimitAssumption DEF Tick
<1>2. /\ Older(redis) \in Entry /\ (Older(redis).ttl = 0 => Older(redis) = NoEntry)
      /\ Within(Older(redis).map)
  <2>1. redis \in Entry /\ (redis.ttl = 0 => redis = NoEntry) /\ Within(redis.map)
    BY DEF TypeOK, MapsInv, NeverOverfull
  <2>2. Older(redis).map \in {redis.map, {}}
    BY <2>1, OlderType
  <2> QED BY <2>1, <2>2, OlderType, NoneFull
<1>3. ASSUME NEW n \in Nodes
      PROVE  /\ Older(local[n]) \in Entry /\ (Older(local[n]).ttl = 0 => Older(local[n]) = NoEntry)
             /\ Within(Older(local[n]).map)
  <2>1. local[n] \in Entry /\ (local[n].ttl = 0 => local[n] = NoEntry) /\ Within(local[n].map)
    BY DEF TypeOK, MapsInv, NeverOverfull
  <2>2. Older(local[n]).map \in {local[n].map, {}}
    BY <2>1, OlderType
  <2> QED BY <2>1, <2>2, OlderType, NoneFull
<1>4. TypeOK'
  BY <1>1, <1>2, <1>3 DEF TypeOK
<1>5. MapsInv'
  BY <1>1, <1>2, <1>3 DEF TypeOK, MapsInv, NeverOverfull
<1> QED BY <1>4, <1>5

LEMMA InvStep == LimitInv /\ [Next]_vars => LimitInv'
<1> SUFFICES ASSUME LimitInv, [Next]_vars PROVE LimitInv'
  OBVIOUS
<1>1. ASSUME NEW c \in Calls, Connect(c) PROVE LimitInv'
  BY <1>1, ConnectInv
<1>2. ASSUME NEW c \in Calls, ReadRedis(c) PROVE LimitInv'
  BY <1>2, ReadRedisInv
<1>3. ASSUME NEW c \in Calls, PushLocal(c) PROVE LimitInv'
  BY <1>3, PushLocalInv
<1>4. ASSUME NEW c \in Calls, PushRedis(c) PROVE LimitInv'
  BY <1>4, PushRedisInv
<1>5. ASSUME NEW n \in Nodes, SetBack(n) PROVE LimitInv'
  BY <1>5, SetBackInv
<1>6. CASE Tick
  BY <1>6, TickInv
<1>7. CASE UNCHANGED vars
  BY <1>7 DEF vars, LimitInv, TypeOK, MapsInv, NeverOverfull
<1> QED BY <1>1, <1>2, <1>3, <1>4, <1>5, <1>6, <1>7 DEF Next, Work

LEMMA Invariance == Spec => []LimitInv
  BY InvInit, InvStep, PTL DEF Spec
-----------------------------------------------------------------------------
\* Every variable of the global limit keeps its type, and what has expired is gone.
THEOREM TypeCorrect == Spec => []TypeOK
<1>1. LimitInv => TypeOK
  BY DEF LimitInv
<1> QED BY Invariance, <1>1, PTL

\* No cache ever holds more addresses of a user than his limit, for any number of
\* nodes and connections that read and write the map at once.
THEOREM LimitNeverExceeded == Spec => []NeverOverfull
<1>1. LimitInv => NeverOverfull
  BY DEF LimitInv, MapsInv
<1> QED BY Invariance, <1>1, PTL

\* An address is dropped before its entry expires only by a connection that writes
\* what it made of another map: a write on top of what it read loses nobody.
THEOREM DropsAreRaces == Spec => DroppedOnlyByRace
<1> DEFINE Drop == redis.map \ redis'.map # {} =>
       \/ redis'.ttl = 0
       \/ \E c \in Calls : /\ call[c].pc = "pushRedis" /\ call'[c].pc = "idle"
                           /\ call[c].base # redis.map
<1>1. LimitInv /\ [Next]_vars => [Drop]_vars
  <2> SUFFICES ASSUME LimitInv, Next PROVE Drop
    OBVIOUS
  <2>1. CASE UNCHANGED redis
    BY <2>1
  <2>2. ASSUME NEW c \in Calls, PushRedis(c) PROVE Drop
    <3>1. call'[c].pc = "idle" /\ call[c].pc = "pushRedis"
      BY <2>2, NoCallType DEF PushRedis, LimitInv, TypeOK
    <3>2. redis' = redis \/ redis'.map = call[c].map
      BY <2>2 DEF PushRedis
    <3>3. call[c].base \subseteq call[c].map
      BY DEF LimitInv, MapsInv
    <3> QED BY <3>1, <3>2, <3>3
  <2>3. CASE Tick
    BY <2>3, OlderType DEF Tick, LimitInv, TypeOK
  <2> QED
    BY <2>1, <2>2, <2>3 DEF Next, Work, Connect, ReadRedis, SetBack, PushLocal
<1> QED BY Invariance, <1>1, PTL DEF Spec, DroppedOnlyByRace
=============================================================================
