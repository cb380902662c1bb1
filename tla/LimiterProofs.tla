---------------------------- MODULE LimiterProofs ----------------------------
(* Proofs about Limiter: its type invariant and every safety invariant the   *)
(* runs check, for any users, lists of limits, rates, IPs and connections.   *)
EXTENDS Limiter, FiniteSetTheorems, TLAPS

-----------------------------------------------------------------------------
(* Operators of the model. *)

\* A rate is computed from two natural numbers and is one.
LEMMA RateType ==
  ASSUME NEW node \in Nat, NEW speed \in Nat
  PROVE  determineRate(node, speed) \in Nat
BY DEF determineRate

\* What a call reads of a user's limits is a number, and for a user who has
\* limits it is theirs.
LEMMA LimitsType ==
  ASSUME sub \in [Users -> Limit \cup {None}], NEW u \in Users
  PROVE  IPLimitOf(u) \in Nat /\ SpeedOf(u) \in Nat
BY DEF IPLimitOf, SpeedOf, Limit

\* Taking a bucket out of the hub changes only what limits its links.
LEMMA UnshareFacts ==
  ASSUME NEW f \in [Conns -> Conn], NEW us
  PROVE  /\ Unshare(f, us) \in [Conns -> Conn]
         /\ \A c \in Conns :
              /\ Unshare(f, us)[c].pc = f[c].pc
              /\ Unshare(f, us)[c].user = f[c].user
              /\ Unshare(f, us)[c].ip = f[c].ip
              /\ Unshare(f, us)[c].ipLimit = f[c].ipLimit
              /\ Unshare(f, us)[c].rate = f[c].rate
              /\ Unshare(f, us)[c].live = f[c].live
              /\ Unshare(f, us)[c].bucket = "hub"
                   => f[c].bucket = "hub" /\ f[c].user \notin us
              /\ Unshare(f, us)[c].bucket = "none" => f[c].bucket = "none"
BY DEF Unshare, Conn

\* Calls that hold a replaced InboundInfo are stale; the others stay where
\* they are, and no IP is on the list of today's InboundInfo any more.
LEMMA DetachFacts ==
  ASSUME NEW f \in [Conns -> Conn]
  PROVE  /\ Detach(f) \in [Conns -> Conn]
         /\ \A c \in Conns :
              /\ Detach(f)[c].pc = IF f[c].pc \in InFlight THEN "stale" ELSE f[c].pc
              /\ ~ Detach(f)[c].live
              /\ Detach(f)[c].user = f[c].user
              /\ Detach(f)[c].ip = f[c].ip
              /\ Detach(f)[c].ipLimit = f[c].ipLimit
              /\ Detach(f)[c].rate = f[c].rate
              /\ Detach(f)[c].bucket = f[c].bucket
BY DEF Detach, Conn, ConnPCs, InFlight

LEMMA LiveType ==
  ASSUME NEW r \in Conn, NEW l \in ConnPCs
  PROVE  /\ [r EXCEPT !.live = FALSE] \in Conn
         /\ [r EXCEPT !.pc = l, !.live = TRUE] \in Conn
BY DEF Conn

LEMMA RecordTypes == NoConn \in Conn /\ NoPoll \in Poll /\ NoCtl \in Ctl
BY DEF NoConn, Conn, ConnPCs, NoPoll, Poll, NoIPs, NoCtl, Ctl

-----------------------------------------------------------------------------
(* The type invariant.  The fields a call has set depend on how far it is.   *)

CallInv ==
  /\ \A c \in Conns : conn[c].pc # "idle" =>
       conn[c].user \in Users /\ conn[c].ip \in IPs
  /\ poll.pc \in {"drop", "drain"} => poll.user \in Users
  /\ ctl.pc # "idle" => ctl.list \in Lists
  /\ ctl.pc # "idle" => \A u \in ctl.todo : ctl.list[u] # None
  /\ ctl.pc = "bucket" => ctl.user \in Users /\ ctl.list[ctl.user] # None

TypeInv == TypeOK /\ CallInv

LEMMA TypeInit == Init => TypeInv
<1> SUFFICES ASSUME Init PROVE TypeInv
  OBVIOUS
<1>1. TypeOK
  BY RecordTypes DEF Init, TypeOK, NoIPs
<1>2. CallInv
  BY DEF Init, CallInv, NoConn, NoPoll, NoCtl
<1> QED
  BY <1>1, <1>2 DEF TypeInv

\* What replaces an InboundInfo leaves all but the three fields it sets well-typed.
LEMMA ReplaceType ==
  ASSUME TypeInv, Replace
  PROVE  /\ online' \in [Users -> SUBSET IPs]
         /\ hub' \in [Users -> Nat \cup {None}]
         /\ conn' \in [Conns -> Conn] /\ poll' \in Poll
         /\ \A c \in Conns : conn'[c].pc # "idle" =>
              conn'[c].user \in Users /\ conn'[c].ip \in IPs
         /\ poll'.pc = "idle"
<1>1. Detach(conn) \in [Conns -> Conn]
  BY DetachFacts DEF TypeInv, TypeOK
<1>2. conn' = Unshare(Detach(conn), Users) /\ conn' \in [Conns -> Conn]
  BY <1>1, UnshareFacts DEF Replace
<1>3. ASSUME NEW c \in Conns, conn'[c].pc # "idle"
      PROVE  conn'[c].user \in Users /\ conn'[c].ip \in IPs
  <2>1. /\ conn'[c].pc = Detach(conn)[c].pc
        /\ conn'[c].user = Detach(conn)[c].user
        /\ conn'[c].ip = Detach(conn)[c].ip
    BY <1>1, <1>2, UnshareFacts
  <2>2. /\ conn[c].pc # "idle"
        /\ conn'[c].user = conn[c].user /\ conn'[c].ip = conn[c].ip
    BY <1>3, <2>1, DetachFacts DEF TypeInv, TypeOK, InFlight
  <2> QED
    BY <2>2 DEF TypeInv, CallInv
<1> QED
  BY <1>2, <1>3, RecordTypes DEF Replace, NoIPs, NoPoll

\* Every action preserves it.
LEMMA TypeStep == TypeInv /\ [Next]_vars => TypeInv'
<1> SUFFICES ASSUME TypeInv, [Next]_vars PROVE TypeInv'
  OBVIOUS
<1> USE LimiterAssumption DEF TypeInv, TypeOK, CallInv, info
<1>1. ASSUME NEW c \in Conns, Load(c) PROVE TypeInv'
  <2>1. PICK u \in Users, ip \in IPs :
          conn' = [conn EXCEPT ![c] =
            [NoConn EXCEPT !.pc = "load", !.user = u, !.ip = ip,
                           !.ipLimit = IPLimitOf(u),
                           !.rate = determineRate(nodeRate, SpeedOf(u))]]
    BY <1>1 DEF Load
  <2>2. IPLimitOf(u) \in Nat /\ determineRate(nodeRate, SpeedOf(u)) \in Nat
    BY LimitsType, RateType
  <2> QED
    BY <1>1, <2>1, <2>2 DEF Load, NoConn, Conn, ConnPCs
<1>2. ASSUME NEW c \in Conns, LoadMissing(c) PROVE TypeInv'
  <2>1. PICK u \in Users, ip \in IPs :
          conn' = [conn EXCEPT ![c] =
                     [NoConn EXCEPT !.pc = "open", !.user = u, !.ip = ip]]
    BY <1>2 DEF LoadMissing
  <2> QED
    BY <1>2, <2>1 DEF LoadMissing, NoConn, Conn, ConnPCs
<1>3. ASSUME NEW c \in Conns, GlobalReject(c) PROVE TypeInv'
  BY <1>3 DEF GlobalReject, At, Move, Conn, ConnPCs
<1>4. ASSUME NEW c \in Conns, LoadOrStoreOnline(c) PROVE TypeInv'
  <2>1. conn[c].user \in Users /\ conn[c].ip \in IPs
    BY <1>4 DEF LoadOrStoreOnline, At
  <2>2. \E l \in {"bucket", "check"} :
          conn' = [conn EXCEPT ![c].pc = l, ![c].live = TRUE]
    BY <1>4 DEF LoadOrStoreOnline
  <2>3. conn' \in [Conns -> Conn]
    <3>1. PICK l \in {"bucket", "check"} :
            conn' = [conn EXCEPT ![c] = [conn[c] EXCEPT !.pc = l, !.live = TRUE]]
      BY <2>2
    <3> QED
      BY <3>1, LiveType DEF ConnPCs
  <2>4. \A d \in Conns : conn'[d].user = conn[d].user /\ conn'[d].ip = conn[d].ip
    BY <2>2 DEF Conn
  <2>5. \A d \in Conns : conn'[d].pc # "idle" => conn[d].pc # "idle"
    BY <1>4, <2>2 DEF LoadOrStoreOnline, At, Conn
  <2>6. online' \in [Users -> SUBSET IPs]
    BY <1>4, <2>1 DEF LoadOrStoreOnline
  <2> QED
    BY <1>4, <2>3, <2>4, <2>5, <2>6 DEF LoadOrStoreOnline
<1>5. ASSUME NEW c \in Conns, CheckIP(c) PROVE TypeInv'
  <2>1. conn[c].pc # "idle" /\ (Move(c, "bucket") \/ Move(c, "count"))
    BY <1>5 DEF CheckIP, At
  <2> QED
    BY <1>5, <2>1 DEF CheckIP, Move, Conn, ConnPCs
<1>6. ASSUME NEW c \in Conns, CountIPs(c) PROVE TypeInv'
  BY <1>6 DEF CountIPs, At, Move, Conn, ConnPCs
<1>7. ASSUME NEW c \in Conns, StoreIP(c) PROVE TypeInv'
  BY <1>7 DEF StoreIP, At, Move, Conn, ConnPCs
<1>8. ASSUME NEW c \in Conns, TakeBucket(c) PROVE TypeInv'
  BY <1>8 DEF TakeBucket, At, Move, Conn, ConnPCs
<1>9. ASSUME NEW c \in Conns, StaleReturns(c) PROVE TypeInv'
  BY <1>9 DEF StaleReturns, At, Move, Conn, ConnPCs
<1>10. ASSUME NEW c \in Conns, End(c) PROVE TypeInv'
  BY <1>10, RecordTypes DEF End, NoConn
<1>11. CASE StartPoll
  BY <1>11 DEF StartPoll, NoPoll, NoIPs, Poll
<1>12. ASSUME NEW u \in Users, LookAtBucket(u) PROVE TypeInv'
  BY <1>12 DEF LookAtBucket, Poll
<1>13. CASE DropBucket
  <2>1. poll' \in Poll /\ poll'.pc = "hub"
    BY <1>13 DEF DropBucket, Poll
  <2> QED
    BY <1>13, <2>1, UnshareFacts DEF DropBucket
<1>14. CASE BucketsDone
  BY <1>14 DEF BucketsDone, Poll
<1>15. ASSUME NEW u \in Users, LookAtUser(u) PROVE TypeInv'
  BY <1>15 DEF LookAtUser, Poll
<1>16. CASE DrainUser
  <2>1. poll' \in Poll /\ poll'.pc = "online"
    <3>1. PICK late \in SUBSET (online[poll.user] \ poll.seen) :
            poll' = [poll EXCEPT !.pc = "online", !.todo = @ \ {poll.user},
                                 !.user = None, !.seen = {},
                                 !.report[poll.user] = poll.seen \cup late]
      BY <1>16 DEF DrainUser
    <3>2. late \in SUBSET IPs
      BY <1>16 DEF DrainUser
    <3> QED
      BY <3>1, <3>2 DEF Poll
  <2>2. conn' \in [Conns -> Conn]
    <3>1. \A c \in Conns : [conn[c] EXCEPT !.live = FALSE] \in Conn
      <4>1. "idle" \in ConnPCs
        BY DEF ConnPCs
      <4> QED
        BY <4>1, LiveType
    <3> QED
      BY <1>16, <3>1 DEF DrainUser
  <2>3. \A c \in Conns : /\ conn'[c].pc = conn[c].pc /\ conn'[c].ip = conn[c].ip
                         /\ conn'[c].user = conn[c].user
    BY <1>16 DEF DrainUser, Conn
  <2> QED
    BY <1>16, <2>1, <2>2, <2>3 DEF DrainUser
<1>17. CASE EndPoll
  BY <1>17, RecordTypes DEF EndPoll, NoPoll
<1>18. CASE AddInboundLimiter
  BY <1>18, ReplaceType DEF AddInboundLimiter
<1>19. CASE DeleteInboundLimiter
  BY <1>19, ReplaceType DEF DeleteInboundLimiter
<1>20. CASE StartUpdate
  <2>1. PICK list \in Lists :
          ctl' = [NoCtl EXCEPT !.pc = "store",
                    !.todo = {u \in Users : list[u] # None /\ list[u] # sub[u]},
                    !.list = list]
    BY <1>20 DEF StartUpdate
  <2>2. /\ ctl'.pc = "store" /\ ctl'.list = list /\ ctl'.user = None
        /\ ctl'.todo = {u \in Users : list[u] # None /\ list[u] # sub[u]}
    BY <2>1 DEF NoCtl
  <2>3. ctl' \in Ctl
    BY <2>1 DEF NoCtl, Ctl
  <2> QED
    BY <1>20, <2>2, <2>3 DEF StartUpdate
<1>21. ASSUME NEW u \in Users, UpdateUser(u) PROVE TypeInv'
  <2>1. /\ ctl.pc = "store" /\ u \in ctl.todo
        /\ ctl' = [ctl EXCEPT !.pc = "bucket", !.todo = @ \ {u}, !.user = u]
    BY <1>21 DEF UpdateUser
  <2>2. ctl' \in Ctl
    BY <2>1 DEF Ctl
  <2>3. /\ ctl'.pc = "bucket" /\ ctl'.list = ctl.list /\ ctl'.user = u
        /\ ctl'.todo = ctl.todo \ {u}
    BY <2>1 DEF Ctl
  <2>4. ctl.list \in [Users -> Limit \cup {None}]
    BY <2>1
  <2>5. sub' \in [Users -> Limit \cup {None}]
    BY <1>21, <2>4 DEF UpdateUser
  <2> QED
    BY <1>21, <2>1, <2>2, <2>3, <2>5 DEF UpdateUser
<1>22. CASE UpdateBucket
  <2> DEFINE rate == determineRate(nodeRate, ctl.list[ctl.user].speed)
  <2>1. rate \in Nat
    <3>1. ctl.list[ctl.user] \in Limit
      BY <1>22 DEF UpdateBucket
    <3> QED
      BY <3>1, RateType DEF Limit
  <2> HIDE DEF rate
  <2>2. hub' \in [Users -> Nat \cup {None}]
    BY <1>22, <2>1 DEF UpdateBucket, rate
  <2>3. conn' = conn \/ conn' = Unshare(conn, {ctl.user})
    BY <1>22 DEF UpdateBucket
  <2>4. ctl' \in Ctl /\ ctl'.pc # "bucket"
        /\ (ctl'.pc # "idle" => ctl'.list = ctl.list /\ ctl'.todo = ctl.todo)
    BY <1>22, RecordTypes DEF UpdateBucket, Ctl, NoCtl
  <2>5. conn' \in [Conns -> Conn]
        /\ \A c \in Conns : /\ conn'[c].pc = conn[c].pc /\ conn'[c].ip = conn[c].ip
                            /\ conn'[c].user = conn[c].user
    BY <2>3, UnshareFacts
  <2> QED
    BY <1>22, <2>2, <2>4, <2>5 DEF UpdateBucket
<1>23. CASE UNCHANGED vars
  BY <1>23 DEF vars
<1> QED
  BY <1>1, <1>2, <1>3, <1>4, <1>5, <1>6, <1>7, <1>8, <1>9, <1>10, <1>11, <1>12,
     <1>13, <1>14, <1>15, <1>16, <1>17, <1>18, <1>19, <1>20, <1>21, <1>22, <1>23
     DEF Next, Connection, Reporter, Control

\* Where a call is after each of its steps.
LEMMA Outcomes ==
  ASSUME TypeOK, NEW c \in Conns
  PROVE  /\ Load(c) => conn'[c].pc = "load"
         /\ LoadMissing(c) => conn'[c].pc = "open"
         /\ GlobalReject(c) => conn'[c].pc = "rejected"
         /\ LoadOrStoreOnline(c) => conn'[c].pc \in {"bucket", "check"}
         /\ CheckIP(c) => conn'[c].pc \in {"bucket", "count"}
         /\ CountIPs(c) => conn'[c].pc \in {"rejected", "store"}
         /\ StoreIP(c) => conn'[c].pc = "bucket"
         /\ TakeBucket(c) => conn'[c].pc = "open"
         /\ StaleReturns(c) => conn'[c].pc \in {"open", "rejected"}
         /\ End(c) => conn'[c].pc = "idle"
<1> USE DEF TypeOK
<1>1. ASSUME NEW l \in ConnPCs, Move(c, l) PROVE conn'[c].pc = l
  BY <1>1 DEF Move, Conn
<1>2. Load(c) => conn'[c].pc = "load"
  BY DEF Load, NoConn
<1>3. LoadMissing(c) => conn'[c].pc = "open"
  BY DEF LoadMissing, NoConn
<1>4. LoadOrStoreOnline(c) => conn'[c].pc \in {"bucket", "check"}
  BY DEF LoadOrStoreOnline, Conn
<1>5. /\ GlobalReject(c) => conn'[c].pc = "rejected"
      /\ CheckIP(c) => conn'[c].pc \in {"bucket", "count"}
      /\ CountIPs(c) => conn'[c].pc \in {"rejected", "store"}
      /\ StoreIP(c) => conn'[c].pc = "bucket"
  BY <1>1 DEF GlobalReject, CheckIP, CountIPs, StoreIP, ConnPCs
<1>6. TakeBucket(c) => conn'[c].pc = "open"
  BY <1>1 DEF TakeBucket, Conn, ConnPCs
<1>7. StaleReturns(c) => conn'[c].pc \in {"open", "rejected"}
  BY <1>1 DEF StaleReturns, Conn, ConnPCs
<1>8. End(c) => conn'[c].pc = "idle"
  BY DEF End, NoConn
<1> QED
  BY <1>2, <1>3, <1>4, <1>5, <1>6, <1>7, <1>8

-----------------------------------------------------------------------------
(* The online list.  A step of another goroutine leaves a connection alone,  *)
(* unless it takes the list it works on away from it.                        *)

LEMMA Bystander ==
  ASSUME TypeInv, [Next]_vars, NEW d \in Conns, ~ Connection(d), conn'[d].live
  PROVE  /\ conn[d].live
         /\ conn'[d].pc = conn[d].pc /\ conn'[d].user = conn[d].user
         /\ conn'[d].ip = conn[d].ip /\ conn'[d].ipLimit = conn[d].ipLimit
         /\ conn[d].user \in Users => online[conn[d].user] \subseteq online'[conn[d].user]
<1> USE DEF TypeInv, TypeOK
<1>1. ASSUME NEW c \in Conns, Connection(c)
      PROVE  conn'[d] = conn[d] /\ \A u \in Users : online[u] \subseteq online'[u]
  <2>1. c # d
    BY <1>1
  <2>2. conn'[d] = conn[d]
    BY <1>1, <2>1 DEF Connection, Load, LoadMissing, GlobalReject,
       LoadOrStoreOnline, CheckIP, CountIPs, StoreIP, TakeBucket, StaleReturns,
       End, Move
  <2>3. online' = online \/ LoadOrStoreOnline(c) \/ StoreIP(c)
    BY <1>1 DEF Connection, Load, LoadMissing, GlobalReject, CheckIP, CountIPs,
       TakeBucket, StaleReturns, End
  <2>4. \A u \in Users : online[u] \subseteq online'[u]
    BY <2>3 DEF LoadOrStoreOnline, StoreIP
  <2> QED
    BY <2>2, <2>4
<1>2. CASE Reporter
  <2>1. CASE DropBucket
    BY <2>1, UnshareFacts DEF DropBucket
  <2>2. CASE DrainUser
    <3>1. conn[d].user # poll.user /\ conn'[d] = conn[d]
      BY <2>2 DEF DrainUser, Conn
    <3> QED
      BY <2>2, <3>1 DEF DrainUser
  <2>3. CASE ~ DropBucket /\ ~ DrainUser
    BY <1>2, <2>3 DEF Reporter, StartPoll, BucketsDone, EndPoll, LookAtBucket, LookAtUser
  <2> QED
    BY <2>1, <2>2, <2>3
<1>3. CASE Control
  <2>1. ASSUME Replace PROVE FALSE
    BY <2>1, DetachFacts, UnshareFacts DEF Replace
  <2>2. CASE UpdateBucket
    BY <2>2, UnshareFacts DEF UpdateBucket
  <2>3. CASE ~ UpdateBucket
    BY <1>3, <2>1, <2>3 DEF Control, AddInboundLimiter, DeleteInboundLimiter,
       StartUpdate, UpdateUser
  <2> QED
    BY <2>2, <2>3
<1>4. CASE UNCHANGED vars
  BY <1>4 DEF vars
<1> QED
  BY <1>1, <1>2, <1>3, <1>4 DEF Next

OnlineInv ==
  \A c \in Conns :
    /\ conn[c].pc \in {"load", "stale"} => ~ conn[c].live
    /\ conn[c].live /\ conn[c].pc \in {"bucket", "open"}
         => conn[c].ip \in online[conn[c].user]
    /\ conn[c].live /\ conn[c].pc = "rejected"
         => Full(online[conn[c].user], conn[c].ipLimit)

\* A set of IPs that is full stays so while IPs are added.
LEMMA FullGrows ==
  ASSUME NEW S \in SUBSET IPs, NEW T \in SUBSET IPs, S \subseteq T,
         NEW limit \in Nat, Full(S, limit)
  PROVE  Full(T, limit)
<1>1. IsFiniteSet(T)
  BY LimiterAssumption, FS_Subset
<1>2. Cardinality(S) <= Cardinality(T) /\ Cardinality(T) \in Nat
  BY <1>1, FS_Subset, FS_CardinalityType
<1>3. Cardinality(S) \in Nat
  BY <1>1, FS_Subset, FS_CardinalityType
<1> QED
  BY <1>2, <1>3 DEF Full

LEMMA OnlineStep == TypeInv /\ OnlineInv /\ [Next]_vars => OnlineInv'
<1> SUFFICES ASSUME TypeInv, OnlineInv, [Next]_vars, NEW d \in Conns
             PROVE  /\ conn'[d].pc \in {"load", "stale"} => ~ conn'[d].live
                    /\ conn'[d].live /\ conn'[d].pc \in {"bucket", "open"}
                         => conn'[d].ip \in online'[conn'[d].user]
                    /\ conn'[d].live /\ conn'[d].pc = "rejected"
                         => Full(online'[conn'[d].user], conn'[d].ipLimit)
  BY DEF OnlineInv
<1> USE DEF TypeInv, TypeOK, OnlineInv
<1>0. TypeInv'
  BY TypeStep
<1>1. CASE ~ Connection(d) /\ conn'[d].live
  <2>1. /\ conn[d].live
        /\ conn'[d].pc = conn[d].pc /\ conn'[d].user = conn[d].user
        /\ conn'[d].ip = conn[d].ip /\ conn'[d].ipLimit = conn[d].ipLimit
        /\ conn[d].user \in Users => online[conn[d].user] \subseteq online'[conn[d].user]
    BY <1>1, Bystander
  <2>2. conn[d].pc # "idle" => conn[d].user \in Users
    BY DEF CallInv
  <2>3. conn[d].pc = "rejected" => Full(online'[conn[d].user], conn[d].ipLimit)
    <3> SUFFICES ASSUME conn[d].pc = "rejected"
                 PROVE  Full(online'[conn[d].user], conn[d].ipLimit)
      OBVIOUS
    <3>1. conn[d].ipLimit \in Nat
      BY DEF Conn
    <3>2. Full(online[conn[d].user], conn[d].ipLimit)
      BY <2>1
    <3> QED
      BY <1>0, <2>1, <2>2, <3>1, <3>2, FullGrows
  <2> QED
    BY <2>1, <2>2, <2>3
<1>2. CASE ~ conn'[d].live
  BY <1>2
<1>3. CASE Connection(d)
  <2>1. CASE Load(d)
    BY <2>1 DEF Load, NoConn
  <2>2. CASE LoadMissing(d)
    BY <2>2 DEF LoadMissing, NoConn
  <2>3. CASE GlobalReject(d)
    BY <2>3 DEF GlobalReject, At, Move, Conn
  <2>4. CASE LoadOrStoreOnline(d)
    <3>1. conn[d].user \in Users
      BY <2>4 DEF LoadOrStoreOnline, At, CallInv
    <3>2. /\ conn'[d].user = conn[d].user /\ conn'[d].ip = conn[d].ip
          /\ conn'[d].pc \in {"bucket", "check"}
          /\ conn'[d].pc = "bucket" => online'[conn[d].user] = {conn[d].ip}
      BY <2>4, <3>1 DEF LoadOrStoreOnline, Conn
    <3> QED
      BY <3>2
  <2>5. CASE CheckIP(d)
    <3>1. /\ conn'[d].user = conn[d].user /\ conn'[d].ip = conn[d].ip
          /\ conn'[d].live = conn[d].live /\ online' = online
          /\ conn'[d].pc \in {"bucket", "count"}
      BY <2>5 DEF CheckIP, Move, Conn
    <3>2. CASE conn[d].live
      <4>1. conn[d].ip \in online[conn[d].user] \/ Move(d, "count")
        BY <2>5, <3>2 DEF CheckIP
      <4>2. Move(d, "count") => conn'[d].pc = "count"
        BY DEF Move, Conn
      <4> QED
        BY <3>1, <4>1, <4>2
    <3> QED
      BY <3>1, <3>2
  <2>6. CASE CountIPs(d)
    <3>1. /\ conn'[d].user = conn[d].user /\ conn'[d].ipLimit = conn[d].ipLimit
          /\ conn'[d].live = conn[d].live /\ online' = online
          /\ conn'[d].pc \in {"rejected", "store"}
      BY <2>6 DEF CountIPs, Move, Conn
    <3>2. CASE conn[d].live
      <4>1. Full(online[conn[d].user], conn[d].ipLimit) \/ Move(d, "store")
        BY <2>6, <3>2 DEF CountIPs
      <4>2. Move(d, "store") => conn'[d].pc = "store"
        BY DEF Move, Conn
      <4> QED
        BY <3>1, <4>1, <4>2
    <3> QED
      BY <3>1, <3>2
  <2>7. CASE StoreIP(d)
    <3>1. conn[d].user \in Users
      BY <2>7 DEF StoreIP, At, CallInv
    <3> QED
      BY <2>7, <3>1 DEF StoreIP, Move, Conn
  <2>8. CASE TakeBucket(d)
    <3>1. /\ conn'[d].user = conn[d].user /\ conn'[d].ip = conn[d].ip
          /\ conn'[d].live = conn[d].live /\ online' = online
          /\ conn'[d].pc = "open" /\ conn[d].pc = "bucket"
      BY <2>8 DEF TakeBucket, At, Move, Conn
    <3> QED
      BY <3>1
  <2>9. CASE StaleReturns(d)
    <3>1. ~ conn[d].live
      BY <2>9 DEF StaleReturns, At
    <3>2. conn'[d].live = conn[d].live
      BY <2>9 DEF StaleReturns, Move, Conn
    <3> QED
      BY <3>1, <3>2
  <2>10. CASE End(d)
    BY <2>10 DEF End, NoConn
  <2> QED
    BY <1>3, <2>1, <2>2, <2>3, <2>4, <2>5, <2>6, <2>7, <2>8, <2>9, <2>10
       DEF Connection
<1> QED
  BY <1>1, <1>2, <1>3

-----------------------------------------------------------------------------
(* The bound on the online list.  A new IP is counted before it is stored:   *)
(* what the list holds and what is about to be stored are bounded together.  *)

Storing(u) == {c \in Conns : conn[c].pc = "store" /\ conn[c].user = u /\ conn[c].live}

Bound == MaxIPLimit + Cardinality(Conns)

LimitInv ==
  /\ present => \A u \in Users : Limited(u) => IPLimitOf(u) \in 1..MaxIPLimit
  /\ \A c \in Conns : conn[c].pc \in {"load", "check", "count"} =>
       (Limited(conn[c].user) => conn[c].ipLimit \in 1..MaxIPLimit)

BoundInv == \A u \in Users : Limited(u) =>
              Cardinality(online[u]) + Cardinality(Storing(u)) <= Bound

LEMMA BoundType == Cardinality(Conns) \in Nat /\ Bound \in Nat
BY LimiterAssumption, FS_CardinalityType DEF Bound

LEMMA OnlineFinite ==
  ASSUME TypeOK, NEW u \in Users
  PROVE  /\ IsFiniteSet(online[u]) /\ Cardinality(online[u]) \in Nat
         /\ IsFiniteSet(Storing(u)) /\ Cardinality(Storing(u)) \in Nat
         /\ Cardinality(Storing(u)) <= Cardinality(Conns)
<1>1. IsFiniteSet(online[u])
  BY LimiterAssumption, FS_Subset DEF TypeOK
<1>2. Storing(u) \in SUBSET Conns
  BY DEF Storing
<1>3. IsFiniteSet(Storing(u)) /\ Cardinality(Storing(u)) <= Cardinality(Conns)
  BY <1>2, LimiterAssumption, FS_Subset
<1> QED
  BY <1>1, <1>3, FS_CardinalityType

\* The limits a limited user may have, and the calls that read them.
LEMMA LimitStep == TypeInv /\ LimitInv /\ [Next]_vars => LimitInv'
<1> SUFFICES ASSUME TypeInv, LimitInv, [Next]_vars PROVE LimitInv'
  OBVIOUS
<1> USE DEF TypeInv, TypeOK, LimitInv, info
<1>0. \A u : Limited(u)' = Limited(u)
  BY DEF Limited
<1>1. ASSUME present'
      PROVE  \A u \in Users : Limited(u) => IPLimitOf(u)' \in 1..MaxIPLimit
  <2>1. CASE AddInboundLimiter
    BY <2>1 DEF AddInboundLimiter, IPLimitOf, Limited
  <2>2. ASSUME NEW v \in Users, UpdateUser(v)
        PROVE  \A u \in Users : Limited(u) => IPLimitOf(u)' \in 1..MaxIPLimit
    <3>1. /\ ctl.list \in Lists /\ v \in Users /\ present' = present
          /\ sub' = [sub EXCEPT ![v] = ctl.list[v]]
      BY <2>2 DEF UpdateUser, CallInv
    <3> QED
      BY <1>1, <3>1 DEF IPLimitOf, Limited
  <2>3. CASE ~ AddInboundLimiter /\ ~ \E v \in Users : UpdateUser(v)
    <3>1. CASE DeleteInboundLimiter
      BY <1>1, <3>1 DEF DeleteInboundLimiter
    <3>2. CASE ~ DeleteInboundLimiter
      <4>1. present' = present /\ sub' = sub
        BY <2>3, <3>2 DEF vars, Next, Connection, Load, LoadMissing,
           GlobalReject, LoadOrStoreOnline, CheckIP, CountIPs, StoreIP,
           TakeBucket, StaleReturns, End, Reporter, StartPoll, LookAtBucket,
           DropBucket, BucketsDone, LookAtUser, DrainUser, EndPoll, Control,
           StartUpdate, UpdateBucket
      <4> QED
        BY <1>1, <4>1 DEF IPLimitOf
    <3> QED
      BY <3>1, <3>2
  <2> QED
    BY <2>1, <2>2, <2>3
<1>2. ASSUME NEW d \in Conns, conn'[d].pc \in {"load", "check", "count"},
             Limited(conn'[d].user)
      PROVE  conn'[d].ipLimit \in 1..MaxIPLimit
  <2>1. CASE Load(d)
    <3>1. present
      BY <2>1 DEF Load
    <3>2. PICK u \in Users, ip \in IPs :
            conn' = [conn EXCEPT ![d] =
              [NoConn EXCEPT !.pc = "load", !.user = u, !.ip = ip,
                             !.ipLimit = IPLimitOf(u),
                             !.rate = determineRate(nodeRate, SpeedOf(u))]]
      BY <2>1 DEF Load
    <3>3. conn'[d].user = u /\ conn'[d].ipLimit = IPLimitOf(u)
      BY <3>2 DEF NoConn
    <3> QED
      BY <1>2, <3>1, <3>3
  <2>2. CASE ~ Load(d)
    <3>1. /\ conn[d].pc \in {"load", "check", "count"}
          /\ conn'[d].user = conn[d].user /\ conn'[d].ipLimit = conn[d].ipLimit
      <4>1. ASSUME NEW c \in Conns, Connection(c), c # d PROVE conn'[d] = conn[d]
        BY <4>1 DEF Connection, Load, LoadMissing, GlobalReject,
           LoadOrStoreOnline, CheckIP, CountIPs, StoreIP, TakeBucket,
           StaleReturns, End, Move
      <4>2. CASE Connection(d)
        <5>1. LoadOrStoreOnline(d) \/ CheckIP(d)
          BY <1>2, <2>2, <4>2, Outcomes DEF Connection
        <5>2. conn[d].pc \in {"load", "check"}
          BY <5>1 DEF LoadOrStoreOnline, CheckIP, At
        <5>3. conn'[d].user = conn[d].user /\ conn'[d].ipLimit = conn[d].ipLimit
          BY <5>1 DEF LoadOrStoreOnline, CheckIP, Move, Conn
        <5> QED
          BY <5>2, <5>3
      <4>3. ASSUME Replace PROVE FALSE
        BY <1>2, <4>3, DetachFacts, UnshareFacts DEF Replace, InFlight
      <4>4. CASE DropBucket \/ UpdateBucket
        BY <1>2, <4>4, UnshareFacts DEF DropBucket, UpdateBucket
      <4>5. CASE DrainUser
        BY <1>2, <4>5 DEF DrainUser, Conn
      <4>6. CASE UNCHANGED conn
        BY <1>2, <4>6
      <4>7. Reporter => DropBucket \/ DrainUser \/ UNCHANGED conn
        BY DEF Reporter, StartPoll, BucketsDone, EndPoll, LookAtBucket, LookAtUser
      <4>8. Control => Replace \/ UpdateBucket \/ UNCHANGED conn
        BY DEF Control, AddInboundLimiter, DeleteInboundLimiter, StartUpdate,
           UpdateUser
      <4>9. CASE \E c \in Conns : Connection(c)
        <5>1. PICK c \in Conns : Connection(c)
          BY <4>9
        <5>2. CASE c # d
          BY <1>2, <5>1, <5>2, <4>1
        <5>3. CASE c = d
          BY <5>1, <5>3, <4>2
        <5> QED
          BY <5>2, <5>3
      <4>10. UNCHANGED vars => UNCHANGED conn
        BY DEF vars
      <4>11. Next \/ UNCHANGED vars
        OBVIOUS
      <4> QED
        BY <4>3, <4>4, <4>5, <4>6, <4>7, <4>8, <4>9, <4>10, <4>11 DEF Next
    <3> QED
      BY <1>2, <3>1
  <2> QED
    BY <2>1, <2>2
<1> QED
  BY <1>0, <1>1, <1>2

\* Nothing was added: the bound is kept.
LEMMA BoundKept ==
  ASSUME TypeInv, TypeInv', BoundInv,
         \A u \in Users : online'[u] \subseteq online[u],
         \A u \in Users : Storing(u)' \subseteq Storing(u)
  PROVE  BoundInv'
<1> SUFFICES ASSUME NEW u \in Users, Limited(u)
             PROVE  Cardinality(online'[u]) + Cardinality(Storing(u)') <= Bound
  BY DEF BoundInv, Limited, Bound
<1>1. /\ IsFiniteSet(online[u]) /\ Cardinality(online[u]) \in Nat
      /\ IsFiniteSet(Storing(u)) /\ Cardinality(Storing(u)) \in Nat
  BY OnlineFinite DEF TypeInv
<1>2. /\ Cardinality(online'[u]) <= Cardinality(online[u])
      /\ IsFiniteSet(online'[u]) /\ Cardinality(online'[u]) \in Nat
  BY <1>1, FS_Subset, FS_CardinalityType
<1>3. /\ Cardinality(Storing(u)') <= Cardinality(Storing(u))
      /\ IsFiniteSet(Storing(u)') /\ Cardinality(Storing(u)') \in Nat
  BY <1>1, FS_Subset, FS_CardinalityType
<1>4. Cardinality(online[u]) + Cardinality(Storing(u)) <= Bound
  BY DEF BoundInv
<1> QED
  BY <1>1, <1>2, <1>3, <1>4, BoundType

\* One user's list or calls changed, and they were few: the bound is kept.
LEMMA BoundOne ==
  ASSUME TypeInv, TypeInv', BoundInv, NEW v \in Users,
         Limited(v) => Cardinality(online'[v]) <= MaxIPLimit,
         \A u \in Users \ {v} : online'[u] = online[u] /\ Storing(u)' = Storing(u)
  PROVE  BoundInv'
<1> SUFFICES ASSUME NEW u \in Users, Limited(u)
             PROVE  Cardinality(online'[u]) + Cardinality(Storing(u)') <= Bound
  BY DEF BoundInv, Limited, Bound
<1>1. CASE u # v
  BY <1>1 DEF BoundInv
<1>2. CASE u = v
  <2>1. Cardinality(online'[u]) \in Nat
    BY LimiterAssumption, FS_Subset, FS_CardinalityType DEF TypeInv, TypeOK
  <2>2. Storing(u)' \in SUBSET Conns
    BY DEF Storing
  <2>3. Cardinality(Storing(u)') \in Nat /\ Cardinality(Storing(u)') <= Cardinality(Conns)
    BY <2>2, LimiterAssumption, FS_Subset, FS_CardinalityType
  <2> QED
    BY <1>2, <2>1, <2>3, LimiterAssumption, BoundType DEF Bound
<1> QED
  BY <1>1, <1>2

LEMMA BoundStep == TypeInv /\ LimitInv /\ BoundInv /\ [Next]_vars => BoundInv'
<1> SUFFICES ASSUME TypeInv, LimitInv, BoundInv, [Next]_vars PROVE BoundInv'
  OBVIOUS
<1>0. TypeInv'
  BY TypeStep
<1> USE <1>0 DEF TypeInv, TypeOK
<1>1. ASSUME NEW c \in Conns, LoadOrStoreOnline(c) PROVE BoundInv'
  <2> DEFINE v == conn[c].user
  <2>1. v \in Users /\ conn[c].pc = "load"
    BY <1>1 DEF LoadOrStoreOnline, At, CallInv
  <2>2. \A u \in Users : Storing(u)' \subseteq Storing(u)
    BY <1>1 DEF LoadOrStoreOnline, Storing, Conn
  <2>3. CASE online' = online
    BY <2>2, <2>3, BoundKept
  <2>4. CASE online' = [online EXCEPT ![v] = {conn[c].ip}]
    <3>1. Limited(v) => Cardinality(online'[v]) <= MaxIPLimit
      <4>1. Limited(v) => MaxIPLimit >= 1
        BY <2>1, LimiterAssumption DEF LimitInv
      <4>2. Cardinality({conn[c].ip}) = 1
        BY FS_Singleton
      <4> QED
        BY <2>1, <2>4, <4>1, <4>2, LimiterAssumption
    <3>2. \A u \in Users \ {v} : online'[u] = online[u] /\ Storing(u)' = Storing(u)
      BY <1>1, <2>1 DEF LoadOrStoreOnline, Storing, Conn
    <3> QED
      BY <2>1, <3>1, <3>2, BoundOne
  <2> QED
    BY <1>1, <2>3, <2>4 DEF LoadOrStoreOnline
<1>2. ASSUME NEW c \in Conns, CountIPs(c) PROVE BoundInv'
  <2> DEFINE v == conn[c].user
  <2>1. v \in Users /\ conn[c].pc = "count" /\ online' = online
    BY <1>2 DEF CountIPs, At, CallInv
  <2>2. CASE Move(c, "rejected") \/ ~ conn[c].live
    <3>1. \A u \in Users : Storing(u)' \subseteq Storing(u)
      BY <1>2, <2>2 DEF CountIPs, Move, Storing, Conn
    <3> QED
      BY <2>1, <3>1, BoundKept
  <2>3. CASE conn[c].live /\ ~ Full(online[v], conn[c].ipLimit)
    <3>1. Limited(v) => Cardinality(online'[v]) <= MaxIPLimit
      <4>1. Limited(v) => conn[c].ipLimit \in 1..MaxIPLimit
        BY <2>1 DEF LimitInv
      <4>2. Cardinality(online[v]) \in Nat
        BY <2>1, OnlineFinite
      <4> QED
        BY <2>1, <2>3, <4>1, <4>2, LimiterAssumption DEF Full
    <3>2. \A u \in Users \ {v} : online'[u] = online[u] /\ Storing(u)' = Storing(u)
      BY <1>2, <2>1 DEF CountIPs, Move, Storing, Conn
    <3> QED
      BY <2>1, <3>1, <3>2, BoundOne
  <2> QED
    BY <1>2, <2>2, <2>3 DEF CountIPs
<1>3. ASSUME NEW c \in Conns, StoreIP(c) PROVE BoundInv'
  <2> DEFINE v == conn[c].user
  <2>1. v \in Users /\ conn[c].pc = "store"
    BY <1>3 DEF StoreIP, At, CallInv
  <2>2. conn' = [conn EXCEPT ![c].pc = "bucket"]
    BY <1>3 DEF StoreIP, Move
  <2>3. CASE ~ conn[c].live
    <3>1. \A u \in Users : Storing(u)' \subseteq Storing(u)
      BY <2>2 DEF Storing, Conn
    <3> QED
      BY <1>3, <2>3, <3>1, BoundKept DEF StoreIP
  <2>4. CASE conn[c].live
    <3>1. online' = [online EXCEPT ![v] = @ \cup {conn[c].ip}]
      BY <1>3, <2>4 DEF StoreIP
    <3>2. \A u \in Users \ {v} : online'[u] = online[u] /\ Storing(u)' = Storing(u)
      BY <2>1, <2>2, <3>1 DEF Storing, Conn
    <3>3. ASSUME NEW u \in Users, u = v, Limited(u)
          PROVE  Cardinality(online'[u]) + Cardinality(Storing(u)') <= Bound
      <4>1. online'[u] = online[u] \cup {conn[c].ip}
        BY <3>1, <3>3
      <4>2. Storing(u)' = Storing(u) \ {c} /\ c \in Storing(u)
        BY <2>1, <2>2, <2>4, <3>3 DEF Storing, Conn
      <4>3. /\ IsFiniteSet(online[u]) /\ Cardinality(online[u]) \in Nat
            /\ IsFiniteSet(Storing(u)) /\ Cardinality(Storing(u)) \in Nat
        BY OnlineFinite
      <4>4. Cardinality(online'[u]) = IF conn[c].ip \in online[u]
              THEN Cardinality(online[u]) ELSE Cardinality(online[u]) + 1
        BY <4>1, <4>3, FS_AddElement
      <4>5. Cardinality(Storing(u) \ {c}) = Cardinality(Storing(u)) - 1
        BY <4>2, <4>3, FS_RemoveElement
      <4>6. Cardinality(Storing(u)') = Cardinality(Storing(u)) - 1
        BY <4>2, <4>5
      <4>7. Cardinality(online[u]) + Cardinality(Storing(u)) <= Bound
        BY <3>3 DEF BoundInv
      <4> QED
        BY <4>3, <4>4, <4>6, <4>7, BoundType
    <3>4. \A u \in Users \ {v} : Limited(u) =>
            Cardinality(online'[u]) + Cardinality(Storing(u)') <= Bound
      BY <3>2 DEF BoundInv
    <3> QED
      BY <3>3, <3>4 DEF BoundInv, Limited, Bound
  <2> QED
    BY <2>3, <2>4
<1>4. CASE /\ \A c \in Conns : ~ LoadOrStoreOnline(c) /\ ~ CountIPs(c) /\ ~ StoreIP(c)
  <2>1. \A u \in Users : online'[u] \subseteq online[u]
    <3>1. online' = online \/ Replace \/ DrainUser
      BY <1>4 DEF vars, Next, Connection, Load, LoadMissing, GlobalReject,
         CheckIP, TakeBucket, StaleReturns, End, Reporter, StartPoll,
         LookAtBucket, DropBucket, BucketsDone, LookAtUser, EndPoll, Control,
         AddInboundLimiter, DeleteInboundLimiter, StartUpdate, UpdateUser, UpdateBucket
    <3> QED
      BY <3>1 DEF Replace, NoIPs, DrainUser
  <2>2. ASSUME NEW d \in Conns, conn'[d].pc = "store", conn'[d].live
        PROVE  conn[d].pc = "store" /\ conn[d].user = conn'[d].user /\ conn[d].live
    <3>1. CASE ~ Connection(d)
      BY <2>2, <3>1, Bystander
    <3>2. CASE Connection(d)
      BY <1>4, <2>2, <3>2, Outcomes DEF Connection
    <3> QED
      BY <3>1, <3>2
  <2>3. \A u \in Users : Storing(u)' \subseteq Storing(u)
    BY <2>2 DEF Storing
  <2> QED
    BY <2>1, <2>3, BoundKept
<1> QED
  BY <1>1, <1>2, <1>3, <1>4

-----------------------------------------------------------------------------
(* The buckets of open links.                                                *)

LinksInv ==
  /\ \A u \in Users : hub[u] # None => hub[u] > 0
  /\ \A c \in Conns :
       /\ conn[c].bucket = "hub" => conn[c].pc = "open" /\ hub[conn[c].user] # None
       /\ conn[c].pc = "open" /\ conn[c].rate > 0 => conn[c].bucket # "none"

\* Whoever takes a bucket out of the hub unshares its links.
LEMMA UnsharedLinks ==
  ASSUME TypeInv, LinksInv, NEW us \in SUBSET Users,
         conn' = Unshare(conn, us), \A u \in Users \ us : hub'[u] = hub[u],
         \A u \in us : hub'[u] = None
  PROVE  LinksInv'
<1>1. conn \in [Conns -> Conn]
  BY DEF TypeInv, TypeOK
<1>2. \A u \in Users : hub'[u] # None => hub'[u] > 0
  BY DEF LinksInv
<1>3. ASSUME NEW c \in Conns
      PROVE  /\ conn'[c].bucket = "hub" => conn'[c].pc = "open" /\ hub'[conn'[c].user] # None
             /\ conn'[c].pc = "open" /\ conn'[c].rate > 0 => conn'[c].bucket # "none"
  <2>1. /\ conn'[c].pc = conn[c].pc /\ conn'[c].user = conn[c].user
        /\ conn'[c].rate = conn[c].rate
        /\ conn'[c].bucket = "hub" => conn[c].bucket = "hub" /\ conn[c].user \notin us
        /\ conn'[c].bucket = "none" => conn[c].bucket = "none"
    BY <1>1, UnshareFacts
  <2>2. conn[c].pc # "idle" => conn[c].user \in Users
    BY DEF TypeInv, CallInv
  <2> QED
    BY <2>1, <2>2 DEF LinksInv
<1> QED
  BY <1>2, <1>3 DEF LinksInv

\* One call moved on and no bucket left the hub.
LEMMA MovedLink ==
  ASSUME TypeInv, LinksInv, NEW c \in Conns, \A d \in Conns \ {c} : conn'[d] = conn[d],
         \A u \in Users : hub[u] # None => hub'[u] # None,
         \A u \in Users : hub'[u] # None => hub'[u] > 0,
         conn'[c].bucket = "hub" => conn'[c].pc = "open" /\ hub'[conn'[c].user] # None,
         conn'[c].pc = "open" /\ conn'[c].rate > 0 => conn'[c].bucket # "none"
  PROVE  LinksInv'
<1>1. \A d \in Conns : conn[d].pc # "idle" => conn[d].user \in Users
  BY DEF TypeInv, CallInv
<1> QED
  BY <1>1 DEF LinksInv

LEMMA LinksStep == TypeInv /\ LinksInv /\ [Next]_vars => LinksInv'
<1> SUFFICES ASSUME TypeInv, LinksInv, [Next]_vars PROVE LinksInv'
  OBVIOUS
<1> USE DEF TypeInv, TypeOK
<1>1. ASSUME NEW c \in Conns, Connection(c) PROVE LinksInv'
  <2>1. \A d \in Conns \ {c} : conn'[d] = conn[d]
    BY <1>1 DEF Connection, Load, LoadMissing, GlobalReject, LoadOrStoreOnline,
       CheckIP, CountIPs, StoreIP, TakeBucket, StaleReturns, End, Move
  <2>2. CASE TakeBucket(c)
    <3>1. conn[c].user \in Users /\ conn[c].pc = "bucket" /\ conn[c].rate \in Nat
      BY <2>2 DEF TakeBucket, At, CallInv, Conn
    <3>2. CASE conn[c].rate > 0
      <4>1. /\ hub' = IF hub[conn[c].user] = None
                       THEN [hub EXCEPT ![conn[c].user] = conn[c].rate] ELSE hub
            /\ conn' = [conn EXCEPT ![c].pc = "open", ![c].bucket = "hub"]
        BY <2>2, <3>2 DEF TakeBucket
      <4>2. conn'[c].pc = "open" /\ conn'[c].bucket = "hub" /\ conn'[c].user = conn[c].user
        BY <4>1 DEF Conn
      <4>3. hub'[conn[c].user] # None
        BY <3>1, <4>1, LimiterAssumption
      <4>4. \A u \in Users : (hub[u] # None => hub'[u] # None)
                             /\ (hub'[u] # None => hub'[u] > 0)
        BY <3>1, <3>2, <4>1, <4>3 DEF LinksInv
      <4> QED
        BY <2>1, <4>2, <4>3, <4>4, MovedLink
    <3>3. CASE ~ conn[c].rate > 0
      <4>1. hub' = hub /\ Move(c, "open")
        BY <2>2, <3>3 DEF TakeBucket
      <4>2. /\ conn'[c].pc = "open" /\ conn'[c].bucket = conn[c].bucket
            /\ conn'[c].rate = conn[c].rate
        BY <4>1 DEF Move, Conn
      <4>3. conn[c].bucket # "hub"
        BY <3>1 DEF LinksInv
      <4> QED
        BY <2>1, <3>3, <4>1, <4>2, <4>3, MovedLink DEF LinksInv
    <3> QED
      BY <3>2, <3>3
  <2>3. CASE StaleReturns(c)
    <3>1. conn[c].bucket # "hub" /\ hub' = hub
      BY <2>3 DEF StaleReturns, At, LinksInv
    <3>2. CASE conn' = [conn EXCEPT ![c].pc = "open",
                          ![c].bucket = IF conn[c].rate > 0 THEN "old" ELSE "none"]
      <4>1. /\ conn'[c].bucket = IF conn[c].rate > 0 THEN "old" ELSE "none"
            /\ conn'[c].rate = conn[c].rate
        BY <3>2 DEF Conn
      <4> QED
        BY <2>1, <3>1, <4>1, MovedLink DEF LinksInv
    <3>3. CASE Move(c, "rejected")
      <4>1. conn'[c].bucket = conn[c].bucket /\ conn'[c].pc = "rejected"
        BY <3>3 DEF Move, Conn
      <4> QED
        BY <2>1, <3>1, <4>1, MovedLink DEF LinksInv
    <3> QED
      BY <2>3, <3>2, <3>3 DEF StaleReturns
  <2>4. CASE Load(c) \/ LoadMissing(c) \/ End(c)
    <3>1. hub' = hub /\ conn'[c].bucket = "none"
      <4>1. Load(c) => conn'[c].bucket = "none"
        BY DEF Load, NoConn
      <4>2. LoadMissing(c) => conn'[c].bucket = "none"
        BY DEF LoadMissing, NoConn
      <4>3. End(c) => conn'[c].bucket = "none"
        BY DEF End, NoConn
      <4> QED
        BY <2>4, <4>1, <4>2, <4>3 DEF Load, LoadMissing, End
    <3>2. conn'[c].pc = "open" => conn'[c].rate = 0
      <4>1. LoadMissing(c) => conn'[c].rate = 0
        BY DEF LoadMissing, NoConn
      <4> QED
        BY <2>4, <4>1, Outcomes
    <3> QED
      BY <2>1, <3>1, <3>2, MovedLink DEF LinksInv
  <2>5. CASE \/ GlobalReject(c) \/ LoadOrStoreOnline(c) \/ CheckIP(c)
             \/ CountIPs(c) \/ StoreIP(c)
    <3>1. hub' = hub /\ conn'[c].bucket = conn[c].bucket /\ conn[c].pc # "open"
      BY <2>5 DEF GlobalReject, LoadOrStoreOnline, CheckIP, CountIPs, StoreIP, At, Move, Conn
    <3>2. conn'[c].pc # "open"
      BY <2>5, Outcomes
    <3> QED
      BY <2>1, <3>1, <3>2, MovedLink DEF LinksInv
  <2> QED
    BY <1>1, <2>2, <2>3, <2>4, <2>5 DEF Connection
<1>2. CASE Reporter
  <2>1. CASE DropBucket
    <3>1. poll.user \in Users
      BY <2>1 DEF DropBucket, CallInv
    <3> QED
      BY <2>1, <3>1, UnsharedLinks DEF DropBucket
  <2>2. CASE DrainUser
    <3>1. hub' = hub /\ \A c \in Conns : /\ conn'[c].pc = conn[c].pc
                                        /\ conn'[c].user = conn[c].user
                                        /\ conn'[c].rate = conn[c].rate
                                        /\ conn'[c].bucket = conn[c].bucket
      BY <2>2 DEF DrainUser, Conn
    <3> QED
      BY <3>1 DEF LinksInv
  <2>3. CASE ~ DropBucket /\ ~ DrainUser
    <3>1. hub' = hub /\ conn' = conn
      BY <1>2, <2>3 DEF Reporter, StartPoll, BucketsDone, EndPoll, LookAtBucket, LookAtUser
    <3> QED
      BY <3>1 DEF LinksInv
  <2> QED
    BY <2>1, <2>2, <2>3
<1>3. CASE Control
  <2>1. CASE Replace
    <3>1. Detach(conn) \in [Conns -> Conn]
      BY DetachFacts
    <3>2. \A u \in Users : hub'[u] = None
      BY <2>1 DEF Replace
    <3>3. ASSUME NEW c \in Conns
          PROVE  /\ conn'[c].bucket # "hub"
                 /\ conn'[c].pc = "open" => conn[c].pc = "open" /\ conn'[c].rate = conn[c].rate
                 /\ conn'[c].bucket = "none" => conn[c].bucket = "none"
      <4>1. /\ conn'[c].pc = Detach(conn)[c].pc
            /\ conn'[c].rate = Detach(conn)[c].rate
            /\ conn'[c].bucket = "hub" => Detach(conn)[c].bucket = "hub"
                                          /\ Detach(conn)[c].user \notin Users
            /\ conn'[c].bucket = "none" => Detach(conn)[c].bucket = "none"
        BY <2>1, <3>1, UnshareFacts DEF Replace
      <4>2. conn[c].bucket = "hub" => conn[c].user \in Users
        BY DEF LinksInv, CallInv
      <4> QED
        BY <4>1, <4>2, DetachFacts
    <3> QED
      BY <3>2, <3>3 DEF LinksInv
  <2>2. CASE UpdateBucket
    <3> DEFINE rate == determineRate(nodeRate, ctl.list[ctl.user].speed)
    <3>1. ctl.user \in Users
      BY <2>2 DEF UpdateBucket, CallInv
    <3>2. rate \in Nat
      <4>1. ctl.list[ctl.user] \in Limit
        BY <2>2, LimiterAssumption DEF UpdateBucket, CallInv
      <4> QED
        BY <4>1, RateType DEF Limit
    <3>3. \/ /\ rate > 0 /\ conn' = conn
             /\ hub' = IF hub[ctl.user] = None THEN hub ELSE [hub EXCEPT ![ctl.user] = rate]
          \/ /\ hub' = [hub EXCEPT ![ctl.user] = None]
             /\ conn' = Unshare(conn, {ctl.user})
      BY <2>2 DEF UpdateBucket
    <3> HIDE DEF rate
    <3>4. CASE rate > 0 /\ conn' = conn
               /\ hub' = IF hub[ctl.user] = None THEN hub ELSE [hub EXCEPT ![ctl.user] = rate]
      <4>1. \A u \in Users : (hub[u] # None <=> hub'[u] # None)
                             /\ (hub'[u] # None => hub'[u] > 0)
        BY <3>1, <3>2, <3>4, LimiterAssumption DEF LinksInv
      <4>2. \A c \in Conns : conn[c].bucket = "hub" => conn[c].user \in Users
        BY DEF LinksInv, CallInv
      <4> QED
        BY <3>4, <4>1, <4>2 DEF LinksInv
    <3>5. CASE hub' = [hub EXCEPT ![ctl.user] = None] /\ conn' = Unshare(conn, {ctl.user})
      BY <3>1, <3>5, UnsharedLinks
    <3> QED
      BY <3>3, <3>4, <3>5
  <2>3. CASE UNCHANGED <<hub, conn>>
    BY <2>3 DEF LinksInv
  <2> QED
    BY <1>3, <2>1, <2>2, <2>3 DEF Control, AddInboundLimiter,
       DeleteInboundLimiter, StartUpdate, UpdateUser
<1>4. CASE UNCHANGED vars
  BY <1>4 DEF vars, LinksInv
<1> QED
  BY <1>1, <1>2, <1>3, <1>4 DEF Next

-----------------------------------------------------------------------------
(* The report.  What was online when it began is still there until the       *)
(* reporter itself takes it away.                                            *)

ReportInv ==
  /\ poll.pc \in {"hub", "drop"} => \A u \in Users : poll.start[u] \subseteq online[u]
  /\ poll.pc \in {"online", "drain"} =>
       \A u \in Users : IF u \in poll.todo THEN poll.start[u] \subseteq online[u]
                        ELSE poll.start[u] \subseteq poll.report[u]
  /\ poll.pc = "drain" => poll.user \in poll.todo /\ poll.start[poll.user] \subseteq poll.seen

LEMMA ReportStep == TypeInv /\ ReportInv /\ [Next]_vars => ReportInv'
<1> SUFFICES ASSUME TypeInv, ReportInv, [Next]_vars PROVE ReportInv'
  OBVIOUS
<1> USE DEF TypeInv, TypeOK
<1>1. CASE poll' = poll /\ \A u \in Users : online[u] \subseteq online'[u]
  BY <1>1 DEF ReportInv, Poll
<1>2. ASSUME NEW c \in Conns, Connection(c) PROVE ReportInv'
  <2>1. poll' = poll
    BY <1>2 DEF Connection, Load, LoadMissing, GlobalReject, LoadOrStoreOnline,
       CheckIP, CountIPs, StoreIP, TakeBucket, StaleReturns, End
  <2>2. online' = online \/ LoadOrStoreOnline(c) \/ StoreIP(c)
    BY <1>2 DEF Connection, Load, LoadMissing, GlobalReject, CheckIP, CountIPs,
       TakeBucket, StaleReturns, End
  <2>3. \A u \in Users : online[u] \subseteq online'[u]
    BY <2>2 DEF LoadOrStoreOnline, StoreIP
  <2> QED
    BY <1>1, <2>1, <2>3
<1>3. CASE StartPoll
  BY <1>3 DEF StartPoll, NoPoll, ReportInv
<1>4. ASSUME NEW u \in Users, LookAtBucket(u) PROVE ReportInv'
  <2>1. /\ poll'.pc \in {"hub", "drop"} /\ poll'.start = poll.start
        /\ poll.pc = "hub" /\ online' = online
    BY <1>4 DEF LookAtBucket, Poll
  <2> QED
    BY <2>1 DEF ReportInv
<1>5. CASE DropBucket
  <2>1. /\ poll'.pc = "hub" /\ poll'.start = poll.start
        /\ poll.pc = "drop" /\ online' = online
    BY <1>5 DEF DropBucket, Poll
  <2> QED
    BY <2>1 DEF ReportInv
<1>6. CASE BucketsDone
  <2>1. /\ poll'.pc = "online" /\ poll'.start = poll.start /\ poll'.todo = Users
        /\ poll.pc = "hub" /\ online' = online
    BY <1>6 DEF BucketsDone, Poll
  <2> QED
    BY <2>1 DEF ReportInv
<1>7. ASSUME NEW u \in Users, LookAtUser(u) PROVE ReportInv'
  <2>1. poll.pc = "online" /\ u \in poll.todo /\ online' = online
    BY <1>7 DEF LookAtUser
  <2>2. CASE online[u] = {}
    <3>1. /\ poll'.pc = "online" /\ poll'.start = poll.start
          /\ poll'.todo = poll.todo \ {u} /\ poll'.report = poll.report
      BY <1>7, <2>2 DEF LookAtUser, Poll
    <3> QED
      BY <2>1, <2>2, <3>1 DEF ReportInv
  <2>3. CASE online[u] # {}
    <3>1. /\ poll'.pc = "drain" /\ poll'.start = poll.start /\ poll'.user = u
          /\ poll'.todo = poll.todo /\ poll'.report = poll.report
          /\ poll'.seen = online[u]
      BY <1>7, <2>3 DEF LookAtUser, Poll
    <3> QED
      BY <2>1, <3>1 DEF ReportInv
  <2> QED
    BY <2>2, <2>3
<1>8. CASE DrainUser
  <2> DEFINE u == poll.user
  <2>1. poll.pc = "drain" /\ u \in Users
    BY <1>8 DEF DrainUser, CallInv
  <2>2. PICK late \in SUBSET (online[u] \ poll.seen) :
          poll' = [poll EXCEPT !.pc = "online", !.todo = @ \ {u}, !.user = None,
                               !.seen = {}, !.report[u] = poll.seen \cup late]
    BY <1>8 DEF DrainUser
  <2>3. /\ poll'.pc = "online" /\ poll'.todo = poll.todo \ {u}
        /\ poll'.start = poll.start
        /\ poll'.report = [poll.report EXCEPT ![u] = poll.seen \cup late]
    BY <2>2 DEF Poll
  <2>4. \A v \in Users \ {u} : online'[v] = online[v]
    BY <1>8 DEF DrainUser
  <2>5. poll.report \in [Users -> SUBSET IPs]
    BY DEF Poll
  <2> QED
    BY <2>1, <2>3, <2>4, <2>5 DEF ReportInv
<1>9. CASE EndPoll
  BY <1>9 DEF EndPoll, NoPoll, ReportInv
<1>10. CASE Control
  <2>1. Replace => ReportInv'
    BY DEF Replace, NoPoll, ReportInv
  <2>2. Replace \/ (poll' = poll /\ online' = online)
    BY <1>10 DEF Control, AddInboundLimiter, DeleteInboundLimiter, StartUpdate,
       UpdateUser, UpdateBucket
  <2> QED
    BY <1>1, <2>1, <2>2
<1>11. CASE UNCHANGED vars
  BY <1>1, <1>11 DEF vars
<1> QED
  BY <1>2, <1>3, <1>4, <1>5, <1>6, <1>7, <1>8, <1>9, <1>10, <1>11
     DEF Next, Reporter

-----------------------------------------------------------------------------
(* The theorems. *)

LimiterInv == TypeInv /\ OnlineInv /\ LimitInv /\ BoundInv /\ LinksInv /\ ReportInv

LEMMA LimiterInit == Init => LimiterInv
<1> SUFFICES ASSUME Init PROVE LimiterInv
  OBVIOUS
<1>1. TypeInv
  BY TypeInit
<1>2. OnlineInv /\ LimitInv /\ LinksInv /\ ReportInv
  BY DEF Init, OnlineInv, LimitInv, LinksInv, ReportInv, NoConn, NoPoll, NoIPs
<1>3. BoundInv
  <2>1. ASSUME NEW u \in Users
        PROVE  Cardinality(online[u]) + Cardinality(Storing(u)) <= Bound
    <3>1. online[u] = {} /\ Storing(u) = {}
      BY DEF Init, NoIPs, NoConn, Storing
    <3>2. Cardinality(online[u]) = 0 /\ Cardinality(Storing(u)) = 0
      BY <3>1, FS_EmptySet
    <3> QED
      BY <3>2, BoundType
  <2> QED
    BY <2>1 DEF BoundInv
<1> QED
  BY <1>1, <1>2, <1>3 DEF LimiterInv

LEMMA Inductive == Spec => []LimiterInv
<1>1. LimiterInv /\ [Next]_vars => LimiterInv'
  BY TypeStep, OnlineStep, LimitStep, BoundStep, LinksStep, ReportStep DEF LimiterInv
<1> QED
  BY <1>1, LimiterInit, PTL DEF Spec

\* Every variable has its type in every reachable state.
THEOREM TypeCorrect == Spec => []TypeOK
<1>1. LimiterInv => TypeOK
  BY DEF LimiterInv, TypeInv
<1> QED
  BY <1>1, Inductive, PTL

\* However many connections race, and whatever reports and updates do, the
\* online list of a limited user is never longer than its limit plus the number
\* of connections handled at the same time.
THEOREM OnlineListBounded == Spec => []OnlineBound
<1>1. LimiterInv => OnlineBound
  <2> SUFFICES ASSUME LimiterInv, NEW u \in Users, Limited(u)
               PROVE  Cardinality(online[u]) <= MaxIPLimit + Cardinality(Conns)
    BY DEF OnlineBound
  <2>1. Cardinality(online[u]) \in Nat /\ Cardinality(Storing(u)) \in Nat
    BY OnlineFinite DEF LimiterInv, TypeInv
  <2>2. Cardinality(online[u]) + Cardinality(Storing(u)) <= Bound
    BY DEF LimiterInv, BoundInv
  <2> QED
    BY <2>1, <2>2, BoundType DEF Bound
<1> QED
  BY <1>1, Inductive, PTL

\* An admitted IP is on the online list until the list is reported or replaced.
THEOREM AdmittedIPsListed == Spec => []AdmittedAreOnline
<1>1. LimiterInv => AdmittedAreOnline
  BY DEF LimiterInv, OnlineInv, AdmittedAreOnline
<1> QED
  BY <1>1, Inductive, PTL

\* Refused by the local limit, on the online list as it is.
Refused(c) == conn[c].live /\ conn[c].pc = "rejected"

\* Nobody is refused locally who has no limit or fewer addresses than it, be it
\* read as the comment or as the comparison of limiter.go:208-209 has it.
THEOREM RefusalsJustified ==
  Spec => [](\A c \in Conns : Refused(c) =>
               conn[c].ipLimit > 0 /\ Cardinality(online[conn[c].user]) >= conn[c].ipLimit)
<1>1. LimiterInv => \A c \in Conns : Refused(c) =>
        conn[c].ipLimit > 0 /\ Cardinality(online[conn[c].user]) >= conn[c].ipLimit
  <2> SUFFICES ASSUME LimiterInv, NEW c \in Conns, Refused(c)
               PROVE  conn[c].ipLimit > 0 /\ Cardinality(online[conn[c].user]) >= conn[c].ipLimit
    OBVIOUS
  <2>1. Full(online[conn[c].user], conn[c].ipLimit)
    BY DEF LimiterInv, OnlineInv, Refused
  <2>2. TypeOK
    BY DEF LimiterInv, TypeInv
  <2>3. conn[c].user \in Users
    BY DEF LimiterInv, TypeInv, CallInv, Refused
  <2>4. Cardinality(online[conn[c].user]) \in Nat
    BY <2>2, <2>3, OnlineFinite
  <2> QED BY <2>1, <2>2, <2>4 DEF Full, TypeOK, Conn
<1> QED
  BY <1>1, Inductive, PTL

\* A limited link always has a bucket, and never one that lets nothing through.
THEOREM LimitedLinksKeepFlowing == Spec => []LimitedLinksFlow
<1>1. LimiterInv => LimitedLinksFlow
  BY DEF LimiterInv, LinksInv, LimitedLinksFlow
<1> QED
  BY <1>1, Inductive, PTL

\* No IP that was online when a report began is missing from it.
THEOREM ReportsComplete == Spec => []ReportIsComplete
<1>1. LimiterInv => ReportIsComplete
  BY DEF LimiterInv, ReportInv, ReportIsComplete
<1> QED
  BY <1>1, Inductive, PTL
=============================================================================
