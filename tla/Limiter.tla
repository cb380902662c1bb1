------------------------------- MODULE Limiter -------------------------------
(***************************************************************************)
(* The connection limiter of one inbound tag (helper/limiter/limiter.go).  *)
(* Three kinds of goroutines use the InboundInfo of the tag with no lock,  *)
(* through sync.Map operations that are atomic one by one:                 *)
(*   - the dispatcher's connections, in GetSubscriptionLimiter;            *)
(*   - the reporter (SubscriptionMonitor), in GetOnlineDevice;             *)
(*   - the controller, in Add-, Update- and DeleteInboundLimiter.          *)
(*                                                                         *)
(* Abstractions.  Rates are small naturals; a bucket is its rate.  An      *)
(* InboundInfo that was replaced, and an IP map that was taken off the     *)
(* online list, are reachable only from the calls that had loaded them:    *)
(* what those calls do to them is not kept, and what they find in them is  *)
(* any of the outcomes (stale, live = FALSE).                              *)
(***************************************************************************)
EXTENDS Integers, FiniteSets

CONSTANTS
  Users,     \* user keys "tag|email|id"
  IPs,
  Conns,     \* connections the dispatcher handles at the same time
  Lists,     \* subscription lists: user |-> limits, or None if not listed
  NodeRates, \* NodeSpeedLimit values
  MaxIPLimit,\* the highest IP limit of the users the properties speak of
  GlobalOn,  \* whether a global (Redis) limit is configured
  None       \* absent

Limit == [ip : Nat, speed : Nat]

ASSUME LimiterAssumption ==
  /\ Lists \subseteq [Users -> Limit \cup {None}] /\ Lists # {}
  /\ NodeRates \subseteq Nat /\ NodeRates # {}
  /\ IsFiniteSet(Conns) /\ IsFiniteSet(IPs)
  /\ MaxIPLimit \in Nat /\ GlobalOn \in BOOLEAN
  /\ None \notin Limit \cup Nat \cup Users \cup IPs

VARIABLES
  present,   \* whether Limiter.InboundInfo has the tag
  nodeRate,  \* InboundInfo.NodeSpeedLimit
  sub,       \* InboundInfo.SubscriptionInfo
  online,    \* InboundInfo.SubscriptionOnlineIP; an absent map is {}
  hub,       \* InboundInfo.BucketHub: rate of the user's bucket
  conn,      \* the calls of GetSubscriptionLimiter and the links they open
  poll,      \* the call of GetOnlineDevice
  ctl        \* the call of UpdateInboundLimiter

info == <<present, nodeRate, sub>>
vars == <<info, online, hub, conn, poll, ctl>>

ConnPCs == {"idle", "load", "check", "count", "store", "bucket", "stale",
            "open", "rejected"}
\* bucket: what limits an open link: the user's bucket in the hub, one that has
\* left it, or nothing.  live: ip is on the online list of today's InboundInfo.
Conn == [pc : ConnPCs, user : Users \cup {None}, ip : IPs \cup {None},
         ipLimit : Nat, rate : Nat, live : BOOLEAN, bucket : {"none", "hub", "old"}]
NoConn == [pc |-> "idle", user |-> None, ip |-> None, ipLimit |-> 0, rate |-> 0,
           live |-> FALSE, bucket |-> "none"]

Poll == [pc : {"idle", "hub", "drop", "online", "drain"}, todo : SUBSET Users,
         user : Users \cup {None}, seen : SUBSET IPs,
         start : [Users -> SUBSET IPs], report : [Users -> SUBSET IPs]]
NoIPs == [u \in Users |-> {}]
NoPoll == [pc |-> "idle", todo |-> {}, user |-> None, seen |-> {},
           start |-> NoIPs, report |-> NoIPs]

Ctl == [pc : {"idle", "store", "bucket"}, todo : SUBSET Users,
        list : [Users -> Limit \cup {None}] \cup {None}, user : Users \cup {None}]
NoCtl == [pc |-> "idle", todo |-> {}, list |-> None, user |-> None]

Init ==
  /\ present = FALSE /\ nodeRate = 0 /\ sub = [u \in Users |-> None]
  /\ online = NoIPs /\ hub = [u \in Users |-> None]
  /\ conn = [c \in Conns |-> NoConn]
  /\ poll = NoPoll /\ ctl = NoCtl
-----------------------------------------------------------------------------
\* determineRate(nodeLimit, SubscriptionLimit)
determineRate(node, speed) ==
  IF node = 0 /\ speed = 0 THEN 0
  ELSE IF node > speed THEN speed ELSE node

IPLimitOf(u) == IF sub[u] = None THEN 0 ELSE sub[u].ip
SpeedOf(u)   == IF sub[u] = None THEN 0 ELSE sub[u].speed

\* The links of the users in us no longer hold the bucket of the hub.
Unshare(f, us) ==
  [c \in Conns |-> IF f[c].user \in us /\ f[c].bucket = "hub"
                   THEN [f[c] EXCEPT !.bucket = "old"] ELSE f[c]]
-----------------------------------------------------------------------------
(* GetSubscriptionLimiter, one connection. *)

At(c, l) == conn[c].pc = l
Move(c, l) == conn' = [conn EXCEPT ![c].pc = l]

\* InboundInfo.Load, then SubscriptionInfo.Load: an unknown user has no limits.
Load(c) ==
  /\ At(c, "idle") /\ present
  /\ \E u \in Users, ip \in IPs :
       conn' = [conn EXCEPT ![c] =
         [NoConn EXCEPT !.pc = "load", !.user = u, !.ip = ip,
                        !.ipLimit = IPLimitOf(u),
                        !.rate = determineRate(nodeRate, SpeedOf(u))]]
  /\ UNCHANGED <<info, online, hub, poll, ctl>>

\* No limiter for the tag: the link is served without any limit.
LoadMissing(c) ==
  /\ At(c, "idle") /\ ~ present
  /\ \E u \in Users, ip \in IPs :
       conn' = [conn EXCEPT ![c] = [NoConn EXCEPT !.pc = "open", !.user = u, !.ip = ip]]
  /\ UNCHANGED <<info, online, hub, poll, ctl>>

\* The global limit, where there is one, may reject the connection first.
GlobalReject(c) ==
  /\ At(c, "load") /\ GlobalOn /\ conn[c].ipLimit > 0
  /\ Move(c, "rejected")
  /\ UNCHANGED <<info, online, hub, poll, ctl>>

\* Mutant: a Store, which replaces the user's map.
LoadOrStoreOnline_Overwrites(c) ==
  /\ At(c, "load")
  /\ online' = [online EXCEPT ![conn[c].user] = {conn[c].ip}]
  /\ conn' = [conn EXCEPT ![c].pc = "bucket", ![c].live = TRUE]
  /\ UNCHANGED <<info, hub, poll, ctl>>

\* SubscriptionOnlineIP.LoadOrStore(email, {ip}).
LoadOrStoreOnline(c) ==
  /\ At(c, "load")
  /\ LET u == conn[c].user IN
     \/ /\ online[u] = {}
        /\ online' = [online EXCEPT ![u] = {conn[c].ip}]
        /\ conn' = [conn EXCEPT ![c].pc = "bucket", ![c].live = TRUE]
     \/ /\ online[u] # {}
        /\ conn' = [conn EXCEPT ![c].pc = "check", ![c].live = TRUE]
        /\ UNCHANGED online
  /\ UNCHANGED <<info, hub, poll, ctl>>

CheckIP(c) ==
  /\ At(c, "check")
  /\ LET found == conn[c].ip \in online[conn[c].user] IN
     \/ (conn[c].live => found)   /\ Move(c, "bucket")
     \/ (conn[c].live => ~ found) /\ Move(c, "count")
  /\ UNCHANGED <<info, online, hub, poll, ctl>>

\* Mutant: one address more is let in.
Full_OneMore(ips, limit) == limit > 0 /\ Cardinality(ips) > limit + 1

\* counter > ipLimit
Full(ips, limit) == limit > 0 /\ Cardinality(ips) > limit

CountIPs(c) ==
  /\ At(c, "count")
  /\ LET full == Full(online[conn[c].user], conn[c].ipLimit) IN
     \/ /\ IF conn[c].live THEN full ELSE conn[c].ipLimit > 0
        /\ Move(c, "rejected")
     \/ /\ conn[c].live => ~ full
        /\ Move(c, "store")
  /\ UNCHANGED <<info, online, hub, poll, ctl>>

StoreIP(c) ==
  /\ At(c, "store")
  /\ online' = IF conn[c].live
               THEN [online EXCEPT ![conn[c].user] = @ \cup {conn[c].ip}]
               ELSE online
  /\ Move(c, "bucket")
  /\ UNCHANGED <<info, hub, poll, ctl>>

\* BucketHub.LoadOrStore(email, limiter), unless the rate is 0.
TakeBucket(c) ==
  /\ At(c, "bucket")
  /\ LET u == conn[c].user IN
     \/ /\ conn[c].rate > 0
        /\ hub' = IF hub[u] = None THEN [hub EXCEPT ![u] = conn[c].rate] ELSE hub
        /\ conn' = [conn EXCEPT ![c].pc = "open", ![c].bucket = "hub"]
     \/ /\ conn[c].rate = 0
        /\ Move(c, "open")
        /\ UNCHANGED hub
  /\ UNCHANGED <<info, online, poll, ctl>>

\* A call that works on an InboundInfo that has been replaced.
StaleReturns(c) ==
  /\ At(c, "stale")
  /\ \/ conn' = [conn EXCEPT ![c].pc = "open",
                             ![c].bucket = IF conn[c].rate > 0 THEN "old" ELSE "none"]
     \/ conn[c].ipLimit > 0 /\ Move(c, "rejected")
  /\ UNCHANGED <<info, online, hub, poll, ctl>>

\* The link ends; the limiter is not told.
End(c) ==
  /\ conn[c].pc \in {"open", "rejected"}
  /\ conn' = [conn EXCEPT ![c] = NoConn]
  /\ UNCHANGED <<info, online, hub, poll, ctl>>
-----------------------------------------------------------------------------
(* GetOnlineDevice, called by the reporter. *)

StartPoll ==
  /\ poll.pc = "idle" /\ present
  /\ poll' = [NoPoll EXCEPT !.pc = "hub", !.todo = Users, !.start = online]
  /\ UNCHANGED <<info, online, hub, conn, ctl>>

\* BucketHub.Range: is the owner of this bucket online?
LookAtBucket(u) ==
  /\ poll.pc = "hub" /\ u \in poll.todo
  /\ poll' = IF hub[u] # None /\ online[u] = {}
             THEN [poll EXCEPT !.pc = "drop", !.user = u]
             ELSE [poll EXCEPT !.todo = @ \ {u}]
  /\ UNCHANGED <<info, online, hub, conn, ctl>>

DropBucket ==
  /\ poll.pc = "drop"
  /\ hub' = [hub EXCEPT ![poll.user] = None]
  /\ conn' = Unshare(conn, {poll.user})
  /\ poll' = [poll EXCEPT !.pc = "hub", !.todo = @ \ {poll.user}, !.user = None]
  /\ UNCHANGED <<info, online, ctl>>

BucketsDone ==
  /\ poll.pc = "hub" /\ poll.todo = {}
  /\ poll' = [poll EXCEPT !.pc = "online", !.todo = Users]
  /\ UNCHANGED <<info, online, hub, conn, ctl>>

\* Mutant: the map is reset before it is walked.
LookAtUser_ResetsFirst(u) ==
  /\ poll.pc = "online" /\ u \in poll.todo
  /\ online' = [online EXCEPT ![u] = {}]
  /\ conn' = [c \in Conns |-> IF conn[c].user = u
                              THEN [conn[c] EXCEPT !.live = FALSE] ELSE conn[c]]
  /\ poll' = [poll EXCEPT !.todo = @ \ {u}]
  /\ UNCHANGED <<info, hub, ctl>>

\* SubscriptionOnlineIP.Range: the walk over this user's map begins.
LookAtUser(u) ==
  /\ poll.pc = "online" /\ u \in poll.todo
  /\ poll' = IF online[u] = {} THEN [poll EXCEPT !.todo = @ \ {u}]
             ELSE [poll EXCEPT !.pc = "drain", !.user = u, !.seen = online[u]]
  /\ UNCHANGED <<info, online, hub, conn, ctl>>

\* The walk finds what was there when it began and perhaps what was stored
\* since; then the map is deleted with all it holds.
DrainUser ==
  /\ poll.pc = "drain"
  /\ LET u == poll.user IN
     /\ \E late \in SUBSET (online[u] \ poll.seen) :
          poll' = [poll EXCEPT !.pc = "online", !.todo = @ \ {u}, !.user = None,
                               !.seen = {}, !.report[u] = poll.seen \cup late]
     /\ online' = [online EXCEPT ![u] = {}]
     /\ conn' = [c \in Conns |-> IF conn[c].user = u
                                 THEN [conn[c] EXCEPT !.live = FALSE] ELSE conn[c]]
  /\ UNCHANGED <<info, hub, ctl>>

EndPoll ==
  /\ poll.pc = "online" /\ poll.todo = {}
  /\ poll' = NoPoll
  /\ UNCHANGED <<info, online, hub, conn, ctl>>
-----------------------------------------------------------------------------
(* The controller's calls. *)

\* The InboundInfo is replaced, or deleted: calls that hold it go on with it.
InFlight == {"load", "check", "count", "store", "bucket"}

Detach(f) ==
  [c \in Conns |->
     [f[c] EXCEPT !.pc = IF @ \in InFlight THEN "stale" ELSE @, !.live = FALSE]]

Replace ==
  /\ online' = NoIPs
  /\ hub' = [u \in Users |-> None]
  /\ conn' = Unshare(Detach(conn), Users)
  /\ poll' = NoPoll

\* Mutant: the map of the users' limits is built and never assigned.
AddInboundLimiter_NoUsers ==
  /\ ctl.pc = "idle"
  /\ present' = TRUE
  /\ nodeRate' \in NodeRates
  /\ sub' = None
  /\ Replace
  /\ UNCHANGED ctl

AddInboundLimiter ==
  /\ ctl.pc = "idle"
  /\ present' = TRUE
  /\ nodeRate' \in NodeRates
  /\ sub' \in Lists
  /\ Replace
  /\ UNCHANGED ctl

DeleteInboundLimiter ==
  /\ ctl.pc = "idle" /\ present
  /\ present' = FALSE /\ nodeRate' = 0 /\ sub' = [u \in Users |-> None]
  /\ Replace
  /\ UNCHANGED ctl

\* UpdateInboundLimiter is given the users of a new list that are new in it or
\* changed; users that have left the list stay in the limiter.
StartUpdate ==
  /\ ctl.pc = "idle" /\ present
  /\ \E list \in Lists :
       LET changed == {u \in Users : list[u] # None /\ list[u] # sub[u]} IN
       /\ changed # {}
       /\ ctl' = [NoCtl EXCEPT !.pc = "store", !.todo = changed, !.list = list]
  /\ UNCHANGED <<info, online, hub, conn, poll>>

UpdateUser(u) ==
  /\ ctl.pc = "store" /\ u \in ctl.todo
  /\ sub' = [sub EXCEPT ![u] = ctl.list[u]]
  /\ ctl' = [ctl EXCEPT !.pc = "bucket", !.todo = @ \ {u}, !.user = u]
  /\ UNCHANGED <<present, nodeRate, online, hub, conn, poll>>

\* Mutant: a limit of 0 is set on the bucket as any other.
UpdateBucket_SetsZero ==
  /\ ctl.pc = "bucket"
  /\ LET u == ctl.user
         rate == determineRate(nodeRate, ctl.list[u].speed)
     IN  hub' = IF hub[u] = None THEN hub ELSE [hub EXCEPT ![u] = rate]
  /\ ctl' = IF ctl.todo = {} THEN NoCtl ELSE [ctl EXCEPT !.pc = "store", !.user = None]
  /\ UNCHANGED <<info, online, conn, poll>>

\* SetLimit on the bucket, or its removal if there is no limit any more.
UpdateBucket ==
  /\ ctl.pc = "bucket"
  /\ LET u == ctl.user
         rate == determineRate(nodeRate, ctl.list[u].speed)
     IN  \/ /\ rate > 0
            /\ hub' = IF hub[u] = None THEN hub ELSE [hub EXCEPT ![u] = rate]
            /\ UNCHANGED conn
         \/ /\ rate = 0
            /\ hub' = [hub EXCEPT ![u] = None]
            /\ conn' = Unshare(conn, {u})
  /\ ctl' = IF ctl.todo = {} THEN NoCtl ELSE [ctl EXCEPT !.pc = "store", !.user = None]
  /\ UNCHANGED <<info, online, poll>>
-----------------------------------------------------------------------------
Connection(c) ==
  \/ Load(c) \/ LoadMissing(c) \/ GlobalReject(c) \/ LoadOrStoreOnline(c)
  \/ CheckIP(c) \/ CountIPs(c) \/ StoreIP(c) \/ TakeBucket(c)
  \/ StaleReturns(c) \/ End(c)

Reporter ==
  \/ StartPoll \/ DropBucket \/ BucketsDone \/ DrainUser \/ EndPoll
  \/ \E u \in Users : LookAtBucket(u) \/ LookAtUser(u)

Control ==
  \/ AddInboundLimiter \/ DeleteInboundLimiter \/ StartUpdate \/ UpdateBucket
  \/ \E u \in Users : UpdateUser(u)

Next == (\E c \in Conns : Connection(c)) \/ Reporter \/ Control

Spec == Init /\ [][Next]_vars
-----------------------------------------------------------------------------
(* Correctness properties. *)

\* Every variable has its type.
TypeOK ==
  /\ present \in BOOLEAN /\ nodeRate \in Nat
  /\ sub \in [Users -> Limit \cup {None}]
  /\ online \in [Users -> SUBSET IPs]
  /\ hub \in [Users -> Nat \cup {None}]
  /\ conn \in [Conns -> Conn] /\ poll \in Poll /\ ctl \in Ctl

\* The users every list gives an IP limit of at most MaxIPLimit.
Limited(u) == \A list \in Lists : list[u] # None /\ list[u].ip \in 1..MaxIPLimit

\* However connections, reports and updates interleave, the online list of a
\* limited user exceeds the limit by no more than the one address the comparison
\* lets in and the other connections that race between the count and the store.
OnlineBound ==
  \A u \in Users : Limited(u) =>
    Cardinality(online[u]) <= MaxIPLimit + Cardinality(Conns)

\* The IP of an admitted connection is on the online list until a report takes
\* the list or the limiter is replaced.
AdmittedAreOnline ==
  \A c \in Conns : conn[c].live /\ conn[c].pc \in {"bucket", "open"} =>
    conn[c].ip \in online[conn[c].user]

\* A link opened with a rate is limited, by a bucket that lets bytes through:
\* updates and reports never leave it a bucket of rate 0, nor none in the hub.
LimitedLinksFlow ==
  /\ \A u \in Users : hub[u] # None => hub[u] > 0
  /\ \A c \in Conns : conn[c].pc = "open" =>
       /\ conn[c].rate > 0 => conn[c].bucket # "none"
       /\ conn[c].bucket = "hub" => hub[conn[c].user] # None

\* "Check if we're AT the limit already (before adding new IP)" (limiter.go:208): a
\* new address is let in only while the list is shorter than the limit.  A
\* connection that is alone shows that counter > ipLimit lets one more in.
AdmittedBelowLimit ==
  [][\A c \in Conns :
       conn[c].live /\ conn[c].ipLimit > 0 /\ At(c, "count") /\ At(c, "store")'
         => Cardinality(online[conn[c].user]) < conn[c].ipLimit]_vars

\* A report names every IP that was online when it began.
ReportIsComplete ==
  poll.pc = "online" =>
    \A u \in Users \ poll.todo : poll.start[u] \subseteq poll.report[u]
=============================================================================
