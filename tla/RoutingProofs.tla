----------------------------- MODULE RoutingProofs -----------------------------
(* Proofs about Routing and Service: the rules are in a total order that has a *)
(* first rule for every connection, what is blocked leaves where it must, and  *)
(* the monitor panics only behind an answer that was dropped.                  *)
EXTENDS Service, ControllerProofs, WellFoundedInduction

-----------------------------------------------------------------------------
(* Steps of Controller, as the router sees them. *)

\* A step takes rules away, or appends one.
LEMMA RulesStep ==
  ASSUME [Next]_vars
  PROVE  rules' \subseteq rules \/ \E r : rules' = rules \cup {r}
<1> USE DEF panelVars, clientVars, ctlVars, coreVars, limVars
<1>1. CASE UNCHANGED rules
  BY <1>1
<1>2. CASE Boot
  BY <1>2 DEF Boot, ResetProcess
<1>3. CASE RemoveRelayRules \/ RemoveDefaultRule \/ RemoveBlackholeRule
  BY <1>3 DEF RemoveRelayRules, RemoveDefaultRule, RemoveBlackholeRule
<1>4. CASE AddRelayRule \/ AddBlackholeRule \/ AddDefaultRule
  BY <1>4 DEF AddRelayRule, AddBlackholeRule, AddDefaultRule
<1>5. CASE UNCHANGED vars \/ EditPanel \/ Poll \/ Fetched \/ NodeFails
  BY <1>1, <1>5 DEF vars, EditPanel, Poll, Fetched, FetchNode, NodeNotModified, NodeFails
<1>6. CASE FetchSubs \/ SubsNotModified \/ SubsFails \/ RemoveRelayTag \/ GetTransitNode
           \/ TransitMissing \/ AddRelayOutbound \/ RelayFails \/ RelayAdded \/ Apply
  BY <1>1, <1>6 DEF FetchSubs, SubsNotModified, SubsFails, RemoveRelayTag, GetTransitNode,
     TransitMissing, AddRelayOutbound, RelayFails, RelayAdded, Apply
<1>7. CASE RemoveInbound \/ RemoveOutbound \/ RemoveBlackholeOutbound
           \/ AddBlackholeOutbound \/ AddInbound \/ AddOutbound \/ DeleteLimiter \/ AddLimiter
           \/ AddUsers \/ RemoveUsers \/ AddNewUsers \/ LimitNewUsers \/ LimitModifiedUsers
           \/ Finish
  BY <1>1, <1>7 DEF RemoveInbound, RemoveOutbound, RemoveBlackholeOutbound,
     AddBlackholeOutbound, AddInbound, AddOutbound, DeleteLimiter, AddLimiter, AddUsers,
     RemoveUsers, AddNewUsers, LimitNewUsers, LimitModifiedUsers, Finish
<1> QED BY <1>2, <1>3, <1>4, <1>5, <1>6, <1>7 DEF Next, Step

LEMMA Steps == [RNext]_rvars => [Next]_vars
  BY DEF RNext, rvars
-----------------------------------------------------------------------------
(* The order. *)

\* Any two rules are in order, and no rule has others before it without end.
OrderInv ==
  /\ before \subseteq rules \X rules
  /\ \A r, s \in rules : r # s => <<r, s>> \in before \/ <<s, r>> \in before
  /\ IsWellFoundedOn(before, rules)

LEMMA OrderInit == RInit => OrderInv
  BY EmptyIsWellFounded DEF RInit, Init, OrderInv

\* Appending keeps an order well-founded: what follows an infinite descent's first
\* rule was there before.
LEMMA AppendWellFounded ==
  ASSUME NEW R, NEW S, NEW T, NEW Q, R \subseteq S \X S, IsWellFoundedOn(R, S),
         Q = (R \cap (T \X T)) \cup ((S \cap T) \X (T \ S))
  PROVE  IsWellFoundedOn(Q, T)
<1> SUFFICES ASSUME NEW f \in [Nat -> T], \A n \in Nat : <<f[n+1], f[n]>> \in Q
             PROVE  FALSE
  BY DEF IsWellFoundedOn
<1> DEFINE g == [n \in Nat |-> f[n+1]]
<1>1. \A n \in Nat : f[n+1] \in S \cap T
  OBVIOUS
<1>2. g \in [Nat -> S]
  BY <1>1
<1>3. \A n \in Nat : <<g[n+1], g[n]>> \in R
  <2> TAKE n \in Nat
  <2>1. n+1 \in Nat /\ (n+1)+1 \in Nat
    OBVIOUS
  <2>2. <<f[(n+1)+1], f[n+1]>> \in Q
    BY <2>1
  <2>3. f[n+1] \in S
    BY <1>1
  <2>4. g[n] = f[n+1] /\ g[n+1] = f[(n+1)+1]
    BY <2>1
  <2> QED BY <2>2, <2>3, <2>4
<1> QED BY <1>2, <1>3 DEF IsWellFoundedOn

LEMMA OrderNext == OrderInv /\ [RNext]_rvars => OrderInv'
<1> SUFFICES ASSUME OrderInv, [RNext]_rvars PROVE OrderInv'
  OBVIOUS
<1>1. CASE UNCHANGED rvars
  <2>1. rules' = rules /\ before' = before
    BY <1>1 DEF rvars, vars, coreVars
  <2> QED BY <2>1 DEF OrderInv
<1>2. CASE RNext
  <2>1. before' = (before \cap (rules' \X rules')) \cup ((rules \cap rules') \X (rules' \ rules))
    BY <1>2 DEF RNext, Reorder
  <2>2. rules' \subseteq rules \/ \E r : rules' = rules \cup {r}
    BY Steps, RulesStep
  <2>3. before' \subseteq rules' \X rules'
    BY <2>1
  <2>4. \A r, s \in rules' : r # s => <<r, s>> \in before' \/ <<s, r>> \in before'
    BY <2>1, <2>2 DEF OrderInv
  <2>5. IsWellFoundedOn(before', rules')
    BY <2>1, AppendWellFounded DEF OrderInv
  <2> QED BY <2>3, <2>4, <2>5 DEF OrderInv
<1> QED BY <1>1, <1>2
-----------------------------------------------------------------------------
(* Which rules can be met. *)

\* A relay rule is for one user, and leads to a relay of that user.
MatchInv ==
  \A r \in rules : r.ruleTag.kind = "relay" =>
    \E u \in User, rt \in RelayTags : r.user = u /\ r.out = RelayName(rt, u.id)

\* The blocking rules of a node are in force before its outbound is built ...
OpenInv ==
  pc \in {"out", "default"} /\ nodeInfo.rules => BlackholeRule(Tag) \in rules

\* ... and stay in front of its default rule.
FrontInv ==
  nodeInfo.rules /\ DefaultRule(Tag) \in rules =>
    <<BlackholeRule(Tag), DefaultRule(Tag)>> \in before

RouteInv == OrderInv /\ MatchInv /\ OpenInv /\ FrontInv

LEMMA Kinds ==
  ASSUME NEW t, NEW s
  PROVE  /\ BlackholeRule(t).ruleTag.kind = "blackhole"
         /\ DefaultRule(t).ruleTag.kind = "default"
         /\ BlackholeRule(t) # DefaultRule(s)
  BY DEF BlackholeRule, DefaultRule, BlackholeName, DefaultName

LEMMA RouteInit == RInit => RouteInv
  BY OrderInit DEF RInit, Init, RouteInv, MatchInv, OpenInv, FrontInv

LEMMA MatchNext == TypeInv /\ MatchInv /\ [Next]_vars => MatchInv'
<1> SUFFICES ASSUME TypeInv, MatchInv, [Next]_vars PROVE MatchInv'
  OBVIOUS
<1> USE DEF panelVars, clientVars, ctlVars, coreVars, limVars
<1>1. CASE rules' \subseteq rules
  BY <1>1 DEF MatchInv
<1>2. CASE AddRelayRule
  <2> DEFINE i == frame.cur
             u == [id |-> i, email |-> frame.subs[i].email]
  <2>1. rules' = rules \cup {RelayRule(Tag, RelayTag, i, frame.subs[i].email)}
    BY <1>2 DEF AddRelayRule
  <2>2. u \in User /\ RelayTag \in RelayTags
    BY <1>2, SubListFacts DEF AddRelayRule, TypeInv, TypeOK, Assigned, NoNodeYet, NoSubsYet,
       Dead, Frame, Transit, UserOf, RelayTag
  <2>3. /\ RelayRule(Tag, RelayTag, i, frame.subs[i].email).user = u
        /\ RelayRule(Tag, RelayTag, i, frame.subs[i].email).out = RelayName(RelayTag, u.id)
    BY DEF RelayRule
  <2> QED BY <2>1, <2>2, <2>3 DEF MatchInv
<1>3. CASE AddBlackholeRule
  BY <1>3, Kinds DEF AddBlackholeRule, MatchInv
<1>4. CASE AddDefaultRule
  BY <1>4, Kinds DEF AddDefaultRule, MatchInv
<1>5. CASE UNCHANGED vars \/ EditPanel \/ Boot \/ Poll \/ Fetched \/ NodeFails
  BY <1>1, <1>5 DEF vars, EditPanel, Boot, ResetProcess, Poll, Fetched, FetchNode,
     NodeNotModified, NodeFails
<1>6. CASE FetchSubs \/ SubsNotModified \/ SubsFails \/ RemoveRelayRules \/ RemoveRelayTag
           \/ GetTransitNode \/ TransitMissing \/ AddRelayOutbound \/ RelayFails
           \/ RelayAdded \/ Apply
  BY <1>1, <1>6 DEF FetchSubs, SubsNotModified, SubsFails, RemoveRelayRules, RemoveRelayTag,
     GetTransitNode, TransitMissing, AddRelayOutbound, RelayFails, RelayAdded, Apply
<1>7. CASE RemoveInbound \/ RemoveOutbound \/ RemoveDefaultRule \/ RemoveBlackholeRule
           \/ RemoveBlackholeOutbound \/ AddBlackholeOutbound \/ AddInbound \/ AddOutbound
           \/ DeleteLimiter \/ AddLimiter \/ AddUsers \/ RemoveUsers \/ AddNewUsers
           \/ LimitNewUsers \/ LimitModifiedUsers \/ Finish
  BY <1>1, <1>7 DEF RemoveInbound, RemoveOutbound, RemoveDefaultRule, RemoveBlackholeRule,
     RemoveBlackholeOutbound, AddBlackholeOutbound, AddInbound, AddOutbound, DeleteLimiter,
     AddLimiter, AddUsers, RemoveUsers, AddNewUsers, LimitNewUsers, LimitModifiedUsers, Finish
<1> QED BY <1>2, <1>3, <1>4, <1>5, <1>6, <1>7 DEF Next, Step

\* The steps that touch neither the rules nor the node.
LEMMA RoutesKept ==
  ASSUME [Next]_vars
  PROVE  \/ UNCHANGED <<rules, nodeInfo>>
         \/ Boot \/ FetchNode \/ RemoveRelayRules \/ AddRelayRule
         \/ RemoveDefaultRule \/ RemoveBlackholeRule \/ RemoveBlackholeOutbound
         \/ AddBlackholeRule \/ AddDefaultRule
<1> USE DEF panelVars, clientVars, ctlVars, coreVars, limVars
<1>1. CASE UNCHANGED vars \/ EditPanel \/ Poll \/ NodeNotModified \/ NodeFails
  BY <1>1 DEF vars, EditPanel, Poll, NodeNotModified, NodeFails
<1>2. CASE FetchSubs \/ SubsNotModified \/ SubsFails \/ RemoveRelayTag
           \/ GetTransitNode \/ TransitMissing \/ AddRelayOutbound \/ RelayFails
           \/ RelayAdded \/ Apply
  BY <1>2 DEF FetchSubs, SubsNotModified, SubsFails, RemoveRelayTag,
     GetTransitNode, TransitMissing, AddRelayOutbound, RelayFails, RelayAdded, Apply
<1>3. CASE RemoveInbound \/ RemoveOutbound \/ AddBlackholeOutbound \/ AddInbound
           \/ AddOutbound \/ DeleteLimiter \/ AddLimiter \/ AddUsers \/ RemoveUsers
           \/ AddNewUsers \/ LimitNewUsers \/ LimitModifiedUsers \/ Finish
  BY <1>3 DEF RemoveInbound, RemoveOutbound, AddBlackholeOutbound, AddInbound,
     AddOutbound, DeleteLimiter, AddLimiter, AddUsers, RemoveUsers, AddNewUsers,
     LimitNewUsers, LimitModifiedUsers, Finish
<1> QED BY <1>1, <1>2, <1>3 DEF Next, Step, Fetched

\* How a step gets to "out" or "default".
LEMMA Opening ==
  ASSUME [Next]_vars, pc' \in {"out", "default"}
  PROVE  \/ pc' = pc /\ UNCHANGED <<rules, nodeInfo>>
         \/ pc \in {"in", "out"} /\ UNCHANGED <<rules, nodeInfo>>
<1> USE DEF panelVars, clientVars, ctlVars, coreVars, limVars, Goto, Abort, Panic
<1>1. CASE UNCHANGED vars \/ EditPanel \/ Boot \/ Poll \/ Fetched \/ NodeFails
  BY <1>1 DEF vars, EditPanel, Boot, Poll, Fetched, FetchNode, NodeNotModified, NodeFails
<1>2. CASE FetchSubs \/ SubsNotModified \/ SubsFails \/ RemoveRelayRules \/ RemoveRelayTag
           \/ GetTransitNode \/ TransitMissing \/ AddRelayOutbound \/ AddRelayRule
           \/ RelayFails \/ RelayAdded \/ Apply
  BY <1>2 DEF FetchSubs, SubsNotModified, SubsFails, RemoveRelayRules, RemoveRelayTag,
     GetTransitNode, TransitMissing, AddRelayOutbound, AddRelayRule, RelayFails, RelayAdded,
     Apply, AfterFetch, AfterTeardown, Build
<1>3. CASE RemoveInbound \/ RemoveOutbound \/ RemoveDefaultRule \/ RemoveBlackholeRule
           \/ RemoveBlackholeOutbound \/ AddBlackholeOutbound \/ AddBlackholeRule
           \/ AddInbound \/ AddOutbound \/ AddDefaultRule
  BY <1>3 DEF RemoveInbound, RemoveOutbound, RemoveDefaultRule, RemoveBlackholeRule,
     RemoveBlackholeOutbound, AddBlackholeOutbound, AddBlackholeRule, AddInbound,
     AddOutbound, AddDefaultRule
<1>4. CASE DeleteLimiter \/ AddLimiter \/ AddUsers \/ RemoveUsers \/ AddNewUsers
           \/ LimitNewUsers \/ LimitModifiedUsers \/ Finish
  BY <1>4 DEF DeleteLimiter, AddLimiter, AddUsers, RemoveUsers, AddNewUsers,
     LimitNewUsers, LimitModifiedUsers, Finish
<1> QED BY <1>1, <1>2, <1>3, <1>4 DEF Next, Step

LEMMA OpenNext == SafeInv /\ OpenInv /\ [Next]_vars => OpenInv'
<1> SUFFICES ASSUME SafeInv, OpenInv, [Next]_vars, pc' \in {"out", "default"}, nodeInfo'.rules
             PROVE  BlackholeRule(Tag)' \in rules'
  BY DEF OpenInv
<1>1. /\ pc \in {"in", "out", "default"} /\ UNCHANGED <<rules, nodeInfo>>
  BY Opening
<1>2. BlackholeRule(Tag) \in rules
  BY <1>1 DEF SafeInv, BlockInv, OpenInv
<1> QED BY <1>1, <1>2 DEF Tag

LEMMA FrontNext ==
  TypeInv /\ SafeInv /\ SafeInv' /\ RouteInv /\ [RNext]_rvars => FrontInv'
<1> SUFFICES ASSUME TypeInv, SafeInv, SafeInv', RouteInv, [RNext]_rvars,
                    nodeInfo'.rules, DefaultRule(Tag)' \in rules'
             PROVE  <<BlackholeRule(Tag)', DefaultRule(Tag)'>> \in before'
  BY DEF FrontInv
<1>0. [Next]_vars
  BY Steps
\* The new order puts no two rules that stay the other way round.
<1>1. ASSUME nodeInfo' = nodeInfo, DefaultRule(Tag) \in rules,
             BlackholeRule(Tag) \in rules => BlackholeRule(Tag) \in rules'
      PROVE  <<BlackholeRule(Tag)', DefaultRule(Tag)'>> \in before'
  <2>1. BlackholeRule(Tag)' = BlackholeRule(Tag) /\ DefaultRule(Tag)' = DefaultRule(Tag)
    BY <1>1 DEF Tag
  <2>2. <<BlackholeRule(Tag), DefaultRule(Tag)>> \in before
    BY <1>1 DEF RouteInv, FrontInv
  <2>3. BlackholeRule(Tag) \in rules' /\ DefaultRule(Tag) \in rules'
    BY <1>1, <2>1, <2>2 DEF RouteInv, OrderInv
  <2>4. CASE UNCHANGED rvars
    BY <2>1, <2>2, <2>4 DEF rvars
  <2>5. CASE RNext
    BY <2>1, <2>2, <2>3, <2>5 DEF RNext, Reorder
  <2> QED BY <2>4, <2>5
<1>2. CASE UNCHANGED <<rules, nodeInfo>>
  BY <1>1, <1>2 DEF Tag
<1>3. CASE Boot
  BY <1>3 DEF Boot, ResetProcess
<1>4. CASE FetchNode
  <2>1. CASE frame.starting
    <3>1. Early'
      BY <1>4, <2>1 DEF FetchNode, Early, Goto, TypeInv, TypeOK, Frame
    <3> QED BY <3>1, Kinds DEF SafeInv, RuleInv
  <2>2. CASE ~ frame.starting
    BY <1>2, <1>4, <2>2 DEF FetchNode, coreVars
  <2> QED BY <2>1, <2>2
<1>5. CASE RemoveRelayRules
  <2>1. nodeInfo' = nodeInfo /\ rules' = {r \in rules : \A i \in DOMAIN subscriptionList :
                                            r.ruleTag # RelayName(RelayTag, i)}
    BY <1>5 DEF RemoveRelayRules, ctlVars
  <2>2. BlackholeRule(Tag) \in rules => BlackholeRule(Tag) \in rules'
    BY <2>1 DEF BlackholeRule, BlackholeName, RelayName
  <2> QED BY <1>1, <2>1, <2>2 DEF Tag
<1>6. CASE AddRelayRule
  <2>1. nodeInfo' = nodeInfo
        /\ rules' = rules \cup {RelayRule(Tag, RelayTag, frame.cur, frame.subs[frame.cur].email)}
    BY <1>6 DEF AddRelayRule, ctlVars
  <2>2. DefaultRule(Tag) \in rules
    BY <2>1 DEF Tag, DefaultRule, RelayRule, DefaultName, RelayName
  <2> QED BY <1>1, <2>1, <2>2
<1>7. CASE RemoveDefaultRule
  BY <1>7 DEF RemoveDefaultRule, ctlVars, Tag, DefaultRule
<1>8. CASE RemoveBlackholeRule \/ RemoveBlackholeOutbound
  <2>1. pc' \in {"delBlackholeOut", "blackholeOut"}
    BY <1>8 DEF RemoveBlackholeRule, RemoveBlackholeOutbound, Goto
  <2> QED BY <2>1, Kinds DEF SafeInv, RuleInv
<1>9. CASE AddBlackholeRule
  <2>1. nodeInfo' = nodeInfo /\ rules \subseteq rules' /\ pc = "blackholeRule"
    BY <1>9 DEF AddBlackholeRule, ctlVars
  <2>2. DefaultRule(Tag) \in rules
    BY <1>9, <2>1, Kinds DEF AddBlackholeRule, Tag
  <2> QED BY <1>1, <2>1, <2>2
<1>10. CASE AddDefaultRule
  <2>1. nodeInfo' = nodeInfo /\ rules \subseteq rules' /\ pc = "default"
    BY <1>10 DEF AddDefaultRule, ctlVars
  <2>2. DefaultRule(Tag) \notin rules /\ DefaultRule(Tag) \in rules'
    BY <2>1, Kinds DEF SafeInv, RuleInv, Tag
  <2>3. BlackholeRule(Tag) \in rules
    BY <2>1 DEF RouteInv, OpenInv
  <2>4. RNext
    BY <2>2 DEF rvars, vars, coreVars
  <2> QED BY <2>1, <2>2, <2>3, <2>4 DEF RNext, Reorder, Tag
<1> QED
  BY <1>0, <1>2, <1>3, <1>4, <1>5, <1>6, <1>7, <1>8, <1>9, <1>10, RoutesKept

LEMMA Routes == RSpec => [](TypeInv /\ SafeInv /\ RouteInv)
<1>1. RInit => TypeInv /\ SafeInv /\ RouteInv
  BY TypeInit, SafeInit, RouteInit DEF RInit
<1>2. TypeInv /\ SafeInv /\ RouteInv /\ [RNext]_rvars => (TypeInv /\ SafeInv /\ RouteInv)'
  BY Steps, TypeStep, SafeStep, OrderNext, MatchNext, OpenNext, FrontNext DEF RouteInv
<1> QED BY <1>1, <1>2, PTL DEF RSpec
-----------------------------------------------------------------------------
(* The theorems. *)

\* The rule PickRoute takes of those that match.
PickFirst(H) == CHOOSE r \in H : \A s \in H \ {r} : <<r, s>> \in before

LEMMA FirstPicked ==
  ASSUME OrderInv, NEW H, H \subseteq rules, H # {}
  PROVE  /\ PickFirst(H) \in H
         /\ \A s \in H \ {PickFirst(H)} :
              <<PickFirst(H), s>> \in before /\ <<s, PickFirst(H)>> \notin before
<1>1. PICK r \in H : \A s \in H : ~ (<<s, r>> \in before)
  BY WFMin DEF OrderInv
<1>2. \A s \in H \ {r} : <<r, s>> \in before
  BY <1>1 DEF OrderInv
<1>3. PickFirst(H) \in H /\ \A s \in H \ {PickFirst(H)} : <<PickFirst(H), s>> \in before
  BY <1>2 DEF PickFirst
<1> QED BY <1>3, WellFoundedIsAsymmetric DEF OrderInv

\* For any connection that some rule matches there is one first rule, and it is the
\* one PickRoute takes.
FirstRule ==
  \A t \in Tags, u \in User, blocked \in BOOLEAN :
    LET hits == {r \in rules : Applies(r, t, u, blocked)}
    IN  hits # {} =>
          \E r \in hits : /\ PickRoute(t, u, blocked) = r.out
                          /\ \A s \in hits \ {r} : <<r, s>> \in before /\ <<s, r>> \notin before

\* However the router was rebuilt, its rules never have a tie, a gap or a loop: what
\* a connection is routed by is decided (addRouterRule, removeRouterRule).
THEOREM RoutesAreDecided == RSpec => []FirstRule
<1>1. OrderInv => FirstRule
  <2> SUFFICES ASSUME OrderInv, NEW t \in Tags, NEW u \in User, NEW blocked \in BOOLEAN,
                      {r \in rules : Applies(r, t, u, blocked)} # {}
               PROVE  LET hits == {r \in rules : Applies(r, t, u, blocked)}
                      IN  \E r \in hits :
                            /\ PickRoute(t, u, blocked) = r.out
                            /\ \A s \in hits \ {r} : <<r, s>> \in before /\ <<s, r>> \notin before
    BY DEF FirstRule
  <2> DEFINE hits == {r \in rules : Applies(r, t, u, blocked)}
  <2>1. PickFirst(hits) \in hits
        /\ \A s \in hits \ {PickFirst(hits)} :
             <<PickFirst(hits), s>> \in before /\ <<s, PickFirst(hits)>> \notin before
    BY FirstPicked
  <2>2. PickRoute(t, u, blocked) = PickFirst(hits).out
    BY DEF PickRoute, PickFirst
  <2> QED BY <2>1, <2>2
<1> QED BY <1>1, Routes, PTL DEF RouteInv

\* Whatever was rebuilt in whatever order, whatever failed, and at every step of it,
\* what the blocking rules of an open inbound match leaves by the blackhole or by
\* the relay of its own user, for any panel, relays and faults.
THEOREM BlockedTrafficStaysIn == RSpec => []BlockedStaysIn
<1>1. TypeInv /\ SafeInv /\ RouteInv => BlockedStaysIn
  <2> SUFFICES ASSUME TypeInv, SafeInv, RouteInv,
                      NEW t \in inbounds, nodeInfo.rules, NEW a \in users[t]
               PROVE  PickRoute(t, [id |-> a.id, email |-> a.email], TRUE)
                        \in {BlackholeName(t)} \cup {RelayName(rt, a.id) : rt \in RelayTags}
    BY DEF BlockedStaysIn
  <2> DEFINE u == [id |-> a.id, email |-> a.email]
             hits == {r \in rules : Applies(r, t, u, TRUE)}
             first == PickFirst(hits)
  <2>1. t = Tag /\ BlackholeRule(t) \in rules
    BY DEF SafeInv, SingleInbound, BlockInv, BlockedWhileOpen
  <2>2. BlackholeRule(t) \in hits
    BY <2>1 DEF Applies, BlackholeRule
  <2>3. first \in hits
        /\ \A s \in hits \ {first} : <<first, s>> \in before /\ <<s, first>> \notin before
    <3> HIDE DEF hits
    <3>1. hits \subseteq rules
      BY DEF hits
    <3> QED BY <2>2, <3>1, FirstPicked DEF RouteInv
  <2>4. PickRoute(t, u, TRUE) = first.out
    BY <2>2 DEF PickRoute, PickFirst
  <2>5. first \in rules /\ first.user \in {None, u}
    BY <2>3 DEF Applies
  <2> HIDE DEF first
  <2>6. CASE first.ruleTag.kind = "relay"
    <3>1. PICK v \in User, rt \in RelayTags : first.user = v /\ first.out = RelayName(rt, v.id)
      BY <2>5, <2>6 DEF RouteInv, MatchInv
    <3>2. v = u
      BY <2>5, <3>1, ControllerAssumption
    <3>3. first.out = RelayName(rt, a.id)
      BY <3>1, <3>2
    <3> QED BY <2>4, <3>3
  <2>7. CASE first = BlackholeRule(Tag)
    <3>1. first.out = BlackholeName(t)
      BY <2>1, <2>7 DEF BlackholeRule
    <3> QED BY <2>4, <3>1
  <2>8. CASE first = DefaultRule(Tag)
    <3>1. <<BlackholeRule(Tag), first>> \in before
      BY <2>5, <2>8 DEF RouteInv, FrontInv
    <3>2. BlackholeRule(Tag) \in hits \ {first}
      BY <2>1, <2>2, <2>8, Kinds
    <3> QED BY <2>3, <3>1, <3>2
  <2> QED BY <2>5, <2>6, <2>7, <2>8 DEF SafeInv, RuleInv
<1> QED BY <1>1, Routes, PTL
-----------------------------------------------------------------------------
(* Service: what a dropped answer is needed for. *)

LEMMA ServiceSteps == [SNext]_svars => [Next]_vars
  BY Steps DEF SNext, svars

\* Only a new process starts.
LEMMA StartsIsBoot ==
  ASSUME TypeInv, Next, Starts
  PROVE  Boot
<1>1. pc' = "node" /\ pc # "node" /\ frame'.starting
  BY DEF Starts
<1>2. ~ Poll
  BY <1>1 DEF Poll, TypeInv, Assigned, NoFrame
<1>3. CASE Poll \/ Boot
  BY <1>2, <1>3
<1>4. CASE ~ Poll /\ ~ Boot
  BY <1>1, <1>4 DEF Next, Fetched, Step, Goto, Abort, Panic, AfterFetch, AfterTeardown,
     Build, EditPanel, FetchNode, NodeNotModified, NodeFails, FetchSubs, SubsNotModified,
     SubsFails, RemoveRelayRules, RemoveRelayTag, GetTransitNode, TransitMissing,
     AddRelayOutbound, AddRelayRule, RelayFails, RelayAdded, Apply, RemoveInbound,
     RemoveOutbound, RemoveDefaultRule, RemoveBlackholeRule, RemoveBlackholeOutbound,
     AddBlackholeOutbound, AddBlackholeRule, AddInbound, AddOutbound, AddDefaultRule,
     DeleteLimiter, AddUsers, AddLimiter, RemoveUsers, AddNewUsers, LimitNewUsers,
     LimitModifiedUsers, Finish
<1> QED BY <1>3, <1>4

\* Only an answer stores an ETag.
LEMMA EtagKept ==
  ASSUME Next, ~ Boot, ~ FetchNode, ~ NodeFails
  PROVE  etagServer' = etagServer
  BY DEF Next, Fetched, Step, clientVars, Poll, EditPanel, NodeNotModified, FetchSubs,
     SubsNotModified, SubsFails, RemoveRelayRules, RemoveRelayTag, GetTransitNode,
     TransitMissing, AddRelayOutbound, AddRelayRule, RelayFails, RelayAdded, Apply,
     RemoveInbound, RemoveOutbound, RemoveDefaultRule, RemoveBlackholeRule,
     RemoveBlackholeOutbound, AddBlackholeOutbound, AddBlackholeRule, AddInbound,
     AddOutbound, AddDefaultRule, DeleteLimiter, AddUsers, AddLimiter, RemoveUsers,
     AddNewUsers, LimitNewUsers, LimitModifiedUsers, Finish

\* An answer that was not dropped is the one applied.
DropInv == "node" \notin dropped => AnswerApplied

LEMMA DropNext ==
  ASSUME OnlyRequestsFail, BuiltInv, DropInv, [SNext]_svars
  PROVE  DropInv'
<1> SUFFICES ASSUME "node" \notin dropped' PROVE AnswerApplied'
  BY DEF DropInv
<1>1. CASE UNCHANGED svars
  BY <1>1 DEF DropInv, svars, rvars, vars, AnswerApplied, clientVars, ctlVars, Dead, NoNodeYet
<1> SUFFICES ASSUME Next, Remember PROVE AnswerApplied'
  BY <1>1 DEF SNext, RNext
<1>2. GivesUp /\ ~ Starts => "node" \notin dropped /\ etagServer' = etagServer /\ ~ frame.nodeChanged
  BY DEF Remember, InHand, Stored
<1>3. ~ Starts /\ etagServer' = etagServer => "node" \notin dropped
  BY DEF Remember, Stored
<1>4. CASE Boot
  BY <1>4, AnswerNext DEF BuiltInv, NodeFails, SubsFails, Boot
<1>5. CASE FetchNode
  <2>1. ~ NodeFails /\ ~ SubsFails
    BY <1>5 DEF NodeFails, SubsFails, FetchNode, Goto, Abort
  <2> QED BY <1>5, <2>1, AnswerNext DEF BuiltInv
<1>6. CASE ~ Boot /\ ~ FetchNode
  <2>1. ~ Starts
    BY <1>6, StartsIsBoot DEF BuiltInv
  <2>2. NodeFails \/ SubsFails => GivesUp
    BY DEF NodeFails, SubsFails, Abort, GivesUp
  <2>3. "node" \notin dropped
    BY <1>6, <2>1, <2>2, <1>2, <1>3, EtagKept
  <2>4. NodeFails => etagServer' = etagServer
    BY <2>1, <2>2, <1>2
  <2>5. SubsFails => ~ frame.nodeChanged
    BY <2>1, <2>2, <1>2
  <2> QED BY <1>6, <2>3, <2>4, <2>5, AnswerNext DEF BuiltInv, DropInv
<1> QED BY <1>4, <1>5, <1>6

LEMMA PanicNext ==
  ASSUME OnlyRequestsFail, RelaysHaveTransit, BuiltInv, DropInv, PanicsOnlyAfterDrop, [SNext]_svars
  PROVE  PanicsOnlyAfterDrop'
<1> SUFFICES ASSUME pc' = "panicked" PROVE "node" \in dropped'
  BY DEF PanicsOnlyAfterDrop
<1>1. "node" \in dropped => "node" \in dropped'
  <2>1. etagServer' = etagServer
    BY ServiceSteps, PanicSteps
  <2>2. ~ Starts /\ ~ GivesUp
    BY DEF Starts, GivesUp
  <2> QED BY <2>1, <2>2 DEF SNext, Remember, Stored, svars
<1>2. ASSUME TransitMissing PROVE "node" \in dropped
  <2>1. resp \in Configs /\ frame.node.relay = "on"
    BY <1>2 DEF TransitMissing, BuiltInv, TypeInv, Assigned, Dead, NoNodeYet, RelayInv
  <2>2. AnswerApplied => frame.node = resp.info
    BY <1>2 DEF TransitMissing, AnswerApplied
  <2> QED BY <1>2, <2>1, <2>2 DEF TransitMissing, RelaysHaveTransit, DropInv
<1>3. ~ RelayFails
  BY NoRelayFails DEF BuiltInv
<1>4. pc = "panicked" \/ TransitMissing
  BY <1>3, ServiceSteps, PanicSteps
<1> QED BY <1>1, <1>2, <1>4 DEF PanicsOnlyAfterDrop

\* Where only requests fail and relays have their transit node, the monitor panics only
\* behind a node answer that was stored and not applied: for every panel, every sequence
\* of its edits and every failure of a request.
THEOREM PanicsNeedADrop ==
  ASSUME OnlyRequestsFail, RelaysHaveTransit
  PROVE  SSpec => []PanicsOnlyAfterDrop
<1>1. SInit => DropInv /\ PanicsOnlyAfterDrop
  BY SyncInit DEF SInit, RInit, Init, DropInv, PanicsOnlyAfterDrop, AnswerApplied, Dead, NoNodeYet
<1>2. BuiltInv /\ DropInv /\ PanicsOnlyAfterDrop /\ [SNext]_svars => (DropInv /\ PanicsOnlyAfterDrop)'
  BY OnlyRequestsFail, RelaysHaveTransit, DropNext, PanicNext
<1>3. SSpec => Spec
  BY ServiceSteps, PTL DEF SSpec, SInit, RInit, Spec
<1> QED BY <1>1, <1>2, <1>3, Built, OnlyRequestsFail, PTL DEF SSpec
=============================================================================
