--------------------------- MODULE ControllerProofs ---------------------------
(* Proofs about Controller, for every panel and every list of subscriptions:   *)
(* its type invariant and its safety invariants, whatever calls fail; and what *)
(* it serves between two polls, when only requests do.                         *)
EXTENDS Controller, TLAPS

-----------------------------------------------------------------------------
(* Operators of the model. *)

\* A list of subscriptions maps some ids to well-formed subscriptions.
LEMMA SubListFacts ==
  ASSUME NEW s \in SubList
  PROVE  /\ DOMAIN s \subseteq Ids
         /\ \A i \in DOMAIN s : s[i] \in Sub
         /\ \A i \in DOMAIN s : UserOf(s, i) \in User
<1>1. PICK I \in SUBSET Ids : s \in [I -> Sub]
  BY DEF SubList
<1> QED
  BY <1>1 DEF Sub, UserOf, User

\* Build*Users yields accounts.
LEMMA AccountsType ==
  ASSUME NEW s \in SubList, NEW ids \in SUBSET DOMAIN s, NEW info
  PROVE  Accounts(s, ids, info) \subseteq Account
BY SubListFacts DEF Accounts, Keyed, Account, Sub

\* Storing limits keeps a limiter's map well-formed.
LEMMA StoreLimitsType ==
  ASSUME NEW base \in [User -> Limits \cup {None}],
         NEW s \in SubList, NEW ids \in SUBSET DOMAIN s
  PROVE  StoreLimits(base, s, ids) \in [User -> Limits \cup {None}]
BY SubListFacts DEF StoreLimits, Sub

LEMMA NoFrameType == NoFrame \in Frame
BY DEF NoFrame, Frame

-----------------------------------------------------------------------------
(* The type invariant.  It is not inductive alone: which fields of the       *)
(* controller and of the frame are set depends on where the handler is.      *)

Dead == pc \in {"down", "panicked"}

\* Start has not had its answer about the node, or about the subscriptions.
NoNodeYet == frame.starting /\ pc = "node"
NoSubsYet == frame.starting /\ pc \in {"node", "subs"}

Assigned ==
  /\ pc \in {"down", "panicked", "idle"} => frame = NoFrame
  /\ NoNodeYet => etagServer = None
  /\ NoSubsYet => etagSubs = None
  /\ ~ Dead /\ ~ NoNodeYet => nodeInfo \in NodeInfo /\ resp \in Configs
  /\ ~ Dead /\ ~ NoSubsYet => subscriptionList \in SubList
  /\ pc \notin {"down", "panicked", "idle", "node"} => frame.node \in NodeInfo
  /\ pc \notin {"down", "panicked", "idle", "node", "subs"} => frame.subs \in SubList
  /\ Relay \/ pc \in {"relayOut", "relayRule", "delRelayRules", "delRelayOuts"}
       => relaynodeInfo \in Transit
  /\ pc \in {"relayOut", "relayRule"} => frame.todo \subseteq DOMAIN frame.subs
  /\ pc = "relayRule" => frame.cur \in DOMAIN frame.subs
  /\ pc = "apply" => ~ frame.starting
  /\ pc \in {"delIn", "delOut", "delDefault", "delBlackholeRule", "delBlackholeOut"}
       => frame.oldTag \in Tags /\ ~ frame.starting
  /\ pc \in {"blackholeOut", "blackholeRule", "in", "out", "default"}
       => frame.starting \/ frame.oldTag \in Tags
  /\ pc = "delLimiter" => frame.oldTag \in Tags

TypeInv == TypeOK /\ Assigned

LEMMA TypeInit == Init => TypeInv
<1> SUFFICES ASSUME Init PROVE TypeInv
  OBVIOUS
<1> USE ControllerAssumption DEF Init
<1>1. users \in [Tags -> SUBSET Account] /\ limits \in [Tags -> [User -> Limits \cup {None}]]
  BY DEF NoLimits
<1>2. edits \in 0..MaxEdits /\ pc \in PCs /\ frame \in Frame
  BY NoFrameType DEF PCs
<1>3. TypeOK
  BY <1>1, <1>2 DEF TypeOK
<1>4. Assigned
  BY DEF Assigned, NoNodeYet, NoSubsYet, Dead, NoFrame
<1> QED
  BY <1>3, <1>4 DEF TypeInv

\* Every action preserves it.
LEMMA TypeStep == TypeInv /\ [Next]_vars => TypeInv'
<1> SUFFICES ASSUME TypeInv, [Next]_vars PROVE TypeInv'
  OBVIOUS
<1> USE ControllerAssumption DEF TypeInv, Tag, RelayTag, Goto, Abort, Panic, panelVars,
      clientVars, ctlVars, coreVars, limVars,
      TypeOK, Assigned, NoNodeYet, NoSubsYet, Dead
<1>1. CASE EditPanel
  <2>1. TypeOK'
    BY <1>1, NoFrameType DEF EditPanel, PCs, Frame
  <2>2. Assigned'
    BY <1>1 DEF EditPanel, NoFrame, Frame
  <2> QED
    BY <2>1, <2>2
<1>2. CASE Boot
  <2>1. users' \in [Tags -> SUBSET Account] /\ limits' \in [Tags -> [User ->
      Limits \cup {None}]]
    BY <1>2 DEF Boot, ResetProcess, NoLimits
  <2>2. pc' = "node" /\ frame' \in Frame /\ frame'.starting
    BY <1>2, NoFrameType DEF Boot, Frame, NoFrame
  <2>3. TypeOK'
    BY <1>2, <2>1, <2>2, NoFrameType DEF Boot, ResetProcess, PCs
  <2>4. Assigned'
    BY <1>2, <2>1, <2>2 DEF Boot, ResetProcess, NoFrame
  <2> QED
    BY <2>3, <2>4
<1>3. CASE Poll
  <2>1. TypeOK'
    BY <1>3, NoFrameType DEF Poll, PCs, Frame, NoFrame
  <2>2. Assigned'
    BY <1>3 DEF Poll, NoFrame, Frame
  <2> QED
    BY <2>1, <2>2
<1>4. CASE FetchNode
  <2>1. frame' \in Frame /\ panel.conf \in Configs /\ panel.conf.info \in
      NodeInfo
    BY <1>4 DEF FetchNode, Frame, Config
  <2>2. TypeOK'
    BY <1>4, <2>1, NoFrameType DEF FetchNode, PCs
  <2>3. Assigned'
    BY <1>4, <2>1 DEF FetchNode, NoFrame, Frame
  <2> QED
    BY <2>2, <2>3
<1>5. CASE NodeNotModified
  <2>1. TypeOK'
    BY <1>5, NoFrameType DEF NodeNotModified, PCs, Frame
  <2>2. Assigned'
    BY <1>5 DEF NodeNotModified, NoFrame, Frame
  <2> QED
    BY <2>1, <2>2
<1>6. CASE NodeFails
  <2>1. TypeOK'
    BY <1>6, NoFrameType DEF NodeFails, PCs, Frame
  <2>2. Assigned'
    BY <1>6 DEF NodeFails, NoFrame, Frame
  <2> QED
    BY <2>1, <2>2
<1>7. CASE FetchSubs
  <2>1. frame' \in Frame /\ panel.subs \in SubLists /\ frame'.subs =
      panel.subs /\ frame'.node = frame.node /\ frame'.starting =
      frame.starting
    BY <1>7 DEF FetchSubs, Frame
  <2>2. pc' \in {"delRelayRules", "transit", "apply", "blackholeOut"} /\ (pc'
      = "delRelayRules" => Relay) /\ (pc' = "blackholeOut" => frame'.starting)
      /\ (pc' = "apply" => ~ frame'.starting)
    BY <1>7, <2>1 DEF FetchSubs, AfterFetch, AfterTeardown, Build, Updated
  <2>3. TypeOK'
    BY <1>7, <2>1, <2>2, NoFrameType DEF FetchSubs, PCs
  <2>4. Assigned'
    BY <1>7, <2>1, <2>2 DEF FetchSubs, NoFrame
  <2> QED
    BY <2>3, <2>4
<1>8. CASE SubsNotModified
  <2>1. frame' \in Frame /\ frame'.subs = subscriptionList /\ frame'.node =
      frame.node /\ frame'.starting = frame.starting /\ ~ frame.starting
    BY <1>8 DEF SubsNotModified, Frame
  <2>2. pc' \in {"delRelayRules", "transit", "apply", "blackholeOut"} /\ (pc'
      = "delRelayRules" => Relay) /\ (pc' = "blackholeOut" => frame'.starting)
      /\ (pc' = "apply" => ~ frame'.starting)
    BY <1>8, <2>1 DEF SubsNotModified, AfterFetch, AfterTeardown, Build,
        Updated
  <2>3. TypeOK'
    BY <1>8, <2>1, <2>2, NoFrameType DEF SubsNotModified, PCs
  <2>4. Assigned'
    BY <1>8, <2>1, <2>2 DEF SubsNotModified, NoFrame
  <2> QED
    BY <2>3, <2>4
<1>9. CASE SubsFails
  <2>1. TypeOK'
    BY <1>9, NoFrameType DEF SubsFails, PCs, Frame
  <2>2. Assigned'
    BY <1>9 DEF SubsFails, NoFrame, Frame
  <2> QED
    BY <2>1, <2>2
<1>10. CASE RemoveRelayRules
  <2>1. TypeOK'
    BY <1>10, NoFrameType DEF RemoveRelayRules, PCs, Frame
  <2>2. Assigned'
    BY <1>10 DEF RemoveRelayRules, NoFrame, Frame
  <2> QED
    BY <2>1, <2>2
<1>11. CASE RemoveRelayTag
  <2>1. pc' \in {"transit", "apply", "blackholeOut"} /\ (pc' = "blackholeOut"
      => frame'.starting) /\ (pc' = "apply" => ~ frame'.starting)
    BY <1>11 DEF RemoveRelayTag, AfterFetch, AfterTeardown, Build, Updated
  <2>2. TypeOK'
    BY <1>11, <2>1, NoFrameType DEF RemoveRelayTag, PCs
  <2>3. Assigned'
    BY <1>11, <2>1 DEF RemoveRelayTag, NoFrame
  <2> QED
    BY <2>2, <2>3
<1>12. CASE GetTransitNode
  <2>1. relaynodeInfo' \in Transit
    BY <1>12 DEF GetTransitNode, Config
  <2>2. PICK T \in SUBSET DOMAIN frame.subs : frame' = [frame EXCEPT !.todo = T]
    BY <1>12 DEF GetTransitNode, Keyed
  <2>3. DOMAIN frame.subs \subseteq Ids
    BY <1>12, SubListFacts DEF GetTransitNode
  <2>4. frame' \in Frame /\ frame'.todo = T /\ frame'.subs = frame.subs
      /\ frame'.node = frame.node /\ frame'.starting = frame.starting
    BY <2>2, <2>3 DEF Frame
  <2>5. TypeOK'
    BY <1>12, <2>1, <2>4, NoFrameType DEF GetTransitNode, PCs
  <2>6. Assigned'
    BY <1>12, <2>1, <2>2, <2>3, <2>4 DEF GetTransitNode, NoFrame
  <2> QED
    BY <2>5, <2>6
<1>13. CASE TransitMissing
  <2>1. TypeOK'
    BY <1>13, NoFrameType DEF TransitMissing, PCs, Frame
  <2>2. Assigned'
    BY <1>13 DEF TransitMissing, NoFrame, Frame
  <2> QED
    BY <2>1, <2>2
<1>14. CASE AddRelayOutbound
  <2>1. \A i \in Ids, rt \in RelayTags : RelayName(rt, i) \in Name
    BY DEF RelayName, Name
  <2>2. PICK i \in frame.todo : outbounds' = outbounds \cup
      {RelayName(RelayTag, i)} /\ frame' = [frame EXCEPT !.todo = @ \ {i},
      !.cur = i]
    BY <1>14 DEF AddRelayOutbound
  <2>3. frame' \in Frame /\ frame'.todo = frame.todo \ {i} /\ frame'.cur = i
      /\ frame'.subs = frame.subs /\ frame'.node = frame.node /\
      frame'.starting = frame.starting /\ i \in DOMAIN frame.subs /\ i \in Ids
    BY <1>14, <2>2 DEF AddRelayOutbound, Frame
  <2>4. RelayName(RelayTag, i) \in Name
    BY <1>14, <2>1, <2>3 DEF AddRelayOutbound, Transit
  <2>5. TypeOK'
    BY <1>14, <2>2, <2>3, <2>4, NoFrameType DEF AddRelayOutbound, PCs
  <2>6. Assigned'
    BY <1>14, <2>1, <2>2, <2>3 DEF AddRelayOutbound, NoFrame
  <2> QED
    BY <2>5, <2>6
<1>15. CASE AddRelayRule
  <2>1. frame.cur \in Ids /\ UserOf(frame.subs, frame.cur) \in User
    BY <1>15, SubListFacts DEF AddRelayRule
  <2>2. RelayRule(Tag, RelayTag, frame.cur, frame.subs[frame.cur].email) \in
      Rule
    BY <1>15, <2>1 DEF AddRelayRule, RelayRule, RelayName, Rule, Name, UserOf,
        NodeInfo, Transit
  <2>3. frame' \in Frame /\ frame'.todo = frame.todo /\ frame'.subs =
      frame.subs /\ frame'.node = frame.node /\ frame'.starting =
      frame.starting
    BY <1>15 DEF AddRelayRule, Frame
  <2>4. TypeOK'
    BY <1>15, <2>1, <2>2, <2>3, NoFrameType DEF AddRelayRule, PCs
  <2>5. Assigned'
    BY <1>15, <2>1, <2>2, <2>3 DEF AddRelayRule, NoFrame
  <2> QED
    BY <2>4, <2>5
<1>16. CASE RelayFails
  <2>1. TypeOK'
    BY <1>16, NoFrameType DEF RelayFails, PCs, Frame
  <2>2. Assigned'
    BY <1>16 DEF RelayFails, NoFrame, Frame
  <2> QED
    BY <2>1, <2>2
<1>17. CASE RelayAdded
  <2>1. pc' \in {"apply", "blackholeOut"} /\ (pc' = "blackholeOut" =>
      frame'.starting) /\ (pc' = "apply" => ~ frame'.starting)
    BY <1>17 DEF RelayAdded, AfterFetch, AfterTeardown, Build, Updated
  <2>2. TypeOK'
    BY <1>17, <2>1, NoFrameType DEF RelayAdded, PCs
  <2>3. Assigned'
    BY <1>17, <2>1 DEF RelayAdded, NoFrame
  <2> QED
    BY <2>2, <2>3
<1>18. CASE Apply
  <2>1. Tag \in Tags
    BY <1>18 DEF Apply, NodeInfo
  <2>2. TypeOK'
    BY <1>18, <2>1, NoFrameType DEF Apply, PCs, Frame
  <2>3. Assigned'
    BY <1>18, <2>1 DEF Apply, NoFrame, Frame
  <2> QED
    BY <2>2, <2>3
<1>19. CASE RemoveInbound
  <2>1. users' \in [Tags -> SUBSET Account]
    BY <1>19 DEF RemoveInbound
  <2>2. TypeOK'
    BY <1>19, <2>1, NoFrameType DEF RemoveInbound, PCs
  <2>3. Assigned'
    BY <1>19, <2>1 DEF RemoveInbound, NoFrame
  <2> QED
    BY <2>2, <2>3
<1>20. CASE RemoveOutbound
  <2>1. TypeOK'
    BY <1>20, NoFrameType DEF RemoveOutbound, PCs, Frame
  <2>2. Assigned'
    BY <1>20 DEF RemoveOutbound, NoFrame, Frame
  <2> QED
    BY <2>1, <2>2
<1>21. CASE RemoveDefaultRule
  <2>1. TypeOK'
    BY <1>21, NoFrameType DEF RemoveDefaultRule, PCs, Frame
  <2>2. Assigned'
    BY <1>21 DEF RemoveDefaultRule, NoFrame, Frame
  <2> QED
    BY <2>1, <2>2
<1>22. CASE RemoveBlackholeRule
  <2>1. TypeOK'
    BY <1>22, NoFrameType DEF RemoveBlackholeRule, PCs, Frame
  <2>2. Assigned'
    BY <1>22 DEF RemoveBlackholeRule, NoFrame, Frame
  <2> QED
    BY <2>1, <2>2
<1>23. CASE RemoveBlackholeOutbound
  <2>1. TypeOK'
    BY <1>23, NoFrameType DEF RemoveBlackholeOutbound, PCs, Frame
  <2>2. Assigned'
    BY <1>23 DEF RemoveBlackholeOutbound, NoFrame, Frame
  <2> QED
    BY <2>1, <2>2
<1>24. CASE AddBlackholeOutbound
  <2>1. Tag \in Tags
    BY <1>24 DEF AddBlackholeOutbound, NodeInfo
  <2>2. BlackholeName(Tag) \in Name
    BY <2>1 DEF BlackholeName, Name
  <2>3. TypeOK'
    BY <1>24, <2>1, <2>2, NoFrameType DEF AddBlackholeOutbound, PCs
  <2>4. Assigned'
    BY <1>24, <2>1, <2>2 DEF AddBlackholeOutbound, NoFrame
  <2> QED
    BY <2>3, <2>4
<1>25. CASE AddBlackholeRule
  <2>1. Tag \in Tags
    BY <1>25 DEF AddBlackholeRule, NodeInfo
  <2>2. BlackholeRule(Tag) \in Rule
    BY <2>1 DEF BlackholeRule, BlackholeName, Rule, Name
  <2>3. TypeOK'
    BY <1>25, <2>1, <2>2, NoFrameType DEF AddBlackholeRule, PCs
  <2>4. Assigned'
    BY <1>25, <2>1, <2>2 DEF AddBlackholeRule, NoFrame
  <2> QED
    BY <2>3, <2>4
<1>26. CASE AddInbound
  <2>1. Tag \in Tags
    BY <1>26 DEF AddInbound, NodeInfo
  <2>2. TypeOK'
    BY <1>26, <2>1, NoFrameType DEF AddInbound, PCs
  <2>3. Assigned'
    BY <1>26, <2>1 DEF AddInbound, NoFrame
  <2> QED
    BY <2>2, <2>3
<1>27. CASE AddOutbound
  <2>1. Tag \in Tags
    BY <1>27 DEF AddOutbound, NodeInfo
  <2>2. NodeName(Tag) \in Name
    BY <2>1 DEF NodeName, Name
  <2>3. TypeOK'
    BY <1>27, <2>1, <2>2, NoFrameType DEF AddOutbound, PCs
  <2>4. Assigned'
    BY <1>27, <2>1, <2>2 DEF AddOutbound, NoFrame
  <2> QED
    BY <2>3, <2>4
<1>28. CASE AddDefaultRule
  <2>1. Tag \in Tags
    BY <1>28 DEF AddDefaultRule, NodeInfo
  <2>2. DefaultRule(Tag) \in Rule
    BY <2>1 DEF DefaultRule, DefaultName, NodeName, Rule, Name
  <2>3. TypeOK'
    BY <1>28, <2>1, <2>2, NoFrameType DEF AddDefaultRule, PCs
  <2>4. Assigned'
    BY <1>28, <2>1, <2>2 DEF AddDefaultRule, NoFrame
  <2> QED
    BY <2>3, <2>4
<1>29. CASE DeleteLimiter
  <2>1. limits' \in [Tags -> [User -> Limits \cup {None}]]
    BY <1>29 DEF DeleteLimiter, NoLimits
  <2>2. TypeOK'
    BY <1>29, <2>1, NoFrameType DEF DeleteLimiter, PCs
  <2>3. Assigned'
    BY <1>29, <2>1 DEF DeleteLimiter, NoFrame
  <2> QED
    BY <2>2, <2>3
<1>30. CASE AddUsers
  <2>1. Tag \in Tags
    BY <1>30 DEF AddUsers, NodeInfo
  <2>2. Accounts(frame.subs, DOMAIN frame.subs, frame.node) \subseteq Account
    BY <1>30, AccountsType DEF AddUsers
  <2>3. users' \in [Tags -> SUBSET Account]
    BY <1>30, <2>1, <2>2 DEF AddUsers, AddAll, AddSome
  <2>4. TypeOK'
    BY <1>30, <2>1, <2>2, <2>3, NoFrameType DEF AddUsers, PCs
  <2>5. Assigned'
    BY <1>30, <2>1, <2>2, <2>3 DEF AddUsers, NoFrame
  <2> QED
    BY <2>4, <2>5
<1>31. CASE AddLimiter
  <2>1. Tag \in Tags
    BY <1>31 DEF AddLimiter, NodeInfo
  <2>2. StoreLimits(NoLimits, frame.subs, DOMAIN frame.subs) \in [User ->
      Limits \cup {None}]
    BY <1>31, StoreLimitsType DEF AddLimiter, NoLimits
  <2>3. limits' \in [Tags -> [User -> Limits \cup {None}]]
    BY <1>31, <2>1, <2>2 DEF AddLimiter
  <2>4. TypeOK'
    BY <1>31, <2>1, <2>2, <2>3, NoFrameType DEF AddLimiter, PCs
  <2>5. Assigned'
    BY <1>31, <2>1, <2>2, <2>3 DEF AddLimiter, NoFrame
  <2> QED
    BY <2>4, <2>5
<1>32. CASE RemoveUsers
  <2>1. Tag \in Tags
    BY <1>32 DEF RemoveUsers, NodeInfo
  <2>2. users' \in [Tags -> SUBSET Account]
    BY <1>32, <2>1 DEF RemoveUsers
  <2>3. TypeOK'
    BY <1>32, <2>1, <2>2, NoFrameType DEF RemoveUsers, PCs
  <2>4. Assigned'
    BY <1>32, <2>1, <2>2 DEF RemoveUsers, NoFrame
  <2> QED
    BY <2>3, <2>4
<1>33. CASE AddNewUsers
  <2>1. Tag \in Tags
    BY <1>33 DEF AddNewUsers, NodeInfo
  <2>2. Accounts(frame.subs, Added, nodeInfo) \subseteq Account
    BY <1>33, AccountsType DEF AddNewUsers, Added
  <2>3. users' \in [Tags -> SUBSET Account]
    BY <1>33, <2>1, <2>2 DEF AddNewUsers, AddAll, AddSome
  <2>4. TypeOK'
    BY <1>33, <2>1, <2>2, <2>3, NoFrameType DEF AddNewUsers, PCs
  <2>5. Assigned'
    BY <1>33, <2>1, <2>2, <2>3 DEF AddNewUsers, NoFrame
  <2> QED
    BY <2>4, <2>5
<1>34. CASE LimitNewUsers
  <2>1. Tag \in Tags
    BY <1>34 DEF LimitNewUsers, NodeInfo
  <2>2. frame.subs \in SubList /\ Added \subseteq DOMAIN frame.subs /\
      limits[Tag] \in [User -> Limits \cup {None}]
    BY <1>34, <2>1 DEF LimitNewUsers, Added
  <2>3. StoreLimits(limits[Tag], frame.subs, Added) \in [User -> Limits \cup
      {None}]
    BY <2>2, StoreLimitsType
  <2>4. limits' \in [Tags -> [User -> Limits \cup {None}]]
    BY <1>34, <2>1, <2>3 DEF LimitNewUsers, UpdateLimits
  <2>5. TypeOK'
    BY <1>34, <2>1, <2>2, <2>3, <2>4, NoFrameType DEF LimitNewUsers, PCs
  <2>6. Assigned'
    BY <1>34, <2>1, <2>2, <2>3, <2>4 DEF LimitNewUsers, NoFrame
  <2> QED
    BY <2>5, <2>6
<1>35. CASE LimitModifiedUsers
  <2>1. Tag \in Tags
    BY <1>35 DEF LimitModifiedUsers, NodeInfo
  <2>2. frame.subs \in SubList /\ Modified \subseteq DOMAIN frame.subs /\
      limits[Tag] \in [User -> Limits \cup {None}]
    BY <1>35, <2>1 DEF LimitModifiedUsers, Modified
  <2>3. StoreLimits(limits[Tag], frame.subs, Modified) \in [User -> Limits
      \cup {None}]
    BY <2>2, StoreLimitsType
  <2>4. limits' \in [Tags -> [User -> Limits \cup {None}]]
    BY <1>35, <2>1, <2>3 DEF LimitModifiedUsers, UpdateLimits
  <2>5. TypeOK'
    BY <1>35, <2>1, <2>2, <2>3, <2>4, NoFrameType DEF LimitModifiedUsers, PCs
  <2>6. Assigned'
    BY <1>35, <2>1, <2>2, <2>3, <2>4 DEF LimitModifiedUsers, NoFrame
  <2> QED
    BY <2>5, <2>6
<1>36. CASE Finish
  <2>1. TypeOK'
    BY <1>36, NoFrameType DEF Finish, PCs, Frame
  <2>2. Assigned'
    BY <1>36 DEF Finish, NoFrame, Frame
  <2> QED
    BY <2>1, <2>2
<1>37. CASE UNCHANGED vars
  BY <1>37 DEF vars
<1> QED
  BY <1>1, <1>2, <1>3, <1>4, <1>5, <1>6, <1>7, <1>8, <1>9, <1>10, <1>11,
      <1>12, <1>13, <1>14, <1>15, <1>16, <1>17, <1>18, <1>19, <1>20, <1>21,
      <1>22, <1>23, <1>24, <1>25, <1>26, <1>27, <1>28, <1>29, <1>30, <1>31,
      <1>32, <1>33, <1>34, <1>35, <1>36, <1>37 DEF Next, Fetched, Step

-----------------------------------------------------------------------------
(* The safety invariants.  They hold together, with what the handler has      *)
(* removed and added so far: the names of the node it takes down are gone,    *)
(* one after the other, before those of the next one appear.                  *)

\* Start, before it has built anything of its node.
Early ==
  /\ frame.starting
  /\ pc \in {"node", "subs", "delRelayRules", "delRelayOuts", "transit",
             "relayOut", "relayRule"}

\* From the removal of the old inbound to the adding of the new one.
Closed ==
  \/ Early
  \/ pc \in {"delOut", "delDefault", "delBlackholeRule", "delBlackholeOut",
             "blackholeOut", "blackholeRule", "in"}

ClosedInv == Closed => inbounds = {}

\* The node's outbounds are those of the tag the controller knows.
OutboundInv ==
  /\ \A t \in Tags : BlackholeName(t) \in outbounds =>
       t = Tag /\ ~ Early /\ pc # "blackholeOut"
  /\ \A t \in Tags : NodeName(t) \in outbounds =>
       /\ t = Tag /\ ~ Early
       /\ pc \notin {"delDefault", "delBlackholeRule", "delBlackholeOut",
                     "blackholeOut", "blackholeRule", "in", "out"}

\* A rule is a relay rule, or the blocking or default rule of that tag.
RuleInv ==
  \A r \in rules :
    \/ r.ruleTag.kind = "relay" /\ r.out = r.ruleTag
    \/ /\ r = BlackholeRule(Tag) /\ ~ Early
       /\ pc \notin {"delBlackholeOut", "blackholeOut", "blackholeRule"}
    \/ /\ r = DefaultRule(Tag) /\ ~ Early
       /\ pc \notin {"delBlackholeRule", "delBlackholeOut", "blackholeOut",
                     "blackholeRule", "in", "out", "default"}

\* The outbound of a rule is there, except that of the default rule of a
\* node whose inbound and outbound have just been removed.
TargetInv ==
  /\ \A r \in rules : r.out \in outbounds \/ (pc = "delDefault" /\ r = DefaultRule(Tag))
  /\ pc = "relayRule" => RelayName(RelayTag, frame.cur) \in outbounds
  /\ pc = "blackholeRule" => BlackholeName(Tag) \in outbounds
  /\ pc = "default" => NodeName(Tag) \in outbounds
  /\ pc = "delRelayOuts" =>
       \A r \in rules, i \in DOMAIN subscriptionList : r.ruleTag # RelayName(RelayTag, i)

BlockInv ==
  /\ BlockedWhileOpen
  /\ pc = "in" /\ nodeInfo.rules => BlackholeRule(Tag) \in rules

SafeInv == SingleInbound /\ ClosedInv /\ OutboundInv /\ RuleInv /\ TargetInv /\ BlockInv

LEMMA SafeInit == Init => SafeInv
BY DEF Init, SafeInv, SingleInbound, ClosedInv, OutboundInv, RuleInv, TargetInv,
       BlockInv, BlockedWhileOpen, NoFrame

\* Every action preserves it.
LEMMA SafeStep == TypeInv /\ SafeInv /\ [Next]_vars => SafeInv'
<1> SUFFICES ASSUME TypeInv, SafeInv, [Next]_vars PROVE SafeInv'
  OBVIOUS
<1> USE ControllerAssumption DEF TypeInv, SafeInv, Tag, RelayTag, Goto, Abort,
      Panic, panelVars, clientVars, ctlVars, coreVars, limVars, NoFrame, TypeOK,
      Assigned, SingleInbound, ClosedInv, OutboundInv, RuleInv, TargetInv,
      BlockInv, BlockedWhileOpen, Early, Closed
<1>1. CASE EditPanel
  BY <1>1 DEF EditPanel
<1>2. CASE Boot
  BY <1>2 DEF Boot, ResetProcess
<1>3. CASE Poll
  BY <1>3 DEF Poll
<1>4. CASE FetchNode
  BY <1>4 DEF FetchNode
<1>5. CASE NodeNotModified
  BY <1>5 DEF NodeNotModified
<1>6. CASE NodeFails
  BY <1>6 DEF NodeFails
<1>7. CASE FetchSubs
  BY <1>7 DEF FetchSubs, AfterFetch, AfterTeardown, Build, Updated
<1>8. CASE SubsNotModified
  BY <1>8 DEF SubsNotModified, AfterFetch, AfterTeardown, Build, Updated
<1>9. CASE SubsFails
  BY <1>9 DEF SubsFails
<1>10. CASE RemoveRelayRules
  <2>1. SingleInbound'
    BY <1>10 DEF RemoveRelayRules
  <2>2. ClosedInv'
    BY <1>10 DEF RemoveRelayRules
  <2>3. OutboundInv'
    BY <1>10 DEF RemoveRelayRules, BlackholeName, NodeName, DefaultName,
        RelayName, BlackholeRule, DefaultRule, RelayRule
  <2>4. RuleInv'
    BY <1>10 DEF RemoveRelayRules, BlackholeName, NodeName, DefaultName,
        RelayName, BlackholeRule, DefaultRule, RelayRule
  <2>5. TargetInv'
    BY <1>10 DEF RemoveRelayRules, BlackholeName, NodeName, DefaultName,
        RelayName, BlackholeRule, DefaultRule, RelayRule
  <2>6. BlockInv'
    BY <1>10 DEF RemoveRelayRules, BlackholeName, NodeName, DefaultName,
        RelayName, BlackholeRule, DefaultRule, RelayRule
  <2> QED
    BY <2>1, <2>2, <2>3, <2>4, <2>5, <2>6
<1>11. CASE RemoveRelayTag
  <2>1. SingleInbound'
    BY <1>11 DEF RemoveRelayTag, AfterFetch, AfterTeardown, Build, Updated
  <2>2. ClosedInv'
    BY <1>11 DEF RemoveRelayTag, AfterFetch, AfterTeardown, Build, Updated
  <2>3. OutboundInv'
    BY <1>11 DEF RemoveRelayTag, AfterFetch, AfterTeardown, Build, Updated,
        BlackholeName, NodeName, DefaultName, RelayName, BlackholeRule,
        DefaultRule, RelayRule
  <2>4. RuleInv'
    BY <1>11 DEF RemoveRelayTag, AfterFetch, AfterTeardown, Build, Updated,
        BlackholeName, NodeName, DefaultName, RelayName, BlackholeRule,
        DefaultRule, RelayRule
  <2>5. TargetInv'
    BY <1>11 DEF RemoveRelayTag, AfterFetch, AfterTeardown, Build, Updated,
        BlackholeName, NodeName, DefaultName, RelayName, BlackholeRule,
        DefaultRule, RelayRule
  <2>6. BlockInv'
    BY <1>11 DEF RemoveRelayTag, AfterFetch, AfterTeardown, Build, Updated,
        BlackholeName, NodeName, DefaultName, RelayName, BlackholeRule,
        DefaultRule, RelayRule
  <2> QED
    BY <2>1, <2>2, <2>3, <2>4, <2>5, <2>6
<1>12. CASE GetTransitNode
  BY <1>12 DEF GetTransitNode
<1>13. CASE TransitMissing
  BY <1>13 DEF TransitMissing
<1>14. CASE AddRelayOutbound
  <2>1. SingleInbound'
    BY <1>14 DEF AddRelayOutbound
  <2>2. ClosedInv'
    BY <1>14 DEF AddRelayOutbound
  <2>3. OutboundInv'
    BY <1>14 DEF AddRelayOutbound, BlackholeName, NodeName, DefaultName,
        RelayName, BlackholeRule, DefaultRule, RelayRule
  <2>4. RuleInv'
    BY <1>14 DEF AddRelayOutbound, BlackholeName, NodeName, DefaultName,
        RelayName, BlackholeRule, DefaultRule, RelayRule
  <2>5. TargetInv'
    BY <1>14 DEF AddRelayOutbound, BlackholeName, NodeName, DefaultName,
        RelayName, BlackholeRule, DefaultRule, RelayRule
  <2>6. BlockInv'
    BY <1>14 DEF AddRelayOutbound, BlackholeName, NodeName, DefaultName,
        RelayName, BlackholeRule, DefaultRule, RelayRule
  <2> QED
    BY <2>1, <2>2, <2>3, <2>4, <2>5, <2>6
<1>15. CASE AddRelayRule
  <2>1. SingleInbound'
    BY <1>15 DEF AddRelayRule
  <2>2. ClosedInv'
    BY <1>15 DEF AddRelayRule
  <2>3. OutboundInv'
    BY <1>15 DEF AddRelayRule, BlackholeName, NodeName, DefaultName,
        RelayName, BlackholeRule, DefaultRule, RelayRule
  <2>4. RuleInv'
    BY <1>15 DEF AddRelayRule, BlackholeName, NodeName, DefaultName,
        RelayName, BlackholeRule, DefaultRule, RelayRule
  <2>5. TargetInv'
    BY <1>15 DEF AddRelayRule, BlackholeName, NodeName, DefaultName,
        RelayName, BlackholeRule, DefaultRule, RelayRule
  <2>6. BlockInv'
    BY <1>15 DEF AddRelayRule, BlackholeName, NodeName, DefaultName,
        RelayName, BlackholeRule, DefaultRule, RelayRule
  <2> QED
    BY <2>1, <2>2, <2>3, <2>4, <2>5, <2>6
<1>16. CASE RelayFails
  BY <1>16 DEF RelayFails
<1>17. CASE RelayAdded
  BY <1>17 DEF RelayAdded, AfterFetch, AfterTeardown, Build, Updated
<1>18. CASE Apply
  BY <1>18 DEF Apply
<1>19. CASE RemoveInbound
  <2>1. SingleInbound'
    BY <1>19 DEF RemoveInbound
  <2>2. ClosedInv'
    BY <1>19 DEF RemoveInbound
  <2>3. OutboundInv'
    BY <1>19 DEF RemoveInbound, BlackholeName, NodeName, DefaultName,
        RelayName, BlackholeRule, DefaultRule, RelayRule
  <2>4. RuleInv'
    BY <1>19 DEF RemoveInbound, BlackholeName, NodeName, DefaultName,
        RelayName, BlackholeRule, DefaultRule, RelayRule
  <2>5. TargetInv'
    BY <1>19 DEF RemoveInbound, BlackholeName, NodeName, DefaultName,
        RelayName, BlackholeRule, DefaultRule, RelayRule
  <2>6. BlockInv'
    BY <1>19 DEF RemoveInbound, BlackholeName, NodeName, DefaultName,
        RelayName, BlackholeRule, DefaultRule, RelayRule
  <2> QED
    BY <2>1, <2>2, <2>3, <2>4, <2>5, <2>6
<1>20. CASE RemoveOutbound
  <2>1. SingleInbound'
    BY <1>20 DEF RemoveOutbound
  <2>2. ClosedInv'
    BY <1>20 DEF RemoveOutbound
  <2>3. OutboundInv'
    BY <1>20 DEF RemoveOutbound, BlackholeName, NodeName, DefaultName,
        RelayName, BlackholeRule, DefaultRule, RelayRule
  <2>4. RuleInv'
    BY <1>20 DEF RemoveOutbound, BlackholeName, NodeName, DefaultName,
        RelayName, BlackholeRule, DefaultRule, RelayRule
  <2>5. TargetInv'
    BY <1>20 DEF RemoveOutbound, BlackholeName, NodeName, DefaultName,
        RelayName, BlackholeRule, DefaultRule, RelayRule
  <2>6. BlockInv'
    BY <1>20 DEF RemoveOutbound, BlackholeName, NodeName, DefaultName,
        RelayName, BlackholeRule, DefaultRule, RelayRule
  <2> QED
    BY <2>1, <2>2, <2>3, <2>4, <2>5, <2>6
<1>21. CASE RemoveDefaultRule
  <2>1. SingleInbound'
    BY <1>21 DEF RemoveDefaultRule
  <2>2. ClosedInv'
    BY <1>21 DEF RemoveDefaultRule
  <2>3. OutboundInv'
    BY <1>21 DEF RemoveDefaultRule, BlackholeName, NodeName, DefaultName,
        RelayName, BlackholeRule, DefaultRule, RelayRule
  <2>4. RuleInv'
    BY <1>21 DEF RemoveDefaultRule, BlackholeName, NodeName, DefaultName,
        RelayName, BlackholeRule, DefaultRule, RelayRule
  <2>5. TargetInv'
    BY <1>21 DEF RemoveDefaultRule, BlackholeName, NodeName, DefaultName,
        RelayName, BlackholeRule, DefaultRule, RelayRule
  <2>6. BlockInv'
    BY <1>21 DEF RemoveDefaultRule, BlackholeName, NodeName, DefaultName,
        RelayName, BlackholeRule, DefaultRule, RelayRule
  <2> QED
    BY <2>1, <2>2, <2>3, <2>4, <2>5, <2>6
<1>22. CASE RemoveBlackholeRule
  <2>1. SingleInbound'
    BY <1>22 DEF RemoveBlackholeRule
  <2>2. ClosedInv'
    BY <1>22 DEF RemoveBlackholeRule
  <2>3. OutboundInv'
    BY <1>22 DEF RemoveBlackholeRule, BlackholeName, NodeName, DefaultName,
        RelayName, BlackholeRule, DefaultRule, RelayRule
  <2>4. RuleInv'
    BY <1>22 DEF RemoveBlackholeRule, BlackholeName, NodeName, DefaultName,
        RelayName, BlackholeRule, DefaultRule, RelayRule
  <2>5. TargetInv'
    BY <1>22 DEF RemoveBlackholeRule, BlackholeName, NodeName, DefaultName,
        RelayName, BlackholeRule, DefaultRule, RelayRule
  <2>6. BlockInv'
    BY <1>22 DEF RemoveBlackholeRule, BlackholeName, NodeName, DefaultName,
        RelayName, BlackholeRule, DefaultRule, RelayRule
  <2> QED
    BY <2>1, <2>2, <2>3, <2>4, <2>5, <2>6
<1>23. CASE RemoveBlackholeOutbound
  <2>1. SingleInbound'
    BY <1>23 DEF RemoveBlackholeOutbound
  <2>2. ClosedInv'
    BY <1>23 DEF RemoveBlackholeOutbound
  <2>3. OutboundInv'
    BY <1>23 DEF RemoveBlackholeOutbound, BlackholeName, NodeName,
        DefaultName, RelayName, BlackholeRule, DefaultRule, RelayRule
  <2>4. RuleInv'
    BY <1>23 DEF RemoveBlackholeOutbound, BlackholeName, NodeName,
        DefaultName, RelayName, BlackholeRule, DefaultRule, RelayRule
  <2>5. TargetInv'
    BY <1>23 DEF RemoveBlackholeOutbound, BlackholeName, NodeName,
        DefaultName, RelayName, BlackholeRule, DefaultRule, RelayRule
  <2>6. BlockInv'
    BY <1>23 DEF RemoveBlackholeOutbound, BlackholeName, NodeName,
        DefaultName, RelayName, BlackholeRule, DefaultRule, RelayRule
  <2> QED
    BY <2>1, <2>2, <2>3, <2>4, <2>5, <2>6
<1>24. CASE AddBlackholeOutbound
  <2>1. SingleInbound'
    BY <1>24 DEF AddBlackholeOutbound
  <2>2. ClosedInv'
    BY <1>24 DEF AddBlackholeOutbound
  <2>3. OutboundInv'
    BY <1>24 DEF AddBlackholeOutbound, BlackholeName, NodeName, DefaultName,
        RelayName, BlackholeRule, DefaultRule, RelayRule
  <2>4. RuleInv'
    BY <1>24 DEF AddBlackholeOutbound, BlackholeName, NodeName, DefaultName,
        RelayName, BlackholeRule, DefaultRule, RelayRule
  <2>5. TargetInv'
    BY <1>24 DEF AddBlackholeOutbound, BlackholeName, NodeName, DefaultName,
        RelayName, BlackholeRule, DefaultRule, RelayRule
  <2>6. BlockInv'
    BY <1>24 DEF AddBlackholeOutbound, BlackholeName, NodeName, DefaultName,
        RelayName, BlackholeRule, DefaultRule, RelayRule
  <2> QED
    BY <2>1, <2>2, <2>3, <2>4, <2>5, <2>6
<1>25. CASE AddBlackholeRule
  <2>1. SingleInbound'
    BY <1>25 DEF AddBlackholeRule
  <2>2. ClosedInv'
    BY <1>25 DEF AddBlackholeRule
  <2>3. OutboundInv'
    BY <1>25 DEF AddBlackholeRule, BlackholeName, NodeName, DefaultName,
        RelayName, BlackholeRule, DefaultRule, RelayRule
  <2>4. RuleInv'
    BY <1>25 DEF AddBlackholeRule, BlackholeName, NodeName, DefaultName,
        RelayName, BlackholeRule, DefaultRule, RelayRule
  <2>5. TargetInv'
    BY <1>25 DEF AddBlackholeRule, BlackholeName, NodeName, DefaultName,
        RelayName, BlackholeRule, DefaultRule, RelayRule
  <2>6. BlockInv'
    BY <1>25 DEF AddBlackholeRule, BlackholeName, NodeName, DefaultName,
        RelayName, BlackholeRule, DefaultRule, RelayRule
  <2> QED
    BY <2>1, <2>2, <2>3, <2>4, <2>5, <2>6
<1>26. CASE AddInbound
  <2>1. SingleInbound'
    BY <1>26 DEF AddInbound
  <2>2. ClosedInv'
    BY <1>26 DEF AddInbound
  <2>3. OutboundInv'
    BY <1>26 DEF AddInbound, BlackholeName, NodeName, DefaultName, RelayName,
        BlackholeRule, DefaultRule, RelayRule
  <2>4. RuleInv'
    BY <1>26 DEF AddInbound, BlackholeName, NodeName, DefaultName, RelayName,
        BlackholeRule, DefaultRule, RelayRule
  <2>5. TargetInv'
    BY <1>26 DEF AddInbound, BlackholeName, NodeName, DefaultName, RelayName,
        BlackholeRule, DefaultRule, RelayRule
  <2>6. BlockInv'
    BY <1>26 DEF AddInbound, BlackholeName, NodeName, DefaultName, RelayName,
        BlackholeRule, DefaultRule, RelayRule
  <2> QED
    BY <2>1, <2>2, <2>3, <2>4, <2>5, <2>6
<1>27. CASE AddOutbound
  <2>1. SingleInbound'
    BY <1>27 DEF AddOutbound
  <2>2. ClosedInv'
    BY <1>27 DEF AddOutbound
  <2>3. OutboundInv'
    BY <1>27 DEF AddOutbound, BlackholeName, NodeName, DefaultName, RelayName,
        BlackholeRule, DefaultRule, RelayRule
  <2>4. RuleInv'
    BY <1>27 DEF AddOutbound, BlackholeName, NodeName, DefaultName, RelayName,
        BlackholeRule, DefaultRule, RelayRule
  <2>5. TargetInv'
    BY <1>27 DEF AddOutbound, BlackholeName, NodeName, DefaultName, RelayName,
        BlackholeRule, DefaultRule, RelayRule
  <2>6. BlockInv'
    BY <1>27 DEF AddOutbound, BlackholeName, NodeName, DefaultName, RelayName,
        BlackholeRule, DefaultRule, RelayRule
  <2> QED
    BY <2>1, <2>2, <2>3, <2>4, <2>5, <2>6
<1>28. CASE AddDefaultRule
  <2>1. SingleInbound'
    BY <1>28 DEF AddDefaultRule
  <2>2. ClosedInv'
    BY <1>28 DEF AddDefaultRule
  <2>3. OutboundInv'
    BY <1>28 DEF AddDefaultRule, BlackholeName, NodeName, DefaultName,
        RelayName, BlackholeRule, DefaultRule, RelayRule
  <2>4. RuleInv'
    BY <1>28 DEF AddDefaultRule, BlackholeName, NodeName, DefaultName,
        RelayName, BlackholeRule, DefaultRule, RelayRule
  <2>5. TargetInv'
    BY <1>28 DEF AddDefaultRule, BlackholeName, NodeName, DefaultName,
        RelayName, BlackholeRule, DefaultRule, RelayRule
  <2>6. BlockInv'
    BY <1>28 DEF AddDefaultRule, BlackholeName, NodeName, DefaultName,
        RelayName, BlackholeRule, DefaultRule, RelayRule
  <2> QED
    BY <2>1, <2>2, <2>3, <2>4, <2>5, <2>6
<1>29. CASE DeleteLimiter
  BY <1>29 DEF DeleteLimiter
<1>30. CASE AddUsers
  BY <1>30 DEF AddUsers
<1>31. CASE AddLimiter
  BY <1>31 DEF AddLimiter
<1>32. CASE RemoveUsers
  BY <1>32 DEF RemoveUsers
<1>33. CASE AddNewUsers
  BY <1>33 DEF AddNewUsers
<1>34. CASE LimitNewUsers
  BY <1>34 DEF LimitNewUsers
<1>35. CASE LimitModifiedUsers
  BY <1>35 DEF LimitModifiedUsers
<1>36. CASE Finish
  BY <1>36 DEF Finish
<1>37. CASE UNCHANGED vars
  BY <1>37 DEF vars
<1> QED
  BY <1>1, <1>2, <1>3, <1>4, <1>5, <1>6, <1>7, <1>8, <1>9, <1>10, <1>11,
      <1>12, <1>13, <1>14, <1>15, <1>16, <1>17, <1>18, <1>19, <1>20, <1>21,
      <1>22, <1>23, <1>24, <1>25, <1>26, <1>27, <1>28, <1>29, <1>30, <1>31,
      <1>32, <1>33, <1>34, <1>35, <1>36, <1>37 DEF Next, Fetched, Step

-----------------------------------------------------------------------------
(* The theorems. *)

LEMMA Inductive == Spec => [](TypeInv /\ SafeInv)
<1>1. Init => TypeInv /\ SafeInv
  BY TypeInit, SafeInit
<1>2. TypeInv /\ SafeInv /\ [Next]_vars => (TypeInv /\ SafeInv)'
  BY TypeStep, SafeStep
<1> QED
  BY <1>1, <1>2, PTL DEF Spec

\* Every variable has its type in every reachable state.
THEOREM TypeCorrect == Spec => []TypeOK
<1>1. TypeInv => TypeOK
  BY DEF TypeInv
<1> QED
  BY <1>1, Inductive, PTL

\* At most one inbound is open, that of the tag the controller knows, whatever
\* calls fail while a node is replaced.
THEOREM OneInbound == Spec => []SingleInbound
<1>1. SafeInv => SingleInbound
  BY DEF SafeInv
<1> QED
  BY <1>1, Inductive, PTL

\* Blocking rules are in force as long as the inbound they protect is open.
THEOREM BlockingHolds == Spec => []BlockedWhileOpen
<1>1. SafeInv => BlockedWhileOpen
  BY DEF SafeInv, BlockInv
<1> QED
  BY <1>1, Inductive, PTL

\* No rule of an open inbound points at a missing outbound, at any step.
THEOREM RulesHaveTargets == Spec => []NoDanglingRule
<1>1. TypeInv /\ SafeInv => NoDanglingRule
  BY DEF TypeInv, TypeOK, SafeInv, ClosedInv, Closed, TargetInv, NoDanglingRule
<1> QED
  BY <1>1, Inductive, PTL

\* What is left of a node never gets in the way of the next one.
THEOREM BuildsOnCleanGround == Spec => []CleanBeforeBuild
<1>1. TypeInv /\ SafeInv => CleanBeforeBuild
  <2> SUFFICES ASSUME TypeInv, SafeInv PROVE CleanBeforeBuild
    OBVIOUS
  <2>1. pc \in {"blackholeOut", "out"} => Tag \in Tags
    BY DEF TypeInv, TypeOK, Assigned, Dead, NoNodeYet, NodeInfo, Tag
  <2>2. \A r \in rules : r.ruleTag = BlackholeName(Tag) => r = BlackholeRule(Tag)
    BY DEF SafeInv, RuleInv, BlackholeName, BlackholeRule, DefaultName, DefaultRule
  <2>3. \A r \in rules : r.ruleTag = DefaultName(Tag) => r = DefaultRule(Tag)
    BY DEF SafeInv, RuleInv, BlackholeName, BlackholeRule, DefaultName, DefaultRule
  <2>4. BlackholeRule(Tag) # DefaultRule(Tag)
    BY DEF BlackholeName, BlackholeRule, DefaultName, DefaultRule
  <2>5. BlackholeName(Tag).kind # "relay" /\ DefaultName(Tag).kind # "relay"
    BY DEF BlackholeName, DefaultName
  <2> QED
    BY <2>1, <2>2, <2>3, <2>4, <2>5
       DEF SafeInv, ClosedInv, Closed, OutboundInv, RuleInv, CleanBeforeBuild,
           BlackholeRule, DefaultRule
<1> QED
  BY <1>1, Inductive, PTL
-----------------------------------------------------------------------------
(* Accounts that stay on the list. *)

\* What KeptUsersStay says of one step.
Kept ==
  \A t \in inbounds \cap inbounds' : \A a \in users[t] \ users'[t] :
    a.id \notin DOMAIN frame.subs

\* The accounts that leave an inbound are those of deleted subscriptions.
LEMMA KeptStep == ASSUME TypeInv, [Next]_vars PROVE Kept
<1> USE DEF TypeInv, TypeOK, panelVars, clientVars, ctlVars, coreVars, limVars
<1>1. CASE UNCHANGED users
  BY <1>1 DEF Kept
<1>2. CASE Boot
  BY <1>2 DEF Boot, ResetProcess, Kept
<1>3. CASE RemoveInbound
  <2>1. CASE Tag \in inbounds
    BY <1>3, <2>1 DEF RemoveInbound, Abort, Kept
  <2>2. CASE Tag \notin inbounds
    BY <1>1, <1>3, <2>2 DEF RemoveInbound
  <2> QED BY <2>1, <2>2
<1>4. CASE AddUsers \/ AddNewUsers
  <2>1. \E new : users' = users \/ users' = [users EXCEPT ![Tag] = @ \cup new]
    BY <1>4 DEF AddUsers, AddNewUsers, AddAll, AddSome
  <2>2. \A t \in inbounds : users[t] \subseteq users'[t]
    BY <2>1
  <2> QED BY <2>2 DEF Kept
<1>5. CASE RemoveUsers
  <2>1. PICK done \in SUBSET Gone :
          users' = [users EXCEPT ![Tag] = @ \ UNION {Matches(u) : u \in done}]
    BY <1>5 DEF RemoveUsers
  <2>2. SUFFICES ASSUME NEW t \in inbounds, NEW a \in users[t] \ users'[t]
                 PROVE  a.id \notin DOMAIN frame.subs
    BY DEF Kept
  <2>3. PICK u \in done : a \in Matches(u)
    BY <2>1, <2>2
  <2>4. PICK i \in Deleted : u = UserOf(subscriptionList, i)
    BY <2>3 DEF Gone
  <2>5. a.id = i
    BY <2>3, <2>4 DEF Matches, UserOf
  <2> QED BY <2>4, <2>5 DEF Deleted
<1>6. CASE UNCHANGED vars \/ EditPanel \/ Poll \/ Fetched \/ NodeFails
  BY <1>1, <1>6 DEF vars, EditPanel, Poll, Fetched, FetchNode, NodeNotModified, NodeFails
<1>7. CASE FetchSubs \/ SubsNotModified \/ SubsFails \/ RemoveRelayRules \/ RemoveRelayTag
           \/ GetTransitNode \/ TransitMissing \/ AddRelayOutbound \/ AddRelayRule
           \/ RelayFails \/ RelayAdded \/ Apply
  BY <1>1, <1>7 DEF FetchSubs, SubsNotModified, SubsFails, RemoveRelayRules, RemoveRelayTag,
     GetTransitNode, TransitMissing, AddRelayOutbound, AddRelayRule, RelayFails, RelayAdded,
     Apply
<1>8. CASE RemoveOutbound \/ RemoveDefaultRule \/ RemoveBlackholeRule
           \/ RemoveBlackholeOutbound \/ AddBlackholeOutbound \/ AddBlackholeRule
           \/ AddInbound \/ AddOutbound \/ AddDefaultRule \/ DeleteLimiter \/ AddLimiter
           \/ LimitNewUsers \/ LimitModifiedUsers \/ Finish
  BY <1>1, <1>8 DEF RemoveOutbound, RemoveDefaultRule, RemoveBlackholeRule,
     RemoveBlackholeOutbound, AddBlackholeOutbound, AddBlackholeRule, AddInbound,
     AddOutbound, AddDefaultRule, DeleteLimiter, AddLimiter, LimitNewUsers,
     LimitModifiedUsers, Finish
<1> QED BY <1>2, <1>3, <1>4, <1>5, <1>6, <1>7, <1>8 DEF Next, Step

\* Whatever a poll changes and whatever fails in it, a user who stays on the list
\* keeps the account in an inbound that stays (Compare, removeInboundSubscriptions),
\* for every list.
THEOREM ListedUsersStay == Spec => KeptUsersStay
<1>1. TypeInv /\ [Next]_vars => [Kept]_vars
  BY KeptStep
<1>2. [][Kept]_vars => KeptUsersStay
  BY DEF Kept, KeptUsersStay
<1> QED BY <1>1, <1>2, Inductive, PTL DEF Spec
-----------------------------------------------------------------------------
(* What a controller serves between two polls.  The invariant follows the      *)
(* lists and the node through a poll: at each pc, which of the old and the new *)
(* ones the accounts, limits, handlers, rules and relays are made of.          *)

\* The node and the lists are the panel's, and differ where the poll says so.
Infos == {c.info : c \in Configs}

PanelInv ==
  /\ ~ Dead /\ ~ NoNodeYet => nodeInfo \in Infos
  /\ ~ Dead /\ ~ NoSubsYet => subscriptionList \in SubLists
  /\ pc \notin {"down", "panicked", "idle", "node"} =>
       /\ frame.node \in Infos
       /\ frame.starting \/ ~ frame.nodeChanged => frame.node = nodeInfo
  /\ pc \in {"node", "subs"} => ~ frame.subsChanged
  /\ pc \notin {"down", "panicked", "idle", "node", "subs"} =>
       /\ frame.subs \in SubLists
       /\ frame.starting \/ ~ frame.subsChanged => frame.subs = subscriptionList
  /\ pc \in {"blackholeOut", "blackholeRule", "in", "out", "default", "delLimiter",
             "addUsers", "addLimiter", "delUsers", "newUsers", "newLimits", "modLimits",
             "finish"} => frame.node = nodeInfo
  /\ pc \in {"delUsers", "newUsers", "newLimits", "modLimits"} => ~ frame.starting

\* Handlers and rules of the node: there from the step that adds them to the one
\* that removes them.
HandlerInv ==
  ~ Dead =>
    /\ inbounds = IF Closed THEN {} ELSE {Tag}
    /\ \A o \in outbounds :
         o.kind # "relay" => ~ Early /\ o \in {NodeName(Tag), BlackholeName(Tag)}
    /\ ~ Early /\ pc # "blackholeOut" => BlackholeName(Tag) \in outbounds
    /\ ~ Early /\ pc \notin {"delDefault", "delBlackholeRule", "delBlackholeOut",
                             "blackholeOut", "blackholeRule", "in", "out"}
         => NodeName(Tag) \in outbounds
    /\ ~ Early /\ pc \notin {"delBlackholeOut", "blackholeOut", "blackholeRule"}
         => (nodeInfo.rules <=> BlackholeRule(Tag) \in rules)
    /\ ~ Early /\ pc \notin {"delBlackholeRule", "delBlackholeOut", "blackholeOut",
                             "blackholeRule", "in", "out", "default"}
         => (nodeInfo.relay = "off" <=> DefaultRule(Tag) \in rules)

\* Relays: those of the old list until they are torn down, then those of the new one.
RelayOuts  == {o \in outbounds : o.kind = "relay"}
RelayRules == {r.ruleTag : r \in {q \in rules : q.ruleTag.kind = "relay"}}
Relays(t, s, ids) == {RelayName(t.tag, i) : i \in Keyed(s, ids, t.ss2022)}

OldRelays == {"idle", "node", "subs", "delRelayRules", "delRelayOuts"}
RelayList == IF pc \in OldRelays THEN subscriptionList ELSE frame.subs

RelayInv ==
  ~ Dead =>
    /\ pc \in {"delRelayRules", "delRelayOuts"} => Relay /\ Updated(frame)
    /\ pc \in {"transit", "relayOut", "relayRule"} => ~ Relay /\ frame.node.relay = "on"
    /\ pc \in {"idle", "node", "subs"} =>
         (Relay <=> ~ frame.starting /\ nodeInfo.relay = "on")
    /\ pc \notin OldRelays \cup {"transit", "relayOut", "relayRule"} =>
         (Relay <=> frame.node.relay = "on")
    /\ pc \notin {"relayOut", "relayRule"} =>
         RelayOuts = IF Relay THEN Relays(relaynodeInfo, RelayList, DOMAIN RelayList) ELSE {}
    /\ pc \notin {"relayOut", "relayRule", "delRelayOuts"} =>
         RelayRules = IF Relay THEN Relays(relaynodeInfo, RelayList, DOMAIN RelayList) ELSE {}
    /\ pc = "delRelayOuts" => RelayRules = {}
    /\ pc \in {"relayOut", "relayRule"} =>
         /\ frame.todo \subseteq Keyed(frame.subs, DOMAIN frame.subs, relaynodeInfo.ss2022)
         /\ RelayOuts = Relays(relaynodeInfo, frame.subs, DOMAIN frame.subs \ frame.todo)
    /\ pc = "relayOut" =>
         RelayRules = Relays(relaynodeInfo, frame.subs, DOMAIN frame.subs \ frame.todo)
    /\ pc = "relayRule" =>
         /\ frame.cur \in Keyed(frame.subs, DOMAIN frame.subs \ frame.todo,
                              relaynodeInfo.ss2022)
         /\ RelayRules = Relays(relaynodeInfo, frame.subs,
                                (DOMAIN frame.subs \ frame.todo) \ {frame.cur})

\* Accounts: there are none without an inbound, nor in one that is being built; else they
\* are those of the old list, then, less the deleted, those of the new one.
FreshInv ==
  /\ \A t \in Tags \ inbounds : users[t] = {}
  /\ pc \in {"out", "default", "delLimiter", "addUsers"} => users[Tag] = {}

Staying == DOMAIN subscriptionList \cap DOMAIN frame.subs

OldUsers == {"idle", "node", "subs", "delRelayRules", "delRelayOuts", "transit", "relayOut",
             "relayRule", "apply", "delIn", "delUsers"}

UserInv ==
  /\ pc \in OldUsers /\ ~ frame.starting =>
       users[Tag] = Accounts(subscriptionList, DOMAIN subscriptionList, nodeInfo)
  /\ pc = "newUsers" => users[Tag] = Accounts(frame.subs, Staying, nodeInfo)
  /\ pc \in {"addLimiter", "newLimits", "modLimits", "finish"} =>
       users[Tag] = Accounts(frame.subs, DOMAIN frame.subs, nodeInfo)

\* The answer stored last is the one applied, if every answer is.
AnswerApplied ==
  /\ ~ Dead /\ ~ NoNodeYet => etagServer = resp
  /\ pc \in {"idle", "node"} /\ ~ frame.starting => nodeInfo = resp.info
  /\ pc \notin {"down", "panicked", "idle", "node"} => frame.node = resp.info

RespInv == Faults \subseteq {"node"} => AnswerApplied

\* Limits: of the old list until the new ones are stored, under the old tag until the
\* limiter of the new one is made.
Limited(lim, s, ids) == \A i \in ids : lim[UserOf(s, i)] = s[i].limit

LimiterInv ==
  /\ pc \in {"delIn", "delOut", "delDefault", "delBlackholeRule", "delBlackholeOut"} =>
       frame.oldTag = Tag
  /\ pc \in OldUsers \cup {"delOut", "delDefault", "delBlackholeRule", "delBlackholeOut",
                           "newUsers", "newLimits", "modLimits"} /\ ~ frame.starting =>
       limiters = {Tag}
  /\ pc \in {"blackholeOut", "blackholeRule", "in", "out", "default", "delLimiter"}
       /\ ~ frame.starting => limiters = {frame.oldTag}
  /\ pc \in {"addUsers", "addLimiter"} => limiters = {}
  /\ ~ Dead /\ frame.starting /\ pc # "finish" => limiters = {}
  /\ pc = "finish" =>
       limiters = {Tag} /\ Limited(limits[Tag], frame.subs, DOMAIN frame.subs)
  /\ pc \in OldUsers \cup {"newUsers", "newLimits"} /\ ~ frame.starting =>
       Limited(limits[Tag], subscriptionList, DOMAIN subscriptionList)
  /\ pc = "modLimits" => Limited(limits[Tag], frame.subs, DOMAIN frame.subs \ Modified)

-----------------------------------------------------------------------------
(* The steps that cannot fail when only requests do. *)

\* When only requests fail, the steps that build a node succeed.
LEMMA BuildSucceeds ==
  ASSUME OnlyRequestsFail, TypeInv, SafeInv
  PROVE  /\ AddBlackholeOutbound =>
              /\ pc' = "blackholeRule" /\ frame' = frame
              /\ outbounds' = outbounds \cup {BlackholeName(Tag)}
         /\ AddBlackholeRule =>
              /\ pc' = "in" /\ frame' = frame
              /\ rules' = IF nodeInfo.rules THEN rules \cup {BlackholeRule(Tag)} ELSE rules
         /\ AddInbound => /\ pc' = "out" /\ frame' = frame
                          /\ inbounds' = inbounds \cup {Tag}
         /\ AddOutbound => /\ pc' = "default" /\ frame' = frame
                           /\ outbounds' = outbounds \cup {NodeName(Tag)}
         /\ AddDefaultRule =>
              /\ pc' = (IF frame.starting THEN "addUsers" ELSE "delLimiter")
              /\ frame' = frame
              /\ rules' = IF nodeInfo.relay = "off" THEN rules \cup {DefaultRule(Tag)} ELSE rules
<1> USE DEF Goto, Abort, OnlyRequestsFail, Tag
<1>1. pc \in {"blackholeOut", "blackholeRule", "in", "out", "default"} => Tag \in Tags
  BY DEF TypeInv, Assigned, Dead, NoNodeYet, NodeInfo
<1>2. ASSUME AddBlackholeOutbound
      PROVE  /\ pc' = "blackholeRule" /\ frame' = frame
             /\ outbounds' = outbounds \cup {BlackholeName(Tag)}
  BY <1>1, <1>2 DEF AddBlackholeOutbound, SafeInv, OutboundInv
<1>3. ASSUME AddBlackholeRule
      PROVE  /\ pc' = "in" /\ frame' = frame
             /\ rules' = IF nodeInfo.rules THEN rules \cup {BlackholeRule(Tag)} ELSE rules
  BY <1>3 DEF AddBlackholeRule, SafeInv, RuleInv, BlackholeRule, DefaultRule, BlackholeName,
     DefaultName
<1>4. ASSUME AddInbound
      PROVE  pc' = "out" /\ frame' = frame /\ inbounds' = inbounds \cup {Tag}
  BY <1>4 DEF AddInbound, SafeInv, ClosedInv, Closed
<1>5. ASSUME AddOutbound
      PROVE  /\ pc' = "default" /\ frame' = frame
             /\ outbounds' = outbounds \cup {NodeName(Tag)}
  BY <1>1, <1>5 DEF AddOutbound, SafeInv, OutboundInv
<1>6. ASSUME AddDefaultRule
      PROVE  /\ pc' = (IF frame.starting THEN "addUsers" ELSE "delLimiter")
             /\ frame' = frame
             /\ rules' = IF nodeInfo.relay = "off" THEN rules \cup {DefaultRule(Tag)} ELSE rules
  BY <1>6 DEF AddDefaultRule, SafeInv, RuleInv, BlackholeRule, DefaultRule, BlackholeName,
     DefaultName
<1> QED BY <1>2, <1>3, <1>4, <1>5, <1>6

\* ... and the former inbound is there to be removed.
LEMMA RemovalSucceeds ==
  ASSUME TypeInv, HandlerInv, RemoveInbound
  PROVE  /\ Tag \in inbounds /\ pc' = "delOut" /\ frame' = frame
         /\ inbounds' = inbounds \ {Tag} /\ users' = [users EXCEPT ![Tag] = {}]
<1>1. pc = "delIn" /\ ~ frame.starting
  BY DEF RemoveInbound, TypeInv, Assigned
<1>2. Tag \in inbounds
  BY <1>1 DEF HandlerInv, Closed, Early, Dead
<1> QED BY <1>2 DEF RemoveInbound, Goto

\* The accounts of two sets of subscriptions are those of both.
LEMMA AccountsJoin ==
  ASSUME NEW s, NEW I, NEW J, NEW info
  PROVE  /\ Accounts(s, I, info) \cup Accounts(s, J, info) = Accounts(s, I \cup J, info)
         /\ \A a \in Accounts(s, I, info) : a.id \in I
  BY DEF Accounts, Keyed

\* AddUser refuses no account when the inbound is there and knows none of them.
LEMMA AddSomeFails ==
  ASSUME OnlyRequestsFail, NEW new, Tag \in inbounds, \A a \in new : ~ Known(a, users[Tag])
  PROVE  ~ AddSome(new)
  BY DEF AddSome, OnlyRequestsFail

\* The accounts of a node just built are added, all of them,
LEMMA AddingSucceeds ==
  ASSUME OnlyRequestsFail, TypeInv, HandlerInv, FreshInv, AddUsers
  PROVE  /\ Tag \in inbounds \cap Tags /\ pc' = "addLimiter" /\ frame' = frame
         /\ users' = [users EXCEPT ![Tag] =
                        Accounts(frame.subs, DOMAIN frame.subs, frame.node)]
<1> DEFINE new == Accounts(frame.subs, DOMAIN frame.subs, frame.node)
<1>1. pc = "addUsers" /\ users[Tag] = {}
  BY DEF AddUsers, FreshInv
<1>2. Tag \in inbounds \cap Tags
  BY <1>1 DEF TypeInv, TypeOK, HandlerInv, Closed, Early, Dead
<1>3. ~ AddSome(new)
  BY <1>1, <1>2, AddSomeFails DEF Known
<1>4. AddAll(new) /\ pc' = "addLimiter" /\ frame' = frame
  BY <1>3 DEF AddUsers, Goto
<1>5. users' = [users EXCEPT ![Tag] = users[Tag] \cup new]
  BY <1>4 DEF AddAll
<1> QED BY <1>1, <1>2, <1>4, <1>5

\* and so are those of the subscriptions that are new on the list.
LEMMA AddingNewSucceeds ==
  ASSUME OnlyRequestsFail, TypeInv, HandlerInv, UserInv, AddNewUsers
  PROVE  /\ Tag \in inbounds \cap Tags /\ pc' = "newLimits"
         /\ users' = [users EXCEPT ![Tag] =
                        Accounts(frame.subs, Staying \cup Added, nodeInfo)]
<1> DEFINE new == Accounts(frame.subs, Added, nodeInfo)
<1>1. pc = "newUsers" /\ users[Tag] = Accounts(frame.subs, Staying, nodeInfo)
  BY DEF AddNewUsers, UserInv
<1>2. Tag \in inbounds \cap Tags
  BY <1>1 DEF TypeInv, TypeOK, HandlerInv, Closed, Early, Dead
<1>3. \A a \in new : ~ Known(a, users[Tag])
  <2>1. \A a \in new : a.id \notin Staying
    BY AccountsJoin DEF Added, Staying
  <2>2. \A b \in users[Tag] : b.id \in Staying
    BY <1>1, AccountsJoin
  <2> QED BY <2>1, <2>2 DEF Known
<1>4. AddAll(new) /\ pc' = "newLimits"
  BY <1>2, <1>3, AddSomeFails DEF AddNewUsers, Goto
<1>5. users' = [users EXCEPT ![Tag] = users[Tag] \cup new]
  BY <1>4 DEF AddAll
<1>6. users[Tag] \cup new = Accounts(frame.subs, Staying \cup Added, nodeInfo)
  BY <1>1, AccountsJoin
<1> QED BY <1>2, <1>4, <1>5, <1>6

\* removeInboundSubscriptions takes the accounts of the deleted subscriptions, no
\* more and no less: it never stops before the end, or there is nothing to remove.
LEMMA RemovingSucceeds ==
  ASSUME SteadyUsers, AlikeWhenDeleted, TypeInv, PanelInv, HandlerInv, UserInv, RemoveUsers
  PROVE  /\ pc' = "newUsers"
         /\ users' = [users EXCEPT ![Tag] = Accounts(frame.subs, Staying, nodeInfo)]
<1> DEFINE L == subscriptionList
           F == frame.subs
           ss == nodeInfo.ss2022
<1>1. pc = "delUsers" /\ L \in SubLists /\ F \in SubLists /\ nodeInfo \in Infos
  BY DEF RemoveUsers, PanelInv, Dead, NoNodeYet, NoSubsYet
<1>2. ~ frame.starting /\ Tag \in Tags /\ users \in [Tags -> SUBSET Account]
  BY <1>1 DEF PanelInv, TypeInv, TypeOK, Assigned, Dead, NoNodeYet, NodeInfo, Tag
<1>3. users[Tag] = Accounts(L, DOMAIN L, nodeInfo)
  BY <1>1, <1>2 DEF UserInv, OldUsers
<1>4. \A i \in Deleted : Matches(UserOf(L, i)) = Accounts(L, {i}, nodeInfo)
  BY <1>3 DEF Deleted, Matches, UserOf, Accounts, Keyed
<1>5. PICK done \in SUBSET Gone :
        /\ users' = [users EXCEPT ![Tag] = @ \ UNION {Matches(u) : u \in done}]
        /\ done = Gone \/ \E bad \in Gone : Matches(bad) = {}
  BY DEF RemoveUsers
<1>6. Keyed(L, Deleted, ss) \in {{}, Deleted}
  BY <1>1 DEF AlikeWhenDeleted, Deleted, Infos
<1>7. UNION {Matches(u) : u \in done} = Accounts(L, Deleted, nodeInfo)
  <2>1. CASE Keyed(L, Deleted, ss) = {}
    <3>1. Accounts(L, Deleted, nodeInfo) = {} /\ \A i \in Deleted : Accounts(L, {i},
       nodeInfo) = {}
      BY <2>1 DEF Accounts, Keyed
    <3>2. \A u \in Gone : Matches(u) = {}
      BY <1>4, <3>1 DEF Gone
    <3> QED BY <3>1, <3>2
  <2>2. CASE Keyed(L, Deleted, ss) = Deleted
    <3>1. \A i \in Deleted : Accounts(L, {i}, nodeInfo) # {}
      BY <2>2 DEF Accounts, Keyed
    <3>2. done = Gone
      BY <1>4, <1>5, <3>1 DEF Gone
    <3>3. UNION {Matches(u) : u \in done} = UNION {Accounts(L, {i},
       nodeInfo) : i \in Deleted}
      BY <1>4, <3>2 DEF Gone
    <3>4. UNION {Accounts(L, {i}, nodeInfo) : i \in Deleted} = Accounts(L, Deleted,
       nodeInfo)
      BY DEF Accounts, Keyed
    <3> QED BY <3>3, <3>4
  <2> QED BY <1>6, <2>1, <2>2
<1>8. Accounts(L, DOMAIN L, nodeInfo) \ Accounts(L, Deleted, nodeInfo)
        = Accounts(L, Staying, nodeInfo)
  BY DEF Accounts, Keyed, Deleted, Staying
<1>9. Accounts(L, Staying, nodeInfo) = Accounts(F, Staying, nodeInfo)
  BY <1>1 DEF SteadyUsers, Accounts, Keyed, Staying
<1>10. users' = [users EXCEPT ![Tag] = users[Tag] \ UNION {Matches(u) : u \in done}]
  BY <1>5
<1>11. pc' = "newUsers"
  BY DEF RemoveUsers, Goto
<1> QED BY <1>3, <1>7, <1>8, <1>9, <1>10, <1>11

-----------------------------------------------------------------------------
(* Every action preserves the invariant, part by part. *)

\* Every action preserves what is said of the panel's lists and node,
LEMMA PanelNext == TypeInv /\ PanelInv /\ [Next]_vars => PanelInv'
<1> SUFFICES ASSUME TypeInv, PanelInv, [Next]_vars PROVE PanelInv'
  OBVIOUS
<1> USE DEF Goto, Abort, Panic, panelVars, clientVars, ctlVars, coreVars, limVars, NoFrame,
   TypeInv, TypeOK, Assigned, PanelInv, NoNodeYet, NoSubsYet, Dead, Infos, Frame
<1>1. CASE EditPanel
  BY <1>1, ControllerAssumption DEF EditPanel
<1>2. CASE Boot
  BY <1>2, ControllerAssumption DEF Boot, ResetProcess
<1>3. CASE Poll
  BY <1>3, ControllerAssumption DEF Poll
<1>4. CASE FetchNode
  BY <1>4, ControllerAssumption DEF FetchNode
<1>5. CASE NodeNotModified
  BY <1>5, ControllerAssumption DEF NodeNotModified
<1>6. CASE NodeFails
  BY <1>6, ControllerAssumption DEF NodeFails
<1>7. CASE FetchSubs
  BY <1>7, ControllerAssumption DEF FetchSubs, AfterFetch, AfterTeardown, Build, Updated
<1>8. CASE SubsNotModified
  BY <1>8, ControllerAssumption DEF SubsNotModified, AfterFetch, AfterTeardown, Build,
     Updated
<1>9. CASE SubsFails
  BY <1>9, ControllerAssumption DEF SubsFails
<1>10. CASE RemoveRelayRules
  BY <1>10, ControllerAssumption DEF RemoveRelayRules
<1>11. CASE RemoveRelayTag
  BY <1>11, ControllerAssumption DEF RemoveRelayTag, AfterTeardown, Build, Updated
<1>12. CASE GetTransitNode
  BY <1>12, ControllerAssumption DEF GetTransitNode
<1>13. CASE TransitMissing
  BY <1>13, ControllerAssumption DEF TransitMissing
<1>14. CASE AddRelayOutbound
  BY <1>14, ControllerAssumption DEF AddRelayOutbound
<1>15. CASE AddRelayRule
  BY <1>15, ControllerAssumption DEF AddRelayRule
<1>16. CASE RelayFails
  BY <1>16, ControllerAssumption DEF RelayFails
<1>17. CASE RelayAdded
  BY <1>17, ControllerAssumption DEF RelayAdded, Build
<1>18. CASE Apply
  BY <1>18, ControllerAssumption DEF Apply
<1>19. CASE RemoveInbound
  BY <1>19, ControllerAssumption DEF RemoveInbound
<1>20. CASE RemoveOutbound
  BY <1>20, ControllerAssumption DEF RemoveOutbound
<1>21. CASE RemoveDefaultRule
  BY <1>21, ControllerAssumption DEF RemoveDefaultRule
<1>22. CASE RemoveBlackholeRule
  BY <1>22, ControllerAssumption DEF RemoveBlackholeRule
<1>23. CASE RemoveBlackholeOutbound
  BY <1>23, ControllerAssumption DEF RemoveBlackholeOutbound
<1>24. CASE AddBlackholeOutbound
  BY <1>24, ControllerAssumption DEF AddBlackholeOutbound
<1>25. CASE AddBlackholeRule
  BY <1>25, ControllerAssumption DEF AddBlackholeRule
<1>26. CASE AddInbound
  BY <1>26, ControllerAssumption DEF AddInbound
<1>27. CASE AddOutbound
  BY <1>27, ControllerAssumption DEF AddOutbound
<1>28. CASE AddDefaultRule
  BY <1>28, ControllerAssumption DEF AddDefaultRule
<1>29. CASE DeleteLimiter
  BY <1>29, ControllerAssumption DEF DeleteLimiter
<1>30. CASE AddUsers
  BY <1>30, ControllerAssumption DEF AddUsers, AddAll, AddSome
<1>31. CASE AddLimiter
  BY <1>31, ControllerAssumption DEF AddLimiter
<1>32. CASE RemoveUsers
  BY <1>32, ControllerAssumption DEF RemoveUsers
<1>33. CASE AddNewUsers
  BY <1>33, ControllerAssumption DEF AddNewUsers, AddAll, AddSome
<1>34. CASE LimitNewUsers
  BY <1>34, ControllerAssumption DEF LimitNewUsers, UpdateLimits
<1>35. CASE LimitModifiedUsers
  BY <1>35, ControllerAssumption DEF LimitModifiedUsers, UpdateLimits
<1>36. CASE Finish
  BY <1>36, ControllerAssumption DEF Finish
<1>37. CASE UNCHANGED vars
  BY <1>37 DEF vars
<1> QED
  BY <1>1, <1>2, <1>3, <1>4, <1>5, <1>6, <1>7, <1>8, <1>9, <1>10, <1>11, <1>12, <1>13,
     <1>14, <1>15, <1>16, <1>17, <1>18, <1>19, <1>20, <1>21, <1>22, <1>23, <1>24, <1>25,
     <1>26, <1>27, <1>28, <1>29, <1>30, <1>31, <1>32, <1>33, <1>34, <1>35, <1>36,
     <1>37 DEF Next, Fetched, Step

\* of the handlers and rules of the node,
LEMMA HandlerNext ==
  ASSUME OnlyRequestsFail, TypeInv, SafeInv, HandlerInv, [Next]_vars PROVE HandlerInv'
<1> SUFFICES ASSUME OnlyRequestsFail, TypeInv, SafeInv, HandlerInv,
   [Next]_vars PROVE HandlerInv'
  OBVIOUS
<1> USE DEF Goto, Abort, Panic, panelVars, clientVars, ctlVars, coreVars, limVars, NoFrame,
   TypeInv, TypeOK, Assigned, NoNodeYet, NoSubsYet, Dead, Frame, Tag, RelayTag, SafeInv,
   SingleInbound, ClosedInv, OutboundInv, RuleInv, Early, Closed, HandlerInv, NodeName,
   BlackholeName, RelayName, DefaultName, BlackholeRule, DefaultRule, RelayRule
<1>1. CASE EditPanel
  BY <1>1 DEF EditPanel
<1>2. CASE Boot
  BY <1>2 DEF Boot, ResetProcess
<1>3. CASE Poll
  BY <1>3 DEF Poll
<1>4. CASE FetchNode
  <2>1. CASE frame.starting
    <3>1. Early /\ Early'
      BY <1>4, <2>1 DEF FetchNode
    <3>2. inbounds' = {}
      BY <1>4, <3>1 DEF FetchNode
    <3> QED BY <1>4, <3>1, <3>2 DEF FetchNode
  <2>2. CASE ~ frame.starting
    BY <1>4, <2>2 DEF FetchNode
  <2> QED BY <2>1, <2>2
<1>5. CASE NodeNotModified
  BY <1>5 DEF NodeNotModified
<1>6. CASE NodeFails
  BY <1>6 DEF NodeFails
<1>7. CASE FetchSubs
  BY <1>7 DEF FetchSubs, AfterFetch, AfterTeardown, Build, Updated
<1>8. CASE SubsNotModified
  BY <1>8 DEF SubsNotModified, AfterFetch, AfterTeardown, Build, Updated
<1>9. CASE SubsFails
  BY <1>9 DEF SubsFails
<1>10. CASE RemoveRelayRules
  BY <1>10 DEF RemoveRelayRules
<1>11. CASE RemoveRelayTag
  BY <1>11 DEF RemoveRelayTag, AfterTeardown, Build, Updated
<1>12. CASE GetTransitNode
  BY <1>12 DEF GetTransitNode
<1>13. CASE TransitMissing
  BY <1>13 DEF TransitMissing
<1>14. CASE AddRelayOutbound
  BY <1>14 DEF AddRelayOutbound
<1>15. CASE AddRelayRule
  BY <1>15 DEF AddRelayRule
<1>16. CASE RelayFails
  BY <1>16 DEF RelayFails
<1>17. CASE RelayAdded
  BY <1>17 DEF RelayAdded, Build
<1>18. CASE Apply
  BY <1>18 DEF Apply
<1>19. CASE RemoveInbound
  BY <1>19 DEF RemoveInbound
<1>20. CASE RemoveOutbound
  BY <1>20 DEF RemoveOutbound
<1>21. CASE RemoveDefaultRule
  BY <1>21 DEF RemoveDefaultRule
<1>22. CASE RemoveBlackholeRule
  BY <1>22 DEF RemoveBlackholeRule
<1>23. CASE RemoveBlackholeOutbound
  <2>1. pc = "delBlackholeOut" /\ pc' = "blackholeOut" /\ Tag \in Tags
    BY <1>23 DEF RemoveBlackholeOutbound, NodeInfo
  <2>2. outbounds' = outbounds \ {BlackholeName(Tag)} /\ NodeName(Tag) \notin outbounds
    BY <1>23, <2>1 DEF RemoveBlackholeOutbound
  <2>3. \A o \in outbounds' : o.kind = "relay"
    BY <2>1, <2>2
  <2>4. inbounds' = {}
    BY <1>23, <2>1 DEF RemoveBlackholeOutbound
  <2> QED BY <2>1, <2>3, <2>4
<1>24. CASE AddBlackholeOutbound
  <2>1. /\ pc = "blackholeOut" /\ pc' = "blackholeRule" /\ frame' = frame
        /\ outbounds' = outbounds \cup {BlackholeName(Tag)} /\ UNCHANGED <<inbounds, rules,
           nodeInfo>>
    BY <1>24, BuildSucceeds DEF AddBlackholeOutbound
  <2> QED BY <2>1
<1>25. CASE AddBlackholeRule
  <2>1. /\ pc = "blackholeRule" /\ pc' = "in" /\ frame' = frame
        /\ rules' = IF nodeInfo.rules THEN rules \cup {BlackholeRule(Tag)} ELSE rules
        /\ UNCHANGED <<inbounds, outbounds, nodeInfo>>
    BY <1>25, BuildSucceeds DEF AddBlackholeRule
  <2>2. BlackholeRule(Tag) \notin rules
    BY <2>1
  <2> QED BY <2>1, <2>2
<1>26. CASE AddInbound
  <2>1. /\ pc = "in" /\ pc' = "out" /\ frame' = frame /\ inbounds' = inbounds \cup {Tag}
        /\ UNCHANGED <<outbounds, rules, nodeInfo>>
    BY <1>26, BuildSucceeds DEF AddInbound
  <2> QED BY <2>1
<1>27. CASE AddOutbound
  BY <1>27 DEF AddOutbound
<1>28. CASE AddDefaultRule
  BY <1>28 DEF AddDefaultRule
<1>29. CASE DeleteLimiter
  BY <1>29 DEF DeleteLimiter
<1>30. CASE AddUsers
  BY <1>30 DEF AddUsers, AddAll, AddSome
<1>31. CASE AddLimiter
  BY <1>31 DEF AddLimiter
<1>32. CASE RemoveUsers
  BY <1>32 DEF RemoveUsers
<1>33. CASE AddNewUsers
  BY <1>33 DEF AddNewUsers, AddAll, AddSome
<1>34. CASE LimitNewUsers
  BY <1>34 DEF LimitNewUsers, UpdateLimits
<1>35. CASE LimitModifiedUsers
  BY <1>35 DEF LimitModifiedUsers, UpdateLimits
<1>36. CASE Finish
  BY <1>36 DEF Finish
<1>37. CASE UNCHANGED vars
  BY <1>37 DEF vars
<1> QED
  BY <1>1, <1>2, <1>3, <1>4, <1>5, <1>6, <1>7, <1>8, <1>9, <1>10, <1>11, <1>12, <1>13,
     <1>14, <1>15, <1>16, <1>17, <1>18, <1>19, <1>20, <1>21, <1>22, <1>23, <1>24, <1>25,
     <1>26, <1>27, <1>28, <1>29, <1>30, <1>31, <1>32, <1>33, <1>34, <1>35, <1>36,
     <1>37 DEF Next, Fetched, Step

\* of the inbounds without accounts,
LEMMA FreshNext ==
  ASSUME OnlyRequestsFail, TypeInv, SafeInv, PanelInv, HandlerInv, FreshInv,
         [Next]_vars
  PROVE  FreshInv'
<1> USE DEF Goto, Abort, Panic, panelVars, clientVars, ctlVars, coreVars, limVars, NoFrame,
   TypeInv, TypeOK, Assigned, NoNodeYet, NoSubsYet, Dead, Frame, FreshInv, Tag
<1>1. CASE EditPanel
  BY <1>1, ControllerAssumption DEF EditPanel
<1>2. CASE Boot
  BY <1>2, ControllerAssumption DEF Boot, ResetProcess
<1>3. CASE Poll
  BY <1>3, ControllerAssumption DEF Poll
<1>4. CASE FetchNode
  BY <1>4, ControllerAssumption DEF FetchNode
<1>5. CASE NodeNotModified
  BY <1>5, ControllerAssumption DEF NodeNotModified
<1>6. CASE NodeFails
  BY <1>6, ControllerAssumption DEF NodeFails
<1>7. CASE FetchSubs
  BY <1>7, ControllerAssumption DEF FetchSubs, AfterFetch, AfterTeardown, Build
<1>8. CASE SubsNotModified
  BY <1>8, ControllerAssumption DEF SubsNotModified, AfterFetch, AfterTeardown, Build
<1>9. CASE SubsFails
  BY <1>9, ControllerAssumption DEF SubsFails
<1>10. CASE RemoveRelayRules
  BY <1>10, ControllerAssumption DEF RemoveRelayRules
<1>11. CASE RemoveRelayTag
  BY <1>11, ControllerAssumption DEF RemoveRelayTag, AfterTeardown, Build
<1>12. CASE GetTransitNode
  BY <1>12, ControllerAssumption DEF GetTransitNode
<1>13. CASE TransitMissing
  BY <1>13, ControllerAssumption DEF TransitMissing
<1>14. CASE AddRelayOutbound
  BY <1>14, ControllerAssumption DEF AddRelayOutbound
<1>15. CASE AddRelayRule
  BY <1>15, ControllerAssumption DEF AddRelayRule
<1>16. CASE RelayFails
  BY <1>16, ControllerAssumption DEF RelayFails
<1>17. CASE RelayAdded
  BY <1>17, ControllerAssumption DEF RelayAdded, Build
<1>18. CASE Apply
  BY <1>18, ControllerAssumption DEF Apply
<1>19. CASE RemoveInbound
  <2>1. /\ pc' = "delOut" /\ inbounds' = inbounds \ {Tag} /\ users' = [users EXCEPT ![Tag] = {}]
    BY <1>19, RemovalSucceeds
  <2> QED BY <2>1
<1>20. CASE RemoveOutbound
  BY <1>20, ControllerAssumption DEF RemoveOutbound
<1>21. CASE RemoveDefaultRule
  BY <1>21, ControllerAssumption DEF RemoveDefaultRule
<1>22. CASE RemoveBlackholeRule
  BY <1>22, ControllerAssumption DEF RemoveBlackholeRule
<1>23. CASE RemoveBlackholeOutbound
  BY <1>23, ControllerAssumption DEF RemoveBlackholeOutbound
<1>24. CASE AddBlackholeOutbound
  <2>1. pc' = "blackholeRule" /\ UNCHANGED <<frame, nodeInfo, users, inbounds>>
    BY <1>24, BuildSucceeds DEF AddBlackholeOutbound
  <2> QED BY <2>1
<1>25. CASE AddBlackholeRule
  <2>1. pc' = "in" /\ UNCHANGED <<frame, nodeInfo, users, inbounds>>
    BY <1>25, BuildSucceeds DEF AddBlackholeRule
  <2> QED BY <2>1
<1>26. CASE AddInbound
  <2>1. /\ pc = "in" /\ pc' = "out" /\ UNCHANGED <<nodeInfo, users>>
        /\ inbounds' = inbounds \cup {Tag}
    BY <1>26, BuildSucceeds DEF AddInbound
  <2>2. Tag \in Tags \ inbounds
    BY <2>1 DEF SafeInv, ClosedInv, Closed, NodeInfo
  <2> QED BY <2>1, <2>2
<1>27. CASE AddOutbound
  <2>1. pc = "out" /\ pc' = "default" /\ UNCHANGED <<frame, nodeInfo, users, inbounds>>
    BY <1>27, BuildSucceeds DEF AddOutbound
  <2> QED BY <2>1
<1>28. CASE AddDefaultRule
  <2>1. pc = "default" /\ pc' \in {"addUsers", "delLimiter"} /\ UNCHANGED <<frame,
     nodeInfo, users, inbounds>>
    BY <1>28, BuildSucceeds DEF AddDefaultRule
  <2> QED BY <2>1
<1>29. CASE DeleteLimiter
  BY <1>29, ControllerAssumption DEF DeleteLimiter
<1>30. CASE AddUsers
  <2>1. /\ pc' = "addLimiter" /\ Tag \in inbounds /\ UNCHANGED <<nodeInfo, inbounds>>
        /\ users' = [users EXCEPT ![Tag] = Accounts(frame.subs, DOMAIN frame.subs,
           frame.node)]
    BY <1>30, AddingSucceeds DEF AddUsers
  <2> QED BY <2>1
<1>31. CASE AddLimiter
  BY <1>31, ControllerAssumption DEF AddLimiter
<1>32. CASE RemoveUsers
  <2>1. /\ pc = "delUsers" /\ pc' \in {"newUsers"} /\ UNCHANGED <<nodeInfo, inbounds>>
        /\ \A t \in Tags \ {Tag} : users'[t] = users[t]
    BY <1>32 DEF RemoveUsers, AddAll, AddSome
  <2>2. Tag \in inbounds
    BY <2>1 DEF HandlerInv, Closed, Early
  <2> QED BY <2>1, <2>2
<1>33. CASE AddNewUsers
  <2>1. /\ pc = "newUsers" /\ pc' \in {"newLimits", "modLimits"} /\ UNCHANGED <<nodeInfo,
           inbounds>>
        /\ \A t \in Tags \ {Tag} : users'[t] = users[t]
    BY <1>33 DEF AddNewUsers, AddAll, AddSome
  <2>2. Tag \in inbounds
    BY <2>1 DEF HandlerInv, Closed, Early
  <2> QED BY <2>1, <2>2
<1>34. CASE LimitNewUsers
  BY <1>34, ControllerAssumption DEF LimitNewUsers
<1>35. CASE LimitModifiedUsers
  BY <1>35, ControllerAssumption DEF LimitModifiedUsers
<1>36. CASE Finish
  BY <1>36, ControllerAssumption DEF Finish
<1>37. CASE UNCHANGED vars
  BY <1>37, ControllerAssumption DEF vars
<1> QED
  BY <1>1, <1>2, <1>3, <1>4, <1>5, <1>6, <1>7, <1>8, <1>9, <1>10, <1>11, <1>12, <1>13,
     <1>14, <1>15, <1>16, <1>17, <1>18, <1>19, <1>20, <1>21, <1>22, <1>23, <1>24, <1>25,
     <1>26, <1>27, <1>28, <1>29, <1>30, <1>31, <1>32, <1>33, <1>34, <1>35, <1>36,
     <1>37 DEF Next, Fetched, Step

\* Relays have names of their own.
LEMMA RelayKinds ==
  /\ \A t : /\ NodeName(t).kind # "relay" /\ BlackholeName(t).kind # "relay"
            /\ DefaultName(t).kind # "relay"
  /\ \A t, i : RelayName(t, i).kind = "relay"
  BY DEF NodeName, BlackholeName, DefaultName, RelayName

\* Every action preserves what is said of the relays,
LEMMA RelayNext ==
  ASSUME OnlyRequestsFail, TypeInv, SafeInv, PanelInv, HandlerInv, FreshInv, RelayInv,
     [Next]_vars
  PROVE  RelayInv'
<1> SUFFICES ASSUME OnlyRequestsFail, TypeInv, SafeInv, PanelInv, HandlerInv, FreshInv,
   RelayInv,
                    [Next]_vars
             PROVE  RelayInv'
  OBVIOUS
<1>a. outbounds' = outbounds => RelayOuts' = RelayOuts
  BY DEF RelayOuts
<1>b. rules' = rules => RelayRules' = RelayRules
  BY DEF RelayRules
<1> USE DEF Goto, Abort, Panic, panelVars, clientVars, ctlVars, coreVars, limVars, NoFrame,
   TypeInv, TypeOK, Assigned, NoNodeYet, NoSubsYet, Dead, Frame, PanelInv, RelayInv,
   OldRelays, RelayList
<1>1. CASE EditPanel
  BY <1>1, <1>a, <1>b DEF EditPanel
<1>2. CASE Boot
  BY <1>2, <1>a, <1>b DEF Boot, ResetProcess, RelayOuts, RelayRules
<1>3. CASE Poll
  BY <1>3, <1>a, <1>b DEF Poll
<1>4. CASE FetchNode
  BY <1>4, <1>a, <1>b DEF FetchNode
<1>5. CASE NodeNotModified
  BY <1>5, <1>a, <1>b DEF NodeNotModified
<1>6. CASE NodeFails
  BY <1>6, <1>a, <1>b DEF NodeFails
<1>7. CASE FetchSubs
  <2>1. pc = "subs" /\ UNCHANGED <<Relay, nodeInfo, relaynodeInfo, outbounds, rules>>
    BY <1>7 DEF FetchSubs
  <2>2. /\ frame' = [frame EXCEPT !.subs = panel.subs, !.subsChanged = TRUE]
        /\ pc' = AfterFetch(frame')
        /\ ~ frame.starting => subscriptionList' = subscriptionList
    BY <1>7 DEF FetchSubs
  <2> QED BY <2>1, <2>2, <1>a, <1>b DEF AfterFetch, AfterTeardown, Build, Updated
<1>8. CASE SubsNotModified
  <2>1. pc = "subs" /\ UNCHANGED <<ctlVars, outbounds, rules>>
    BY <1>8 DEF SubsNotModified
  <2>2. /\ frame' = [frame EXCEPT !.subs = subscriptionList]
        /\ pc' = AfterFetch(frame')
    BY <1>8 DEF SubsNotModified
  <2>3. ~ frame.starting /\ ~ frame.subsChanged
    BY <1>8, <2>1, ControllerAssumption DEF SubsNotModified
  <2>4. CASE Relay /\ frame.nodeChanged
    BY <2>1, <2>2, <2>3, <2>4, <1>a, <1>b DEF AfterFetch, Updated
  <2>5. CASE ~ Relay /\ frame.nodeChanged
    BY <2>1, <2>2, <2>3, <2>5, <1>a, <1>b DEF AfterFetch, AfterTeardown, Build, Updated
  <2>6. CASE ~ frame.nodeChanged
    BY <2>1, <2>2, <2>3, <2>6, <1>a, <1>b DEF AfterFetch, AfterTeardown, Build, Updated
  <2> QED BY <2>4, <2>5, <2>6
<1>9. CASE SubsFails
  BY <1>9, <1>a, <1>b DEF SubsFails
<1>10. CASE RemoveRelayRules
  <2>1. /\ pc = "delRelayRules" /\ pc' = "delRelayOuts" /\ UNCHANGED <<frame, ctlVars,
           outbounds>>
        /\ rules' = {r \in rules : \A i \in DOMAIN subscriptionList :
                                      r.ruleTag # RelayName(RelayTag, i)}
    BY <1>10 DEF RemoveRelayRules
  <2>2. RelayRules' = {}
    <3>1. RelayRules = Relays(relaynodeInfo, subscriptionList, DOMAIN subscriptionList)
      BY <2>1
    <3>2. \A r \in rules' : r.ruleTag \notin RelayRules
      BY <2>1, <3>1 DEF Relays, Keyed, RelayTag
    <3>3. \A r \in rules' : r \in rules
      BY <2>1
    <3> QED BY <3>2, <3>3 DEF RelayRules
  <2> QED BY <2>1, <2>2, <1>a
<1>11. CASE RemoveRelayTag
  <2>1. /\ pc = "delRelayOuts" /\ ~ Relay' /\ Updated(frame)
        /\ UNCHANGED <<frame, rules, nodeInfo, subscriptionList, relaynodeInfo>>
        /\ outbounds' = outbounds \ {RelayName(RelayTag, i) : i \in DOMAIN subscriptionList}
        /\ pc' = IF frame.node.relay = "on" THEN "transit" ELSE Build(frame)
    BY <1>11 DEF RemoveRelayTag, AfterTeardown
  <2>2. RelayOuts' = {} /\ RelayRules' = {}
    <3>1. RelayOuts = Relays(relaynodeInfo, subscriptionList, DOMAIN subscriptionList)
      BY <2>1
    <3> QED BY <2>1, <3>1, <1>b DEF RelayOuts, Relays, Keyed, RelayTag
  <2> QED BY <2>1, <2>2 DEF Build
<1>12. CASE GetTransitNode
  <2>1. PICK relay \in resp.transit :
          /\ relaynodeInfo' = relay
          /\ frame' = [frame EXCEPT !.todo = Keyed(frame.subs, DOMAIN frame.subs,
             relay.ss2022)]
    BY <1>12 DEF GetTransitNode
  <2>2. /\ pc = "transit" /\ pc' = "relayOut"
        /\ UNCHANGED <<Relay, nodeInfo, subscriptionList, outbounds, rules>>
    BY <1>12 DEF GetTransitNode
  <2>3. RelayOuts' = {} /\ RelayRules' = {}
    BY <2>2, <1>a, <1>b
  <2>4. Relays(relay, frame.subs, DOMAIN frame.subs \ frame'.todo) = {}
    BY <2>1 DEF Relays, Keyed
  <2> QED BY <2>1, <2>2, <2>3, <2>4 DEF Keyed
<1>13. CASE TransitMissing
  BY <1>13, <1>a, <1>b DEF TransitMissing
<1>14. CASE AddRelayOutbound
  <2>1. PICK i \in frame.todo :
          /\ outbounds' = outbounds \cup {RelayName(RelayTag, i)}
          /\ frame' = [frame EXCEPT !.todo = frame.todo \ {i}, !.cur = i]
    BY <1>14 DEF AddRelayOutbound
  <2>2. pc = "relayOut" /\ pc' = "relayRule" /\ UNCHANGED <<ctlVars, rules>>
    BY <1>14 DEF AddRelayOutbound
  <2>3. RelayOuts' = RelayOuts \cup {RelayName(RelayTag, i)}
    BY <2>1, RelayKinds DEF RelayOuts
  <2>4. /\ Relays(relaynodeInfo, frame.subs, DOMAIN frame.subs \ (frame.todo \ {i}))
             = Relays(relaynodeInfo, frame.subs, DOMAIN frame.subs \ frame.todo)
                 \cup {RelayName(RelayTag, i)}
        /\ i \in Keyed(frame.subs, DOMAIN frame.subs \ (frame.todo \ {i}),
           relaynodeInfo.ss2022)
        /\ (DOMAIN frame.subs \ (frame.todo \ {i})) \ {i} = DOMAIN frame.subs \ frame.todo
    BY <2>1, <2>2 DEF Relays, Keyed, RelayTag
  <2>5. /\ frame'.subs = frame.subs /\ frame'.node = frame.node
        /\ frame'.starting = frame.starting
        /\ frame'.todo = frame.todo \ {i} /\ frame'.cur = i
    BY <2>1
  <2>6. Relays(relaynodeInfo, frame.subs, DOMAIN frame.subs \ frame.todo) = RelayOuts
        /\ RelayRules = RelayOuts
    BY <2>2
  <2> QED BY <2>1, <2>2, <2>3, <2>4, <2>5, <2>6, <1>b
<1>15. CASE AddRelayRule
  <2>1. /\ pc = "relayRule" /\ pc' = "relayOut" /\ UNCHANGED <<ctlVars, outbounds>>
        /\ frame' = [frame EXCEPT !.cur = None]
        /\ rules' = rules \cup {RelayRule(Tag, RelayTag, frame.cur,
           frame.subs[frame.cur].email)}
    BY <1>15 DEF AddRelayRule
  <2>2. RelayRules' = RelayRules \cup {RelayName(RelayTag, frame.cur)}
    <3> DEFINE new == RelayRule(Tag, RelayTag, frame.cur, frame.subs[frame.cur].email)
    <3>1. new.ruleTag = RelayName(RelayTag, frame.cur) /\ new.ruleTag.kind = "relay"
      BY RelayKinds DEF RelayRule
    <3>2. rules' = rules \cup {new}
      BY <2>1
    <3> HIDE DEF new
    <3> QED BY <3>1, <3>2 DEF RelayRules
  <2>3. Relays(relaynodeInfo, frame.subs, DOMAIN frame.subs \ frame.todo)
          = Relays(relaynodeInfo, frame.subs,
             (DOMAIN frame.subs \ frame.todo) \ {frame.cur})
              \cup {RelayName(RelayTag, frame.cur)}
    BY <2>1 DEF Relays, Keyed, RelayTag
  <2> QED BY <2>1, <2>2, <2>3, <1>a
<1>16. CASE RelayFails
  BY <1>16, <1>a, <1>b DEF RelayFails
<1>17. CASE RelayAdded
  <2>1. /\ pc = "relayOut" /\ frame.todo = {} /\ Relay' /\ pc' = Build(frame)
        /\ UNCHANGED <<frame, nodeInfo, subscriptionList, relaynodeInfo, outbounds, rules>>
    BY <1>17 DEF RelayAdded
  <2>2. DOMAIN frame.subs \ frame.todo = DOMAIN frame.subs
    BY <2>1
  <2> QED BY <2>1, <2>2, <1>a, <1>b DEF Build
<1>18. CASE Apply
  BY <1>18, <1>a, <1>b DEF Apply
<1>19. CASE RemoveInbound
  <2>1. pc = "delIn" /\ pc' = "delOut" /\ UNCHANGED <<frame, ctlVars, outbounds, rules>>
    BY <1>19, RemovalSucceeds DEF RemoveInbound
  <2> QED BY <2>1, <1>a, <1>b
<1>20. CASE RemoveOutbound
  <2>1. /\ pc = "delOut" /\ pc' = "delDefault" /\ UNCHANGED <<frame, ctlVars, rules>>
        /\ outbounds' = outbounds \ {NodeName(Tag)}
    BY <1>20, RelayKinds DEF RemoveOutbound
  <2>2. RelayOuts' = RelayOuts
    BY <2>1, RelayKinds DEF RelayOuts
  <2> QED BY <2>1, <2>2, <1>a, <1>b
<1>21. CASE RemoveDefaultRule
  <2>1. /\ pc = "delDefault" /\ pc' = "delBlackholeRule" /\ UNCHANGED <<frame, ctlVars,
           outbounds>>
        /\ rules' = {r \in rules : r.ruleTag # DefaultName(Tag)}
    BY <1>21, RelayKinds DEF RemoveDefaultRule
  <2>2. RelayRules' = RelayRules
    BY <2>1, RelayKinds DEF RelayRules
  <2> QED BY <2>1, <2>2, <1>a, <1>b
<1>22. CASE RemoveBlackholeRule
  <2>1. /\ pc = "delBlackholeRule" /\ pc' = "delBlackholeOut" /\ UNCHANGED <<frame,
           ctlVars, outbounds>>
        /\ rules' = {r \in rules : r.ruleTag # BlackholeName(Tag)}
    BY <1>22, RelayKinds DEF RemoveBlackholeRule
  <2>2. RelayRules' = RelayRules
    BY <2>1, RelayKinds DEF RelayRules
  <2> QED BY <2>1, <2>2, <1>a, <1>b
<1>23. CASE RemoveBlackholeOutbound
  <2>1. /\ pc = "delBlackholeOut" /\ pc' = "blackholeOut"
        /\ UNCHANGED <<frame, subscriptionList, Relay, relaynodeInfo, rules>>
        /\ outbounds' = outbounds \ {BlackholeName(Tag)}
    BY <1>23, RelayKinds DEF RemoveBlackholeOutbound
  <2>2. RelayOuts' = RelayOuts
    BY <2>1, RelayKinds DEF RelayOuts
  <2> QED BY <2>1, <2>2, <1>a, <1>b
<1>24. CASE AddBlackholeOutbound
  <2>1. /\ pc = "blackholeOut" /\ pc' = "blackholeRule" /\ UNCHANGED <<frame, ctlVars,
           rules>>
        /\ outbounds' = outbounds \cup {BlackholeName(Tag)}
    BY <1>24, BuildSucceeds DEF AddBlackholeOutbound
  <2>2. RelayOuts' = RelayOuts
    BY <2>1, RelayKinds DEF RelayOuts
  <2> QED BY <2>1, <2>2, <1>a, <1>b
<1>25. CASE AddBlackholeRule
  <2>1. /\ pc = "blackholeRule" /\ pc' = "in" /\ UNCHANGED <<frame, ctlVars, outbounds>>
        /\ rules' = IF nodeInfo.rules THEN rules \cup {BlackholeRule(Tag)} ELSE rules
    BY <1>25, BuildSucceeds DEF AddBlackholeRule
  <2>2. RelayRules' = RelayRules
    BY <2>1, RelayKinds DEF RelayRules, BlackholeRule
  <2> QED BY <2>1, <2>2, <1>a, <1>b
<1>26. CASE AddInbound
  <2>1. pc = "in" /\ pc' = "out" /\ UNCHANGED <<frame, ctlVars, outbounds, rules>>
    BY <1>26, BuildSucceeds DEF AddInbound
  <2> QED BY <2>1, <1>a, <1>b
<1>27. CASE AddOutbound
  <2>1. /\ pc = "out" /\ pc' = "default" /\ UNCHANGED <<frame, ctlVars, rules>>
        /\ outbounds' = outbounds \cup {NodeName(Tag)}
    BY <1>27, BuildSucceeds DEF AddOutbound
  <2>2. RelayOuts' = RelayOuts
    BY <2>1, RelayKinds DEF RelayOuts
  <2> QED BY <2>1, <2>2, <1>a, <1>b
<1>28. CASE AddDefaultRule
  <2>1. /\ pc = "default" /\ pc' \in {"addUsers", "delLimiter"} /\ UNCHANGED <<frame,
           ctlVars, outbounds>>
        /\ rules' = IF nodeInfo.relay = "off" THEN rules \cup {DefaultRule(Tag)} ELSE rules
    BY <1>28, BuildSucceeds DEF AddDefaultRule
  <2>2. RelayRules' = RelayRules
    BY <2>1, RelayKinds DEF RelayRules, DefaultRule
  <2> QED BY <2>1, <2>2, <1>a, <1>b
<1>29. CASE DeleteLimiter
  BY <1>29, <1>a, <1>b DEF DeleteLimiter
<1>30. CASE AddUsers
  <2>1. pc = "addUsers" /\ pc' = "addLimiter" /\ UNCHANGED <<frame, ctlVars, outbounds,
     rules>>
    BY <1>30, AddingSucceeds DEF AddUsers
  <2> QED BY <2>1, <1>a, <1>b
<1>31. CASE AddLimiter
  BY <1>31, <1>a, <1>b DEF AddLimiter
<1>32. CASE RemoveUsers
  BY <1>32, <1>a, <1>b DEF RemoveUsers
<1>33. CASE AddNewUsers
  BY <1>33, <1>a, <1>b DEF AddNewUsers, AddAll, AddSome
<1>34. CASE LimitNewUsers
  BY <1>34, <1>a, <1>b DEF LimitNewUsers, UpdateLimits
<1>35. CASE LimitModifiedUsers
  BY <1>35, <1>a, <1>b DEF LimitModifiedUsers, UpdateLimits
<1>36. CASE Finish
  BY <1>36, <1>a, <1>b DEF Finish
<1>37. CASE UNCHANGED vars
  BY <1>37, <1>a, <1>b DEF vars
<1> QED
  BY <1>1, <1>2, <1>3, <1>4, <1>5, <1>6, <1>7, <1>8, <1>9, <1>10, <1>11, <1>12, <1>13,
     <1>14, <1>15, <1>16, <1>17, <1>18, <1>19, <1>20, <1>21, <1>22, <1>23, <1>24, <1>25,
     <1>26, <1>27, <1>28, <1>29, <1>30, <1>31, <1>32, <1>33, <1>34, <1>35, <1>36,
     <1>37 DEF Next, Fetched, Step

\* of the answer stored last, as long as no failing request leaves it behind: a new
\* process and a new answer need not know of the one before,
LEMMA AnswerNext ==
  ASSUME OnlyRequestsFail, TypeInv, SafeInv, PanelInv, HandlerInv, FreshInv, [Next]_vars,
         AnswerApplied \/ Boot \/ FetchNode,
         NodeFails => etagServer' = etagServer,
         SubsFails => ~ frame.nodeChanged
  PROVE  AnswerApplied'
<1> USE DEF Goto, Abort, Panic, panelVars, clientVars, ctlVars, coreVars, limVars, NoFrame,
   TypeInv, TypeOK, Assigned, NoNodeYet, NoSubsYet, Dead, Frame, PanelInv, AnswerApplied
<1>2. CASE Boot
  BY <1>2, ControllerAssumption DEF Boot, ResetProcess
<1>4. CASE FetchNode
  BY <1>4, ControllerAssumption DEF FetchNode
<1> SUFFICES ASSUME AnswerApplied PROVE AnswerApplied'
  BY <1>2, <1>4
<1>1. CASE EditPanel
  BY <1>1, ControllerAssumption DEF EditPanel
<1>3. CASE Poll
  BY <1>3, ControllerAssumption DEF Poll
<1>5. CASE NodeNotModified
  BY <1>5, ControllerAssumption DEF NodeNotModified
<1>6. CASE NodeFails
  BY <1>6, ControllerAssumption DEF NodeFails
<1>7. CASE FetchSubs
  BY <1>7, ControllerAssumption DEF FetchSubs, AfterFetch, AfterTeardown, Build
<1>8. CASE SubsNotModified
  BY <1>8, ControllerAssumption DEF SubsNotModified, AfterFetch, AfterTeardown, Build
<1>9. CASE SubsFails
  BY <1>9, ControllerAssumption DEF SubsFails
<1>10. CASE RemoveRelayRules
  BY <1>10, ControllerAssumption DEF RemoveRelayRules
<1>11. CASE RemoveRelayTag
  BY <1>11, ControllerAssumption DEF RemoveRelayTag, AfterTeardown, Build
<1>12. CASE GetTransitNode
  BY <1>12, ControllerAssumption DEF GetTransitNode
<1>13. CASE TransitMissing
  BY <1>13, ControllerAssumption DEF TransitMissing
<1>14. CASE AddRelayOutbound
  BY <1>14, ControllerAssumption DEF AddRelayOutbound
<1>15. CASE AddRelayRule
  BY <1>15, ControllerAssumption DEF AddRelayRule
<1>16. CASE RelayFails
  BY <1>16, ControllerAssumption DEF RelayFails
<1>17. CASE RelayAdded
  BY <1>17, ControllerAssumption DEF RelayAdded, Build
<1>18. CASE Apply
  BY <1>18, ControllerAssumption DEF Apply
<1>19. CASE RemoveInbound
  <2>1. pc = "delIn" /\ pc' = "delOut" /\ UNCHANGED <<frame, nodeInfo, etagServer, resp>>
    BY <1>19, RemovalSucceeds DEF RemoveInbound
  <2> QED BY <2>1
<1>20. CASE RemoveOutbound
  BY <1>20, ControllerAssumption DEF RemoveOutbound
<1>21. CASE RemoveDefaultRule
  BY <1>21, ControllerAssumption DEF RemoveDefaultRule
<1>22. CASE RemoveBlackholeRule
  BY <1>22, ControllerAssumption DEF RemoveBlackholeRule
<1>23. CASE RemoveBlackholeOutbound
  BY <1>23, ControllerAssumption DEF RemoveBlackholeOutbound
<1>24. CASE AddBlackholeOutbound
  <2>1. pc = "blackholeOut" /\ pc' = "blackholeRule" /\ UNCHANGED <<frame, nodeInfo,
     etagServer, resp>>
    BY <1>24, BuildSucceeds DEF AddBlackholeOutbound
  <2> QED BY <2>1
<1>25. CASE AddBlackholeRule
  <2>1. pc = "blackholeRule" /\ pc' = "in" /\ UNCHANGED <<frame, nodeInfo, etagServer,
     resp>>
    BY <1>25, BuildSucceeds DEF AddBlackholeRule
  <2> QED BY <2>1
<1>26. CASE AddInbound
  <2>1. pc = "in" /\ pc' = "out" /\ UNCHANGED <<frame, nodeInfo, etagServer, resp>>
    BY <1>26, BuildSucceeds DEF AddInbound
  <2> QED BY <2>1
<1>27. CASE AddOutbound
  <2>1. pc = "out" /\ pc' = "default" /\ UNCHANGED <<frame, nodeInfo, etagServer, resp>>
    BY <1>27, BuildSucceeds DEF AddOutbound
  <2> QED BY <2>1
<1>28. CASE AddDefaultRule
  <2>1. pc = "default" /\ pc' \in {"addUsers", "delLimiter"} /\ UNCHANGED <<frame,
     nodeInfo, etagServer, resp>>
    BY <1>28, BuildSucceeds DEF AddDefaultRule
  <2> QED BY <2>1
<1>29. CASE DeleteLimiter
  BY <1>29, ControllerAssumption DEF DeleteLimiter
<1>30. CASE AddUsers
  <2>1. pc = "addUsers" /\ pc' = "addLimiter" /\ UNCHANGED <<frame, nodeInfo, etagServer,
     resp>>
    BY <1>30, AddingSucceeds DEF AddUsers
  <2> QED BY <2>1
<1>31. CASE AddLimiter
  BY <1>31, ControllerAssumption DEF AddLimiter
<1>32. CASE RemoveUsers
  BY <1>32, ControllerAssumption DEF RemoveUsers
<1>33. CASE AddNewUsers
  BY <1>33, ControllerAssumption DEF AddNewUsers
<1>34. CASE LimitNewUsers
  BY <1>34, ControllerAssumption DEF LimitNewUsers
<1>35. CASE LimitModifiedUsers
  BY <1>35, ControllerAssumption DEF LimitModifiedUsers
<1>36. CASE Finish
  BY <1>36, ControllerAssumption DEF Finish
<1>37. CASE UNCHANGED vars
  BY <1>37, ControllerAssumption DEF vars
<1> QED
  BY <1>1, <1>2, <1>3, <1>4, <1>5, <1>6, <1>7, <1>8, <1>9, <1>10, <1>11, <1>12, <1>13,
     <1>14, <1>15, <1>16, <1>17, <1>18, <1>19, <1>20, <1>21, <1>22, <1>23, <1>24, <1>25,
     <1>26, <1>27, <1>28, <1>29, <1>30, <1>31, <1>32, <1>33, <1>34, <1>35, <1>36,
     <1>37 DEF Next, Fetched, Step

LEMMA RespNext ==
  ASSUME OnlyRequestsFail, TypeInv, SafeInv, PanelInv, HandlerInv, FreshInv, RespInv,
         [Next]_vars
  PROVE  RespInv'
<1> SUFFICES ASSUME Faults \subseteq {"node"} PROVE AnswerApplied'
  BY DEF RespInv
<1>1. ~ SubsFails
  BY DEF SubsFails
<1>2. NodeFails => etagServer' = etagServer
  BY DEF NodeFails, clientVars
<1> QED BY <1>1, <1>2, AnswerNext DEF RespInv

\* of the accounts,
LEMMA UserNext ==
  ASSUME OnlyRequestsFail, SteadyUsers, AlikeWhenDeleted, TypeInv, SafeInv, PanelInv,
     HandlerInv, FreshInv, UserInv, [Next]_vars
  PROVE  UserInv'
<1>a. UNCHANGED <<frame, subscriptionList>> => Staying' = Staying
  BY DEF Staying
<1> USE DEF Goto, Abort, Panic, panelVars, clientVars, ctlVars, coreVars, limVars, NoFrame,
   TypeInv, TypeOK, Assigned, NoNodeYet, NoSubsYet, Dead, Frame, FreshInv, UserInv,
   OldUsers, Tag
<1>1. CASE EditPanel
  BY <1>1, <1>a DEF EditPanel
<1>2. CASE Boot
  BY <1>2, <1>a DEF Boot, ResetProcess
<1>3. CASE Poll
  BY <1>3, <1>a DEF Poll
<1>4. CASE FetchNode
  BY <1>4, <1>a DEF FetchNode
<1>5. CASE NodeNotModified
  BY <1>5, <1>a DEF NodeNotModified
<1>6. CASE NodeFails
  BY <1>6, <1>a DEF NodeFails
<1>7. CASE FetchSubs
  <2>1. pc = "subs" /\ UNCHANGED <<nodeInfo, users, inbounds>>
    BY <1>7 DEF FetchSubs
  <2>2. /\ frame'.starting = frame.starting
        /\ pc' \in {"delRelayRules", "transit", "blackholeOut", "apply"}
        /\ ~ frame.starting => subscriptionList' = subscriptionList
    BY <1>7 DEF FetchSubs, AfterFetch, AfterTeardown, Build
  <2> QED BY <2>1, <2>2
<1>8. CASE SubsNotModified
  <2>1. pc = "subs" /\ UNCHANGED <<nodeInfo, subscriptionList, users, inbounds>>
    BY <1>8 DEF SubsNotModified
  <2>2. /\ frame'.starting = frame.starting
        /\ pc' \in {"delRelayRules", "transit", "blackholeOut", "apply"}
    BY <1>8 DEF SubsNotModified, AfterFetch, AfterTeardown, Build
  <2> QED BY <2>1, <2>2
<1>9. CASE SubsFails
  BY <1>9, <1>a DEF SubsFails
<1>10. CASE RemoveRelayRules
  BY <1>10, <1>a DEF RemoveRelayRules
<1>11. CASE RemoveRelayTag
  BY <1>11, <1>a DEF RemoveRelayTag, AfterTeardown, Build
<1>12. CASE GetTransitNode
  BY <1>12, <1>a DEF GetTransitNode
<1>13. CASE TransitMissing
  BY <1>13, <1>a DEF TransitMissing
<1>14. CASE AddRelayOutbound
  BY <1>14, <1>a DEF AddRelayOutbound
<1>15. CASE AddRelayRule
  BY <1>15, <1>a DEF AddRelayRule
<1>16. CASE RelayFails
  BY <1>16, <1>a DEF RelayFails
<1>17. CASE RelayAdded
  BY <1>17, <1>a DEF RelayAdded, Build
<1>18. CASE Apply
  <2>1. /\ pc = "apply" /\ pc' \in {"delIn", "delUsers", "finish"}
        /\ UNCHANGED <<nodeInfo, subscriptionList, users, inbounds>>
        /\ frame'.subs = frame.subs /\ frame'.starting = frame.starting
        /\ pc' = "finish" => ~ frame.subsChanged
    BY <1>18 DEF Apply
  <2>2. pc' = "finish" => frame.subs = subscriptionList
    BY <2>1 DEF PanelInv
  <2> QED BY <2>1, <2>2
<1>19. CASE RemoveInbound
  <2>1. /\ pc = "delIn" /\ pc' = "delOut" /\ UNCHANGED <<nodeInfo, frame>>
        /\ inbounds' = inbounds \ {Tag} /\ users' = [users EXCEPT ![Tag] = {}]
    BY <1>19, RemovalSucceeds DEF RemoveInbound
  <2> QED BY <2>1
<1>20. CASE RemoveOutbound
  BY <1>20, <1>a DEF RemoveOutbound
<1>21. CASE RemoveDefaultRule
  BY <1>21, <1>a DEF RemoveDefaultRule
<1>22. CASE RemoveBlackholeRule
  BY <1>22, <1>a DEF RemoveBlackholeRule
<1>23. CASE RemoveBlackholeOutbound
  BY <1>23, <1>a DEF RemoveBlackholeOutbound
<1>24. CASE AddBlackholeOutbound
  <2>1. pc' = "blackholeRule" /\ UNCHANGED <<frame, nodeInfo, subscriptionList, users,
     inbounds>>
    BY <1>24, BuildSucceeds DEF AddBlackholeOutbound
  <2> QED BY <2>1, <1>a
<1>25. CASE AddBlackholeRule
  <2>1. pc' = "in" /\ UNCHANGED <<frame, nodeInfo, subscriptionList, users, inbounds>>
    BY <1>25, BuildSucceeds DEF AddBlackholeRule
  <2> QED BY <2>1, <1>a
<1>26. CASE AddInbound
  <2>1. /\ pc = "in" /\ pc' = "out" /\ UNCHANGED <<nodeInfo, frame, users>>
        /\ inbounds' = inbounds \cup {Tag}
    BY <1>26, BuildSucceeds DEF AddInbound
  <2>2. Tag \in Tags \ inbounds
    BY <2>1 DEF SafeInv, ClosedInv, Closed, NodeInfo
  <2> QED BY <2>1, <2>2
<1>27. CASE AddOutbound
  <2>1. pc = "out" /\ pc' = "default" /\ UNCHANGED <<frame, nodeInfo, subscriptionList,
     users, inbounds>>
    BY <1>27, BuildSucceeds DEF AddOutbound
  <2> QED BY <2>1, <1>a
<1>28. CASE AddDefaultRule
  <2>1. pc = "default" /\ pc' \in {"addUsers", "delLimiter"} /\ UNCHANGED <<frame,
     nodeInfo, subscriptionList, users, inbounds>>
    BY <1>28, BuildSucceeds DEF AddDefaultRule
  <2> QED BY <2>1, <1>a
<1>29. CASE DeleteLimiter
  BY <1>29, <1>a DEF DeleteLimiter
<1>30. CASE AddUsers
  <2>1. /\ pc = "addUsers" /\ pc' = "addLimiter" /\ UNCHANGED <<nodeInfo, frame, inbounds>>
        /\ users' = [users EXCEPT ![Tag] = Accounts(frame.subs, DOMAIN frame.subs,
           frame.node)]
    BY <1>30, AddingSucceeds DEF AddUsers
  <2>2. frame.node = nodeInfo /\ Tag \in inbounds \cap Tags
    BY <2>1 DEF PanelInv, HandlerInv, Closed, Early, NodeInfo
  <2> QED BY <2>1, <2>2
<1>31. CASE AddLimiter
  BY <1>31, <1>a DEF AddLimiter
<1>32. CASE RemoveUsers
  <2>1. /\ pc = "delUsers" /\ pc' = "newUsers" /\ UNCHANGED <<nodeInfo, frame, inbounds,
           subscriptionList>>
        /\ users' = [users EXCEPT ![Tag] = Accounts(frame.subs, Staying, nodeInfo)]
    BY <1>32, RemovingSucceeds DEF RemoveUsers
  <2>2. Tag \in inbounds \cap Tags
    BY <2>1 DEF HandlerInv, Closed, Early, NodeInfo
  <2> QED BY <2>1, <2>2, <1>a
<1>33. CASE AddNewUsers
  <2>1. /\ pc = "newUsers" /\ pc' = "newLimits" /\ UNCHANGED <<nodeInfo, frame, inbounds>>
        /\ users' = [users EXCEPT ![Tag] = Accounts(frame.subs, Staying \cup Added,
           nodeInfo)]
    BY <1>33, AddingNewSucceeds DEF AddNewUsers
  <2>2. Tag \in inbounds \cap Tags /\ Staying \cup Added = DOMAIN frame.subs
    BY <2>1 DEF HandlerInv, Closed, Early, NodeInfo, Staying, Added
  <2> QED BY <2>1, <2>2
<1>34. CASE LimitNewUsers
  BY <1>34, <1>a DEF LimitNewUsers, UpdateLimits
<1>35. CASE LimitModifiedUsers
  BY <1>35, <1>a DEF LimitModifiedUsers, UpdateLimits
<1>36. CASE Finish
  BY <1>36, <1>a DEF Finish
<1>37. CASE UNCHANGED vars
  BY <1>37, <1>a DEF vars
<1> QED
  BY <1>1, <1>2, <1>3, <1>4, <1>5, <1>6, <1>7, <1>8, <1>9, <1>10, <1>11, <1>12, <1>13,
     <1>14, <1>15, <1>16, <1>17, <1>18, <1>19, <1>20, <1>21, <1>22, <1>23, <1>24, <1>25,
     <1>26, <1>27, <1>28, <1>29, <1>30, <1>31, <1>32, <1>33, <1>34, <1>35, <1>36,
     <1>37 DEF Next, Fetched, Step

\* Storing limits of the subscriptions I gives them theirs and leaves those of the others.
LEMMA StoredLimits ==
  ASSUME NEW base, NEW s \in SubList, NEW I, NEW J, J \subseteq DOMAIN s,
         Limited(base, s, J \ I)
  PROVE  Limited(StoreLimits(base, s, I), s, J)
<1>1. \A i \in J : UserOf(s, i) \in User /\ UserOf(s, i).id = i
  BY SubListFacts DEF UserOf, User, Sub
<1> QED BY <1>1 DEF Limited, StoreLimits

\* and of the limits.
LEMMA LimiterNext ==
  ASSUME OnlyRequestsFail, TypeInv, SafeInv, PanelInv, HandlerInv, FreshInv, UserInv,
     LimiterInv, [Next]_vars
  PROVE  LimiterInv'
<1>a. UNCHANGED <<frame, subscriptionList>> => Modified' = Modified
  BY DEF Modified
<1> USE DEF Goto, Abort, Panic, panelVars, clientVars, ctlVars, coreVars, limVars, NoFrame,
   TypeInv, TypeOK, Assigned, NoNodeYet, NoSubsYet, Dead, Frame, LimiterInv, OldUsers, Tag
<1>1. CASE EditPanel
  BY <1>1, <1>a DEF EditPanel
<1>2. CASE Boot
  BY <1>2, <1>a DEF Boot, ResetProcess
<1>3. CASE Poll
  BY <1>3, <1>a DEF Poll
<1>4. CASE FetchNode
  BY <1>4, <1>a DEF FetchNode
<1>5. CASE NodeNotModified
  BY <1>5, <1>a DEF NodeNotModified
<1>6. CASE NodeFails
  BY <1>6, <1>a DEF NodeFails
<1>7. CASE FetchSubs
  <2>1. pc = "subs" /\ UNCHANGED <<nodeInfo, limiters, limits>>
    BY <1>7 DEF FetchSubs
  <2>2. /\ frame'.starting = frame.starting
        /\ pc' \in {"delRelayRules", "transit", "blackholeOut", "apply"}
        /\ pc' = "blackholeOut" => frame.starting
        /\ ~ frame.starting => subscriptionList' = subscriptionList
    BY <1>7 DEF FetchSubs, AfterFetch, AfterTeardown, Build
  <2> QED BY <2>1, <2>2
<1>8. CASE SubsNotModified
  <2>1. pc = "subs" /\ UNCHANGED <<nodeInfo, subscriptionList, limiters, limits>>
    BY <1>8 DEF SubsNotModified
  <2>2. /\ frame'.starting = frame.starting
        /\ pc' \in {"delRelayRules", "transit", "blackholeOut", "apply"}
        /\ pc' = "blackholeOut" => frame.starting
    BY <1>8 DEF SubsNotModified, AfterFetch, AfterTeardown, Build
  <2> QED BY <2>1, <2>2
<1>9. CASE SubsFails
  BY <1>9, <1>a DEF SubsFails
<1>10. CASE RemoveRelayRules
  BY <1>10, <1>a DEF RemoveRelayRules
<1>11. CASE RemoveRelayTag
  <2>1. /\ pc' \in {"transit", "blackholeOut", "apply"}
        /\ pc' = "blackholeOut" => frame.starting
        /\ pc = "delRelayOuts" /\ UNCHANGED <<nodeInfo, frame, subscriptionList, limiters,
           limits>>
    BY <1>11 DEF RemoveRelayTag, AfterTeardown, Build
  <2> QED BY <2>1, <1>a
<1>12. CASE GetTransitNode
  BY <1>12, <1>a DEF GetTransitNode
<1>13. CASE TransitMissing
  BY <1>13, <1>a DEF TransitMissing
<1>14. CASE AddRelayOutbound
  BY <1>14, <1>a DEF AddRelayOutbound
<1>15. CASE AddRelayRule
  BY <1>15, <1>a DEF AddRelayRule
<1>16. CASE RelayFails
  BY <1>16, <1>a DEF RelayFails
<1>17. CASE RelayAdded
  BY <1>17, <1>a DEF RelayAdded, Build
<1>18. CASE Apply
  <2>1. /\ pc = "apply" /\ pc' \in {"delIn", "delUsers", "finish"}
        /\ UNCHANGED <<nodeInfo, subscriptionList, limiters, limits>>
        /\ frame'.subs = frame.subs /\ frame'.starting = frame.starting /\ ~ frame.starting
        /\ pc' = "finish" => ~ frame.subsChanged
        /\ pc' = "delIn" => frame'.oldTag = Tag
    BY <1>18 DEF Apply
  <2>2. pc' = "finish" => frame.subs = subscriptionList
    BY <2>1 DEF PanelInv
  <2> QED BY <2>1, <2>2
<1>19. CASE RemoveInbound
  <2>1. /\ pc = "delIn" /\ pc' = "delOut" /\ UNCHANGED <<nodeInfo, frame, limiters, limits>>
    BY <1>19, RemovalSucceeds DEF RemoveInbound
  <2> QED BY <2>1
<1>20. CASE RemoveOutbound
  BY <1>20, <1>a DEF RemoveOutbound
<1>21. CASE RemoveDefaultRule
  BY <1>21, <1>a DEF RemoveDefaultRule
<1>22. CASE RemoveBlackholeRule
  BY <1>22, <1>a DEF RemoveBlackholeRule
<1>23. CASE RemoveBlackholeOutbound
  <2>1. /\ pc = "delBlackholeOut" /\ pc' = "blackholeOut" /\ UNCHANGED <<frame, limiters>>
        /\ ~ frame.starting
    BY <1>23 DEF RemoveBlackholeOutbound
  <2> QED BY <2>1
<1>24. CASE AddBlackholeOutbound
  <2>1. /\ pc = "blackholeOut" /\ pc' = "blackholeRule"
        /\ UNCHANGED <<nodeInfo, frame, limiters>>
    BY <1>24, BuildSucceeds DEF AddBlackholeOutbound
  <2> QED BY <2>1
<1>25. CASE AddBlackholeRule
  <2>1. /\ pc = "blackholeRule" /\ pc' = "in"
        /\ UNCHANGED <<nodeInfo, frame, limiters>>
    BY <1>25, BuildSucceeds DEF AddBlackholeRule
  <2> QED BY <2>1
<1>26. CASE AddInbound
  <2>1. /\ pc = "in" /\ pc' = "out"
        /\ UNCHANGED <<nodeInfo, frame, limiters>>
    BY <1>26, BuildSucceeds DEF AddInbound
  <2> QED BY <2>1
<1>27. CASE AddOutbound
  <2>1. /\ pc = "out" /\ pc' = "default"
        /\ UNCHANGED <<nodeInfo, frame, limiters>>
    BY <1>27, BuildSucceeds DEF AddOutbound
  <2> QED BY <2>1
<1>28. CASE AddDefaultRule
  <2>1. /\ pc = "default" /\ pc' = IF frame.starting THEN "addUsers" ELSE "delLimiter"
        /\ UNCHANGED <<nodeInfo, frame, limiters>>
    BY <1>28, BuildSucceeds DEF AddDefaultRule
  <2> QED BY <2>1
<1>29. CASE DeleteLimiter
  <2>1. /\ pc = "delLimiter" /\ pc' = "addUsers" /\ UNCHANGED frame
        /\ limiters' = limiters \ {frame.oldTag}
    BY <1>29 DEF DeleteLimiter
  <2> QED BY <2>1
<1>30. CASE AddUsers
  <2>1. /\ pc = "addUsers" /\ pc' = "addLimiter" /\ UNCHANGED <<nodeInfo, frame, limiters,
           limits>>
    BY <1>30, AddingSucceeds DEF AddUsers
  <2> QED BY <2>1
<1>31. CASE AddLimiter
  <2>1. /\ pc = "addLimiter" /\ pc' = "finish" /\ UNCHANGED <<nodeInfo, frame>>
        /\ limiters' = limiters \cup {Tag}
        /\ limits' = [limits EXCEPT ![Tag] = StoreLimits(NoLimits, frame.subs,
           DOMAIN frame.subs)]
    BY <1>31 DEF AddLimiter
  <2>2. Tag \in Tags
    BY <2>1 DEF NodeInfo
  <2>3. /\ frame.subs \in SubList
        /\ Limited(NoLimits, frame.subs, DOMAIN frame.subs \ DOMAIN frame.subs)
    BY <2>1 DEF Limited
  <2>4. Limited(StoreLimits(NoLimits, frame.subs, DOMAIN frame.subs), frame.subs,
     DOMAIN frame.subs)
    BY <2>3, StoredLimits
  <2> QED BY <2>1, <2>2, <2>4
<1>32. CASE RemoveUsers
  BY <1>32, <1>a DEF RemoveUsers
<1>33. CASE AddNewUsers
  <2>1. /\ pc = "newUsers" /\ pc' = "newLimits"
        /\ UNCHANGED <<nodeInfo, subscriptionList, frame, limiters, limits>>
    BY <1>33, AddingNewSucceeds DEF AddNewUsers
  <2> QED BY <2>1, <1>a
<1>34. CASE LimitNewUsers
  <2>1. /\ pc = "newLimits" /\ pc' = "modLimits" /\ UNCHANGED <<nodeInfo, frame,
           subscriptionList, limiters>>
        /\ Tag \in limiters /\ Tag \in Tags /\ ~ frame.starting
        /\ frame.subs \in SubList /\ subscriptionList \in SubList
    BY <1>34 DEF LimitNewUsers, NodeInfo, PanelInv
  <2>2. limits' = [limits EXCEPT ![Tag] = StoreLimits(limits[Tag], frame.subs, Added)]
    BY <1>34, <2>1 DEF LimitNewUsers, UpdateLimits
  <2>3. Limited(limits[Tag], frame.subs, (DOMAIN frame.subs \ Modified) \ Added)
    BY <2>1 DEF Limited, Modified, Added, UserOf
  <2>4. Limited(StoreLimits(limits[Tag], frame.subs, Added), frame.subs,
     DOMAIN frame.subs \ Modified)
    BY <2>1, <2>3, StoredLimits
  <2> QED BY <2>1, <2>2, <2>4, <1>a
<1>35. CASE LimitModifiedUsers
  <2>1. /\ pc = "modLimits" /\ pc' = "finish" /\ UNCHANGED <<nodeInfo, frame, limiters>>
        /\ limiters = {Tag} /\ Tag \in Tags /\ frame.subs \in SubList
    BY <1>35 DEF LimitModifiedUsers, NodeInfo, PanelInv
  <2>2. limits' = [limits EXCEPT ![Tag] = StoreLimits(limits[Tag], frame.subs, Modified)]
    BY <1>35, <2>1 DEF LimitModifiedUsers, UpdateLimits
  <2>3. Limited(StoreLimits(limits[Tag], frame.subs, Modified), frame.subs,
     DOMAIN frame.subs)
    BY <2>1, StoredLimits
  <2> QED BY <2>1, <2>2, <2>3
<1>36. CASE Finish
  <2>1. /\ pc = "finish" /\ pc' = "idle" /\ frame' = NoFrame /\ UNCHANGED <<nodeInfo,
           limiters, limits>>
        /\ subscriptionList' = frame.subs
    BY <1>36 DEF Finish
  <2> QED BY <2>1
<1>37. CASE UNCHANGED vars
  BY <1>37, <1>a DEF vars
<1> QED
  BY <1>1, <1>2, <1>3, <1>4, <1>5, <1>6, <1>7, <1>8, <1>9, <1>10, <1>11, <1>12, <1>13,
     <1>14, <1>15, <1>16, <1>17, <1>18, <1>19, <1>20, <1>21, <1>22, <1>23, <1>24, <1>25,
     <1>26, <1>27, <1>28, <1>29, <1>30, <1>31, <1>32, <1>33, <1>34, <1>35, <1>36,
     <1>37 DEF Next, Fetched, Step

\* The transit node of a relay is in the answer stored last.
LEMMA TransitFound ==
  ASSUME TransitServed, TypeInv, RelayInv, RespInv
  PROVE  TransitKnown
<1>1. ASSUME pc = "transit" PROVE resp \in Configs /\ frame.node.relay = "on"
  BY <1>1 DEF TypeInv, Assigned, Dead, NoNodeYet, RelayInv
<1>2. ASSUME pc = "transit", Faults \subseteq {"node"} PROVE frame.node = resp.info
  BY <1>2 DEF RespInv, AnswerApplied
<1> QED BY <1>1, <1>2 DEF TransitKnown, TransitServed

\* No add meets a relay of the same name,
LEMMA NoRelayFails ==
  ASSUME OnlyRequestsFail, TypeInv, RelayInv
  PROVE  ~ RelayFails
<1>1. ASSUME pc = "relayOut", NEW i \in frame.todo PROVE RelayName(RelayTag,
   i) \notin outbounds
  <2>1. RelayOuts = Relays(relaynodeInfo, frame.subs, DOMAIN frame.subs \ frame.todo)
    BY <1>1 DEF RelayInv, Dead
  <2>2. RelayName(RelayTag, i) \notin RelayOuts
    BY <2>1 DEF Relays, Keyed, RelayName
  <2> QED BY <2>2 DEF RelayOuts, RelayName
<1>2. ASSUME pc = "relayRule", NEW r \in rules PROVE r.ruleTag # RelayName(RelayTag,
   frame.cur)
  <2>1. RelayRules = Relays(relaynodeInfo, frame.subs,
                            (DOMAIN frame.subs \ frame.todo) \ {frame.cur})
    BY <1>2 DEF RelayInv, Dead
  <2>2. RelayName(RelayTag, frame.cur) \notin RelayRules
    BY <2>1 DEF Relays, Keyed, RelayName
  <2> QED BY <2>2, <1>2 DEF RelayRules, RelayName
<1> QED BY <1>1, <1>2 DEF RelayFails, OnlyRequestsFail

\* a panic has one of two reasons, and leaves the client as it is,
LEMMA PanicSteps ==
  ASSUME [Next]_vars, pc' = "panicked"
  PROVE  (pc = "panicked" \/ TransitMissing \/ RelayFails) /\ etagServer' = etagServer
<1>1. CASE TransitMissing \/ RelayFails
  BY <1>1 DEF TransitMissing, RelayFails, clientVars
<1>2. CASE EditPanel \/ UNCHANGED vars
  BY <1>2 DEF EditPanel, vars, clientVars
<1>3. CASE ~ TransitMissing /\ ~ RelayFails /\ ~ EditPanel /\ ~ UNCHANGED vars
  BY <1>3 DEF Next, Fetched, Step, vars, Goto, Abort, AfterFetch, AfterTeardown,
     Build,
     Boot, Poll, FetchNode, NodeNotModified, NodeFails, FetchSubs,
        SubsNotModified,
     SubsFails, RemoveRelayRules, RemoveRelayTag, GetTransitNode, AddRelayOutbound,
        AddRelayRule,
     RelayAdded, Apply, RemoveInbound, RemoveOutbound, RemoveDefaultRule,
        RemoveBlackholeRule,
     RemoveBlackholeOutbound, AddBlackholeOutbound, AddBlackholeRule, AddInbound,
        AddOutbound,
     AddDefaultRule, DeleteLimiter, AddUsers, AddLimiter, RemoveUsers, AddNewUsers,
     LimitNewUsers, LimitModifiedUsers, Finish
<1> QED BY <1>1, <1>2, <1>3

\* and no relay is without a transit node.
LEMMA NoPanicNext ==
  ASSUME OnlyRequestsFail, TransitServed, TypeInv, RelayInv, RespInv, NoPanic, [Next]_vars
  PROVE  NoPanic'
<1>1. ~ TransitMissing
  BY TransitFound DEF TransitMissing, TransitKnown
<1> QED BY <1>1, NoRelayFails, PanicSteps DEF NoPanic

-----------------------------------------------------------------------------
(* The theorems about it. *)

\* The parts of the invariant hold at first.
LEMMA SyncInit ==
  Init => PanelInv /\ HandlerInv /\ FreshInv /\ RelayInv /\ RespInv /\ UserInv /\ LimiterInv
  BY DEF Init, NoFrame, Dead, NoNodeYet, NoSubsYet, PanelInv, HandlerInv, FreshInv,
     RelayInv, OldRelays, RespInv, AnswerApplied, UserInv, OldUsers, LimiterInv

\* What holds when only requests fail, whatever the lists are.
BuiltInv == /\ TypeInv /\ SafeInv
            /\ PanelInv /\ HandlerInv /\ FreshInv /\ RelayInv /\ RespInv

LEMMA Built ==
  ASSUME OnlyRequestsFail
  PROVE  Spec => []BuiltInv
<1> DEFINE I == PanelInv /\ HandlerInv /\ FreshInv /\ RelayInv /\ RespInv
<1>1. Init => I
  BY SyncInit
<1>2. TypeInv /\ SafeInv /\ I /\ [Next]_vars => I'
  BY OnlyRequestsFail, PanelNext, HandlerNext, FreshNext, RelayNext, RespNext
<1> HIDE DEF I
<1>3. Spec => []I
  BY <1>1, <1>2, Inductive, PTL DEF Spec
<1> QED BY <1>3, Inductive, PTL DEF I, BuiltInv

\* GetTransitNode finds the transit node, provided that only requests fail and that it is in
\* every answer that is stored: what takes it away is an answer that was stored and not applied.
THEOREM TransitNodeIsKnown ==
  ASSUME OnlyRequestsFail, TransitServed
  PROVE  Spec => []TransitKnown
<1>1. BuiltInv => TransitKnown
  BY TransitServed, TransitFound DEF BuiltInv
<1> QED BY <1>1, Built, OnlyRequestsFail, PTL

\* The monitor never panics, under the same conditions: besides, no relay is added twice.
THEOREM MonitorNeverPanics ==
  ASSUME OnlyRequestsFail, TransitServed
  PROVE  Spec => []NoPanic
<1>1. Init => NoPanic
  BY DEF Init, NoPanic
<1>2. BuiltInv /\ NoPanic /\ [Next]_vars => NoPanic'
  BY OnlyRequestsFail, TransitServed, NoPanicNext DEF BuiltInv
<1> QED BY <1>1, <1>2, Built, OnlyRequestsFail, PTL DEF Spec

\* The accounts and limits are those of the list.
LEMMA Served ==
  ASSUME OnlyRequestsFail, SteadyUsers, AlikeWhenDeleted
  PROVE  Spec => [](UserInv /\ LimiterInv)
<1> DEFINE I == UserInv /\ LimiterInv
<1>1. Init => I
  BY SyncInit
<1>2. BuiltInv /\ I /\ [Next]_vars => I'
  BY OnlyRequestsFail, SteadyUsers, AlikeWhenDeleted, UserNext, LimiterNext DEF BuiltInv
<1>3. Spec => []BuiltInv
  BY Built, OnlyRequestsFail
<1> HIDE DEF I
<1>4. Spec => []I
  BY <1>1, <1>2, <1>3, PTL DEF Spec
<1> QED BY <1>4 DEF I

\* Between two polls the handlers, relays and rules of the core are those of the controller's
\* node and list, and there are no others, whatever the lists are: no sequence of changes of
\* the panel, of requests that fail and of answers that cannot be read drives them apart.
THEOREM IdleHandlersInSync ==
  ASSUME OnlyRequestsFail
  PROVE  Spec => [](pc = "idle" => HandlersInSync)
<1>1. BuiltInv => (pc = "idle" => HandlersInSync)
  <2> SUFFICES ASSUME TypeInv, SafeInv, HandlerInv, RelayInv, pc = "idle"
               PROVE  HandlersInSync
    BY DEF BuiltInv
  <2> DEFINE L == subscriptionList
             relays == IF Relay THEN {RelayName(RelayTag, i) :
                                        i \in Keyed(L, DOMAIN L, relaynodeInfo.ss2022)}
                       ELSE {}
  <2>1. ~ frame.starting /\ ~ Early /\ ~ Closed /\ ~ Dead
    BY DEF TypeInv, Assigned, NoFrame, Early, Closed, Dead
  <2>2. inbounds = {Tag}
    BY <2>1 DEF HandlerInv
  <2>3. Relay = (nodeInfo.relay = "on")
    BY <2>1 DEF RelayInv, TypeInv, TypeOK
  <2>4. RelayOuts = relays /\ RelayRules = relays
    BY <2>1 DEF RelayInv, RelayList, OldRelays, Relays, RelayTag
  <2>5. outbounds = {NodeName(Tag), BlackholeName(Tag)} \cup relays
    <3>1. {NodeName(Tag), BlackholeName(Tag)} \subseteq outbounds
      BY <2>1 DEF HandlerInv
    <3>2. \A o \in outbounds : o \in {NodeName(Tag), BlackholeName(Tag)} \cup RelayOuts
      BY <2>1 DEF HandlerInv, RelayOuts
    <3>3. RelayOuts \subseteq outbounds
      BY DEF RelayOuts
    <3> HIDE DEF relays
    <3> QED BY <2>4, <3>1, <3>2, <3>3
  <2>6. {r.ruleTag : r \in rules} =
          relays \cup (IF nodeInfo.rules THEN {BlackholeName(Tag)} ELSE {})
                 \cup (IF nodeInfo.relay = "off" THEN {DefaultName(Tag)} ELSE {})
    <3>1. \A r \in rules :
            r.ruleTag.kind = "relay" \/ r = BlackholeRule(Tag) \/ r = DefaultRule(Tag)
      BY DEF SafeInv, RuleInv
    <3>2. /\ nodeInfo.rules <=> BlackholeRule(Tag) \in rules
          /\ nodeInfo.relay = "off" <=> DefaultRule(Tag) \in rules
      BY <2>1 DEF HandlerInv
    <3>3. /\ BlackholeRule(Tag).ruleTag = BlackholeName(Tag)
          /\ DefaultRule(Tag).ruleTag = DefaultName(Tag)
      BY DEF BlackholeRule, DefaultRule
    <3>4. \A r \in rules : r.ruleTag.kind = "relay" => r.ruleTag \in relays
      BY <2>4 DEF RelayRules
    <3>5. \A n \in relays : \E r \in rules : r.ruleTag = n
      BY <2>4 DEF RelayRules
    <3> HIDE DEF relays
    <3> QED BY <3>1, <3>2, <3>3, <3>4, <3>5
  <2> QED BY <2>2, <2>3, <2>5, <2>6 DEF HandlersInSync
<1> QED BY <1>1, Built, OnlyRequestsFail, PTL

\* And the core serves the accounts and limits of the controller's list, and no other accounts.
THEOREM IdleControllerInSync ==
  ASSUME OnlyRequestsFail, SteadyUsers, AlikeWhenDeleted
  PROVE  Spec => []IdleInSync
<1>1. BuiltInv /\ UserInv /\ LimiterInv /\ (pc = "idle" => HandlersInSync) => IdleInSync
  <2> SUFFICES ASSUME TypeInv, UserInv, LimiterInv, HandlersInSync, pc = "idle"
               PROVE  InSync
    BY DEF IdleInSync, BuiltInv
  <2>1. ~ frame.starting
    BY DEF TypeInv, Assigned, NoFrame
  <2>2. limiters = {Tag}
    BY <2>1 DEF LimiterInv, OldUsers
  <2>3. users[Tag] = Accounts(subscriptionList, DOMAIN subscriptionList, nodeInfo)
    BY <2>1 DEF UserInv, OldUsers
  <2>4. \A i \in DOMAIN subscriptionList :
          limits[Tag][UserOf(subscriptionList, i)] = subscriptionList[i].limit
    BY <2>1 DEF LimiterInv, OldUsers, Limited
  <2> QED BY <2>2, <2>3, <2>4 DEF InSync
<1> QED BY <1>1, IdleHandlersInSync, Built, Served, OnlyRequestsFail, SteadyUsers,
          AlikeWhenDeleted, PTL
-----------------------------------------------------------------------------
(* Relay rules and the tag. *)

\* Relay rules are for the inbound and the users they are made for.
FollowInv ==
  ~ Dead => \A r \in rules : r.ruleTag.kind = "relay" =>
    r = RelayRule(Tag, RelayTag, r.ruleTag.id, RelayList[r.ruleTag.id].email)

\* Without relays there are no relay rules.
LEMMA NoRelayRules ==
  ASSUME RelayInv, ~ Dead,
         \/ ~ Relay /\ pc \notin {"relayOut", "relayRule"}
         \/ pc = "delRelayOuts"
  PROVE  \A r \in rules : r.ruleTag.kind # "relay"
<1>1. RelayRules = {}
  BY DEF RelayInv
<1> QED BY <1>1 DEF RelayRules

\* Every action preserves it: none makes a relay rule but AddRelayRule, and the tag changes
\* only where there are none.
LEMMA FollowNext ==
  ASSUME OnlyRequestsFail, SteadyTag, BuiltInv, FollowInv, [Next]_vars
  PROVE  FollowInv'
<1> USE DEF BuiltInv
<1> USE DEF Goto, Abort, Panic, panelVars, clientVars, ctlVars, coreVars, limVars, NoFrame,
      TypeInv, TypeOK, Assigned, NoNodeYet, NoSubsYet, Dead, Frame, FollowInv, OldRelays,
      RelayList, Tag, RelayTag
<1>1. CASE EditPanel
  BY <1>1 DEF EditPanel
<1>2. CASE Boot
  BY <1>2 DEF Boot, ResetProcess
<1>3. CASE Poll
  BY <1>3 DEF Poll
<1>4. CASE FetchNode
  <2>1. pc = "node" /\ pc' = "subs" /\ UNCHANGED <<subscriptionList, relaynodeInfo, rules>>
    BY <1>4 DEF FetchNode
  <2>2. ~ frame.starting => nodeInfo' = nodeInfo
    BY <1>4 DEF FetchNode
  <2>3. frame.starting => ~ Relay
    BY <2>1 DEF RelayInv
  <2> QED BY <2>1, <2>2, <2>3, NoRelayRules
<1>5. CASE NodeNotModified
  BY <1>5 DEF NodeNotModified
<1>6. CASE NodeFails
  BY <1>6 DEF NodeFails
<1>7. CASE FetchSubs
  <2>1. pc = "subs" /\ UNCHANGED <<Relay, nodeInfo, relaynodeInfo, rules>>
    BY <1>7 DEF FetchSubs
  <2>2. /\ ~ frame.starting => subscriptionList' = subscriptionList
        /\ Relay => pc' = "delRelayRules"
    BY <1>7 DEF FetchSubs, AfterFetch, Updated
  <2>3. frame.starting => ~ Relay
    BY <2>1 DEF RelayInv
  <2> QED BY <2>1, <2>2, <2>3, NoRelayRules
<1>8. CASE SubsNotModified
  <2>1. pc = "subs" /\ UNCHANGED <<ctlVars, rules>> /\ frame'.subs = subscriptionList
    BY <1>8 DEF SubsNotModified
  <2> QED BY <2>1
<1>9. CASE SubsFails
  BY <1>9 DEF SubsFails
<1>10. CASE RemoveRelayRules
  <2>1. pc = "delRelayRules" /\ pc' = "delRelayOuts" /\ UNCHANGED <<ctlVars, frame>>
    BY <1>10 DEF RemoveRelayRules
  <2>2. \A r \in rules' : r \in rules
    BY <1>10 DEF RemoveRelayRules
  <2> QED BY <2>1, <2>2
<1>11. CASE RemoveRelayTag
  <2>1. pc = "delRelayOuts" /\ UNCHANGED rules
    BY <1>11 DEF RemoveRelayTag
  <2> QED BY <2>1, NoRelayRules
<1>12. CASE GetTransitNode
  <2>1. pc = "transit" /\ UNCHANGED rules
    BY <1>12 DEF GetTransitNode
  <2>2. ~ Relay
    BY <2>1 DEF RelayInv
  <2> QED BY <2>1, <2>2, NoRelayRules
<1>13. CASE TransitMissing
  BY <1>13 DEF TransitMissing
<1>14. CASE AddRelayOutbound
  <2>1. /\ pc = "relayOut" /\ pc' = "relayRule" /\ frame'.subs = frame.subs
        /\ UNCHANGED <<ctlVars, rules>>
    BY <1>14 DEF AddRelayOutbound
  <2> QED BY <2>1
<1>15. CASE AddRelayRule
  <2> DEFINE new == RelayRule(Tag, RelayTag, frame.cur, frame.subs[frame.cur].email)
  <2>1. /\ pc = "relayRule" /\ pc' = "relayOut" /\ frame'.subs = frame.subs
        /\ UNCHANGED ctlVars /\ rules' = rules \cup {new}
    BY <1>15 DEF AddRelayRule
  <2>2. new.ruleTag.id = frame.cur
    BY DEF RelayRule, RelayName
  <2>3. new = RelayRule(Tag, RelayTag, new.ruleTag.id, frame.subs[new.ruleTag.id].email)
    BY <2>2
  <2> HIDE DEF new
  <2> QED BY <2>1, <2>3
<1>16. CASE RelayFails
  BY <1>16 DEF RelayFails
<1>17. CASE RelayAdded
  <2>1. /\ pc = "relayOut" /\ pc' \in {"blackholeOut", "apply"}
        /\ UNCHANGED <<nodeInfo, subscriptionList, relaynodeInfo, frame, rules>>
    BY <1>17 DEF RelayAdded, Build
  <2> QED BY <2>1
<1>18. CASE Apply
  <2>1. /\ pc = "apply" /\ pc' \in {"delIn", "delUsers", "finish"}
        /\ UNCHANGED <<ctlVars, rules>>
        /\ frame'.subs = frame.subs
    BY <1>18 DEF Apply
  <2> QED BY <2>1
<1>19. CASE RemoveInbound
  <2>1. pc = "delIn" /\ pc' = "delOut" /\ UNCHANGED <<frame, ctlVars, rules>>
    BY <1>19, RemovalSucceeds DEF RemoveInbound
  <2> QED BY <2>1
<1>20. CASE RemoveOutbound
  <2>1. pc = "delOut" /\ pc' = "delDefault" /\ UNCHANGED <<frame, ctlVars, rules>>
    BY <1>20 DEF RemoveOutbound
  <2> QED BY <2>1
<1>21. CASE RemoveDefaultRule
  <2>1. pc = "delDefault" /\ pc' = "delBlackholeRule" /\ UNCHANGED <<ctlVars, frame>>
    BY <1>21 DEF RemoveDefaultRule
  <2>2. \A r \in rules' : r \in rules
    BY <1>21 DEF RemoveDefaultRule
  <2> QED BY <2>1, <2>2
<1>22. CASE RemoveBlackholeRule
  <2>1. pc = "delBlackholeRule" /\ pc' = "delBlackholeOut" /\ UNCHANGED <<ctlVars, frame>>
    BY <1>22 DEF RemoveBlackholeRule
  <2>2. \A r \in rules' : r \in rules
    BY <1>22 DEF RemoveBlackholeRule
  <2> QED BY <2>1, <2>2
<1>23. CASE RemoveBlackholeOutbound
  <2>1. /\ pc = "delBlackholeOut" /\ pc' = "blackholeOut" /\ nodeInfo' = frame.node
        /\ UNCHANGED <<subscriptionList, Relay, relaynodeInfo, frame, rules>>
    BY <1>23 DEF RemoveBlackholeOutbound
  <2>2. CASE ~ Relay
    BY <2>1, <2>2, NoRelayRules
  <2>3. CASE Relay
    <3>1. frame.node.relay = "on" /\ frame.node \in Infos /\ nodeInfo \in Infos
      BY <2>1, <2>3 DEF RelayInv, OldRelays, PanelInv
    <3>2. nodeInfo.tag = frame.node.tag
      BY <3>1 DEF SteadyTag, Infos
    <3> QED BY <2>1, <3>2
  <2> QED BY <2>2, <2>3
<1>24. CASE AddBlackholeOutbound
  <2>1. pc = "blackholeOut" /\ pc' = "blackholeRule" /\ UNCHANGED <<frame, ctlVars, rules>>
    BY <1>24, BuildSucceeds DEF AddBlackholeOutbound
  <2> QED BY <2>1
<1>25. CASE AddBlackholeRule
  <2>1. /\ pc = "blackholeRule" /\ pc' = "in" /\ UNCHANGED <<frame, ctlVars>>
        /\ rules' \subseteq rules \cup {BlackholeRule(Tag)}
    BY <1>25, BuildSucceeds DEF AddBlackholeRule
  <2>2. BlackholeRule(Tag).ruleTag.kind # "relay"
    BY RelayKinds DEF BlackholeRule
  <2> QED BY <2>1, <2>2
<1>26. CASE AddInbound
  <2>1. pc = "in" /\ pc' = "out" /\ UNCHANGED <<frame, ctlVars, rules>>
    BY <1>26, BuildSucceeds DEF AddInbound
  <2> QED BY <2>1
<1>27. CASE AddOutbound
  <2>1. pc = "out" /\ pc' = "default" /\ UNCHANGED <<frame, ctlVars, rules>>
    BY <1>27, BuildSucceeds DEF AddOutbound
  <2> QED BY <2>1
<1>28. CASE AddDefaultRule
  <2>1. /\ pc = "default" /\ pc' \in {"addUsers", "delLimiter"}
        /\ UNCHANGED <<frame, ctlVars>>
        /\ rules' \subseteq rules \cup {DefaultRule(Tag)}
    BY <1>28, BuildSucceeds DEF AddDefaultRule
  <2>2. DefaultRule(Tag).ruleTag.kind # "relay"
    BY RelayKinds DEF DefaultRule
  <2> QED BY <2>1, <2>2
<1>29. CASE DeleteLimiter
  <2>1. pc = "delLimiter" /\ pc' = "addUsers" /\ UNCHANGED <<frame, ctlVars, rules>>
    BY <1>29 DEF DeleteLimiter
  <2> QED BY <2>1
<1>30. CASE AddUsers
  <2>1. pc = "addUsers" /\ pc' = "addLimiter" /\ UNCHANGED <<frame, ctlVars, rules>>
    BY <1>30, AddingSucceeds DEF AddUsers
  <2> QED BY <2>1
<1>31. CASE AddLimiter
  <2>1. pc = "addLimiter" /\ pc' = "finish" /\ UNCHANGED <<frame, ctlVars, rules>>
    BY <1>31 DEF AddLimiter
  <2> QED BY <2>1
<1>32. CASE RemoveUsers
  <2>1. pc = "delUsers" /\ pc' = "newUsers" /\ UNCHANGED <<frame, ctlVars, rules>>
    BY <1>32 DEF RemoveUsers
  <2> QED BY <2>1
<1>33. CASE AddNewUsers
  <2>1. /\ pc = "newUsers" /\ pc' \in {"newLimits", "modLimits"}
        /\ UNCHANGED <<frame, ctlVars, rules>>
    BY <1>33 DEF AddNewUsers
  <2> QED BY <2>1
<1>34. CASE LimitNewUsers
  <2>1. pc = "newLimits" /\ pc' = "modLimits" /\ UNCHANGED <<frame, ctlVars, rules>>
    BY <1>34 DEF LimitNewUsers
  <2> QED BY <2>1
<1>35. CASE LimitModifiedUsers
  <2>1. pc = "modLimits" /\ pc' = "finish" /\ UNCHANGED <<frame, ctlVars, rules>>
    BY <1>35 DEF LimitModifiedUsers
  <2> QED BY <2>1
<1>36. CASE Finish
  <2>1. /\ pc = "finish" /\ pc' = "idle" /\ subscriptionList' = frame.subs
        /\ UNCHANGED <<nodeInfo, relaynodeInfo, rules>>
    BY <1>36 DEF Finish
  <2> QED BY <2>1
<1>37. CASE UNCHANGED vars
  BY <1>37 DEF vars
<1> QED
  BY <1>1, <1>2, <1>3, <1>4, <1>5, <1>6, <1>7, <1>8, <1>9, <1>10, <1>11, <1>12, <1>13,
        <1>14, <1>15, <1>16, <1>17, <1>18, <1>19, <1>20, <1>21, <1>22, <1>23, <1>24, <1>25, <1>26,
        <1>27, <1>28, <1>29, <1>30, <1>31, <1>32, <1>33, <1>34, <1>35, <1>36, <1>37 DEF Next,
        Fetched, Step

\* The relay rules match the traffic of the open inbound and of the users of the list, as long
\* as the tag does not change: when it does, AddRelayTag is given the former one.
THEOREM RelaysFollowSteadyTag ==
  ASSUME OnlyRequestsFail, SteadyTag
  PROVE  Spec => []RelayFollowsTag
<1>1. Init => FollowInv
  BY DEF Init, FollowInv
<1>2. BuiltInv /\ FollowInv /\ [Next]_vars => FollowInv'
  BY OnlyRequestsFail, SteadyTag, FollowNext
<1>3. BuiltInv /\ FollowInv => RelayFollowsTag
  <2> SUFFICES ASSUME BuiltInv, FollowInv, pc = "idle", Relay,
                      NEW i \in Keyed(subscriptionList, DOMAIN subscriptionList,
                                      relaynodeInfo.ss2022)
               PROVE  RelayRule(Tag, RelayTag, i, subscriptionList[i].email) \in rules
    BY DEF RelayFollowsTag
  <2>1. RelayRules = Relays(relaynodeInfo, subscriptionList, DOMAIN subscriptionList)
    BY DEF BuiltInv, RelayInv, Dead, RelayList, OldRelays
  <2>2. RelayName(RelayTag, i) \in RelayRules
    BY <2>1 DEF Relays, RelayTag
  <2>3. PICK r \in rules : r.ruleTag.kind = "relay" /\ r.ruleTag = RelayName(RelayTag, i)
    BY <2>2 DEF RelayRules
  <2>4. r.ruleTag.id = i
    BY <2>3 DEF RelayName
  <2>5. r = RelayRule(Tag, RelayTag, i, subscriptionList[i].email)
    BY <2>3, <2>4 DEF FollowInv, Dead, RelayList, OldRelays
  <2> QED BY <2>5
<1> QED BY <1>1, <1>2, <1>3, Built, OnlyRequestsFail, PTL DEF Spec
=============================================================================
