------------------------------ MODULE Controller ------------------------------
(***************************************************************************)
(* One node controller of controller/controller.go: Start and the periodic *)
(* nodeInfoMonitor, with the client calls (api/), the handler and router   *)
(* changes (node/node.go) and the user changes (subscription/) they make.  *)
(*                                                                         *)
(* The panel may be edited at any moment, between two requests of one poll *)
(* too.  Each call that changes what connections see (a handler, a rule, a *)
(* user, a limiter) is a step of its own: traffic is served meanwhile.     *)
(*                                                                         *)
(* Abstractions.  An ETag is the content it was served with.  User keys    *)
(* "tag|email|id" keep email and id: the tag is always that of the inbound *)
(* or limiter holding the key.  c.Tag and c.RelayTag are functions of      *)
(* c.nodeInfo and c.relaynodeInfo.                                         *)
(***************************************************************************)
EXTENDS Integers, FiniteSets

CONSTANTS
  Tags,         \* node tags "<type>_<port>_<id>"
  RelayTags,    \* relay tags "Relay_<type>_<port>_<id>"
  Ids,          \* subscription ids
  Emails,
  Passwds,
  ShortPasswds, \* passwords a Shadowsocks 2022 method refuses
  Limits,       \* speed and IP limits of a subscription
  Configs,      \* what /api/server/info may serve
  SubLists,     \* what /api/server/subscription/lists may serve
  Faults,       \* the failures this instance allows
  MaxEdits,     \* bound on the edits of the panel
  None          \* nil

RelayModes == {"off", "on", "other"}
NodeInfo   == [tag : Tags, rules : BOOLEAN, relay : RelayModes, ss2022 : BOOLEAN]
Transit    == [tag : RelayTags, ss2022 : BOOLEAN]
Config     == [info : NodeInfo, transit : SUBSET Transit]
Sub        == [email : Emails, passwd : Passwds, limit : Limits]
SubList    == UNION {[I -> Sub] : I \in SUBSET Ids}
User       == [id : Ids, email : Emails]
Account    == [id : Ids, email : Emails, passwd : Passwds]

FaultKinds ==
  { "node",    \* GetNodeInfo fails before an answer arrives
    "subs",    \* GetSubscriptionList does
    "body",    \* either answers 200 with a body that does not parse
    "rule",    \* RouterBuilder refuses the blocking rules
    "build",   \* an inbound or relay outbound cannot be built
    "listen",  \* an inbound is registered but cannot listen
    "user" }   \* AddUser refuses an account

ASSUME ControllerAssumption ==
  /\ Configs \subseteq Config /\ SubLists \subseteq SubList
  /\ Configs # {} /\ SubLists # {}
  /\ ShortPasswds \subseteq Passwds
  /\ Faults \subseteq FaultKinds
  /\ MaxEdits \in Nat
  /\ None \notin NodeInfo \cup Transit \cup Config \cup SubList \cup Limits \cup Ids \cup User

\* Names of outbounds and of rules.
Name == [kind : {"node", "blackhole", "relay", "default"},
         tag : Tags \cup RelayTags, id : Ids \cup {None}]
NodeName(t)       == [kind |-> "node",      tag |-> t,  id |-> None]
BlackholeName(t)  == [kind |-> "blackhole", tag |-> t,  id |-> None]
DefaultName(t)    == [kind |-> "default",   tag |-> t,  id |-> None]
RelayName(rt, i)  == [kind |-> "relay",     tag |-> rt, id |-> i]

\* A router rule: its tag, the inbound and the user it matches, its target.
Rule == [ruleTag : Name, inTag : Tags, user : User \cup {None}, out : Name]
BlackholeRule(t) == [ruleTag |-> BlackholeName(t), inTag |-> t, user |-> None,
                     out |-> BlackholeName(t)]
DefaultRule(t)   == [ruleTag |-> DefaultName(t), inTag |-> t, user |-> None,
                     out |-> NodeName(t)]
RelayRule(t, rt, i, email) ==
  [ruleTag |-> RelayName(rt, i), inTag |-> t,
   user |-> [id |-> i, email |-> email], out |-> RelayName(rt, i)]

VARIABLES
  panel,            \* [conf, subs] the panel serves now
  edits,
  etagServer, etagSubs,  \* Client.eTags
  resp,             \* Client.resp, what GetTransitNode reads
  nodeInfo, subscriptionList, Relay, relaynodeInfo,  \* fields of Controller
  pc, frame,        \* where Start or nodeInfoMonitor is, and its locals
  inbounds,         \* tags with an inbound handler
  users,            \* accounts of the inbound of a tag
  outbounds, rules, \* of the outbound manager and the router
  limiters, limits  \* tags with an InboundInfo, and its SubscriptionInfo

panelVars  == <<panel, edits>>
clientVars == <<etagServer, etagSubs, resp>>
ctlVars    == <<nodeInfo, subscriptionList, Relay, relaynodeInfo>>
coreVars   == <<inbounds, users, outbounds, rules>>
limVars    == <<limiters, limits>>
vars == <<panelVars, clientVars, ctlVars, pc, frame, coreVars, limVars>>

Tag == nodeInfo.tag
RelayTag == relaynodeInfo.tag

Frame == [starting : BOOLEAN, node : NodeInfo \cup {None}, subs : SubList \cup {None},
          nodeChanged : BOOLEAN, subsChanged : BOOLEAN,
          oldTag : Tags \cup {None}, todo : SUBSET Ids, cur : Ids \cup {None}]
NoFrame == [starting |-> FALSE, node |-> None, subs |-> None,
            nodeChanged |-> FALSE, subsChanged |-> FALSE,
            oldTag |-> None, todo |-> {}, cur |-> None]

PCs == {"down", "panicked", "idle", "node", "subs", "delRelayRules",
        "delRelayOuts", "transit", "relayOut", "relayRule", "apply", "delIn",
        "delOut", "delDefault", "delBlackholeRule", "delBlackholeOut",
        "blackholeOut", "blackholeRule", "in", "out", "default", "delLimiter",
        "addUsers", "addLimiter", "delUsers", "newUsers", "newLimits",
        "modLimits", "finish"}
-----------------------------------------------------------------------------
Goto(l) == pc' = l

\* An error return: the poll is over until the next tick, Start ends the
\* process (Manager.Start panics on it).
Abort ==
  /\ pc' = IF frame.starting THEN "down" ELSE "idle"
  /\ frame' = NoFrame

\* log.Panic in the monitor's goroutine ends the process.
Panic == pc' = "panicked" /\ frame' = NoFrame

NoLimits == [u \in User |-> None]

UserOf(subs, i) == [id |-> i, email |-> subs[i].email]

\* The subscriptions whose password can be made a key of the method.
Keyed(subs, ids, ss2022) == {i \in ids : ~ (ss2022 /\ subs[i].passwd \in ShortPasswds)}

\* The accounts Build*Users makes of the subscriptions ids.
Accounts(subs, ids, info) ==
  {[id |-> i, email |-> subs[i].email, passwd |-> subs[i].passwd] :
     i \in Keyed(subs, ids, info.ss2022)}

Known(a, S) == \E b \in S : b.id = a.id /\ b.email = a.email

\* limits of tag t after the subscriptions ids are stored over base.
StoreLimits(base, subs, ids) ==
  [u \in User |-> IF u.id \in ids /\ u = UserOf(subs, u.id)
                  THEN subs[u.id].limit ELSE base[u]]

\* Mutant: a changed subscription counts as deleted.
Deleted_Whole == {i \in DOMAIN subscriptionList :
                    ~ (i \in DOMAIN frame.subs /\ frame.subs[i] = subscriptionList[i])}

Deleted  == DOMAIN subscriptionList \ DOMAIN frame.subs
Added    == DOMAIN frame.subs \ DOMAIN subscriptionList
Modified == {i \in DOMAIN frame.subs \cap DOMAIN subscriptionList :
               frame.subs[i] # subscriptionList[i]}

ResetProcess ==
  /\ etagServer' = None /\ etagSubs' = None /\ resp' = None
  /\ nodeInfo' = None /\ subscriptionList' = None
  /\ Relay' = FALSE /\ relaynodeInfo' = None
  /\ inbounds' = {} /\ users' = [t \in Tags |-> {}]
  /\ outbounds' = {} /\ rules' = {}
  /\ limiters' = {} /\ limits' = [t \in Tags |-> NoLimits]

Init ==
  /\ panel \in [conf : Configs, subs : SubLists]
  /\ edits = 0
  /\ etagServer = None /\ etagSubs = None /\ resp = None
  /\ nodeInfo = None /\ subscriptionList = None
  /\ Relay = FALSE /\ relaynodeInfo = None
  /\ pc = "down" /\ frame = NoFrame
  /\ inbounds = {} /\ users = [t \in Tags |-> {}]
  /\ outbounds = {} /\ rules = {}
  /\ limiters = {} /\ limits = [t \in Tags |-> NoLimits]
-----------------------------------------------------------------------------
(* The panel. *)

EditPanel ==
  /\ edits < MaxEdits
  /\ \/ \E c \in Configs \ {panel.conf} : panel' = [panel EXCEPT !.conf = c]
     \/ \E s \in SubLists \ {panel.subs} : panel' = [panel EXCEPT !.subs = s]
  /\ edits' = edits + 1
  /\ UNCHANGED <<clientVars, ctlVars, pc, frame, coreVars, limVars>>
-----------------------------------------------------------------------------
(* Start of the process, and the tick of the monitor. *)

Boot ==
  /\ pc \in {"down", "panicked"}
  /\ ResetProcess
  /\ Goto("node")
  /\ frame' = [NoFrame EXCEPT !.starting = TRUE]
  /\ UNCHANGED panelVars

Poll ==
  /\ pc = "idle"
  /\ Goto("node")
  /\ UNCHANGED <<panelVars, clientVars, ctlVars, frame, coreVars, limVars>>
-----------------------------------------------------------------------------
(* GetNodeInfo. *)

FetchNode ==
  /\ pc = "node" /\ etagServer # panel.conf
  /\ etagServer' = panel.conf
  /\ resp' = panel.conf
  /\ frame' = [frame EXCEPT !.node = panel.conf.info, !.nodeChanged = TRUE]
  /\ nodeInfo' = IF frame.starting THEN panel.conf.info ELSE nodeInfo
  /\ Goto("subs")
  /\ UNCHANGED <<panelVars, etagSubs, subscriptionList, Relay, relaynodeInfo,
                 coreVars, limVars>>

\* Mutant: the stored answer itself is taken for the node.
NodeNotModified_Answer ==
  /\ pc = "node" /\ etagServer = panel.conf
  /\ frame' = [frame EXCEPT !.node = etagServer, !.nodeChanged = FALSE]
  /\ Goto("subs")
  /\ UNCHANGED <<panelVars, clientVars, ctlVars, coreVars, limVars>>

NodeNotModified ==
  /\ pc = "node" /\ etagServer = panel.conf
  /\ frame' = [frame EXCEPT !.node = nodeInfo, !.nodeChanged = FALSE]
  /\ Goto("subs")
  /\ UNCHANGED <<panelVars, clientVars, ctlVars, coreVars, limVars>>

\* The ETag is stored before the body is looked at; resp is stored before
\* NodeResponse translates it.
NodeFails ==
  /\ pc = "node"
  /\ \/ "node" \in Faults /\ UNCHANGED clientVars
     \/ /\ "body" \in Faults /\ etagServer # panel.conf
        /\ etagServer' = panel.conf
        /\ resp' \in {resp, panel.conf}
        /\ UNCHANGED etagSubs
  /\ Abort
  /\ UNCHANGED <<panelVars, ctlVars, coreVars, limVars>>
-----------------------------------------------------------------------------
(* GetSubscriptionList, and what is done next. *)

\* Mutant: Start skips AddRuleTag.
Build_NoRules(f) == IF f.starting THEN "in" ELSE "apply"

\* After the relay part: Start builds the node, the monitor looks at changes.
Build(f) == IF f.starting THEN "blackholeOut" ELSE "apply"

Updated(f) == f.nodeChanged \/ f.subsChanged

AfterTeardown(f) ==
  IF f.node.relay = "on" /\ Updated(f) THEN "transit" ELSE Build(f)

AfterFetch(f) ==
  IF Relay /\ Updated(f) THEN "delRelayRules" ELSE AfterTeardown(f)

FetchSubs ==
  /\ pc = "subs" /\ etagSubs # panel.subs
  /\ etagSubs' = panel.subs
  /\ LET f == [frame EXCEPT !.subs = panel.subs, !.subsChanged = TRUE]
     IN  frame' = f /\ Goto(AfterFetch(f))
  /\ subscriptionList' = IF frame.starting THEN panel.subs ELSE subscriptionList
  /\ UNCHANGED <<panelVars, etagServer, resp, nodeInfo, Relay, relaynodeInfo,
                 coreVars, limVars>>

SubsNotModified ==
  /\ pc = "subs" /\ etagSubs = panel.subs
  /\ LET f == [frame EXCEPT !.subs = subscriptionList]
     IN  frame' = f /\ Goto(AfterFetch(f))
  /\ UNCHANGED <<panelVars, clientVars, ctlVars, coreVars, limVars>>

SubsFails ==
  /\ pc = "subs"
  /\ \/ "subs" \in Faults /\ UNCHANGED clientVars
     \/ /\ "body" \in Faults /\ etagSubs # panel.subs
        /\ etagSubs' = panel.subs
        /\ UNCHANGED <<etagServer, resp>>
  /\ Abort
  /\ UNCHANGED <<panelVars, ctlVars, coreVars, limVars>>
-----------------------------------------------------------------------------
(* Relays: torn down with the old list, built again with the new one. *)

\* Mutant: the rules of the relays are left in the router.
RemoveRelayRules_Forgotten ==
  /\ pc = "delRelayRules"
  /\ Goto("delRelayOuts")
  /\ UNCHANGED <<panelVars, clientVars, ctlVars, frame, coreVars, limVars>>

RemoveRelayRules ==
  /\ pc = "delRelayRules"
  /\ rules' = {r \in rules : \A i \in DOMAIN subscriptionList :
                               r.ruleTag # RelayName(RelayTag, i)}
  /\ Goto("delRelayOuts")
  /\ UNCHANGED <<panelVars, clientVars, ctlVars, frame, inbounds, users,
                 outbounds, limVars>>

\* Mutant: their outbounds are left in the outbound manager.
RemoveRelayTag_Forgotten ==
  /\ pc = "delRelayOuts"
  /\ Relay' = FALSE
  /\ Goto(AfterTeardown(frame))
  /\ UNCHANGED <<panelVars, clientVars, nodeInfo, subscriptionList, relaynodeInfo,
                 frame, coreVars, limVars>>

RemoveRelayTag ==
  /\ pc = "delRelayOuts"
  /\ outbounds' = outbounds \ {RelayName(RelayTag, i) : i \in DOMAIN subscriptionList}
  /\ Relay' = FALSE
  /\ Goto(AfterTeardown(frame))
  /\ UNCHANGED <<panelVars, clientVars, nodeInfo, subscriptionList, relaynodeInfo,
                 frame, inbounds, users, rules, limVars>>

\* The transit node is read from the last answer stored, whether it was
\* applied or not.  A transit port range gives one of several relay tags.  A
\* subscription that has no key for the relay gets no outbound there.
GetTransitNode ==
  /\ pc = "transit"
  /\ \E relay \in resp.transit :
       /\ relaynodeInfo' = relay
       /\ frame' = [frame EXCEPT !.todo = Keyed(frame.subs, DOMAIN frame.subs, relay.ss2022)]
  /\ Goto("relayOut")
  /\ UNCHANGED <<panelVars, clientVars, nodeInfo, subscriptionList, Relay,
                 coreVars, limVars>>

\* The answer has no transit node: nil dereference of its settings.
TransitMissing ==
  /\ pc = "transit" /\ resp.transit = {}
  /\ Panic
  /\ UNCHANGED <<panelVars, clientVars, ctlVars, coreVars, limVars>>

AddRelayOutbound ==
  /\ pc = "relayOut"
  /\ \E i \in frame.todo :
       /\ RelayName(RelayTag, i) \notin outbounds
       /\ outbounds' = outbounds \cup {RelayName(RelayTag, i)}
       /\ frame' = [frame EXCEPT !.todo = @ \ {i}, !.cur = i]
  /\ Goto("relayRule")
  /\ UNCHANGED <<panelVars, clientVars, ctlVars, inbounds, users, rules, limVars>>

\* The rule names c.Tag, which is still the old tag when the node changes.
AddRelayRule ==
  /\ pc = "relayRule"
  /\ ~ \E r \in rules : r.ruleTag = RelayName(RelayTag, frame.cur)
  /\ rules' = rules \cup {RelayRule(Tag, RelayTag, frame.cur,
                                    frame.subs[frame.cur].email)}
  /\ frame' = [frame EXCEPT !.cur = None]
  /\ Goto("relayOut")
  /\ UNCHANGED <<panelVars, clientVars, ctlVars, inbounds, users, outbounds, limVars>>

\* "existing tag found", or the outbound cannot be built: log.Panic.
RelayFails ==
  /\ \/ /\ pc = "relayOut"
        /\ \E i \in frame.todo :
             "build" \in Faults \/ RelayName(RelayTag, i) \in outbounds
     \/ /\ pc = "relayRule"
        /\ \E r \in rules : r.ruleTag = RelayName(RelayTag, frame.cur)
  /\ Panic
  /\ UNCHANGED <<panelVars, clientVars, ctlVars, coreVars, limVars>>

RelayAdded ==
  /\ pc = "relayOut" /\ frame.todo = {}
  /\ Relay' = TRUE
  /\ Goto(Build(frame))
  /\ UNCHANGED <<panelVars, clientVars, nodeInfo, subscriptionList, relaynodeInfo,
                 frame, coreVars, limVars>>
-----------------------------------------------------------------------------
(* The node: removed under its old tag, built again under the new one. *)

\* Mutant: a change of the list is looked at first, and instead of one of the node.
Apply_ListFirst ==
  /\ pc = "apply"
  /\ \/ /\ ~ frame.subsChanged
        /\ frame.nodeChanged /\ frame.node # nodeInfo
        /\ frame' = [frame EXCEPT !.oldTag = Tag]
        /\ Goto("delIn")
     \/ /\ frame.subsChanged \/ ~ (frame.nodeChanged /\ frame.node # nodeInfo)
        /\ Goto(IF frame.subsChanged THEN "delUsers" ELSE "finish")
        /\ UNCHANGED frame
  /\ UNCHANGED <<panelVars, clientVars, ctlVars, coreVars, limVars>>

\* A node that is deeply equal to the old one is no change.
Apply ==
  /\ pc = "apply"
  /\ \/ /\ frame.nodeChanged /\ frame.node # nodeInfo
        /\ frame' = [frame EXCEPT !.oldTag = Tag]
        /\ Goto("delIn")
     \/ /\ ~ (frame.nodeChanged /\ frame.node # nodeInfo)
        /\ Goto(IF frame.subsChanged THEN "delUsers" ELSE "finish")
        /\ UNCHANGED frame
  /\ UNCHANGED <<panelVars, clientVars, ctlVars, coreVars, limVars>>

\* Mutant: RemoveTag skips the inbound.
RemoveInbound_Skipped ==
  /\ pc = "delIn"
  /\ Goto("delOut")
  /\ UNCHANGED <<panelVars, clientVars, ctlVars, frame, coreVars, limVars>>

\* The inbound manager answers ErrNoClue for a tag it does not know, and the
\* poll ends there.  The accounts live in the inbound and go with it.
RemoveInbound ==
  /\ pc = "delIn"
  /\ \/ /\ Tag \in inbounds
        /\ inbounds' = inbounds \ {Tag}
        /\ users' = [users EXCEPT ![Tag] = {}]
        /\ Goto("delOut")
        /\ UNCHANGED frame
     \/ /\ Tag \notin inbounds
        /\ Abort
        /\ UNCHANGED <<inbounds, users>>
  /\ UNCHANGED <<panelVars, clientVars, ctlVars, outbounds, rules, limVars>>

RemoveOutbound ==
  /\ pc = "delOut"
  /\ outbounds' = outbounds \ {NodeName(Tag)}
  /\ Goto("delDefault")
  /\ UNCHANGED <<panelVars, clientVars, ctlVars, frame, inbounds, users, rules, limVars>>

\* Mutant: RemoveTag leaves the default rule.
RemoveDefaultRule_Forgotten ==
  /\ pc = "delDefault"
  /\ Goto("delBlackholeRule")
  /\ UNCHANGED <<panelVars, clientVars, ctlVars, frame, coreVars, limVars>>

RemoveDefaultRule ==
  /\ pc = "delDefault"
  /\ rules' = {r \in rules : r.ruleTag # DefaultName(Tag)}
  /\ Goto("delBlackholeRule")
  /\ UNCHANGED <<panelVars, clientVars, ctlVars, frame, inbounds, users,
                 outbounds, limVars>>

RemoveBlackholeRule ==
  /\ pc = "delBlackholeRule"
  /\ rules' = {r \in rules : r.ruleTag # BlackholeName(Tag)}
  /\ Goto("delBlackholeOut")
  /\ UNCHANGED <<panelVars, clientVars, ctlVars, frame, inbounds, users,
                 outbounds, limVars>>

\* c.nodeInfo and c.Tag change here, between the old node and the new one.
RemoveBlackholeOutbound ==
  /\ pc = "delBlackholeOut"
  /\ outbounds' = outbounds \ {BlackholeName(Tag)}
  /\ nodeInfo' = frame.node
  /\ Goto("blackholeOut")
  /\ UNCHANGED <<panelVars, clientVars, subscriptionList, Relay, relaynodeInfo,
                 frame, inbounds, users, rules, limVars>>

AddBlackholeOutbound ==
  /\ pc = "blackholeOut"
  /\ \/ /\ BlackholeName(Tag) \notin outbounds
        /\ outbounds' = outbounds \cup {BlackholeName(Tag)}
        /\ Goto("blackholeRule")
        /\ UNCHANGED frame
     \/ /\ BlackholeName(Tag) \in outbounds
        /\ Abort /\ UNCHANGED outbounds
  /\ UNCHANGED <<panelVars, clientVars, ctlVars, inbounds, users, rules, limVars>>

\* Without blocking rules the router is given an empty list.
AddBlackholeRule ==
  /\ pc = "blackholeRule"
  /\ \/ /\ BlackholeRule(Tag) \notin rules
        /\ rules' = IF nodeInfo.rules THEN rules \cup {BlackholeRule(Tag)} ELSE rules
        /\ Goto("in")
        /\ UNCHANGED frame
     \/ /\ \/ "rule" \in Faults
           \/ nodeInfo.rules /\ BlackholeRule(Tag) \in rules
        /\ Abort /\ UNCHANGED rules
  /\ UNCHANGED <<panelVars, clientVars, ctlVars, inbounds, users, outbounds, limVars>>

\* A handler that cannot listen stays registered in the inbound manager.
AddInbound ==
  /\ pc = "in"
  /\ \/ /\ Tag \notin inbounds
        /\ inbounds' = inbounds \cup {Tag}
        /\ \/ Goto("out") /\ UNCHANGED frame
           \/ "listen" \in Faults /\ Abort
     \/ /\ "build" \in Faults \/ Tag \in inbounds
        /\ Abort /\ UNCHANGED inbounds
  /\ UNCHANGED <<panelVars, clientVars, ctlVars, users, outbounds, rules, limVars>>

AddOutbound ==
  /\ pc = "out"
  /\ \/ /\ NodeName(Tag) \notin outbounds
        /\ outbounds' = outbounds \cup {NodeName(Tag)}
        /\ Goto("default")
        /\ UNCHANGED frame
     \/ /\ NodeName(Tag) \in outbounds
        /\ Abort /\ UNCHANGED outbounds
  /\ UNCHANGED <<panelVars, clientVars, ctlVars, inbounds, users, rules, limVars>>

AddDefaultRule ==
  /\ pc = "default"
  /\ \/ /\ nodeInfo.relay # "off" \/ DefaultRule(Tag) \notin rules
        /\ rules' = IF nodeInfo.relay = "off" THEN rules \cup {DefaultRule(Tag)} ELSE rules
        /\ Goto(IF frame.starting THEN "addUsers" ELSE "delLimiter")
        /\ UNCHANGED frame
     \/ /\ nodeInfo.relay = "off" /\ DefaultRule(Tag) \in rules
        /\ Abort /\ UNCHANGED rules
  /\ UNCHANGED <<panelVars, clientVars, ctlVars, inbounds, users, outbounds, limVars>>

DeleteLimiter ==
  /\ pc = "delLimiter"
  /\ limiters' = limiters \ {frame.oldTag}
  /\ limits' = [limits EXCEPT ![frame.oldTag] = NoLimits]
  /\ Goto("addUsers")
  /\ UNCHANGED <<panelVars, clientVars, ctlVars, frame, coreVars>>
-----------------------------------------------------------------------------
(* Users.  AddUser and RemoveUser go one account at a time and stop at the *)
(* first error; the accounts before it have been added or removed.         *)

AddAll(new) ==
  /\ new = {} \/ Tag \in inbounds
  /\ \A a \in new : ~ Known(a, users[Tag])
  /\ users' = [users EXCEPT ![Tag] = @ \cup new]

AddSome(new) ==
  /\ new # {}
  /\ \/ Tag \notin inbounds /\ UNCHANGED users
     \/ /\ Tag \in inbounds
        /\ \E bad \in new, done \in SUBSET new :
             /\ "user" \in Faults \/ Known(bad, users[Tag])
             /\ bad \notin done /\ \A a \in done : ~ Known(a, users[Tag])
             /\ users' = [users EXCEPT ![Tag] = @ \cup done]

AddUsers ==
  /\ pc = "addUsers"
  /\ LET new == Accounts(frame.subs, DOMAIN frame.subs, frame.node) IN
     \/ AddAll(new) /\ Goto("addLimiter") /\ UNCHANGED frame
     \/ AddSome(new) /\ Abort
  /\ UNCHANGED <<panelVars, clientVars, ctlVars, inbounds, outbounds, rules, limVars>>

AddLimiter ==
  /\ pc = "addLimiter"
  /\ limiters' = limiters \cup {Tag}
  /\ limits' = [limits EXCEPT ![Tag] =
                  StoreLimits(NoLimits, frame.subs, DOMAIN frame.subs)]
  /\ Goto("finish")
  /\ UNCHANGED <<panelVars, clientVars, ctlVars, frame, coreVars>>

\* RemoveUser looks for the email the old list had.
Gone == {UserOf(subscriptionList, i) : i \in Deleted}
Matches(u) == {a \in users[Tag] : a.id = u.id /\ a.email = u.email}

RemoveUsers ==
  /\ pc = "delUsers"
  /\ \/ /\ Gone = {} \/ Tag \in inbounds
        /\ \A u \in Gone : Matches(u) # {}
        /\ users' = [users EXCEPT ![Tag] = @ \ UNION {Matches(u) : u \in Gone}]
     \/ \E bad \in Gone, done \in SUBSET Gone :
          /\ bad \notin done /\ Matches(bad) = {}
          /\ \A u \in done : Matches(u) # {}
          /\ users' = [users EXCEPT ![Tag] = @ \ UNION {Matches(u) : u \in done}]
  /\ Goto("newUsers")
  /\ UNCHANGED <<panelVars, clientVars, ctlVars, frame, inbounds, outbounds, rules, limVars>>

AddNewUsers ==
  /\ pc = "newUsers"
  /\ LET new == Accounts(frame.subs, Added, nodeInfo) IN
     \/ AddAll(new) /\ Goto("newLimits")
     \/ AddSome(new) /\ Goto("modLimits")
  /\ UNCHANGED <<panelVars, clientVars, ctlVars, frame, inbounds, outbounds, rules, limVars>>

\* UpdateInboundLimiter: an error, and no change, for a tag with no limiter.
UpdateLimits(ids) ==
  limits' = IF Tag \in limiters
            THEN [limits EXCEPT ![Tag] = StoreLimits(@, frame.subs, ids)]
            ELSE limits

LimitNewUsers ==
  /\ pc = "newLimits"
  /\ UpdateLimits(Added)
  /\ Goto("modLimits")
  /\ UNCHANGED <<panelVars, clientVars, ctlVars, frame, coreVars, limiters>>

LimitModifiedUsers ==
  /\ pc = "modLimits"
  /\ UpdateLimits(Modified)
  /\ Goto("finish")
  /\ UNCHANGED <<panelVars, clientVars, ctlVars, frame, coreVars, limiters>>

\* Mutant: the new list is not stored.
Finish_Forgets ==
  /\ pc = "finish"
  /\ Goto("idle")
  /\ frame' = NoFrame
  /\ UNCHANGED <<panelVars, clientVars, ctlVars, coreVars, limVars>>

Finish ==
  /\ pc = "finish"
  /\ subscriptionList' = frame.subs
  /\ Goto("idle")
  /\ frame' = NoFrame
  /\ UNCHANGED <<panelVars, clientVars, nodeInfo, Relay, relaynodeInfo, coreVars, limVars>>
-----------------------------------------------------------------------------
Fetched == FetchNode \/ NodeNotModified

Step ==
  \/ FetchSubs \/ SubsNotModified \/ SubsFails
  \/ RemoveRelayRules \/ RemoveRelayTag \/ GetTransitNode \/ TransitMissing
  \/ AddRelayOutbound \/ AddRelayRule \/ RelayFails \/ RelayAdded
  \/ Apply \/ RemoveInbound \/ RemoveOutbound \/ RemoveDefaultRule
  \/ RemoveBlackholeRule \/ RemoveBlackholeOutbound
  \/ AddBlackholeOutbound \/ AddBlackholeRule \/ AddInbound \/ AddOutbound
  \/ AddDefaultRule \/ DeleteLimiter \/ AddUsers \/ AddLimiter
  \/ RemoveUsers \/ AddNewUsers \/ LimitNewUsers \/ LimitModifiedUsers \/ Finish

Next == EditPanel \/ Boot \/ Poll \/ Fetched \/ NodeFails \/ Step

Spec == Init /\ [][Next]_vars
-----------------------------------------------------------------------------
(* What an instance may have to promise for a theorem of ControllerProofs. *)

\* Only requests fail, with no answer or with one that cannot be read.
OnlyRequestsFail == Faults \subseteq {"node", "subs", "body"}

\* A subscription keeps its email and its password.
SteadyUsers ==
  \A s, r \in SubLists : \A i \in DOMAIN s \cap DOMAIN r :
    s[i].email = r[i].email /\ s[i].passwd = r[i].passwd

\* Of the subscriptions one change of the list deletes, all have an account or
\* none: removeInboundSubscriptions stops at the first that has none.
AlikeWhenDeleted ==
  \A c \in Configs : \A s, r \in SubLists :
    Keyed(s, DOMAIN s \ DOMAIN r, c.info.ss2022) \in {{}, DOMAIN s \ DOMAIN r}

\* A node that may have its relay on keeps its tag.
SteadyTag ==
  \A c, d \in Configs : c.info.relay = "on" => c.info.tag = d.info.tag

\* Every answer has a transit node; or those that switch relays on have one, and no
\* answer is stored that a poll did not apply.
TransitServed ==
  \A c \in Configs : c.transit = {} => c.info.relay # "on" /\ Faults \subseteq {"node"}
-----------------------------------------------------------------------------
(* Correctness properties. *)

\* Every variable has its type.
TypeOK ==
  /\ panel \in [conf : Configs, subs : SubLists] /\ edits \in 0..MaxEdits
  /\ etagServer \in Configs \cup {None} /\ etagSubs \in SubLists \cup {None}
  /\ resp \in Configs \cup {None}
  /\ nodeInfo \in NodeInfo \cup {None}
  /\ subscriptionList \in SubList \cup {None}
  /\ Relay \in BOOLEAN /\ relaynodeInfo \in Transit \cup {None}
  /\ pc \in PCs /\ frame \in Frame
  /\ inbounds \subseteq Tags /\ users \in [Tags -> SUBSET Account]
  /\ outbounds \subseteq Name /\ rules \subseteq Rule
  /\ limiters \subseteq Tags
  /\ limits \in [Tags -> [User -> Limits \cup {None}]]

\* A reconfigured node never leaves its former inbound behind: whatever calls
\* fail, the only inbound there can be is that of the tag the controller knows.
SingleInbound == \A t \in inbounds : t = Tag

\* No rule that can match traffic points at an outbound that is not there (the
\* dispatcher would close the connections it matches, default.go:554), at any
\* step of any reconfiguration.
NoDanglingRule == \A r \in rules : r.inTag \in inbounds => r.out \in outbounds

\* While an inbound is open and its node has blocking rules, they are in force.
BlockedWhileOpen ==
  \A t \in inbounds : nodeInfo.rules => BlackholeRule(t) \in rules

\* A node is never built over what is left of another one: none of the adds of
\* AddRuleTag and AddTag meets a handler or a rule of that name.
CleanBeforeBuild ==
  /\ pc = "blackholeOut"  => BlackholeName(Tag) \notin outbounds
  /\ pc = "blackholeRule" => \A r \in rules : r.ruleTag # BlackholeName(Tag)
  /\ pc = "in"            => Tag \notin inbounds
  /\ pc = "out"           => NodeName(Tag) \notin outbounds
  /\ pc = "default"       => \A r \in rules : r.ruleTag # DefaultName(Tag)

\* The handlers, relays and rules are those of the controller's node and list.
HandlersInSync ==
  LET relays == IF Relay THEN {RelayName(RelayTag, i) :
                                 i \in Keyed(subscriptionList, DOMAIN subscriptionList,
                                             relaynodeInfo.ss2022)}
                ELSE {}
  IN  /\ inbounds = {Tag}
      /\ Relay = (nodeInfo.relay = "on")
      /\ outbounds = {NodeName(Tag), BlackholeName(Tag)} \cup relays
      /\ {r.ruleTag : r \in rules} =
           relays \cup (IF nodeInfo.rules THEN {BlackholeName(Tag)} ELSE {})
                  \cup (IF nodeInfo.relay = "off" THEN {DefaultName(Tag)} ELSE {})

\* And so are the accounts and the limits.
InSync ==
  LET ids == DOMAIN subscriptionList
  IN  /\ HandlersInSync
      /\ limiters = {Tag}
      /\ users[Tag] = Accounts(subscriptionList, ids, nodeInfo)
      /\ \A i \in ids : limits[Tag][UserOf(subscriptionList, i)] =
                          subscriptionList[i].limit

\* Between two polls that met no failing call, what the core serves is what the
\* controller believes: the accounts, limits, outbounds and rules of its list
\* and its node, no more and no less.  (Failed requests change nothing.)
IdleInSync == pc = "idle" => InSync

\* A poll never takes away an account that stays on the list while its inbound
\* stays: the links of other users survive a change of the list.
KeptUsersStay ==
  [][\A t \in inbounds \cap inbounds' : \A a \in users[t] \ users'[t] :
       a.id \notin DOMAIN frame.subs]_vars

\* The log.Panic calls of the monitor are never reached.
NoPanic == pc # "panicked"

\* The relay rules match the traffic of the inbound that is open.
RelayFollowsTag ==
  pc = "idle" /\ Relay =>
    \A i \in Keyed(subscriptionList, DOMAIN subscriptionList, relaynodeInfo.ss2022) :
      RelayRule(Tag, RelayTag, i, subscriptionList[i].email) \in rules

\* GetTransitNode never fails when it is called.
TransitKnown == pc = "transit" => resp.transit # {}
=============================================================================
