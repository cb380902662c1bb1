------------------------------- MODULE Service -------------------------------
(***************************************************************************)
(* What a node comes to serve when only requests fail.  The client stores  *)
(* an answer and its ETag before the poll is done with it: where the rest  *)
(* of the poll fails, the panel never serves that answer again (304), and  *)
(* the controller goes on with what it had.  A history variable keeps      *)
(* which of the two stored answers was dropped so, to say that nothing     *)
(* else ever keeps the panel's node or list from being served.             *)
(***************************************************************************)
EXTENDS Routing

VARIABLE dropped  \* of "node" and "subs", those whose stored answer no poll applied

svars == <<rvars, dropped>>

\* The answers the client stores in this step, and those the poll has in hand.
Stored == (IF etagServer' # etagServer THEN {"node"} ELSE {})
            \cup (IF etagSubs' # etagSubs THEN {"subs"} ELSE {})
InHand == (IF frame.nodeChanged THEN {"node"} ELSE {})
            \cup (IF frame.subsChanged THEN {"subs"} ELSE {})

Starts  == pc # "node" /\ frame'.starting /\ pc' = "node"
GivesUp == pc \notin {"idle", "down", "panicked", "finish"} /\ pc' \in {"idle", "down"}

Remember ==
  \/ Starts /\ dropped' = {}
  \/ GivesUp /\ dropped' = dropped \cup InHand \cup Stored
  \/ ~ Starts /\ ~ GivesUp /\ dropped' = dropped \ Stored

SInit == RInit /\ dropped = {}

SNext == RNext /\ Remember

SSpec == SInit /\ [][SNext]_svars

\* The process is started again, the timer ticks, a handler that runs goes on, and
\* each request is answered again and again although it may fail often.
SFairSpec ==
  /\ SSpec
  /\ WF_vars(Boot) /\ WF_vars(Poll) /\ WF_vars(Step)
  /\ SF_vars(Fetched) /\ SF_vars(FetchSubs \/ SubsNotModified)
-----------------------------------------------------------------------------
\* What a theorem of RoutingProofs assumes: the answers of nodes whose relay is on
\* have a transit node.
RelaysHaveTransit == \A c \in Configs : c.info.relay = "on" => c.transit # {}
-----------------------------------------------------------------------------
(* Correctness properties. *)

\* The monitor panics only behind a node answer that was dropped: no relay is ever
\* added twice, and the transit node is missing only where GetTransitNode reads an
\* answer other than the one being applied (controller.go:240, node.go:329).
PanicsOnlyAfterDrop == pc = "panicked" => "node" \in dropped

\* Once the panel is left alone, the controller comes to serve exactly its node and
\* its list, through every teardown, rebuild and restart, and goes on doing so: only
\* an answer dropped behind its ETag keeps it on the node or the list it had, and
\* even then what it serves fits together (nodeInfoMonitor).
EventuallyServed ==
  <>[](/\ "node" \notin dropped => nodeInfo = panel.conf.info
       /\ "subs" \notin dropped => subscriptionList = panel.subs
       /\ InSync)
=============================================================================
