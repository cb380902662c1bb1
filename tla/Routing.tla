-------------------------------- MODULE Routing --------------------------------
(***************************************************************************)
(* The order of the router's rules, which Controller leaves out.  The node *)
(* appends every rule (addRouterRule) and removes it by its tag; the       *)
(* dispatcher takes the first one that applies to a connection.  Rebuilt   *)
(* in parts, the rules come in an order that depends on the history: a     *)
(* start puts relay rules before the blocking rules, a change of the list  *)
(* alone puts them behind.                                                 *)
(***************************************************************************)
EXTENDS Controller

VARIABLE before  \* <<r, s>>: the router tries rule r before rule s

rvars == <<vars, before>>

RInit == Init /\ before = {}

\* Mutant: the router is given new rules in front.
Reorder_Front ==
  before' = (before \cap (rules' \X rules')) \cup ((rules' \ rules) \X (rules \cap rules'))

\* What stays keeps its order; what is new, one rule at a time, comes last.
Reorder ==
  before' = (before \cap (rules' \X rules')) \cup ((rules \cap rules') \X (rules' \ rules))

RNext == Next /\ Reorder

RSpec == RInit /\ [][RNext]_rvars

\* What a rule asks of a connection; only the blocking rules look at where it goes.
Applies(r, t, u, blocked) ==
  /\ r.inTag = t
  /\ r.user \in {None, u}
  /\ r.ruleTag.kind = "blackhole" => blocked

\* PickRoute: the outbound of the first rule, None where the default handler is taken.
PickRoute(t, u, blocked) ==
  LET hits  == {r \in rules : Applies(r, t, u, blocked)}
      first == CHOOSE r \in hits : \A s \in hits \ {r} : <<r, s>> \in before
  IN  IF hits = {} THEN None ELSE first.out
-----------------------------------------------------------------------------
(* Correctness property. *)

\* Whatever was rebuilt in whatever order, and at every step of a rebuild, what
\* the blocking rules of an open inbound match leaves by the blackhole or by the
\* relay of its own user: never by the node's own outbound, by the relay of
\* another user or by the default handler (AddRuleTag, AddRelayTag, AddTag).
BlockedStaysIn ==
  \A t \in inbounds : nodeInfo.rules =>
    \A a \in users[t] :
      PickRoute(t, [id |-> a.id, email |-> a.email], TRUE)
        \in {BlackholeName(t)} \cup {RelayName(rt, a.id) : rt \in RelayTags}
=============================================================================
