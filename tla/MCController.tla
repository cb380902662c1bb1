---------------------------- MODULE MCController ----------------------------
(* Small instances of Controller for TLC. *)
EXTENDS Controller, TLC

Node(t, blocks, relay, ss) ==
  [tag |-> t, rules |-> blocks, relay |-> relay, ss2022 |-> ss]
R(rt, ss) == [tag |-> rt, ss2022 |-> ss]
Conf(n, relays) == [info |-> n, transit |-> relays]
S(e, p, l) == [email |-> e, passwd |-> p, limit |-> l]

\* Tag changes, relays switched on and off, blocking rules, Shadowsocks 2022.
ConfigsAll ==
  { Conf(Node("t1", TRUE,  "off",   FALSE), {}),
    Conf(Node("t2", TRUE,  "on",    FALSE), {R("r1", FALSE)}),
    Conf(Node("t2", TRUE,  "on",    FALSE), {R("r1", TRUE), R("r2", TRUE)}),
    Conf(Node("t1", FALSE, "other", TRUE),  {}) }

\* A subscription added, deleted, given another limit or another email.
SubListsAll ==
  { (1 :> S("a", "long", "slow")),
    (1 :> S("a", "long", "fast")) @@ (2 :> S("b", "short", "slow")),
    (1 :> S("b", "long", "slow")) }

\* Emails and passwords keep to their subscription.
SubListsPlain ==
  { (1 :> S("a", "long", "slow")),
    (1 :> S("a", "long", "fast")) @@ (2 :> S("b", "short", "slow")),
    (2 :> S("b", "short", "slow")) }
=============================================================================
