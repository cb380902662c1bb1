# XMPlus server: TLA+ models and proofs

XMPlusServer embeds xray-core and keeps it in agreement with a panel: it fetches the node and the
subscription list, builds inbounds, outbounds and routing rules from them, limits and counts what
users transfer, and reports it. This directory holds TLA+ models of that core logic, the TLC
configurations that check them on small instances, and proofs, checked by TLAPS, that the most
important properties hold for every value of the constants.

Run from this directory: `tlc -config ctl_safety.cfg MCController`, `tlapm ControllerProofs.tla`.

## The system

| Part | State | Operations | Interacts with |
|---|---|---|---|
| Controller (`controller/`) | `nodeInfo`, `Relay`, `relaynodeInfo`, `subscriptionList`, `Tag`, `RelayTag` | `Start`, `nodeInfoMonitor`, `certMonitor`, `Close` | everything below; one per node of the configuration |
| API client (`api/`) | ETags, the stored answer `resp` | `GetNodeInfo`, `GetSubscriptionList`, `GetTransitNode`, `ReportTraffic`, `ReportOnlineIPs` | the panel, over resty with its own retries |
| Node manager (`node/`) | none of its own: handlers and rules of the core | `AddTag`, `RemoveTag`, `AddRuleTag`, `RemoveBlockingRules`, `AddRelayTag`, ... | xray-core's managers and router |
| Subscription manager (`subscription/`) | none of its own: accounts and counters of the core | `Compare`, `AddInbound-`/`RemoveInboundSubscriptions`, `SubscriptionMonitor` | core, limiter, client |
| Limiter (`helper/limiter/limiter.go`) | `InboundInfo`: subscriptions, online IPs, buckets; a shared cache for the global limit | `Add-`, `Update-`, `DeleteInboundLimiter`, `GetOnlineDevice`, `GetSubscriptionLimiter`, `globalLimit` | called by connections, reporter and controller with no lock |
| Rate wrappers (`helper/limiter/rate.go`) | a token bucket | readers and writers that wait for tokens | links of the dispatcher |
| Dispatcher (`app/dispatcher/`) | the links and the sniffing cache of each connection | `Dispatch`, `DispatchLink`, `sniffer`, `routedDispatch` | inbounds, limiter, counters, router, outbounds |
| Periodic tasks (`helper/task/`) | a timer and `running`, per task | `Start`, `Close` | xray-core's `task.Periodic` |
| Process manager (`manager/`) | `Server`, `Service`, `statusLock` | `Start`, `Close`, `Restart` | core server, controllers |
| Command and hot reload (`main/`) | viper's configuration, `lastTime` | `run`, `OnConfigChange`, signals | process manager |
| Certificates (`helper/cert/`) | files of accounts and certificates, shared by all nodes | `DNSCert`, `HTTPCert`, `RenewCert` | the inbound builder and `certMonitor` of every controller, an ACME server |
| Command line tools (`main/cmd/*`) | none | print keys, ping, register | not modelled |

What is hard in it: the panel changes between two requests of one poll; each call that changes the
core may fail half way through a reconfiguration; connections, the reporter and the controller share
the limiter through single `sync.Map` operations and the controller's fields through nothing at all;
nodes share maps of addresses and certificate files that each reads, changes and writes back whole;
requests are lost, answered late or repeated; the process dies in the middle of a write; polls outlive
the server they were started for; a file change arrives during a reload. `PROJECT.json` lists these
hazards line by line.

What makes the parts correct: controller - the core serves what the panel said, nothing old stays behind, no
traffic passes unblocked or to a missing outbound in between, in whatever order the rules came; limiter -
bounded overshoot, complete reports, limited links that go on flowing; global limit - no map passes the
limit, addresses are forgotten only by expiry or a race, a full map does not stay full; traffic - every byte
is billed, still counted, or was counted between the look at a counter and its reset, and none is billed
twice but out of a report the node saw fail; certificates - a certificate fits its key, has the account that
can renew it, and is renewed; life cycle - one server at a time, closed tasks stay closed, reloads end with
what they read; dispatcher - the stream stays whole, no connection hangs.

## Modules

### Controller
One controller with the core it drives. `pc` names the next call of `Start` or `nodeInfoMonitor`, and
every call that changes a handler, a rule, an account or a limit is a step of its own, in the order
of the code, because traffic is served meanwhile. `nodeInfo`, `Relay`, `relaynodeInfo`,
`subscriptionList` are the controller's fields (`Tag` and `RelayTag` are functions of them);
`etagServer`, `etagSubs`, `resp` the client's; `frame` the locals of the handler; `inbounds`, `users`,
`outbounds`, `rules`, `limiters`, `limits` what the core and the limiter hold. `EditPanel` may happen
at any step; `Faults` chooses which calls can fail. An early return is `Abort`, a `log.Panic` ends in
`pc = "panicked"`, and `Boot` is the supervisor starting the process anew.

External, from how the code uses it: inbound and outbound `AddHandler` refuse a tag that exists, the
inbound manager registers a handler before it listens, inbound `RemoveHandler` fails for an unknown
tag and the outbound one never does, `AddRule` refuses a `ruleTag` that exists, `AddUser` an account
the protocol refuses. The first poll of `task.Periodic` runs inside its `Start`.

### Routing
`Controller` with the order of the router's rules added to its steps: `before` is the relation "comes
before" between rules, to which `addRouterRule` appends (behind every rule there is) and from which
`removeRouterRule` takes out. `PickRoute` is what the router answers the dispatcher: the target
of the first rule that applies, or none, where the default handler is taken. The relay rules come before
the blocking rules after a start and behind them after a change of the list, so that a relayed user's
blocked traffic takes the relay or the blackhole by history; `BlockedStaysIn` says that it never takes
anything else, at any step of a rebuild.

### Service
What a controller comes to serve, over `Routing`'s steps. The client stores an answer with its ETag
before the poll is done with it (`node.go:27`); where the poll then gives up - the other request fails, a
body does not parse - the panel answers 304 from there on and the answer is never applied. The history
variable `dropped` says which of the two answers was last dropped so. `PanicsOnlyAfterDrop` and
`EventuallyServed` show that this is the only thing that brings the monitor to panic, or keeps the panel's
node or list from being served for good.

### Limiter
One `InboundInfo` with its maps, the calls of `GetSubscriptionLimiter` one map operation at a time
(`conn[c].pc`), `GetOnlineDevice` (`poll`) with its `Range` loops entry by entry, and the controller's
`Add`, `Update` and `Delete` (`ctl`). A call that loaded an `InboundInfo` which has been replaced, or
an IP map that was taken off the online list, goes on with any of the outcomes it could have
(`stale`, `live = FALSE`). `globalLimit` appears as the refusals it may make when it is on.

### GlobalLimit
The map of one user's addresses in the go-cache of every node (`local`) and in redis, and the calls of
`globalLimit` with the `pushIP` each may start: `Connect` and `ReadRedis` read and decide, `PushLocal` and
`PushRedis` write the whole map back, with everything else in between. gocache's chain is external: it
answers from the first cache that has the key, sets what redis had back into the go-cache by a goroutine
(`back`, `SetBack`), and writes to both. An entry lives `Expiry` ticks; a read or a write is shorter than
a tick. Redis may not answer.

### Traffic and Billing
`Traffic` is the traffic half of `SubscriptionMonitor`, read by read: it looks at the up and the down
counter of each listed user under `c.Tag`, sends one report (repeated by the HTTP client up to
`Retries` times) and resets the counters when the report is accepted; links count on; a poll of
`nodeInfoMonitor` changes tag and list underneath, and the tag - a string, two words, written without
a lock - may be read torn, which then names no counter. Links outlive accounts and inbounds.
`Billing` is what the panel is promised: per counter, what is billed grows by what was transferred
and not billed before; what the panel adds up out of a report that the node sees fail (`unheard`: its
answer was lost or not readable) may be billed once more. `Traffic!NeverOverbilled` is `Billing!Spec`:
the traffic reports implement it, under every fault. A byte counted between the look at a counter and its
reset is taken off and never billed: `late` counts such bytes, and a reset adds them to `lost`.
`EveryByteAccounted` says that there is no other place to lose any (`total + unheard = billed + counter +
lost`, between resets), so a counter that is reset without an accepted report breaks it;
`EventuallyBilled` that of what the current list transfers nothing stays on a counter. What links of an old
tag, or of a user that left, count after the last report stays there and is never billed. `unheard`, `late`
and `lost` are history variables.

### Lifecycle
`run`, the hot reload, `Manager.Start` and `Close`, and the tasks. Two goroutines (`pc["main"]`,
`pc["watcher"]`) contend for `statusLock`; each server start is a generation; the tasks of all
controllers of a generation are taken together, in any order. `job` says what the timer of a task
does (`off`, `wait`, `due`, `poll`); a poll goes on after its server is closed and may panic, which
ends the process. Time is the age of `lastTime`, up to "later than the three seconds". viper reads the
file before it calls back, and unmarshalling leaves alone the keys the file lacks; what does not decode
(`UnmarshalFails`) ends the process behind the Close, as a failing start does. An event that comes while the
watcher works waits for it, and is then dropped or handled by the age of `lastTime`.

### Dispatch
One connection: `getLink` or `WrapLink`, the sniffer reading ahead through `cachedReader`, the
override, `routedDispatch`, and the handler reading until the end, while the client sends numbered
chunks and outbounds come and go. `pipe` is what waits below `cachedReader`, `cache` what it holds,
`got` what the handler has read. What sniffers answer is any of their answers. A forced outbound tag
behaves as a route. The default handler, which may be missing, is any handler or none.

### Cert
The files of one domain (`file`: certificate, its key, the account's key, the account) and the calls of
`HTTPCert`/`DNSCert` ("obtain") and `RenewCert` ("renew") of every controller, one file operation a step:
a write first truncates (`Truncate`) and then fills (`Write`, `Finish`). A file holds the number of the
certificate or key written to it, nothing or a torn rest. `Start`, `Move` and `Tick` are the controller's
start, a changed node, and `certMonitor`; a failing start ends the process (`Restart`), as does `Crash` at
any step, and `certMonitor` on a node that lost its TLS settings. `due` ages certificates one by one.
`mixed` and `spoilt` are history: which saves overlapped, and what a cut or overlapped save left.

`MC*` modules only give the constants of the runs their values; `MCService` also has TLC evaluate the
hypotheses of the theorems about its run's properties. `*Proofs` modules hold theorems.

## Runs

| Run | What it checks | Bounds |
|---|---|---|
| `ctl_safety` | `TypeOK`, `SingleInbound`, `NoDanglingRule`, `BlockedWhileOpen`, `CleanBeforeBuild` with every fault | 4 node configurations, 3 lists with a changing email, 4 edits |
| `ctl_service` | `IdleInSync`, `BlockedStaysIn`, `PanicsOnlyAfterDrop`, `KeptUsersStay`, `EventuallyServed` with failing and unparsable requests of both kinds | 4 node configurations, 3 lists with emails and passwords kept, 4 edits; rules in order |
| `lim_safety` | `TypeOK`, `OnlineBound`, `AdmittedAreOnline`, `LimitedLinksFlow`, `ReportIsComplete` | 2 connections, 4 IPs, 1 user, a limit of 1 IP, two lists, global limit on |
| `glob_cache` | `TypeOK`, `NeverOverfull`, `DroppedOnlyByRace`, `FullExpires` with failing redis | 2 nodes, 3 IPs, a limit of 2, 2 calls at a time, 3 connections a tick, expiry after 2 |
| `traffic_reports` | `TypeOK`, `EveryByteAccounted`, `NeverOverbilled`, `EventuallyBilled` with every fault | 2 tags, 2 users, 2 bytes, 1 change, 1 retry, 2 unanswered bills |
| `cert_files` | `TypeOK`, `PairFits`, `AccountFits`, `EventuallyRenewed` with crashes and a refusing ACME server | 2 controllers, 3 certificates, 2 keys at a time, 1 crash, 1 change |
| `life_reload` | `TypeOK`, `OneServer`, `IdleServes`, `ClosedStaysClosed`, `ReloadsWhatItRead`, `ReloadEnds` | 2 servers alive at once, 2 tasks, 1 key with 2 values or missing, 1 waiting event |
| `disp_stream` | `TypeOK`, `StreamKept`, `LinkSettles` | 3 chunks, 2 outbounds, a deadline of 2 |
| `ctl_transit` | violated: `TransitKnown` | |
| `ctl_relayfollows` | violated: `RelayFollowsTag` | |
| `disp_limited` | violated: `CachedReaderKeeps` | 2 chunks |
| `lim_atlimit` | violated: `AdmittedBelowLimit` | 1 connection, a limit of 1 IP |

Why the bounds are enough. Four node configurations cover a tag that changes and one that comes back, relays
off, on and in another mode, one and two transit nodes, blocking rules and Shadowsocks 2022 on and off; four
edits allow two reconfigurations and back, with edits inside polls. Two connections and four IPs are the
smallest instance with a race at the limit while another address is online; all limiter operations are per
user, so one user suffices for everything but the loops of the reporter, which the proofs cover. Every race
of the traffic report needs one report, one change of tag or list and bytes before, between and after the
reads. Two nodes, two calls and one address more than the limit are what it takes for a map to be
overwritten, to be set back late and to refuse. Two controllers make four calls on the certificate's files;
of three certificates one is replaced by another while a third is issued, and the crash may come in the
first issue, in a renewal or before a start. Two servers are what a reload overlaps: the closed one, whose
polls still run, and the new one. Three chunks separate what was cached, what is being read and what comes
later. Deadlock checking is off for `disp_stream`, where a connection ends, and for `cert_files`, where
nodes without TLS have nothing to do.

Each property of a passing run has a mutant in its module (a definition named `<operation>_<mistake>`):
the operation with a plausible mistake, under which TLC refutes the property.

## Fairness

* Controller: the supervisor restarts the process (`Boot`), the timer ticks (`Poll`), a running
  handler goes on (`Step`): weak fairness, as these are goroutines and timers. The panel may fail
  often but not for ever, while requests are repeated by every poll: strong fairness of `Fetched`, and of
  the subscription request being answered, by a list or by a 304.
* Traffic: weak fairness of the two monitors and of the end of a failing request (time-outs); a report
  made again and again is accepted again and again: strong fairness of `Accepted`.
* Lifecycle: the watcher and both goroutines run; the requests a poll waits for time out, so that a
  poll ends. Nothing is assumed of edits, signals, or panics.
* GlobalLimit: reads and writes end, as all have a time-out or are local, and time goes on. Nothing is
  assumed of connections: `FullExpires` holds whoever goes on connecting.
* Cert: controllers start and timers tick, a running call goes on or is refused: weak fairness. The ACME
  server refuses often but not for ever: strong fairness of `Register` and `Issue`. Nothing is assumed of
  crashes and changes but their bounds.
* Dispatch: the goroutine of the connection runs, and a cache read waits no longer than its deadline.
  Nothing is assumed of the client.

## What the violated runs show

* `ctl_transit` - `GetTransitNode` reads the last answer the client stored, not the one being applied.
  A subscription request that fails after a node answer was stored makes the next poll combine the old
  node with the new answer, and the process dies on a transit node that is not there.
* `ctl_relayfollows` - when a node's tag changes while its relay is on, the relay rules are added for
  the old tag and none of the traffic is relayed until the next change.
* `disp_limited` - sniffing below a rate limit can release the first bytes of a connection and go on.
* `lim_atlimit` - the comment at `limiter.go:208` says that the count is checked against being at the limit;
  the comparison (`:209`) is with being above it. With no race, a user limited to one address gets a second;
  the global limit (`:268`) refuses it.

Observed while modelling and written into the models, without a run: `determineRate` answers 0 (no limit)
when only one of two limits is 0, although its comment says "non-zero minimum" (`limiter.go:290`); after a
poll that returns early behind `AddRelayTag` (its list is not stored), the next teardown can miss relay
outbounds, and the following `AddRelayTag` panics; a key removed from the configuration file keeps its value
through reloads; a file change during a reload is dropped, as `cmd.go:86` intends; the bucket of an open
link leaves the hub two reports after its user's last new connection; `certMonitor` dereferences
`TlsSettings` of a node that has lost them (`controller.go:388`), and is not started for a node that gets
them later (`:172`); a certificate of mode `tls` is issued (`inbound.go:314`) and never renewed
(`controller.go:389`); a certificate or account file cut by a crash passes `checkCertFile` or fails to parse
for ever.

## Proofs

All theorems hold for any constants that satisfy the modules' named assumptions
(`ControllerAssumption`, `LimiterAssumption`, `TrafficAssumption`, `LifecycleAssumption`,
`DispatchAssumption`, `CertAssumption`, `GlobalLimitAssumption`): types, `None` outside the sets of
values, finiteness of connections and addresses. Nothing else is assumed, except by the theorems below
that name their hypotheses.

* `ControllerProofs`: `TypeCorrect`, `OneInbound`, `BlockingHolds`, `RulesHaveTargets`,
  `BuildsOnCleanGround`, `ListedUsersStay`, with every fault and any configurations. `TypeOK` is
  strengthened to `TypeInv` with `Assigned` (fields the code dereferences are set at the calls that do). The
  properties speak of the core between any two calls, so `SafeInv` says for each `pc` what is already torn
  down and what is already built: `SingleInbound`, what is left when the node is closed (`ClosedInv`), which
  outbounds (`OutboundInv`) and rules (`RuleInv`) can exist, that rules have targets (`TargetInv`) and that
  blocking precedes opening (`BlockInv`). `ListedUsersStay` is about steps: of those that touch accounts
  only the removal of deleted ones takes any from an inbound that stays.
* `ControllerProofs`, where only requests fail (`OnlyRequestsFail`): `IdleHandlersInSync`,
  `IdleControllerInSync` and `MonitorNeverPanics` (no log.Panic at all). Agreement between two polls is the
  end of an account of the whole poll: for every `pc`, whether the accounts, limits, relays, handlers and
  rules are those of the old or of the new node and list, or the part of the new ones built so far.
  `PanelInv` says it of the controller's fields and the locals, `HandlerInv` of handlers and rules,
  `RelayInv` of relays (while they are built: those not in `todo`), `FreshInv` and `UserInv` of accounts,
  `LimiterInv` of limits. On the way, `BuildSucceeds`, `RemovalSucceeds`, `AddingSucceeds`,
  `AddingNewSucceeds` and `RemovingSucceeds` show that no step fails by itself. Handlers, relays and rules
  agree for any lists. Accounts and limits need two hypotheses on the lists, and without either the code
  does drift: `SteadyUsers`, as a changed email or password reaches the limiter only
  (`subscription.go:138`), and `AlikeWhenDeleted`, as the removal of deleted users stops at the first that
  has no account (`:264`), which a user whose password Shadowsocks 2022 refuses never has.
  `MonitorNeverPanics` needs no hypothesis on the lists, but `TransitServed`: every answer has a transit
  node, or relay nodes have one and every answer that is stored is applied (`RespInv`). Two more theorems
  draw the line around a violated run: `TransitNodeIsKnown` (`TransitKnown`, under `TransitServed`) and
  `RelaysFollowSteadyTag` (`RelayFollowsTag`, as long as a node that may have its relay on keeps its tag,
  `SteadyTag`; `FollowInv` says which rules a relay has at every step).
* `RoutingProofs`, with every fault and any configurations: `RoutesAreDecided`, the order of the rules is always
  total and well-founded (`OrderInv`: a step appends one rule behind all), so that exactly one rule is the
  first of those that match; `BlockedTrafficStaysIn`, where `RouteInv` adds to `SafeInv` that the default
  rule never comes before the blocking rules of an open inbound and that relay rules name their user.
  `PanicsNeedADrop` is about `Service`, where only requests fail (`OnlyRequestsFail`) and the answers of nodes
  with relays have a transit node (`RelaysHaveTransit`): `DropInv` says that as long as no node answer was
  dropped, the stored answer is the node being applied or the one in force (`AnswerApplied`), so that the
  transit node is found; that no relay is added twice comes from the account above (`NoRelayFails`).
* `LimiterProofs`: `TypeCorrect`, `OnlineListBounded`, `AdmittedIPsListed`, `RefusalsJustified`,
  `LimitedLinksKeepFlowing`, `ReportsComplete`, for any users, addresses and connections. The bound is
  not inductive by itself: `BoundInv` counts the calls that have passed the count and not stored yet,
  `|online| + |Storing| <= MaxIPLimit + |Conns|`, with facts on cardinalities. `OnlineInv`,
  `LimitInv`, `LinksInv` and `ReportInv` are the other parts. `RefusalsJustified` holds for either reading
  of the comparison at the limit: who is refused locally has a limit and at least as many addresses.
* `TrafficProofs`, with every fault: `TypeCorrect`; `BytesAreAccounted`; `BilledOnce`, the refinement of
  `Billing`. Both rest on `BillInv`: the balance of each counter at every step, where one that has been
  accepted and not reset yet is billed beforehand (`AccountInv`); what a report has in hand and what came
  `late` make up the counter it was read from (`LateInv`); nothing is reported of a counter
  that is not to be reset (`ResetInv`); no counter is looked at twice in a report (`OnceInv`).
* `GlobalLimitProofs`: `TypeCorrect`; `LimitNeverExceeded`, by the cardinality of a map that is one
  address larger than one that was not full; `DropsAreRaces`, for which `MapsInv` adds that a call writes
  no less than it has read, and that a map to be set back has not expired.
* `CertProofs`: `TypeCorrect`, `PairsFit`, `AccountsFit`, for any number of controllers, certificates, keys
  and crashes. `FilesInv` adds to the types what each call holds at each step (`CallInv`: a certificate
  comes after the account), that until it is spoilt the account's key is made once (`AccountInv`), and
  that overlapping saves are all known while one that is alone finds its certificate where it has put it
  (`PairInv`).
* `DispatchProofs`: `TypeCorrect`; `SniffingKeepsStream`, for any number of chunks. `StreamInv` extends the
  property to the time before the limiter has answered; the steps that cut and join the three parts of the
  stream rest on `Joined` and `Numbered`.
* `LifecycleProofs`: `TypeCorrect`, `ServersDoNotMeet`, `IdleProcessServes`, and of steps
  `ClosedServersStayQuiet` and `ReloadsAreFaithful`. `LifeInv` describes, for
  the holder of the lock, how far `Start` or `Close` has come, and that without a holder the server is
  either whole or gone. `TimerInv` adds that a timer is armed only for a running task and a task runs
  only for a server that is up; `ReadInv` that the watcher's configuration is what viper read from
  `Unmarshal` to the end of `Start`.

Only model-checked: liveness (`EventuallyServed`, `EventuallyBilled`, `ReloadEnds`, `LinkSettles`,
`FullExpires`, `EventuallyRenewed`) - fairness, ENABLED and induction over data are out of the prover's
reach, and no module that is proved about uses a recursive operator. Every safety invariant and action
property of a passing run is also a theorem.

## Not modelled

Redis, gocache and the ACME exchange (libraries, modelled by how the code uses them); which outbound the
core's default handler is; the token arithmetic of the rate wrappers; the online report's panel side; the
contents of builders and of parsed answers beyond what properties tell apart; the choice among sniffers
and fake DNS; the `.json` and `.issuer.crt` files, which are never read, and when an inbound reads its
certificate; logging; the one-shot command line tools. `Manager.Restart` and several task operations have
no caller.

## Plan

Order of work, the most important first; `[x]` is done.

1. [x] `Controller`, then `Limiter`, `Traffic` with `Billing`, `Lifecycle`, `Dispatch`; proofs for them.
2. [x] `Routing`: the ordered rules composed with `Controller`'s steps.
3. [x] `GlobalLimit` and its proofs; `Cert` and its proofs. `RateWrapper`, bursts against buffers for
   readers and writers, is left.
4. An abstract specification of the controller (what is served follows what the panel said) and of the
   limiter (a set of addresses under a limit), each refined by the module here.
5. [x] Proofs of `IdleInSync`, `PanicsOnlyAfterDrop` and `BlockedStaysIn`, under named hypotheses where they
need any.
6. Accounts whose email or password changes: what agreement becomes for them.
7. Operators for the sniffers' choice, checked against a reference over bounded inputs.
8. Proofs: the refinements of 4.
