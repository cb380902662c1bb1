-------------------------------- MODULE Traffic --------------------------------
(***************************************************************************)
(* The traffic reports: SubscriptionMonitor (subscription/subscription.go) *)
(* reads the counters of the users of c.subscriptionList under c.Tag,      *)
(* reports them and sets them to 0, while links count bytes and            *)
(* nodeInfoMonitor changes c.Tag and c.subscriptionList.  Nothing is       *)
(* locked: every read, request and reset is a step.                        *)
(*                                                                         *)
(* Abstractions.  A counter nobody registered yet is one at 0: getTraffic  *)
(* treats both alike.  The panel adds up by id; the bills are kept by      *)
(* meter here, so that they can be held against what was transferred.      *)
(* The second half of SubscriptionMonitor, the online addresses, is a      *)
(* matter of Limiter.                                                      *)
(***************************************************************************)
EXTENDS Integers
LOCAL INSTANCE Functions

CONSTANTS
  Tags,
  Ids,      \* subscriptions; one whose email changes becomes another
  Retries,  \* how often the HTTP client repeats a request by itself
  Faults,   \* what may happen to a report
  MaxBytes, \* bound on the bytes transferred
  MaxBilled,\* bound on the bills whose acceptance the node never learns
  MaxMoves, \* bound on the changes of the node and the list
  None

FaultKinds ==
  { "send",    \* the request is lost
    "reply",   \* its answer is lost: the client repeats it all the same
    "refuse",  \* the panel refuses it
    "answer" } \* it is billed, and answered with something that is no JSON

ASSUME TrafficAssumption ==
  /\ Tags # {} /\ None \notin Tags \cup Ids
  /\ Faults \subseteq FaultKinds
  /\ Retries \in Nat /\ MaxBytes \in Nat /\ MaxBilled \in Nat /\ MaxMoves \in Nat

\* One counter, "user>>>tag|email|id>>>traffic>>>uplink" or downlink.
Meters == [tag : Tags, id : Ids, dir : {"up", "down"}]
Meter(t, i, d) == [tag |-> t, id |-> i, dir |-> d]

VARIABLES
  tag,      \* c.Tag; None while it is written: a string is two words
  list,     \* the ids of c.subscriptionList
  served,   \* the users <<tag, id>> that have had an account
  ctl,      \* the poll of nodeInfoMonitor under way
  moves,
  total,    \* bytes that have gone through a meter
  counter,  \* its counter in the stats manager
  billed,   \* what the panel has added up for it
  unheard,  \* history: of that, what reports added that the node saw fail
  poll,     \* the call of SubscriptionMonitor
  late,     \* history: bytes a meter counted since that call looked at it
  lost      \* history: of these, what resets took off the counter

ctlVars == <<tag, list, served, ctl, moves>>
ledgerVars == <<billed, unheard>>
codeVars == <<ctlVars, total, counter, ledgerVars, poll>>
vars == <<codeVars, late, lost>>

Zero == [m \in Meters |-> 0]

Ctl == [pc : {"idle", "tag", "users", "list"}, tag : Tags \cup {None}, list : SUBSET Ids]
NoCtl == [pc |-> "idle", tag |-> None, list |-> {}]

Poll == [pc : {"idle", "tag", "up", "down", "send", "reset"},
         tag : Tags \cup {None}, todo : SUBSET Ids, id : Ids \cup {None},
         report : [Meters -> Nat], tries : Nat, reset : SUBSET Meters]
NoPoll == [pc |-> "idle", tag |-> None, todo |-> {}, id |-> None,
           report |-> Zero, tries |-> 0, reset |-> {}]

Init ==
  /\ tag \in Tags /\ list \in SUBSET Ids
  /\ served = {tag} \X list
  /\ ctl = NoCtl /\ moves = 0
  /\ total = Zero /\ counter = Zero /\ billed = Zero /\ unheard = Zero
  /\ poll = NoPoll
  /\ late = Zero /\ lost = Zero
-----------------------------------------------------------------------------
(* The links.  They outlive the account and the inbound they came through. *)

Bytes == FoldFunction(+, 0, total)

Transfer(m) ==
  /\ <<m.tag, m.id>> \in served /\ Bytes < MaxBytes
  /\ total' = [total EXCEPT ![m] = @ + 1]
  /\ counter' = [counter EXCEPT ![m] = @ + 1]
  /\ UNCHANGED <<ctlVars, ledgerVars, poll>>
-----------------------------------------------------------------------------
(* nodeInfoMonitor, as far as it goes here. *)

Move ==
  /\ ctl.pc = "idle" /\ moves < MaxMoves
  /\ \E t \in Tags, l \in SUBSET Ids :
       \/ /\ t # tag
          /\ ctl' = [pc |-> "tag", tag |-> t, list |-> l]
          /\ tag' = None
       \/ /\ t = tag /\ l # list
          /\ ctl' = [pc |-> "users", tag |-> t, list |-> l]
          /\ UNCHANGED tag
  /\ moves' = moves + 1
  /\ UNCHANGED <<list, served, total, counter, ledgerVars, poll>>

StoreTag ==
  /\ ctl.pc = "tag"
  /\ tag' = ctl.tag
  /\ ctl' = [ctl EXCEPT !.pc = "users"]
  /\ UNCHANGED <<list, served, moves, total, counter, ledgerVars, poll>>

AddAccounts ==
  /\ ctl.pc = "users"
  /\ served' = served \cup ({ctl.tag} \X ctl.list)
  /\ ctl' = [ctl EXCEPT !.pc = "list"]
  /\ UNCHANGED <<tag, list, moves, total, counter, ledgerVars, poll>>

StoreList ==
  /\ ctl.pc = "list"
  /\ list' = ctl.list
  /\ ctl' = NoCtl
  /\ UNCHANGED <<tag, served, moves, total, counter, ledgerVars, poll>>

\* A step of the poll fails: it returns before the list is stored.
GiveUp ==
  /\ ctl.pc \in {"users", "list"}
  /\ ctl' = NoCtl
  /\ UNCHANGED <<tag, list, served, moves, total, counter, ledgerVars, poll>>
-----------------------------------------------------------------------------
(* SubscriptionMonitor. *)

\* Its arguments are read one after the other.
StartPoll ==
  /\ poll.pc = "idle"
  /\ poll' = [NoPoll EXCEPT !.pc = "tag", !.todo = list]
  /\ UNCHANGED <<ctlVars, total, counter, ledgerVars>>

ReadTag ==
  /\ poll.pc = "tag"
  /\ poll' = [poll EXCEPT !.pc = "up", !.tag = tag]
  /\ UNCHANGED <<ctlVars, total, counter, ledgerVars>>

\* getTraffic.  Under a tag that never was, no counter is found.
Look(d, i) ==
  IF poll.tag = None THEN poll
  ELSE LET m == Meter(poll.tag, i, d) IN
       [poll EXCEPT !.report[m] = counter[m],
                    !.reset = IF counter[m] > 0 THEN @ \cup {m} ELSE @]

LookUp(i) ==
  /\ poll.pc = "up" /\ i \in poll.todo
  /\ poll' = [Look("up", i) EXCEPT !.pc = "down", !.id = i, !.todo = @ \ {i}]
  /\ UNCHANGED <<ctlVars, total, counter, ledgerVars>>

\* Mutant: the user is not put aside.
LookDown_KeepsId ==
  /\ poll.pc = "down"
  /\ poll' = [Look("down", poll.id) EXCEPT !.pc = "up"]
  /\ UNCHANGED <<ctlVars, total, counter, ledgerVars>>

\* Mutant: a user with nothing uploaded is left out.
LookDown_UpOnly ==
  /\ poll.pc = "down"
  /\ poll' = [(IF \E m \in poll.reset : m.id = poll.id THEN Look("down", poll.id) ELSE poll)
                EXCEPT !.pc = "up", !.id = None]
  /\ UNCHANGED <<ctlVars, total, counter, ledgerVars>>

LookDown ==
  /\ poll.pc = "down"
  /\ poll' = [Look("down", poll.id) EXCEPT !.pc = "up", !.id = None]
  /\ UNCHANGED <<ctlVars, total, counter, ledgerVars>>

AllLooked ==
  /\ poll.pc = "up" /\ poll.todo = {}
  /\ poll' = IF poll.reset = {} THEN NoPoll ELSE [poll EXCEPT !.pc = "send"]
  /\ UNCHANGED <<ctlVars, total, counter, ledgerVars>>

\* ReportTraffic.
Unbilled == \A m \in poll.reset : billed[m] < MaxBilled
AddToBill == billed' = [m \in Meters |-> billed[m] + poll.report[m]]

\* The panel adds it, and the node sees it fail.
AddUnheard ==
  /\ Unbilled /\ AddToBill
  /\ unheard' = [m \in Meters |-> unheard[m] + poll.report[m]]

Retry == poll' = IF poll.tries < Retries THEN [poll EXCEPT !.tries = @ + 1] ELSE NoPoll

\* Mutant: the counters stay as they are.
Accepted_NoReset ==
  /\ poll.pc = "send"
  /\ AddToBill
  /\ poll' = NoPoll
  /\ UNCHANGED <<ctlVars, total, counter, unheard>>

Accepted ==
  /\ poll.pc = "send"
  /\ AddToBill
  /\ poll' = [poll EXCEPT !.pc = "reset"]
  /\ UNCHANGED <<ctlVars, total, counter, unheard>>

\* The client repeats a request that brings no answer.
Lost ==
  /\ poll.pc = "send"
  /\ \/ "send" \in Faults /\ UNCHANGED ledgerVars
     \/ "reply" \in Faults /\ AddUnheard
  /\ Retry
  /\ UNCHANGED <<ctlVars, total, counter>>

\* Mutant: resetTraffic follows whether the report failed or not.
Failed_Resets ==
  /\ poll.pc = "send"
  /\ \/ "refuse" \in Faults /\ UNCHANGED ledgerVars
     \/ "answer" \in Faults /\ AddUnheard
  /\ poll' = [poll EXCEPT !.pc = "reset"]
  /\ UNCHANGED <<ctlVars, total, counter>>

\* An answer that is an error is not asked for again, and nothing is cleared.
Failed ==
  /\ poll.pc = "send"
  /\ \/ "refuse" \in Faults /\ UNCHANGED ledgerVars
     \/ "answer" \in Faults /\ AddUnheard
  /\ poll' = NoPoll
  /\ UNCHANGED <<ctlVars, total, counter>>

\* resetTraffic: first the uplinks.
ResetCounter(m) ==
  /\ poll.pc = "reset" /\ m \in poll.reset
  /\ m.dir = "down" => \A n \in poll.reset : n.dir = "down"
  /\ counter' = [counter EXCEPT ![m] = 0]
  /\ poll' = [poll EXCEPT !.reset = @ \ {m}]
  /\ UNCHANGED <<ctlVars, total, ledgerVars>>

EndPoll ==
  /\ poll.pc = "reset" /\ poll.reset = {}
  /\ poll' = NoPoll
  /\ UNCHANGED <<ctlVars, total, counter, ledgerVars>>
-----------------------------------------------------------------------------
Control == StoreTag \/ AddAccounts \/ StoreList \/ GiveUp

Monitor ==
  \/ StartPoll \/ ReadTag \/ LookDown \/ AllLooked \/ EndPoll
  \/ \E i \in Ids : LookUp(i)
  \/ \E m \in Meters : ResetCounter(m)

\* The history of the bytes that are counted between the look at a counter and
\* its reset, told apart by the meters alone and not by what was reported.
Remember ==
  /\ late' = [m \in Meters |-> IF m \in poll.reset \cap poll'.reset
                               THEN late[m] + (total'[m] - total[m]) ELSE 0]
  /\ lost' = [m \in Meters |-> IF poll.pc = "reset" /\ m \in poll.reset \ poll'.reset
                               THEN lost[m] + late[m] ELSE lost[m]]

CodeStep ==
  \/ \E m \in Meters : Transfer(m)
  \/ Move \/ Control \/ Monitor \/ Accepted \/ Lost \/ Failed

Next == CodeStep /\ Remember

Spec == Init /\ [][Next]_vars

\* The timer ticks, the calls go on, and a report that is made again and again
\* is accepted again and again.
FairSpec == Spec /\ WF_codeVars(Control) /\ WF_codeVars(Monitor)
                 /\ SF_codeVars(Accepted) /\ WF_codeVars(Lost \/ Failed)
-----------------------------------------------------------------------------
(* Correctness properties. *)

\* Every variable has its type, a poll of nodeInfoMonitor knows its tag, and one
\* of SubscriptionMonitor holds a user only between the two looks at its counters.
TypeOK ==
  /\ tag \in Tags \cup {None} /\ list \in SUBSET Ids
  /\ served \subseteq Tags \X Ids
  /\ ctl \in Ctl /\ (ctl.tag = None) = (ctl.pc = "idle") /\ moves \in 0..MaxMoves
  /\ total \in [Meters -> Nat] /\ counter \in [Meters -> Nat] /\ billed \in [Meters -> Nat]
  /\ unheard \in [Meters -> Nat] /\ late \in [Meters -> Nat] /\ lost \in [Meters -> Nat]
  /\ poll \in Poll /\ (poll.id # None) = (poll.pc = "down")

\* Whatever is lost, refused or changed in between, the reports implement the
\* promise made to the panel: apart from the reports the node saw fail, no byte
\* is billed twice (SubscriptionMonitor, ReportTraffic, resetTraffic).
Ledger == INSTANCE Billing WITH
  Meters <- Meters, total <- total, billed <- billed, unheard <- unheard
NeverOverbilled == Ledger!Spec

\* Between resets every byte of a meter is in one of three places: it is billed by
\* a report the node heard accepted, it is still on the counter, or it was counted
\* between the look at the counter and its reset.  A report that fails, or a counter
\* that is reset without one, loses nothing else ("If report traffic error, not
\* clear the traffic", subscription.go:180).
EveryByteAccounted ==
  poll.pc # "reset" =>
    \A m \in Meters : total[m] + unheard[m] = billed[m] + counter[m] + lost[m]

\* Once the links are quiet and the list stays, every byte of the users of the list
\* is billed, but for those counted between a look and its reset: none stays on a
\* counter and none is reset without its bill (subscription.go:158-187).
EventuallyBilled ==
  <>[](\A m \in Meters : m.tag = tag /\ m.id \in list =>
         billed[m] + lost[m] = total[m] + unheard[m])
=============================================================================
