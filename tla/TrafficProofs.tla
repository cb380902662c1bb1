----------------------------- MODULE TrafficProofs -----------------------------
(***************************************************************************)
(* Proofs about Traffic: its type invariant, that the reports implement    *)
(* Billing, and where every byte is.  They hold with every fault.          *)
(***************************************************************************)
EXTENDS Traffic, TLAPS

\* billed and unheard are left alone together.
USE DEF ledgerVars

LEMMA MeterType ==
  ASSUME NEW t \in Tags, NEW i \in Ids, NEW d \in {"up", "down"}
  PROVE  Meter(t, i, d) \in Meters
  BY DEF Meters, Meter

\* A look at a counter leaves a poll a poll, in its place.
LEMMA LookType ==
  ASSUME TypeOK, NEW d \in {"up", "down"}, NEW i \in Ids
  PROVE  /\ Look(d, i) \in Poll
         /\ Look(d, i).pc = poll.pc
<1>1. CASE poll.tag = None
  BY <1>1 DEF TypeOK, Look
<1>2. CASE poll.tag # None
  <2> DEFINE m == Meter(poll.tag, i, d)
  <2>1. m \in Meters /\ counter[m] \in Nat
    BY <1>2, MeterType DEF TypeOK, Poll
  <2>2. Look(d, i) = [poll EXCEPT !.report[m] = counter[m],
                        !.reset = IF counter[m] > 0 THEN @ \cup {m} ELSE @]
    BY <1>2 DEF Look
  <2> HIDE DEF m
  <2>3. poll \in Poll
    BY DEF TypeOK
  <2>4. [poll.report EXCEPT ![m] = counter[m]] \in [Meters -> Nat]
    BY <2>1, <2>3 DEF Poll
  <2>5. (IF counter[m] > 0 THEN poll.reset \cup {m} ELSE poll.reset) \in SUBSET Meters
    BY <2>1, <2>3 DEF Poll
  <2>6. Look(d, i) = [poll EXCEPT !.report = [poll.report EXCEPT ![m] = counter[m]],
                        !.reset = IF counter[m] > 0 THEN poll.reset \cup {m} ELSE poll.reset]
    BY <2>2, <2>3 DEF Poll
  <2> QED BY <2>3, <2>4, <2>5, <2>6 DEF Poll
<1> QED BY <1>1, <1>2

LEMMA ZeroType == Zero \in [Meters -> Nat]
  BY DEF Zero

LEMMA NoPollType == NoPoll \in Poll /\ NoPoll.id = None /\ NoPoll.pc = "idle"
  BY ZeroType DEF NoPoll, Poll

LEMMA TypeInit == Init => TypeOK
  BY ZeroType, NoPollType, TrafficAssumption DEF Init, TypeOK, NoCtl, Ctl

LEMMA AddToBillType ==
  ASSUME TypeOK, AddToBill
  PROVE  billed' \in [Meters -> Nat]
<1>1. billed \in [Meters -> Nat] /\ poll.report \in [Meters -> Nat]
  BY DEF TypeOK, Poll
<1>2. \A m \in Meters : billed[m] + poll.report[m] \in Nat
  BY <1>1
<1> QED BY <1>2 DEF AddToBill

LEMMA AddUnheardType ==
  ASSUME TypeOK, AddUnheard
  PROVE  billed' \in [Meters -> Nat] /\ unheard' \in [Meters -> Nat]
<1>1. billed' \in [Meters -> Nat]
  BY AddToBillType DEF AddUnheard
<1>2. unheard \in [Meters -> Nat] /\ poll.report \in [Meters -> Nat]
  BY DEF TypeOK, Poll
<1>3. \A m \in Meters : unheard[m] + poll.report[m] \in Nat
  BY <1>2
<1> QED BY <1>1, <1>3 DEF AddUnheard

LEMMA RetryType ==
  ASSUME TypeOK, Retry, poll.pc = "send"
  PROVE  poll' \in Poll /\ (poll'.id # None) = (poll'.pc = "down")
<1>1. CASE poll.tries < Retries
  <2>1. poll' = [poll EXCEPT !.tries = @ + 1] /\ poll \in Poll
    BY <1>1 DEF Retry, TypeOK
  <2> QED BY <2>1 DEF TypeOK, Poll
<1>2. CASE ~ (poll.tries < Retries)
  BY <1>2, NoPollType DEF Retry
<1> QED BY <1>1, <1>2

\* The types of all but the history variables.
CodeOK ==
  /\ tag \in Tags \cup {None} /\ list \in SUBSET Ids
  /\ served \subseteq Tags \X Ids
  /\ ctl \in Ctl /\ (ctl.tag = None) = (ctl.pc = "idle") /\ moves \in 0..MaxMoves
  /\ total \in [Meters -> Nat] /\ counter \in [Meters -> Nat] /\ billed \in [Meters -> Nat]
  /\ unheard \in [Meters -> Nat]
  /\ poll \in Poll /\ (poll.id # None) = (poll.pc = "down")

LEMMA CodeNext ==
  ASSUME TypeOK, CodeStep \/ UNCHANGED codeVars
  PROVE  CodeOK'
<1> USE TrafficAssumption DEF CodeOK
<1>1. CASE UNCHANGED codeVars
  BY <1>1 DEF TypeOK, codeVars, ctlVars
<1>2. ASSUME NEW m \in Meters, Transfer(m) PROVE CodeOK'
  <2>1. total' \in [Meters -> Nat] /\ counter' \in [Meters -> Nat]
    BY <1>2 DEF Transfer, TypeOK
  <2> QED BY <1>2, <2>1 DEF Transfer, TypeOK, ctlVars
<1>3. CASE Move
  BY <1>3 DEF Move, TypeOK, Ctl
<1>4. CASE StoreTag
  BY <1>4 DEF StoreTag, TypeOK, Ctl
<1>5. CASE AddAccounts
  <2>1. served' \subseteq Tags \X Ids
    <3>1. ctl.tag \in Tags /\ ctl.list \in SUBSET Ids
      BY <1>5 DEF AddAccounts, TypeOK, Ctl
    <3> QED BY <3>1, <1>5 DEF AddAccounts, TypeOK
  <2> QED BY <1>5, <2>1 DEF AddAccounts, TypeOK, Ctl
<1>6. CASE StoreList
  BY <1>6 DEF StoreList, TypeOK, Ctl, NoCtl
<1>7. CASE GiveUp
  BY <1>7 DEF GiveUp, TypeOK, Ctl, NoCtl
<1>8. CASE StartPoll
  BY <1>8, NoPollType DEF StartPoll, TypeOK, Poll, ctlVars
<1>9. CASE ReadTag
  BY <1>9 DEF ReadTag, TypeOK, Poll, ctlVars
<1>10. ASSUME NEW i \in Ids, LookUp(i) PROVE CodeOK'
  <2>1. Look("up", i) \in Poll
    BY LookType
  <2>2. poll' \in Poll /\ poll'.id = i /\ poll'.pc = "down"
    BY <2>1, <1>10 DEF LookUp, Poll
  <2> QED BY <2>2, <1>10 DEF LookUp, TypeOK, ctlVars
<1>11. CASE LookDown
  <2>1. Look("down", poll.id) \in Poll
    BY LookType, <1>11 DEF LookDown, TypeOK, Poll
  <2>2. poll' \in Poll /\ poll'.id = None /\ poll'.pc = "up"
    BY <2>1, <1>11 DEF LookDown, Poll
  <2> QED BY <2>2, <1>11 DEF LookDown, TypeOK, ctlVars
<1>12. CASE AllLooked
  <2>1. poll' \in Poll /\ poll'.id = None /\ poll'.pc # "down"
    BY <1>12, NoPollType DEF AllLooked, TypeOK, Poll
  <2> QED BY <2>1, <1>12 DEF AllLooked, TypeOK, ctlVars
<1>13. CASE EndPoll
  BY <1>13, NoPollType DEF EndPoll, TypeOK, ctlVars
<1>14. ASSUME NEW m \in Meters, ResetCounter(m) PROVE CodeOK'
  BY <1>14 DEF ResetCounter, TypeOK, Poll, ctlVars
<1>15. CASE Accepted
  BY <1>15, AddToBillType DEF Accepted, TypeOK, Poll, ctlVars
<1>16. CASE Lost
  <2>1. billed' \in [Meters -> Nat] /\ unheard' \in [Meters -> Nat]
    BY <1>16, AddUnheardType DEF Lost, TypeOK
  <2>2. poll' \in Poll /\ (poll'.id # None) = (poll'.pc = "down")
    BY <1>16, RetryType DEF Lost
  <2> QED BY <1>16, <2>1, <2>2 DEF Lost, TypeOK, ctlVars
<1>17. CASE Failed
  <2>1. billed' \in [Meters -> Nat] /\ unheard' \in [Meters -> Nat]
    BY <1>17, AddUnheardType DEF Failed, TypeOK
  <2> QED BY <1>17, <2>1, NoPollType DEF Failed, TypeOK, ctlVars
<1> QED
  BY <1>1, <1>2, <1>3, <1>4, <1>5, <1>6, <1>7, <1>8, <1>9, <1>10, <1>11, <1>12,
     <1>13, <1>14, <1>15, <1>16, <1>17 DEF CodeStep, Control, Monitor

\* A step only adds to what was transferred.
LEMMA TotalGrows ==
  ASSUME TypeOK, CodeStep \/ UNCHANGED codeVars, NEW m \in Meters
  PROVE  total'[m] - total[m] \in Nat
<1>1. total[m] \in Nat
  BY DEF TypeOK
<1>2. ASSUME NEW n \in Meters, Transfer(n) PROVE total'[m] - total[m] \in Nat
  <2>1. total \in [Meters -> Nat] /\ total' = [total EXCEPT ![n] = @ + 1]
    BY <1>2 DEF TypeOK, Transfer
  <2>2. total'[m] = total[m] \/ total'[m] = total[m] + 1
    BY <2>1
  <2> QED BY <1>1, <2>2
<1>3. CASE UNCHANGED total
  BY <1>1, <1>3
<1>4. CASE UNCHANGED codeVars \/ Move \/ Control \/ Monitor \/ Accepted \/ Lost \/ Failed
  BY <1>3, <1>4 DEF codeVars, Move, Control, StoreTag, AddAccounts, StoreList, GiveUp, Monitor,
     StartPoll, ReadTag, LookUp, LookDown, AllLooked, EndPoll, ResetCounter,
     Accepted, Lost, Failed
<1> QED BY <1>2, <1>4 DEF CodeStep

LEMMA TypeNext == TypeOK /\ [Next]_vars => TypeOK'
<1> SUFFICES ASSUME TypeOK, [Next]_vars PROVE TypeOK'
  OBVIOUS
<1>1. CodeStep \/ UNCHANGED codeVars
  BY DEF Next, vars
<1>2. CodeOK'
  BY <1>1, CodeNext
<1>3. late' \in [Meters -> Nat] /\ lost' \in [Meters -> Nat]
  <2>1. CASE UNCHANGED <<late, lost>>
    BY <2>1 DEF TypeOK
  <2>2. CASE Remember
    <3>1. late \in [Meters -> Nat] /\ lost \in [Meters -> Nat]
      BY DEF TypeOK
    <3>2. \A m \in Meters : late[m] + (total'[m] - total[m]) \in Nat /\ lost[m] + late[m] \in Nat
      BY <1>1, <3>1, TotalGrows
    <3> QED BY <2>2, <3>1, <3>2 DEF Remember
  <2> QED BY <2>1, <2>2 DEF Next, vars
<1> QED BY <1>2, <1>3 DEF CodeOK, TypeOK

\* The type invariant, for any number of users and tags: SubscriptionMonitor
\* and the poll of the controller keep every variable in its type.
THEOREM TypeCorrect == Spec => []TypeOK
  BY TypeInit, TypeNext, PTL DEF Spec
-----------------------------------------------------------------------------
(* Where every byte is. *)

\* Bytes that are billed and not yet off their counter.
Sent(m) == IF poll.pc = "reset" /\ m \in poll.reset THEN poll.report[m] ELSE 0

\* The account of a meter, at every step.
AccountInv ==
  \A m \in Meters : total[m] + unheard[m] + Sent(m) = billed[m] + counter[m] + lost[m]

\* What a counter has above its report was counted since the look ...
LateInv == \A m \in poll.reset : poll.report[m] + late[m] = counter[m]

\* ... and nothing is reported of a counter that is not to be reset ...
ResetInv ==
  /\ poll.pc \in {"idle", "tag"} => poll.reset = {}
  /\ poll.pc \in {"tag", "up", "down", "send"} =>
       \A m \in Meters \ poll.reset : poll.report[m] = 0

\* ... because no counter is looked at twice in a poll.
OnceInv ==
  /\ \A m \in poll.reset : /\ m.id \notin poll.todo
                           /\ poll.pc = "down" /\ m.id = poll.id => m.dir = "up"
  /\ poll.pc = "down" => poll.id \notin poll.todo

BillInv == TypeOK /\ AccountInv /\ LateInv /\ ResetInv /\ OnceInv

LEMMA Types ==
  ASSUME TypeOK
  PROVE  /\ total \in [Meters -> Nat] /\ counter \in [Meters -> Nat]
         /\ billed \in [Meters -> Nat] /\ unheard \in [Meters -> Nat]
         /\ late \in [Meters -> Nat] /\ lost \in [Meters -> Nat]
         /\ poll \in Poll /\ poll.report \in [Meters -> Nat] /\ poll.reset \subseteq Meters
  BY DEF TypeOK, Poll

\* The history of a step through which no byte goes and that resets nothing.
LEMMA RememberQuiet ==
  ASSUME TypeOK, Remember, UNCHANGED total, poll.pc = "reset" => poll'.reset = poll.reset
  PROVE  /\ lost' = lost
         /\ \A m \in poll.reset \cap poll'.reset : late'[m] = late[m]
         /\ \A m \in Meters \ poll.reset : late'[m] = 0
<1>1. \A m \in Meters : late[m] + (total[m] - total[m]) = late[m]
  BY DEF TypeOK
<1>2. poll.reset \subseteq Meters /\ lost = [m \in Meters |-> lost[m]]
  BY Types
<1>3. \A m \in Meters : lost'[m] = lost[m]
  BY DEF Remember
<1>4. lost' = [m \in Meters |-> lost'[m]]
  BY DEF Remember
<1> QED BY <1>1, <1>2, <1>3, <1>4 DEF Remember

LEMMA BillInit == Init => BillInv
<1> SUFFICES ASSUME Init PROVE BillInv
  OBVIOUS
<1>1. TypeOK
  BY TypeInit
<1>2. /\ poll.pc = "idle" /\ poll.reset = {}
      /\ \A m \in Meters : /\ billed[m] = 0 /\ counter[m] = 0 /\ total[m] = 0
                           /\ unheard[m] = 0 /\ lost[m] = 0
  BY DEF Init, Zero, NoPoll
<1> QED BY <1>1, <1>2 DEF BillInv, AccountInv, LateInv, ResetInv, OnceInv, Sent

\* A call ends.
LEMMA BillKeptIdle ==
  ASSUME BillInv, TypeOK', Remember, poll' = NoPoll, UNCHANGED <<total, counter, billed, unheard>>,
         poll.pc = "reset" => poll.reset = {}
  PROVE  BillInv'
<1>1. poll'.pc = "idle" /\ poll'.reset = {} /\ TypeOK
  BY DEF NoPoll, BillInv
<1>2. \A m \in Meters : Sent(m) = 0 /\ Sent(m)' = 0
  BY <1>1 DEF Sent
<1>3. lost' = lost
  BY <1>1, RememberQuiet
<1>4. AccountInv'
  BY <1>2, <1>3 DEF BillInv, AccountInv
<1> QED BY <1>1, <1>4 DEF BillInv, LateInv, ResetInv, OnceInv

\* One more try, or the state of the controller changes.
LEMMA BillKeptSame ==
  ASSUME BillInv, TypeOK', Remember, UNCHANGED <<total, counter, billed, unheard>>,
         poll'.pc = poll.pc, poll'.report = poll.report, poll'.reset = poll.reset,
         poll'.todo = poll.todo, poll'.id = poll.id
  PROVE  BillInv'
<1>1. \A m \in Meters : Sent(m)' = Sent(m)
  BY DEF Sent
<1>2. lost' = lost /\ \A m \in poll.reset : late'[m] = late[m]
  BY RememberQuiet DEF BillInv
<1>3. AccountInv'
  BY <1>1, <1>2 DEF BillInv, AccountInv
<1>4. LateInv'
  BY <1>2 DEF BillInv, LateInv
<1> QED BY <1>3, <1>4 DEF BillInv, ResetInv, OnceInv

\* What a look does, meter by meter.
LEMMA LookEffect ==
  ASSUME TypeOK, NEW d \in {"up", "down"}, NEW i \in Ids, NEW m \in Meters
  PROVE  /\ m = Meter(poll.tag, i, d) /\ m \in Look(d, i).reset =>
              m \in poll.reset \/ Look(d, i).report[m] = counter[m]
         /\ m # Meter(poll.tag, i, d) =>
              Look(d, i).report[m] = poll.report[m] /\ (m \in Look(d, i).reset <=> m \in poll.reset)
         /\ m \in poll.reset => m \in Look(d, i).reset
         /\ m \notin Look(d, i).reset => Look(d, i).report[m] \in {poll.report[m], 0}
<1>1. CASE poll.tag = None
  <2>1. Look(d, i) = poll /\ \A n \in Meters : n # Meter(poll.tag, i, d)
    BY <1>1, TrafficAssumption DEF Look, Meter, Meters
  <2> QED BY <2>1
<1>2. CASE poll.tag # None
  <2> DEFINE n == Meter(poll.tag, i, d)
  <2>1. n \in Meters /\ counter[n] \in Nat /\ poll \in Poll
    BY <1>2, MeterType DEF TypeOK, Poll
  <2>2. Look(d, i) = [poll EXCEPT !.report[n] = counter[n],
                        !.reset = IF counter[n] > 0 THEN @ \cup {n} ELSE @]
    BY <1>2 DEF Look
  <2> HIDE DEF n
  <2>3. Look(d, i).report = [poll.report EXCEPT ![n] = counter[n]]
    BY <2>1, <2>2 DEF Poll
  <2>4. Look(d, i).reset = IF counter[n] > 0 THEN poll.reset \cup {n} ELSE poll.reset
    BY <2>1, <2>2 DEF Poll
  <2>5. poll.report \in [Meters -> Nat]
    BY <2>1 DEF Poll
  <2>6. (m = n /\ m \in Look(d, i).reset => m \in poll.reset \/ Look(d, i).report[m] = counter[m])
    BY <2>3, <2>5
  <2>7. m # n => Look(d, i).report[m] = poll.report[m] /\ (m \in Look(d, i).reset <=> m \in poll.reset)
    BY <2>3, <2>4, <2>5
  <2>8. m \in poll.reset => m \in Look(d, i).reset
    BY <2>4
  <2>9. m \notin Look(d, i).reset => Look(d, i).report[m] \in {poll.report[m], 0}
    BY <2>1, <2>3, <2>4, <2>5
  <2> QED BY <2>6, <2>7, <2>8, <2>9 DEF n
<1> QED BY <1>1, <1>2

\* One more counter is read.
LEMMA BillKeptLook ==
  ASSUME BillInv, TypeOK', Remember, UNCHANGED <<total, counter, billed, unheard>>,
         NEW d \in {"up", "down"}, NEW i \in Ids, poll.pc \in {"up", "down"},
         poll'.pc \in {"up", "down"}, poll'.pc = "down" => d = "up" /\ poll'.id = i,
         Meter(poll.tag, i, d) \notin poll.reset,
         poll'.todo \subseteq poll.todo, i \notin poll'.todo,
         \A m \in poll.reset : m.id # i \/ m.dir = "up",
         poll'.report = Look(d, i).report, poll'.reset = Look(d, i).reset
  PROVE  BillInv'
<1>1. TypeOK
  BY DEF BillInv
<1>2. \A m \in Meters : Sent(m)' = 0 /\ Sent(m) = 0
  BY DEF Sent
<1>3. /\ lost' = lost /\ \A m \in poll.reset \cap poll'.reset : late'[m] = late[m]
      /\ \A m \in Meters \ poll.reset : late'[m] = 0
  BY <1>1, RememberQuiet
<1>4. AccountInv'
  BY <1>2, <1>3 DEF BillInv, AccountInv
<1>5. LateInv'
  <2> SUFFICES ASSUME NEW m \in poll'.reset PROVE poll'.report[m] + late'[m] = counter'[m]
    BY DEF LateInv
  <2>1. m \in Meters /\ counter[m] \in Nat
    BY <1>1, Types, LookType DEF Poll
  <2>2. CASE m \in poll.reset
    <3>1. poll'.report[m] = poll.report[m]
      BY <1>1, <2>1, <2>2, LookEffect
    <3> QED BY <1>3, <2>2, <3>1 DEF BillInv, LateInv
  <2>3. CASE m \notin poll.reset
    <3>1. poll'.report[m] = counter[m] /\ late'[m] = 0
      BY <1>1, <1>3, <2>1, <2>3, LookEffect
    <3> QED BY <2>1, <3>1
  <2> QED BY <2>2, <2>3
<1>6. ResetInv'
  <2> SUFFICES ASSUME NEW m \in Meters, m \notin poll'.reset PROVE poll'.report[m] = 0
    BY DEF ResetInv
  <2>1. m \notin poll.reset /\ poll'.report[m] \in {poll.report[m], 0}
    BY <1>1, LookEffect
  <2> QED BY <2>1 DEF BillInv, ResetInv
<1>7. OnceInv'
  <2>1. ASSUME NEW m \in poll'.reset
        PROVE  /\ m.id \notin poll'.todo
               /\ poll'.pc = "down" /\ m.id = poll'.id => m.dir = "up"
    <3>1. m \in Meters
      BY <1>1, LookType DEF Poll
    <3>2. CASE m \in poll.reset
      BY <3>2 DEF BillInv, OnceInv
    <3>3. CASE m \notin poll.reset
      <4>1. m = Meter(poll.tag, i, d)
        BY <1>1, <3>1, <3>3, LookEffect
      <4> QED BY <4>1 DEF Meter
    <3> QED BY <3>2, <3>3
  <2> QED BY <2>1 DEF OnceInv
<1> QED BY <1>4, <1>5, <1>6, <1>7 DEF BillInv

\* A report that is billed unheard of.
LEMMA UnheardKept ==
  ASSUME BillInv, AddUnheard, Remember, UNCHANGED <<total, counter>>,
         poll.pc = "send", poll'.pc # "reset"
  PROVE  AccountInv'
<1> SUFFICES ASSUME NEW n \in Meters
             PROVE  total'[n] + unheard'[n] + Sent(n)' = billed'[n] + counter'[n] + lost'[n]
  BY DEF AccountInv
<1>1. /\ total \in [Meters -> Nat] /\ counter \in [Meters -> Nat]
      /\ billed \in [Meters -> Nat] /\ unheard \in [Meters -> Nat] /\ lost \in [Meters -> Nat]
      /\ poll.report \in [Meters -> Nat]
  BY Types DEF BillInv
<1>2. Sent(n) = 0 /\ Sent(n)' = 0 /\ lost' = lost
  BY RememberQuiet DEF Sent, BillInv
<1>3. total[n] + unheard[n] + Sent(n) = billed[n] + counter[n] + lost[n]
  BY DEF BillInv, AccountInv
<1>4. billed'[n] = billed[n] + poll.report[n] /\ unheard'[n] = unheard[n] + poll.report[n]
  BY DEF AddUnheard, AddToBill
<1> QED BY <1>1, <1>2, <1>3, <1>4

\* A byte goes through a meter.
LEMMA BillKeptTransfer ==
  ASSUME BillInv, TypeOK', Remember, NEW m \in Meters, Transfer(m)
  PROVE  BillInv'
<1>1. /\ total' = [total EXCEPT ![m] = @ + 1] /\ counter' = [counter EXCEPT ![m] = @ + 1]
      /\ UNCHANGED <<billed, unheard, poll>>
  BY DEF Transfer
<1>2. /\ total \in [Meters -> Nat] /\ counter \in [Meters -> Nat] /\ late \in [Meters -> Nat]
      /\ lost \in [Meters -> Nat] /\ billed \in [Meters -> Nat] /\ unheard \in [Meters -> Nat]
      /\ poll.report \in [Meters -> Nat] /\ poll.reset \subseteq Meters
  BY Types DEF BillInv
<1>3. \A n \in Meters : Sent(n)' = Sent(n) /\ Sent(n) \in Nat
  BY <1>1, <1>2 DEF Sent
<1>4. \A n \in Meters : lost'[n] = lost[n]
  BY <1>1 DEF Remember
<1>5. AccountInv'
  <2> SUFFICES ASSUME NEW n \in Meters
               PROVE  total'[n] + unheard'[n] + Sent(n)' = billed'[n] + counter'[n] + lost'[n]
    BY DEF AccountInv
  <2>1. total[n] + unheard[n] + Sent(n) = billed[n] + counter[n] + lost[n]
    BY DEF BillInv, AccountInv
  <2> QED BY <2>1, <1>1, <1>2, <1>3, <1>4
<1>6. LateInv'
  <2> SUFFICES ASSUME NEW n \in poll.reset PROVE poll.report[n] + late'[n] = counter'[n]
    BY <1>1 DEF LateInv
  <2>1. late'[n] = late[n] + (total'[n] - total[n])
    BY <1>1, <1>2 DEF Remember
  <2>2. poll.report[n] + late[n] = counter[n]
    BY DEF BillInv, LateInv
  <2> QED BY <2>1, <2>2, <1>1, <1>2
<1>7. ResetInv' /\ OnceInv'
  BY <1>1 DEF BillInv, ResetInv, OnceInv
<1> QED BY <1>5, <1>6, <1>7 DEF BillInv

\* A counter is set to 0: what it counted since the look is gone.
LEMMA BillKeptReset ==
  ASSUME BillInv, TypeOK', Remember, NEW m \in Meters, ResetCounter(m)
  PROVE  BillInv'
<1>1. TypeOK
  BY DEF BillInv
<1>2. /\ total \in [Meters -> Nat] /\ counter \in [Meters -> Nat] /\ late \in [Meters -> Nat]
      /\ lost \in [Meters -> Nat] /\ billed \in [Meters -> Nat] /\ unheard \in [Meters -> Nat]
      /\ poll.report \in [Meters -> Nat] /\ poll.reset \subseteq Meters
  BY <1>1, Types
<1>3. /\ poll.pc = "reset" /\ poll'.pc = "reset" /\ m \in poll.reset
      /\ poll'.reset = poll.reset \ {m} /\ poll'.report = poll.report
      /\ poll'.todo = poll.todo /\ poll'.id = poll.id
      /\ counter' = [counter EXCEPT ![m] = 0] /\ UNCHANGED <<total, billed, unheard>>
  BY <1>1 DEF ResetCounter, TypeOK, Poll
<1>4. \A n \in poll.reset : poll.report[n] + late[n] = counter[n]
  BY DEF BillInv, LateInv
<1>5. AccountInv'
  <2> SUFFICES ASSUME NEW n \in Meters
               PROVE  total'[n] + unheard'[n] + Sent(n)' = billed'[n] + counter'[n] + lost'[n]
    BY DEF AccountInv
  <2>1. total[n] + unheard[n] + Sent(n) = billed[n] + counter[n] + lost[n]
    BY DEF BillInv, AccountInv
  <2>2. CASE n = m
    <3>1. Sent(n) = poll.report[n] /\ Sent(n)' = 0 /\ lost'[n] = lost[n] + late[n]
      BY <1>3, <2>2 DEF Sent, Remember
    <3>2. poll.report[n] + late[n] = counter[n] /\ counter'[n] = 0
      BY <1>2, <1>3, <1>4, <2>2
    <3> QED BY <2>1, <3>1, <3>2, <1>2, <1>3
  <2>3. CASE n # m
    <3>1. Sent(n)' = Sent(n) /\ lost'[n] = lost[n] /\ counter'[n] = counter[n]
      BY <1>2, <1>3, <2>3 DEF Sent, Remember
    <3> QED BY <2>1, <3>1, <1>3
  <2> QED BY <2>2, <2>3
<1>6. LateInv'
  <2> SUFFICES ASSUME NEW n \in poll'.reset PROVE poll'.report[n] + late'[n] = counter'[n]
    BY DEF LateInv
  <2>1. n \in Meters /\ n \in poll.reset /\ n # m
    BY <1>2, <1>3
  <2>2. late'[n] = late[n] + (total[n] - total[n])
    BY <1>3, <2>1 DEF Remember
  <2> QED BY <1>2, <1>3, <1>4, <2>1, <2>2
<1> QED BY <1>3, <1>5, <1>6 DEF BillInv, ResetInv, OnceInv

\* A report is accepted: it is billed and still on the counters.
LEMMA BillKeptAccepted ==
  ASSUME BillInv, TypeOK', Remember, Accepted
  PROVE  BillInv'
<1>1. TypeOK
  BY DEF BillInv
<1>2. /\ total \in [Meters -> Nat] /\ counter \in [Meters -> Nat]
      /\ lost \in [Meters -> Nat] /\ billed \in [Meters -> Nat] /\ unheard \in [Meters -> Nat]
      /\ poll.report \in [Meters -> Nat]
  BY <1>1, Types
<1>3. /\ poll.pc = "send" /\ poll'.pc = "reset"
      /\ poll'.report = poll.report /\ poll'.reset = poll.reset
      /\ poll'.todo = poll.todo /\ poll'.id = poll.id
      /\ billed' = [n \in Meters |-> billed[n] + poll.report[n]]
      /\ UNCHANGED <<total, counter, unheard>>
  BY <1>1 DEF Accepted, AddToBill, TypeOK, Poll
<1>4. lost' = lost /\ \A n \in poll.reset : late'[n] = late[n]
  BY <1>1, <1>3, RememberQuiet
<1>5. AccountInv'
  <2> SUFFICES ASSUME NEW n \in Meters
               PROVE  total'[n] + unheard'[n] + Sent(n)' = billed'[n] + counter'[n] + lost'[n]
    BY DEF AccountInv
  <2>1. total[n] + unheard[n] + Sent(n) = billed[n] + counter[n] + lost[n] /\ Sent(n) = 0
    BY <1>3 DEF BillInv, AccountInv, Sent
  <2>2. n \notin poll.reset => poll.report[n] = 0
    BY <1>3 DEF BillInv, ResetInv
  <2>3. Sent(n)' = poll.report[n]
    BY <2>2, <1>3 DEF Sent
  <2> QED BY <2>1, <2>3, <1>2, <1>3, <1>4
<1>6. LateInv'
  BY <1>3, <1>4 DEF BillInv, LateInv
<1> QED BY <1>3, <1>5, <1>6 DEF BillInv, ResetInv, OnceInv

\* A report fails and is made again, or is given up; the panel may have it.
LEMMA BillKeptFailed ==
  ASSUME BillInv, TypeOK', Remember, Lost \/ Failed
  PROVE  BillInv'
<1>1. TypeOK
  BY DEF BillInv
<1>2. /\ poll.pc = "send" /\ UNCHANGED <<total, counter>>
      /\ UNCHANGED <<billed, unheard>> \/ AddUnheard
  BY DEF Lost, Failed
<1>3. CASE poll' = NoPoll
  <2>1. poll'.pc = "idle" /\ poll'.reset = {}
    BY <1>3 DEF NoPoll
  <2>2. CASE UNCHANGED <<billed, unheard>>
    BY <1>2, <1>3, <2>2, BillKeptIdle
  <2>3. CASE AddUnheard
    <3>1. AccountInv'
      BY <1>2, <2>1, <2>3, UnheardKept
    <3> QED BY <2>1, <3>1 DEF BillInv, LateInv, ResetInv, OnceInv
  <2> QED BY <1>2, <2>2, <2>3
<1>4. CASE poll' = [poll EXCEPT !.tries = @ + 1]
  <2>1. /\ poll'.pc = poll.pc /\ poll'.report = poll.report /\ poll'.reset = poll.reset
        /\ poll'.todo = poll.todo /\ poll'.id = poll.id
    BY <1>1, <1>4 DEF TypeOK, Poll
  <2>2. CASE UNCHANGED <<billed, unheard>>
    BY <1>2, <2>1, <2>2, BillKeptSame
  <2>3. CASE AddUnheard
    <3>1. AccountInv'
      BY <1>2, <2>1, <2>3, UnheardKept
    <3>2. \A m \in poll.reset : late'[m] = late[m]
      BY <1>1, <1>2, <2>1, RememberQuiet
    <3>3. LateInv'
      BY <1>2, <2>1, <3>2 DEF BillInv, LateInv
    <3> QED BY <2>1, <3>1, <3>3 DEF BillInv, ResetInv, OnceInv
  <2> QED BY <1>2, <2>2, <2>3
<1> QED BY <1>3, <1>4 DEF Lost, Failed, Retry

LEMMA BillNext == BillInv /\ [Next]_vars => BillInv'
<1> SUFFICES ASSUME BillInv, [Next]_vars PROVE BillInv'
  OBVIOUS
<1>0. TypeOK /\ TypeOK'
  BY TypeNext DEF BillInv
<1>1. CASE UNCHANGED vars
  <2>1. UNCHANGED <<total, counter, billed, unheard, poll, late, lost>>
    BY <1>1 DEF vars, codeVars
  <2>2. \A m \in Meters : Sent(m)' = Sent(m)
    BY <2>1 DEF Sent
  <2> QED BY <1>0, <2>1, <2>2 DEF BillInv, AccountInv, LateInv, ResetInv, OnceInv
<1> SUFFICES ASSUME CodeStep, Remember PROVE BillInv'
  BY <1>1 DEF Next
<1>2. ASSUME NEW m \in Meters, Transfer(m) PROVE BillInv'
  BY <1>0, <1>2, BillKeptTransfer
<1>3. CASE Move \/ Control
  BY <1>0, <1>3, BillKeptSame DEF Move, Control, StoreTag, AddAccounts, StoreList, GiveUp
<1>4. CASE StartPoll
  <2>1. /\ poll'.pc = "tag" /\ poll'.report = Zero /\ poll'.reset = {} /\ poll.pc = "idle"
        /\ UNCHANGED <<total, counter, billed, unheard>>
    BY <1>4 DEF StartPoll, NoPoll
  <2>2. lost' = lost
    BY <1>0, <2>1, RememberQuiet
  <2>3. AccountInv'
    BY <2>1, <2>2 DEF BillInv, AccountInv, Sent
  <2> QED BY <1>0, <2>1, <2>3 DEF BillInv, LateInv, ResetInv, OnceInv, Zero
<1>5. CASE ReadTag
  <2>1. /\ poll.pc = "tag" /\ poll'.pc = "up" /\ poll'.report = poll.report
        /\ poll'.reset = poll.reset /\ UNCHANGED <<total, counter, billed, unheard>>
    BY <1>5, <1>0 DEF ReadTag, TypeOK, Poll
  <2>2. lost' = lost /\ poll.reset = {}
    BY <1>0, <2>1, RememberQuiet DEF BillInv, ResetInv
  <2>3. AccountInv'
    BY <2>1, <2>2 DEF BillInv, AccountInv, Sent
  <2> QED BY <1>0, <2>1, <2>2, <2>3 DEF BillInv, LateInv, ResetInv, OnceInv
<1>6. ASSUME NEW i \in Ids, LookUp(i) PROVE BillInv'
  <2>1. Look("up", i) \in Poll
    BY <1>0, LookType
  <2>2. /\ poll.pc = "up" /\ i \in poll.todo /\ poll'.pc = "down" /\ poll'.id = i
        /\ poll'.report = Look("up", i).report /\ poll'.reset = Look("up", i).reset
        /\ UNCHANGED <<total, counter, billed, unheard>>
    BY <2>1, <1>6 DEF LookUp, Poll
  <2>3. poll'.todo = poll.todo \ {i}
    <3>1. Look("up", i).todo = poll.todo
      BY <1>0 DEF Look, TypeOK, Poll
    <3> QED BY <2>1, <3>1, <1>6 DEF LookUp, Poll
  <2>4. \A m \in poll.reset : m.id # i
    BY <2>2 DEF BillInv, OnceInv
  <2>5. Meter(poll.tag, i, "up") \notin poll.reset
    BY <2>4 DEF Meter
  <2> QED BY <1>0, <2>2, <2>3, <2>4, <2>5, BillKeptLook
<1>7. CASE LookDown
  <2>0. poll.pc = "down" /\ poll.id \in Ids
    BY <1>0, <1>7 DEF LookDown, TypeOK, Poll
  <2>1. Look("down", poll.id) \in Poll
    BY <1>0, <2>0, LookType
  <2>2. /\ poll'.pc = "up"
        /\ poll'.report = Look("down", poll.id).report /\ poll'.reset = Look("down", poll.id).reset
        /\ UNCHANGED <<total, counter, billed, unheard>>
    BY <2>1, <1>7 DEF LookDown, Poll
  <2>3. poll'.todo = poll.todo
    <3>1. Look("down", poll.id).todo = poll.todo
      BY <1>0 DEF Look, TypeOK, Poll
    <3> QED BY <2>1, <3>1, <1>7 DEF LookDown, Poll
  <2>4. poll.id \notin poll.todo /\ \A m \in poll.reset : m.id # poll.id \/ m.dir = "up"
    BY <2>0 DEF BillInv, OnceInv
  <2>5. Meter(poll.tag, poll.id, "down") \notin poll.reset
    BY <2>4 DEF Meter
  <2> QED BY <1>0, <2>0, <2>2, <2>3, <2>4, <2>5, BillKeptLook
<1>8. CASE AllLooked
  <2>1. CASE poll.reset = {}
    BY <1>0, <1>8, <2>1, BillKeptIdle DEF AllLooked
  <2>2. CASE poll.reset # {}
    <3>1. /\ poll.pc = "up" /\ poll'.pc = "send" /\ poll'.report = poll.report
          /\ poll'.reset = poll.reset /\ poll'.todo = poll.todo
          /\ UNCHANGED <<total, counter, billed, unheard>>
      BY <1>0, <1>8, <2>2 DEF AllLooked, TypeOK, Poll
    <3>2. lost' = lost /\ \A m \in poll.reset : late'[m] = late[m]
      BY <1>0, <3>1, RememberQuiet
    <3>3. AccountInv'
      BY <3>1, <3>2 DEF BillInv, AccountInv, Sent
    <3>4. LateInv'
      BY <3>1, <3>2 DEF BillInv, LateInv
    <3> QED BY <1>0, <3>1, <3>3, <3>4 DEF BillInv, ResetInv, OnceInv
  <2> QED BY <2>1, <2>2
<1>9. CASE EndPoll
  BY <1>0, <1>9, BillKeptIdle DEF EndPoll
<1>10. ASSUME NEW m \in Meters, ResetCounter(m) PROVE BillInv'
  BY <1>0, <1>10, BillKeptReset
<1>11. CASE Accepted
  BY <1>0, <1>11, BillKeptAccepted
<1>12. CASE Lost \/ Failed
  BY <1>0, <1>12, BillKeptFailed
<1> QED
  BY <1>2, <1>3, <1>4, <1>5, <1>6, <1>7, <1>8, <1>9, <1>10, <1>11, <1>12
     DEF CodeStep, Monitor

\* With every fault, and whatever the controller changes in between, a byte is
\* billed, still counted, or was counted between a look and its reset: what a
\* failing report was made of stays on the counters ("If report traffic error,
\* not clear the traffic", subscription.go:180).
THEOREM BytesAreAccounted == Spec => []EveryByteAccounted
<1>1. ASSUME BillInv PROVE EveryByteAccounted
  <2> SUFFICES ASSUME poll.pc # "reset", NEW m \in Meters
               PROVE  total[m] + unheard[m] = billed[m] + counter[m] + lost[m]
    BY DEF EveryByteAccounted
  <2>1. total[m] + unheard[m] + Sent(m) = billed[m] + counter[m] + lost[m] /\ Sent(m) = 0
    BY <1>1 DEF BillInv, AccountInv, Sent
  <2>2. total[m] \in Nat /\ unheard[m] \in Nat
    BY <1>1 DEF BillInv, TypeOK
  <2> QED BY <2>1, <2>2
<1> QED BY <1>1, BillInit, BillNext, PTL DEF Spec
-----------------------------------------------------------------------------
(* The refinement. *)

\* A report says no more than the counter it was read from holds.
LEMMA ReportWithinCounter ==
  ASSUME BillInv, poll.pc = "send", NEW m \in Meters
  PROVE  poll.report[m] <= counter[m]
<1>1. counter[m] \in Nat /\ late[m] \in Nat /\ poll.report[m] \in Nat
  BY Types DEF BillInv
<1>2. m \in poll.reset => poll.report[m] + late[m] = counter[m]
  BY DEF BillInv, LateInv
<1>3. m \notin poll.reset => poll.report[m] = 0
  BY DEF BillInv, ResetInv
<1> QED BY <1>1, <1>2, <1>3

\* Every step of the traffic reports is a step of the ledger, or none.
LEMMA StepsOfLedger ==
  BillInv /\ BillInv' /\ [Next]_vars
    => [Ledger!Transfer \/ Ledger!Bill \/ Ledger!BillUnheard]_<<total, billed, unheard>>
<1> SUFFICES ASSUME BillInv, BillInv', [Next]_vars
             PROVE  [Ledger!Transfer \/ Ledger!Bill \/ Ledger!BillUnheard]_<<total, billed, unheard>>
  OBVIOUS
<1>0. /\ total \in [Meters -> Nat] /\ counter \in [Meters -> Nat]
      /\ billed \in [Meters -> Nat] /\ unheard \in [Meters -> Nat]
      /\ lost \in [Meters -> Nat] /\ poll.report \in [Meters -> Nat]
      /\ total' \in [Meters -> Nat] /\ billed' \in [Meters -> Nat]
  BY DEF BillInv, TypeOK, Poll
<1>1. ASSUME NEW m \in Meters, Transfer(m) PROVE Ledger!Transfer
  BY <1>0, <1>1 DEF Transfer, Ledger!Transfer
<1>2. ASSUME poll.pc = "send", AddToBill, UNCHANGED total PROVE Ledger!NewBill
  <2>1. billed' = [m \in Meters |-> billed[m] + poll.report[m]]
    BY <1>2 DEF AddToBill
  <2>2. \A m \in Meters :
          /\ poll.report[m] <= counter[m]
          /\ total[m] + unheard[m] + 0 = billed[m] + counter[m] + lost[m]
    BY <1>2, ReportWithinCounter DEF BillInv, AccountInv, Sent
  <2>3. \A m \in Meters : billed[m] <= billed'[m] /\ billed'[m] <= total[m] + unheard[m]
    BY <2>1, <2>2, <1>0
  <2> QED BY <1>2, <2>3, <1>0 DEF Ledger!NewBill
<1>3. CASE Accepted
  BY <1>2, <1>3 DEF Accepted, Ledger!Bill
<1>4. CASE Lost \/ Failed
  <2>1. poll.pc = "send" /\ UNCHANGED total /\ (UNCHANGED <<billed, unheard>> \/ AddUnheard)
    BY <1>4 DEF Lost, Failed
  <2>2. CASE AddUnheard
    <3>1. Ledger!NewBill
      BY <1>2, <2>1, <2>2 DEF AddUnheard
    <3>2. \A m \in Meters : billed'[m] - billed[m] = poll.report[m]
      BY <1>0, <2>2 DEF AddUnheard, AddToBill
    <3>3. unheard' = [m \in Meters |-> unheard[m] + (billed'[m] - billed[m])]
      BY <2>2, <3>2 DEF AddUnheard
    <3> QED BY <3>1, <3>3 DEF Ledger!BillUnheard
  <2> QED BY <2>1, <2>2
<1>5. CASE Move \/ Control \/ Monitor \/ UNCHANGED vars
  BY <1>5 DEF Move, Control, StoreTag, AddAccounts, StoreList, GiveUp, Monitor,
              StartPoll, ReadTag, LookUp, LookDown, AllLooked, EndPoll, ResetCounter,
              vars, codeVars
<1> QED BY <1>1, <1>3, <1>4, <1>5 DEF Next, CodeStep

\* For any number of tags, users and changes, and with every fault: apart from
\* the reports the node saw fail, no byte is billed twice and none that was not
\* transferred, because a report is taken off the counters it was read from
\* before they are read again (SubscriptionMonitor, getTraffic, resetTraffic).
THEOREM BilledOnce == Spec => NeverOverbilled
<1>1. Init => Ledger!Init
  BY DEF Init, Ledger!Init, Zero
<1>2. Spec => []BillInv
  BY BillInit, BillNext, PTL DEF Spec
<1> QED BY <1>1, <1>2, StepsOfLedger, PTL DEF Spec, NeverOverbilled, Ledger!Spec
=============================================================================
