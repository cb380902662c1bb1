-------------------------------- MODULE Billing --------------------------------
(***************************************************************************)
(* What the traffic reports of subscription/subscription.go promise the    *)
(* panel: a bill is never taken back, a meter is billed for bytes that     *)
(* were transferred, and none of them is billed twice, but for those of a  *)
(* report whose acceptance the node never learned of.                      *)
(***************************************************************************)
EXTENDS Naturals

CONSTANT Meters
VARIABLES
  total,   \* bytes transferred
  billed,  \* bytes billed
  unheard  \* of these, bytes billed by reports the node saw fail

Init ==
  /\ total = [m \in Meters |-> 0]
  /\ billed = [m \in Meters |-> 0]
  /\ unheard = [m \in Meters |-> 0]

\* Bytes go through a meter.
Transfer ==
  /\ total' \in [Meters -> Nat]
  /\ \A m \in Meters : total[m] <= total'[m]
  /\ UNCHANGED <<billed, unheard>>

\* Some of the bytes that were not yet billed are billed ...
NewBill ==
  /\ billed' \in [Meters -> Nat]
  /\ \A m \in Meters : billed[m] <= billed'[m] /\ billed'[m] <= total[m] + unheard[m]
  /\ UNCHANGED total

Bill == NewBill /\ UNCHANGED unheard

\* ... and may be billed again, where the node does not learn of it.
BillUnheard ==
  /\ NewBill
  /\ unheard' = [m \in Meters |-> unheard[m] + (billed'[m] - billed[m])]

Spec == Init /\ [][Transfer \/ Bill \/ BillUnheard]_<<total, billed, unheard>>
=============================================================================
