----------------------------- MODULE ChargeLedger ----------------------------
(***************************************************************************)
(* What the settlement of requests promises about money: each request id   *)
(* is charged at most once while it is on record, the charge to the        *)
(* top-ups is taken in the step that records it, and is at most its cost.  *)
(***************************************************************************)
EXTENDS Integers

VARIABLES
  settled,    \* the cost of each request id on record
  collected   \* everything the top-ups have paid so far

ledgerVars == <<settled, collected>>

Init == settled = <<>> /\ collected = 0

(* A request of this cost goes on record; the top-ups pay at most its cost.*)
Charge(id, cost, paid) ==
  /\ id \notin DOMAIN settled
  /\ paid <= cost
  /\ settled' = [i \in DOMAIN settled \cup {id} |-> IF i = id THEN cost ELSE settled[i]]
  /\ collected' = collected + paid

(* Retention forgets requests; nobody is repaid.                           *)
Forget ==
  /\ DOMAIN settled' \subseteq DOMAIN settled
  /\ \A i \in DOMAIN settled' : settled'[i] = settled[i]
  /\ collected' = collected

Next ==
  \/ \E id \in DOMAIN settled' \ DOMAIN settled :
       LET paid == collected' - collected
       IN  paid >= 0 /\ Charge(id, settled'[id], paid)
  \/ Forget

Spec == Init /\ [][Next]_ledgerVars

=============================================================================
