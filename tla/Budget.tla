------------------------------- MODULE Budget -------------------------------
(***************************************************************************)
(* The arithmetic of plan windows and top-ups (db/billing.go and the pure  *)
(* parts of db/billing_atomic.go).                                         *)
(*                                                                         *)
(* Amounts are natural numbers of nano-dollars and instants are natural    *)
(* numbers of a common clock; NoTime is SQL's NULL timestamp.  A budget    *)
(* window is a record [duration, budget], a request-log row a record       *)
(* [cost, ok, created] where ok stands for a 2xx status code, and a top-up *)
(* a record [amount, used, created, expires, deleted].  The tables         *)
(* request_logs and user_topups are functions from primary keys to rows,   *)
(* restricted to one user: every query of this code selects by user_id.    *)
(***************************************************************************)
EXTENDS UnitSums, FiniteSetsExt

CONSTANT NoTime
ASSUME NoTimeIsNull == NoTime \notin Nat

Positive(n) == IF n > 0 THEN n ELSE 0

(* Start of the period of length duration, counted from the assignment of  *)
(* the plan, that holds the instant t.                                     *)
WindowPeriodStart(assigned, duration, t) ==
  IF duration <= 0 \/ t < assigned
    THEN assigned
    ELSE assigned + ((t - assigned) \div duration) * duration

(* A usage reset inside the period lets it count from the reset.           *)
EffectiveFloor(periodStart, reset) ==
  IF reset # NoTime /\ reset > periodStart THEN reset ELSE periodStart

(* The first instant whose spending counts against window w at t.          *)
WindowFloor(account, w, t) ==
  EffectiveFloor(WindowPeriodStart(account.assigned, w.duration, t), account.reset)

(* WHERE duration_seconds > 0 AND budget_nano_usd > 0.                     *)
ValidWindows(ws) == {w \in ws : w.duration > 0 /\ w.budget > 0}

SuccessfulSince(logs, floor) ==
  {i \in DOMAIN logs : logs[i].ok /\ logs[i].created >= floor}

Cost(logs) == [i \in DOMAIN logs |-> logs[i].cost]

(* The SUM of the successful rows since floor.  It has no upper bound in   *)
(* time: rows of later periods count as well.                              *)
SpentSince(logs, floor) == SumOf(Cost(logs), SuccessfulSince(logs, floor))

(* activeTopupFilter, evaluated at the instant t.                          *)
ActiveTopups(topups, t) ==
  {u \in DOMAIN topups : /\ ~topups[u].deleted
                         /\ topups[u].expires = NoTime \/ topups[u].expires > t}

Unused(topups) == [u \in DOMAIN topups |-> topups[u].amount - topups[u].used]

RemainingTopups(topups, t) == SumOf(Unused(topups), ActiveTopups(topups, t))

Overage(spent, budget) == Positive(spent - budget)

(* What a charge of cost adds to the overage of w when spent counts already.*)
MarginalOverage(w, spent, cost) == Overage(spent + cost, w.budget) - Overage(spent, w.budget)

(* The top-up share of such a charge: the largest rise of the windows.     *)
MarginalTopupCharge(limits, spent, cost) ==
  Max({0} \cup {MarginalOverage(w, spent[w], cost) : w \in limits})

(* What one generation may cost: the smallest headroom of the windows plus *)
(* what is left of the top-ups.  The code asks only when limits # {}.      *)
AvailableBudget(limits, spent, remaining) ==
  Min({Positive(w.budget - spent[w] + remaining) : w \in limits})

=============================================================================
