----------------------------- MODULE Settlement -----------------------------
(***************************************************************************)
(* The customer ledger of one user: request_logs, user_topups, the user's  *)
(* plan row and the plans' budget windows, with the transactions that      *)
(* change them (db/billing_atomic.go, db/billing.go, and the user, plan,   *)
(* top-up and retention operations of db/db.go).                           *)
(*                                                                         *)
(* SettleUsageAndLog runs at READ COMMITTED under an advisory lock of the  *)
(* user, one statement per step: every other operation may commit between  *)
(* two of its statements.  What a transaction wrote is in the variables    *)
(* draws and work and reaches the tables in SettleCommit alone; an error,  *)
(* a timeout or a crash of the process before that is Abort.               *)
(***************************************************************************)
EXTENDS Budget

CONSTANTS
  Callers,     \* goroutines that may be inside SettleUsageAndLog at once
  SettleIDs,   \* request_logs ids of requests that are settled
  InsertIDs,   \* request_logs ids written by a plain InsertRequestLog
  TopupIDs,    \* primary keys of user_topups
  Plans,
  WindowSets,  \* the sets of budget windows an admin may give a plan
  Costs,       \* costs of generations after capping at their ceiling
  InsertCosts, \* costs of rows written without settlement
  Amounts,     \* top-up amounts
  Expiries,    \* expiry instants of top-ups, NoTime for none
  MaxTime,     \* bound of the clock
  MaxLatency,  \* longest time from the start of a request to its settlement
  Retention,   \* age at which request-log rows are pruned
  Idle,        \* a caller outside SettleUsageAndLog
  Nobody       \* the lock is free

ASSUME SettlementAssumption ==
  /\ IsFiniteSet(SettleIDs) /\ IsFiniteSet(InsertIDs)
  /\ IsFiniteSet(TopupIDs)
  /\ \A ws \in WindowSets : \A w \in ws : w.duration \in Nat /\ w.budget \in Nat
  /\ Costs \subseteq Nat /\ InsertCosts \subseteq Nat /\ Amounts \subseteq Nat
  /\ Expiries \subseteq Nat \cup {NoTime}
  /\ MaxTime \in Nat /\ MaxLatency \in Nat /\ Retention \in Nat
  /\ Nobody \notin Callers /\ Plans # {}

VARIABLES
  now,
  account,      \* the users row: plan, instant of its assignment, usage reset
  windows,      \* budget_windows by plan
  topups,       \* user_topups
  requestLogs,  \* request_logs
  calls,        \* the settlement each caller has in progress, or Idle
  holder,       \* the caller whose transaction holds the advisory lock
  work,         \* where that transaction is and what it has read
  draws,        \* what that transaction added to used_nano_usd, uncommitted
  assessed,     \* history: the overage found when a row of requestLogs was settled,
  against,      \* history: the windows it was measured against, {} for plain inserts
  overtook,     \* history: rows a plain insert put in the way of a running settlement
  stray         \* history: what such settlements took from the top-ups

history == <<assessed, against, overtook, stray>>
tables == <<account, windows, topups, requestLogs, history>>
txn == <<calls, holder, work, draws>>
vars == <<now, account, windows, topups, requestLogs, calls, holder, work, draws, history>>

LogIDs == SettleIDs \cup InsertIDs

Row == [cost : Nat, ok : BOOLEAN, created : Nat]
Topup == [amount : Nat, used : Nat, created : Nat, expires : Nat \cup {NoTime},
          deleted : BOOLEAN]
Account == [plan : Plans, assigned : Nat, reset : Nat \cup {NoTime}]
Call == [id : SettleIDs, cost : Nat, ok : BOOLEAN, created : Nat, began : Nat]
Stages == {"none", "exists", "user", "windows", "charge", "topups", "deduct", "insert"}

NoDraws == [u \in TopupIDs |-> 0]
NoAccount == [plan |-> CHOOSE p \in Plans : TRUE, assigned |-> 0, reset |-> NoTime]
NoWork == [stage |-> "none", account |-> NoAccount, read |-> {}, limits |-> {},
           charge |-> 0, owed |-> 0, queue |-> {}]

WithRow(table, k, row) ==
  [i \in DOMAIN table \cup {k} |-> IF i = k THEN row ELSE table[i]]

Init ==
  /\ now = 0
  /\ account \in [plan : Plans, assigned : {0}, reset : {NoTime}]
  /\ windows \in [Plans -> WindowSets]
  /\ topups = <<>>
  /\ requestLogs = <<>>
  /\ calls = [c \in Callers |-> Idle]
  /\ holder = Nobody
  /\ work = NoWork
  /\ draws = NoDraws
  /\ assessed = <<>>
  /\ against = <<>>
  /\ overtook = {}
  /\ stray = 0

-----------------------------------------------------------------------------
(* SettleUsageAndLog *)

(* The cost that normalizeSettledEntry leaves: 0 unless the status is 2xx. *)
SettledCost(e) == IF e.ok THEN e.cost ELSE 0

(* A handler or an outbox worker calls with the outcome of a request that  *)
(* started at created.  The same id may come back: a retry after a lost    *)
(* acknowledgement, or a client that replays a request attempt.            *)
SettleBegin(c, id, cost, ok, created) ==
  /\ calls[c] = Idle
  /\ calls' = [calls EXCEPT ![c] =
       [id |-> id, cost |-> cost, ok |-> ok, created |-> created, began |-> now]]
  /\ UNCHANGED <<now, tables, holder, work, draws>>

(* pg_advisory_xact_lock(hashtext(user)).                                  *)
SettleLock(c) ==
  /\ calls[c] # Idle
  /\ holder = Nobody
  /\ holder' = c
  /\ work' = [work EXCEPT !.stage = "exists"]
  /\ UNCHANGED <<now, tables, calls, draws>>

(* The transaction of the lock holder ends, with or without a commit.      *)
EndTransaction(c) ==
  /\ calls' = [calls EXCEPT ![c] = Idle]
  /\ holder' = Nobody
  /\ work' = NoWork
  /\ draws' = NoDraws

(* requestLogExistsTx: the row is there, so this request is charged.       *)
SettleAlreadyLogged(c) ==
  /\ holder = c /\ work.stage = "exists"
  /\ calls[c].id \in DOMAIN requestLogs
  /\ EndTransaction(c)
  /\ UNCHANGED <<now, tables>>

(* Variant: nobody asks whether the row is there.                          *)
ExistsUnchecked(c) ==
  /\ holder = c /\ work.stage = "exists"
  /\ work' = [work EXCEPT !.stage = IF SettledCost(calls[c]) > 0 THEN "user" ELSE "insert"]
  /\ UNCHANGED <<now, tables, calls, holder, draws>>

SettleNotLogged(c) ==
  /\ holder = c /\ work.stage = "exists"
  /\ calls[c].id \notin DOMAIN requestLogs
  /\ work' = [work EXCEPT !.stage = IF SettledCost(calls[c]) > 0 THEN "user" ELSE "insert"]
  /\ UNCHANGED <<now, tables, calls, holder, draws>>

(* marginalTopupChargeTx: the users row, ...                               *)
SettleReadUser(c) ==
  /\ holder = c /\ work.stage = "user"
  /\ work' = [work EXCEPT !.stage = "windows", !.account = account]
  /\ UNCHANGED <<now, tables, calls, holder, draws>>

(* ... the windows of the plan it names, ...                               *)
SettleReadWindows(c) ==
  /\ holder = c /\ work.stage = "windows"
  /\ LET limits == ValidWindows(windows[work.account.plan])
     IN  work' = [work EXCEPT !.read = limits, !.limits = limits,
                              !.stage = IF limits = {} THEN "insert" ELSE "charge"]
  /\ UNCHANGED <<now, tables, calls, holder, draws>>

(* Variant: the window read last decides.                                  *)
LastWindowDecides(c, w) ==
  /\ holder = c /\ work.stage = "charge"
  /\ LET floor == WindowFloor(work.account, w, calls[c].created)
         rise == MarginalOverage(w, SpentSince(requestLogs, floor), SettledCost(calls[c]))
         rest == work.limits \ {w}
     IN  work' = [work EXCEPT !.limits = rest, !.charge = rise, !.owed = rise,
                              !.stage = IF rest # {} THEN "charge"
                                        ELSE IF rise > 0 THEN "topups" ELSE "insert"]
  /\ UNCHANGED <<now, tables, calls, holder, draws>>

(* ... and, window by window, the spending since the period of the request *)
(* began, whenever that was.  The charge is the largest rise.              *)
SettleChargeWindow(c, w) ==
  /\ holder = c /\ work.stage = "charge"
  /\ LET floor == WindowFloor(work.account, w, calls[c].created)
         rise == MarginalOverage(w, SpentSince(requestLogs, floor), SettledCost(calls[c]))
         charge == Max({work.charge, rise})
         rest == work.limits \ {w}
     IN  work' = [work EXCEPT !.limits = rest, !.charge = charge, !.owed = charge,
                              !.stage = IF rest # {} THEN "charge"
                                        ELSE IF charge > 0 THEN "topups" ELSE "insert"]
  /\ UNCHANGED <<now, tables, calls, holder, draws>>

(* deductNanoFromTopupsTx: SELECT ... FOR UPDATE of the spendable top-ups. *)
(* SQL's now() is the instant the transaction began, before the lock.      *)
SettleSelectTopups(c) ==
  /\ holder = c /\ work.stage = "topups"
  /\ LET spendable == {u \in ActiveTopups(topups, calls[c].began) : topups[u].used < topups[u].amount}
     IN  work' = [work EXCEPT !.queue = spendable,
                              !.stage = IF spendable = {} THEN "insert" ELSE "deduct"]
  /\ UNCHANGED <<now, tables, calls, holder, draws>>

(* ORDER BY expires_at ASC NULLS LAST, created_at ASC.                     *)
DrawnBefore(u, v) ==
  \/ topups[u].expires # NoTime /\ topups[v].expires = NoTime
  \/ /\ topups[u].expires # NoTime /\ topups[v].expires # NoTime
     /\ topups[u].expires < topups[v].expires
  \/ /\ topups[u].expires = topups[v].expires
     /\ topups[u].created < topups[v].created

(* The top-up u pays consume; the loop ends when nothing is owed or no     *)
(* selected top-up is left.                                                *)
DrawOn(u, consume) ==
  LET owed == work.owed - consume
      rest == work.queue \ {u}
  IN  /\ draws' = [draws EXCEPT ![u] = consume]
      /\ work' = [work EXCEPT !.owed = owed, !.queue = rest,
                              !.stage = IF owed = 0 \/ rest = {} THEN "insert" ELSE "deduct"]
      /\ UNCHANGED <<now, tables, calls, holder>>

UnusedOf(u) == topups[u].amount - topups[u].used

(* Its turn comes when no selected top-up goes before it.                  *)
NextToPay(c, u) ==
  /\ holder = c /\ work.stage = "deduct"
  /\ u \in work.queue
  /\ \A v \in work.queue : ~DrawnBefore(v, u)

(* Variants: the rows in any order, all that is owed, and a loop that ends *)
(* only when everything is paid.                                           *)
DeductInAnyOrder(c, u) ==
  /\ holder = c /\ work.stage = "deduct" /\ u \in work.queue
  /\ DrawOn(u, IF work.owed < UnusedOf(u) THEN work.owed ELSE UnusedOf(u))
DeductAllOwed(c, u) == NextToPay(c, u) /\ DrawOn(u, work.owed)
DeductUntilPaid(c, u) ==
  /\ NextToPay(c, u)
  /\ work.owed <= UnusedOf(u)
  /\ DrawOn(u, work.owed)

(* One turn of the loop over the selected top-ups.                         *)
SettleDeduct(c, u) ==
  /\ NextToPay(c, u)
  /\ DrawOn(u, IF work.owed < UnusedOf(u) THEN work.owed ELSE UnusedOf(u))

(* insertRequestLog, ON CONFLICT (id) DO NOTHING, and the commit.  What is *)
(* still owed when the top-ups are exhausted is not collected.             *)
SettleCommit(c) ==
  /\ holder = c /\ work.stage = "insert"
  /\ LET e == calls[c]
     IN  /\ IF e.id \in DOMAIN requestLogs THEN UNCHANGED <<requestLogs, assessed, against>>
            ELSE /\ requestLogs' = WithRow(requestLogs, e.id,
                      [cost |-> SettledCost(e), ok |-> e.ok, created |-> e.created])
                 /\ assessed' = WithRow(assessed, e.id, work.charge)
                 /\ against' = WithRow(against, e.id, work.read)
         /\ stray' = IF e.id \in overtook THEN stray + SumOf(draws, TopupIDs) ELSE stray
  /\ topups' = [u \in DOMAIN topups |-> [topups[u] EXCEPT !.used = @ + draws[u]]]
  /\ EndTransaction(c)
  /\ UNCHANGED <<now, account, windows, overtook>>

(* An error, the 10 second timeout or a crash rolls the transaction back.  *)
Abort(c) ==
  /\ calls[c] # Idle
  /\ IF holder = c THEN EndTransaction(c)
     ELSE /\ calls' = [calls EXCEPT ![c] = Idle]
          /\ UNCHANGED <<holder, work, draws>>
  /\ UNCHANGED <<now, tables>>

-----------------------------------------------------------------------------
(* The other writers of these tables *)

(* InsertRequestLog: rows that are not settled (no ceiling was quoted, or  *)
(* the request was refused).  It takes no lock, so the row may get in      *)
(* between the exists statement of a settlement of its id and the commit.  *)
Overtakes(id) == work.stage \notin {"none", "exists"} /\ calls[holder].id = id
InsertRequestLog(id, cost, ok) ==
  /\ id \notin DOMAIN requestLogs
  /\ requestLogs' = WithRow(requestLogs, id, [cost |-> cost, ok |-> ok, created |-> now])
  /\ assessed' = WithRow(assessed, id, 0)
  /\ against' = WithRow(against, id, {})
  /\ overtook' = IF Overtakes(id) THEN overtook \cup {id} ELSE overtook
  /\ UNCHANGED <<now, account, windows, topups, stray, txn>>

(* UpdateUser: only a change of plan restarts the periods and the reset.   *)
UpdateUser(p) ==
  /\ p # account.plan
  /\ account' = [plan |-> p, assigned |-> now, reset |-> NoTime]
  /\ UNCHANGED <<now, windows, topups, requestLogs, history, txn>>

(* UpdatePlan replaces the windows; Create-, Update- and DeleteBudgetWindow*)
(* change them one at a time.                                              *)
UpdatePlan(p, ws) ==
  /\ windows' = [windows EXCEPT ![p] = ws]
  /\ UNCHANGED <<now, account, topups, requestLogs, history, txn>>

(* ResetUserUsage and ResetAllUsersUsage.                                  *)
ResetUsage ==
  /\ account' = [account EXCEPT !.reset = now]
  /\ UNCHANGED <<now, windows, topups, requestLogs, history, txn>>

(* CreateUserTopup.  A known idem_key inserts nothing: a stuttering step.   *)
CreateUserTopup(u, amount, expires) ==
  /\ u \notin DOMAIN topups
  /\ topups' = WithRow(topups, u, [amount |-> amount, used |-> 0, created |-> now,
                                   expires |-> expires, deleted |-> FALSE])
  /\ UNCHANGED <<now, account, windows, requestLogs, history, txn>>

(* FOR UPDATE: a selected row cannot be updated until the holder ends.     *)
RowNeverLocked(u) == FALSE   \* variant: a SELECT without FOR UPDATE
RowLocked(u) == holder # Nobody /\ (u \in work.queue \/ draws[u] > 0)

(* DeleteUserTopup is a soft delete.                                       *)
DeleteUserTopup(u) ==
  /\ u \in DOMAIN topups /\ ~RowLocked(u)
  /\ ~topups[u].deleted
  /\ topups' = [topups EXCEPT ![u].deleted = TRUE]
  /\ UNCHANGED <<now, account, windows, requestLogs, history, txn>>

SetUserTopupExpiry(u, expires) ==
  /\ u \in DOMAIN topups /\ ~RowLocked(u)
  /\ topups' = [topups EXCEPT ![u].expires = expires]
  /\ UNCHANGED <<now, account, windows, requestLogs, history, txn>>

(* PruneOldRequestLogs, from the retention sweeper of main.go.             *)
PruneOldRequestLogs ==
  /\ LET kept == {i \in DOMAIN requestLogs : requestLogs[i].created + Retention >= now}
     IN  /\ requestLogs' = Restrict(requestLogs, kept)
         /\ assessed' = Restrict(assessed, kept)
         /\ against' = Restrict(against, kept)
         /\ overtook' = overtook \cap kept
  /\ UNCHANGED <<now, account, windows, topups, stray, txn>>

Tick ==
  /\ now < MaxTime
  /\ now' = now + 1
  /\ UNCHANGED <<tables, txn>>

-----------------------------------------------------------------------------
Settle(c) ==
  \/ SettleLock(c) \/ SettleAlreadyLogged(c) \/ SettleNotLogged(c) \/ SettleReadUser(c)
  \/ SettleReadWindows(c) \/ \E w \in work.limits : SettleChargeWindow(c, w)
  \/ SettleSelectTopups(c)
  \/ \E u \in TopupIDs : SettleDeduct(c, u)
  \/ SettleCommit(c)

Begin ==
  \E c \in Callers, id \in SettleIDs, cost \in Costs, ok \in BOOLEAN, age \in 0..MaxLatency :
    age <= now /\ SettleBegin(c, id, cost, ok, now - age)

Admin ==
  \/ \E p \in Plans : UpdateUser(p)
  \/ \E p \in Plans, ws \in WindowSets : UpdatePlan(p, ws)
  \/ ResetUsage
  \/ \E u \in TopupIDs, a \in Amounts, x \in Expiries : CreateUserTopup(u, a, x)
  \/ \E u \in TopupIDs : DeleteUserTopup(u)
  \/ \E u \in TopupIDs, x \in Expiries : SetUserTopupExpiry(u, x)
  \/ PruneOldRequestLogs

Next ==
  \/ Begin
  \/ \E c \in Callers : Settle(c) \/ Abort(c)
  \/ \E id \in InsertIDs, cost \in InsertCosts, ok \in BOOLEAN : InsertRequestLog(id, cost, ok)
  \/ Admin
  \/ Tick

Spec == Init /\ [][Next]_vars

-----------------------------------------------------------------------------
(* Properties *)

(* The type invariant.                                                     *)
HistoryOK ==
  /\ DOMAIN assessed = DOMAIN requestLogs /\ \A i \in DOMAIN assessed : assessed[i] \in Nat
  /\ DOMAIN against = DOMAIN requestLogs
  /\ \A i \in DOMAIN against : against[i] \in SUBSET UNION WindowSets
  /\ overtook \subseteq DOMAIN requestLogs
  /\ stray \in Nat
TypeOK ==
  /\ now \in Nat
  /\ account \in Account
  /\ windows \in [Plans -> WindowSets]
  /\ DOMAIN topups \subseteq TopupIDs /\ \A u \in DOMAIN topups : topups[u] \in Topup
  /\ DOMAIN requestLogs \subseteq LogIDs /\ \A i \in DOMAIN requestLogs : requestLogs[i] \in Row
  /\ HistoryOK
  /\ calls \in [Callers -> Call \cup {Idle}]
  /\ holder \in Callers \cup {Nobody}
  /\ work \in [stage : Stages, account : Account, read : SUBSET UNION WindowSets,
               limits : SUBSET UNION WindowSets, charge : Nat, owed : Nat, queue : SUBSET TopupIDs]
  /\ draws \in [TopupIDs -> Nat]

(* No top-up ever pays out more than was bought: what is used and what the *)
(* running settlement is about to add never exceed the amount, whatever    *)
(* deletions, expiry changes, replays, aborts and settlements interleave   *)
(* with the statements of deductNanoFromTopupsTx.                          *)
TopupsNeverOverdrawn ==
  \A u \in DOMAIN topups : topups[u].used + draws[u] <= topups[u].amount

(* The user pays for each row once, and never more than its cost: value    *)
(* leaves the top-ups only in a commit that also adds the row it pays for. *)
(* The exception is what a settlement takes whose id a plain insert wrote  *)
(* behind its exists statement: its row is refused (ON CONFLICT), its      *)
(* draws are committed all the same.  That and nothing else is stray.      *)
TopupsUsed == SumOf([u \in DOMAIN topups |-> topups[u].used], DOMAIN topups)
CostOfRows == Cost(requestLogs)
PaidForRows == TopupsUsed - stray
Ledger == INSTANCE ChargeLedger WITH settled <- CostOfRows, collected <- PaidForRows
ImplementsChargeLedger == Ledger!Spec

(* The charge and the row that explains it are written together: no commit *)
(* takes money from the top-ups without adding a row to request_logs.      *)
(* (Not kept where a row overtakes its settlement: README.md.)             *)
ChargedUsageIsRecorded ==
  [][TopupsUsed' > TopupsUsed => DOMAIN requestLogs' # DOMAIN requestLogs]_vars

(* Credit that expires soonest goes first: a settlement draws on a top-up  *)
(* only after it has exhausted every top-up it locked that expires before  *)
(* it (or, with equal expiry, was bought before it).                       *)
SoonestExpiryFirst ==
  [][\A u, v \in DOMAIN topups :
       /\ draws'[v] > draws[v]
       /\ u \in work.queue \cup {x \in TopupIDs : draws[x] > 0}
       /\ DrawnBefore(u, v)
       => topups[u].used + draws[u] = topups[u].amount]_vars

(* A deleted top-up pays for nothing: the row lock of the selection keeps  *)
(* DeleteUserTopup out until the settlement that counts on it has ended.   *)
DeletedTopupsPayNothing ==
  [][\A u \in DOMAIN topups : topups[u].deleted => topups'[u].used = topups[u].used]_vars

(* The rows of a table that were measured against the limit of w, or a     *)
(* stricter one of its length, when they were settled.                     *)
AsStrict(limits, w) == \E v \in limits : v.duration = w.duration /\ v.budget <= w.budget
MeasuredFor(w, rows) == {i \in rows : AsStrict(against[i], w)}

(* All overage is charged: what the rows a window counts exceed its budget *)
(* by was assessed against the top-ups when they were settled, in whatever *)
(* order they settled, across usage resets, retention and edits of plans   *)
(* and limits between the statements.  A row counts for a limit that the   *)
(* windows its settlement read were as strict as: a lower limit does not   *)
(* reach back to rows settled before it, nor a window to rows that were    *)
(* inserted without settlement.                                            *)
OverageAssessed ==
  \A w \in ValidWindows(windows[account.plan]) :
    LET floor == WindowFloor(account, w, now)
        rows == MeasuredFor(w, SuccessfulSince(requestLogs, floor))
    IN  Overage(SumOf(Cost(requestLogs), rows), w.budget) <= SumOf(assessed, rows)

(* "charges any plan overage to top-ups": a row was charged to the top-ups *)
(* only if, in the period it belongs to, some window is over its budget.   *)
(* (Not kept when requests settle across a period boundary: README.md.)    *)
OnlyOverageIsCharged ==
  \A i \in DOMAIN requestLogs : assessed[i] > 0 =>
    \E w \in ValidWindows(windows[account.plan]) :
      LET start == WindowPeriodStart(account.assigned, w.duration, requestLogs[i].created)
          period == {j \in SuccessfulSince(requestLogs, start) :
                       requestLogs[j].created < start + w.duration}
      IN  SumOf(Cost(requestLogs), period) > w.budget

(* The transaction that holds the user's lock can always take its next    *)
(* statement, whatever the other writers commit: no waiter of the lock     *)
(* waits for a loop over the top-ups that found nothing left to deduct.    *)
HolderGoesOn == holder # Nobody => ENABLED Settle(holder)

=============================================================================
