-------------------------- MODULE SettlementProofs --------------------------
(***************************************************************************)
(* Proofs about Settlement, for every number of callers, requests, top-ups *)
(* and windows: the types, the bound on top-ups, the order and the target  *)
(* of deductions, the implementation of ChargeLedger, that no overage is   *)
(* missed, that the holder of the lock always has a next statement and     *)
(* comes to its end, and that undisturbed statements add up to the one     *)
(* step that Gateway takes for them.                                       *)
(***************************************************************************)
EXTENDS Settlement, BudgetTheorems, TLAPS

(* The history variables are spelled out in every obligation.             *)
USE DEF history, HistoryOK

(* Whoever holds the advisory lock is inside a call, and the state of its  *)
(* transaction is blank when nobody does.                                  *)
HolderInv ==
  /\ holder = Nobody => work = NoWork /\ draws = NoDraws
  /\ holder # Nobody => /\ calls[holder] # Idle /\ calls[holder] \in Call
                        /\ work.stage # "none"

(* The rows the transaction has locked are live, a drawn row has left the  *)
(* queue, and while top-ups are still being drawn on, those behind are     *)
(* exhausted.                                                              *)
DrawsInv ==
  /\ \A u \in TopupIDs : u \in work.queue \/ draws[u] > 0 =>
       u \in DOMAIN topups /\ ~topups[u].deleted
  /\ \A u \in work.queue : draws[u] = 0
  /\ work.stage \notin {"deduct", "insert"} => work.queue = {} /\ draws = NoDraws
  /\ work.stage = "deduct" =>
       \A u \in TopupIDs : draws[u] > 0 => topups[u].used + draws[u] = topups[u].amount

(* What was drawn and what is still owed are the charge, which is at most  *)
(* the cost of the request.                                                *)
ChargeInv ==
  /\ work.stage \in {"none", "exists", "user", "windows"} => work.charge = 0
  /\ holder # Nobody => work.charge <= SettledCost(calls[holder])
  /\ SumOf(draws, TopupIDs) + work.owed = work.charge

(* The inductive invariant.                                                *)
IInv == TypeOK /\ HolderInv /\ DrawsInv /\ ChargeInv /\ TopupsNeverOverdrawn

-----------------------------------------------------------------------------
LEMMA NoWorkType ==
  /\ NoAccount \in Account
  /\ NoWork \in [stage : Stages, account : Account, read : SUBSET UNION WindowSets,
                 limits : SUBSET UNION WindowSets, charge : Nat, owed : Nat, queue : SUBSET TopupIDs]
  /\ NoDraws \in [TopupIDs -> Nat]
<1>1. (CHOOSE p \in Plans : TRUE) \in Plans
  BY SettlementAssumption
<1> QED
  BY <1>1 DEF NoAccount, NoWork, NoDraws, Account, Stages

LEMMA SettledCostType == ASSUME NEW e \in Call PROVE SettledCost(e) \in Nat
BY DEF SettledCost, Call

(* What the window statements of marginalTopupChargeTx compute is an       *)
(* amount, and no more than the cost of the request.                       *)
LEMMA ChargeType ==
  ASSUME TypeOK, NEW e \in Call, NEW w \in work.limits,
         work.charge <= SettledCost(e)
  PROVE  LET floor == WindowFloor(work.account, w, e.created)
             rise == MarginalOverage(w, SpentSince(requestLogs, floor), SettledCost(e))
         IN  Max({work.charge, rise}) \in Nat /\ Max({work.charge, rise}) <= SettledCost(e)
<1> DEFINE floor == WindowFloor(work.account, w, e.created)
           spent == SpentSince(requestLogs, floor)
           rise == MarginalOverage(w, spent, SettledCost(e))
<1>1. spent \in Nat
  <2>1. SuccessfulSince(requestLogs, floor) \subseteq DOMAIN requestLogs
    BY DEF SuccessfulSince
  <2>2. IsFiniteSet(SuccessfulSince(requestLogs, floor))
    BY <2>1, SettlementAssumption, FS_Subset, FS_Union DEF TypeOK, LogIDs
  <2>3. \A i \in SuccessfulSince(requestLogs, floor) : Cost(requestLogs)[i] \in Nat
    BY <2>1 DEF Cost, TypeOK, Row
  <2> QED
    BY <2>2, <2>3, SumType DEF SpentSince
<1>2. w.budget \in Nat
  BY SettlementAssumption DEF TypeOK
<1> HIDE DEF spent
<1>3. rise \in Nat /\ rise <= SettledCost(e)
  BY <1>1, <1>2, OverageRise, SettledCostType
<1>4. work.charge \in Nat
  BY DEF TypeOK
<1> HIDE DEF rise
<1>5. Max({work.charge, rise}) \in Nat /\ Max({work.charge, rise}) <= SettledCost(e)
  BY <1>3, <1>4, MaxOfTwo
<1> QED
  BY <1>5 DEF rise, spent

LEMMA NothingDrawn == SumOf(NoDraws, TopupIDs) = 0
BY SumZero DEF NoDraws

LEMMA InitIInv == Init => IInv
<1> SUFFICES ASSUME Init PROVE IInv
  OBVIOUS
<1>1. TypeOK
  BY NoWorkType, SettlementAssumption DEF Init, TypeOK, Account
<1>2. HolderInv
  BY DEF Init, HolderInv
<1>3. DrawsInv /\ TopupsNeverOverdrawn
  BY DEF Init, DrawsInv, TopupsNeverOverdrawn, NoWork, NoDraws
<1>4. ChargeInv
  BY NothingDrawn DEF Init, ChargeInv, NoWork
<1> QED
  BY <1>1, <1>2, <1>3, <1>4 DEF IInv

(* The end of a transaction, whatever became of the tables.                *)
LEMMA EndKeepsIInv ==
  ASSUME IInv, NEW c \in Callers, EndTransaction(c),
         now' \in Nat, account' \in Account, windows' \in [Plans -> WindowSets],
         DOMAIN topups' \subseteq TopupIDs, \A u \in DOMAIN topups' : topups'[u] \in Topup,
         DOMAIN requestLogs' \subseteq LogIDs, \A i \in DOMAIN requestLogs' : requestLogs'[i] \in Row,
         HistoryOK',
         \A u \in DOMAIN topups' : topups'[u].used <= topups'[u].amount
  PROVE  IInv'
<1>1. TypeOK'
  BY NoWorkType DEF IInv, TypeOK, EndTransaction
<1>2. HolderInv'
  BY DEF EndTransaction, HolderInv
<1>3. DrawsInv'
  BY DEF EndTransaction, DrawsInv, NoWork, NoDraws
<1>4. ChargeInv'
  BY NothingDrawn DEF EndTransaction, ChargeInv, NoWork
<1>5. TopupsNeverOverdrawn'
  BY DEF EndTransaction, TopupsNeverOverdrawn, NoDraws, Topup
<1> QED
  BY <1>1, <1>2, <1>3, <1>4, <1>5 DEF IInv

(* The steps that end in a read of the transaction: draws and tables stay. *)
LEMMA ReadKeepsIInv ==
  ASSUME IInv, NEW c \in Callers, holder = c, UNCHANGED <<now, tables, calls, holder, draws>>,
         work' \in [stage : Stages, account : Account, read : SUBSET UNION WindowSets,
                    limits : SUBSET UNION WindowSets, charge : Nat, owed : Nat, queue : SUBSET TopupIDs],
         work'.stage # "none",
         work'.queue = {}, draws = NoDraws, work'.stage # "deduct",
         work'.owed = work'.charge, work'.charge <= SettledCost(calls[c]),
         work'.stage \in {"exists", "user", "windows"} => work'.charge = 0
  PROVE  IInv'
<1>1. TypeOK'
  BY DEF IInv, TypeOK, tables
<1>2. HolderInv'
  BY SettlementAssumption DEF IInv, HolderInv
<1>3. DrawsInv'
  BY DEF IInv, DrawsInv, tables, NoDraws
<1>4. ChargeInv'
  BY NothingDrawn DEF IInv, TypeOK, ChargeInv
<1>5. TopupsNeverOverdrawn'
  BY DEF IInv, TopupsNeverOverdrawn, tables
<1> QED
  BY <1>1, <1>2, <1>3, <1>4, <1>5 DEF IInv

(* The transaction up to the deductions.                                   *)
LEMMA ReadsKeepIInv ==
  ASSUME IInv, NEW c \in Callers,
         \/ SettleLock(c) \/ SettleNotLogged(c) \/ SettleReadUser(c) \/ SettleReadWindows(c)
         \/ \E w \in work.limits : SettleChargeWindow(c, w)
  PROVE  IInv'
<1> USE DEF Stages
<1>1. CASE SettleLock(c)
  <2>1. TypeOK'
    BY <1>1 DEF SettleLock, IInv, TypeOK, tables
  <2>2. HolderInv'
    BY <1>1, SettlementAssumption DEF SettleLock, IInv, HolderInv, TypeOK
  <2>3. DrawsInv'
    BY <1>1 DEF SettleLock, IInv, DrawsInv, HolderInv, NoWork, NoDraws, tables
  <2>4. ChargeInv'
    <3>1. work.charge = 0 /\ work.owed = 0 /\ work'.charge = 0 /\ work'.owed = 0 /\ draws' = draws
      BY <1>1 DEF SettleLock, IInv, HolderInv, NoWork
    <3>2. calls'[c] \in Call /\ holder' = c
      BY <1>1 DEF SettleLock, IInv, TypeOK
    <3> QED
      BY <3>1, <3>2, SettledCostType DEF IInv, ChargeInv
  <2>5. TopupsNeverOverdrawn'
    BY <1>1 DEF SettleLock, IInv, TopupsNeverOverdrawn, tables
  <2> QED
    BY <2>1, <2>2, <2>3, <2>4, <2>5 DEF IInv
<1> DEFINE Typed == work' \in [stage : Stages, account : Account, read : SUBSET UNION WindowSets,
                               limits : SUBSET UNION WindowSets, charge : Nat, owed : Nat, queue : SUBSET TopupIDs]
<1>2. ASSUME holder = c PROVE calls[c] \in Call /\ SettledCost(calls[c]) \in Nat
  BY <1>2, SettlementAssumption, SettledCostType DEF IInv, HolderInv
<1>3. ASSUME work.stage \notin {"deduct", "insert"}
      PROVE  draws = NoDraws /\ work.queue = {} /\ work.owed = work.charge
  BY <1>3, NothingDrawn DEF IInv, DrawsInv, ChargeInv, TypeOK
<1>4. ASSUME work.stage \in {"exists", "user", "windows"} PROVE work.charge = 0
  BY <1>4 DEF IInv, ChargeInv
<1>5. CASE SettleNotLogged(c)
  <2>1. Typed
    BY <1>5 DEF SettleNotLogged, IInv, TypeOK
  <2> QED
    BY <1>5, <1>2, <1>3, <1>4, <2>1, ReadKeepsIInv DEF SettleNotLogged, IInv, TypeOK
<1>6. CASE SettleReadUser(c)
  <2>1. Typed
    BY <1>6 DEF SettleReadUser, IInv, TypeOK
  <2> QED
    BY <1>6, <1>2, <1>3, <1>4, <2>1, ReadKeepsIInv DEF SettleReadUser, IInv, TypeOK
<1>7. CASE SettleReadWindows(c)
  <2>1. windows[work.account.plan] \in WindowSets
    BY DEF IInv, TypeOK, Account
  <2>2. ValidWindows(windows[work.account.plan]) \in SUBSET UNION WindowSets
    BY <2>1 DEF ValidWindows
  <2>3. Typed
    BY <1>7, <2>2 DEF SettleReadWindows, IInv, TypeOK
  <2>4. /\ work.stage = "windows" /\ work'.stage \in {"charge", "insert"}
        /\ work'.queue = work.queue /\ work'.owed = work.owed /\ work'.charge = work.charge
    BY <1>7 DEF SettleReadWindows, IInv, TypeOK
  <2>5. holder = c /\ UNCHANGED <<now, tables, calls, holder, draws>>
    BY <1>7 DEF SettleReadWindows
  <2>6. work.charge = 0 /\ 0 <= SettledCost(calls[c])
    BY <1>2, <1>4, <2>4, <2>5
  <2> QED
    BY <1>3, <2>3, <2>4, <2>5, <2>6, ReadKeepsIInv
<1>8. ASSUME NEW w \in work.limits, SettleChargeWindow(c, w) PROVE IInv'
  <2> DEFINE floor == WindowFloor(work.account, w, calls[c].created)
             rise == MarginalOverage(w, SpentSince(requestLogs, floor), SettledCost(calls[c]))
             charge == Max({work.charge, rise})
  <2>1. work.charge <= SettledCost(calls[c])
    BY <1>8, SettlementAssumption DEF SettleChargeWindow, IInv, ChargeInv
  <2>2. charge \in Nat /\ charge <= SettledCost(calls[c])
    BY <1>8, <1>2, <2>1, ChargeType DEF SettleChargeWindow, IInv
  <2>3. /\ holder = c /\ work.stage = "charge"
        /\ work' = [work EXCEPT !.limits = work.limits \ {w}, !.charge = charge, !.owed = charge,
                                !.stage = IF work.limits \ {w} # {} THEN "charge"
                                          ELSE IF charge > 0 THEN "topups" ELSE "insert"]
        /\ UNCHANGED <<now, tables, calls, holder, draws>>
    BY <1>8 DEF SettleChargeWindow
  <2> HIDE DEF charge
  <2>4. Typed
    BY <2>2, <2>3 DEF IInv, TypeOK
  <2>5. /\ work'.stage \in {"charge", "topups", "insert"} /\ work'.queue = work.queue
        /\ work'.owed = charge /\ work'.charge = charge
    BY <2>3 DEF IInv, TypeOK
  <2> QED
    BY <1>3, <2>2, <2>3, <2>4, <2>5, ReadKeepsIInv
<1> QED
  BY <1>1, <1>5, <1>6, <1>7, <1>8

(* The selection of the top-ups under FOR UPDATE.                          *)
LEMMA SelectKeepsIInv ==
  ASSUME IInv, NEW c \in Callers, SettleSelectTopups(c)
  PROVE  IInv'
<1> DEFINE spendable == {u \in ActiveTopups(topups, calls[c].began) : topups[u].used < topups[u].amount}
<1>1. /\ holder = c /\ work.stage = "topups"
      /\ work' = [work EXCEPT !.queue = spendable,
                              !.stage = IF spendable = {} THEN "insert" ELSE "deduct"]
      /\ UNCHANGED <<now, tables, calls, holder, draws>>
  BY DEF SettleSelectTopups
<1>2. \A u \in spendable : u \in DOMAIN topups /\ u \in TopupIDs /\ ~topups[u].deleted
  BY DEF ActiveTopups, IInv, TypeOK
<1> HIDE DEF spendable
<1>3. draws = NoDraws
  BY <1>1 DEF IInv, DrawsInv
<1>4. TypeOK'
  BY <1>1, <1>2 DEF IInv, TypeOK, tables, Stages
<1>5. /\ work'.queue = spendable /\ work'.stage \in {"insert", "deduct"}
      /\ work'.charge = work.charge /\ work'.owed = work.owed
  BY <1>1 DEF IInv, TypeOK
<1>6. HolderInv'
  BY <1>1, <1>5, SettlementAssumption DEF IInv, HolderInv
<1>7. DrawsInv'
  BY <1>1, <1>2, <1>3, <1>5 DEF DrawsInv, tables, NoDraws
<1>8. ChargeInv'
  BY <1>1, <1>5 DEF IInv, ChargeInv
<1>9. TopupsNeverOverdrawn'
  BY <1>1 DEF IInv, TopupsNeverOverdrawn, tables
<1> QED
  BY <1>4, <1>6, <1>7, <1>8, <1>9 DEF IInv

(* One deduction.                                                          *)
LEMMA DeductKeepsIInv ==
  ASSUME IInv, NEW c \in Callers, NEW u \in TopupIDs, SettleDeduct(c, u)
  PROVE  IInv'
<1> DEFINE unused == topups[u].amount - topups[u].used
           consume == IF work.owed < unused THEN work.owed ELSE unused
           owed == work.owed - consume
           rest == work.queue \ {u}
<1>1. /\ holder = c /\ work.stage = "deduct" /\ u \in work.queue
      /\ draws' = [draws EXCEPT ![u] = consume]
      /\ work' = [work EXCEPT !.owed = owed, !.queue = rest,
                              !.stage = IF owed = 0 \/ rest = {} THEN "insert" ELSE "deduct"]
      /\ UNCHANGED <<now, tables, calls, holder>>
  BY DEF SettleDeduct, NextToPay, DrawOn, UnusedOf
<1>2. /\ u \in DOMAIN topups /\ topups[u] \in Topup /\ ~topups[u].deleted
      /\ draws[u] = 0
  BY <1>1 DEF IInv, DrawsInv, TypeOK
<1>3. topups[u].used + 0 <= topups[u].amount
  BY <1>2 DEF IInv, TopupsNeverOverdrawn
<1>4. /\ consume \in Nat /\ owed \in Nat /\ work.owed = owed + consume
      /\ topups[u].used + consume <= topups[u].amount
      /\ owed # 0 => topups[u].used + consume = topups[u].amount
  BY <1>2, <1>3 DEF IInv, TypeOK, Topup
<1> HIDE DEF consume, owed
<1>5. /\ work'.queue = rest /\ work'.owed = owed /\ work'.charge = work.charge
      /\ work'.stage = IF owed = 0 \/ rest = {} THEN "insert" ELSE "deduct"
      /\ draws'[u] = consume /\ \A v \in TopupIDs : v # u => draws'[v] = draws[v]
  BY <1>1 DEF IInv, TypeOK
<1>6. TypeOK'
  BY <1>1, <1>4 DEF IInv, TypeOK, tables, Stages
<1>7. HolderInv'
  BY <1>1, <1>5, SettlementAssumption DEF IInv, HolderInv
<1>8. DrawsInv'
  <2>1. \A v \in TopupIDs : v \in work'.queue \/ draws'[v] > 0 =>
          v \in DOMAIN topups' /\ ~topups'[v].deleted
    BY <1>1, <1>2, <1>5 DEF IInv, DrawsInv, tables
  <2>2. \A v \in work'.queue : draws'[v] = 0
    BY <1>5 DEF IInv, DrawsInv, TypeOK
  <2>3. work'.stage \in {"deduct", "insert"}
    BY <1>5
  <2>4. ASSUME work'.stage = "deduct", NEW v \in TopupIDs, draws'[v] > 0
        PROVE  topups'[v].used + draws'[v] = topups'[v].amount
    <3>1. CASE v = u
      BY <1>1, <1>4, <1>5, <2>4, <3>1 DEF tables
    <3>2. CASE v # u
      BY <1>1, <1>5, <2>4, <3>2 DEF IInv, DrawsInv, tables
    <3> QED
      BY <3>1, <3>2
  <2> QED
    BY <2>1, <2>2, <2>3, <2>4 DEF DrawsInv
<1>9. ChargeInv'
  <2>1. SumOf(draws', TopupIDs) = SumOf(draws, TopupIDs) + consume
    <3>1. \A v \in TopupIDs : draws[v] \in Nat /\ draws'[v] \in Nat
      BY <1>6 DEF IInv, TypeOK
    <3>2. \A v \in TopupIDs \ {u} : draws'[v] = draws[v]
      BY <1>5
    <3>3. draws'[u] = draws[u] + consume /\ consume \in Int /\ IsFiniteSet(TopupIDs)
      BY <1>2, <1>4, <1>5, SettlementAssumption
    <3> QED
      BY <3>1, <3>2, <3>3, SumRaise
  <2>2. SumOf(draws, TopupIDs) \in Nat
    BY SettlementAssumption, SumType DEF IInv, TypeOK
  <2> QED
    BY <1>1, <1>4, <1>5, <2>1, <2>2 DEF IInv, ChargeInv
<1>10. TopupsNeverOverdrawn'
  <2> SUFFICES ASSUME NEW v \in DOMAIN topups
               PROVE  topups[v].used + draws'[v] <= topups[v].amount
    BY <1>1 DEF TopupsNeverOverdrawn, tables
  <2>1. v \in TopupIDs
    BY DEF IInv, TypeOK
  <2> QED
    BY <1>4, <1>5, <2>1 DEF IInv, TopupsNeverOverdrawn
<1> QED
  BY <1>6, <1>7, <1>8, <1>9, <1>10 DEF IInv

(* The three ends of a call.                                               *)
LEMMA EndsKeepIInv ==
  ASSUME IInv, NEW c \in Callers,
         SettleAlreadyLogged(c) \/ SettleCommit(c) \/ Abort(c)
  PROVE  IInv'
<1> DEFINE Paid == \A u \in DOMAIN topups : topups[u].used <= topups[u].amount
<1>1. Paid
  BY DEF IInv, TypeOK, TopupsNeverOverdrawn, Topup
<1>2. ASSUME EndTransaction(c), UNCHANGED <<now, tables>> PROVE IInv'
  <2>1. UNCHANGED <<now, account, windows, topups, requestLogs, history>>
    BY <1>2 DEF tables
  <2> QED
    BY <1>1, <1>2, <2>1, EndKeepsIInv DEF IInv, TypeOK
<1>3. CASE SettleAlreadyLogged(c)
  BY <1>2, <1>3 DEF SettleAlreadyLogged
<1>4. CASE SettleCommit(c)
  <2> DEFINE e == calls[c]
             row == [cost |-> SettledCost(e), ok |-> e.ok, created |-> e.created]
  <2>1. EndTransaction(c) /\ UNCHANGED <<now, account, windows>>
    BY <1>4 DEF SettleCommit
  <2>2. topups' = [u \in DOMAIN topups |-> [topups[u] EXCEPT !.used = @ + draws[u]]]
    BY <1>4 DEF SettleCommit
  <2>3. /\ DOMAIN topups' \subseteq TopupIDs /\ \A u \in DOMAIN topups' : topups'[u] \in Topup
        /\ \A u \in DOMAIN topups' : topups'[u].used <= topups'[u].amount
    <3>1. DOMAIN topups \subseteq TopupIDs
      BY DEF IInv, TypeOK
    <3>2. \A u \in DOMAIN topups : topups[u] \in Topup /\ draws[u] \in Nat
      BY <3>1 DEF IInv, TypeOK
    <3>3. \A u \in DOMAIN topups : topups[u].used + draws[u] <= topups[u].amount
      BY DEF IInv, TopupsNeverOverdrawn
    <3> QED
      BY <2>2, <3>1, <3>2, <3>3 DEF Topup
  <2>4. e \in Call
    BY <1>4, SettlementAssumption DEF SettleCommit, IInv, HolderInv
  <2>5. /\ row \in Row /\ e.id \in LogIDs /\ work.charge \in Nat
        /\ work.read \in SUBSET UNION WindowSets /\ SumOf(draws, TopupIDs) \in Nat
    BY <2>4, SettledCostType, SettlementAssumption, SumType DEF Row, Call, LogIDs, IInv, TypeOK
  <2>6. /\ \/ UNCHANGED <<requestLogs, assessed, against>>
           \/ /\ requestLogs' = WithRow(requestLogs, e.id, row)
              /\ assessed' = WithRow(assessed, e.id, work.charge)
              /\ against' = WithRow(against, e.id, work.read)
        /\ overtook' = overtook
        /\ stray' = IF e.id \in overtook THEN stray + SumOf(draws, TopupIDs) ELSE stray
    BY <1>4 DEF SettleCommit
  <2> HIDE DEF row, e
  <2>7. /\ DOMAIN requestLogs' \subseteq LogIDs /\ \A i \in DOMAIN requestLogs' : requestLogs'[i] \in Row
        /\ HistoryOK'
    BY <2>5, <2>6 DEF WithRow, IInv, TypeOK
  <2> QED
    BY <2>1, <2>3, <2>7, EndKeepsIInv DEF IInv, TypeOK
<1>5. CASE Abort(c)
  <2>1. CASE holder = c
    BY <1>2, <1>5, <2>1 DEF Abort
  <2>2. CASE holder # c
    <3>1. calls' = [calls EXCEPT ![c] = Idle] /\ UNCHANGED <<now, tables, holder, work, draws>>
      BY <1>5, <2>2 DEF Abort
    <3>2. holder # Nobody => calls'[holder] = calls[holder]
      BY <2>2, <3>1 DEF IInv, TypeOK
    <3>3. TypeOK'
      BY <3>1 DEF IInv, TypeOK, tables
    <3>4. HolderInv' /\ ChargeInv'
      BY <3>1, <3>2 DEF IInv, HolderInv, ChargeInv
    <3>5. DrawsInv' /\ TopupsNeverOverdrawn'
      BY <3>1 DEF IInv, DrawsInv, TopupsNeverOverdrawn, tables
    <3> QED
      BY <3>3, <3>4, <3>5 DEF IInv
  <2> QED
    BY <2>1, <2>2
<1> QED
  BY <1>3, <1>4, <1>5

(* A new call.                                                             *)
LEMMA BeginKeepsIInv ==
  ASSUME IInv, Begin
  PROVE  IInv'
<1>1. PICK c \in Callers, id \in SettleIDs, cost \in Costs, ok \in BOOLEAN, age \in 0..MaxLatency :
        age <= now /\ SettleBegin(c, id, cost, ok, now - age)
  BY DEF Begin
<1> DEFINE call == [id |-> id, cost |-> cost, ok |-> ok, created |-> now - age, began |-> now]
<1>2. calls[c] = Idle /\ calls' = [calls EXCEPT ![c] = call] /\ UNCHANGED <<now, tables, holder, work, draws>>
  BY <1>1 DEF SettleBegin
<1>3. call \in Call
  BY <1>1, SettlementAssumption DEF Call, IInv, TypeOK
<1> HIDE DEF call
<1>4. TypeOK'
  BY <1>2, <1>3 DEF IInv, TypeOK, tables
<1>5. holder # Nobody => calls'[holder] = calls[holder]
  BY <1>2 DEF IInv, HolderInv, TypeOK
<1>6. HolderInv' /\ ChargeInv'
  BY <1>2, <1>5 DEF IInv, HolderInv, ChargeInv
<1>7. DrawsInv' /\ TopupsNeverOverdrawn'
  BY <1>2 DEF IInv, DrawsInv, TopupsNeverOverdrawn, tables
<1> QED
  BY <1>4, <1>6, <1>7 DEF IInv

(* The operations that leave the running transaction alone and touch the   *)
(* top-ups only where it has no lock.                                      *)
LEMMA OthersKeepIInv ==
  ASSUME IInv, UNCHANGED txn,
         now' \in Nat, account' \in Account, windows' \in [Plans -> WindowSets],
         DOMAIN requestLogs' \subseteq LogIDs, \A i \in DOMAIN requestLogs' : requestLogs'[i] \in Row,
         HistoryOK',
         DOMAIN topups' \subseteq TopupIDs, \A u \in DOMAIN topups' : topups'[u] \in Topup,
         DOMAIN topups \subseteq DOMAIN topups',
         \A u \in DOMAIN topups : /\ topups'[u].amount = topups[u].amount
                                  /\ topups'[u].used = topups[u].used
                                  /\ RowLocked(u) => topups'[u].deleted = topups[u].deleted,
         \A u \in DOMAIN topups' \ DOMAIN topups : topups'[u].used = 0
  PROVE  IInv'
<1>1. /\ calls' = calls /\ holder' = holder /\ work' = work /\ draws' = draws
  BY DEF txn
<1>2. TypeOK'
  BY <1>1 DEF IInv, TypeOK
<1>3. HolderInv' /\ ChargeInv'
  BY <1>1 DEF IInv, HolderInv, ChargeInv
<1>4. DrawsInv'
  <2>1. \A u \in TopupIDs : u \in work.queue \/ draws[u] > 0 => RowLocked(u) /\ u \in DOMAIN topups
    BY DEF IInv, HolderInv, DrawsInv, RowLocked, NoWork, NoDraws
  <2> QED
    BY <1>1, <2>1 DEF IInv, DrawsInv
<1>5. TopupsNeverOverdrawn'
  <2> SUFFICES ASSUME NEW u \in DOMAIN topups' PROVE topups'[u].used + draws[u] <= topups'[u].amount
    BY <1>1 DEF TopupsNeverOverdrawn
  <2>1. CASE u \in DOMAIN topups
    BY <2>1 DEF IInv, TopupsNeverOverdrawn
  <2>2. CASE u \notin DOMAIN topups
    <3>1. draws[u] = 0
      BY <2>2 DEF IInv, TypeOK, DrawsInv
    <3> QED
      BY <2>2, <3>1 DEF Topup
  <2> QED
    BY <2>1, <2>2
<1> QED
  BY <1>2, <1>3, <1>4, <1>5 DEF IInv

(* Plain inserts, the administration, the retention sweeper and the clock. *)
LEMMA AdminKeepsIInv ==
  ASSUME IInv,
         \/ \E id \in InsertIDs, cost \in InsertCosts, ok \in BOOLEAN : InsertRequestLog(id, cost, ok)
         \/ Admin \/ Tick
  PROVE  IInv'
<1> USE DEF tables
<1>1. /\ now \in Nat /\ account \in Account /\ windows \in [Plans -> WindowSets]
      /\ DOMAIN topups \subseteq TopupIDs /\ \A u \in DOMAIN topups : topups[u] \in Topup
      /\ DOMAIN requestLogs \subseteq LogIDs /\ \A i \in DOMAIN requestLogs : requestLogs[i] \in Row
      /\ HistoryOK
  BY DEF IInv, TypeOK
<1>2. ASSUME NEW id \in InsertIDs, NEW cost \in InsertCosts, NEW ok \in BOOLEAN,
             InsertRequestLog(id, cost, ok)
      PROVE  IInv'
  <2> DEFINE row == [cost |-> cost, ok |-> ok, created |-> now]
  <2>1. row \in Row /\ id \in LogIDs
    BY <1>1, SettlementAssumption DEF Row, LogIDs
  <2>2. /\ requestLogs' = WithRow(requestLogs, id, row) /\ assessed' = WithRow(assessed, id, 0)
        /\ against' = WithRow(against, id, {}) /\ overtook' \subseteq overtook \cup {id}
        /\ UNCHANGED <<now, account, windows, topups, stray, txn>>
    BY <1>2 DEF InsertRequestLog
  <2> HIDE DEF row
  <2>3. /\ DOMAIN requestLogs' \subseteq LogIDs /\ \A i \in DOMAIN requestLogs' : requestLogs'[i] \in Row
        /\ HistoryOK'
    BY <1>1, <2>1, <2>2 DEF WithRow
  <2> QED
    BY <1>1, <2>2, <2>3, OthersKeepIInv
<1>3. ASSUME NEW p \in Plans, UpdateUser(p) PROVE IInv'
  <2>1. account' \in Account
    BY <1>1, <1>3 DEF UpdateUser, Account
  <2> QED
    BY <1>1, <1>3, <2>1, OthersKeepIInv DEF UpdateUser
<1>4. ASSUME NEW p \in Plans, NEW ws \in WindowSets, UpdatePlan(p, ws) PROVE IInv'
  <2>1. windows' \in [Plans -> WindowSets]
    BY <1>1, <1>4 DEF UpdatePlan
  <2> QED
    BY <1>1, <1>4, <2>1, OthersKeepIInv DEF UpdatePlan
<1>5. ASSUME ResetUsage PROVE IInv'
  <2>1. account' \in Account
    BY <1>1, <1>5 DEF ResetUsage, Account
  <2> QED
    BY <1>1, <1>5, <2>1, OthersKeepIInv DEF ResetUsage
<1>6. ASSUME NEW u \in TopupIDs, NEW a \in Amounts, NEW x \in Expiries, CreateUserTopup(u, a, x)
      PROVE  IInv'
  <2> DEFINE row == [amount |-> a, used |-> 0, created |-> now, expires |-> x, deleted |-> FALSE]
  <2>1. row \in Topup /\ row.used = 0
    BY <1>1, SettlementAssumption DEF Topup
  <2>2. /\ u \notin DOMAIN topups /\ topups' = WithRow(topups, u, row)
        /\ UNCHANGED <<now, account, windows, requestLogs, history, txn>>
    BY <1>6 DEF CreateUserTopup
  <2> HIDE DEF row
  <2>3. /\ DOMAIN topups' = DOMAIN topups \cup {u} /\ topups'[u] = row
        /\ \A v \in DOMAIN topups : topups'[v] = topups[v]
    BY <2>2 DEF WithRow
  <2> QED
    BY <1>1, <2>1, <2>2, <2>3, OthersKeepIInv
<1>7. ASSUME NEW u \in TopupIDs, DeleteUserTopup(u) PROVE IInv'
  <2>1. /\ u \in DOMAIN topups /\ ~RowLocked(u) /\ topups' = [topups EXCEPT ![u].deleted = TRUE]
        /\ UNCHANGED <<now, account, windows, requestLogs, history, txn>>
    BY <1>7 DEF DeleteUserTopup
  <2>2. topups'[u] \in Topup /\ topups'[u].amount = topups[u].amount /\ topups'[u].used = topups[u].used
    BY <1>1, <2>1 DEF Topup
  <2> QED
    BY <1>1, <2>1, <2>2, OthersKeepIInv
<1>8. ASSUME NEW u \in TopupIDs, NEW x \in Expiries, SetUserTopupExpiry(u, x) PROVE IInv'
  <2>1. /\ u \in DOMAIN topups /\ ~RowLocked(u) /\ topups' = [topups EXCEPT ![u].expires = x]
        /\ UNCHANGED <<now, account, windows, requestLogs, history, txn>>
    BY <1>8 DEF SetUserTopupExpiry
  <2>2. topups'[u] \in Topup /\ topups'[u].amount = topups[u].amount /\ topups'[u].used = topups[u].used
    BY <1>1, <2>1, SettlementAssumption DEF Topup
  <2> QED
    BY <1>1, <2>1, <2>2, OthersKeepIInv
<1>9. ASSUME PruneOldRequestLogs PROVE IInv'
  <2>1. PICK kept \in SUBSET DOMAIN requestLogs :
          /\ requestLogs' = Restrict(requestLogs, kept) /\ assessed' = Restrict(assessed, kept)
          /\ against' = Restrict(against, kept) /\ overtook' = overtook \cap kept
          /\ UNCHANGED <<now, account, windows, topups, stray, txn>>
    BY <1>9 DEF PruneOldRequestLogs
  <2>2. /\ DOMAIN requestLogs' \subseteq LogIDs /\ \A i \in DOMAIN requestLogs' : requestLogs'[i] \in Row
        /\ HistoryOK'
    BY <1>1, <2>1 DEF Restrict
  <2> QED
    BY <1>1, <2>1, <2>2, OthersKeepIInv
<1>10. ASSUME Tick PROVE IInv'
  <2>1. now' \in Nat
    BY <1>1, <1>10 DEF Tick
  <2> QED
    BY <1>1, <1>10, <2>1, OthersKeepIInv DEF Tick
<1> QED
  BY <1>2, <1>3, <1>4, <1>5, <1>6, <1>7, <1>8, <1>9, <1>10 DEF Admin

LEMMA IdleKeepsIInv == IInv /\ UNCHANGED vars => IInv'
<1> SUFFICES ASSUME IInv, UNCHANGED vars PROVE IInv'
  OBVIOUS
<1>1. TypeOK'
  BY DEF IInv, TypeOK, vars
<1>2. HolderInv' /\ DrawsInv' /\ ChargeInv' /\ TopupsNeverOverdrawn'
  BY DEF IInv, HolderInv, DrawsInv, ChargeInv, TopupsNeverOverdrawn, vars
<1> QED
  BY <1>1, <1>2 DEF IInv

(* IInv is inductive.                                                      *)
THEOREM SettlementInvariant == Spec => []IInv
<1>1. ASSUME IInv, Next PROVE IInv'
  <2>1. ASSUME NEW c \in Callers, Settle(c) PROVE IInv'
    BY <1>1, <2>1, ReadsKeepIInv, SelectKeepsIInv, DeductKeepsIInv, EndsKeepIInv DEF Settle
  <2>2. ASSUME NEW c \in Callers, Abort(c) PROVE IInv'
    BY <1>1, <2>2, EndsKeepIInv
  <2> QED
    BY <1>1, <2>1, <2>2, BeginKeepsIInv, AdminKeepsIInv DEF Next
<1>2. IInv /\ [Next]_vars => IInv'
  BY <1>1, IdleKeepsIInv
<1> QED
  BY <1>2, InitIInv, PTL DEF Spec

(* The tables and the transaction keep their types.                        *)
THEOREM SettlementTypes == Spec => []TypeOK
BY SettlementInvariant, PTL DEF IInv

(* No interleaving of settlements, deletions, expiry changes, replays and  *)
(* aborts makes a top-up pay out more than was bought.                     *)
THEOREM TopupsBounded == Spec => []TopupsNeverOverdrawn
BY SettlementInvariant, PTL DEF IInv

(* No action but the commit touches what top-ups have paid; no action but  *)
(* a deduction or the end of a transaction touches draws.                  *)
LEMMA OnlyCommitPays ==
  ASSUME IInv, Next
  PROVE  \/ /\ \A u \in DOMAIN topups : u \in DOMAIN topups' /\ topups'[u].used = topups[u].used
            /\ \A u \in DOMAIN topups' \ DOMAIN topups : topups'[u].used = 0
         \/ \E c \in Callers : SettleCommit(c)
<1> USE DEF tables
<1>1. ASSUME NEW c \in Callers, Settle(c), ~SettleCommit(c) PROVE topups' = topups
  BY <1>1 DEF Settle, SettleLock, SettleAlreadyLogged, SettleNotLogged, SettleReadUser,
              SettleReadWindows, SettleChargeWindow, SettleSelectTopups, SettleDeduct, DrawOn
<1>2. ASSUME NEW c \in Callers, Abort(c) PROVE topups' = topups
  BY <1>2 DEF Abort
<1>3. ASSUME Begin PROVE topups' = topups
  BY <1>3 DEF Begin, SettleBegin
<1>4. ASSUME NEW id \in InsertIDs, NEW cost \in InsertCosts, NEW ok \in BOOLEAN,
             InsertRequestLog(id, cost, ok)
      PROVE  topups' = topups
  BY <1>4 DEF InsertRequestLog
<1>5. ASSUME Admin
      PROVE  /\ \A u \in DOMAIN topups : u \in DOMAIN topups' /\ topups'[u].used = topups[u].used
             /\ \A u \in DOMAIN topups' \ DOMAIN topups : topups'[u].used = 0
  <2>1. ASSUME NEW u \in TopupIDs, NEW a \in Amounts, NEW x \in Expiries, CreateUserTopup(u, a, x)
        PROVE  /\ \A v \in DOMAIN topups : v \in DOMAIN topups' /\ topups'[v] = topups[v]
               /\ \A v \in DOMAIN topups' \ DOMAIN topups : topups'[v].used = 0
    BY <2>1 DEF CreateUserTopup, WithRow
  <2>2. ASSUME NEW u \in TopupIDs, DeleteUserTopup(u)
        PROVE  /\ \A v \in DOMAIN topups : v \in DOMAIN topups' /\ topups'[v].used = topups[v].used
               /\ DOMAIN topups' = DOMAIN topups
    BY <2>2 DEF DeleteUserTopup, IInv, TypeOK, Topup
  <2>3. ASSUME NEW u \in TopupIDs, NEW x \in Expiries, SetUserTopupExpiry(u, x)
        PROVE  /\ \A v \in DOMAIN topups : v \in DOMAIN topups' /\ topups'[v].used = topups[v].used
               /\ DOMAIN topups' = DOMAIN topups
    BY <2>3 DEF SetUserTopupExpiry, IInv, TypeOK, Topup
  <2>4. ASSUME \/ \E p \in Plans : UpdateUser(p)
               \/ \E p \in Plans, ws \in WindowSets : UpdatePlan(p, ws)
               \/ ResetUsage \/ PruneOldRequestLogs
        PROVE  topups' = topups
    BY <2>4 DEF UpdateUser, UpdatePlan, ResetUsage, PruneOldRequestLogs
  <2> QED
    BY <1>5, <2>1, <2>2, <2>3, <2>4 DEF Admin
<1>6. ASSUME Tick PROVE topups' = topups
  BY <1>6 DEF Tick
<1> QED
  BY <1>1, <1>2, <1>3, <1>4, <1>5, <1>6 DEF Next

(* DeleteUserTopup takes effect at once: from then on the top-up pays for  *)
(* nothing, the settlement that is running included.                       *)
THEOREM DeletionIsFinal == Spec => DeletedTopupsPayNothing
<1> DEFINE P == \A u \in DOMAIN topups : topups[u].deleted => topups'[u].used = topups[u].used
<1>1. ASSUME IInv, Next PROVE P
  <2>1. ASSUME NEW c \in Callers, SettleCommit(c) PROVE P
    <3>1. topups' = [u \in DOMAIN topups |-> [topups[u] EXCEPT !.used = @ + draws[u]]]
      BY <2>1 DEF SettleCommit
    <3>2. \A u \in DOMAIN topups : topups[u].deleted => draws[u] = 0 /\ topups[u] \in Topup
      BY <1>1 DEF IInv, TypeOK, DrawsInv
    <3> QED
      BY <3>1, <3>2 DEF Topup
  <2> QED
    BY <1>1, <2>1, OnlyCommitPays
<1>2. IInv /\ [Next]_vars => [P]_vars
  BY <1>1
<1> QED
  BY <1>2, SettlementInvariant, PTL DEF Spec, DeletedTopupsPayNothing

(* Deductions follow the expiry dates.                                     *)
THEOREM DeductionsFollowExpiry == Spec => SoonestExpiryFirst
<1> DEFINE P == \A u, v \in DOMAIN topups :
                  /\ draws'[v] > draws[v]
                  /\ u \in work.queue \cup {x \in TopupIDs : draws[x] > 0}
                  /\ DrawnBefore(u, v)
                  => topups[u].used + draws[u] = topups[u].amount
<1>1. ASSUME IInv, NEW c \in Callers, NEW w \in TopupIDs, SettleDeduct(c, w) PROVE P
  <2> SUFFICES ASSUME NEW u \in DOMAIN topups, NEW v \in DOMAIN topups,
                      draws'[v] > draws[v],
                      u \in work.queue \cup {x \in TopupIDs : draws[x] > 0},
                      DrawnBefore(u, v)
               PROVE  topups[u].used + draws[u] = topups[u].amount
    OBVIOUS
  <2>1. v = w
    <3>1. \A x \in TopupIDs : x # w => draws'[x] = draws[x]
      BY <1>1 DEF SettleDeduct, NextToPay, DrawOn, IInv, TypeOK
    <3> QED
      BY <1>1, <3>1 DEF IInv, TypeOK
  <2>2. u \notin work.queue
    BY <1>1, <2>1 DEF SettleDeduct, NextToPay, DrawOn, UnusedOf
  <2>3. work.stage = "deduct" /\ u \in TopupIDs /\ draws[u] > 0
    BY <1>1, <2>2 DEF SettleDeduct, NextToPay, DrawOn, IInv, TypeOK
  <2> QED
    BY <1>1, <2>3 DEF IInv, DrawsInv
<1>2. ASSUME IInv, Next, \A c \in Callers, w \in TopupIDs : ~SettleDeduct(c, w)
      PROVE  draws' = draws \/ draws' = NoDraws
  BY <1>2 DEF Next, Settle, SettleLock, SettleAlreadyLogged, SettleNotLogged, SettleReadUser,
              SettleReadWindows, SettleChargeWindow, SettleSelectTopups, SettleCommit, Abort,
              EndTransaction, Begin, SettleBegin, InsertRequestLog, Admin, UpdateUser, UpdatePlan,
              ResetUsage, CreateUserTopup, DeleteUserTopup, SetUserTopupExpiry,
              PruneOldRequestLogs, Tick, txn
<1>3. ASSUME IInv, draws' = draws \/ draws' = NoDraws PROVE P
  BY <1>3 DEF IInv, TypeOK, NoDraws
<1>4. IInv /\ [Next]_vars => [P]_vars
  BY <1>1, <1>2, <1>3
<1> QED
  BY <1>4, SettlementInvariant, PTL DEF Spec, SoonestExpiryFirst

-----------------------------------------------------------------------------
(* The lock holder goes on.                                                *)

(* Some statement of its transaction is due: the guard of Settle(holder).  *)
StatementDue ==
  \/ work.stage \in {"exists", "user", "windows", "topups", "insert"}
  \/ work.stage = "charge" /\ work.limits # {}
  \/ work.stage = "deduct" /\ \E u \in TopupIDs : NextToPay(holder, u)

(* The loops are entered with something left to do.                        *)
LoopInv ==
  /\ work.stage = "charge" => work.limits # {}
  /\ work.stage = "deduct" => work.queue # {}

Place == [s \in Stages |->
  CASE s = "none" -> 0 [] s = "exists" -> 1 [] s = "user" -> 2 [] s = "windows" -> 3
    [] s = "charge" -> 4 [] s = "topups" -> 5 [] s = "deduct" -> 6 [] s = "insert" -> 7]

(* A later statement, or one turn less of a loop.                          *)
Forward ==
  \/ Place[work.stage] < Place[work'.stage]
  \/ /\ work'.stage = work.stage /\ work.stage = "charge"
     /\ work'.limits \subseteq work.limits /\ work'.limits # work.limits
  \/ /\ work'.stage = work.stage /\ work.stage = "deduct"
     /\ work'.queue \subseteq work.queue /\ work'.queue # work.queue

(* ORDER BY orders: of finitely many selected top-ups one is paid first.   *)
LEMMA FirstInLine ==
  ASSUME NEW S, IsFiniteSet(S), S # {},
         \A u \in S : topups[u].expires \in Nat \cup {NoTime} /\ topups[u].created \in Nat
  PROVE  \E u \in S : \A v \in S : ~DrawnBefore(v, u)
<1> DEFINE First(T) == \E u \in T : \A v \in T : ~DrawnBefore(v, u)
           Bad == {T \in SUBSET S : T # {} /\ ~First(T)}
<1>1. \A u \in S : ~DrawnBefore(u, u)
  BY NoTimeIsNull DEF DrawnBefore
<1>2. \A u, v, w \in S : DrawnBefore(u, v) /\ DrawnBefore(v, w) => DrawnBefore(u, w)
  BY NoTimeIsNull DEF DrawnBefore
<1>3. ASSUME Bad # {} PROVE FALSE
  <2>1. FiniteSubsetsOf(S) = SUBSET S
    BY FS_FiniteSubsetsOfFinite
  <2>2. IsWellFoundedOn(StrictSubsetOrdering(S), SUBSET S)
    BY <2>1, FS_StrictSubsetOrderingWellFounded
  <2>3. PICK T \in Bad : \A U \in Bad : <<U, T>> \notin StrictSubsetOrdering(S)
    BY <1>3, <2>2, WFMin, Zenon
  <2>4. PICK t : t \in T
    OBVIOUS
  <2> DEFINE U == T \ {t}
  <2>5. U \notin Bad
    <3>1. ASSUME U \in Bad PROVE <<U, T>> \in StrictSubsetOrdering(S)
      BY <2>4 DEF StrictSubsetOrdering
    <3> QED
      BY <2>3, <3>1
  <2>6. T \subseteq S /\ ~First(T)
    OBVIOUS
  <2>7. CASE U = {}
    BY <1>1, <2>4, <2>6, <2>7
  <2>8. CASE U # {}
    <3>1. PICK u \in U : \A v \in U : ~DrawnBefore(v, u)
      BY <2>5, <2>6, <2>8
    <3>2. CASE DrawnBefore(t, u)
      <4>1. \A v \in U : ~DrawnBefore(v, t)
        BY <1>2, <2>4, <2>6, <3>1, <3>2
      <4>2. \A v \in T : ~DrawnBefore(v, t)
        BY <1>1, <2>4, <2>6, <4>1
      <4> QED
        BY <2>4, <2>6, <4>2
    <3>3. CASE ~DrawnBefore(t, u)
      <4>1. \A v \in T : ~DrawnBefore(v, u)
        BY <3>1, <3>3
      <4> QED
        BY <2>6, <3>1, <4>1
    <3> QED
      BY <3>2, <3>3
  <2> QED
    BY <2>7, <2>8
<1> QED
  BY <1>3

LEMMA DueWhileHeld == IInv /\ LoopInv /\ holder # Nobody => StatementDue
<1> SUFFICES ASSUME IInv, LoopInv, holder # Nobody PROVE StatementDue
  OBVIOUS
<1>1. work.stage \in Stages \ {"none"} /\ work.queue \subseteq TopupIDs
  BY DEF IInv, HolderInv, TypeOK
<1>2. CASE work.stage = "deduct"
  <2>1. work.queue # {} /\ IsFiniteSet(work.queue)
    BY <1>1, <1>2, FS_Subset, SettlementAssumption DEF LoopInv
  <2>2. \A u \in work.queue : topups[u] \in Topup
    BY <1>1 DEF IInv, DrawsInv, TypeOK
  <2>3. \A u \in work.queue : topups[u].expires \in Nat \cup {NoTime} /\ topups[u].created \in Nat
    BY <2>2 DEF Topup
  <2>4. PICK u \in work.queue : \A v \in work.queue : ~DrawnBefore(v, u)
    BY <2>1, <2>3, FirstInLine
  <2> QED
    BY <1>1, <1>2, <2>4 DEF StatementDue, NextToPay
<1>3. CASE work.stage # "deduct"
  BY <1>1, <1>3 DEF Stages, StatementDue, LoopInv
<1> QED
  BY <1>2, <1>3

(* Statement by statement: where the transaction goes.                     *)
LEMMA StatementsGoForward ==
  ASSUME IInv, NEW c \in Callers, holder = c, Settle(c)
  PROVE  (holder' = Nobody /\ work' = NoWork) \/ (holder' = c /\ Forward /\ LoopInv')
<1> USE DEF Place, Stages, Forward, LoopInv
<1>1. work.stage \in Stages /\ holder # Nobody /\ work = [work EXCEPT !.stage = work.stage]
  BY SettlementAssumption DEF IInv, TypeOK
<1>2. CASE SettleAlreadyLogged(c) \/ SettleCommit(c)
  BY <1>2 DEF SettleAlreadyLogged, SettleCommit, EndTransaction
<1>3. CASE SettleNotLogged(c)
  BY <1>3 DEF SettleNotLogged, IInv, TypeOK
<1>4. CASE SettleReadUser(c)
  BY <1>4 DEF SettleReadUser, IInv, TypeOK
<1>5. CASE SettleReadWindows(c)
  <2> DEFINE limits == ValidWindows(windows[work.account.plan])
  <2>1. /\ holder' = holder /\ work.stage = "windows" /\ work'.limits = limits
        /\ work'.stage = IF limits = {} THEN "insert" ELSE "charge"
    BY <1>5 DEF SettleReadWindows, IInv, TypeOK
  <2> HIDE DEF limits
  <2> QED
    BY <2>1
<1>6. ASSUME NEW w \in work.limits, SettleChargeWindow(c, w) PROVE holder' = c /\ Forward /\ LoopInv'
  <2> DEFINE floor == WindowFloor(work.account, w, calls[c].created)
             rise == MarginalOverage(w, SpentSince(requestLogs, floor), SettledCost(calls[c]))
             charge == Max({work.charge, rise})
             rest == work.limits \ {w}
  <2>1. /\ holder' = holder /\ work.stage = "charge"
        /\ work' = [work EXCEPT !.limits = rest, !.charge = charge, !.owed = charge,
                                !.stage = IF rest # {} THEN "charge"
                                          ELSE IF charge > 0 THEN "topups" ELSE "insert"]
    BY <1>6 DEF SettleChargeWindow
  <2> HIDE DEF charge
  <2>2. /\ work'.limits = rest
        /\ work'.stage = IF rest # {} THEN "charge" ELSE IF charge > 0 THEN "topups" ELSE "insert"
    BY <2>1 DEF IInv, TypeOK
  <2>3. CASE rest # {}
    BY <1>6, <2>1, <2>2, <2>3
  <2>4. CASE rest = {}
    BY <2>1, <2>2, <2>4
  <2> QED
    BY <2>3, <2>4
<1>7. CASE SettleSelectTopups(c)
  <2> DEFINE spendable == {u \in ActiveTopups(topups, calls[c].began) : topups[u].used < topups[u].amount}
  <2>1. /\ holder' = holder /\ work.stage = "topups" /\ work'.queue = spendable
        /\ work'.stage = IF spendable = {} THEN "insert" ELSE "deduct"
    BY <1>7 DEF SettleSelectTopups, IInv, TypeOK, ActiveTopups
  <2> HIDE DEF spendable
  <2> QED
    BY <2>1
<1>8. ASSUME NEW u \in TopupIDs, SettleDeduct(c, u) PROVE holder' = c /\ Forward /\ LoopInv'
  <2> DEFINE consume == IF work.owed < UnusedOf(u) THEN work.owed ELSE UnusedOf(u)
             owed == work.owed - consume
             rest == work.queue \ {u}
  <2>1. /\ holder' = holder /\ work.stage = "deduct" /\ u \in work.queue
        /\ work' = [work EXCEPT !.owed = owed, !.queue = rest,
                                !.stage = IF owed = 0 \/ rest = {} THEN "insert" ELSE "deduct"]
    BY <1>8 DEF SettleDeduct, NextToPay, DrawOn
  <2> HIDE DEF consume, owed
  <2>2. /\ work'.queue = rest
        /\ work'.stage = IF owed = 0 \/ rest = {} THEN "insert" ELSE "deduct"
    BY <2>1 DEF IInv, TypeOK
  <2> QED
    BY <2>1, <2>2
<1>9. ~SettleLock(c)
  BY <1>1 DEF SettleLock
<1> QED
  BY <1>2, <1>3, <1>4, <1>5, <1>6, <1>7, <1>8, <1>9 DEF Settle

(* Nobody else's step touches a running transaction.                       *)
LEMMA OthersStandBack ==
  ASSUME IInv, NEW c \in Callers, holder = c, [Next]_vars, ~Settle(c)
  PROVE  (holder' = Nobody /\ work' = NoWork) \/ (holder' = c /\ work' = work)
<1>1. holder # Nobody
  BY SettlementAssumption
<1>2. ASSUME NEW d \in Callers, Settle(d) PROVE d = c
  BY <1>1, <1>2 DEF Settle, SettleLock, SettleAlreadyLogged, SettleNotLogged, SettleReadUser,
                    SettleReadWindows, SettleChargeWindow, SettleSelectTopups, SettleDeduct,
                    NextToPay, SettleCommit
<1>3. ASSUME NEW d \in Callers, Abort(d)
      PROVE  (holder' = Nobody /\ work' = NoWork) \/ (holder' = c /\ work' = work)
  BY <1>3 DEF Abort, EndTransaction
<1>4. CASE Begin
  BY <1>4 DEF Begin, SettleBegin
<1>5. ASSUME NEW id \in InsertIDs, NEW cost \in InsertCosts, NEW ok \in BOOLEAN,
             InsertRequestLog(id, cost, ok)
      PROVE  UNCHANGED txn
  BY <1>5 DEF InsertRequestLog
<1>6. CASE Admin
  BY <1>6 DEF Admin, UpdateUser, UpdatePlan, ResetUsage, CreateUserTopup, DeleteUserTopup,
              SetUserTopupExpiry, PruneOldRequestLogs, txn
<1>7. CASE Tick \/ UNCHANGED vars
  BY <1>7 DEF Tick, vars, txn
<1> QED
  BY <1>2, <1>3, <1>4, <1>5, <1>6, <1>7 DEF Next, txn

LEMMA LoopInvariant == Spec => []LoopInv
<1>1. Init => LoopInv
  BY DEF Init, NoWork, LoopInv
<1>2. ASSUME IInv, LoopInv, [Next]_vars PROVE LoopInv'
  <2>1. CASE holder # Nobody
    <3>1. holder \in Callers
      BY <1>2, <2>1 DEF IInv, TypeOK
    <3>2. CASE Settle(holder)
      <4>1. work' = NoWork \/ LoopInv'
        BY <1>2, <3>1, <3>2, StatementsGoForward
      <4> QED
        BY <4>1 DEF LoopInv, NoWork
    <3>3. CASE ~Settle(holder)
      <4>1. work' = NoWork \/ work' = work
        BY <1>2, <3>1, <3>3, OthersStandBack
      <4> QED
        BY <1>2, <4>1 DEF LoopInv, NoWork
    <3> QED
      BY <3>2, <3>3
  <2>2. CASE holder = Nobody
    <3>1. \A c \in Callers : holder # c /\ calls[c] \in Call \cup {Idle}
      BY <1>2, <2>2, SettlementAssumption DEF IInv, TypeOK
    <3>2. work = NoWork
      BY <1>2, <2>2 DEF IInv, HolderInv
    <3>3. work' = work \/ work' = [work EXCEPT !.stage = "exists"]
      BY <1>2, <3>1 DEF Next, Settle, SettleLock, SettleAlreadyLogged, SettleNotLogged,
          SettleReadUser, SettleReadWindows, SettleChargeWindow, SettleSelectTopups, SettleDeduct,
          NextToPay, SettleCommit, Abort, Begin, SettleBegin, InsertRequestLog, Admin, UpdateUser,
          UpdatePlan, ResetUsage, CreateUserTopup, DeleteUserTopup, SetUserTopupExpiry,
          PruneOldRequestLogs, Tick, vars, txn
    <3> QED
      BY <3>2, <3>3 DEF NoWork, LoopInv
  <2> QED
    BY <2>1, <2>2
<1> QED
  BY <1>1, <1>2, SettlementInvariant, PTL DEF Spec

(* HolderGoesOn without ENABLED: whoever holds the user's lock has a       *)
(* statement whose guard is true, whatever the other writers commit.  In   *)
(* the loop of deductNanoFromTopupsTx some selected top-up is the next.    *)
THEOREM TheHolderHasAStatement == Spec => [](holder # Nobody => StatementDue)
BY DueWhileHeld, LoopInvariant, SettlementInvariant, PTL

(* And what it waits for ends: each statement takes the transaction to a   *)
(* later one, takes a window or a top-up off the loop it is in, or ends    *)
(* it; no step of another writer takes it back (billing_atomic.go 143-279).*)
THEOREM TransactionsComeToAnEnd ==
  Spec => [][\A c \in Callers : holder = c =>
               \/ holder' = Nobody
               \/ holder' = c /\ (IF Settle(c) THEN Forward ELSE work' = work)]_vars
<1> DEFINE A == \A c \in Callers : holder = c =>
                  \/ holder' = Nobody
                  \/ holder' = c /\ (IF Settle(c) THEN Forward ELSE work' = work)
<1>1. IInv /\ [Next]_vars => [A]_vars
  BY StatementsGoForward, OthersStandBack
<1> QED
  BY <1>1, SettlementInvariant, PTL DEF Spec

-----------------------------------------------------------------------------
(* The implementation of ChargeLedger.                                     *)

(* From the exists statement to the commit, the row of the request is not  *)
(* there, unless a plain insert overtook: the lock holds settlements off.  *)
RowStillMissing ==
  work.stage \notin {"none", "exists"} => calls[holder].id \notin DOMAIN requestLogs \ overtook

LEMMA RowStillMissingInvariant == Spec => []RowStillMissing
<1> USE DEF tables
<1>1. Init => RowStillMissing
  BY DEF Init, RowStillMissing, NoWork
<1>2. ASSUME IInv, RowStillMissing, Next PROVE RowStillMissing'
  <2>1. ASSUME NEW c \in Callers, Settle(c) PROVE RowStillMissing'
    <3>1. CASE SettleLock(c)
      BY <1>2, <3>1 DEF SettleLock, RowStillMissing, IInv, TypeOK
    <3>2. CASE SettleAlreadyLogged(c) \/ SettleCommit(c)
      BY <3>2 DEF SettleAlreadyLogged, SettleCommit, EndTransaction, RowStillMissing, NoWork
    <3>3. CASE SettleNotLogged(c)
      BY <3>3 DEF SettleNotLogged, RowStillMissing
    <3>4. ASSUME \/ SettleReadUser(c) \/ SettleReadWindows(c)
                 \/ \E w \in work.limits : SettleChargeWindow(c, w)
                 \/ SettleSelectTopups(c) \/ \E u \in TopupIDs : SettleDeduct(c, u)
          PROVE  RowStillMissing'
      BY <1>2, <3>4 DEF SettleReadUser, SettleReadWindows, SettleChargeWindow, SettleSelectTopups,
                        SettleDeduct, NextToPay, DrawOn, RowStillMissing
    <3> QED
      BY <2>1, <3>1, <3>2, <3>3, <3>4 DEF Settle
  <2>2. ASSUME NEW c \in Callers, Abort(c) PROVE RowStillMissing'
    <3>1. CASE holder = c
      BY <2>2, <3>1 DEF Abort, EndTransaction, RowStillMissing, NoWork
    <3>2. CASE holder # c
      BY <1>2, <2>2, <3>2 DEF Abort, RowStillMissing, IInv, TypeOK, HolderInv, NoWork
    <3> QED
      BY <3>1, <3>2
  <2>3. ASSUME Begin PROVE RowStillMissing'
    BY <1>2, <2>3 DEF Begin, SettleBegin, RowStillMissing, IInv, TypeOK, HolderInv, NoWork
  <2>4. ASSUME NEW id \in InsertIDs, NEW cost \in InsertCosts, NEW ok \in BOOLEAN,
               InsertRequestLog(id, cost, ok)
        PROVE  RowStillMissing'
    <3>1. /\ DOMAIN requestLogs' = DOMAIN requestLogs \cup {id} /\ UNCHANGED txn
          /\ overtook' = IF Overtakes(id) THEN overtook \cup {id} ELSE overtook
      BY <2>4 DEF InsertRequestLog, WithRow
    <3> QED
      BY <1>2, <3>1 DEF RowStillMissing, Overtakes, txn
  <2>5. ASSUME Admin \/ Tick PROVE RowStillMissing'
    <3>1. DOMAIN requestLogs' \ overtook' \subseteq DOMAIN requestLogs \ overtook /\ UNCHANGED txn
      BY <2>5 DEF Admin, UpdateUser, UpdatePlan, ResetUsage, CreateUserTopup, DeleteUserTopup,
                  SetUserTopupExpiry, PruneOldRequestLogs, Restrict, Tick
    <3> QED
      BY <1>2, <3>1 DEF RowStillMissing, txn
  <2> QED
    BY <1>2, <2>1, <2>2, <2>3, <2>4, <2>5 DEF Next
<1>3. IInv /\ RowStillMissing /\ [Next]_vars => RowStillMissing'
  BY <1>2 DEF RowStillMissing, vars
<1> QED
  BY <1>1, <1>3, SettlementInvariant, PTL DEF Spec

LEMMA UsedType ==
  ASSUME IInv
  PROVE  /\ TopupsUsed \in Nat /\ IsFiniteSet(DOMAIN topups)
         /\ \A u \in DOMAIN topups : topups[u].used \in Nat
<1>1. IsFiniteSet(DOMAIN topups)
  BY SettlementAssumption, FS_Subset DEF IInv, TypeOK
<1>2. \A u \in DOMAIN topups : topups[u].used \in Nat
  BY DEF IInv, TypeOK, Topup
<1> QED
  BY <1>1, <1>2, SumType DEF TopupsUsed

(* Top-ups that are bought, deleted or re-dated leave the collected sum.   *)
LEMMA CollectedKept ==
  ASSUME \A u \in DOMAIN topups : u \in DOMAIN topups' /\ topups'[u].used = topups[u].used,
         \A u \in DOMAIN topups' \ DOMAIN topups : topups'[u].used = 0
  PROVE  TopupsUsed' = TopupsUsed
<1> DEFINE f == [u \in DOMAIN topups |-> topups[u].used]
           g == [u \in DOMAIN topups' |-> topups'[u].used]
<1>1. SumOf(g, DOMAIN topups) = SumOf(g, DOMAIN topups')
  <2>1. DOMAIN topups \in SUBSET DOMAIN topups' /\ \A u \in DOMAIN topups' \ DOMAIN topups : g[u] = 0
    OBVIOUS
  <2> HIDE DEF g
  <2> QED
    BY <2>1, SumSupport
<1>2. SumOf(f, DOMAIN topups) = SumOf(g, DOMAIN topups)
  <2>1. \A u \in DOMAIN topups : f[u] = g[u]
    OBVIOUS
  <2> HIDE DEF f, g
  <2> QED
    BY <2>1, SumAgree
<1> QED
  BY <1>1, <1>2 DEF TopupsUsed

(* A commit collects what the transaction drew.                            *)
LEMMA CollectedByCommit ==
  ASSUME IInv, NEW c \in Callers, SettleCommit(c)
  PROVE  TopupsUsed' = TopupsUsed + SumOf(draws, TopupIDs)
<1> DEFINE S == DOMAIN topups
           f == [u \in S |-> topups[u].used]
           h == [u \in S |-> topups'[u].used]
<1>1. topups' = [u \in DOMAIN topups |-> [topups[u] EXCEPT !.used = @ + draws[u]]]
  BY DEF SettleCommit
<1>2. \A u \in S : /\ topups[u] \in Topup /\ f[u] \in Nat /\ draws[u] \in Nat /\ u \in TopupIDs
                   /\ h[u] = f[u] + draws[u]
  BY <1>1 DEF IInv, TypeOK, Topup
<1>3. DOMAIN topups' = S /\ TopupsUsed' = SumOf(h, S) /\ TopupsUsed = SumOf(f, S)
  BY <1>1 DEF TopupsUsed
<1>4. IsFiniteSet(S)
  BY UsedType
<1>5. SumOf(draws, S) = SumOf(draws, TopupIDs)
  <2>1. S \in SUBSET TopupIDs /\ \A u \in TopupIDs \ S : draws[u] = 0
    BY DEF IInv, TypeOK, DrawsInv
  <2> HIDE DEF S
  <2> QED
    BY <2>1, SumSupport
<1> HIDE DEF f, h, S
<1>6. SumOf(h, S) = SumOf(f, S) + SumOf(draws, S)
  BY <1>2, <1>4, SumPlus
<1> QED
  BY <1>3, <1>5, <1>6

LEMMA Difference == \A a, b \in Int : b = a + (b - a)
OBVIOUS

(* A row enters request_logs.                                              *)
LEMMA RowIsCharged ==
  ASSUME NEW id, id \notin DOMAIN requestLogs, NEW row,
         requestLogs' = WithRow(requestLogs, id, row),
         PaidForRows' - PaidForRows >= 0, PaidForRows' - PaidForRows <= row.cost,
         PaidForRows \in Int, PaidForRows' \in Int
  PROVE  Ledger!Next
<1>1. /\ DOMAIN CostOfRows = DOMAIN requestLogs /\ DOMAIN CostOfRows' = DOMAIN requestLogs \cup {id}
      /\ CostOfRows' = [i \in DOMAIN CostOfRows \cup {id} |-> IF i = id THEN row.cost ELSE CostOfRows[i]]
  BY DEF CostOfRows, Cost, WithRow
<1>2. id \in DOMAIN CostOfRows' \ DOMAIN CostOfRows /\ CostOfRows'[id] = row.cost
  BY <1>1
<1> DEFINE paid == PaidForRows' - PaidForRows
<1>3. paid >= 0 /\ Ledger!Charge(id, CostOfRows'[id], paid)
  <2>1. paid >= 0 /\ paid <= row.cost /\ PaidForRows' = PaidForRows + paid
    BY Difference
  <2> HIDE DEF paid
  <2>2. id \notin DOMAIN CostOfRows
    BY <1>2
  <2>3. CostOfRows' = [i \in DOMAIN CostOfRows \cup {id} |-> IF i = id THEN CostOfRows'[id] ELSE CostOfRows[i]]
    BY Zenon, <1>1, <1>2
  <2> QED
    BY <1>2, <2>1, <2>2, <2>3 DEF Ledger!Charge
<1> QED
  BY <1>2, <1>3 DEF Ledger!Next

(* No row enters.                                                          *)
LEMMA RowsAreForgotten ==
  ASSUME DOMAIN requestLogs' \subseteq DOMAIN requestLogs,
         \A i \in DOMAIN requestLogs' : requestLogs'[i] = requestLogs[i],
         PaidForRows' = PaidForRows
  PROVE  Ledger!Next
BY DEF Ledger!Next, Ledger!Forget, CostOfRows, Cost

(* The user pays at most once for each request on record, at most its cost,*)
(* and in the step that records it; but for what is stray.                 *)
THEOREM SettlementImplementsLedger == Spec => ImplementsChargeLedger
<1>1. Init => Ledger!Init
  <2> SUFFICES ASSUME Init PROVE CostOfRows = <<>> /\ PaidForRows = 0
    BY DEF Ledger!Init
  <2>1. CostOfRows = <<>>
    BY DEF Init, CostOfRows, Cost
  <2>2. TopupsUsed = 0 /\ stray = 0
    BY SumZero DEF Init, TopupsUsed
  <2> QED
    BY <2>1, <2>2 DEF PaidForRows
<1> DEFINE Sums == TopupsUsed \in Nat /\ stray \in Nat
<1>0. IInv => Sums
  BY UsedType DEF IInv, TypeOK
<1>2. ASSUME IInv, Sums, Sums', RowStillMissing, Next PROVE Ledger!Next
  <2>0. /\ TopupsUsed \in Nat /\ TopupsUsed' \in Nat /\ stray \in Nat /\ stray' \in Nat
        /\ PaidForRows \in Int /\ PaidForRows' \in Int
    BY <1>2 DEF PaidForRows
  <2>1. CASE \E c \in Callers : SettleCommit(c)
    <3>1. PICK c \in Callers : SettleCommit(c)
      BY <2>1
    <3> DEFINE row == [cost |-> SettledCost(calls[c]), ok |-> calls[c].ok, created |-> calls[c].created]
               drawn == SumOf(draws, TopupIDs)
               id == calls[c].id
    <3>2. holder = c /\ work.stage = "insert"
      BY <3>1 DEF SettleCommit
    <3>3. id \notin DOMAIN requestLogs \ overtook
      BY <1>2, <3>2 DEF RowStillMissing
    <3>4. TopupsUsed' = TopupsUsed + drawn
      BY <1>2, <3>1, CollectedByCommit
    <3>5. drawn \in Nat
      BY <1>2, SumType, SettlementAssumption DEF IInv, TypeOK
    <3>6. stray' = IF id \in overtook THEN stray + drawn ELSE stray
      BY <3>1 DEF SettleCommit
    <3>7. CASE id \in overtook
      <4>1. id \in DOMAIN requestLogs
        BY <1>2, <3>7 DEF IInv, TypeOK
      <4>2. requestLogs' = requestLogs
        BY <3>1, <4>1 DEF SettleCommit
      <4> HIDE DEF drawn, id
      <4>3. PaidForRows' = PaidForRows
        BY <2>0, <3>4, <3>5, <3>6, <3>7 DEF PaidForRows
      <4> QED
        BY <4>2, <4>3, RowsAreForgotten
    <3>8. CASE id \notin overtook
      <4>1. id \notin DOMAIN requestLogs
        BY <3>3, <3>8
      <4>2. requestLogs' = WithRow(requestLogs, id, row)
        BY <3>1, <4>1 DEF SettleCommit
      <4>3. drawn <= row.cost
        <5>1. calls[c] \in Call /\ work.charge <= SettledCost(calls[c])
          BY <1>2, <3>2, SettlementAssumption DEF IInv, HolderInv, ChargeInv
        <5> QED
          BY <1>2, <3>5, <5>1, SettledCostType DEF IInv, ChargeInv, TypeOK
      <4>4. row.cost \in Nat
        BY <1>2, <3>2, SettlementAssumption, SettledCostType DEF IInv, HolderInv
      <4> HIDE DEF row, drawn, id
      <4>5. PaidForRows' - PaidForRows >= 0 /\ PaidForRows' - PaidForRows <= row.cost
        BY <2>0, <3>4, <3>5, <3>6, <3>8, <4>3, <4>4 DEF PaidForRows
      <4> QED
        BY <2>0, <4>1, <4>2, <4>5, RowIsCharged
    <3> QED
      BY <3>7, <3>8
  <2>2. CASE ~\E c \in Callers : SettleCommit(c)
    <3>1. PaidForRows' = PaidForRows
      <4>1. TopupsUsed' = TopupsUsed
        BY <1>2, <2>2, OnlyCommitPays, CollectedKept
      <4>2. stray' = stray
        BY <1>2, <2>2 DEF Next, Settle, SettleLock, SettleAlreadyLogged, SettleNotLogged,
              SettleReadUser, SettleReadWindows, SettleChargeWindow, SettleSelectTopups,
              SettleDeduct, DrawOn, Abort, Begin, SettleBegin, InsertRequestLog, Admin, UpdateUser,
              UpdatePlan, ResetUsage, CreateUserTopup, DeleteUserTopup, SetUserTopupExpiry,
              PruneOldRequestLogs, Tick, tables
      <4> QED
        BY <4>1, <4>2 DEF PaidForRows
    <3>2. ASSUME NEW id \in InsertIDs, NEW cost \in InsertCosts, NEW ok \in BOOLEAN,
                 InsertRequestLog(id, cost, ok)
          PROVE  Ledger!Next
      <4> DEFINE row == [cost |-> cost, ok |-> ok, created |-> now]
      <4>1. id \notin DOMAIN requestLogs /\ requestLogs' = WithRow(requestLogs, id, row)
        BY <3>2 DEF InsertRequestLog
      <4>2. row.cost \in Nat
        BY SettlementAssumption
      <4> HIDE DEF row
      <4>3. PaidForRows' - PaidForRows >= 0 /\ PaidForRows' - PaidForRows <= row.cost
        BY <2>0, <3>1, <4>2
      <4> QED
        BY <2>0, <4>1, <4>3, RowIsCharged
    <3>3. CASE PruneOldRequestLogs
      BY <3>1, <3>3, RowsAreForgotten DEF PruneOldRequestLogs, Restrict
    <3>4. CASE requestLogs' = requestLogs
      BY <3>1, <3>4, RowsAreForgotten
    <3>5. \/ \E id \in InsertIDs, cost \in InsertCosts, ok \in BOOLEAN : InsertRequestLog(id, cost, ok)
          \/ PruneOldRequestLogs \/ requestLogs' = requestLogs
      BY <1>2, <2>2 DEF Next, Settle, SettleLock, SettleAlreadyLogged, SettleNotLogged,
              SettleReadUser, SettleReadWindows, SettleChargeWindow, SettleSelectTopups,
              SettleDeduct, DrawOn, Abort, Begin, SettleBegin, Admin, UpdateUser, UpdatePlan,
              ResetUsage, CreateUserTopup, DeleteUserTopup, SetUserTopupExpiry, Tick, tables
    <3> QED
      BY <3>2, <3>3, <3>4, <3>5
  <2> QED
    BY <2>1, <2>2
<1>3. UNCHANGED vars => UNCHANGED <<CostOfRows, PaidForRows>>
  BY DEF vars, CostOfRows, PaidForRows, TopupsUsed
<1>4. IInv /\ Sums /\ Sums' /\ RowStillMissing /\ [Next]_vars => [Ledger!Next]_<<CostOfRows, PaidForRows>>
  BY <1>2, <1>3
<1> HIDE DEF Sums
<1> QED
  BY <1>0, <1>1, <1>4, RowStillMissingInvariant, SettlementInvariant, PTL
     DEF Spec, ImplementsChargeLedger, Ledger!Spec, Ledger!ledgerVars

-----------------------------------------------------------------------------
(* All overage is charged. *)

Limits == ValidWindows(windows[account.plan])
Floor(w) == WindowFloor(account, w, now)
Counted(w) == SuccessfulSince(requestLogs, Floor(w))
CostOf(S) == SumOf(Cost(requestLogs), S)
AssessedOf(S) == SumOf(assessed, S)

(* The rows a period of w counts and a settlement measured.                *)
Measured(w) == {i \in Counted(w) : against[i] # {}}
AllWindows == UNION WindowSets

(* OverageAssessed for every window, in force or not, and every part of    *)
(* the rows of a period that were measured for it: rows may be pruned, a   *)
(* reset may leave the older ones out, and plans and limits change.        *)
RowsAssessed ==
  \A w \in AllWindows : \A S \in SUBSET MeasuredFor(w, Counted(w)) :
    Overage(CostOf(S), w.budget) <= AssessedOf(S)

(* The running settlement.  If its request lies in the current period of a *)
(* window, the spending it counts begins no later than that period, ...    *)
InPeriod(w) == calls[holder].created >= Floor(w)
FloorRead ==
  work.stage \in {"windows", "charge"} =>
    \A w \in AllWindows : InPeriod(w) =>
      WindowFloor(work.account, w, calls[holder].created) <= Floor(w)

(* ... and for each window it is done with its charge is the rise of every *)
(* part of that spending, at least.                                        *)
Rises(w, S) == MarginalOverage(w, CostOf(S), SettledCost(calls[holder]))
RiseRead ==
  work.stage \in {"charge", "topups", "deduct", "insert"} =>
    \A w \in work.read \ work.limits : InPeriod(w) =>
      \A S \in SUBSET Measured(w) : Rises(w, S) <= work.charge

(* The instants on record have passed.                                     *)
Past ==
  /\ account.assigned <= now
  /\ account.reset # NoTime => account.reset <= now
  /\ \A c \in Callers : calls[c] # Idle => calls[c].created <= now

AssessedInv ==
  /\ Past
  /\ work.stage # "charge" => work.limits = {}
  /\ work.stage \in {"none", "exists", "user", "windows"} => work.read = {}
  /\ RowsAssessed /\ FloorRead /\ RiseRead

(* The spending that counts at an instant: the floor rises with time and   *)
(* lies between the assignment of the plan (or the reset) and the instant. *)
LEMMA Floors ==
  ASSUME NEW acc \in Account, NEW w, w.duration \in Nat, NEW t \in Nat, NEW u \in Nat, t <= u
  PROVE  /\ WindowFloor(acc, w, t) \in Nat
         /\ WindowFloor(acc, w, t) <= WindowFloor(acc, w, u)
         /\ acc.assigned <= WindowFloor(acc, w, t)
         /\ acc.reset # NoTime => acc.reset <= WindowFloor(acc, w, t)
         /\ acc.assigned <= t /\ (acc.reset # NoTime => acc.reset <= t) => WindowFloor(acc, w, t) <= t
<1> DEFINE s == WindowPeriodStart(acc.assigned, w.duration, t)
           r == WindowPeriodStart(acc.assigned, w.duration, u)
<1>1. acc.assigned \in Nat /\ acc.reset \in Nat \cup {NoTime}
  BY DEF Account
<1>2. /\ s \in Nat /\ r \in Nat /\ s <= r /\ acc.assigned <= s
      /\ acc.assigned <= t => s <= t
  BY <1>1, PeriodStarts
<1>3. WindowFloor(acc, w, t) = EffectiveFloor(s, acc.reset) /\ WindowFloor(acc, w, u) = EffectiveFloor(r, acc.reset)
  BY DEF WindowFloor
<1> HIDE DEF s, r
<1>4. CASE acc.reset = NoTime
  BY <1>1, <1>2, <1>3, <1>4 DEF EffectiveFloor
<1>5. CASE acc.reset # NoTime
  BY <1>1, <1>2, <1>3, <1>5 DEF EffectiveFloor
<1> QED
  BY <1>4, <1>5

LEMMA LimitsType ==
  ASSUME IInv, NEW w \in Limits
  PROVE  w.duration \in Nat /\ w.budget \in Nat /\ account \in Account /\ now \in Nat
<1>1. windows[account.plan] \in WindowSets
  BY DEF IInv, TypeOK, Account
<1> QED
  BY <1>1, SettlementAssumption DEF Limits, ValidWindows, IInv, TypeOK

LEMMA WindowType ==
  ASSUME NEW w \in AllWindows
  PROVE  w.duration \in Nat /\ w.budget \in Nat
BY SettlementAssumption DEF AllWindows

(* Parts of the counted rows, and what they sum up to.                     *)
LEMMA CountedType ==
  ASSUME IInv, NEW floor, NEW S \in SUBSET SuccessfulSince(requestLogs, floor)
  PROVE  /\ IsFiniteSet(S) /\ S \subseteq DOMAIN requestLogs
         /\ \A i \in S : Cost(requestLogs)[i] \in Nat /\ assessed[i] \in Nat
         /\ CostOf(S) \in Nat /\ AssessedOf(S) \in Nat
<1>1. S \subseteq DOMAIN requestLogs
  BY DEF SuccessfulSince
<1>2. IsFiniteSet(S)
  BY <1>1, SettlementAssumption, FS_Subset, FS_Union DEF IInv, TypeOK, LogIDs
<1>3. \A i \in S : Cost(requestLogs)[i] \in Nat /\ assessed[i] \in Nat
  BY <1>1 DEF Cost, IInv, TypeOK, Row
<1>4. CostOf(S) \in Nat /\ AssessedOf(S) \in Nat
  BY <1>2, <1>3, SumType DEF CostOf, AssessedOf
<1> QED
  BY <1>1, <1>2, <1>3, <1>4

(* The overage that a charge adds grows with what is spent already.        *)
LEMMA RiseGrows ==
  ASSUME NEW w, w.budget \in Nat, NEW s \in Nat, NEW t \in Nat, s <= t, NEW c \in Nat
  PROVE  MarginalOverage(w, s, c) <= MarginalOverage(w, t, c)
BY DEF MarginalOverage, Overage, Positive

(* The rise over a lower limit is no smaller.                              *)
LEMMA StricterRisesMore ==
  ASSUME NEW v, NEW w, v.budget \in Nat, w.budget \in Nat, v.budget <= w.budget,
         NEW s \in Nat, NEW c \in Nat
  PROVE  MarginalOverage(w, s, c) <= MarginalOverage(v, s, c)
BY DEF MarginalOverage, Overage, Positive

(* A step that adds only rows no settlement measured, while no period      *)
(* begins earlier: the measured rows of a period counted before.           *)
Kept(i) ==
  /\ i \in DOMAIN requestLogs /\ requestLogs'[i] = requestLogs[i] /\ assessed'[i] = assessed[i]
  /\ against'[i] = against[i]

LEMMA OldRowsSuffice ==
  ASSUME IInv, IInv', NEW w, Floor(w) \in Nat, Floor(w)' \in Nat, Floor(w) <= Floor(w)',
         \A i \in DOMAIN requestLogs' : Kept(i) \/ against'[i] = {},
         NEW S \in SUBSET Counted(w)', \A i \in S : against'[i] # {}
  PROVE  /\ S \in SUBSET Counted(w) /\ \A i \in S : against'[i] = against[i]
         /\ CostOf(S)' = CostOf(S) /\ AssessedOf(S)' = AssessedOf(S)
<1>1. \A i \in S : /\ i \in DOMAIN requestLogs' /\ Kept(i)
                   /\ requestLogs'[i].ok /\ requestLogs'[i].created >= Floor(w)'
  BY DEF Counted, SuccessfulSince
<1>2. \A i \in S : requestLogs[i].created \in Nat
  BY <1>1 DEF Kept, IInv, TypeOK, Row
<1>3. S \in SUBSET Counted(w)
  BY <1>1, <1>2 DEF Kept, Counted, SuccessfulSince
<1> DEFINE F == Cost(requestLogs)
           G == Cost(requestLogs)'
           B == assessed'
<1>4. \A i \in S : F[i] = G[i] /\ assessed[i] = B[i]
  BY <1>1 DEF Kept, Cost
<1>5. CostOf(S) = SumOf(F, S) /\ CostOf(S)' = SumOf(G, S) /\ AssessedOf(S)' = SumOf(B, S)
  BY DEF CostOf, AssessedOf
<1> HIDE DEF F, G, B
<1>6. SumOf(F, S) = SumOf(G, S) /\ SumOf(assessed, S) = SumOf(B, S)
  BY <1>4, SumAgree
<1> QED
  BY <1>1, <1>3, <1>5, <1>6 DEF Kept, AssessedOf

(* No step moves the start of a period back.                               *)
LEMMA FloorsRise ==
  ASSUME IInv, IInv', Past,
         \/ account' = account /\ now' >= now
         \/ account'.assigned = now /\ account'.reset = NoTime /\ now' = now
         \/ account'.assigned = account.assigned /\ account'.reset = now /\ now' = now,
         NEW w \in AllWindows
  PROVE  Floor(w) \in Nat /\ Floor(w)' \in Nat /\ Floor(w) <= Floor(w)'
<1>1. w.duration \in Nat /\ account \in Account /\ account' \in Account /\ now \in Nat /\ now' \in Nat
  BY WindowType DEF IInv, TypeOK
<1>2. Floor(w) = WindowFloor(account, w, now) /\ Floor(w)' = WindowFloor(account', w, now')
  BY DEF Floor
<1>3. WindowFloor(account, w, now) \in Nat /\ WindowFloor(account, w, now) <= now
  BY <1>1, Floors DEF Past
<1>4. WindowFloor(account', w, now') \in Nat
  BY <1>1, Floors
<1>5. WindowFloor(account, w, now) <= WindowFloor(account', w, now')
  <2>1. CASE account' = account /\ now' >= now
    BY <1>1, <2>1, Floors
  <2>2. CASE account'.assigned = now /\ account'.reset = NoTime /\ now' = now
    <3>1. now <= WindowFloor(account', w, now')
      BY <1>1, <2>2, Floors
    <3> QED
      BY <1>1, <1>3, <1>4, <3>1
  <2>3. CASE account'.assigned = account.assigned /\ account'.reset = now /\ now' = now
    <3>1. now <= WindowFloor(account', w, now')
      BY <1>1, <2>3, Floors, NoTimeIsNull
    <3> QED
      BY <1>1, <1>3, <1>4, <3>1
  <2> QED
    BY <2>1, <2>2, <2>3
<1> QED
  BY <1>2, <1>3, <1>4, <1>5

(* A running settlement is one of a call, with amounts and instants.       *)
LEMMA RunType ==
  ASSUME IInv, work.stage # "none"
  PROVE  /\ holder \in Callers /\ calls[holder] # Idle /\ calls[holder] \in Call
         /\ calls[holder].created \in Nat /\ SettledCost(calls[holder]) \in Nat
         /\ work.account \in Account /\ work.charge \in Nat
<1>1. holder # Nobody
  BY DEF IInv, HolderInv, NoWork
<1>2. holder \in Callers /\ calls[holder] # Idle /\ calls[holder] \in Call
  BY <1>1 DEF IInv, HolderInv, TypeOK
<1> QED
  BY <1>2, SettledCostType DEF IInv, TypeOK, Call

(* What the other writers of the tables do to a running settlement.        *)
LEMMA OthersKeepAssessed ==
  ASSUME IInv, IInv', AssessedInv,
         holder' = holder, work' = work, holder # Nobody => calls'[holder] = calls[holder],
         \A c \in Callers : calls'[c] # Idle => calls'[c].created <= now',
         \/ account' = account /\ now' >= now
         \/ account'.assigned = now /\ account'.reset = NoTime /\ now' = now
         \/ account'.assigned = account.assigned /\ account'.reset = now /\ now' = now,
         \A i \in DOMAIN requestLogs' : Kept(i) \/ against'[i] = {}
  PROVE  AssessedInv'
<1>1. \A w \in AllWindows : Floor(w) \in Nat /\ Floor(w)' \in Nat /\ Floor(w) <= Floor(w)'
  BY FloorsRise DEF AssessedInv
<1>2. Past'
  <2>1. /\ account \in Account /\ now \in Nat /\ now' \in Nat
        /\ account.assigned <= now /\ (account.reset # NoTime => account.reset <= now)
    BY DEF IInv, TypeOK, AssessedInv, Past
  <2>2. account'.assigned <= now' /\ (account'.reset # NoTime => account'.reset <= now')
    BY <2>1 DEF Account
  <2> QED
    BY <2>2 DEF Past
<1>3. RowsAssessed'
  <2> SUFFICES ASSUME NEW w \in AllWindows, NEW S \in SUBSET MeasuredFor(w, Counted(w))'
               PROVE  Overage(CostOf(S)', w.budget) <= AssessedOf(S)'
    BY DEF RowsAssessed, AllWindows
  <2>1. S \in SUBSET Counted(w)' /\ \A i \in S : against'[i] # {} /\ AsStrict(against'[i], w)
    BY DEF MeasuredFor, AsStrict
  <2>2. /\ S \in SUBSET Counted(w) /\ \A i \in S : against'[i] = against[i]
        /\ CostOf(S)' = CostOf(S) /\ AssessedOf(S)' = AssessedOf(S)
    BY <1>1, <2>1, OldRowsSuffice
  <2>3. S \in SUBSET MeasuredFor(w, Counted(w))
    BY <2>1, <2>2 DEF MeasuredFor
  <2> QED
    BY <2>2, <2>3 DEF AssessedInv, RowsAssessed
<1>4. FloorRead'
  <2> SUFFICES ASSUME work.stage \in {"windows", "charge"}, NEW w \in AllWindows,
                      calls'[holder'].created >= Floor(w)'
               PROVE  WindowFloor(work.account, w, calls'[holder'].created) <= Floor(w)'
    BY DEF FloorRead, InPeriod, AllWindows
  <2>1. /\ holder # Nobody /\ calls[holder] \in Call /\ calls[holder].created \in Nat
        /\ work.account \in Account
    BY RunType, SettlementAssumption
  <2>2. calls'[holder'] = calls[holder]
    BY <2>1
  <2>3. calls[holder].created >= Floor(w)
    BY <1>1, <2>1, <2>2
  <2>4. WindowFloor(work.account, w, calls[holder].created) <= Floor(w)
    BY <2>3 DEF AssessedInv, FloorRead, InPeriod
  <2>5. WindowFloor(work.account, w, calls[holder].created) \in Nat
    BY <2>1, Floors, WindowType
  <2> QED
    BY <1>1, <2>2, <2>4, <2>5
<1>5. RiseRead'
  <2> SUFFICES ASSUME work.stage \in {"charge", "topups", "deduct", "insert"},
                      NEW w \in work.read \ work.limits,
                      calls'[holder'].created >= Floor(w)',
                      NEW S \in SUBSET Measured(w)'
               PROVE  MarginalOverage(w, CostOf(S)', SettledCost(calls'[holder'])) <= work.charge
    BY DEF RiseRead, InPeriod, Rises
  <2>1. /\ holder # Nobody /\ calls[holder].created \in Nat /\ w \in AllWindows
    BY RunType, SettlementAssumption DEF IInv, TypeOK, AllWindows
  <2>2. calls'[holder'] = calls[holder]
    BY <2>1
  <2>3. InPeriod(w)
    BY <1>1, <2>1, <2>2 DEF InPeriod
  <2>4. S \in SUBSET Counted(w)' /\ \A i \in S : against'[i] # {}
    BY DEF Measured
  <2>5. S \in SUBSET Counted(w) /\ (\A i \in S : against'[i] = against[i]) /\ CostOf(S)' = CostOf(S)
    BY <1>1, <2>1, <2>4, OldRowsSuffice
  <2>6. S \in SUBSET Measured(w)
    BY <2>4, <2>5 DEF Measured
  <2>7. Rises(w, S) <= work.charge
    BY <2>3, <2>6 DEF AssessedInv, RiseRead
  <2> QED
    BY <2>2, <2>5, <2>7 DEF Rises
<1>6. /\ (work.stage # "charge" => work.limits = {})'
      /\ (work.stage \in {"none", "exists", "user", "windows"} => work.read = {})'
  BY DEF AssessedInv
<1> QED
  BY <1>2, <1>3, <1>4, <1>5, <1>6 DEF AssessedInv

(* The statements of the transaction, and its end: the tables stay.        *)
LEMMA RunKeepsAssessed ==
  ASSUME IInv, IInv', AssessedInv, UNCHANGED <<now, tables>>,
         \A c \in Callers : calls'[c] # Idle => calls'[c] = calls[c],
         work'.stage # "charge" => work'.limits = {},
         work'.stage \in {"none", "exists", "user", "windows"} => work'.read = {},
         FloorRead', RiseRead'
  PROVE  AssessedInv'
<1>1. now' = now /\ account' = account /\ requestLogs' = requestLogs /\ assessed' = assessed /\ against' = against
  BY DEF tables
<1>2. Past'
  BY <1>1 DEF AssessedInv, Past
<1>3. RowsAssessed'
  BY <1>1 DEF AssessedInv, RowsAssessed, MeasuredFor, Counted, CostOf, AssessedOf, Floor
<1> QED
  BY <1>2, <1>3 DEF AssessedInv

LEMMA ReadsKeepAssessed ==
  ASSUME IInv, IInv', AssessedInv, NEW c \in Callers,
         \/ SettleLock(c) \/ SettleAlreadyLogged(c) \/ SettleNotLogged(c)
         \/ SettleReadUser(c) \/ SettleReadWindows(c) \/ SettleSelectTopups(c)
         \/ \E u \in TopupIDs : SettleDeduct(c, u)
  PROVE  AssessedInv'
<1>0. /\ work.stage # "charge" => work.limits = {}
      /\ work.stage \in {"none", "exists", "user", "windows"} => work.read = {}
  BY DEF AssessedInv
<1>1. CASE SettleLock(c)
  <2>1. work' = [work EXCEPT !.stage = "exists"] /\ UNCHANGED <<now, tables, calls, draws>>
        /\ work.stage = "none"
    BY <1>1 DEF SettleLock, IInv, HolderInv, NoWork
  <2>2. work'.stage = "exists" /\ work'.limits = {} /\ work'.read = {}
    BY <1>0, <2>1 DEF IInv, TypeOK
  <2>3. FloorRead' /\ RiseRead'
    BY <2>2 DEF FloorRead, RiseRead
  <2> QED
    BY <2>1, <2>2, <2>3, RunKeepsAssessed
<1>2. CASE SettleAlreadyLogged(c)
  <2>1. work' = NoWork /\ calls' = [calls EXCEPT ![c] = Idle] /\ UNCHANGED <<now, tables>>
    BY <1>2 DEF SettleAlreadyLogged, EndTransaction
  <2>2. FloorRead' /\ RiseRead' /\ work'.limits = {} /\ work'.read = {}
    BY <2>1 DEF FloorRead, RiseRead, NoWork
  <2>3. \A k \in Callers : calls'[k] # Idle => calls'[k] = calls[k]
    BY <2>1 DEF IInv, TypeOK
  <2> QED
    BY <2>1, <2>2, <2>3, RunKeepsAssessed
<1>3. CASE SettleNotLogged(c)
  <2>1. /\ UNCHANGED <<now, tables, calls, holder, draws>> /\ work.stage = "exists" /\ holder = c
        /\ work'.stage = (IF SettledCost(calls[c]) > 0 THEN "user" ELSE "insert")
        /\ work'.limits = {} /\ work'.read = {}
    BY <1>0, <1>3 DEF SettleNotLogged, IInv, TypeOK
  <2>2. FloorRead'
    BY <2>1 DEF FloorRead
  <2>3. RiseRead'
    BY <2>1 DEF RiseRead
  <2> QED
    BY <2>1, <2>2, <2>3, RunKeepsAssessed
<1>4. CASE SettleReadUser(c)
  <2>1. /\ UNCHANGED <<now, tables, calls, holder, draws>> /\ work.stage = "user" /\ holder = c
        /\ work'.stage = "windows" /\ work'.account = account /\ work'.limits = {}
        /\ work'.read = {}
    BY <1>0, <1>4 DEF SettleReadUser, IInv, TypeOK
  <2>2. FloorRead'
    <3> SUFFICES ASSUME NEW w \in AllWindows
                 PROVE  WindowFloor(account, w, calls[c].created) <= Floor(w)
      BY <2>1 DEF FloorRead, AllWindows, Floor, tables
    <3>1. /\ calls[c].created \in Nat /\ calls[c].created <= now
          /\ account \in Account /\ now \in Nat
      BY <2>1, RunType DEF AssessedInv, Past, IInv, TypeOK
    <3> QED
      BY <3>1, Floors, WindowType DEF Floor
  <2>3. RiseRead'
    BY <2>1 DEF RiseRead
  <2> QED
    BY <2>1, <2>2, <2>3, RunKeepsAssessed
<1>5. CASE SettleReadWindows(c)
  <2>1. /\ UNCHANGED <<now, tables, calls, holder, draws>> /\ work.stage = "windows" /\ holder = c
        /\ work'.read = work'.limits /\ work'.account = work.account
        /\ work'.stage = (IF work'.limits = {} THEN "insert" ELSE "charge")
    BY <1>5 DEF SettleReadWindows, IInv, TypeOK
  <2>2. FloorRead'
    BY <2>1 DEF AssessedInv, FloorRead, InPeriod, AllWindows, Floor, tables
  <2>3. RiseRead'
    BY <2>1 DEF RiseRead
  <2> QED
    BY <2>1, <2>2, <2>3, RunKeepsAssessed
<1>6. CASE SettleSelectTopups(c) \/ \E u \in TopupIDs : SettleDeduct(c, u)
  <2>1. /\ UNCHANGED <<now, tables, calls, holder>> /\ work.stage \in {"topups", "deduct"}
        /\ work'.stage \in {"deduct", "insert"}
        /\ work'.limits = work.limits /\ work'.read = work.read /\ work'.charge = work.charge
    <3>1. CASE SettleSelectTopups(c)
      BY <3>1 DEF SettleSelectTopups, IInv, TypeOK
    <3>2. ASSUME NEW u \in TopupIDs, SettleDeduct(c, u)
          PROVE  /\ UNCHANGED <<now, tables, calls, holder>> /\ work.stage \in {"topups", "deduct"}
                 /\ work'.stage \in {"deduct", "insert"}
                 /\ work'.limits = work.limits /\ work'.read = work.read /\ work'.charge = work.charge
      BY <3>2 DEF SettleDeduct, DrawOn, NextToPay, IInv, TypeOK
    <3> QED
      BY <1>6, <3>1, <3>2
  <2>2. FloorRead'
    BY <2>1 DEF FloorRead
  <2>3. RiseRead'
    BY <2>1 DEF AssessedInv, RiseRead, InPeriod, Floor, Measured, Counted, Rises, CostOf, tables
  <2> QED
    BY <1>0, <2>1, <2>2, <2>3, RunKeepsAssessed
<1> QED
  BY <1>1, <1>2, <1>3, <1>4, <1>5, <1>6

(* One window more is counted.                                             *)
LEMMA ChargeKeepsAssessed ==
  ASSUME IInv, IInv', AssessedInv, NEW c \in Callers, NEW v \in work.limits,
         SettleChargeWindow(c, v)
  PROVE  AssessedInv'
<1> DEFINE cost == SettledCost(calls[c])
           floor == WindowFloor(work.account, v, calls[c].created)
           rise == MarginalOverage(v, SpentSince(requestLogs, floor), cost)
           charge == Max({work.charge, rise})
<1>1. /\ UNCHANGED <<now, tables, calls, holder, draws>> /\ work.stage = "charge" /\ holder = c
      /\ work'.charge = charge /\ work'.limits = work.limits \ {v} /\ work'.read = work.read
      /\ work'.account = work.account
      /\ work'.stage # "charge" => work'.limits = {}
      /\ work'.stage \notin {"none", "exists", "user", "windows"}
  BY DEF SettleChargeWindow, IInv, TypeOK
<1>2. cost \in Nat /\ calls[c].created \in Nat /\ work.charge \in Nat
  BY <1>1, RunType
<1>3. SpentSince(requestLogs, floor) \in Nat
  BY CountedType DEF SpentSince, CostOf
<1>4. v.budget \in Nat
  BY SettlementAssumption DEF IInv, TypeOK
<1>5. rise \in Nat
  BY <1>2, <1>3, <1>4, OverageRise
<1>6. work.charge <= charge /\ rise <= charge /\ charge \in Nat
  <2> HIDE DEF rise
  <2> QED
    BY <1>2, <1>5, MaxOfTwo
<1>7. FloorRead'
  BY <1>1 DEF AssessedInv, FloorRead, InPeriod, AllWindows, Floor, tables
<1>8. RiseRead'
  <2>a. /\ \A w : (InPeriod(w)' <=> InPeriod(w)) /\ Measured(w)' = Measured(w)
        /\ \A w, S : Rises(w, S)' = MarginalOverage(w, CostOf(S), cost)
    BY <1>1 DEF InPeriod, Floor, Measured, Counted, Rises, CostOf, tables
  <2> SUFFICES ASSUME NEW w \in work.read \ work'.limits, InPeriod(w), NEW S \in SUBSET Measured(w)
               PROVE  MarginalOverage(w, CostOf(S), cost) <= charge
    <3> HIDE DEF charge, cost
    <3> QED
      BY <1>1, <2>a DEF RiseRead
  <2>0. w \in AllWindows /\ S \in SUBSET Counted(w)
    BY DEF IInv, TypeOK, AllWindows, Measured
  <2>1. w.budget \in Nat /\ CostOf(S) \in Nat
    BY <2>0, WindowType, CountedType DEF Counted
  <2>2. MarginalOverage(w, CostOf(S), cost) \in Nat
    BY <1>2, <2>1, OverageRise
  <2>3. CASE w # v
    <3>1. Rises(w, S) <= work.charge
      BY <1>1, <2>3 DEF AssessedInv, RiseRead
    <3> QED
      BY <1>1, <1>2, <1>6, <2>2, <3>1 DEF Rises
  <2>4. CASE w = v
    <3>1. floor <= Floor(v)
      BY <1>1, <2>0, <2>4 DEF AssessedInv, FloorRead
    <3>2. floor \in Nat /\ Floor(v) \in Nat
      BY <1>1, <1>2, <2>0, <2>4, RunType, WindowType, Floors DEF Floor, IInv, TypeOK
    <3> HIDE DEF floor
    <3>3. Counted(v) \subseteq SuccessfulSince(requestLogs, floor)
      <4> SUFFICES ASSUME NEW i \in Counted(v) PROVE i \in SuccessfulSince(requestLogs, floor)
        OBVIOUS
      <4>1. i \in DOMAIN requestLogs /\ requestLogs[i].ok /\ requestLogs[i].created >= Floor(v)
        BY DEF Counted, SuccessfulSince
      <4>2. requestLogs[i].created \in Nat
        BY <4>1 DEF IInv, TypeOK, Row
      <4> QED
        BY <3>1, <3>2, <4>1, <4>2 DEF SuccessfulSince
    <3> DEFINE all == SuccessfulSince(requestLogs, floor)
    <3>4. IsFiniteSet(all) /\ \A i \in all : Cost(requestLogs)[i] \in Nat
      BY CountedType
    <3>5. S \subseteq all
      BY <2>0, <2>4, <3>3
    <3>6. CostOf(S) <= SpentSince(requestLogs, floor)
      <4> HIDE DEF all
      <4>1. SumOf(Cost(requestLogs), S) <= SumOf(Cost(requestLogs), all)
        BY <3>4, <3>5, SumMono
      <4> QED
        BY <4>1 DEF all, CostOf, SpentSince
    <3>7. MarginalOverage(v, CostOf(S), cost) <= rise
      BY <1>2, <1>3, <1>4, <2>1, <3>6, RiseGrows DEF floor
    <3> HIDE DEF rise, charge, cost
    <3> QED
      BY <1>5, <1>6, <2>2, <2>4, <3>7
  <2> QED
    BY <2>3, <2>4
<1> QED
  BY <1>1, <1>7, <1>8, RunKeepsAssessed

(* The commit: what its row adds to an overage is what was assessed.       *)
LEMMA CommitKeepsAssessed ==
  ASSUME IInv, IInv', AssessedInv, NEW c \in Callers, SettleCommit(c)
  PROVE  AssessedInv'
<1> DEFINE id == calls[c].id
           row == [cost |-> SettledCost(calls[c]), ok |-> calls[c].ok, created |-> calls[c].created]
<1>1. /\ work' = NoWork /\ holder = c /\ work.stage = "insert"
      /\ calls' = [calls EXCEPT ![c] = Idle] /\ UNCHANGED <<now, account, windows>>
  BY DEF SettleCommit, EndTransaction
<1>2. FloorRead' /\ RiseRead' /\ work'.limits = {} /\ work'.read = {} /\ work.limits = {}
  BY <1>1 DEF FloorRead, RiseRead, NoWork, AssessedInv
<1>3. Past'
  BY <1>1 DEF AssessedInv, Past, IInv, TypeOK
<1>4. \A w : Floor(w)' = Floor(w)
  BY <1>1 DEF Floor
<1>5. \/ UNCHANGED <<requestLogs, assessed, against>>
      \/ /\ id \notin DOMAIN requestLogs
         /\ requestLogs' = WithRow(requestLogs, id, row)
         /\ assessed' = WithRow(assessed, id, work.charge)
         /\ against' = WithRow(against, id, work.read)
  BY DEF SettleCommit
<1>6. RowsAssessed'
  <2>1. CASE UNCHANGED <<requestLogs, assessed, against>>
    BY <1>4, <2>1 DEF AssessedInv, RowsAssessed, MeasuredFor, Counted, CostOf, AssessedOf
  <2>2. CASE /\ id \notin DOMAIN requestLogs
             /\ requestLogs' = WithRow(requestLogs, id, row)
             /\ assessed' = WithRow(assessed, id, work.charge)
             /\ against' = WithRow(against, id, work.read)
    <3> SUFFICES ASSUME NEW w \in AllWindows, NEW S \in SUBSET MeasuredFor(w, Counted(w))'
                 PROVE  Overage(CostOf(S)', w.budget) <= AssessedOf(S)'
      BY DEF RowsAssessed, AllWindows
    <3> DEFINE T == S \ {id}
               G == Cost(requestLogs)'
    <3>1. /\ \A i \in DOMAIN requestLogs : requestLogs'[i] = requestLogs[i] /\ assessed'[i] = assessed[i]
          /\ DOMAIN requestLogs' = DOMAIN requestLogs \cup {id}
          /\ \A i \in DOMAIN requestLogs : against'[i] = against[i]
          /\ requestLogs'[id] = row /\ assessed'[id] = work.charge /\ against'[id] = work.read
      BY <2>2 DEF WithRow, IInv, TypeOK
    <3>2. /\ S \subseteq DOMAIN requestLogs'
          /\ \A i \in S : requestLogs'[i].ok /\ requestLogs'[i].created >= Floor(w)
          /\ \A i \in S : AsStrict(against'[i], w)
      BY <1>4 DEF MeasuredFor, AsStrict, Counted, SuccessfulSince
    <3>3. T \in SUBSET MeasuredFor(w, Counted(w))
      <4> SUFFICES ASSUME NEW i \in T PROVE i \in MeasuredFor(w, Counted(w))
        OBVIOUS
      <4>1. i \in DOMAIN requestLogs /\ requestLogs[i] = requestLogs'[i] /\ against[i] = against'[i]
        BY <3>1, <3>2
      <4> QED
        BY <3>2, <4>1 DEF MeasuredFor, Counted, SuccessfulSince
    <3>4. /\ IsFiniteSet(T) /\ T \subseteq DOMAIN requestLogs
          /\ \A i \in T : Cost(requestLogs)[i] \in Nat /\ assessed[i] \in Nat
          /\ CostOf(T) \in Nat /\ AssessedOf(T) \in Nat
      BY <3>3, CountedType DEF MeasuredFor, Counted
    <3>5. \A i \in T : G[i] = Cost(requestLogs)[i] /\ assessed'[i] = assessed[i]
      BY <3>1, <3>4 DEF Cost
    <3>6. Overage(CostOf(T), w.budget) <= AssessedOf(T) /\ w.budget \in Nat
      BY <3>3, WindowType DEF AssessedInv, RowsAssessed
    <3>7. CostOf(S)' = SumOf(G, S) /\ AssessedOf(S)' = SumOf(assessed', S)
      BY DEF CostOf, AssessedOf
    <3>8. SumOf(G, T) = CostOf(T) /\ SumOf(assessed', T) = AssessedOf(T)
      <4> HIDE DEF T, G
      <4> QED
        BY <3>5, SumAgree DEF CostOf, AssessedOf
    <3>9. CASE id \notin S
      <4>1. T = S
        BY <3>9
      <4> HIDE DEF T, G
      <4> QED
        BY <3>6, <3>7, <3>8, <4>1
    <3>10. CASE id \in S
      <4> DEFINE cost == SettledCost(calls[c])
      <4>1. cost \in Nat /\ work.charge \in Nat
        BY <1>1, RunType
      <4>2. G[id] = cost /\ assessed'[id] = work.charge
        BY <3>1 DEF Cost
      <4>3. S = T \cup {id} /\ id \notin T
        BY <3>10
      <4>4. \A i \in T \cup {id} : G[i] \in Nat /\ assessed'[i] \in Nat
        BY <3>4, <3>5, <4>1, <4>2
      <4>5. PICK v \in work.read : v.duration = w.duration /\ v.budget <= w.budget
        BY <3>1, <3>2, <3>10 DEF AsStrict
      <4>6. MarginalOverage(w, CostOf(T), cost) <= work.charge
        <5>1. v.budget \in Nat
          BY WindowType DEF IInv, TypeOK, AllWindows
        <5>2. Floor(v) = Floor(w) /\ Counted(v) = Counted(w)
          BY <4>5 DEF Floor, WindowFloor, Counted
        <5>3. requestLogs'[id].created >= Floor(v)
          BY <3>2, <3>10, <5>2
        <5>4. InPeriod(v)
          BY <1>1, <3>1, <5>3 DEF InPeriod
        <5>5. T \in SUBSET Measured(v)
          BY <3>3, <5>2 DEF MeasuredFor, Measured, AsStrict
        <5>6. MarginalOverage(v, CostOf(T), cost) <= work.charge
          BY <1>1, <1>2, <5>4, <5>5 DEF AssessedInv, RiseRead, Rises
        <5>7. MarginalOverage(w, CostOf(T), cost) <= MarginalOverage(v, CostOf(T), cost)
          BY <3>4, <3>6, <4>1, <4>5, <5>1, StricterRisesMore
        <5>8. /\ MarginalOverage(v, CostOf(T), cost) \in Nat
              /\ MarginalOverage(w, CostOf(T), cost) \in Nat
          BY <3>4, <3>6, <4>1, <5>1, OverageRise
        <5> QED
          BY <4>1, <5>6, <5>7, <5>8
      <4> HIDE DEF T, G, cost, row
      <4>7. SumOf(G, S) = CostOf(T) + cost /\ SumOf(assessed', S) = AssessedOf(T) + work.charge
        <5>1. IsFiniteSet(T) /\ id \notin T /\ \A i \in T \cup {id} : G[i] \in Nat /\ assessed'[i] \in Nat
          BY <3>4, <4>3, <4>4
        <5>2. SumOf(G, T \cup {id}) = SumOf(G, T) + G[id]
          BY <5>1, SumAdd
        <5> DEFINE B == assessed'
        <5>3. \A i \in T \cup {id} : B[i] \in Nat
          BY <5>1
        <5> HIDE DEF B
        <5>4. SumOf(B, T \cup {id}) = SumOf(B, T) + B[id]
          BY <5>1, <5>3, SumAdd
        <5> QED
          BY <3>8, <4>2, <4>3, <5>2, <5>4 DEF B
      <4>8. MarginalOverage(w, CostOf(T), cost) = Overage(CostOf(T) + cost, w.budget) - Overage(CostOf(T), w.budget)
        BY DEF MarginalOverage
      <4>9. Overage(CostOf(T) + cost, w.budget) \in Nat /\ Overage(CostOf(T), w.budget) \in Nat
        BY <3>4, <3>6, <4>1 DEF Overage, Positive
      <4>10. Overage(CostOf(T) + cost, w.budget) <= AssessedOf(T) + work.charge
        BY <3>4, <3>6, <4>1, <4>6, <4>8, <4>9
      <4> QED
        BY <3>7, <4>7, <4>10
    <3> QED
      BY <3>9, <3>10
  <2> QED
    BY <1>5, <2>1, <2>2
<1> QED
  BY <1>1, <1>2, <1>3, <1>6 DEF AssessedInv

(* The other writers, new calls, aborts and the clock.                     *)
LEMMA AdminKeepsAssessed ==
  ASSUME IInv, IInv', AssessedInv,
         \/ Begin
         \/ \E c \in Callers : Abort(c)
         \/ \E id \in InsertIDs, cost \in InsertCosts, ok \in BOOLEAN : InsertRequestLog(id, cost, ok)
         \/ Admin \/ Tick
  PROVE  AssessedInv'
<1>1. \A c \in Callers : calls[c] # Idle => calls[c].created <= now /\ calls[c] \in Call
  BY DEF AssessedInv, Past, IInv, TypeOK
<1>2. now \in Nat /\ holder \in Callers \cup {Nobody} /\ calls \in [Callers -> Call \cup {Idle}]
  BY DEF IInv, TypeOK
<1>3. ASSUME requestLogs' = requestLogs, assessed' = assessed, against' = against
      PROVE  \A i \in DOMAIN requestLogs' : Kept(i)
  BY <1>3 DEF Kept
<1>4. CASE Begin
  <2>1. PICK c \in Callers, id \in SettleIDs, cost \in Costs, ok \in BOOLEAN, age \in 0..MaxLatency :
          age <= now /\ SettleBegin(c, id, cost, ok, now - age)
    BY <1>4 DEF Begin
  <2>2. UNCHANGED <<now, tables, holder, work, draws>> /\ calls[c] = Idle
    BY <2>1 DEF SettleBegin
  <2>3. now - age <= now
    BY <1>2, <2>1, SettlementAssumption
  <2>4. calls'[c].created = now - age /\ \A k \in Callers \ {c} : calls'[k] = calls[k]
    BY <1>2, <2>1 DEF SettleBegin
  <2>5. \A k \in Callers : calls'[k] # Idle => calls'[k].created <= now'
    BY <1>1, <2>2, <2>3, <2>4
  <2>6. holder # Nobody => calls'[holder] = calls[holder]
    BY <1>2, <2>2, <2>4 DEF IInv, HolderInv
  <2> QED
    BY <1>2, <1>3, <2>2, <2>5, <2>6, OthersKeepAssessed DEF tables
<1>5. ASSUME NEW c \in Callers, Abort(c) PROVE AssessedInv'
  <2>1. UNCHANGED <<now, tables>> /\ calls' = [calls EXCEPT ![c] = Idle]
    BY <1>5 DEF Abort, EndTransaction
  <2>2. \A k \in Callers : calls'[k] # Idle => calls'[k] = calls[k]
    BY <1>2, <2>1
  <2>3. CASE holder = c
    <3>1. work' = NoWork
      BY <1>5, <2>3 DEF Abort, EndTransaction
    <3>2. FloorRead' /\ RiseRead' /\ work'.limits = {} /\ work'.read = {}
      BY <3>1 DEF FloorRead, RiseRead, NoWork
    <3> QED
      BY <2>1, <2>2, <3>2, RunKeepsAssessed
  <2>4. CASE holder # c
    <3>1. holder' = holder /\ work' = work
      BY <1>5, <2>4 DEF Abort
    <3>2. holder # Nobody => calls'[holder] = calls[holder]
      BY <1>2, <2>1, <2>4
    <3>3. \A k \in Callers : calls'[k] # Idle => calls'[k].created <= now'
      BY <1>1, <2>1, <2>2
    <3> QED
      BY <1>2, <1>3, <2>1, <3>1, <3>2, <3>3, OthersKeepAssessed DEF tables
  <2> QED
    BY <2>3, <2>4
<1>6. ASSUME UNCHANGED txn, now' >= now PROVE
        /\ holder' = holder /\ work' = work /\ calls' = calls
        /\ \A c \in Callers : calls'[c] # Idle => calls'[c].created <= now'
  <2>1. now' \in Nat
    BY DEF IInv, TypeOK
  <2>2. \A c \in Callers : calls[c] # Idle => calls[c].created \in Nat
    BY <1>1 DEF Call
  <2> QED
    BY <1>1, <1>2, <1>6, <2>1, <2>2 DEF txn
<1>7. ASSUME NEW id \in InsertIDs, NEW cost \in InsertCosts, NEW ok \in BOOLEAN,
             InsertRequestLog(id, cost, ok)
      PROVE  AssessedInv'
  <2>1. \E row : requestLogs' = WithRow(requestLogs, id, row)
    BY <1>7 DEF InsertRequestLog
  <2>2. /\ id \notin DOMAIN requestLogs
        /\ assessed' = WithRow(assessed, id, 0) /\ against' = WithRow(against, id, {})
        /\ UNCHANGED <<now, account, windows, topups, txn>>
    BY <1>7 DEF InsertRequestLog
  <2>3. \A i \in DOMAIN requestLogs' : Kept(i) \/ against'[i] = {}
    BY <2>1, <2>2 DEF Kept, WithRow, IInv, TypeOK
  <2> QED
    BY <1>2, <1>6, <2>2, <2>3, OthersKeepAssessed
<1>8. ASSUME NEW p \in Plans, UpdateUser(p) PROVE AssessedInv'
  <2>1. /\ account'.assigned = now /\ account'.reset = NoTime
        /\ UNCHANGED <<now, windows, topups, requestLogs, history, txn>>
    BY <1>8 DEF UpdateUser
  <2> QED
    BY <1>2, <1>3, <1>6, <2>1, OthersKeepAssessed
<1>9. CASE ResetUsage
  <2>1. /\ account'.assigned = account.assigned /\ account'.reset = now
        /\ UNCHANGED <<now, windows, topups, requestLogs, history, txn>>
    BY <1>9 DEF ResetUsage, IInv, TypeOK, Account
  <2> QED
    BY <1>2, <1>3, <1>6, <2>1, OthersKeepAssessed
<1>10. CASE PruneOldRequestLogs
  <2>1. UNCHANGED <<now, account, windows, topups, txn>>
    BY <1>10 DEF PruneOldRequestLogs
  <2>2. \A i \in DOMAIN requestLogs' : Kept(i)
    BY <1>10 DEF PruneOldRequestLogs, Restrict, Kept, IInv, TypeOK
  <2> QED
    BY <1>2, <1>6, <2>1, <2>2, OthersKeepAssessed
<1>11. CASE \/ \E p \in Plans, ws \in WindowSets : UpdatePlan(p, ws)
            \/ \E u \in TopupIDs, a \in Amounts, x \in Expiries : CreateUserTopup(u, a, x)
            \/ \E u \in TopupIDs : DeleteUserTopup(u)
            \/ \E u \in TopupIDs, x \in Expiries : SetUserTopupExpiry(u, x)
            \/ Tick
  <2>1. UNCHANGED <<account, requestLogs, history, txn>> /\ (now' = now \/ now' = now + 1)
    BY <1>11 DEF UpdatePlan, CreateUserTopup, DeleteUserTopup, SetUserTopupExpiry, Tick, tables
  <2>2. now' >= now
    BY <1>2, <2>1
  <2> QED
    BY <1>3, <1>6, <2>1, <2>2, OthersKeepAssessed
<1> QED
  BY <1>4, <1>5, <1>7, <1>8, <1>9, <1>10, <1>11 DEF Admin

(* All overage is charged: however requests of one user settle late, out   *)
(* of order, twice or not at all, while usage is reset, plans and limits   *)
(* change and old rows are pruned between the statements, what the rows of *)
(* a period exceed a budget by was found by their settlements, of all rows *)
(* whose settlement read a limit as strict (marginalTopupChargeTx).        *)
THEOREM NoOverageIsMissed == Spec => []OverageAssessed
<1>1. Init => AssessedInv
  <2> SUFFICES ASSUME Init PROVE AssessedInv
    OBVIOUS
  <2>1. work = NoWork /\ account.assigned = 0 /\ account.reset = NoTime /\ now = 0
        /\ calls = [c \in Callers |-> Idle] /\ requestLogs = <<>>
    BY DEF Init
  <2>2. Past /\ FloorRead /\ RiseRead /\ work.limits = {} /\ work.read = {}
    BY <2>1 DEF Past, FloorRead, RiseRead, NoWork
  <2>3. RowsAssessed
    <3> SUFFICES ASSUME NEW w \in AllWindows, NEW S \in SUBSET MeasuredFor(w, Counted(w))
                 PROVE  Overage(CostOf(S), w.budget) <= AssessedOf(S)
      BY DEF RowsAssessed
    <3>1. S = {}
      BY <2>1 DEF MeasuredFor, Counted, SuccessfulSince
    <3>2. CostOf(S) = 0 /\ AssessedOf(S) = 0
      BY <3>1, SumEmpty DEF CostOf, AssessedOf
    <3> QED
      BY <3>2, WindowType DEF Overage, Positive
  <2> QED
    BY <2>2, <2>3 DEF AssessedInv
<1>2. IInv /\ IInv' /\ AssessedInv /\ [Next]_vars => AssessedInv'
  <2> SUFFICES ASSUME IInv, IInv', AssessedInv, [Next]_vars PROVE AssessedInv'
    OBVIOUS
  <2>1. ASSUME NEW c \in Callers, Settle(c) PROVE AssessedInv'
    BY <2>1, ReadsKeepAssessed, ChargeKeepsAssessed, CommitKeepsAssessed DEF Settle
  <2>2. CASE UNCHANGED vars
    BY <2>2, RunKeepsAssessed DEF vars, tables, AssessedInv, FloorRead, RiseRead, InPeriod,
       Floor, Measured, Counted, Rises, CostOf
  <2> QED
    BY <2>1, <2>2, AdminKeepsAssessed DEF Next
<1>3. IInv /\ AssessedInv => OverageAssessed
  <2> SUFFICES ASSUME IInv, AssessedInv, NEW w \in Limits
               PROVE  LET rows == MeasuredFor(w, Counted(w))
                      IN  Overage(CostOf(rows), w.budget) <= AssessedOf(rows)
    BY DEF OverageAssessed, Limits, Counted, Floor, CostOf, AssessedOf
  <2>1. w \in AllWindows
    BY DEF IInv, TypeOK, Account, Limits, ValidWindows, AllWindows
  <2>2. MeasuredFor(w, Counted(w)) \in SUBSET MeasuredFor(w, Counted(w))
    OBVIOUS
  <2> QED
    BY <2>1, <2>2, Zenon DEF AssessedInv, RowsAssessed
<1> QED
  BY <1>1, <1>2, <1>3, SettlementInvariant, PTL DEF Spec

-----------------------------------------------------------------------------
(* A settlement as one step.                                               *)

Active(c) == ActiveTopups(topups, calls[c].began)
RiseOf(c, w) ==
  MarginalOverage(w, SpentSince(requestLogs, WindowFloor(account, w, calls[c].created)),
                  SettledCost(calls[c]))
SpentOf(c) == [w \in Limits |-> SpentSince(requestLogs, WindowFloor(account, w, calls[c].created))]

(* What Gateway takes for the charge of a settlement (ChargeOf).           *)
Due(c) == MarginalTopupCharge(Limits, SpentOf(c), SettledCost(calls[c]))

Exhausted(u) == topups[u].used + draws[u] = topups[u].amount

(* While a transaction runs, nobody else changes what it reads.            *)
Calm == holder # Nobody /\ holder' = holder =>
          UNCHANGED <<account, windows, topups, requestLogs>>
Undisturbed == [][Calm]_vars

(* How far the transaction of c has come with it.                          *)
HalfWay(c) ==
  /\ work.stage \in {"windows", "charge"} => work.account = account
  /\ work.stage = "charge" =>
       /\ work.limits \subseteq Limits
       /\ \A w \in Limits \ work.limits : RiseOf(c, w) <= work.charge
       /\ work.charge = 0 \/ \E w \in Limits : work.charge = RiseOf(c, w)
  /\ work.stage \in {"topups", "deduct", "insert"} => work.charge = Due(c)
  /\ work.stage \in {"deduct", "insert"} => \A u \in TopupIDs : draws[u] > 0 => u \in Active(c)
  /\ work.stage = "deduct" => \A u \in Active(c) : u \in work.queue \/ Exhausted(u)
  /\ work.stage = "deduct" => work.queue \subseteq Active(c)
  /\ work.stage = "insert" /\ work.owed > 0 => \A u \in Active(c) : Exhausted(u)

AtOnceInv == \A c \in Callers : holder = c => HalfWay(c)

LEMMA RiseType ==
  ASSUME IInv, NEW c \in Callers, calls[c] \in Call, NEW w \in Limits
  PROVE  RiseOf(c, w) \in Nat /\ RiseOf(c, w) <= SettledCost(calls[c])
<1> DEFINE floor == WindowFloor(account, w, calls[c].created)
           spent == SpentSince(requestLogs, floor)
<1>1. spent \in Nat
  <2>1. SuccessfulSince(requestLogs, floor) \in SUBSET SuccessfulSince(requestLogs, floor)
    OBVIOUS
  <2>2. CostOf(SuccessfulSince(requestLogs, floor)) \in Nat
    BY <2>1, CountedType
  <2> QED
    BY <2>2 DEF CostOf, SpentSince
<1>2. w.budget \in Nat /\ SettledCost(calls[c]) \in Nat
  BY LimitsType, SettledCostType
<1> HIDE DEF spent
<1>3. MarginalOverage(w, spent, SettledCost(calls[c])) \in Nat
      /\ MarginalOverage(w, spent, SettledCost(calls[c])) <= SettledCost(calls[c])
  BY <1>1, <1>2, OverageRise
<1> QED
  BY <1>3 DEF RiseOf, spent

(* The largest rise is the charge.                                         *)
LEMMA DueIsLargestRise ==
  ASSUME IInv, NEW c \in Callers, calls[c] \in Call, NEW m \in Nat,
         \A w \in Limits : RiseOf(c, w) <= m,
         m = 0 \/ \E w \in Limits : m = RiseOf(c, w)
  PROVE  Due(c) = m
<1> DEFINE S == {0} \cup {RiseOf(c, w) : w \in Limits}
<1>1. \A w \in Limits : RiseOf(c, w) \in Nat
  BY RiseType
<1>2. S \in SUBSET Nat /\ S # {} /\ m \in S /\ \A x \in S : x <= m
  BY <1>1
<1>3. S = {0} \cup {MarginalOverage(w, SpentOf(c)[w], SettledCost(calls[c])) : w \in Limits}
  BY DEF SpentOf, RiseOf
<1>4. Due(c) = Max(S)
  BY <1>3, Zenon DEF Due, MarginalTopupCharge
<1> HIDE DEF S
<1>5. Max(S) \in S /\ \A x \in S : Max(S) >= x
  BY <1>2, MaxOfNaturals
<1>6. Max(S) \in Nat /\ Max(S) <= m /\ Max(S) >= m
  BY <1>2, <1>5
<1> QED
  BY <1>4, <1>6

LEMMA ActiveTypes ==
  ASSUME IInv, NEW c \in Callers, NEW u \in Active(c)
  PROVE  /\ u \in DOMAIN topups /\ u \in TopupIDs /\ topups[u] \in Topup
         /\ draws[u] \in Nat /\ topups[u].used + draws[u] <= topups[u].amount
<1>1. u \in DOMAIN topups
  BY DEF Active, ActiveTopups
<1> QED
  BY <1>1 DEF IInv, TypeOK, TopupsNeverOverdrawn

(* Its own statements bring it further, ...                                *)
LEMMA StatementsGoHalfWay ==
  ASSUME IInv, IInv', NEW c \in Callers, holder = c, holder' = c, HalfWay(c), Settle(c)
  PROVE  HalfWay(c)'
<1>1. /\ holder # Nobody /\ calls[c] \in Call /\ work.stage \in Stages
      /\ SettledCost(calls[c]) \in Nat /\ work.charge \in Nat
  BY SettlementAssumption, SettledCostType DEF IInv, HolderInv, TypeOK
<1>2. /\ UNCHANGED <<account, windows, topups, requestLogs, calls>>
      /\ ~SettleLock(c) /\ ~SettleAlreadyLogged(c) /\ ~SettleCommit(c)
  BY <1>1, SettlementAssumption DEF Settle, SettleLock, SettleAlreadyLogged, SettleNotLogged,
     SettleReadUser, SettleReadWindows, SettleChargeWindow, SettleSelectTopups, SettleDeduct,
     NextToPay, DrawOn, SettleCommit, EndTransaction, tables
<1>3. /\ Limits' = Limits /\ Active(c)' = Active(c) /\ Due(c)' = Due(c)
      /\ \A w : RiseOf(c, w)' = RiseOf(c, w)
      /\ SettledCost(calls[c])' = SettledCost(calls[c])
  <2>1. Limits' = Limits /\ Active(c)' = Active(c)
    BY <1>2 DEF Limits, Active
  <2>2. SpentOf(c)' = SpentOf(c)
    BY <1>2, <2>1 DEF SpentOf
  <2>3. Due(c)' = Due(c)
    BY <1>2, <2>1, <2>2 DEF Due
  <2> QED
    BY <1>2, <2>1, <2>3 DEF RiseOf
<1>4. ASSUME work.charge = 0, \A w \in Limits : RiseOf(c, w) = 0 PROVE Due(c) = 0
  BY <1>1, <1>4, DueIsLargestRise
<1>5. CASE SettleNotLogged(c)
  <2>1. /\ work' = [work EXCEPT !.stage = IF SettledCost(calls[c]) > 0 THEN "user" ELSE "insert"]
        /\ draws' = draws /\ work.stage = "exists"
    BY <1>5 DEF SettleNotLogged
  <2>2. draws = NoDraws /\ work.charge = 0 /\ work.owed = 0
    <3>1. draws = NoDraws /\ work.charge = 0
      BY <2>1 DEF IInv, DrawsInv, ChargeInv
    <3> QED
      BY <3>1, NothingDrawn DEF IInv, ChargeInv, TypeOK
  <2>3. /\ work'.stage = IF SettledCost(calls[c]) > 0 THEN "user" ELSE "insert"
        /\ work'.charge = 0 /\ work'.owed = 0
    BY <2>1, <2>2 DEF IInv, TypeOK
  <2>4. ASSUME work'.stage = "insert" PROVE Due(c) = 0
    <3>1. SettledCost(calls[c]) = 0
      BY <1>1, <2>3, <2>4
    <3>2. \A w \in Limits : RiseOf(c, w) = 0
      BY <1>1, <3>1, RiseType
    <3> QED
      BY <1>4, <2>2, <3>2
  <2>5. \A u \in TopupIDs : draws'[u] = 0
    BY <2>1, <2>2 DEF NoDraws
  <2> QED
    BY <1>3, <2>3, <2>4, <2>5 DEF HalfWay
<1>6. CASE SettleReadUser(c)
  <2>1. work'.stage = "windows" /\ work'.account = account /\ account' = account
    BY <1>2, <1>6 DEF SettleReadUser, IInv, TypeOK
  <2> QED
    BY <2>1 DEF HalfWay
<1>7. CASE SettleReadWindows(c)
  <2>1. work.stage = "windows" /\ work.account = account
    BY <1>7 DEF SettleReadWindows, HalfWay
  <2>2. /\ draws' = draws /\ work'.account = account /\ work'.limits = Limits
        /\ work'.charge = work.charge /\ work'.owed = work.owed
        /\ work'.stage = IF Limits = {} THEN "insert" ELSE "charge"
    BY <1>7, <2>1 DEF SettleReadWindows, Limits, IInv, TypeOK
  <2>3. draws = NoDraws /\ work.charge = 0 /\ work.owed = 0
    <3>1. draws = NoDraws /\ work.charge = 0
      BY <2>1 DEF IInv, DrawsInv, ChargeInv
    <3> QED
      BY <3>1, NothingDrawn DEF IInv, ChargeInv, TypeOK
  <2>4. Limits = {} => Due(c) = 0
    BY <1>4, <2>3
  <2>5. \A u \in TopupIDs : draws'[u] = 0
    BY <2>2, <2>3 DEF NoDraws
  <2> QED
    BY <1>2, <1>3, <2>2, <2>3, <2>4, <2>5 DEF HalfWay
<1>8. ASSUME NEW w \in work.limits, SettleChargeWindow(c, w) PROVE HalfWay(c)'
  <2> DEFINE charge == Max({work.charge, RiseOf(c, w)})
             rest == work.limits \ {w}
  <2>1. /\ work.stage = "charge" /\ work.account = account /\ work.limits \subseteq Limits
        /\ \A v \in Limits \ work.limits : RiseOf(c, v) <= work.charge
        /\ work.charge = 0 \/ \E v \in Limits : work.charge = RiseOf(c, v)
    BY <1>8 DEF SettleChargeWindow, HalfWay
  <2>2. /\ work' = [work EXCEPT !.limits = rest, !.charge = charge, !.owed = charge,
                                !.stage = IF rest # {} THEN "charge"
                                          ELSE IF charge > 0 THEN "topups" ELSE "insert"]
        /\ draws' = draws
    BY <1>8, <2>1 DEF SettleChargeWindow, RiseOf
  <2>3. RiseOf(c, w) \in Nat /\ \A v \in Limits : RiseOf(c, v) \in Nat
    BY <1>1, <2>1, RiseType
  <2>4. /\ charge \in Nat /\ work.charge <= charge /\ RiseOf(c, w) <= charge
        /\ charge = work.charge \/ charge = RiseOf(c, w)
    BY <1>1, <2>3, MaxOfTwo
  <2> HIDE DEF charge
  <2>5. /\ work'.account = work.account /\ work'.limits = rest /\ work'.charge = charge
        /\ work'.owed = charge
        /\ work'.stage = IF rest # {} THEN "charge" ELSE IF charge > 0 THEN "topups" ELSE "insert"
    BY <2>2 DEF IInv, TypeOK
  <2>6. \A v \in Limits \ rest : RiseOf(c, v) <= charge
    BY <1>1, <2>1, <2>3, <2>4
  <2>7. charge = 0 \/ \E v \in Limits : charge = RiseOf(c, v)
    BY <2>1, <2>4
  <2>8. rest = {} => charge = Due(c)
    BY <1>1, <2>4, <2>6, <2>7, DueIsLargestRise
  <2>9. \A u \in TopupIDs : draws'[u] = 0
    BY <2>1, <2>2 DEF IInv, DrawsInv, NoDraws
  <2>10. work'.stage = "charge" \/ work'.stage = "topups" \/ (work'.stage = "insert" /\ work'.owed = 0)
    BY <2>4, <2>5
  <2>11. account' = account /\ work'.limits \subseteq Limits
    BY <1>2, <2>1, <2>5
  <2>12. work'.stage \in {"topups", "insert"} => rest = {}
    BY <2>5
  <2> QED
    BY <1>3, <2>1, <2>5, <2>6, <2>7, <2>8, <2>9, <2>10, <2>11, <2>12 DEF HalfWay
<1>9. CASE SettleSelectTopups(c)
  <2> DEFINE spendable == {u \in Active(c) : topups[u].used < topups[u].amount}
  <2>1. /\ work.stage = "topups" /\ draws' = draws /\ work'.queue = spendable
        /\ work'.stage = IF spendable = {} THEN "insert" ELSE "deduct"
        /\ work'.charge = work.charge
    BY <1>9 DEF SettleSelectTopups, Active, IInv, TypeOK, ActiveTopups
  <2>2. \A u \in TopupIDs : draws[u] = 0
    BY <2>1 DEF IInv, DrawsInv, NoDraws
  <2>3. ASSUME NEW u \in Active(c) PROVE u \in spendable \/ Exhausted(u)'
    <3>1. /\ u \in TopupIDs /\ topups[u] \in Topup /\ topups[u].used + draws[u] <= topups[u].amount
      BY ActiveTypes
    <3>2. draws[u] = 0 /\ topups' = topups /\ draws' = draws
      BY <1>2, <2>1, <2>2, <3>1
    <3> QED
      BY <3>1, <3>2 DEF Exhausted, Topup
  <2>4. work.charge = Due(c)
    BY <2>1 DEF HalfWay
  <2>5. spendable \subseteq Active(c)
    OBVIOUS
  <2> HIDE DEF spendable
  <2> QED
    BY <1>3, <2>1, <2>2, <2>3, <2>4, <2>5 DEF HalfWay
<1>10. ASSUME NEW u \in TopupIDs, SettleDeduct(c, u) PROVE HalfWay(c)'
  <2> DEFINE consume == IF work.owed < UnusedOf(u) THEN work.owed ELSE UnusedOf(u)
             owed == work.owed - consume
             rest == work.queue \ {u}
  <2>1. /\ work.stage = "deduct" /\ u \in work.queue
        /\ draws' = [draws EXCEPT ![u] = consume]
        /\ work' = [work EXCEPT !.owed = owed, !.queue = rest,
                                !.stage = IF owed = 0 \/ rest = {} THEN "insert" ELSE "deduct"]
    BY <1>10 DEF SettleDeduct, NextToPay, DrawOn
  <2>2. /\ work.queue \subseteq Active(c) /\ work.charge = Due(c)
        /\ \A v \in TopupIDs : draws[v] > 0 => v \in Active(c)
        /\ \A v \in Active(c) : v \in work.queue \/ Exhausted(v)
    BY <2>1 DEF HalfWay
  <2>3. u \in Active(c) /\ draws[u] = 0
    BY <2>1, <2>2 DEF IInv, DrawsInv
  <2>4. topups[u] \in Topup /\ topups[u].used <= topups[u].amount /\ work.owed \in Nat
    <3>1. topups[u] \in Topup /\ topups[u].used + draws[u] <= topups[u].amount
      BY <2>3, ActiveTypes
    <3> QED
      BY <2>3, <3>1 DEF Topup, IInv, TypeOK
  <2>5. /\ consume \in Nat /\ owed \in Nat
        /\ owed # 0 => topups[u].used + consume = topups[u].amount
    BY <2>4 DEF UnusedOf, Topup
  <2> HIDE DEF consume, owed
  <2>6. /\ work'.queue = rest /\ work'.owed = owed /\ work'.charge = work.charge
        /\ work'.stage = IF owed = 0 \/ rest = {} THEN "insert" ELSE "deduct"
        /\ draws'[u] = consume /\ \A v \in TopupIDs : v # u => draws'[v] = draws[v]
    BY <2>1 DEF IInv, TypeOK
  <2>7. \A v \in TopupIDs : draws'[v] > 0 => v \in Active(c)
    BY <2>2, <2>3, <2>6
  <2>8. ASSUME owed # 0, NEW v \in Active(c) PROVE v \in rest \/ Exhausted(v)'
    <3>1. topups' = topups /\ v \in TopupIDs
      BY <1>2, <2>8, ActiveTypes
    <3>2. CASE v = u
      BY <2>5, <2>6, <2>8, <3>1, <3>2 DEF Exhausted
    <3>3. CASE v # u
      <4>1. draws'[v] = draws[v]
        BY <2>6, <3>1, <3>3
      <4>2. Exhausted(v)' <=> Exhausted(v)
        BY <3>1, <4>1 DEF Exhausted
      <4> QED
        BY <2>2, <2>8, <3>3, <4>2
    <3> QED
      BY <3>2, <3>3
  <2>9. work'.stage \in {"deduct", "insert"} /\ rest \subseteq Active(c)
    BY <2>2, <2>6
  <2>10. work'.stage = "deduct" => owed # 0
    BY <2>6
  <2>11. work'.stage = "insert" /\ owed > 0 => rest = {}
    BY <2>5, <2>6
  <2>12. work'.owed > 0 => owed # 0
    BY <2>5, <2>6
  <2> QED
    BY <1>3, <2>2, <2>6, <2>7, <2>8, <2>9, <2>10, <2>11, <2>12 DEF HalfWay
<1> QED
  BY <1>2, <1>5, <1>6, <1>7, <1>8, <1>9, <1>10 DEF Settle

(* ... and calm steps of others leave it where it is.                      *)
LEMMA CalmKeepsHalfWay ==
  ASSUME IInv, NEW c \in Callers, holder = c, holder' = c, HalfWay(c), [Next]_vars, [Calm]_vars,
         ~Settle(c)
  PROVE  HalfWay(c)'
<1>1. holder # Nobody
  BY SettlementAssumption
<1>2. UNCHANGED <<account, windows, topups, requestLogs>>
  BY <1>1 DEF Calm, vars
<1>3. UNCHANGED <<work, draws>> /\ calls'[c] = calls[c]
  <2>1. ASSUME NEW d \in Callers, Settle(d) PROVE FALSE
    BY <1>1, <2>1 DEF Settle, SettleLock, SettleAlreadyLogged, SettleNotLogged, SettleReadUser,
                      SettleReadWindows, SettleChargeWindow, SettleSelectTopups, SettleDeduct,
                      NextToPay, SettleCommit
  <2>2. ASSUME NEW d \in Callers, Abort(d) PROVE UNCHANGED <<work, draws>> /\ calls'[c] = calls[c]
    <3>1. d # c
      BY <1>1, <2>2 DEF Abort, EndTransaction
    <3> QED
      BY <2>2, <3>1 DEF Abort, IInv, TypeOK
  <2>3. CASE Begin
    <3>1. PICK d \in Callers :
            /\ calls[d] = Idle /\ UNCHANGED <<work, draws>>
            /\ \E call : calls' = [calls EXCEPT ![d] = call]
      BY <2>3 DEF Begin, SettleBegin
    <3>2. d # c
      BY <1>1, <3>1 DEF IInv, HolderInv
    <3> QED
      BY <3>1, <3>2 DEF IInv, TypeOK
  <2>4. ASSUME NEW id \in InsertIDs, NEW cost \in InsertCosts, NEW ok \in BOOLEAN,
               InsertRequestLog(id, cost, ok)
        PROVE  UNCHANGED txn
    BY <2>4 DEF InsertRequestLog
  <2>5. CASE Admin
    BY <2>5 DEF Admin, UpdateUser, UpdatePlan, ResetUsage, CreateUserTopup, DeleteUserTopup,
                SetUserTopupExpiry, PruneOldRequestLogs, txn
  <2>6. CASE Tick \/ UNCHANGED vars
    BY <2>6 DEF Tick, vars, txn
  <2> QED
    BY <2>1, <2>2, <2>3, <2>4, <2>5, <2>6 DEF Next, txn
<1>4. Limits' = Limits /\ Active(c)' = Active(c) /\ \A u : Exhausted(u)' <=> Exhausted(u)
  BY <1>2, <1>3 DEF Limits, Active, Exhausted
<1>5. \A w : RiseOf(c, w)' = RiseOf(c, w)
  BY <1>2, <1>3 DEF RiseOf
<1>6. Due(c)' = Due(c)
  <2>1. SpentOf(c)' = SpentOf(c)
    BY <1>2, <1>3, <1>4 DEF SpentOf
  <2> QED
    BY <1>3, <1>4, <2>1 DEF Due
<1> QED
  BY <1>2, <1>3, <1>4, <1>5, <1>6 DEF HalfWay

(* What it has drawn in the end: all that is due, or all there is.         *)
LEMMA AllThatIsDueOrThere ==
  ASSUME IInv, NEW c \in Callers, holder = c, work.stage = "insert", HalfWay(c)
  PROVE  /\ work.charge = Due(c)
         /\ SumOf(draws, TopupIDs) = Min({Due(c), RemainingTopups(topups, calls[c].began)})
<1> DEFINE A == Active(c)
           drawn == SumOf(draws, TopupIDs)
           there == RemainingTopups(topups, calls[c].began)
           free == Unused(topups)
<1>1. /\ work.charge = Due(c)
      /\ \A u \in TopupIDs : draws[u] > 0 => u \in A
      /\ work.owed > 0 => \A u \in A : Exhausted(u)
  BY DEF HalfWay
<1>2. \A u \in A : /\ u \in DOMAIN topups /\ u \in TopupIDs /\ topups[u] \in Topup
                   /\ draws[u] \in Nat /\ topups[u].used + draws[u] <= topups[u].amount
  BY ActiveTypes
<1>3. A \in SUBSET TopupIDs /\ IsFiniteSet(A)
  BY <1>2, SettlementAssumption, FS_Subset
<1>4. \A u \in A : free[u] \in Nat /\ draws[u] <= free[u] /\ (Exhausted(u) => draws[u] = free[u])
  BY <1>2 DEF Unused, Topup, Exhausted
<1>5. there = SumOf(free, A)
  BY DEF RemainingTopups, Active
<1>6. drawn = SumOf(draws, A)
  <2>1. \A u \in TopupIDs \ A : draws[u] = 0
    BY <1>1 DEF IInv, TypeOK
  <2> HIDE DEF A
  <2> QED
    BY <1>3, <2>1, SumSupport
<1> HIDE DEF A, free, there
<1>7. there \in Nat
  BY <1>3, <1>4, <1>5, SumType
<1>8. SumOf(draws, A) \in Nat
  BY <1>2, <1>3, SumType
<1>9. SumOf(draws, A) <= SumOf(free, A)
  BY <1>2, <1>3, <1>4, SumMono
<1>10. work.owed \in Nat /\ drawn + work.owed = Due(c)
  BY <1>1 DEF IInv, TypeOK, ChargeInv
<1>11. work.owed > 0 => SumOf(draws, A) = SumOf(free, A)
  BY <1>1, <1>4, SumAgree
<1> HIDE DEF drawn
<1>12. /\ drawn \in Nat /\ Due(c) \in Nat /\ drawn <= there /\ drawn <= Due(c)
       /\ drawn = Due(c) \/ drawn = there
  BY <1>5, <1>6, <1>7, <1>8, <1>9, <1>10, <1>11
<1>13. Min({Due(c), there}) \in {Due(c), there} /\ \A x \in {Due(c), there} : Min({Due(c), there}) <= x
  BY <1>7, <1>12, MinOfNaturals
<1>14. drawn = Min({Due(c), there})
  BY <1>7, <1>12, <1>13
<1> QED
  BY <1>1, <1>14 DEF drawn, there

(* The statements of a settlement that nobody disturbs come to what Gateway*)
(* takes for one step: the charge is the largest rise of the windows over  *)
(* the rows on record, and the top-ups pay it as far as they reach.  (The  *)
(* loops of marginalTopupChargeTx and deductNanoFromTopupsTx.)             *)
THEOREM ASettlementIsOneStep ==
  Spec /\ Undisturbed =>
    [][\A c \in Callers : SettleCommit(c) =>
         /\ work.charge = Due(c)
         /\ TopupsUsed' = TopupsUsed
                            + Min({Due(c), RemainingTopups(topups, calls[c].began)})]_vars
<1> DEFINE A == \A c \in Callers : SettleCommit(c) =>
                  /\ work.charge = Due(c)
                  /\ TopupsUsed' = TopupsUsed
                                     + Min({Due(c), RemainingTopups(topups, calls[c].began)})
<1>1. Init => AtOnceInv
  BY SettlementAssumption DEF Init, AtOnceInv
<1>2. IInv /\ IInv' /\ AtOnceInv /\ [Next]_vars /\ [Calm]_vars => AtOnceInv'
  <2> SUFFICES ASSUME IInv, IInv', AtOnceInv, [Next]_vars, [Calm]_vars, NEW c \in Callers, holder' = c
               PROVE  HalfWay(c)'
    BY DEF AtOnceInv
  <2>1. CASE holder = c
    BY <2>1, StatementsGoHalfWay, CalmKeepsHalfWay DEF AtOnceInv
  <2>2. CASE holder # c
    <3>1. work'.stage = "exists"
      <4>1. SettleLock(c)
        BY <2>2, SettlementAssumption DEF Next, Settle, SettleLock, SettleAlreadyLogged,
           SettleNotLogged, SettleReadUser, SettleReadWindows, SettleChargeWindow,
           SettleSelectTopups, SettleDeduct, NextToPay, DrawOn, SettleCommit, Abort, EndTransaction,
           Begin, SettleBegin, InsertRequestLog, Admin, UpdateUser, UpdatePlan, ResetUsage,
           CreateUserTopup, DeleteUserTopup, SetUserTopupExpiry, PruneOldRequestLogs, Tick, vars, txn
      <4> QED
        BY <4>1 DEF SettleLock, IInv, TypeOK
    <3> QED
      BY <3>1 DEF HalfWay
  <2> QED
    BY <2>1, <2>2
<1>3. IInv /\ AtOnceInv /\ [Next]_vars => [A]_vars
  <2> SUFFICES ASSUME IInv, AtOnceInv, NEW c \in Callers, SettleCommit(c)
               PROVE  /\ work.charge = Due(c)
                      /\ TopupsUsed' = TopupsUsed
                                         + Min({Due(c), RemainingTopups(topups, calls[c].began)})
    OBVIOUS
  <2>1. holder = c /\ work.stage = "insert" /\ HalfWay(c)
    BY DEF SettleCommit, AtOnceInv
  <2>2. TopupsUsed' = TopupsUsed + SumOf(draws, TopupIDs)
    BY CollectedByCommit
  <2> QED
    BY <2>1, <2>2, AllThatIsDueOrThere
<1> HIDE DEF A
<1>4. Spec /\ Undisturbed => [][A]_vars
  BY <1>1, <1>2, <1>3, SettlementInvariant, PTL DEF Spec, Undisturbed
<1> QED
  BY <1>4 DEF A

=============================================================================
