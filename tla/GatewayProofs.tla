---------------------------- MODULE GatewayProofs ----------------------------
(***************************************************************************)
(* Theorems about Gateway, for any number of requests, handlers, windows   *)
(* and top-ups: the types, the exclusion the in-memory guard implements,   *)
(* that no answer's row is dropped, and, without batches and with a        *)
(* database that answers, that a charge to the top-ups goes unpaid only    *)
(* where credit lapsed under its quote; and that every handler that goes   *)
(* on leaves its scope.                                                    *)
(***************************************************************************)
EXTENDS Gateway, BudgetTheorems, TLAPS

Phases == {"idle", "limiting", "waiting", "admitted", "quoting", "generating",
           "saving", "leaving"}
Jobs == [phase : Phases, request : Requests \cup {NoRequest},
         seen : [credit : Nat, at : 0..MaxTime], started : 0..MaxTime, ceiling : Nat,
         row : Rows \cup {NoRow}, holds : BOOLEAN]
LogRows == [cost : Nat, ok : BOOLEAN, created : 0..MaxTime]

(* The types the proofs need besides TypeOK.                               *)
Typed == TypeOK /\ now \in 0..MaxTime /\ IsFiniteSet(DOMAIN logs)

(* What a handler of each phase has done: who holds a scope is in the map  *)
(* under its own id.                                                       *)
HandlerInv(h) ==
  /\ ~In(h, "idle") => Request(h) \in Requests
  /\ In(h, "idle") \/ In(h, "limiting") \/ In(h, "waiting") => ~job[h].holds
  /\ In(h, "admitted") \/ In(h, "quoting") \/ In(h, "generating") => job[h].holds
  /\ In(h, "saving") => job[h].row \in Rows /\ (job[h].row.ok => job[h].holds)
  /\ job[h].holds => active[Scope(Request(h))] = Request(h).id

OneHolder ==
  \A h, k \in Handlers : job[h].holds /\ job[k].holds /\ h # k =>
    Scope(Request(h)) # Scope(Request(k))

IInv == Typed /\ (\A h \in Handlers : HandlerInv(h)) /\ OneHolder

-----------------------------------------------------------------------------
(* Sums and quotes *)

LEMMA MinOfTwo ==
  ASSUME NEW a \in Nat, NEW b \in Nat
  PROVE  Min({a, b}) \in Nat /\ Min({a, b}) <= a /\ Min({a, b}) <= b
BY MinOfNaturals

LEMMA FloorOfWindow ==
  ASSUME NEW w \in Plan, NEW t \in Nat
  PROVE  WindowFloor(Account, w, t) = (t \div w.duration) * w.duration
BY GatewayAssumption, NoTimeIsNull
   DEF WindowFloor, EffectiveFloor, WindowPeriodStart, Account

(* A later period does not start earlier.                                  *)
LEMMA FloorsRise ==
  ASSUME NEW w \in Plan, NEW t \in Nat, NEW u \in Nat, t <= u
  PROVE  WindowFloor(Account, w, t) <= WindowFloor(Account, w, u)
<1>1. w.duration \in Nat /\ Account.assigned = 0 /\ Account.reset = NoTime
  BY GatewayAssumption DEF Account
<1> DEFINE d == w.duration
<1> HIDE DEF d
<1>2. d \in Nat /\ 0 \in Nat
  BY <1>1 DEF d
<1>3. WindowPeriodStart(0, d, t) <= WindowPeriodStart(0, d, u)
  BY <1>2, PeriodStarts
<1> QED
  BY <1>1, <1>3 DEF WindowFloor, EffectiveFloor, d

LEMMA SpentIsNatural ==
  ASSUME Typed, NEW f
  PROVE  SpentSince(logs, f) \in Nat
<1>1. IsFiniteSet(SuccessfulSince(logs, f))
  BY FS_Subset DEF SuccessfulSince, Typed
<1>2. \A i \in SuccessfulSince(logs, f) : Cost(logs)[i] \in Nat
  BY DEF SuccessfulSince, Cost, Typed, TypeOK
<1> QED
  BY <1>1, <1>2, SumType DEF SpentSince

(* A shorter window holds no more.                                         *)
LEMMA SpentFalls ==
  ASSUME Typed, NEW f \in Int, NEW g \in Int, f <= g
  PROVE  SpentSince(logs, g) <= SpentSince(logs, f)
<1>1. IsFiniteSet(SuccessfulSince(logs, f))
  BY FS_Subset DEF SuccessfulSince, Typed
<1>2. SuccessfulSince(logs, g) \subseteq SuccessfulSince(logs, f)
  BY DEF SuccessfulSince, Typed, TypeOK
<1>3. \A i \in SuccessfulSince(logs, f) : Cost(logs)[i] \in Nat
  BY DEF SuccessfulSince, Cost, Typed, TypeOK
<1> QED
  BY <1>1, <1>2, <1>3, SumMono DEF SpentSince

LEMMA SpentByWindow ==
  ASSUME Typed, NEW t \in Nat, NEW w \in Plan
  PROVE  Spent(t)[w] \in Nat /\ Spent(t)[w] = SpentSince(logs, WindowFloor(Account, w, t))
BY SpentIsNatural DEF Spent

LEMMA ChargeIsNatural ==
  ASSUME Typed, NEW e \in Rows
  PROVE  SettledCost(e) \in Nat /\ ChargeOf(e) \in Nat /\ ChargeOf(e) <= SettledCost(e)
<1>1. SettledCost(e) \in Nat
  BY MinOfTwo DEF SettledCost, Rows
<1>2. e.created \in Nat
  BY DEF Rows
<1>3. \A w \in Plan : w.budget \in Nat /\ Spent(e.created)[w] \in Nat
  BY <1>2, SpentByWindow, GatewayAssumption
<1> QED
  BY <1>1, <1>3, MarginalChargeBounds DEF ChargeOf

LEMMA AvailableIsNatural ==
  ASSUME Typed, NEW t \in Nat, NEW c \in Nat
  PROVE  /\ AvailableBudget(Plan, Spent(t), c) \in Nat
         /\ \A w \in Plan : AvailableBudget(Plan, Spent(t), c) <= Positive(w.budget - Spent(t)[w] + c)
<1> DEFINE S == {Positive(w.budget - Spent(t)[w] + c) : w \in Plan}
<1>1. \A w \in Plan : Positive(w.budget - Spent(t)[w] + c) \in Nat
  BY SpentByWindow, GatewayAssumption DEF Positive
<1>2. S \in SUBSET Nat /\ S # {}
  BY <1>1, GatewayAssumption
<1>3. Min(S) \in S /\ \A x \in S : Min(S) <= x
  BY <1>2, MinOfNaturals
<1> QED
  BY <1>1, <1>2, <1>3 DEF AvailableBudget

-----------------------------------------------------------------------------
(* Types *)

LEMMA SettleKeepsTypes ==
  ASSUME Typed, NEW e \in Rows, Settle(e)
  PROVE  /\ DOMAIN logs' \subseteq Ids /\ IsFiniteSet(DOMAIN logs')
         /\ \A i \in DOMAIN logs' : logs'[i] \in LogRows
         /\ credit' \in Nat /\ unpaid' \in Nat
<1>1. CASE e.id \in DOMAIN logs
  BY <1>1 DEF Settle, tables, Typed, TypeOK, LogRows
<1>2. CASE e.id \notin DOMAIN logs
  <2>1. logs' = Insert(e) /\ DOMAIN logs' = DOMAIN logs \cup {e.id}
    BY <1>2 DEF Settle, Insert
  <2>2. e.id \in Ids /\ [cost |-> SettledCost(e), ok |-> e.ok, created |-> e.created] \in LogRows
    BY ChargeIsNatural DEF Rows, LogRows
  <2>3. \A i \in DOMAIN logs' : logs'[i] \in LogRows
    BY <2>1, <2>2 DEF Insert, Typed, TypeOK, LogRows
  <2>4. IsFiniteSet(DOMAIN logs')
    BY <2>1, FS_AddElement DEF Typed
  <2>5. credit' \in Nat /\ unpaid' \in Nat
    <3>1. credit \in Nat /\ unpaid \in Nat /\ ChargeOf(e) \in Nat
      BY ChargeIsNatural DEF Typed, TypeOK
    <3> QED
      BY <1>2, <3>1, MinOfTwo DEF Settle
  <2> QED
    BY <2>1, <2>2, <2>3, <2>4, <2>5 DEF Typed, TypeOK
<1> QED
  BY <1>1, <1>2

(* A handler whose entry is replaced leaves the others alone.              *)
LEMMA JobsOf ==
  ASSUME Typed, NEW h \in Handlers
  PROVE  job \in [Handlers -> Jobs] /\ job[h] \in Jobs
BY DEF Typed, TypeOK, Jobs, Phases

LEMMA RecordKeepsJobs ==
  ASSUME Typed, NEW h \in Handlers, Request(h) \in Requests,
         NEW cost \in Nat, NEW ok \in BOOLEAN, NEW ceiling \in Nat, NEW at \in 0..MaxTime,
         Record(h, cost, ok, ceiling, at)
  PROVE  /\ job' \in [Handlers -> Jobs]
         /\ job'[h].row \in Rows /\ job'[h].row.ok = ok /\ job'[h].row.ceiling = ceiling
         /\ job'[h].row.created = at /\ job'[h].row.id = Request(h).id
         /\ job'[h].phase = "saving" /\ job'[h].request = Request(h)
         /\ job'[h].holds = job[h].holds
         /\ \A k \in Handlers \ {h} : job'[k] = job[k]
<1> DEFINE row == [id |-> Request(h).id, cost |-> cost, ok |-> ok, ceiling |-> ceiling, created |-> at]
<1>1. row \in Rows
  BY DEF Rows, Ids
<1>2. job' = [job EXCEPT ![h].phase = "saving", ![h].row = row]
  BY DEF Record
<1> HIDE DEF row
<1>3. row = [id |-> Request(h).id, cost |-> cost, ok |-> ok, ceiling |-> ceiling, created |-> at]
  BY DEF row
<1> QED
  BY <1>1, <1>2, <1>3, JobsOf DEF Jobs, Phases, Request

LEMMA InitTyped == Init => Typed
<1> SUFFICES ASSUME Init PROVE Typed
  OBVIOUS
<1>1. 0 \in 0..MaxTime
  BY GatewayAssumption
<1>2. NoJob \in Jobs
  BY <1>1 DEF NoJob, Jobs, Phases
<1>3. job \in [Handlers -> Jobs]
  BY <1>2 DEF Init
<1>4. DOMAIN logs = {}
  BY DEF Init
<1>5. IsFiniteSet(DOMAIN logs)
  BY <1>4, FS_EmptySet
<1> QED
  BY <1>1, <1>3, <1>4, <1>5 DEF Init, Typed, TypeOK, Jobs, Phases

(* What is left to show of the types once the jobs and the tables have     *)
(* theirs.                                                                 *)
OthersTyped ==
  /\ active \in [Scopes -> Ids \cup {Nobody}]
  /\ pending \subseteq Rows /\ lost \subseteq Rows
  /\ answered \subseteq Ids
  /\ now \in 0..MaxTime /\ lapsed \in Nat /\ astride \in BOOLEAN /\ stalled \subseteq Handlers
TablesTyped ==
  /\ DOMAIN logs \subseteq Ids /\ IsFiniteSet(DOMAIN logs)
  /\ \A i \in DOMAIN logs : logs[i] \in LogRows
  /\ credit \in Nat /\ unpaid \in Nat

LEMMA TypedParts == Typed <=> job \in [Handlers -> Jobs] /\ OthersTyped /\ TablesTyped
BY DEF Typed, TypeOK, OthersTyped, TablesTyped, Jobs, Phases, LogRows

LEMMA TypedFromParts ==
  ASSUME job' \in [Handlers -> Jobs], OthersTyped', TablesTyped'
  PROVE  Typed'
BY DEF Typed, TypeOK, OthersTyped, TablesTyped, Jobs, Phases, LogRows

LEMMA TablesStay ==
  ASSUME Typed, UNCHANGED tables
  PROVE  TablesTyped'
BY TypedParts DEF TablesTyped, tables

LEMMA ScopeOfRequest ==
  ASSUME NEW r \in Requests
  PROVE  Scope(r) \in Scopes /\ r.id \in Ids
BY DEF Scope, Scopes, Ids

(* The steps of a handler before it is let in.                             *)
LEMMA WaitingKeepsTyped ==
  ASSUME IInv, NEW h \in Handlers,
         PassLimit(h) \/ RateLimited(h) \/ GiveUpWaiting(h) \/ \E r \in Requests : Arrive(h, r)
  PROVE  Typed'
<1>1. Typed /\ HandlerInv(h)
  BY DEF IInv
<1>2. OthersTyped' /\ TablesTyped'
  BY <1>1, TypedParts, TablesStay
     DEF OthersTyped, PassLimit, RateLimited, GiveUpWaiting, Reject, Arrive, outbox, world
<1>3. job' \in [Handlers -> Jobs]
  <2>1. CASE PassLimit(h)
    BY <1>1, <2>1, JobsOf DEF PassLimit, Jobs, Phases, Typed
  <2>2. CASE \E r \in Requests : Arrive(h, r)
    BY <1>1, <2>2, JobsOf DEF Arrive, Jobs, Phases
  <2>3. CASE RateLimited(h) \/ GiveUpWaiting(h)
    <3>1. Request(h) \in Requests /\ now \in 0..MaxTime
      BY <1>1, <2>3 DEF RateLimited, GiveUpWaiting, HandlerInv, In, Typed
    <3>2. CASE Request(h).kind = "agent"
      BY <1>1, <2>3, <3>2, JobsOf DEF RateLimited, GiveUpWaiting, Reject, Jobs, Phases
    <3>3. CASE Request(h).kind # "agent"
      BY <1>1, <2>3, <3>1, <3>3, RecordKeepsJobs DEF RateLimited, GiveUpWaiting, Reject
    <3> QED
      BY <3>2, <3>3
  <2> QED
    BY <2>1, <2>2, <2>3
<1> QED
  BY <1>2, <1>3, TypedFromParts

(* From the guard to the upstream's answer.                                *)
LEMMA GeneratingKeepsTyped ==
  ASSUME IInv, NEW h \in Handlers,
         \/ Acquire(h) \/ ReadCredit(h) \/ Admit(h) \/ Refuse(h) \/ QuoteFails(h)
         \/ ReturnUnlogged(h) \/ FailUpstream(h) \/ \E cost \in Costs(h) : Complete(h, cost)
  PROVE  Typed'
<1>1. Typed /\ HandlerInv(h) /\ job[h] \in Jobs /\ now \in 0..MaxTime
  BY JobsOf DEF IInv, Typed
<1>2. Request(h) \in Requests
  BY <1>1 DEF Acquire, ReadCredit, Admit, Refuse, QuoteFails, ReturnUnlogged, FailUpstream,
              Complete, HandlerInv, In
<1>3. TablesTyped'
  BY <1>1, TablesStay DEF Acquire, ReadCredit, Admit, Refuse, QuoteFails, ReturnUnlogged,
                          FailUpstream, Complete
<1>4. OthersTyped'
  <2>1. CASE Acquire(h)
    <3>1. Request(h).id \in Ids
      BY <1>2, ScopeOfRequest
    <3> QED
      BY <1>1, <2>1, <3>1, TypedParts DEF OthersTyped, Acquire, outbox, world
  <2>2. CASE \E cost \in Costs(h) : Complete(h, cost)
    BY <1>1, <1>2, <2>2, TypedParts, ScopeOfRequest DEF OthersTyped, Complete, outbox, world
  <2>3. CASE \/ ReadCredit(h) \/ Admit(h) \/ Refuse(h) \/ QuoteFails(h) \/ ReturnUnlogged(h)
             \/ FailUpstream(h)
    BY <1>1, <2>3, TypedParts
       DEF OthersTyped, ReadCredit, Admit, Refuse, QuoteFails, ReturnUnlogged, FailUpstream,
           outbox, world
  <2> QED
    BY <2>1, <2>2, <2>3
<1>5. job' \in [Handlers -> Jobs]
  <2>1. CASE Acquire(h)
    BY <1>1, <2>1, JobsOf DEF Acquire, Jobs, Phases
  <2>2. CASE ReadCredit(h)
    <3>1. credit \in Nat
      BY <1>1 DEF Typed, TypeOK
    <3> QED
      BY <1>1, <2>2, <3>1, JobsOf DEF ReadCredit, Jobs, Phases
  <2>3. CASE Admit(h)
    <3>0. job[h].seen.credit \in Nat /\ job[h].seen.at \in Nat
      BY <1>1 DEF Jobs
    <3>1. Available(h) \in Nat
      BY <1>1, <3>0, AvailableIsNatural DEF Available
    <3>2. Min({Request(h).price, Available(h)}) \in Nat
      BY <1>2, <3>1, MinOfTwo, GatewayAssumption
    <3> QED
      BY <1>1, <2>3, <3>2, JobsOf DEF Admit, Jobs, Phases
  <2>4. CASE ReturnUnlogged(h)
    BY <1>1, <2>4, JobsOf DEF ReturnUnlogged, Jobs, Phases
  <2>5. CASE Refuse(h) \/ QuoteFails(h)
    BY <1>1, <1>2, <2>5, RecordKeepsJobs DEF Refuse, QuoteFails
  <2>6. CASE FailUpstream(h)
    BY <1>1, <1>2, <2>6, RecordKeepsJobs DEF FailUpstream, Jobs
  <2>7. CASE \E cost \in Costs(h) : Complete(h, cost)
    <3>1. PICK cost \in Costs(h) : Complete(h, cost)
      BY <2>7
    <3>2. cost \in Nat
      BY DEF Costs
    <3> QED
      BY <1>1, <1>2, <3>1, <3>2, RecordKeepsJobs DEF Complete, Jobs
  <2> QED
    BY <2>1, <2>2, <2>3, <2>4, <2>5, <2>6, <2>7
<1> QED
  BY <1>3, <1>4, <1>5, TypedFromParts

(* The settlement and the way out.                                         *)
LEMMA LeavingKeepsTyped ==
  ASSUME IInv, NEW h \in Handlers, SaveSucceeds(h) \/ SaveFails(h) \/ Leave(h)
  PROVE  Typed'
<1>1. Typed /\ HandlerInv(h) /\ job[h] \in Jobs
  BY JobsOf DEF IInv
<1>2. SaveSucceeds(h) \/ SaveFails(h) => job[h].row \in Rows
  BY <1>1 DEF SaveSucceeds, SaveFails, HandlerInv, In
<1>3. TablesTyped'
  <2>1. CASE Leave(h) \/ UNCHANGED tables
    BY <1>1, <2>1, TablesStay DEF Leave
  <2>2. CASE (SaveSucceeds(h) \/ SaveFails(h)) /\ Settle(job[h].row)
    BY <1>1, <1>2, <2>2, SettleKeepsTypes DEF TablesTyped
  <2> QED
    BY <2>1, <2>2 DEF SaveSucceeds, SaveFails
<1>4. OthersTyped'
  <2>1. CASE SaveSucceeds(h)
    BY <1>1, <2>1, TypedParts DEF OthersTyped, SaveSucceeds, outbox, world
  <2>2. CASE SaveFails(h)
    BY <1>1, <1>2, <2>2, TypedParts DEF OthersTyped, SaveFails, world
  <2>3. CASE Leave(h)
    BY <1>1, <2>3, TypedParts DEF OthersTyped, Leave, Release, outbox, world
  <2> QED
    BY <2>1, <2>2, <2>3
<1>5. job' \in [Handlers -> Jobs]
  <2>1. CASE SaveSucceeds(h) \/ SaveFails(h)
    BY <1>1, <2>1, JobsOf DEF SaveSucceeds, SaveFails, Jobs, Phases
  <2>2. CASE Leave(h)
    <3>1. NoJob \in Jobs
      BY GatewayAssumption DEF NoJob, Jobs, Phases
    <3> QED
      BY <1>1, <2>2, <3>1, JobsOf DEF Leave
  <2> QED
    BY <2>1, <2>2
<1> QED
  BY <1>3, <1>4, <1>5, TypedFromParts

(* The outbox, the shop and the clock.                                     *)
LEMMA WorldKeepsTyped ==
  ASSUME IInv,
         \/ \E e \in pending : RetrySucceeds(e) \/ RetriesExhausted(e)
         \/ \E n \in Bought : BuyTopup(n)
         \/ \E n \in 1..credit : Lapse(n)
         \/ \E h \in Handlers : ClientStalls(h) \/ ClientReads(h)
         \/ Tick
  PROVE  Typed'
<1>1. Typed
  BY DEF IInv
<1>2. job' \in [Handlers -> Jobs]
  BY <1>1, TypedParts DEF RetrySucceeds, RetriesExhausted, BuyTopup, Lapse, Tick,
     ClientStalls, ClientReads
<1>3. OthersTyped'
  <2>1. CASE \E e \in pending : RetrySucceeds(e) \/ RetriesExhausted(e)
    BY <1>1, <2>1, TypedParts DEF OthersTyped, RetrySucceeds, RetriesExhausted, world
  <2>2. CASE \E n \in Bought : BuyTopup(n)
    BY <1>1, <2>2, TypedParts DEF OthersTyped, BuyTopup, outbox
  <2>3. CASE Tick
    BY <1>1, <2>3, TypedParts, GatewayAssumption DEF OthersTyped, Tick, outbox
  <2>4. CASE \E n \in 1..credit : Lapse(n)
    BY <1>1, <2>4, TypedParts DEF OthersTyped, TablesTyped, Lapse, outbox
  <2>5. CASE \E h \in Handlers : ClientStalls(h) \/ ClientReads(h)
    BY <1>1, <2>5, TypedParts DEF OthersTyped, ClientStalls, ClientReads, outbox
  <2> QED
    BY <2>1, <2>2, <2>3, <2>4, <2>5
<1>4. TablesTyped'
  <2>1. CASE \E e \in pending : RetrySucceeds(e)
    <3>1. PICK e \in pending : RetrySucceeds(e)
      BY <2>1
    <3>2. e \in Rows
      BY <1>1, <3>1 DEF Typed, TypeOK
    <3> QED
      BY <1>1, <3>1, <3>2, SettleKeepsTypes DEF RetrySucceeds, TablesTyped
  <2>2. CASE \E e \in pending : RetriesExhausted(e)
    BY <1>1, <2>2, TablesStay DEF RetriesExhausted
  <2>3. CASE \E n \in Bought : BuyTopup(n)
    BY <1>1, <2>3, TypedParts, GatewayAssumption DEF TablesTyped, BuyTopup
  <2>4. CASE Tick
    BY <1>1, <2>4, TablesStay DEF Tick
  <2>5. CASE \E n \in 1..credit : Lapse(n)
    BY <1>1, <2>5, TypedParts DEF TablesTyped, Lapse
  <2>6. CASE \E h \in Handlers : ClientStalls(h) \/ ClientReads(h)
    BY <1>1, <2>6, TablesStay DEF ClientStalls, ClientReads
  <2> QED
    BY <2>1, <2>2, <2>3, <2>4, <2>5, <2>6
<1> QED
  BY <1>2, <1>3, <1>4, TypedFromParts

-----------------------------------------------------------------------------
(* The guard *)

(* The steps of a handler that concern neither its request nor its scope.  *)
Quiet(h) ==
  \/ PassLimit(h) \/ RateLimited(h) \/ GiveUpWaiting(h)
  \/ ReadCredit(h) \/ Admit(h) \/ Refuse(h) \/ QuoteFails(h) \/ ReturnUnlogged(h)
  \/ FailUpstream(h) \/ \E cost \in Costs(h) : Complete(h, cost)
  \/ SaveSucceeds(h) \/ SaveFails(h)

LEMMA QuietSteps ==
  ASSUME IInv, NEW h \in Handlers, Quiet(h)
  PROVE  /\ active' = active
         /\ \A k \in Handlers \ {h} : job'[k] = job[k]
         /\ job'[h].request = Request(h) /\ job'[h].holds = job[h].holds
         /\ Request(h) \in Requests
         /\ job'[h].phase \in {"admitted", "quoting", "generating"} => job[h].holds
         /\ job'[h].phase = "waiting" => ~job[h].holds
         /\ job'[h].phase \notin {"idle", "limiting"}
         /\ job'[h].phase = "saving" =>
              job'[h].row \in Rows /\ (job'[h].row.ok => job[h].holds)
<1>1. Typed /\ HandlerInv(h) /\ job[h] \in Jobs /\ job \in [Handlers -> Jobs] /\ now \in 0..MaxTime
  BY JobsOf DEF IInv, Typed
<1>2. Request(h) \in Requests
  BY <1>1 DEF Quiet, PassLimit, RateLimited, GiveUpWaiting, ReadCredit, Admit, Refuse, QuoteFails,
              ReturnUnlogged, FailUpstream, Complete, SaveSucceeds, SaveFails, HandlerInv, In
<1>3. active' = active
  BY DEF Quiet, PassLimit, RateLimited, GiveUpWaiting, Reject, ReadCredit, Admit, Refuse, QuoteFails,
         ReturnUnlogged, FailUpstream, Complete, SaveSucceeds, SaveFails
<1>4. CASE PassLimit(h)
  BY <1>1, <1>2, <1>3, <1>4 DEF PassLimit, HandlerInv, In, Request, Jobs
<1>5. CASE ReadCredit(h)
  BY <1>1, <1>2, <1>3, <1>5 DEF ReadCredit, HandlerInv, In, Request, Jobs
<1>6. CASE Admit(h)
  BY <1>1, <1>2, <1>3, <1>6 DEF Admit, HandlerInv, In, Request, Jobs
<1>7. CASE ReturnUnlogged(h)
  BY <1>1, <1>2, <1>3, <1>7 DEF ReturnUnlogged, HandlerInv, In, Request, Jobs
<1>8. CASE SaveSucceeds(h) \/ SaveFails(h)
  <2>1. job' = [job EXCEPT ![h].phase = "leaving"]
    BY <1>8 DEF SaveSucceeds, SaveFails
  <2> QED
    BY <1>1, <1>2, <1>3, <2>1 DEF Request, Jobs
<1>9. ASSUME NEW ceiling \in Nat, NEW at \in 0..MaxTime, Record(h, 0, FALSE, ceiling, at)
      PROVE  /\ job'[h].row \in Rows /\ ~job'[h].row.ok /\ job'[h].phase = "saving"
             /\ job'[h].request = Request(h) /\ job'[h].holds = job[h].holds
             /\ \A k \in Handlers \ {h} : job'[k] = job[k]
  BY <1>1, <1>2, <1>9, RecordKeepsJobs
<1>10. CASE \E cost \in Costs(h) : Complete(h, cost)
  <2>1. PICK cost \in Costs(h) : Complete(h, cost)
    BY <1>10
  <2>2. cost \in Nat /\ job[h].holds /\ job[h].ceiling \in Nat /\ job[h].started \in 0..MaxTime
    BY <1>1, <2>1 DEF Costs, Complete, HandlerInv, In, Jobs
  <2> QED
    BY <1>1, <1>2, <1>3, <2>1, <2>2, RecordKeepsJobs DEF Complete
<1>11. CASE (RateLimited(h) \/ GiveUpWaiting(h)) /\ Request(h).kind = "agent"
  BY <1>1, <1>2, <1>3, <1>11 DEF RateLimited, GiveUpWaiting, Reject, HandlerInv, In, Request, Jobs
<1>12. (RateLimited(h) \/ GiveUpWaiting(h)) /\ Request(h).kind # "agent" =>
        Record(h, 0, FALSE, 0, now)
  BY DEF RateLimited, GiveUpWaiting, Reject
<1>13. Refuse(h) \/ QuoteFails(h) => Record(h, 0, FALSE, 0, now)
  BY DEF Refuse, QuoteFails
<1>14. FailUpstream(h) => Record(h, 0, FALSE, job[h].ceiling, job[h].started)
  BY DEF FailUpstream
<1>15. job[h].ceiling \in Nat /\ job[h].started \in 0..MaxTime /\ 0 \in Nat
  BY <1>1 DEF Jobs
<1> QED
  BY <1>1, <1>2, <1>3, <1>4, <1>5, <1>6, <1>7, <1>8,
     <1>9, <1>10, <1>11, <1>12, <1>13, <1>14, <1>15 DEF Quiet

LEMMA QuietKeepsGuard ==
  ASSUME IInv, NEW h \in Handlers, Quiet(h)
  PROVE  (\A k \in Handlers : HandlerInv(k))' /\ OneHolder'
<1>1. \A k \in Handlers : job'[k].holds = job[k].holds /\ job'[k].request = job[k].request
  BY QuietSteps DEF Request
<1>2. OneHolder'
  BY <1>1 DEF OneHolder, IInv, Request
<1>3. HandlerInv(h)'
  BY QuietSteps DEF IInv, HandlerInv, In, Request
<1>4. \A k \in Handlers \ {h} : HandlerInv(k)'
  BY QuietSteps DEF IInv, HandlerInv, In, Request
<1> QED
  BY <1>2, <1>3, <1>4

LEMMA ArriveKeepsGuard ==
  ASSUME IInv, NEW h \in Handlers, NEW r \in Requests, Arrive(h, r)
  PROVE  (\A k \in Handlers : HandlerInv(k))' /\ OneHolder'
<1>1. /\ active' = active /\ ~job[h].holds
      /\ \A k \in Handlers \ {h} : job'[k] = job[k]
      /\ job'[h].request = r /\ job'[h].phase = "limiting" /\ ~job'[h].holds
  <2>1. job \in [Handlers -> Jobs] /\ HandlerInv(h)
    BY JobsOf DEF IInv
  <2> QED
    BY <2>1 DEF Arrive, HandlerInv, In, Jobs
<1>2. OneHolder'
  BY <1>1 DEF OneHolder, IInv, Request
<1>3. HandlerInv(h)'
  BY <1>1 DEF HandlerInv, In, Request
<1>4. \A k \in Handlers \ {h} : HandlerInv(k)'
  BY <1>1 DEF IInv, HandlerInv, In, Request
<1> QED
  BY <1>2, <1>3, <1>4

(* A free entry means that nobody holds the scope.                         *)
LEMMA AcquireKeepsGuard ==
  ASSUME IInv, NEW h \in Handlers, Acquire(h)
  PROVE  /\ (\A k \in Handlers : HandlerInv(k))' /\ OneHolder'
         /\ ~job[h].holds /\ job'[h].holds /\ Request(h)' = Request(h)
         /\ Request(h) \in Requests
         /\ \A k \in Handlers : job[k].holds => Scope(Request(k)) # Scope(Request(h))
         /\ \A k \in Handlers \ {h} : job'[k] = job[k]
<1> DEFINE s == Scope(Request(h))
<1>1. /\ job \in [Handlers -> Jobs] /\ HandlerInv(h) /\ Request(h) \in Requests /\ ~job[h].holds
      /\ active \in [Scopes -> Ids \cup {Nobody}]
  BY JobsOf DEF IInv, HandlerInv, Acquire, In, Typed, TypeOK
<1>2. s \in Scopes
  BY <1>1, ScopeOfRequest
<1>3. \A k \in Handlers : job[k].holds => Request(k) \in Requests
  <2>1. \A k \in Handlers : HandlerInv(k)
    BY DEF IInv
  <2> QED
    BY <2>1 DEF HandlerInv
<1>4. \A k \in Handlers : job[k].holds => Scope(Request(k)) # s
  <2> SUFFICES ASSUME NEW k \in Handlers, job[k].holds, Scope(Request(k)) = s PROVE FALSE
    OBVIOUS
  <2>1. active[s] = Request(k).id
    BY DEF IInv, HandlerInv
  <2>2. Request(k).id \in Ids
    BY <1>3, ScopeOfRequest
  <2> QED
    BY <2>1, <2>2, NobodyIsNoRequest DEF Acquire, Free
<1>5. /\ active' = [active EXCEPT ![s] = Request(h).id]
      /\ \A k \in Handlers \ {h} : job'[k] = job[k]
      /\ job'[h].request = Request(h) /\ job'[h].phase = "admitted" /\ job'[h].holds
  BY <1>1 DEF Acquire, Jobs, Request
<1> HIDE DEF s
<1>6. active'[s] = Request(h).id /\ \A t \in Scopes : t # s => active'[t] = active[t]
  BY <1>1, <1>2, <1>5
<1>7. HandlerInv(h)'
  BY <1>1, <1>5, <1>6 DEF HandlerInv, In, Request, s
<1>8. \A k \in Handlers \ {h} : HandlerInv(k)'
  <2> SUFFICES ASSUME NEW k \in Handlers \ {h} PROVE HandlerInv(k)'
    OBVIOUS
  <2>1. HandlerInv(k) /\ job'[k] = job[k]
    BY <1>5 DEF IInv
  <2>2. job[k].holds => active'[Scope(Request(k))] = active[Scope(Request(k))]
    BY <1>3, <1>4, <1>6, ScopeOfRequest
  <2> QED
    BY <2>1, <2>2 DEF HandlerInv, In, Request
<1>9. OneHolder'
  BY <1>4, <1>5 DEF OneHolder, IInv, Request, s
<1> QED
  BY <1>1, <1>4, <1>5, <1>7, <1>8, <1>9 DEF Request, s

(* A handler deletes only its own entry, and no other holds that scope.    *)
LEMMA LeaveKeepsGuard ==
  ASSUME IInv, NEW h \in Handlers, Leave(h)
  PROVE  /\ (\A k \in Handlers : HandlerInv(k))' /\ OneHolder'
         /\ job'[h] = NoJob /\ \A k \in Handlers \ {h} : job'[k] = job[k]
<1>1. /\ job'[h] = NoJob /\ ~NoJob.holds /\ NoJob.phase = "idle"
      /\ \A k \in Handlers \ {h} : job'[k] = job[k]
  <2>1. job \in [Handlers -> Jobs]
    BY JobsOf DEF IInv
  <2> QED
    BY <2>1 DEF Leave, NoJob
<1>2. OneHolder'
  BY <1>1 DEF OneHolder, IInv, Request
<1>3. HandlerInv(h)'
  BY <1>1 DEF HandlerInv, In, Request
<1>4. \A k \in Handlers \ {h} : HandlerInv(k)'
  <2> SUFFICES ASSUME NEW k \in Handlers \ {h} PROVE HandlerInv(k)'
    OBVIOUS
  <2>1. HandlerInv(k) /\ job'[k] = job[k]
    BY <1>1 DEF IInv
  <2>2. ASSUME job[k].holds PROVE active'[Scope(Request(k))] = active[Scope(Request(k))]
    <3>1. job[h].holds => Scope(Request(k)) # Scope(Request(h))
      BY <2>2 DEF IInv, OneHolder
    <3>2. active \in [Scopes -> Ids \cup {Nobody}]
      BY DEF IInv, Typed, TypeOK
    <3> QED
      BY <3>1, <3>2 DEF Leave, Release
  <2> QED
    BY <2>1, <2>2 DEF HandlerInv, In, Request
<1> QED
  BY <1>1, <1>2, <1>3, <1>4

LEMMA OthersKeepGuard ==
  ASSUME IInv, UNCHANGED <<job, active>>
  PROVE  (\A k \in Handlers : HandlerInv(k))' /\ OneHolder'
BY DEF IInv, HandlerInv, OneHolder, In, Request

(* The steps that concern no handler.                                      *)
WorldStep ==
  \/ \E e \in pending : RetrySucceeds(e) \/ RetriesExhausted(e)
  \/ \E n \in Bought : BuyTopup(n)
  \/ \E n \in 1..credit : Lapse(n)
  \/ \E h \in Handlers : ClientStalls(h) \/ ClientReads(h)
  \/ Tick

LEMMA StepsOf ==
  ASSUME Next
  PROVE  \/ \E h \in Handlers : \/ Quiet(h) \/ Acquire(h) \/ Leave(h)
                               \/ \E r \in Requests : Arrive(h, r)
         \/ WorldStep
BY DEF Next, Serve, Quiet, WorldStep

LEMMA WorldStays == WorldStep => UNCHANGED <<job, active>>
BY DEF WorldStep, RetrySucceeds, RetriesExhausted, BuyTopup, Lapse, Tick, ClientStalls, ClientReads

LEMMA InitIInv == Init => IInv
<1> SUFFICES ASSUME Init PROVE IInv
  OBVIOUS
<1>1. \A h \in Handlers : job[h] = NoJob
  BY DEF Init
<1>2. NoJob.phase = "idle" /\ ~NoJob.holds
  BY DEF NoJob
<1> QED
  BY <1>1, <1>2, InitTyped DEF IInv, HandlerInv, OneHolder, In, Request

LEMMA NextIInv == IInv /\ [Next]_vars => IInv'
<1> SUFFICES ASSUME IInv, [Next]_vars PROVE IInv'
  OBVIOUS
<1>1. CASE UNCHANGED vars
  <2>1. Typed'
    BY <1>1 DEF vars, tables, outbox, world, IInv, Typed, TypeOK
  <2> QED
    BY <1>1, <2>1, OthersKeepGuard DEF vars, IInv
<1>2. CASE WorldStep
  BY <1>2, WorldKeepsTyped, WorldStays, OthersKeepGuard DEF WorldStep, IInv
<1>3. ASSUME NEW h \in Handlers,
             Quiet(h) \/ Acquire(h) \/ Leave(h) \/ \E r \in Requests : Arrive(h, r)
      PROVE  IInv'
  <2>1. Typed'
    BY <1>3, WaitingKeepsTyped, GeneratingKeepsTyped, LeavingKeepsTyped DEF Quiet
  <2>2. (\A k \in Handlers : HandlerInv(k))' /\ OneHolder'
    BY <1>3, QuietKeepsGuard, AcquireKeepsGuard, LeaveKeepsGuard, ArriveKeepsGuard
  <2> QED
    BY <2>1, <2>2 DEF IInv
<1> QED
  BY <1>1, <1>2, <1>3, StepsOf

LEMMA Invariance == Spec => []IInv
BY InitIInv, NextIInv, PTL DEF Spec

(* Every state of the gateway is well typed, whatever the plan, the prices *)
(* and the number of requests and handlers.                                *)
THEOREM GatewayTypes == Spec => []TypeOK
<1>1. IInv => TypeOK
  BY DEF IInv, Typed
<1> QED
  BY <1>1, Invariance, PTL

(* The map of limiter.go lets one handler at a time into a scope: an entry *)
(* is overwritten by nobody and deleted only by the request it names.      *)
THEOREM GuardIsExclusive == Spec => ImplementsExclusiveScope
<1>1. Init => Guard!Init
  BY DEF Init, Guard!Init, Inside, NoJob
<1>2. ASSUME NEW h \in Handlers, job'[h].holds <=> job[h].holds,
             job[h].holds => Request(h)' = Request(h),
             \A k \in Handlers \ {h} : job'[k] = job[k]
      PROVE  Inside' = Inside
  BY <1>2 DEF Inside, Request
<1>3. ASSUME IInv, NEW h \in Handlers, Quiet(h) PROVE Inside' = Inside
  <2>1. /\ job'[h].holds = job[h].holds /\ Request(h)' = Request(h)
        /\ \A k \in Handlers \ {h} : job'[k] = job[k]
    BY <1>3, QuietSteps DEF Request
  <2> QED
    BY <1>2, <2>1
<1>4. ASSUME IInv, NEW h \in Handlers, NEW r \in Requests, Arrive(h, r) PROVE Inside' = Inside
  <2>1. job \in [Handlers -> Jobs] /\ HandlerInv(h)
    BY <1>4, JobsOf DEF IInv
  <2>2. /\ ~job[h].holds /\ ~job'[h].holds /\ \A k \in Handlers \ {h} : job'[k] = job[k]
    BY <1>4, <2>1 DEF Arrive, HandlerInv, In, Jobs
  <2> QED
    BY <1>2, <2>2
<1>5. ASSUME IInv, NEW h \in Handlers, Acquire(h)
      PROVE  Scope(Request(h)) \in Scopes /\ Guard!Enter(h, Scope(Request(h)))
  <2> DEFINE s == Scope(Request(h))
  <2>1. s \in Scopes
    BY <1>5, AcquireKeepsGuard, ScopeOfRequest
  <2>2. Inside[h] = Outside /\ \A k \in Handlers : Inside[k] # s
    BY <1>5, <2>1, AcquireKeepsGuard, NobodyIsNoRequest DEF Inside
  <2>3. Inside' = [Inside EXCEPT ![h] = s]
    BY <1>5, AcquireKeepsGuard DEF Inside, Request
  <2> QED
    BY <2>1, <2>2, <2>3 DEF Guard!Enter
<1>6. ASSUME IInv, NEW h \in Handlers, Leave(h) PROVE Guard!Leave(h) \/ Inside' = Inside
  <2>1. job'[h] = NoJob /\ ~NoJob.holds /\ \A k \in Handlers \ {h} : job'[k] = job[k]
    BY <1>6, LeaveKeepsGuard DEF NoJob
  <2>2. CASE ~job[h].holds
    BY <1>2, <2>1, <2>2
  <2>3. CASE job[h].holds
    <3>1. Inside[h] # Outside
      <4>1. HandlerInv(h)
        BY <1>6 DEF IInv
      <4>2. Request(h) \in Requests
        BY <1>6, <4>1 DEF Leave, HandlerInv, In
      <4> QED
        BY <2>3, <4>2, ScopeOfRequest, NobodyIsNoRequest DEF Inside
    <3>2. Inside' = [Inside EXCEPT ![h] = Outside]
      BY <2>1 DEF Inside, Request
    <3> QED
      BY <3>1, <3>2 DEF Guard!Leave
  <2> QED
    BY <2>2, <2>3
<1>7. ASSUME UNCHANGED job PROVE Inside' = Inside
  BY <1>7 DEF Inside, Request
<1>8. IInv /\ [Next]_vars => [Guard!Next]_Inside
  BY <1>3, <1>4, <1>5, <1>6, <1>7, StepsOf, WorldStays DEF vars, Guard!Next
<1> QED
  BY <1>1, <1>8, Invariance, PTL DEF Spec, ImplementsExclusiveScope, Guard!Spec

-----------------------------------------------------------------------------
(* Quotes and settlements *)

(* The credit, and what is missing of it because it lapsed under a quote.  *)
Cover == credit + (lapsed - unpaid)

(* What the windows and that cover leave for a request dated t, now.       *)
Room(t) == AvailableBudget(Plan, Spent(t), Cover)

(* What is known of a request between its quote and its settlement: the    *)
(* balances it was quoted from are still there, or lapsed under the quote. *)
QuoteInv(h) ==
  /\ In(h, "quoting") => job[h].seen.credit <= Cover /\ job[h].seen.at <= now
  /\ In(h, "generating") => job[h].ceiling <= Room(job[h].started)
  /\ In(h, "saving") /\ job[h].row.ok => job[h].row.ceiling <= Room(job[h].row.created)

Covered == unpaid <= lapsed /\ \A h \in Handlers : QuoteInv(h)

PaidInv ==
  /\ pending = {} /\ failures = 0
  /\ ~astride => Covered

LEMMA CoverIsNatural ==
  ASSUME Typed, unpaid <= lapsed
  PROVE  Cover \in Nat /\ credit <= Cover
BY DEF Cover, Typed, TypeOK

LEMMA SumsRise ==
  ASSUME NEW a, NEW b, NEW c, NEW d,
         a \in Nat, b \in Nat, c \in Nat, d \in Nat, a <= b
  PROVE  a + (c - d) <= b + (c - d)
OBVIOUS

LEMMA CoverRises ==
  ASSUME credit \in Nat, credit' \in Nat, lapsed \in Nat, unpaid \in Nat,
         credit <= credit', lapsed' = lapsed, unpaid' = unpaid
  PROVE  Cover <= Cover'
<1>1. credit + (lapsed - unpaid) <= credit' + (lapsed - unpaid)
  BY SumsRise
<1>2. Cover' = credit' + (lapsed - unpaid)
  BY DEF Cover
<1> QED
  BY <1>1, <1>2 DEF Cover

(* Less spending and more credit leave more room.                          *)
LEMMA RoomRises ==
  ASSUME NEW s, NEW r, NEW c \in Nat, NEW d \in Nat, c <= d,
         \A w \in Plan : s[w] \in Nat /\ r[w] \in Nat /\ r[w] <= s[w]
  PROVE  /\ AvailableBudget(Plan, s, c) \in Nat /\ AvailableBudget(Plan, r, d) \in Nat
         /\ AvailableBudget(Plan, s, c) <= AvailableBudget(Plan, r, d)
<1> DEFINE S == {Positive(w.budget - s[w] + c) : w \in Plan}
           R == {Positive(w.budget - r[w] + d) : w \in Plan}
<1>1. /\ \A w \in Plan : /\ Positive(w.budget - s[w] + c) \in Nat
                         /\ Positive(w.budget - r[w] + d) \in Nat
                         /\ Positive(w.budget - s[w] + c) <= Positive(w.budget - r[w] + d)
  BY GatewayAssumption DEF Positive
<1>2. S \in SUBSET Nat /\ S # {} /\ R \in SUBSET Nat /\ R # {}
  BY <1>1, GatewayAssumption
<1>3. \A x \in R : \E y \in S : y <= x
  BY <1>1
<1>4. AvailableBudget(Plan, s, c) = Min(S) /\ AvailableBudget(Plan, r, d) = Min(R)
  BY DEF AvailableBudget
<1> HIDE DEF S, R
<1>5. /\ Min(S) \in S /\ \A x \in S : Min(S) <= x
      /\ Min(R) \in R
  BY <1>2, MinOfNaturals
<1>6. PICK y \in S : y <= Min(R)
  BY <1>3, <1>5
<1>7. Min(S) \in Nat /\ Min(R) \in Nat /\ y \in Nat /\ Min(S) <= y
  BY <1>2, <1>5, <1>6
<1>8. Min(S) <= Min(R)
  BY <1>6, <1>7
<1> QED
  BY <1>4, <1>7, <1>8

(* A row that failed spends nothing.                                       *)
LEMMA FailedRowsAreFree ==
  ASSUME Typed, NEW e \in Rows, ~e.ok, Settle(e)
  PROVE  /\ credit' = credit /\ unpaid' = unpaid
         /\ \A t : Spent(t)' = Spent(t)
<1>1. CASE e.id \in DOMAIN logs
  BY <1>1 DEF Settle, tables, Spent, SpentSince
<1>2. CASE e.id \notin DOMAIN logs
  <2>1. /\ credit \in Nat /\ unpaid \in Nat /\ e.created \in Nat
    BY DEF Typed, TypeOK, Rows
  <2>2. ChargeOf(e) = 0
    <3>1. SettledCost(e) = 0
      BY DEF SettledCost
    <3> QED
      BY <3>1, ChargeIsNatural
  <2>3. Min({ChargeOf(e), credit}) = 0
    BY <2>1, <2>2, MinOfTwo
  <2>4. credit' = credit /\ unpaid' = unpaid
    BY <1>2, <2>1, <2>2, <2>3 DEF Settle
  <2>5. logs' = Insert(e)
    BY <1>2 DEF Settle
  <2>6. ASSUME NEW f PROVE SpentSince(logs, f)' = SpentSince(logs, f)
    <3>1. SuccessfulSince(logs', f) = SuccessfulSince(logs, f)
      BY <1>2, <2>5 DEF SuccessfulSince, Insert
    <3>2. \A i \in SuccessfulSince(logs, f) : Cost(logs')[i] = Cost(logs)[i]
      BY <1>2, <2>5 DEF SuccessfulSince, Insert, Cost
    <3> QED
      BY <3>1, <3>2, SumAgree DEF SpentSince
  <2> QED
    BY <2>4, <2>6 DEF Spent
<1> QED
  BY <1>1, <1>2

(* A settlement within the room of its row finds the credit it takes, but  *)
(* for what lapsed.                                                        *)
LEMMA CoveredRowsArePaid ==
  ASSUME Typed, unpaid <= lapsed,
         NEW e \in Rows, e.ok => e.ceiling <= Room(e.created), Settle(e)
  PROVE  unpaid' <= lapsed
<1>1. CASE e.id \in DOMAIN logs
  BY <1>1 DEF Settle, tables
<1>2. CASE ~e.ok
  BY <1>2, FailedRowsAreFree
<1>3. CASE e.ok /\ e.id \notin DOMAIN logs
  <2>1. /\ credit \in Nat /\ unpaid \in Nat /\ lapsed \in Nat /\ e.created \in Nat
        /\ SettledCost(e) \in Nat /\ ChargeOf(e) \in Nat /\ Cover \in Nat
    BY ChargeIsNatural, CoverIsNatural DEF Typed, TypeOK, Rows
  <2>2. SettledCost(e) <= e.ceiling /\ e.ceiling \in Nat
    BY <1>3, MinOfTwo DEF SettledCost, Rows
  <2>3. \A w \in Plan : w.budget \in Nat /\ Spent(e.created)[w] \in Nat
    BY <2>1, SpentByWindow, GatewayAssumption
  <2>4. SettledCost(e) <= AvailableBudget(Plan, Spent(e.created), Cover)
    <3>1. AvailableBudget(Plan, Spent(e.created), Cover) \in Nat
      BY <2>1, AvailableIsNatural
    <3> QED
      BY <1>3, <2>1, <2>2, <3>1 DEF Room
  <2>5. ChargeOf(e) <= Cover
    BY <2>1, <2>3, <2>4, QuotedCostIsCovered, GatewayAssumption DEF ChargeOf
  <2>6. \/ Min({ChargeOf(e), credit}) = ChargeOf(e)
        \/ Min({ChargeOf(e), credit}) = credit
    <3>1. {ChargeOf(e), credit} \in SUBSET Nat
      BY <2>1
    <3> HIDE DEF Min
    <3> QED
      BY <3>1, MinOfNaturals
  <2>7. unpaid' = unpaid + (ChargeOf(e) - Min({ChargeOf(e), credit}))
    BY <1>3 DEF Settle
  <2> QED
    BY <2>1, <2>5, <2>6, <2>7 DEF Cover
<1> QED
  BY <1>1, <1>2, <1>3

(* Only requests that take the scope of their user, and a database that    *)
(* never fails.                                                            *)
Interactive == (\A r \in Requests : r.kind # "batch") /\ MaxFailures = 0

(* The one who is inside is the only one with a quote.                     *)
LEMMA OneQuote ==
  ASSUME Interactive, IInv, NEW h \in Handlers, NEW k \in Handlers \ {h},
         job[h].holds, Request(h) \in Requests
  PROVE  /\ ~job[k].holds
         /\ ~In(k, "quoting") /\ ~In(k, "generating") /\ ~(In(k, "saving") /\ job[k].row.ok)
<1>1. HandlerInv(k) /\ Scope(Request(h)) = User
  BY DEF IInv, Interactive, Scope
<1>2. ~job[k].holds
  <2> SUFFICES ASSUME job[k].holds PROVE FALSE
    OBVIOUS
  <2>1. Request(k) \in Requests
    BY <1>1 DEF HandlerInv, In
  <2>2. Scope(Request(k)) = User
    BY <2>1 DEF Interactive, Scope
  <2> QED
    BY <1>1, <2>2 DEF IInv, OneHolder
<1> QED
  BY <1>1, <1>2 DEF HandlerInv

(* Balances that do not get worse keep the promise of a quote.             *)
LEMMA QuotesStay ==
  ASSUME IInv, IInv', NEW k \in Handlers, QuoteInv(k), job'[k] = job[k],
         Cover \in Nat, Cover <= Cover', now <= now', \A t : Spent(t)' = Spent(t)
  PROVE  QuoteInv(k)'
<1>1. /\ Cover \in Nat /\ Cover' \in Nat /\ now \in Nat /\ now' \in Nat
      /\ job[k] \in Jobs
  <2>1. Typed /\ Typed'
    BY DEF IInv
  <2>2. now \in Nat /\ now' \in Nat /\ credit' \in Nat /\ lapsed' \in Nat /\ unpaid' \in Nat
    BY <2>1 DEF Typed, TypeOK
  <2>3. Cover' \in Int
    BY <2>2 DEF Cover
  <2> QED
    BY <2>1, <2>2, <2>3, JobsOf
<1>2. ASSUME NEW t \in Nat
      PROVE  Room(t) \in Nat /\ Room(t)' \in Nat /\ Room(t) <= Room(t)'
  <2>1. \A w \in Plan : Spent(t)[w] \in Nat
    BY <1>2, SpentByWindow DEF IInv
  <2>2. Room(t)' = AvailableBudget(Plan, Spent(t), Cover')
    BY DEF Room
  <2> QED
    BY <1>1, <2>1, <2>2, RoomRises DEF Room
<1>3. CASE In(k, "quoting")
  BY <1>1, <1>3 DEF QuoteInv, In, Jobs
<1>4. CASE In(k, "generating")
  <2>1. job[k].started \in Nat /\ job[k].ceiling \in Nat /\ job[k].ceiling <= Room(job[k].started)
    BY <1>1, <1>4 DEF QuoteInv, Jobs
  <2>2. job[k].ceiling <= Room(job[k].started)'
    BY <1>2, <2>1
  <2> QED
    BY <1>4, <2>2 DEF QuoteInv, In
<1>5. CASE In(k, "saving") /\ job[k].row.ok
  <2>1. job[k].row \in Rows
    BY <1>5 DEF IInv, HandlerInv
  <2>2. /\ job[k].row.created \in Nat /\ job[k].row.ceiling \in Nat
        /\ job[k].row.ceiling <= Room(job[k].row.created)
    BY <1>5, <2>1 DEF QuoteInv, Rows
  <2>3. job[k].row.ceiling <= Room(job[k].row.created)'
    BY <1>2, <2>2
  <2> QED
    BY <1>5, <2>3 DEF QuoteInv, In
<1> QED
  BY <1>3, <1>4, <1>5 DEF QuoteInv, In

LEMMA SpentStays ==
  ASSUME UNCHANGED logs, NEW t
  PROVE  Spent(t)' = Spent(t)
BY DEF Spent, SpentSince

(* A quote is priced at the balances it read, and these are still there: a *)
(* row dated now counts no more spending, nor does one dated in the same   *)
(* periods.                                                                *)
LEMMA AdmitQuotes ==
  ASSUME IInv, IInv', NEW h \in Handlers, unpaid <= lapsed, ~astride', QuoteInv(h), Admit(h)
  PROVE  QuoteInv(h)'
<1> DEFINE seen == job[h].seen
           dated == job'[h].started
<1>1. /\ job \in [Handlers -> Jobs] /\ Request(h) \in Requests /\ job[h].started \in Nat
      /\ seen.credit \in Nat /\ seen.at \in Nat /\ Cover \in Nat /\ now \in Nat
      /\ seen.credit <= Cover /\ seen.at <= now
  <2>1. Typed /\ HandlerInv(h) /\ job[h] \in Jobs
    BY JobsOf DEF IInv
  <2> QED
    BY <2>1, JobsOf, CoverIsNatural DEF Admit, HandlerInv, QuoteInv, In, Typed, TypeOK, Jobs
<1>2. /\ job'[h].phase = "generating"
      /\ dated = IF DatedFirst(Request(h)) THEN job[h].started ELSE now
      /\ job'[h].ceiling = Min({Request(h).price, Available(h)})
      /\ UNCHANGED <<logs, credit, unpaid, lapsed>>
  BY <1>1 DEF Admit, Jobs, tables
<1>3. dated \in Nat
  BY <1>1, <1>2
<1>4. ASSUME NEW w \in Plan
      PROVE  /\ WindowFloor(Account, w, seen.at) \in Int /\ WindowFloor(Account, w, dated) \in Int
             /\ WindowFloor(Account, w, seen.at) <= WindowFloor(Account, w, dated)
  <2>1. WindowFloor(Account, w, seen.at) \in Int /\ WindowFloor(Account, w, dated) \in Int
    BY <1>1, <1>3, FloorOfWindow, GatewayAssumption
  <2>2. CASE DatedFirst(Request(h))
    <3>1. ~Astride(h)
      BY <2>2 DEF Admit
    <3>2. WindowFloor(Account, w, dated) = WindowFloor(Account, w, seen.at)
      BY <1>2, <2>2, <3>1 DEF Astride
    <3> QED
      BY <2>1, <3>2
  <2>3. CASE ~DatedFirst(Request(h))
    BY <1>1, <1>2, <2>1, <2>3, FloorsRise
  <2> QED
    BY <2>1, <2>2, <2>3
<1> HIDE DEF dated
<1>5. \A w \in Plan : /\ Spent(seen.at)[w] \in Nat /\ Spent(dated)[w] \in Nat
                     /\ Spent(dated)[w] <= Spent(seen.at)[w]
  <2> SUFFICES ASSUME NEW w \in Plan
               PROVE  /\ Spent(seen.at)[w] \in Nat /\ Spent(dated)[w] \in Nat
                      /\ Spent(dated)[w] <= Spent(seen.at)[w]
    OBVIOUS
  <2>1. Typed
    BY DEF IInv
  <2> QED
    BY <1>1, <1>3, <1>4, <2>1, SpentByWindow, SpentFalls
<1>6. Available(h) \in Nat /\ Available(h) <= Room(dated) /\ Room(dated) \in Nat
  BY <1>1, <1>5, RoomRises DEF Available, Room
<1>7. job'[h].ceiling <= Room(dated)
  <2>1. job'[h].ceiling <= Available(h) /\ job'[h].ceiling \in Nat
    BY <1>1, <1>2, <1>6, MinOfTwo, GatewayAssumption
  <2> QED
    BY <1>6, <2>1
<1>8. Room(job[h].started)' = Room(dated)
  BY <1>2, SpentStays DEF Room, Cover, dated
<1> QED
  BY <1>2, <1>7, <1>8 DEF QuoteInv, In

(* The other steps of a handler that leave the tables alone.               *)
LEMMA HandlerQuotes ==
  ASSUME IInv, IInv', NEW h \in Handlers, unpaid <= lapsed, QuoteInv(h),
         UNCHANGED <<tables, lapsed>>,
         \/ PassLimit(h) \/ RateLimited(h) \/ Acquire(h) \/ GiveUpWaiting(h)
         \/ ReadCredit(h) \/ Refuse(h) \/ QuoteFails(h) \/ ReturnUnlogged(h)
         \/ FailUpstream(h) \/ \E cost \in Costs(h) : Complete(h, cost)
         \/ Leave(h) \/ \E r \in Requests : Arrive(h, r)
  PROVE  QuoteInv(h)'
<1>1. Typed /\ HandlerInv(h) /\ job[h] \in Jobs /\ job \in [Handlers -> Jobs]
      /\ credit \in Nat /\ now \in 0..MaxTime /\ Cover \in Nat /\ credit <= Cover
      /\ Cover' = Cover
  BY JobsOf, CoverIsNatural DEF IInv, Typed, TypeOK, Cover, tables
<1>2. CASE ReadCredit(h)
  <2>1. /\ job'[h].phase = "quoting" /\ job'[h].seen = [credit |-> credit, at |-> now]
        /\ now' = now
    BY <1>1, <1>2 DEF ReadCredit, Jobs, tables, world
  <2>2. job'[h].seen.credit = credit /\ job'[h].seen.at = now
    BY <2>1
  <2> QED
    BY <1>1, <2>1, <2>2 DEF QuoteInv, In
<1>3. CASE \E cost \in Costs(h) : Complete(h, cost)
  <2>1. PICK cost \in Costs(h) : Complete(h, cost)
    BY <1>3
  <2>2. /\ Request(h) \in Requests /\ cost \in Nat
        /\ job[h].ceiling \in Nat /\ job[h].started \in 0..MaxTime
    BY <1>1, <2>1 DEF Complete, HandlerInv, In, Costs, Jobs
  <2>3. /\ job'[h].phase = "saving" /\ job'[h].row.ceiling = job[h].ceiling
        /\ job'[h].row.created = job[h].started
    BY <1>1, <2>1 DEF Complete, Record, Jobs
  <2>4. job[h].ceiling <= Room(job[h].started)
    BY <2>1 DEF QuoteInv, Complete
  <2>5. Room(job[h].started) = Room(job[h].row.created)'
    BY <1>1, <2>3, SpentStays DEF Room, tables
  <2> QED
    BY <2>3, <2>4, <2>5 DEF QuoteInv, In
<1>4. ASSUME NEW ceiling \in Nat, NEW at \in 0..MaxTime, Request(h) \in Requests,
             Record(h, 0, FALSE, ceiling, at)
      PROVE  QuoteInv(h)'
  <2>1. job'[h].phase = "saving" /\ ~job'[h].row.ok
    BY <1>1, <1>4, RecordKeepsJobs
  <2> QED
    BY <2>1 DEF QuoteInv, In
<1>5. CASE /\ \/ RateLimited(h) \/ GiveUpWaiting(h) \/ Refuse(h) \/ QuoteFails(h)
              \/ FailUpstream(h)
           /\ ~((RateLimited(h) \/ GiveUpWaiting(h)) /\ Request(h).kind = "agent")
  <2>1. Request(h) \in Requests
    BY <1>1, <1>5 DEF RateLimited, GiveUpWaiting, Refuse, QuoteFails, FailUpstream, HandlerInv, In
  <2>3. \/ Record(h, 0, FALSE, 0, now)
        \/ Record(h, 0, FALSE, job[h].ceiling, job[h].started)
    BY <1>5 DEF RateLimited, GiveUpWaiting, Reject, Refuse, QuoteFails, FailUpstream
  <2>4. 0 \in Nat /\ job[h].ceiling \in Nat /\ job[h].started \in 0..MaxTime
    BY <1>1 DEF Jobs
  <2> QED
    BY <1>1, <1>4, <2>1, <2>3, <2>4
<1>6. CASE \/ PassLimit(h) \/ Acquire(h) \/ ReturnUnlogged(h) \/ Leave(h)
           \/ \E r \in Requests : Arrive(h, r)
           \/ (RateLimited(h) \/ GiveUpWaiting(h)) /\ Request(h).kind = "agent"
  <2>1. job'[h].phase \in {"waiting", "admitted", "leaving", "idle", "limiting"}
    <3>1. CASE (RateLimited(h) \/ GiveUpWaiting(h)) /\ Request(h).kind = "agent"
      BY <1>1, <3>1 DEF RateLimited, GiveUpWaiting, Reject, Jobs
    <3>2. CASE PassLimit(h) \/ Acquire(h) \/ ReturnUnlogged(h)
      BY <1>1, <3>2 DEF PassLimit, Acquire, ReturnUnlogged, Jobs
    <3>3. CASE Leave(h) \/ \E r \in Requests : Arrive(h, r)
      BY <1>1, <3>3 DEF Leave, Arrive, NoJob, Jobs
    <3> QED
      BY <1>6, <3>1, <3>2, <3>3
  <2> QED
    BY <2>1 DEF QuoteInv, In
<1> QED
  BY <1>2, <1>3, <1>5, <1>6

LEMMA InitPaid == ASSUME Init PROVE PaidInv
BY DEF Init, PaidInv, Covered, QuoteInv, In, NoJob

(* A lapse takes from the credit what it adds to the excuse, if anyone has *)
(* a quote, and disturbs no quote otherwise.                               *)
LEMMA LapseQuotes ==
  ASSUME IInv, IInv', Covered, NEW n \in 1..credit, Lapse(n)
  PROVE  Covered'
<1>1. /\ unpaid \in Nat /\ lapsed \in Nat /\ credit \in Nat /\ n \in Nat /\ now \in Nat
      /\ Typed /\ UNCHANGED <<job, logs, unpaid, now>> /\ credit' = credit - n
  BY DEF IInv, Typed, TypeOK, Lapse, Covered
<1>2. CASE \E h \in Handlers : Quoted(h)
  <2>1. lapsed' = lapsed + n /\ unpaid' <= lapsed'
    BY <1>1, <1>2 DEF Lapse, Covered
  <2>2. Cover' = Cover /\ Cover \in Nat
    BY <1>1, <2>1, CoverIsNatural DEF Cover, Covered
  <2> QED
    BY <1>1, <2>1, <2>2, QuotesStay, SpentStays DEF Covered
<1>3. CASE \A h \in Handlers : ~Quoted(h)
  <2>1. lapsed' = lapsed
    BY <1>3 DEF Lapse
  <2>2. \A h \in Handlers : QuoteInv(h)'
    BY <1>1, <1>3 DEF Quoted, QuoteInv, In
  <2> QED
    BY <1>1, <2>1, <2>2 DEF Covered
<1> QED
  BY <1>2, <1>3

(* What a step does while the quotes are covered and no row is astride a   *)
(* boundary.                                                               *)
LEMMA NextCovered ==
  ASSUME Interactive, IInv, IInv', pending = {}, failures = 0, Covered, ~astride', [Next]_vars
  PROVE  Covered'
<1>1. MaxFailures = 0 /\ unpaid <= lapsed /\ \A h \in Handlers : QuoteInv(h)
  BY DEF Covered, Interactive
<1>2. /\ credit \in Nat /\ credit' \in Nat /\ now \in Nat /\ now' \in Nat
      /\ Cover \in Nat /\ lapsed \in Nat /\ unpaid \in Nat
  BY <1>1, CoverIsNatural DEF IInv, Typed, TypeOK
<1>3. CASE UNCHANGED <<job, lapsed, unpaid, logs>> /\ credit <= credit' /\ now <= now'
  <2>1. Cover <= Cover'
    BY <1>2, <1>3, CoverRises
  <2> QED
    BY <1>1, <1>2, <1>3, <2>1, QuotesStay, SpentStays DEF Covered
<1>4. CASE WorldStep
  <2>1. CASE \/ \E n \in Bought : BuyTopup(n)
             \/ \E h \in Handlers : ClientStalls(h) \/ ClientReads(h)
             \/ Tick
    BY <1>2, <1>3, <2>1, GatewayAssumption
       DEF BuyTopup, Tick, ClientStalls, ClientReads, outbox, tables
  <2>2. CASE \E n \in 1..credit : Lapse(n)
    BY <2>2, LapseQuotes
  <2> QED
    BY <1>4, <2>1, <2>2 DEF WorldStep
<1>5. ASSUME NEW h \in Handlers, UNCHANGED <<tables, lapsed, now>>, QuoteInv(h)',
             \A k \in Handlers \ {h} : job'[k] = job[k]
      PROVE  Covered'
  <2>1. Cover' = Cover
    BY <1>5 DEF Cover, tables
  <2>2. \A k \in Handlers \ {h} : QuoteInv(k)'
    BY <1>1, <1>2, <1>5, <2>1, QuotesStay, SpentStays DEF tables
  <2> QED
    BY <1>1, <1>5, <2>2 DEF Covered, tables
<1>6. ASSUME NEW h \in Handlers, SaveSucceeds(h)
      PROVE  Covered'
  <2> DEFINE e == job[h].row
  <2>1. /\ e \in Rows /\ (e.ok => job[h].holds) /\ Request(h) \in Requests
        /\ e.ok => e.ceiling <= Room(e.created)
        /\ Settle(e)
    <3>1. HandlerInv(h) /\ QuoteInv(h)
      BY <1>1 DEF IInv
    <3> QED
      BY <1>6, <3>1 DEF SaveSucceeds, HandlerInv, QuoteInv, In
  <2>2. lapsed' = lapsed /\ now' = now
    BY <1>6 DEF SaveSucceeds, world
  <2>3. unpaid' <= lapsed'
    BY <1>1, <2>1, <2>2, CoveredRowsArePaid DEF IInv
  <2>4. job'[h].phase = "leaving" /\ \A k \in Handlers \ {h} : job'[k] = job[k]
    BY <1>6, JobsOf DEF SaveSucceeds, IInv, Jobs
  <2>5. QuoteInv(h)'
    BY <2>4 DEF QuoteInv, In
  <2>6. ASSUME NEW k \in Handlers \ {h} PROVE QuoteInv(k)'
    <3>1. CASE e.ok
      <4>1. ~In(k, "quoting") /\ ~In(k, "generating") /\ ~(In(k, "saving") /\ job[k].row.ok)
        BY <2>1, <3>1, OneQuote
      <4> QED
        BY <2>4, <4>1 DEF QuoteInv, In
    <3>2. CASE ~e.ok
      <4>1. credit' = credit /\ unpaid' = unpaid /\ \A t : Spent(t)' = Spent(t)
        BY <2>1, <3>2, FailedRowsAreFree DEF IInv
      <4>2. Cover' = Cover
        BY <2>2, <4>1 DEF Cover
      <4> QED
        BY <1>1, <1>2, <2>2, <2>4, <4>1, <4>2, QuotesStay
    <3> QED
      BY <3>1, <3>2
  <2> QED
    BY <2>3, <2>5, <2>6 DEF Covered
<1>7. ASSUME NEW h \in Handlers, SaveFails(h) PROVE FALSE
  BY <1>1, <1>7 DEF SaveFails
<1>8. ASSUME NEW h \in Handlers,
             Quiet(h) \/ Acquire(h) \/ Leave(h) \/ \E r \in Requests : Arrive(h, r),
             ~SaveSucceeds(h), ~SaveFails(h)
      PROVE  Covered'
  <2>1. UNCHANGED <<tables, lapsed, now>>
    BY <1>8 DEF Quiet, Acquire, Leave, Arrive, PassLimit, RateLimited, GiveUpWaiting, Reject,
                ReadCredit, Admit, Refuse, QuoteFails, ReturnUnlogged, FailUpstream, Complete, world
  <2>2. \A k \in Handlers \ {h} : job'[k] = job[k]
    BY <1>8, QuietSteps, AcquireKeepsGuard, LeaveKeepsGuard, JobsOf DEF Arrive, IInv
  <2>3. QuoteInv(h)'
    BY <1>1, <1>8, <2>1, AdmitQuotes, HandlerQuotes DEF Quiet
  <2> QED
    BY <1>5, <2>1, <2>2, <2>3
<1>9. CASE UNCHANGED vars
  BY <1>2, <1>3, <1>9 DEF vars, tables, world
<1> QED
  BY <1>4, <1>6, <1>7, <1>8, <1>9, StepsOf

(* No settlement fails, and what was astride a boundary stays on record.   *)
LEMMA NextPaid ==
  ASSUME Interactive, IInv, IInv', PaidInv, [Next]_vars
  PROVE  PaidInv'
<1>1. MaxFailures = 0 /\ failures = 0 /\ pending = {}
  BY DEF PaidInv, Interactive
<1>2. /\ pending' = {} /\ failures' = 0
      /\ astride => astride'
  <2>1. CASE UNCHANGED vars
    BY <1>1, <2>1 DEF vars, outbox, world
  <2>2. CASE WorldStep
    BY <1>1, <2>2 DEF WorldStep, BuyTopup, Lapse, Tick, ClientStalls, ClientReads, outbox
  <2>3. ASSUME NEW h \in Handlers, Admit(h)
        PROVE  pending' = {} /\ failures' = 0 /\ (astride => astride')
    BY <1>1, <2>3 DEF Admit, outbox
  <2>4. ASSUME NEW h \in Handlers,
               Quiet(h) \/ Acquire(h) \/ Leave(h) \/ \E r \in Requests : Arrive(h, r),
               ~Admit(h)
        PROVE  pending' = {} /\ failures' = 0 /\ astride' = astride
    <3>1. UNCHANGED <<pending, failures, astride>>
      <4>1. ~SaveFails(h)
        BY <1>1 DEF SaveFails
      <4>2. CASE Acquire(h) \/ Leave(h) \/ \E r \in Requests : Arrive(h, r)
        BY <4>2 DEF Acquire, Leave, Arrive, outbox, world
      <4>3. CASE Quiet(h)
        BY <2>4, <4>1, <4>3 DEF Quiet, PassLimit, RateLimited, GiveUpWaiting, Reject, ReadCredit,
             Refuse, QuoteFails, ReturnUnlogged, FailUpstream, Complete, SaveSucceeds, outbox, world
      <4> QED
        BY <2>4, <4>2, <4>3
    <3> QED
      BY <1>1, <3>1
  <2> QED
    BY <2>1, <2>2, <2>3, <2>4, StepsOf
<1>3. ASSUME ~astride' PROVE Covered'
  BY <1>1, <1>2, <1>3, NextCovered DEF PaidInv
<1> QED
  BY <1>2, <1>3 DEF PaidInv

(* One generation at a time may spend what it was quoted: with the guard,  *)
(* a database that answers and no batch beside it, and as long as no       *)
(* period ended between the date of a row and its quote, a settlement      *)
(* misses only credit that lapsed under a quote, whatever the plan, the    *)
(* prices, the clock and the usage the upstream reports.                   *)
THEOREM QuotesAreCovered ==
  ASSUME Interactive
  PROVE  Spec => []OnlyLapsesGoUnpaid
<1>1. Init => IInv /\ PaidInv
  BY InitIInv, InitPaid
<1>2. IInv /\ PaidInv /\ [Next]_vars => (IInv /\ PaidInv)'
  BY NextIInv, NextPaid
<1>3. IInv /\ PaidInv => OnlyLapsesGoUnpaid
  BY DEF PaidInv, Covered, OnlyLapsesGoUnpaid
<1> QED
  BY <1>1, <1>2, <1>3, PTL DEF Spec

-----------------------------------------------------------------------------
(* The story of an id that arrived once *)

(* The handlers that serve the id, those that have not done with it, and   *)
(* those about to save its answer; its rows in the outbox.                 *)
Servers(i) == {h \in Handlers : ~In(h, "idle") /\ Request(h).id = i}
Working(i) == {h \in Servers(i) : ~In(h, "leaving")}
Answering(i) == {h \in Working(i) : In(h, "saving") /\ job[h].row.ok}
Queue(i) == {e \in pending \cup lost : e.id = i}

Unrecorded(i) == i \notin DOMAIN logs /\ Queue(i) = {}
RowsAreOk(i) == (i \in DOMAIN logs => logs[i].ok) /\ \A e \in Queue(i) : e.ok

(* One handler serves it; while it works the id has no row anywhere; an    *)
(* answered id is being saved, or its rows are there and all say ok.       *)
Story(i) ==
  arrivals[i] <= 1 =>
    /\ Servers(i) # {} => arrivals[i] = 1
    /\ \A h, k \in Servers(i) : h = k
    /\ arrivals[i] = 0 \/ Working(i) # {} => Unrecorded(i)
    /\ i \in answered =>
         /\ arrivals[i] = 1 /\ RowsAreOk(i)
         /\ Answering(i) # {} \/ (Working(i) = {} /\ ~Unrecorded(i))

OwnRows == \A h \in Handlers : In(h, "saving") => job[h].row.id = Request(h).id

StoryInv ==
  /\ arrivals \in [Ids -> Nat] /\ OwnRows
  /\ \A i \in Ids : Story(i)

(* A step that concerns other ids.                                         *)
LEMMA StoryStays ==
  ASSUME NEW i \in Ids, Story(i), arrivals'[i] = arrivals[i],
         Servers(i)' = Servers(i), Working(i)' = Working(i), Answering(i)' = Answering(i),
         Queue(i)' = Queue(i), i \in DOMAIN logs' <=> i \in DOMAIN logs,
         i \in DOMAIN logs => logs'[i] = logs[i], i \in answered' <=> i \in answered
  PROVE  Story(i)'
<1>1. Unrecorded(i)' <=> Unrecorded(i)
  BY DEF Unrecorded
<1>2. RowsAreOk(i) => RowsAreOk(i)'
  BY DEF RowsAreOk
<1> QED
  BY <1>1, <1>2 DEF Story

(* A handler changes its job in the service of one id.                     *)
LEMMA OthersServe ==
  ASSUME NEW h \in Handlers, NEW i \in Ids, Request(h).id # i \/ In(h, "idle"),
         job'[h].phase = "idle" \/ job'[h].request.id # i,
         \A k \in Handlers \ {h} : job'[k] = job[k]
  PROVE  Servers(i)' = Servers(i) /\ Working(i)' = Working(i) /\ Answering(i)' = Answering(i)
<1>1. \A k \in Handlers : k \in Servers(i)' <=> k \in Servers(i)
  BY DEF Servers, In, Request
<1>2. Servers(i)' = Servers(i) /\ h \notin Servers(i)
  BY <1>1 DEF Servers
<1>3. \A k \in Servers(i) : job'[k] = job[k]
  BY <1>2 DEF Servers
<1>4. Working(i)' = Working(i)
  BY <1>2, <1>3 DEF Working, In
<1>5. Answering(i)' = Answering(i)
  BY <1>3, <1>4 DEF Answering, Working, In
<1> QED
  BY <1>2, <1>4, <1>5

(* Of an id that came once, the handler that works on it is the only one,  *)
(* and until it has answered nothing is known of the id.                   *)
LEMMA OneWorker ==
  ASSUME NEW h \in Handlers, NEW i \in Ids, Story(i), arrivals[i] <= 1,
         h \in Working(i)
  PROVE  /\ arrivals[i] = 1 /\ Servers(i) = {h} /\ Working(i) = {h} /\ Unrecorded(i)
         /\ ~(In(h, "saving") /\ job[h].row.ok) => i \notin answered
<1>1. h \in Servers(i)
  BY DEF Working
<1>2. Servers(i) = {h} /\ Working(i) = {h}
  BY <1>1 DEF Story, Working
<1>3. arrivals[i] = 1 /\ Unrecorded(i)
  BY <1>2 DEF Story
<1>4. ASSUME i \in answered PROVE In(h, "saving") /\ job[h].row.ok
  <2>1. Answering(i) # {}
    BY <1>2, <1>4 DEF Story
  <2> QED
    BY <1>2, <2>1 DEF Answering
<1> QED
  BY <1>2, <1>3, <1>4

(* Before the answer.                                                      *)
LEMMA WorkKeepsStory ==
  ASSUME NEW h \in Handlers, NEW i \in Ids, Story(i),
         job[h].phase \notin {"idle", "saving", "leaving"},
         job'[h].request = Request(h), job'[h].phase # "idle",
         job'[h].phase = "saving" => ~job'[h].row.ok,
         \A k \in Handlers \ {h} : job'[k] = job[k],
         UNCHANGED <<logs, pending, lost, answered, arrivals>>
  PROVE  Story(i)'
<1>1. CASE Request(h).id # i
  BY <1>1, OthersServe, StoryStays DEF Queue
<1>2. CASE Request(h).id = i
  <2> SUFFICES ASSUME arrivals[i] <= 1 PROVE Story(i)'
    BY DEF Story
  <2>1. h \in Working(i) /\ ~In(h, "saving")
    BY <1>2 DEF Working, Servers, In
  <2>2. arrivals[i] = 1 /\ Servers(i) = {h} /\ Unrecorded(i) /\ i \notin answered
    BY <2>1, OneWorker
  <2>3. Servers(i)' = {h}
    BY <1>2, <2>2 DEF Servers, In, Request
  <2>4. Unrecorded(i)'
    BY <2>2 DEF Unrecorded, Queue
  <2> QED
    BY <2>2, <2>3, <2>4 DEF Story
<1> QED
  BY <1>1, <1>2

(* The answer.                                                             *)
LEMMA AnswerKeepsStory ==
  ASSUME NEW h \in Handlers, NEW i \in Ids, Story(i), In(h, "generating"),
         job'[h].request = Request(h), job'[h].phase = "saving", job'[h].row.ok,
         \A k \in Handlers \ {h} : job'[k] = job[k],
         answered' = answered \cup {Request(h).id},
         UNCHANGED <<logs, pending, lost, arrivals>>
  PROVE  Story(i)'
<1>1. CASE Request(h).id # i
  BY <1>1, OthersServe, StoryStays DEF Queue
<1>2. CASE Request(h).id = i
  <2> SUFFICES ASSUME arrivals[i] <= 1 PROVE Story(i)'
    BY DEF Story
  <2>1. h \in Working(i)
    BY <1>2 DEF Working, Servers, In
  <2>2. arrivals[i] = 1 /\ Servers(i) = {h} /\ Unrecorded(i)
    BY <2>1, OneWorker
  <2>3. Servers(i)' = {h}
    BY <1>2, <2>2 DEF Servers, In, Request
  <2>4. h \in Answering(i)'
    BY <2>3 DEF Answering, Working, In
  <2>5. Unrecorded(i)' /\ RowsAreOk(i)'
    BY <2>2 DEF Unrecorded, RowsAreOk, Queue
  <2> QED
    BY <2>2, <2>3, <2>4, <2>5 DEF Story
<1> QED
  BY <1>1, <1>2

LEMMA SettledRows ==
  ASSUME NEW e, Settle(e), NEW i
  PROVE  /\ e.id # i => /\ i \in DOMAIN logs' <=> i \in DOMAIN logs
                        /\ i \in DOMAIN logs => logs'[i] = logs[i]
         /\ e.id = i => /\ i \in DOMAIN logs'
                        /\ i \in DOMAIN logs => logs'[i] = logs[i]
                        /\ i \notin DOMAIN logs => logs'[i].ok = e.ok
<1>1. CASE e.id \in DOMAIN logs
  BY <1>1 DEF Settle, tables
<1>2. CASE e.id \notin DOMAIN logs
  <2>1. logs' = Insert(e)
    BY <1>2 DEF Settle
  <2> QED
    BY <1>2, <2>1 DEF Insert
<1> QED
  BY <1>1, <1>2

(* The row is saved, or queued, and the handler is done with it.           *)
LEMMA SavingKeepsStory ==
  ASSUME NEW h \in Handlers, NEW i \in Ids, Story(i), In(h, "saving"),
         job[h].row.id = Request(h).id,
         job'[h].request = Request(h), job'[h].phase = "leaving",
         \A k \in Handlers \ {h} : job'[k] = job[k],
         UNCHANGED <<lost, answered, arrivals>>,
         \/ Settle(job[h].row) /\ pending' = pending
         \/ (logs' = logs \/ Settle(job[h].row)) /\ pending' = pending \cup {job[h].row}
  PROVE  Story(i)'
<1>1. CASE Request(h).id # i
  <2>1. Queue(i)' = Queue(i)
    BY <1>1 DEF Queue
  <2>2. /\ i \in DOMAIN logs' <=> i \in DOMAIN logs
        /\ i \in DOMAIN logs => logs'[i] = logs[i]
    BY <1>1, SettledRows
  <2> QED
    BY <1>1, <2>1, <2>2, OthersServe, StoryStays
<1>2. CASE Request(h).id = i
  <2> SUFFICES ASSUME arrivals[i] <= 1 PROVE Story(i)'
    BY DEF Story
  <2>1. h \in Working(i)
    BY <1>2 DEF Working, Servers, In
  <2>2. /\ arrivals[i] = 1 /\ Servers(i) = {h} /\ Unrecorded(i)
        /\ i \in answered => job[h].row.ok
    BY <2>1, OneWorker
  <2>3. Servers(i)' = {h}
    BY <1>2, <2>2 DEF Servers, In, Request
  <2>4. Working(i)' = {}
    BY <2>3 DEF Working, In
  <2>5. \A e \in Queue(i)' : e = job[h].row
    BY <2>2 DEF Queue, Unrecorded
  <2>6. i \in DOMAIN logs' => logs'[i].ok = job[h].row.ok
    BY <1>2, <2>2, SettledRows DEF Unrecorded
  <2>7. ~Unrecorded(i)'
    BY <1>2, SettledRows DEF Unrecorded, Queue
  <2>8. i \in answered => RowsAreOk(i)'
    BY <2>2, <2>5, <2>6 DEF RowsAreOk
  <2> QED
    BY <2>2, <2>3, <2>4, <2>7, <2>8 DEF Story
<1> QED
  BY <1>1, <1>2

(* The handler is free for the next request.                               *)
LEMMA LeavingKeepsStory ==
  ASSUME NEW h \in Handlers, NEW i \in Ids, Story(i), In(h, "leaving"), job'[h] = NoJob,
         \A k \in Handlers \ {h} : job'[k] = job[k],
         UNCHANGED <<logs, pending, lost, answered, arrivals>>
  PROVE  Story(i)'
<1>1. CASE Request(h).id # i
  BY <1>1, OthersServe, StoryStays DEF Queue, NoJob
<1>2. CASE Request(h).id = i
  <2> SUFFICES ASSUME arrivals[i] <= 1 PROVE Story(i)'
    BY DEF Story
  <2>1. h \in Servers(i) /\ h \notin Working(i) /\ In(h, "idle")'
    BY <1>2 DEF Working, Servers, In, NoJob
  <2>2. Servers(i) = {h} /\ Working(i) = {} /\ arrivals[i] = 1
    BY <2>1 DEF Story, Working
  <2>3. Servers(i)' = {} /\ Working(i)' = {}
    BY <2>1, <2>2 DEF Servers, Working, In, Request
  <2>4. Answering(i) = {}
    BY <2>2 DEF Answering
  <2>5. Unrecorded(i)' <=> Unrecorded(i)
    BY DEF Unrecorded, Queue
  <2>6. RowsAreOk(i)' <=> RowsAreOk(i)
    BY DEF RowsAreOk, Queue
  <2> QED
    BY <2>2, <2>3, <2>4, <2>5, <2>6 DEF Story
<1> QED
  BY <1>1, <1>2

(* A second arrival ends the story of its id.                              *)
LEMMA ArrivalKeepsStory ==
  ASSUME IInv, StoryInv, NEW h \in Handlers, NEW r \in Requests, Arrive(h, r), NEW i \in Ids
  PROVE  Story(i)' /\ arrivals' \in [Ids -> Nat]
<1>1. /\ In(h, "idle") /\ job'[h].phase = "limiting" /\ job'[h].request = r
      /\ \A k \in Handlers \ {h} : job'[k] = job[k]
      /\ arrivals' = [arrivals EXCEPT ![r.id] = @ + 1]
      /\ UNCHANGED <<logs, pending, lost, answered>>
  <2>1. job \in [Handlers -> Jobs]
    BY JobsOf DEF IInv
  <2> QED
    BY <2>1 DEF Arrive, tables, outbox, Jobs
<1>2. arrivals \in [Ids -> Nat] /\ Story(i) /\ r.id \in Ids
  BY ScopeOfRequest DEF StoryInv
<1>3. CASE r.id # i
  <2>1. arrivals'[i] = arrivals[i]
    BY <1>1, <1>2, <1>3
  <2> QED
    BY <1>1, <1>2, <1>3, <2>1, OthersServe, StoryStays DEF Queue
<1>4. CASE r.id = i
  <2>1. arrivals'[i] = arrivals[i] + 1 /\ arrivals[i] \in Nat
    BY <1>1, <1>2, <1>4
  <2> SUFFICES ASSUME arrivals'[i] <= 1 PROVE Story(i)'
    BY <1>1, <1>2 DEF Story
  <2>2. arrivals[i] = 0 /\ arrivals'[i] = 1
    BY <2>1
  <2>3. Servers(i) = {} /\ Unrecorded(i) /\ i \notin answered
    BY <1>2, <2>2 DEF Story
  <2>4. \A k, l \in Servers(i)' : k = l
    BY <1>1, <2>3 DEF Servers, In, Request
  <2>5. Unrecorded(i)' /\ i \notin answered'
    BY <1>1, <2>3 DEF Unrecorded, Queue
  <2> QED
    BY <2>2, <2>4, <2>5 DEF Story
<1> QED
  BY <1>1, <1>2, <1>3, <1>4

(* The outbox works on rows whose handlers are done.                       *)
LEMMA RetryKeepsStory ==
  ASSUME NEW e \in pending, NEW i \in Ids, Story(i),
         UNCHANGED <<job, answered, arrivals>>, pending' = pending \ {e},
         \/ Settle(e) /\ lost' = lost
         \/ logs' = logs /\ lost' = lost \cup {e}
  PROVE  Story(i)'
<1>1. Servers(i)' = Servers(i) /\ Working(i)' = Working(i) /\ Answering(i)' = Answering(i)
  BY DEF Servers, Working, Answering, In, Request
<1>2. CASE e.id # i
  <2>1. Queue(i)' = Queue(i)
    BY <1>2 DEF Queue
  <2> QED
    BY <1>1, <1>2, <2>1, SettledRows, StoryStays
<1>3. CASE e.id = i
  <2> SUFFICES ASSUME arrivals[i] <= 1 PROVE Story(i)'
    BY DEF Story
  <2>1. e \in Queue(i) /\ ~Unrecorded(i)
    BY <1>3 DEF Queue, Unrecorded
  <2>2. Working(i) = {} /\ arrivals[i] # 0 /\ Answering(i) = {}
    BY <2>1 DEF Story, Answering
  <2>3. ~Unrecorded(i)'
    BY <1>3, SettledRows DEF Unrecorded, Queue
  <2>4. i \in answered => RowsAreOk(i)'
    <3> SUFFICES ASSUME i \in answered PROVE RowsAreOk(i)'
      OBVIOUS
    <3>1. RowsAreOk(i)
      BY DEF Story
    <3>2. Queue(i)' \subseteq Queue(i)
      BY DEF Queue
    <3>3. i \in DOMAIN logs' => logs'[i].ok
      BY <1>3, <2>1, <3>1, SettledRows DEF RowsAreOk
    <3> QED
      BY <3>1, <3>2, <3>3 DEF RowsAreOk
  <2> QED
    BY <1>1, <2>2, <2>3, <2>4 DEF Story
<1> QED
  BY <1>2, <1>3

(* What a handler's step does, told by its kind.                           *)
LEMMA ServeKeepsStory ==
  ASSUME IInv, StoryInv, NEW h \in Handlers, Quiet(h) \/ Acquire(h) \/ Leave(h), NEW i \in Ids
  PROVE  Story(i)' /\ arrivals' = arrivals /\ (In(h, "saving") => job[h].row.id = Request(h).id)'
<1> DEFINE Goal == /\ Story(i)' /\ arrivals' = arrivals
                   /\ (In(h, "saving") => job[h].row.id = Request(h).id)'
<1> SUFFICES Goal
  OBVIOUS
<1>0. /\ job \in [Handlers -> Jobs] /\ job[h] \in Jobs /\ Typed /\ HandlerInv(h) /\ Story(i)
      /\ In(h, "saving") => job[h].row.id = Request(h).id
      /\ now \in 0..MaxTime /\ job[h].ceiling \in Nat /\ job[h].started \in 0..MaxTime /\ 0 \in Nat
  <2>1. Typed /\ job \in [Handlers -> Jobs] /\ job[h] \in Jobs
    BY JobsOf DEF IInv
  <2>2. now \in 0..MaxTime /\ job[h].ceiling \in Nat /\ job[h].started \in 0..MaxTime /\ 0 \in Nat
    BY <2>1 DEF Typed, Jobs
  <2> QED
    BY <2>1, <2>2 DEF IInv, StoryInv, OwnRows
<1>1. CASE PassLimit(h) \/ ReadCredit(h) \/ Admit(h) \/ Acquire(h)
  <2>1. /\ job[h].phase \notin {"idle", "saving", "leaving"}
        /\ job'[h].request = Request(h) /\ job'[h].phase \notin {"idle", "saving"}
        /\ \A k \in Handlers \ {h} : job'[k] = job[k]
        /\ UNCHANGED <<logs, pending, lost, answered, arrivals>>
    <3>1. CASE PassLimit(h)
      BY <1>0, <3>1 DEF PassLimit, In, Request, Jobs, tables, outbox, world
    <3>2. CASE ReadCredit(h)
      BY <1>0, <3>2 DEF ReadCredit, In, Request, Jobs, tables, outbox, world
    <3>3. CASE Admit(h)
      BY <1>0, <3>3 DEF Admit, In, Request, Jobs, tables, outbox
    <3>4. CASE Acquire(h)
      BY <1>0, <3>4 DEF Acquire, In, Request, Jobs, tables, outbox, world
    <3> QED
      BY <1>1, <3>1, <3>2, <3>3, <3>4
  <2> QED
    BY <1>0, <2>1, WorkKeepsStory DEF In
<1>2. CASE ReturnUnlogged(h) \/ ((RateLimited(h) \/ GiveUpWaiting(h)) /\ Request(h).kind = "agent")
  <2>1. /\ job[h].phase \notin {"idle", "saving", "leaving"}
        /\ job'[h].request = Request(h) /\ job'[h].phase = "leaving"
        /\ \A k \in Handlers \ {h} : job'[k] = job[k]
        /\ UNCHANGED <<logs, pending, lost, answered, arrivals>>
    <3>1. /\ job[h].phase \notin {"idle", "saving", "leaving"}
          /\ job' = [job EXCEPT ![h].phase = "leaving"]
          /\ UNCHANGED <<logs, pending, lost, answered, arrivals>>
      BY <1>2 DEF ReturnUnlogged, RateLimited, GiveUpWaiting, Reject, In, tables, outbox, world
    <3> QED
      BY <1>0, <3>1 DEF Request, Jobs
  <2> QED
    BY <1>0, <2>1, WorkKeepsStory DEF In
<1>3. CASE \/ Refuse(h) \/ QuoteFails(h) \/ FailUpstream(h)
           \/ (RateLimited(h) \/ GiveUpWaiting(h)) /\ Request(h).kind # "agent"
  <2>1. /\ job[h].phase \notin {"idle", "saving", "leaving"}
        /\ UNCHANGED <<logs, pending, lost, answered, arrivals>>
        /\ \E c \in Nat, at \in 0..MaxTime : Record(h, 0, FALSE, c, at)
    BY <1>0, <1>3 DEF Refuse, QuoteFails, FailUpstream, RateLimited, GiveUpWaiting, Reject, In,
       tables, outbox, world
  <2>2. Request(h) \in Requests
    BY <1>0, <2>1 DEF HandlerInv, In
  <2>3. /\ job'[h].request = Request(h) /\ job'[h].phase = "saving" /\ ~job'[h].row.ok
        /\ job'[h].row.id = Request(h).id
        /\ \A k \in Handlers \ {h} : job'[k] = job[k]
    BY <1>0, <2>1, <2>2, RecordKeepsJobs
  <2> QED
    BY <1>0, <2>1, <2>3, WorkKeepsStory DEF In, Request
<1>4. CASE \E cost \in Costs(h) : Complete(h, cost)
  <2>1. PICK cost \in Costs(h) : Complete(h, cost)
    BY <1>4
  <2>2. In(h, "generating") /\ cost \in Nat /\ Request(h) \in Requests
    BY <1>0, <2>1 DEF Complete, Costs, HandlerInv, In
  <2>3. /\ job'[h].request = Request(h) /\ job'[h].phase = "saving" /\ job'[h].row.ok
        /\ job'[h].row.id = Request(h).id
        /\ \A k \in Handlers \ {h} : job'[k] = job[k]
    <3>1. Record(h, cost, TRUE, job[h].ceiling, job[h].started)
      BY <2>1 DEF Complete
    <3>2. job'[h].row.ok = TRUE
      BY <1>0, <2>2, <3>1, RecordKeepsJobs
    <3> QED
      BY <1>0, <2>2, <3>1, <3>2, RecordKeepsJobs
  <2>4. answered' = answered \cup {Request(h).id} /\ UNCHANGED <<logs, pending, lost, arrivals>>
    BY <2>1 DEF Complete, tables, outbox, world
  <2>5. Story(i)'
    BY <1>0, <2>2, <2>3, <2>4, AnswerKeepsStory
  <2> QED
    BY <2>3, <2>4, <2>5 DEF In, Request
<1>5. CASE SaveSucceeds(h) \/ SaveFails(h)
  <2>1. In(h, "saving") /\ job' = [job EXCEPT ![h].phase = "leaving"]
    BY <1>5 DEF SaveSucceeds, SaveFails
  <2>2. /\ job'[h].request = Request(h) /\ job'[h].phase = "leaving"
        /\ \A k \in Handlers \ {h} : job'[k] = job[k]
    BY <1>0, <2>1 DEF Request, Jobs
  <2>3. /\ UNCHANGED <<lost, answered, arrivals>>
        /\ \/ Settle(job[h].row) /\ pending' = pending
           \/ (logs' = logs \/ Settle(job[h].row)) /\ pending' = pending \cup {job[h].row}
    BY <1>5 DEF SaveSucceeds, SaveFails, outbox, world, tables
  <2> QED
    BY <1>0, <2>1, <2>2, <2>3, SavingKeepsStory DEF In
<1>6. CASE Leave(h)
  <2>1. /\ In(h, "leaving") /\ job'[h] = NoJob /\ \A k \in Handlers \ {h} : job'[k] = job[k]
        /\ UNCHANGED <<logs, pending, lost, answered, arrivals>>
    BY <1>6, LeaveKeepsGuard DEF Leave, tables, outbox, world
  <2>2. Story(i)'
    BY <1>0, <2>1, LeavingKeepsStory
  <2>3. ~In(h, "saving")'
    BY <2>1 DEF In, NoJob
  <2> QED
    BY <2>1, <2>2, <2>3
<1> HIDE DEF Goal
<1> QED
  BY <1>1, <1>2, <1>3, <1>4, <1>5, <1>6 DEF Quiet

LEMMA InitStory == Init => StoryInv
<1> SUFFICES ASSUME Init PROVE StoryInv
  OBVIOUS
<1>1. \A h \in Handlers : In(h, "idle") /\ ~In(h, "saving")
  BY DEF Init, In, NoJob
<1>2. \A i \in Ids : Servers(i) = {} /\ arrivals[i] = 0 /\ Unrecorded(i) /\ i \notin answered
  BY <1>1 DEF Init, Servers, Unrecorded, Queue
<1>3. arrivals \in [Ids -> Nat]
  BY DEF Init
<1> QED
  BY <1>1, <1>2, <1>3 DEF StoryInv, Story, OwnRows

LEMMA NextStory == IInv /\ StoryInv /\ [Next]_vars => StoryInv'
<1> SUFFICES ASSUME IInv, StoryInv, [Next]_vars PROVE StoryInv'
  OBVIOUS
<1>0. arrivals \in [Ids -> Nat] /\ OwnRows /\ \A i \in Ids : Story(i)
  BY DEF StoryInv
<1>1. ASSUME UNCHANGED <<job, logs, pending, lost, answered, arrivals>> PROVE StoryInv'
  <2>1. OwnRows'
    BY <1>0, <1>1 DEF OwnRows, In, Request
  <2>2. ASSUME NEW i \in Ids PROVE Story(i)'
    <3>1. /\ Servers(i)' = Servers(i) /\ Working(i)' = Working(i) /\ Answering(i)' = Answering(i)
          /\ Queue(i)' = Queue(i)
      BY <1>1 DEF Servers, Working, Answering, Queue, In, Request
    <3> QED
      BY <1>0, <1>1, <3>1, StoryStays
  <2> QED
    BY <1>0, <1>1, <2>1, <2>2 DEF StoryInv
<1>2. CASE \/ UNCHANGED vars \/ (\E n \in Bought : BuyTopup(n))
           \/ (\E n \in 1..credit : Lapse(n)) \/ Tick
           \/ \E h \in Handlers : ClientStalls(h) \/ ClientReads(h)
  BY <1>1, <1>2
     DEF vars, tables, outbox, world, BuyTopup, Lapse, Tick, ClientStalls, ClientReads
<1>3. CASE \E e \in pending : RetrySucceeds(e) \/ RetriesExhausted(e)
  <2>1. PICK e \in pending : RetrySucceeds(e) \/ RetriesExhausted(e)
    BY <1>3
  <2>2. /\ UNCHANGED <<job, answered, arrivals>> /\ pending' = pending \ {e}
        /\ \/ Settle(e) /\ lost' = lost
           \/ logs' = logs /\ lost' = lost \cup {e}
    BY <2>1 DEF RetrySucceeds, RetriesExhausted, world, tables
  <2>3. \A i \in Ids : Story(i)'
    BY <1>0, <2>2, RetryKeepsStory
  <2>4. OwnRows'
    BY <1>0, <2>2 DEF OwnRows, In, Request
  <2> QED
    BY <1>0, <2>2, <2>3, <2>4 DEF StoryInv
<1>4. ASSUME NEW h \in Handlers,
             Quiet(h) \/ Acquire(h) \/ Leave(h) \/ \E r \in Requests : Arrive(h, r)
      PROVE  StoryInv'
  <2>1. \A k \in Handlers \ {h} : job'[k] = job[k]
    <3>1. CASE \E r \in Requests : Arrive(h, r)
      <4>1. job \in [Handlers -> Jobs]
        BY JobsOf DEF IInv
      <4> QED
        BY <3>1, <4>1 DEF Arrive
    <3> QED
      BY <1>4, <3>1, QuietSteps, AcquireKeepsGuard, LeaveKeepsGuard
  <2>2. CASE Quiet(h) \/ Acquire(h) \/ Leave(h)
    <3>1. \A i \in Ids : /\ Story(i)' /\ arrivals' = arrivals
                         /\ (In(h, "saving") => job[h].row.id = Request(h).id)'
      BY <1>0, <2>2, ServeKeepsStory
    <3>2. arrivals' = arrivals /\ (In(h, "saving") => job[h].row.id = Request(h).id)'
      <4>1. CASE Leave(h)
        <5>1. ~In(h, "idle") /\ HandlerInv(h)
          BY <4>1 DEF Leave, In, IInv
        <5> QED
          BY <3>1, <5>1, ScopeOfRequest DEF HandlerInv
      <4> QED
        BY <2>2, <3>1, <4>1, QuietSteps, AcquireKeepsGuard, ScopeOfRequest
    <3>3. OwnRows'
      BY <1>0, <2>1, <3>2 DEF OwnRows, In, Request
    <3> QED
      BY <1>0, <3>1, <3>2, <3>3 DEF StoryInv
  <2>3. CASE \E r \in Requests : Arrive(h, r)
    <3>1. PICK r \in Requests : Arrive(h, r)
      BY <2>3
    <3>2. (\A i \in Ids : Story(i)') /\ arrivals' \in [Ids -> Nat]
      <4>1. r.id \in Ids
        BY ScopeOfRequest
      <4> QED
        BY <3>1, <4>1, ArrivalKeepsStory
    <3>3. OwnRows'
      <4>1. job'[h].phase = "limiting"
        <5>1. job \in [Handlers -> Jobs]
          BY JobsOf DEF IInv
        <5> QED
          BY <3>1, <5>1 DEF Arrive, Jobs
      <4> QED
        BY <1>0, <2>1, <4>1 DEF OwnRows, In, Request
    <3> QED
      BY <3>2, <3>3 DEF StoryInv
  <2> QED
    BY <1>4, <2>2, <2>3
<1> QED
  BY <1>2, <1>3, <1>4, StepsOf DEF WorldStep

(* A billing row is never discarded: of an id that arrived once the cost   *)
(* of its answer is on record, about to be, in the outbox or counted as    *)
(* lost, however many handlers, failed settlements and replays of other    *)
(* ids there are (saveRequestLog, handler.go:192-193).                     *)
THEOREM AnswersAreNeverDropped == Spec => []AnswersAreAccounted
<1>1. IInv /\ StoryInv => AnswersAreAccounted
  <2> SUFFICES ASSUME StoryInv, NEW i \in answered, i \in Ids, arrivals[i] = 1
               PROVE  \/ i \in DOMAIN logs /\ logs[i].ok
                      \/ \E h \in Handlers : In(h, "saving") /\ job[h].row.id = i /\ job[h].row.ok
                      \/ \E e \in pending \cup lost : e.id = i /\ e.ok
    BY DEF AnswersAreAccounted, IInv, Typed, TypeOK
  <2>1. RowsAreOk(i) /\ (Answering(i) # {} \/ ~Unrecorded(i))
    BY DEF StoryInv, Story
  <2>2. CASE Answering(i) # {}
    BY <2>2 DEF StoryInv, OwnRows, Answering, Working, Servers
  <2>3. CASE ~Unrecorded(i)
    BY <2>1, <2>3 DEF Unrecorded, RowsAreOk, Queue
  <2> QED
    BY <2>1, <2>2, <2>3
<1>2. Init => IInv /\ StoryInv
  BY InitIInv, InitStory
<1>3. IInv /\ StoryInv /\ [Next]_vars => (IInv /\ StoryInv)'
  BY NextIInv, NextStory
<1> QED
  BY <1>1, <1>2, <1>3, PTL DEF Spec

-----------------------------------------------------------------------------
(* The way out *)

HoldsIn(h, s, p) == Holds(h, s) /\ In(h, p)

(* No entry of the map is left behind by a handler that is gone.           *)
EntriesAreHeld == \A s \in Scopes : active[s] # Nobody => \E h \in Handlers : Holds(h, s)

LEMMA NextEntries == IInv /\ EntriesAreHeld /\ [Next]_vars => EntriesAreHeld'
<1> SUFFICES ASSUME IInv, EntriesAreHeld, [Next]_vars PROVE EntriesAreHeld'
  OBVIOUS
<1>1. ASSUME active' = active, \A h \in Handlers : job[h].holds =>
               job'[h].holds /\ job'[h].request = job[h].request
      PROVE  EntriesAreHeld'
  BY <1>1 DEF EntriesAreHeld, Holds, Request
<1>2. CASE UNCHANGED <<job, active>>
  BY <1>1, <1>2
<1>3. ASSUME NEW h \in Handlers, Quiet(h) PROVE EntriesAreHeld'
  <2>1. \A k \in Handlers : job'[k].holds = job[k].holds /\ job'[k].request = job[k].request
    BY <1>3, QuietSteps DEF Request
  <2> QED
    BY <1>1, <1>3, <2>1, QuietSteps
<1>4. ASSUME NEW h \in Handlers, NEW r \in Requests, Arrive(h, r) PROVE EntriesAreHeld'
  <2>1. job \in [Handlers -> Jobs] /\ HandlerInv(h)
    BY JobsOf DEF IInv
  <2>2. active' = active /\ ~job[h].holds /\ \A k \in Handlers \ {h} : job'[k] = job[k]
    BY <1>4, <2>1 DEF Arrive, HandlerInv, In, Jobs
  <2> QED
    BY <1>1, <2>2
<1>5. ASSUME NEW h \in Handlers, Acquire(h) PROVE EntriesAreHeld'
  <2>1. /\ Holds(h, Scope(Request(h)))' /\ ~job[h].holds
        /\ \A k \in Handlers \ {h} : job'[k] = job[k]
    BY <1>5, AcquireKeepsGuard DEF Holds, Request
  <2>2. \A t \in Scopes : t # Scope(Request(h)) => active'[t] = active[t]
    BY <1>5 DEF Acquire, IInv, Typed, TypeOK
  <2>3. Scope(Request(h))' = Scope(Request(h))
    BY <1>5, AcquireKeepsGuard DEF Scope
  <2> SUFFICES ASSUME NEW t \in Scopes, active'[t] # Nobody
               PROVE  \E k \in Handlers : Holds(k, t)'
    BY DEF EntriesAreHeld
  <2>4. CASE t = Scope(Request(h))
    BY <2>1, <2>3, <2>4 DEF Holds
  <2>5. CASE t # Scope(Request(h))
    BY <2>1, <2>2, <2>5 DEF EntriesAreHeld, Holds, Request
  <2> QED
    BY <2>4, <2>5
<1>6. ASSUME NEW h \in Handlers, Leave(h) PROVE EntriesAreHeld'
  <2>1. \A k \in Handlers \ {h} : job'[k] = job[k]
    BY <1>6, LeaveKeepsGuard
  <2>2. HandlerInv(h)
    BY DEF IInv
  <2> SUFFICES ASSUME NEW t \in Scopes, active'[t] # Nobody
               PROVE  \E k \in Handlers : Holds(k, t)'
    BY DEF EntriesAreHeld
  <2>3. active'[t] = active[t] /\ ~Holds(h, t)
    BY <1>6, <2>2 DEF Leave, Release, HandlerInv, Holds, IInv, Typed, TypeOK
  <2> QED
    BY <2>1, <2>3 DEF EntriesAreHeld, Holds, Request
<1> QED
  BY <1>2, <1>3, <1>4, <1>5, <1>6, StepsOf, WorldStays DEF vars

(* What a step of its own makes of a handler inside its scope, and that no *)
(* other step makes anything of it.                                        *)
LEMMA HolderSteps ==
  ASSUME NEW h \in Handlers, NEW s \in Scopes, IInv, Holds(h, s)
  PROVE  /\ \E p \in {"admitted", "quoting", "generating", "saving", "leaving"} : In(h, p)
         /\ [Next]_vars => job'[h] = job[h] \/ Serve(h)
         /\ In(h, "admitted") /\ Serve(h) =>
              \E p \in {"quoting", "saving", "leaving"} : HoldsIn(h, s, p)'
         /\ In(h, "quoting") /\ Serve(h) =>
              \E p \in {"generating", "saving"} : HoldsIn(h, s, p)'
         /\ In(h, "generating") /\ Serve(h) =>
              \E p \in {"saving", "leaving"} : HoldsIn(h, s, p)'
         /\ In(h, "saving") /\ Serve(h) => HoldsIn(h, s, "leaving")'
         /\ In(h, "leaving") /\ Serve(h) => active'[s] = Nobody
<1>1. job \in [Handlers -> Jobs] /\ job[h] \in Jobs /\ HandlerInv(h)
  BY JobsOf DEF IInv
<1>2. \E p \in {"admitted", "quoting", "generating", "saving", "leaving"} : In(h, p)
  BY <1>1 DEF Holds, HandlerInv, In, Jobs, Phases
<1>3. ASSUME NEW k \in Handlers, k # h,
             Quiet(k) \/ Acquire(k) \/ Leave(k) \/ \E r \in Requests : Arrive(k, r)
      PROVE  job'[h] = job[h]
  <2>1. ASSUME NEW r \in Requests, Arrive(k, r) PROVE job'[h] = job[h]
    BY <1>1, <1>3, <2>1 DEF Arrive
  <2> QED
    BY <1>3, <2>1, QuietSteps, AcquireKeepsGuard, LeaveKeepsGuard
<1>4. ~(\E r \in Requests : Arrive(h, r))
  BY <1>2 DEF Arrive, In
<1>5. [Next]_vars => job'[h] = job[h] \/ Serve(h)
  BY <1>3, <1>4, StepsOf, WorldStays DEF vars, Quiet, Serve
<1>6. Serve(h) => Quiet(h) \/ Leave(h)
  BY <1>1 DEF Serve, Quiet, Acquire, Holds, HandlerInv, In
<1>7. Quiet(h) => Holds(h, s)'
  BY QuietSteps DEF Holds, Request, Scope
<1>8. Quiet(h) =>
        /\ In(h, "admitted") => job'[h].phase \in {"quoting", "saving", "leaving"}
        /\ In(h, "quoting") => job'[h].phase \in {"generating", "saving"}
        /\ In(h, "generating") => job'[h].phase \in {"saving", "leaving"}
        /\ In(h, "saving") => job'[h].phase = "leaving"
        /\ ~In(h, "leaving")
  <2>1. Quiet(h) => ~In(h, "leaving")
    BY DEF Quiet, PassLimit, RateLimited, GiveUpWaiting, ReadCredit, Admit, Refuse, QuoteFails,
           ReturnUnlogged, FailUpstream, Complete, SaveSucceeds, SaveFails, In
  <2>2. ASSUME NEW c, NEW ok, NEW n, NEW at, Record(h, c, ok, n, at)
        PROVE  job'[h].phase = "saving"
    BY <1>1, <2>2 DEF Record, Jobs
  <2>3. ASSUME NEW p, job' = [job EXCEPT ![h].phase = p] PROVE job'[h].phase = p
    BY <1>1, <2>3 DEF Jobs
  <2>4. In(h, "admitted") /\ Quiet(h) => ReadCredit(h) \/ QuoteFails(h) \/ ReturnUnlogged(h)
    BY DEF Quiet, PassLimit, RateLimited, GiveUpWaiting, Admit, Refuse,
           FailUpstream, Complete, SaveSucceeds, SaveFails, In
  <2>5. ReadCredit(h) => job'[h].phase = "quoting"
    BY <1>1 DEF ReadCredit, Jobs
  <2>6. QuoteFails(h) \/ Refuse(h) => job'[h].phase = "saving"
    BY <2>2 DEF QuoteFails, Refuse
  <2>7. ReturnUnlogged(h) \/ SaveSucceeds(h) \/ SaveFails(h) => job'[h].phase = "leaving"
    BY <2>3 DEF ReturnUnlogged, SaveSucceeds, SaveFails
  <2>8. In(h, "quoting") /\ Quiet(h) => Admit(h) \/ Refuse(h) \/ QuoteFails(h)
    BY DEF Quiet, PassLimit, RateLimited, GiveUpWaiting, ReadCredit, ReturnUnlogged,
           FailUpstream, Complete, SaveSucceeds, SaveFails, In
  <2>9. Admit(h) => job'[h].phase = "generating"
    BY <1>1 DEF Admit, Jobs
  <2>10. In(h, "generating") /\ Quiet(h) =>
           ReturnUnlogged(h) \/ FailUpstream(h) \/ \E cost \in Costs(h) : Complete(h, cost)
    BY DEF Quiet, PassLimit, RateLimited, GiveUpWaiting, ReadCredit, Admit, Refuse, QuoteFails,
           SaveSucceeds, SaveFails, In
  <2>11. FailUpstream(h) \/ (\E cost \in Costs(h) : Complete(h, cost)) => job'[h].phase = "saving"
    BY <2>2 DEF FailUpstream, Complete
  <2>12. In(h, "saving") /\ Quiet(h) => SaveSucceeds(h) \/ SaveFails(h)
    BY DEF Quiet, PassLimit, RateLimited, GiveUpWaiting, ReadCredit, Admit, Refuse, QuoteFails,
           ReturnUnlogged, FailUpstream, Complete, In
  <2> QED
    BY <2>1, <2>4, <2>5, <2>6, <2>7, <2>8, <2>9, <2>10, <2>11, <2>12
<1>9. Leave(h) => In(h, "leaving") /\ active'[s] = Nobody
  BY <1>1 DEF Leave, Release, Holds, HandlerInv, IInv, Typed, TypeOK
<1> QED
  BY <1>2, <1>5, <1>6, <1>7, <1>8, <1>9 DEF HoldsIn, In

(* ScopesAreReturned (handler.go 887: the release is deferred): an entry   *)
(* of the map has a handler behind it, and a handler that goes on comes to *)
(* its deferred release, whatever happens to its request and whoever waits,*)
(* if its client does not stop reading for good.  That a handler inside    *)
(* its scope can go on is left to TLC, ENABLED being beyond the provers:   *)
(* each phase has a step that asks for no more.                            *)
THEOREM HoldersReturnTheirScopes ==
  ASSUME NEW h \in Handlers, NEW s \in Scopes
  PROVE  /\ Spec => []EntriesAreHeld
         /\ /\ Spec
            /\ WF_vars(ServeReader(h))
            /\ [](Holds(h, s) /\ h \notin stalled => ENABLED <<ServeReader(h)>>_vars)
            => (<>[](h \notin stalled) => (Holds(h, s) ~> active[s] = Nobody))
<1> DEFINE Out == active[s] = Nobody
           Reads == h \notin stalled
<1>1. Init => EntriesAreHeld
  BY DEF Init, EntriesAreHeld
<1>2. IInv /\ Holds(h, s) =>
        \/ HoldsIn(h, s, "admitted") \/ HoldsIn(h, s, "quoting") \/ HoldsIn(h, s, "generating")
        \/ HoldsIn(h, s, "saving") \/ HoldsIn(h, s, "leaving")
  BY HolderSteps DEF HoldsIn
<1>3. \/ HoldsIn(h, s, "admitted") \/ HoldsIn(h, s, "quoting") \/ HoldsIn(h, s, "generating")
      \/ HoldsIn(h, s, "saving") \/ HoldsIn(h, s, "leaving")
      => Holds(h, s)
  BY DEF HoldsIn
<1>4. ASSUME NEW p, IInv, HoldsIn(h, s, p), [Next]_vars PROVE HoldsIn(h, s, p)' \/ Serve(h)
  BY <1>4, HolderSteps DEF HoldsIn, Holds, In, Request, Scope
<1>5. IInv /\ HoldsIn(h, s, "admitted") /\ [Next]_vars =>
        \/ HoldsIn(h, s, "admitted")' /\ ~ServeReader(h)
        \/ HoldsIn(h, s, "quoting")' \/ HoldsIn(h, s, "saving")' \/ HoldsIn(h, s, "leaving")'
  BY <1>4, HolderSteps DEF HoldsIn, ServeReader
<1>6. IInv /\ HoldsIn(h, s, "quoting") /\ [Next]_vars =>
        \/ HoldsIn(h, s, "quoting")' /\ ~ServeReader(h)
        \/ HoldsIn(h, s, "generating")' \/ HoldsIn(h, s, "saving")'
  BY <1>4, HolderSteps DEF HoldsIn, ServeReader
<1>7. IInv /\ HoldsIn(h, s, "generating") /\ [Next]_vars =>
        \/ HoldsIn(h, s, "generating")' /\ ~ServeReader(h)
        \/ HoldsIn(h, s, "saving")' \/ HoldsIn(h, s, "leaving")'
  BY <1>4, HolderSteps DEF HoldsIn, ServeReader
<1>8. IInv /\ HoldsIn(h, s, "saving") /\ [Next]_vars =>
        (HoldsIn(h, s, "saving")' /\ ~ServeReader(h)) \/ HoldsIn(h, s, "leaving")'
  BY <1>4, HolderSteps DEF HoldsIn, ServeReader
<1>9. IInv /\ HoldsIn(h, s, "leaving") /\ [Next]_vars =>
        (HoldsIn(h, s, "leaving")' /\ ~ServeReader(h)) \/ Out'
  BY <1>4, HolderSteps DEF HoldsIn, ServeReader
<1> HIDE DEF Out, Reads
<1>10. /\ Spec
       /\ WF_vars(ServeReader(h))
       /\ [](Holds(h, s) /\ Reads => ENABLED <<ServeReader(h)>>_vars)
       => (<>[]Reads => (Holds(h, s) ~> Out))
  BY <1>2, <1>3, <1>5, <1>6, <1>7, <1>8, <1>9, Invariance, PTL DEF Spec
<1>11. Spec => []EntriesAreHeld
  BY <1>1, NextEntries, Invariance, PTL DEF Spec
<1> QED
  BY <1>10, <1>11, PTL DEF Out, Reads

=============================================================================
