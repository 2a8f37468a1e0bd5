------------------------------- MODULE Gateway -------------------------------
(***************************************************************************)
(* The life of the billable requests of one user (serveOpenAIClient,       *)
(* serveAnthropicClient, serveTranscriptionClient of proxy/handler.go and  *)
(* serveMuhiyaAgent of agent.go): rate limit, generation guard, quote,     *)
(* upstream call, settlement, release.  It composes the arithmetic of      *)
(* Budget, the in-memory generation guard of limiter.go and the effects of *)
(* a settlement (module Settlement has its statements, module Outbox the   *)
(* retry buffer, module GenerationLease the guard over Redis).             *)
(*                                                                         *)
(* The balances of the top-ups are one number, credit: which of them       *)
(* expires or pays first is the matter of Settlement.                      *)
(***************************************************************************)
EXTENDS Budget

CONSTANTS
  Handlers,     \* goroutines serving the user's requests
  Requests,     \* [id, kind, price, least]: see below
  User,         \* the scope of interactive requests
  Plan,         \* the budget windows of the user's plan
  Bought,       \* the amounts top-ups are sold in
  MaxCredit,    \* bound on the credit bought
  MaxTime,      \* bound on the clock
  MaxFailures,  \* bound on the settlements that fail
  MaxArrivals,  \* times a request of one id may arrive
  NoRequest, NoRow, Nobody, Outside

(* kind is "chat", "batch" (X-Dawa-Org-ID), "agent" or "audio"; price is   *)
(* the quote of all the output asked for; least that of the least output   *)
(* worth sending: one token, or reasoningVisibleFloor in thinking mode; a  *)
(* transcription is sent whole or not at all.                              *)
ASSUME GatewayAssumption ==
  /\ \A r \in Requests : /\ r.kind \in {"chat", "batch", "agent", "audio"}
                         /\ r.price \in Nat /\ r.least \in 1..r.price
  /\ Plan # {} /\ \A w \in Plan : w.duration \in Nat \ {0} /\ w.budget \in Nat \ {0}
  /\ Bought \subseteq Nat /\ {MaxTime, MaxFailures} \subseteq Nat
  /\ NoRequest \notin Requests

VARIABLES
  job,       \* of each handler: see NoJob
  active,    \* the guard's map: the id inside each scope, or Nobody
  logs,      \* request_logs: rows [cost, ok, created] by id
  credit,    \* what is left of the top-ups
  unpaid,    \* charges to top-ups that found no credit, so far
  pending,   \* the rows of the outbox
  lost,      \* rows the outbox has given up
  failures,  \* settlements that failed, so far
  answered,  \* ids some handler has finished a generation for
  arrivals,  \* how often each id has arrived
  bought,    \* credit bought so far
  lapsed,    \* history: the credit that lapsed under an open quote, so far
  astride,   \* history: a period ended between a row's date and its quote
  stalled,   \* the handlers whose client does not read what they write
  now

tables == <<logs, credit, unpaid>>
outbox == <<pending, lost, failures>>
world == <<arrivals, bought, lapsed, astride, stalled, now>>
vars == <<job, active, tables, outbox, answered, world>>

Ids == {r.id : r \in Requests}
(* generationScope; the agent loop serializes whatever the header says.    *)
Scope(r) == IF r.kind = "batch" THEN r.id ELSE User
Scopes == {Scope(r) : r \in Requests}

ASSUME NobodyIsNoRequest == Nobody \notin Ids /\ Outside \notin Scopes

(* The kinds whose rows are dated before the quote.                        *)
DatedFirst(r) == r.kind \in {"agent", "audio"}

Account == [assigned |-> 0, reset |-> NoTime]

(* seen is what the quote read and when, started the CreatedAt of the row, *)
(* ceiling ChargeCeilingNanoUSD, row the argument of saveRequestLog, and   *)
(* holds says that releaseGeneration is deferred.                          *)
NoJob == [phase |-> "idle", request |-> NoRequest, seen |-> [credit |-> 0, at |-> 0],
          started |-> 0, ceiling |-> 0, row |-> NoRow, holds |-> FALSE]

Init ==
  /\ job = [h \in Handlers |-> NoJob]
  /\ active = [s \in Scopes |-> Nobody]
  /\ logs = <<>> /\ credit = 0 /\ unpaid = 0
  /\ pending = {} /\ lost = {} /\ failures = 0
  /\ answered = {}
  /\ arrivals = [i \in Ids |-> 0] /\ bought = 0 /\ now = 0
  /\ lapsed = 0 /\ astride = FALSE /\ stalled = {}

In(h, p) == job[h].phase = p
Request(h) == job[h].request

(* A row is handed to saveRequestLog.                                      *)
Record(h, cost, ok, ceiling, at) ==
  job' = [job EXCEPT ![h].phase = "saving",
                     ![h].row = [id |-> Request(h).id, cost |-> cost, ok |-> ok,
                                 ceiling |-> ceiling, created |-> at]]

(* A client may send a request of the same id and attempt again; the ids   *)
(* of the agent loop are drawn by the gateway.                             *)
Arrive(h, r) ==
  /\ In(h, "idle")
  /\ arrivals[r.id] < IF r.kind = "agent" THEN 1 ELSE MaxArrivals
  /\ arrivals' = [arrivals EXCEPT ![r.id] = @ + 1]
  /\ job' = [job EXCEPT ![h].phase = "limiting", ![h].request = r]
  /\ UNCHANGED <<active, tables, outbox, answered, bought, lapsed, astride, stalled, now>>

(* CheckLimit lets the request through.  The agent's row is dated here,    *)
(* before the wait for the guard.                                          *)
PassLimit(h) ==
  /\ In(h, "limiting")
  /\ job' = [job EXCEPT ![h].phase = "waiting", ![h].started = now]
  /\ UNCHANGED <<active, tables, outbox, answered, world>>

(* A rejection before the quote: saveAdmissionFailure, which the agent     *)
(* loop does not call here.                                                *)
Reject(h) ==
  /\ IF Request(h).kind = "agent"
       THEN job' = [job EXCEPT ![h].phase = "leaving"]
       ELSE Record(h, 0, FALSE, 0, now)
  /\ UNCHANGED <<active, tables, outbox, answered, world>>

RateLimited(h) == In(h, "limiting") /\ Reject(h)

(* The client leaves while the request polls for the guard.                *)
GiveUpWaiting(h) == In(h, "waiting") /\ Reject(h)

AdmittedAnyway(s) == TRUE   \* variant: the entry of the map is overwritten

Free(s) == active[s] = Nobody

(* tryInMemoryGeneration.  The row of a transcription is dated between its *)
(* turn and its quote.                                                     *)
Acquire(h) ==
  /\ In(h, "waiting")
  /\ Free(Scope(Request(h)))
  /\ active' = [active EXCEPT ![Scope(Request(h))] = Request(h).id]
  /\ job' = [job EXCEPT ![h].phase = "admitted", ![h].holds = TRUE,
                        ![h].started = IF Request(h).kind = "audio" THEN now ELSE @]
  /\ UNCHANGED <<tables, outbox, answered, world>>

(* The first queries of budgetAvailabilityTx; the next ones see what       *)
(* commits in between.                                                     *)
ReadCredit(h) ==
  /\ In(h, "admitted")
  /\ job' = [job EXCEPT ![h].phase = "quoting", ![h].seen = [credit |-> credit, at |-> now]]
  /\ UNCHANGED <<active, tables, outbox, answered, world>>

Spent(at) == [w \in Plan |-> SpentSince(logs, WindowFloor(Account, w, at))]
Available(h) == AvailableBudget(Plan, Spent(job[h].seen.at), job[h].seen.credit)

(* A window has rolled over between the date of the row and the quote.     *)
Astride(h) ==
  \E w \in Plan : WindowFloor(Account, w, job[h].started)
                     # WindowFloor(Account, w, job[h].seen.at)

(* affordableGeneration finds the whole output affordable or reduces it.   *)
Admit(h) ==
  /\ In(h, "quoting")
  /\ Request(h).least <= Available(h)
  /\ job' = [job EXCEPT ![h].phase = "generating",
                        ![h].ceiling = Min({Request(h).price, Available(h)}),
                        ![h].started = IF DatedFirst(Request(h)) THEN @ ELSE now]
  /\ astride' = IF DatedFirst(Request(h)) /\ Astride(h) THEN TRUE ELSE astride
  /\ UNCHANGED <<active, tables, outbox, answered, arrivals, bought, lapsed, stalled, now>>

(* BudgetExceededError, or thinking mode below its floor.                  *)
Refuse(h) ==
  /\ In(h, "quoting")
  /\ Request(h).least > Available(h)
  /\ Record(h, 0, FALSE, 0, now)
  /\ UNCHANGED <<active, tables, outbox, answered, world>>

(* A query of the quote fails: 503, and the agent logs this rejection too. *)
QuoteFails(h) ==
  /\ In(h, "admitted") \/ In(h, "quoting")
  /\ Record(h, 0, FALSE, 0, now)
  /\ UNCHANGED <<active, tables, outbox, answered, world>>

(* The early returns that write no row: a provider without a URL, a body   *)
(* that cannot be rewritten, a writer that cannot stream.                  *)
ReturnUnlogged(h) ==
  /\ In(h, "admitted") \/ In(h, "generating")
  /\ job' = [job EXCEPT ![h].phase = "leaving"]
  /\ UNCHANGED <<active, tables, outbox, answered, world>>

(* The upstream has answered in full; its usage may exceed the ceiling.    *)
Complete(h, cost) ==
  /\ In(h, "generating")
  /\ Record(h, cost, TRUE, job[h].ceiling, job[h].started)
  /\ answered' = answered \cup {Request(h).id}
  /\ UNCHANGED <<active, tables, outbox, world>>

(* It failed, fell silent, or the client left: nothing is charged.         *)
FailUpstream(h) ==
  /\ In(h, "generating")
  /\ Record(h, 0, FALSE, job[h].ceiling, job[h].started)
  /\ UNCHANGED <<active, tables, outbox, answered, world>>

(* normalizeSettledEntry.                                                  *)
SettledCost(e) == IF e.ok THEN Min({e.cost, e.ceiling}) ELSE 0

ChargeOf(e) == MarginalTopupCharge(Plan, Spent(e.created), SettledCost(e))
Insert(e) ==
  [i \in DOMAIN logs \cup {e.id} |->
     IF i = e.id THEN [cost |-> SettledCost(e), ok |-> e.ok, created |-> e.created] ELSE logs[i]]

(* SettleUsageAndLog, or InsertRequestLog for a row without a ceiling: the *)
(* first row of an id stays.                                               *)
Settle(e) ==
  IF e.id \in DOMAIN logs THEN UNCHANGED tables
  ELSE LET paid == Min({ChargeOf(e), credit}) IN
       /\ logs' = Insert(e)
       /\ credit' = credit - paid
       /\ unpaid' = unpaid + (ChargeOf(e) - paid)

SaveSucceeds(h) ==
  /\ In(h, "saving")
  /\ Settle(job[h].row)
  /\ job' = [job EXCEPT ![h].phase = "leaving"]
  /\ UNCHANGED <<active, outbox, answered, world>>

(* Variant: a failed save is discarded.                                    *)
SaveFailsSilently(h) ==
  /\ In(h, "saving") /\ failures < MaxFailures
  /\ failures' = failures + 1
  /\ job' = [job EXCEPT ![h].phase = "leaving"]
  /\ UNCHANGED <<active, tables, pending, lost, answered, world>>

(* The database fails, before or after its commit; the row is queued and   *)
(* the handler goes on.                                                    *)
SaveFails(h) ==
  /\ In(h, "saving") /\ failures < MaxFailures
  /\ failures' = failures + 1
  /\ UNCHANGED tables \/ Settle(job[h].row)
  /\ pending' = pending \cup {job[h].row}
  /\ job' = [job EXCEPT ![h].phase = "leaving"]
  /\ UNCHANGED <<active, lost, answered, world>>

(* Variant: a request that was not answered keeps its scope.               *)
ReleaseIfAnswered(h) ==
  active' = IF job[h].holds /\ job[h].row # NoRow /\ job[h].row.ok
            THEN [active EXCEPT ![Scope(Request(h))] = Nobody] ELSE active

(* Variant: a handler that never got in deletes the entry as well.         *)
ReleaseAlways(h) ==
  active' = IF active[Scope(Request(h))] = Request(h).id
            THEN [active EXCEPT ![Scope(Request(h))] = Nobody] ELSE active

(* The deferred release, if the request got as far as the guard: the entry *)
(* is deleted if it names this request.                                    *)
Release(h) ==
  active' = IF job[h].holds /\ active[Scope(Request(h))] = Request(h).id
            THEN [active EXCEPT ![Scope(Request(h))] = Nobody] ELSE active

(* The handler returns.                                                    *)
Leave(h) ==
  /\ In(h, "leaving")
  /\ Release(h)
  /\ job' = [job EXCEPT ![h] = NoJob]
  /\ UNCHANGED <<tables, outbox, answered, world>>

(* A worker of the outbox stores a row, or gives it up and counts it.      *)
RetrySucceeds(e) ==
  /\ e \in pending
  /\ Settle(e)
  /\ pending' = pending \ {e}
  /\ UNCHANGED <<job, active, lost, failures, answered, world>>

RetriesExhausted(e) ==
  /\ e \in pending
  /\ pending' = pending \ {e}
  /\ lost' = lost \cup {e}
  /\ UNCHANGED <<job, active, tables, failures, answered, world>>

(* CreateUserTopup.                                                        *)
BuyTopup(n) ==
  /\ bought + n <= MaxCredit
  /\ bought' = bought + n
  /\ credit' = credit + n
  /\ UNCHANGED <<job, active, logs, unpaid, outbox, answered, arrivals, lapsed, astride, stalled,
                 now>>

(* Between its reading of the credit and its settlement a request may      *)
(* still be charged.                                                       *)
Quoted(h) ==
  \/ In(h, "quoting") \/ In(h, "generating")
  \/ In(h, "saving") /\ job[h].row.ok

(* A top-up with n left expires, is given an earlier expiry or is deleted: *)
(* activeTopupFilter passes it over.                                       *)
Lapse(n) ==
  /\ credit' = credit - n
  /\ lapsed' = IF \E h \in Handlers : Quoted(h) THEN lapsed + n ELSE lapsed
  /\ UNCHANGED <<job, active, logs, unpaid, outbox, answered, arrivals, bought, astride, stalled,
                 now>>

Tick ==
  /\ now < MaxTime
  /\ now' = now + 1
  /\ UNCHANGED <<job, active, tables, outbox, answered, arrivals, bought, lapsed, astride, stalled>>

(* The client of a connection stops reading, and reads again.  main.go     *)
(* sets no WriteTimeout: a write that has filled the socket's buffers then *)
(* waits for as long as the client likes.                                  *)
ClientStalls(h) ==
  /\ ~In(h, "idle") /\ h \notin stalled
  /\ stalled' = stalled \cup {h}
  /\ UNCHANGED <<job, active, tables, outbox, answered, arrivals, bought, lapsed, astride, now>>

ClientReads(h) ==
  /\ h \in stalled
  /\ stalled' = stalled \ {h}
  /\ UNCHANGED <<job, active, tables, outbox, answered, arrivals, bought, lapsed, astride, now>>

(* What the upstream may report: up to one unit above the price.           *)
Costs(h) == IF In(h, "generating") THEN 0..(1 + Request(h).price) ELSE {}

Serve(h) ==
  \/ PassLimit(h) \/ RateLimited(h) \/ Acquire(h) \/ GiveUpWaiting(h)
  \/ ReadCredit(h) \/ Admit(h) \/ Refuse(h) \/ QuoteFails(h) \/ ReturnUnlogged(h)
  \/ FailUpstream(h) \/ \E cost \in Costs(h) : Complete(h, cost)
  \/ SaveSucceeds(h) \/ SaveFails(h) \/ Leave(h)

Next ==
  \/ \E h \in Handlers : Serve(h) \/ \E r \in Requests : Arrive(h, r)
  \/ \E e \in pending : RetrySucceeds(e) \/ RetriesExhausted(e)
  \/ \E n \in Bought : BuyTopup(n)
  \/ \E n \in 1..credit : Lapse(n)
  \/ \E h \in Handlers : ClientStalls(h) \/ ClientReads(h)
  \/ Tick

Spec == Init /\ [][Next]_vars

(* Goroutines run, and upstream and database calls have timeouts; a write  *)
(* to the client ends if the client reads.                                 *)
ServeReader(h) == Serve(h) /\ h \notin stalled
FairSpec == Spec /\ \A h \in Handlers : WF_vars(ServeReader(h))

-----------------------------------------------------------------------------
(* Properties *)

Rows == [id : Ids, cost : Nat, ok : BOOLEAN, ceiling : Nat, created : 0..MaxTime]

(* The type invariant.                                                     *)
TypeOK ==
  /\ job \in [Handlers ->
       [phase : {"idle", "limiting", "waiting", "admitted", "quoting", "generating",
                 "saving", "leaving"},
        request : Requests \cup {NoRequest}, seen : [credit : Nat, at : 0..MaxTime],
        started : 0..MaxTime, ceiling : Nat, row : Rows \cup {NoRow}, holds : BOOLEAN]]
  /\ active \in [Scopes -> Ids \cup {Nobody}]
  /\ DOMAIN logs \subseteq Ids
  /\ \A i \in DOMAIN logs : logs[i] \in [cost : Nat, ok : BOOLEAN, created : 0..MaxTime]
  /\ credit \in Nat /\ unpaid \in Nat /\ lapsed \in Nat /\ astride \in BOOLEAN
  /\ stalled \subseteq Handlers
  /\ pending \subseteq Rows /\ lost \subseteq Rows
  /\ answered \subseteq Ids

(* "prevents concurrent requests from spending the same settled balance":  *)
(* as long as no batch came, no settlement failed and no period ended      *)
(* between the date of a row and its quote, what the settlements could not *)
(* take from the top-ups is credit that lapsed under a quote, and no more. *)
Serialized == \A r \in Requests : arrivals[r.id] > 0 => r.kind # "batch"
OnlyLapsesGoUnpaid == Serialized /\ failures = 0 /\ ~astride => unpaid <= lapsed

(* A billing row is never discarded: the cost of an answered request is on *)
(* record, about to be, in the outbox, or counted as lost.  (A replay of   *)
(* its attempt may take its id.)                                           *)
AnswersAreAccounted ==
  \A i \in answered : arrivals[i] = 1 =>
    \/ i \in DOMAIN logs /\ logs[i].ok
    \/ \E h \in Handlers : In(h, "saving") /\ job[h].row.id = i /\ job[h].row.ok
    \/ \E e \in pending \cup lost : e.id = i /\ e.ok

(* "the exact amount one generation may consume": a request is refused     *)
(* only if the least it could cost would not be covered.                   *)
RefusalsAreJustified ==
  [][\A h \in Handlers : Refuse(h) =>
       MarginalTopupCharge(Plan, Spent(job[h].seen.at), Request(h).least)
         > job[h].seen.credit]_vars

(* The map of the guard implements exclusive scopes.                       *)
Inside == [h \in Handlers |-> IF job[h].holds THEN Scope(Request(h)) ELSE Outside]
Guard == INSTANCE ExclusiveScope WITH inside <- Inside
ImplementsExclusiveScope == Guard!Spec

(* Whoever holds a scope returns it, whatever happens to its request, if   *)
(* its client does not stop reading for good: nothing bounds the write a   *)
(* stalled client blocks, and the deferred release waits for it.           *)
Holds(h, s) == job[h].holds /\ Scope(Request(h)) = s
ScopesAreReturned ==
  \A h \in Handlers, s \in Scopes :
    <>[](h \notin stalled) => (Holds(h, s) ~> active[s] = Nobody)

=============================================================================
