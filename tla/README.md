# A verification of the MuhiyaWorkspace gateway

MuhiyaWorkspace (Go, `src/`) is a multi-tenant gateway in front of LLM providers. It authenticates
virtual keys, limits their rate, admits a request only if the user's budget covers it, relays it to an
upstream (OpenAI or Anthropic dialect, streamed or not), and charges what was used to the user's plan
windows and prepaid top-ups. PostgreSQL holds the accounts, Redis (optionally) the shared limits and the
generation guard.

This directory holds TLA+ models of the parts that decide about money, admission and availability, TLC
runs that check them on small instances, and TLAPS proofs of their central properties for every value of
the constants. Sections: 1 the system, 2 the modules, 3 the runs, 4 the proofs, 5 disagreements between
code and documents, 6 what is not modelled, 7 the plan.

## 1. The system

| Component | Source | State it keeps | Operations |
|---|---|---|---|
| customer ledger | `db/billing_atomic.go`, `db/billing.go`, parts of `db/db.go` | `request_logs`, `user_topups`, `users`, `budget_windows` | SettleUsageAndLog, InsertRequestLog, GetBudgetAvailability, top-up, plan, window and reset operations, retention |
| generation guard | `proxy/limiter.go` 127-345 | a Redis key or a map entry per scope | AcquireGeneration, release, renewal |
| request flow | `proxy/handler.go`, `proxy/agent.go` | the handler's goroutine | limit, guard, quote, upstream call, settlement, release |
| billing outbox | `proxy/outbox.go` | a buffered channel, workers, a loss counter | enqueue, retry ladder, give up |
| request byte budget | `proxy/bytebudget.go` | free bytes | Acquire, Release |
| rate limiter | `proxy/limiter.go` 348-657 | Redis sorted sets, KeyLimiters per gateway | CheckLimit, the script, the sweep |
| limiter definitions cache | `proxy/limiter.go` 73-125, 393-434, `admin/handlers.go` | cached user, plan and windows per gateway | lookup, fill, invalidation |
| process lifecycle | `main.go` | dbReady, the handlers, the watchdog's counter | connect, wire, watch, drain |
| stream relay | `proxy/handler.go` 1201-1905, `proxy/translator.go` 859-1162 | one stream's usage and flags | read loop, watchdog, finish |
| agent loop | `proxy/agent.go`, `proxy/tools.go`, `proxy/websearch.go` | one run's turns, tool calls and frames | turn, tool execution, search chain, row, end |
| pricing and money | `pricing/*.go`, `money.go`, `db/exact_money.go`, `proxy/priceclock.go`, `proxy/pricing_endpoint.go` | the rules loaded with a model, the pinned instant | quote, allowance, charge, price list |
| admin operations | `admin/handlers.go`, `db/db.go` | the rows of the catalogue and the accounts | merge and save a model, plans, windows, top-ups, keys |
| route affinity (but its rebind), migrations, console access, translation | see PROJECT.json | | |

How they interact. A request passes the readiness gate and the check of its key; its handler then takes its body limit from the byte budget before reading the body, asks the
limiter (which asks the definitions cache), enters the generation guard of its scope, reads the budget (the
quote, which reserves nothing), calls the upstream, and hands a row to `saveRequestLog`. That settles the
row in one transaction under the user's advisory lock; if it fails, the row goes to the outbox, whose
workers try again. Only then does the handler leave the guard. Admin operations change the accounts at any
moment, clear the definitions cache of the gateway that serves them, and rewrite the models whose prices
the quote and the settlement read. The lifecycle decides when any of
this is reachable.

What is hard, and what makes each part correct:

- *Ledger.* Settlements of one user run at READ COMMITTED, one statement at a time, while every other
  writer of the tables commits in between; they are retried and replayed. Correct: money leaves the top-ups
  once per recorded request, in the step that records it, never more than its cost, never more than was
  bought, soonest expiry first, never from a deleted top-up; what exceeds a window was assessed.
- *Guard.* Processes race for a key that expires; answers, renewals and releases get lost. Correct: one
  generation at a time in a scope, and every scope is given back, unless its client stops reading for good.
- *Request flow.* Nothing is held between quote and settlement but the guard. Correct: what a settlement
  charges was there when it was quoted and still is; an answered request's cost is never forgotten.
- *Outbox.* Correct: a row is stored, pending or counted as lost, in one place at a time, and in the end
  stored or given up.
- *Byte budget.* Acquisition in pieces with cancellation. Correct: no byte is lost, the cap holds, waiters
  do not block each other, as far as one body limit or the room for all of them goes.
- *Rate limiter.* Clocks disagree, replies get lost, memory stands in for Redis. Correct: no minute of a
  limiter holds more than the plan allows, nothing is throttled without cause.
- *Definitions cache.* Correct: a decision is not staler than a TTL and a fetch; an edit is missed only by
  a fetch it overtook.
- *Stream relay.* The reply may break, fall silent or end in a line that ends nothing, the watchdog runs
  beside the handler, and the client may stall or leave between any two writes. Correct: one row, one end,
  both telling the same, the row before the terminal frame, a charge only for a reply that came whole.
- *Lifecycle and front door.* The database comes and goes, the watchdog panics, the process drains while
  requests wait, keys are revoked. Correct: outages that last are noticed, service resumes, traffic moves,
  and a key that stays revoked empties the gateway of all that do not keep their buffers.
- *Agent loop.* Tool calls arrive in fragments, turns break off, searches fall back, the client leaves.
  Correct: every call is put together as it was meant and answered before the model is asked again, a
  search fails only after every provider had its turn, reply and row tell the same, runs end for clients that read.
- *Pricing.* Two conventions of counting cached tokens, four routes that find them in different events, tiers, windows that wrap midnight, two roundings
  and a clock that moves. Correct: what is billed is what was served and told, never more, the allowance is the largest the
  budget pays, the charge stays within its quote and is what the price list showed.
- *Catalogue.* Readers load a model by five queries, edits replace its row and satellites. Correct: an edit
  changes what its body names and nothing else.

PROJECT.json lists the hazards one by one, at their lines, with the properties that cover them.

## 2. The modules

**UnitSums, Budget** are the arithmetic: sums of finite tables, period starts (`windowPeriodStart`),
effective floors, spending in a window, `MarginalTopupCharge` (what one settlement owes the top-ups) and
`AvailableBudget` (what a quote allows). Every other module about money uses these operators, and
BudgetTheorems proves facts about them.

**Settlement** is the ledger of one user. Tables are functions from keys to records. SettleUsageAndLog is
one action per SQL statement (`SettleLock`, `SettleNotLogged`, `SettleReadUser`, `SettleReadWindows`,
`SettleChargeWindow`, `SettleSelectTopups`, `SettleDeduct`, `SettleCommit`); `work` and `draws` are the
uncommitted part and reach the tables in `SettleCommit` alone. `Abort` is any error, timeout or crash
before that. `RowLocked` is `FOR UPDATE`. The remaining actions are the other writers: plain inserts, plan
and window edits, resets, top-ups created, deleted and re-dated, retention, time. History variables say of
each row the overage its settlement found (`assessed`) and the windows it was measured against (`against`), and
keep apart what settlements took whose row a plain insert of the same id wrote first (`overtook`, `stray`). **ChargeLedger** is what it promises; Settlement is shown to implement it with the costs on
record as `settled` and the sum of `used`, less `stray`, as `collected`.

**GenerationLease** is the guard over Redis: SETNX with a lost answer, the heartbeat that renews or fails,
compare-and-delete release, expiry. **ExclusiveScope** is its promise. Time is counted in heartbeats, `TTL`
in heartbeats too. The in-memory variant of the guard is part of Gateway and implements ExclusiveScope as well.

**Gateway** composes the request flow: `PassLimit`, `Acquire`, `ReadCredit` (the first query of the quote),
`Admit` or `Refuse` (the following ones), `Complete` or `FailUpstream`, `SaveSucceeds` or `SaveFails`,
`Leave`. A settlement is one step here; Settlement has its statements. Kinds of requests are "chat",
"batch" (its own scope), "agent" (dated before its wait) and "audio" (dated in its turn, before its quote).
Rejections, early returns and clients that leave are actions of their own. `BuyTopup` and `Lapse` (expiry,
deletion, an earlier expiry) change the credit at any moment. `ClientStalls` and `ClientReads` are the clients
that stop reading what their handler writes: a handler in `stalled` may go on (the buffers of its socket are not
full yet), but nothing makes it. `lapsed` and `astride` are history variables: the
credit that lapsed while some request held a quote, and whether a period ever ended between a row's date and its quote.

**Outbox**: `saveRequestLog` (`SaveSucceeds`, `SaveFails` before or after the commit), `Enqueue` with the
full buffer, workers with a bounded ladder, `ShutDown`. **ByteBudget**: one action per visit of the mutex.
**RateLimiter**: the atomic script with clock and execution apart, members of the sorted sets as in the
code, expiring keys, the fallback, KeyLimiters as heap objects that a request holds before it locks them, their slices cut at the
first record that is young enough, the sweep. **LimiterDefs**: the three reads of a miss one by one, the fill, edits of a user, a plan with its
windows or a window, and the invalidation that precedes the answer. **Lifecycle**: the main goroutine, the watchdog
with its counter and its panics, the database. **FrontDoor** composes Lifecycle and ByteBudget: a request
knocks, passes the gate (`Gate`), the key check (`LetIn`, `TurnedAway`) and the byte budget (`Acquiring`,
`Leave`, `Served`); `Moderate` is the operator who revokes and reinstates, `Dies` the end of the process and of
what it holds in memory.

**AgentLoop** is one run: where it is routed (`Route`, `Resolve`, proxied or not), its admission reduced to
its outcomes (`Refuse`, `Admit`; Gateway has them in full), the attempts of a turn (`TurnFails`, `Connect`),
the fragments of its tool calls (`BeginCall`, `ContinueCall`, put into slots as toolCallAccumulator.add does),
`TurnEnds` in all its ways, the execution of the calls one by one (`StartSearch`, `DeclineSearch`,
`OtherTool`, `TryProvider`, `SearchFails`), `NextTurn` with the iteration limit, the row and the last frames. What
the upstream meant is kept beside what the slots hold.

**PriceRules** are the pure parts: the classes of usage (NormalizeUsage and the providers' two conventions),
the rates of a tier, the window in force, scaling, exact division and both roundings, the quote and the next
boundary. `Reported` is what each route hears of a
generation: `OpenAIReported` (the openai route, and any whole reply of an OpenAI upstream), `TranslatedReported`
(an OpenAI stream for an Anthropic client) and `AnthropicReported` (an Anthropic upstream, forwarded or
translated, whole or streamed). A request says which events of its stream tell of usage (`tells`) and which of
them break cache writes down by lifetime (`split`). **Catalogue** is a model's row with its satellites: five queries to read it, the merge of a PUT
over what was read, normalisation and the save. **Pricing** is a request priced over it: the pinned instant,
the load, the bounds of input and output, the allowance (the binary search as a function of its two ends),
the settlement of what was generated, and the price list that shows rates and their next change. An amount
is in nano-USD and a million is the constant `PerMillion`.

**StreamRelay** is one reply on any of the four routes (`call.dialect`). Lines wait on the connection, which
`Fire` (the watchdog) closes, and then in the reader's buffer, which survives it: `sent >= buffered >= read`.
`Forward` and `Translate` handle a line as the two kinds of loops do, with what finish does inside the
loop; `ReadFails`, `NextLine` and `Finish` are the ways out of it; `ReadAll` and `ReadAllFails` the replies
that are not streamed; `Unreachable`, `Rebind` and `Refused` the upstreams that do not answer. A write is
a step of its own (`Write`) because a client whose window is full holds the handler in it. `Send`, `End`, `Cut`,
`Stall`, `Resume` and `Leave` are the environment. `EndsReply`, `Tracked` and `Translated` are what the
translators make of a line, reduced to what ends a reply, what counts and what the client sees.

Names follow the code. Definitions commented "Variant:" are faulty forms of the definition after them; the
mutants of PROJECT.json substitute them to show that a property can fail. The MC modules give constants
their values; where they define `MCScope` it is a CONSTRAINT that keeps the union of several small scopes
instead of their product. It restricts arrivals, admin actions and time, never a step that fairness is
asked of.

## 3. The runs

| Run | Module, cfg | States | What it shows |
|---|---|---|---|
| settlement | MCSettlement, Settlement.cfg | 180 k | Two settlements at a time, replays, aborts between statements, top-ups bought, deleted, re-dated, plain inserts under their ids; plans and limits that change, resets, retention and plain inserts under one settlement; three requests settling in any order over four instants, two overlapping windows, latency 2 |
| lease | MCGenerationLease, GenerationLease.cfg | 10 k | Three handlers, two requests of one scope and a batch request of the same user, each possibly replayed, TTL 4, up to two missed renewals |
| gateway | MCGateway, Gateway.cfg | 173 k | Chat, batch and agent requests, one repeated under its id; three arrivals, or two and a failed settlement or a client that stops reading; any two out of two chats, an agent run and a transcription, a window that rolls over inside another, credit bought and lapsing at any time: `OnlyLapsesGoUnpaid` |
| outbox | MCOutbox, Outbox.cfg | 258 k | Four rows, two workers, a buffer of one, five attempts |
| frontdoor | MCFrontDoor, FrontDoor.cfg | 112 k | Two bodies of 2 or 3 under a cap of 4, from the first connection to the end of the process, a database that goes and comes, a watchdog that panics, a key revoked and reinstated |
| limiter | MCRateLimiter, RateLimiter.cfg | 919 k | Two gateways with clocks a tick apart, scripts a tick late, a failing Redis, the sweep |
| defs | MCLimiterDefs, LimiterDefs.cfg | 723 k | Two requests on two gateways, an edit at any moment |
| relay | MCStreamRelay, StreamRelay.cfg | 112 k | Eight replies of both dialects, streamed or not, on their routes, pinned or not, for apps that show the row and others |
| agent | MCAgentLoop, AgentLoop.cfg | 1.3 M | Three turns of up to two calls, in interleaved fragments numbered or not, search chains of none to three providers, turns that break off, a client that stops reading, reads again or leaves |
| pricing | MCPricing, Pricing.cfg | 945 k | Six requests over the routes of both dialects, streamed or whole, to three families of models over a day of three minutes, tiers, cache rates, overlapping windows, the price list, an edit that falls between the queries of a request or of a list, and two edits at once |
| gateway_credit | MCGateway, Gateway_credit.cfg | violation | see section 5 |
| bytebudget_mixed | ByteBudget, ByteBudget_mixed.cfg | violation | see section 5 |

*Bounds.* Money is in small units: what matters is whether a cost is below, at or above a budget and a
balance, and the budgets, prices and amounts of the runs are chosen so that all three happen, for one and
for two windows. Two settlements contend for a lock as any number do; the third request of
settlement, in the scope that settles out of order, makes a later period overtake an earlier one twice.
The limits of its two window sets differ in one window, and an edit may take either direction. The runs of settlement,
gateway, frontdoor and pricing are unions of scopes (`MCScope`), each of which asks one question: a stalled client
and a third arrival, or bodies of both limits and a panicking watchdog, do not meet in them (the theorems about safety have no such bounds). The lease runs with one renewal
missed less than it outlives; the theorem says that this is the boundary. The replies of relay have every packing of the end that the loops
tell apart (usage in its own line, in the stop line or nowhere; a stop line with text; no terminal line),
and break after any line. The buffer of one and four rows
overflow with both workers busy. Two bodies of 3 under 4 leave a remainder that no body can use. A body of 2 that finishes while one of 3
waits is what it takes for two parts of 2 to block each other, as the code's 24 and 100 MiB do (section 5): the run
has both limits, and `TrafficMoves` says when it is sure that waiting ends. Two failing pings are the watchdog's threshold, so that one flake alone does not degrade. Three
turns are one with a search, one whose search is declined and the last; the chains of providers are empty,
single, and long enough to fall back twice. The prices of pricing have a rate above and below the rounding
unit, a tier below and above every prompt, a window that wraps midnight, one that starts within the day
and one an admin left half filled; the clock runs through the whole day. Its requests hear of their usage at the
start of a stream, at its end or at both, with cache writes broken down or not, and one prompt is below MiniMax's
threshold. Two admins load one row and save it one after the other. In the
limiter three requests are stopped by their number and two by their tokens; windows of three ticks with a
tick of lag and a tick of skew leave room for scripts out of order. The clocks, failures, flakes, panics,
arrivals and bought credit are capped by constants named Max..., each with a comment.

*Types.* In Settlement, Gateway, Outbox, StreamRelay, AgentLoop, ByteBudget, RateLimiter and GenerationLease TLAPS proves the type
invariant for every instance; elsewhere it documents the state. The runs do not spend a property on it.

*Deadlock* is checked in settlement, lease and frontdoor. The others stop by design when their finite
requests, replies, rows, edits and instants are used up.

*Fairness.* Goroutines run, and calls to upstreams, Redis and the database have timeouts. Writes to clients have none:
`main.go` 235 sets no WriteTimeout, so a client that stops reading keeps its handler, and what that holds, for as long as
it likes. Every liveness property of what a handler holds is therefore stated for clients that do not stop reading for
good. Gateway: weak fairness of a handler's steps while its client reads (`ServeReader`). AgentLoop: the same of the
loop, its connections and its idle watchdog (`Reads`). StreamRelay: the handler runs, its two clocks run out, and `StreamsEnd`
asks that the client does not stay stalled. FrontDoor: callers poll, the main goroutine and the watchdog run;
nothing makes a handler give its buffer back (`RevocationTakesHold` asks it of the handlers, and that waiters do not hold
the whole budget between them), a client cancel or the database come back. GenerationLease: time passes and each
tick's heartbeat happens; `LeaseEnds` asks that no generation goes on for ever. Outbox: saves return, workers run. Pricing has no liveness. Nothing is assumed of upstreams,
Redis, the database or the admin. In Settlement
liveness is stated as the invariant `HolderGoesOn`: the holder of the user's lock always has a next
statement, so that what the waiters wait for ends.

## 4. The proofs

All theorems are checked by TLAPS to the leaves. The assumptions on constants are the ASSUMEs of the
modules: finiteness of the sets of ids, natural amounts, windows with positive durations, distinct null
values. Beyond them only what the theorem's own ASSUME says.

- *BudgetTheorems.* The code's SUM over rows is defined with a fold of the community modules; induction
  over data is out of the prover's reach, so the theorems count: `SumOf(f, S)` is the cardinality of the set
  of units `{<<x, i>> : x in S, i in 1..f[x]}`, and raising, adding and comparing amounts are facts about
  finite sets (`SumRaise`, `SumPlus`, ...; CapacityProofs uses them too, which is why it has the constant
  NoTime of Budget without a use for it). `PeriodStarts`: the period of an instant starts no later than it,
  and later instants have no earlier periods. `QuotedCostIsCovered`: a cost within the available budget never owes the top-ups more
  than they hold, for any windows, spending and balance.
- *SettlementProofs.* `IInv == TypeOK /\ HolderInv /\ DrawsInv /\ ChargeInv /\ TopupsNeverOverdrawn`. The
  type invariant does not say that only the lock holder's transaction has draws, that every drawn top-up is
  locked and was selected undeleted, or that draws and `owed` add up to the charge, which is at most the
  cost; the commit needs all three. From it: `SettlementTypes`, `TopupsBounded`, `DeletionIsFinal`,
  `DeductionsFollowExpiry`, and `SettlementImplementsLedger` (refinement of ChargeLedger, for all plain inserts,
  those under the ids of settlements included: a settlement that finds its row written at the commit adds its draws to
  `stray`, and the theorem says that whatever else is collected has its row).
  The lock: `TheHolderHasAStatement` is the guard form of `HolderGoesOn` (the guard of some statement of the holder's
  stage is true; in the loop over the top-ups, one of those selected is the next because the order by expiry and id
  has a first in every finite set), and by `TransactionsComeToAnEnd` every statement takes the transaction to a later
  stage, takes a window or a top-up off its loop, or ends it, and no other writer takes it back.
  `ASettlementIsOneStep` bridges to Gateway: while nobody else changes what a settlement reads, its statements
  add up to one step that charges `MarginalTopupCharge`, which is how Gateway models it.
  `NoOverageIsMissed` is about what a settlement reads one statement after the other while other rows come
  and go. Its `AssessedInv` is stronger than the property in two ways: it speaks of every part of the rows that
  count (`RowsAssessed`), so that time, a reset and retention only ever narrow it; and of a running settlement
  whose request lies in the current period it says that the spending it read began no later (`FloorRead`)
  and that its rising charge is at least what the new row adds to the overage of any part, for each window it has
  gone through (`RiseRead`). Neither assumes anything of plans, limits and inserts. Where they change between the
  statements, what a settlement owes is what it read: `against` keeps that, and the property speaks for each window of
  the plan now in force of the rows that were measured against a limit as strict. A limit that is lowered makes
  overage of rows that were within the one they were settled under, and nothing in the code charges them again.
- *LimiterProofs*, first part (GenerationLease). `HandlerInv` relates a generating handler to its key: it names the handler's
  request and has at least `TTL - behind` left. Under `RenewalsSuffice` (the lease outlives the renewals
  that may fail in a row): `LeaseExcludes`, `LeaseIsKept`, `LeaseImplementsExclusiveScope`, and `LeasesRunOut`: a
  generation that ends frees its key or leaves it to nobody, and such a key loses a unit of its life at every tick.
- *LimiterProofs*, second part (LimiterDefs; the two components of limiter.go share no state). `DInv` dates
  what caches and requests hold. `EntryInv`: a cached definition was in its row a fetch before the fill or
  later, so one that was replaced at `at` expires by `at + DefsTTL + MaxFetch`; `ReadingInv`: what a request
  has read was in its row when it began or later, and it began at most a fetch ago. That gives `Staleness`.
  For `EditsTakeEffectWhereServed` both add that on a gateway outside `overtaken` nothing newer than what is
  held is effective; a clear under a reader and an edit served elsewhere are exactly the steps that break
  it, and both put the gateway into `overtaken`.
- *BillingProofs*, first part (Outbox). `PendingIsDone` adds that a row in the buffer or with a worker has
  left its handler. From it: `NoSilentLoss`, `PendingOnce`, and `RowsMoveOn`: with each step of its worker a row
  moves up in the buffer or has an attempt less before it, and what is resolved stays so.
- *BillingProofs*, second part (Pricing and Catalogue; the two parts share no state). `CatalogueInv`: the saved
  model is whole and normalized (`Kept`); what a reader holds are parts of saved models, though of different
  ones; an admin whose PUT no save has overtaken holds parts of the one that is saved. From it
  `OvertakenByNoneKeepsTheRest`, with `MergeKeepsTheRest` (normalizing what is normalized changes nothing).
  `RequestInv` says that the rules of a request have tiers and windows that can be compared and divisors that
  divide, and what its quote and receipt are. `TokensAreBilledOnce` is then arithmetic of `NormalizeUsage`, for
  what each route reports.
  `ChargesStayWithinTheQuote`: each line is within its tokens as fresh input (`PromptLineIsWithinFresh`),
  rounding lines apart costs at most one for each further line (`OneMoreLine`, added one class at a time), and
  more tokens in a higher tier cost more (`CostMonotonic`, `TiersAscend`). `GrantsAreTheMostAffordable`: the
  recursive function of the binary search exists and finds the largest output, which needs induction; where
  it is over a range of numbers, the largest number up to which a claim holds takes its place
  (`LargestExists`, from the well-foundedness of finite sets). `PricesHoldUntilTheNext`: `ListInv` says what a
  list shows of the rules it was made from. The window in force depends on the minute only
  (`SameMinuteSameWindow`, which is where whole minutes are needed) and the scan sees the start of every minute
  up to the announced change (`NoChangeBeforeTheNext`); the tier a client finds in the list is the one the
  charge uses (`TierIsAsShown`, which needs thresholds that differ, as the table's UNIQUE constraint and Validate
  demand: `Storable`); `LineIsAsShown` bounds the charge of a line by the rounded rate. Assumed: a body is what
  `validateModelShape` lets through, a first model is normalized and storable, budgets are integers.
- *CapacityProofs*, first part (ByteBudget). `Shape /\ BytesConserved` gives `NoByteIsLost` and `MemoryIsBounded`.
  `OnlyMixedBodiesStick` (for any set of limits) needs more, and the history `met`: since the budget was last whole,
  requests of which limits were inside. While that is one limit n, at most one waiter holds a part that is no multiple of
  n, and the free bytes are then none; that part of the proof is about remainders (`RemainderInv`). Where all inside fit
  the cap together, the free bytes cover what is lacking. Otherwise nothing can be promised.
- *CapacityProofs*, second part (FrontDoor, over Lifecycle and the first part's lemmas). `DoorInv` puts to the budget's
  invariant that a caller is inside exactly while the budget knows of it, and `ProcessInv`: whoever may open the
  gate (main once it has published, the watchdog, which it starts after that) runs only with all handlers
  assigned. A request's step is one of the budget or leaves it alone, and a process that dies leaves an initial
  one: FrontDoor refines a ByteBudget that may begin again (`TheBudgetRestarts`) and Lifecycle
  (`FrontDoorImplementsLifecycle`). From it `FrontDoorTypes`, `NoByteIsLostBehindTheDoor`, `HandlersAreThere` (which
  no run checks, as `MemoryIsBounded`), `TheCapHoldsBehindTheDoor` and `NeverStuckBehindTheDoor`. A visit of a
  waiting caller, when nobody has a buffer, fills one or ends the wait (`AVisitFillsABuffer`): `TrafficMovesForEach`. Nobody joins those
  indoors while a key is revoked, and who has a buffer, and does not keep it for good, leaves: `RevokedKeysLeave`. `WatchInv` (the counter is
  zero until there is a watchdog, and the gate shut once it has reached the threshold) gives `TheServiceResumes` and, with
  the code's threshold of two (`main.go` 462), `TheOutageIsNoticed`: from wherever an outage or its end meets the
  watchdog, a fixed chain of its steps leads to the gate's new state, which then stays. Both assume that flaky
  pings and panics come to an end (in the run their number is capped).
- *CapacityProofs*, third part (RateLimiter; it shares no state with the others). `EachLimiterHolds` is about what was
  let through, the code decides by what it has stored, and the invariant `CountInv` ties the one to the other.
  `RedisInv`: every member of a sorted set stands for a counted request, and every counted request whose stamp is
  within a window of the fastest clock is still a member under its own score; expiry cannot have dropped it,
  since `Window <= Keep`, nor a script, whose stamp is not ahead of that clock (`LiveKeeps`). `LimiterInv`: the
  records of a KeyLimiter ascend, and after every instant the limiter may still be asked about they are as many, with
  as many tokens, as what it counted since; that is a statement about slices (`SinceKeeps`, `OneRecordMore`)
  and survives the sweep, because `OwnerInv` lets a KeyLimiter belong to one gateway for good, also when the map has
  dropped it. From it `LimitersHold`: what falls into a window with a newcomer is within what its check found, by
  an injection into the members of the set (`ScriptFindsTheRecent`) or by equality; the `Slack` of Redis is exactly
  what scripts on clocks that disagree, run out of order, may miss. And `LimitersThrottleForCause`, by an
  injection the other way (`ScriptFindsNoMore`). Sums of tokens are compared along such injections without
  induction (`SumInto`, `SumOnto`). `LimitersHold` assumes `[]StampsDiffer`: Redis is never shown one nanosecond
  stamp twice, without which it is false (section 5). `LimitersHoldOfOwnStamps` derives that from constants of which the
  run's are an instance.
- *GatewayProofs.* `IInv` (types, and each holder of a scope named in the map) gives `GatewayTypes` and
  `GuardIsExclusive`. `QuotesAreCovered`: without batches and failed settlements, and while no period ends
  between the date of a row and its quote, `unpaid <= lapsed` always. The strengthening `QuoteInv` says of each
  quoted handler that its ceiling is within the room left at the date of its row, where the room counts the
  credit and what is missing of it through lapses, `credit + (lapsed - unpaid)`. It survives because nobody
  else of the scope settles, a lapse moves credit into the excuse, credit only grows otherwise, and a row
  dated no earlier than its quote's periods counts no more spending.
  `AnswersAreNeverDropped`: an answer is logged, being saved, pending or counted as lost. `StoryInv` adds
  that an id that arrived once is served by one handler at most, has no row anywhere while that handler works,
  and, once answered, is being saved or has rows that all say ok. `HoldersReturnTheirScopes`: every entry of the
  map has a handler behind it, which goes through its phases to the deferred release.
- *StreamRelayProofs.* `RowInv` adds to the types where the row is: none before the loop, in the loop one if
  and only if a forwarded reply has been seen to end, one afterwards. From it: `RelayTypeOK`,
  `EveryRequestIsBilledOnce`. `RelayInv` says for every place of the loops what has been written, what is about
  to be written and what the tracker has taken, in terms of the lines read so far: no terminal frame before
  the row, none but the last, all text read is with the client or in the frames still to be written, and the
  usage is that of the lines read. From it: `NothingAfterTheTerminalFrame`, `TheEndIsToldOnce`,
  `BrokenRepliesAreFree`, `ReportedUsageIsBilled`. They assume `RepliesEndOnce`, what the upstreams' protocols say: the
  terminal line is the last. A forwarding loop goes on after it and would forward what follows. The replies of the
  run meet it, which MCStreamRelay asks TLC to confirm. `TheRelayAdvances` needs no such assumption: a rank of stage, lines, frames and clocks
  still to go falls with every step of the handler, the watchdog and the timeout, in a well-founded order, and
  nobody outside raises it. `EveryRankOfAReplyIsLeft` adds which of the three acts where.
- *AgentLoopProofs.* For any number of turns, calls and fragments. `Gathered` says that during a turn the
  accumulator has one buffer per call begun, in order, under the number the upstream gave it or under its
  position, with the name and the pieces sent of it; a new call opens a new buffer because its number is new
  or because `next` counts the calls (`CallIsOpened`), and a later fragment finds its own (`CallIsContinued`).
  `Round` says that the answered calls and those to do are the calls asked, cut at one place; `Searching` that
  the providers tried and left are those configured; `Told` what frames and rows hold at each stage. From them:
  `AgentTypes`, `TheCallsMeantAreExecuted`, `NoCallIsLeftOpen`, `SearchesTryEveryProvider`,
  `TheRowSaysWhatTheClientSaw`, without assumptions beyond `AgentAssumption`. The filter of finalize is
  written with `InOrder` and not with SelectSeq, of which the prover knows nothing; the theorem needs only
  that equal buffers give equal calls. `TheRunAdvances`: turns left, stage, calls to do and providers to try are
  a rank that every step of the handler lowers; `EveryRankIsLeft` under fairness.

*Liveness.* Three things are out of the provers' reach: ENABLED, fairness under a quantifier, and induction over
temporal formulas. What is proved of a liveness property is therefore each leads-to step, from the weak
fairness of one actor, with ENABLED of its step assumed where the guard holds. TLC confirmed those assumptions
as invariants of the runs' instances.
`TheServiceResumes` and `TheOutageIsNoticed` are whole properties under such hypotheses. `LeaseEnds`,
`EveryRowIsResolved`, `ScopesAreReturned`, `StreamsEnd`, `RunsEnd`, `TrafficMoves` and `RevocationTakesHold` are
proved one actor, rank or departure at a time: that finitely many such steps make up the property is
the induction that stays with TLC. `HolderGoesOn` is an ENABLED itself; its guard form is proved. Every
other property of a passing run is the statement of a theorem.

## 5. Disagreements between code and documents

Two have a run of their own and an entry under "findings":

- *gateway_credit.* `billing_atomic.go` 95 subtracts the spending of the whole window from the budget,
  including overage the top-ups have already paid, and adds the balance that has already lost it: overage
  counts twice, and a request the remaining credit covers is refused.
- *bytebudget_mixed.* `bytebudget.go` 21-23 promises that a blocked Acquire delays but never fails well-behaved
  traffic. Callers keep the pieces they have while they wait, so with two body limits (chat 24 MiB, transcription 100
  MiB) they can hold the whole budget between them, each short. Four requests reach it under 128 MiB; under
  the default 256 MiB ten chats that finish while three transcriptions arrive do (the three end with 88, 96 and 72 MiB).
  Chats then wait too, until a client gives up.

The following were met while modelling and reproduced by TLC with the property named; their runs are not
part of the project.

- *Usage after the end* (`UsageIsBilled` of StreamRelay). `translator.go` 713-715 asks an OpenAI upstream
  for usage, which comes in a line after the one with the finish reason; on the toAnthropic route that one
  ends the loop (`translator.go` 970-991, `handler.go` 1717-1720), so a streamed reply is recorded with no usage
  and costs nothing. The forwarding of Anthropic streams reads cache writes from message_delta only
  (`handler.go` 1857-1875) while the translation also reads them from message_start.
- *Unseen ends* (EndsReply). A line that carries text or a role together with its finish reason does not
  end a reply for toAnthropic: the client is told that a whole reply broke off, and the row costs nothing.
- *Cache writes that nobody hears of* (`BilledAsServed` with all of `Written(used)` on every route). An OpenAI stream translated
  for an Anthropic client drops them and does not know MiniMax's threshold (`translator.go` 875-881): writes are billed as
  fresh input and small reads at the cache rate. Of a forwarded Anthropic stream those are dropped that message_start alone
  tells of, and of a whole Anthropic reply the lifetimes (`handler.go` 1892-1896). `BilledAsServed` says for each route
  what it hears of, and that none bills a token twice.
- *Broken replies answered 200* (`WholeRepliesAreCharged`, its second half without `Saying("reply")`). Three of
  the four routes ignore the error of ReadAll (`handler.go` 1603, 1733, 1891): a reply that is not streamed
  and breaks off is an ok row and an empty or broken answer. The openai route reports it (1441-1444).
- *A slow client times its upstream out* (Idle). The watchdog is not stopped while the handler writes, so
  a client that stalls for two minutes makes it close an upstream that was not silent (`handler.go` 74-93).
- *Shutdown loses queued rows* (`NothingLostAtShutdown` of Outbox). `handler.go` 299-301: "a transient
  database blip cannot lose billing history". `main.go` 388-403 waits for the handlers only; rows in the
  outbox vanish with the process and are not counted.
- *Stored rows counted as lost* (`CountedRowsAreMissing`). A commit whose acknowledgement is lost is
  retried; when the retries fail, `BillingLossCount` counts a row that `request_logs` holds.
- *Late settlement* (`OnlyOverageIsCharged` of Settlement, MaxTime 3, MaxLatency 2). `billing_atomic.go` 219
  sums from the start of the request's own period without an upper bound: a request that settles after one
  of the next period is charged for both periods together although neither is over its budget.
- *Charge without a row* (`ImplementsChargeLedger` with `collected <- TopupsUsed`). `saveAdmissionFailure` inserts
  without the advisory lock (`handler.go` 2778); between the existence check (154) and the final ON CONFLICT DO NOTHING
  this leaves a charge that no row explains. The refinement keeps such charges apart (`stray`).
- *Replay takes the row* (the consequent of `AnswersAreAccounted` with MaxArrivals 2). `handler.go` 192-193
  says replaying an attempt is idempotent. A replay rejected while the first attempt generates writes
  a zero-cost row under its id, and the answered attempt is then never recorded.
- *One balance spent twice* (`OnlyLapsesGoUnpaid` of Gateway without its premises): after a failed settlement
  the guard opens before the outbox has charged (MaxFailures 1; `limiter.go` 219-220); two batch requests are
  quoted against the same balance although `handler.go` 122-126 calls that safe.
- *Charged to yesterday* (`OnlyLapsesGoUnpaid` without `~astride`). `agent.go` 114-117 says that the loop mirrors
  serveOpenAIClient, which dates its row after the quote (`handler.go` 963). The agent loop dates it at 98, waits for
  the guard and is quoted at 131: across a period boundary it is quoted from the new period and charged in the old
  one, top-ups included. A transcription has the same order without the wait (2997, 3007).
- *Lease lost under its holder* (`OneHolder` of GenerationLease, MaxMissed = TTL - 1). A failed renewal is
  only logged (`limiter.go` 320-322); after two minutes without Redis the next request of the user enters.
- *Swept limiter* (`LimitsHold` of RateLimiter, UsesRedis FALSE). `getLimiter` returns before the caller locks
  (348-360, 603); the sweep in between drops the entry, and two limiters count for one key.
- *Equal nanoseconds* (`EachLimiterHolds` with Nano constant). The member of the sorted set is UnixNano alone
  (567): requests that read the same value count once, although 470-476 says the script "closes that window
  entirely".
- *Refilled cache* (`EffectiveOnNextRequest` of LimiterDefs). A request that read before an edit fills the
  cache after the edit cleared it (429); `limiter.go` 328-330 promises effect on the very next request.
- *Whole runs only* (`OnlyWholeRunsAreCharged` of AgentLoop). A turn whose stream breaks before its terminal line
  ends like a whole one (`agent.go` 465-476): the run answers with what it has and is charged, although
  of failed attempts `handler.go` 2255-2256 says that they "never consume customer credits".
- *One source too many* (`SourcesWithinLimit` of AgentLoop). The DuckDuckGo fallback appends its abstract and
  looks at the limit after the first related topic: a limit of one gives two. `tools.go` tells the model that the
  number of sources defaults to 5; `clampSearchResults` makes it 8.
- *Ready in the drain* (Lifecycle). The watchdog goes on after SIGTERM has cleared dbReady, and its next
  answered ping sets it again (`main.go` 397, 485).

The following are read off the code; the properties of Pricing and Catalogue are stated so that they allow them.

- *Unrouted price list.* `handler.go` 521 serves `GET /v1/pricing`, but `registerProxyRoutes` (`main.go` 571-592)
  does not register it: the mux answers 404. Pricing models the handler.
- *Free cache rates.* `ttlrate.go` 16 says that a configured rate of zero "really is zero"; where RateFor
  reads the rate, zero means inherit.
- *Receipts.* A row records one multiplier for the request. Where a window's AppliesTo leaves classes out, its
  lines cannot be derived again from what the row holds. A window saved with no multiplier has numerator 0
  and makes its classes free.
- *Charge above the quote.* The quote prices the whole prompt as fresh input: cache writes that are dearer
  make a charge exceed it, and each further class may add the nano-USD it is rounded up by
  (`ChargedWithinQuote` states both). The agent loop sums the prompts of its turns and chooses the tier by the
  sum. A request whose exact price cannot be computed is charged 0.
- *Late announcement.* NextBoundaryAfter counts whole minutes and looks eight days ahead: a window whose
  EffectiveFrom lies within a minute takes force before the announced change, and one further away is not
  announced. `ChargedAsShown` is stated for windows of whole minutes and within the eight days.
- *Unchanged prices.* A PUT of a model lays the body over the loaded row, whose exact rates then win over the legacy
  rates of the body in `normalizeModelMoney` (`exact_money.go` 43). The console sends legacy rates only
  (`static/app.js` 866): its price edits are answered as saved and change nothing, though `admin/handlers.go` 847 says
  that the fields the body contains are overlaid. The run of pricing has such a body.
- *Stalled clients.* A scope is released by a deferred call (`handler.go` 887) that a handler blocked in a write does
  not come to: a client that stops reading keeps its user's scope taken, and the heartbeat of the lease renews it.
- *Torn reads, lost updates* (Catalogue). A model is read by five queries outside a transaction (`db.go` 1327),
  so a reader may hold parts of two versions; of two PUTs that load the same row the later save undoes the
  earlier. Neither is promised otherwise; `ChargedAsShown` compares rules that were really loaded alike.
- *superviseLoop* (`main.go` 452-455) says only a panic restarts a loop; the code restarts on every return,
  which no caller relies on.

## 6. Not modelled, and why

Static assets and the browser console keep no state the gateway relies on. Payload translation, media and
thinking dialects are rewriting of JSON; of it StreamRelay keeps what ends, counts and reaches the client, and
AgentLoop the fragments of tool calls. CRUD of providers and keys are single statements (the revocation of a
key is in FrontDoor); reports and exports read only. That json.Unmarshal reuses the elements of a loaded slice
when a body brings a list is left out of Catalogue: the models of the run replace lists whole. Token
estimation, tokenizers and the choice of an upstream are inputs. A request starved by others that poll the guard (`limiter.go` 243) is possible by design; no document promises an order. The
body's reading is one step of FrontDoor, bounded by ReadTimeout.

## 7. Plan

1. *Proofs*: Gateway as a refinement of ChargeLedger, with a history of what each top-up paid, on top of
   `ASettlementIsOneStep`; a property for the torn reads of a model, which no document promises to exclude.
2. *RouteAffinity*: the pin of a session and its stale observations.
3. *Migrations* and *console access*: replicas that boot together and crash between files; the login throttle.
4. A relay inside the drain: `main.go` 391-403 cuts streams that outlive it; Gateway's upstream call as a
   StreamRelay, so that what is quoted, relayed and settled is one behaviour.
