------------------------------- MODULE Pricing -------------------------------
(***************************************************************************)
(* The price of a request: the instant it is priced at is pinned when it   *)
(* arrives, the model is loaded after that, the quote bounds its output by *)
(* the customer's budget, and what the upstream reports is charged for at  *)
(* the pinned instant.  Beside it the price list any customer may ask for, *)
(* and the console that edits the model.                                   *)
(***************************************************************************)
EXTENDS Catalogue, FiniteSets

CONSTANTS
  Requests,        \* what is asked for, and what will be generated for it
  Slack,           \* conservativeInputTokenBound's margin, 512
  DefaultOutput,   \* boundedOutputLimit's, 8192
  VisibleFloor,    \* reasoningVisibleFloor, 8192
  MaxTime          \* bound on the clock

VARIABLES now, req, list

pricingVars == <<catalogueVars, now, req, list>>
Customer == "customer"      \* reads the model for its request
Shopper == "shopper"        \* reads it for the price list

ASSUME PricingAssumption ==
  /\ {Slack, VisibleFloor} \subseteq Nat /\ DefaultOutput \in Nat \ {0}
  /\ {Customer, Shopper} \subseteq Others /\ Admins \cap Others = {}
  /\ \A asked \in Requests :
       {asked.serialized, asked.estimated, asked.requested, asked.fresh, asked.read,
        asked.write5m, asked.write1h, asked.output} \subseteq Nat
       /\ asked.budget \in Int /\ asked.client \in Dialects /\ asked.stream \in BOOLEAN
       /\ asked.tells \subseteq {"early", "late"} /\ asked.split \subseteq asked.tells

NoList == [phase |-> "none"]
NoReceipt == <<>>

-----------------------------------------------------------------------------
(* Admission *)

(* requestedOpenAIOutput, boundedOutputLimit: 0 is not named, not limited. *)
OutputLimit(asked, model) ==
  LET wanted == IF asked.requested > 0 THEN asked.requested
                ELSE FirstNonZero(model.maxOutput, DefaultOutput) IN
  IF model.maxOutput > 0 /\ wanted > model.maxOutput THEN model.maxOutput ELSE wanted

(* conservativeInputTokenBound.                                            *)
InputBound(asked, model) ==
  LET bound == Max({asked.serialized + Slack, asked.estimated})
      window == IF model.context > 0 /\ bound > model.context THEN model.context ELSE bound IN
  Max({window, 1})

QuoteFor(rules, bound, output, t) == QuoteAt(rules, WithOutput(InputUsage(bound), output), t)

StrictlyBelow(cost, budget) == cost < budget   \* variant
Affords(cost, budget) == cost <= budget

(* MaxOutputTokensAt: the binary search, as a function of its two ends.    *)
MaxOutput(rules, bound, requested, budget, t) ==
  LET search[ends \in (0..requested) \X (0..requested)] ==
        LET low == ends[1]  high == ends[2] IN
        IF low >= high THEN low
        ELSE LET mid == low + ((high - low + 1) \div 2) IN
             IF Affords(QuoteFor(rules, bound, mid, t), budget)
             THEN search[<<mid, high>>] ELSE search[<<low, mid - 1>>]
  IN IF Affords(QuoteFor(rules, bound, 0, t), budget) THEN search[<<0, requested>>] ELSE 0

Allowed(rules, bound, requested, budget, t) ==
  IF QuoteFor(rules, bound, requested, t) <= budget THEN requested
  ELSE MaxOutput(rules, bound, requested, budget, t)

ThinkingWillBeEnabled(asked, model) == model.thinks /\ asked.thinks
FloorApplies(asked, model) == asked.client = "openai" /\ ThinkingWillBeEnabled(asked, model)

-----------------------------------------------------------------------------
(* A request *)

Arrive(asked) ==
  /\ req.phase = "none"
  /\ req' = [phase |-> "loading", asked |-> asked, pin |-> now]
  /\ UNCHANGED <<catalogueVars, now, list>>

(* affordableGeneration and what is made of it: serveOpenAIClient alone    *)
(* knows the visible floor and lets an OpenAI upstream choose its limit.   *)
Admit ==
  /\ req.phase = "loading" /\ Loaded(Customer)
  /\ LET asked == req.asked
         model == loading[Customer].model
         rules == Rules(model)
         requested == OutputLimit(asked, model)
         bound == InputBound(asked, model)
         allowed == Allowed(rules, bound, requested, asked.budget, req.pin)
         reduced == allowed < requested
         refused == \/ reduced /\ allowed < 1
                    \/ reduced /\ allowed < VisibleFloor /\ FloorApplies(asked, model)
         named == asked.client = "anthropic" \/ model.speaks = "anthropic" IN
     req' = [phase |-> IF refused THEN "refused" ELSE "admitted",
             asked |-> asked, pin |-> req.pin, model |-> model, rules |-> rules,
             bound |-> bound, requested |-> requested, allowed |-> allowed,
             capped |-> asked.requested > 0 \/ reduced \/ named,
             ceiling |-> QuoteFor(rules, bound, allowed, req.pin), receipt |-> NoReceipt]
  /\ loading' = [loading EXCEPT ![Customer] = Nothing]
  /\ UNCHANGED <<saved, edits, patch, begun, now, list>>

PricedNow(r) == now          \* variant: settlement reads the clock
PricedAt(r) == r.pin         \* pricedAtFrom

(* setCalculatedCost and applyQuoteToLog.                                  *)
Receipt(r) ==
  LET usage == NormalizeUsage(Reported(r.asked, r.model.speaks, r.model.target),
                              r.model.accounting)
      window == WindowFor(r.rules, PricedAt(r)) IN
  [usage |-> usage, rules |-> r.rules, window |-> window,
   lines |-> Lines(r.rules, usage, PricedAt(r)),
   cost |-> QuoteAt(r.rules, usage, PricedAt(r))]

(* An upstream that was told a limit keeps to it.                          *)
Settle ==
  /\ req.phase = "admitted"
  /\ req.capped => req.asked.output <= req.allowed
  /\ req' = [req EXCEPT !.phase = "charged", !.receipt = Receipt(req)]
  /\ UNCHANGED <<catalogueVars, now, list>>

(* The next request.                                                       *)
Leave ==
  /\ req.phase \in {"refused", "charged"}
  /\ req' = [phase |-> "none"]
  /\ UNCHANGED <<catalogueVars, now, list>>

-----------------------------------------------------------------------------
(* The price list *)

AskPrices ==
  /\ list.phase = "none"
  /\ list' = [phase |-> "loading"]
  /\ UNCHANGED <<catalogueVars, now, req>>

(* ratesView: what a million tokens of each class cost.                    *)
RatesView(rates, window) ==
  [c \in TokenClasses |-> CostForTokens(PerMillion, RateFor(rates, c), Scale(window, c))]

(* modelPricingSnapshot, of the clock after the models were loaded.        *)
ShowPrices ==
  /\ list.phase = "loading" /\ Loaded(Shopper)
  /\ LET rules == Rules(loading[Shopper].model)
         window == WindowFor(rules, now) IN
     list' = [phase |-> "shown", at |-> now, rules |-> rules,
              next |-> NextBoundaryAfter(rules, now),
              base |-> RatesView(RatesForPromptTotal(rules, 0), window),
              tiers |-> {[above |-> t.above, rates |-> RatesView(t.rates, window)] :
                           t \in rules.tiers}]
  /\ loading' = [loading EXCEPT ![Shopper] = Nothing]
  /\ UNCHANGED <<saved, edits, patch, begun, now, req>>

-----------------------------------------------------------------------------
PricingInit ==
  /\ CatalogueInit
  /\ now = 0
  /\ req = [phase |-> "none"]
  /\ list = NoList

Tick ==
  /\ now < MaxTime
  /\ now' = now + 1
  /\ UNCHANGED <<catalogueVars, req, list>>

PricingNext ==
  \/ \E asked \in Requests : Arrive(asked)
  \/ req.phase = "loading" /\ Query(Customer) /\ UNCHANGED <<now, req, list>>
  \/ Admit
  \/ Settle
  \/ Leave
  \/ AskPrices
  \/ list.phase = "loading" /\ Query(Shopper) /\ UNCHANGED <<now, req, list>>
  \/ ShowPrices
  \/ CatalogueNext /\ UNCHANGED <<now, req, list>>
  \/ Tick

PricingSpec == PricingInit /\ [][PricingNext]_pricingVars

-----------------------------------------------------------------------------
(* Properties *)

Charged == req.phase = "charged"
UpstreamsAccounting(speaks) == IF speaks = "anthropic" THEN "exclusive" ELSE "inclusive"

(* Where the model's accounting is its upstream's, a relayed request is    *)
(* never billed for more than was generated: no prompt token twice, and no *)
(* cache write in two classes.  It is billed for all of it, every token at *)
(* the rate of what was done with it, but in an Anthropic client's stream: *)
(* of one translated from OpenAI's dialect the cache writes are fresh, and *)
(* usage told after its end is lost; of one forwarded, the cache writes    *)
(* its last delta does not repeat are.  What MiniMax caches of a small     *)
(* prompt is fresh on the routes that know its threshold (NormalizeUsage,  *)
(* anthropicReportedUsage, TranslateOpenAIChunkToAnthropic).               *)
BilledAsServed ==
  Charged /\ req.model.accounting = UpstreamsAccounting(req.model.speaks) =>
    LET used == req.asked
        usage == req.receipt.usage
        translated == Translated(used, req.model.speaks)
        unheard == /\ used.client = "anthropic" /\ req.model.speaks = "anthropic"
                   /\ used.stream /\ "late" \notin used.tells IN
    /\ usage.total = Sum(usage.tokens, Prompt) /\ ~usage.anomaly
    /\ usage.total <= PromptOf(used) /\ usage.tokens["output"] <= used.output
    /\ Sum(usage.tokens, Reads) <= used.read /\ Sum(usage.tokens, Writes) <= Written(used)
    /\ ~translated \/ "early" \in used.tells =>
         /\ usage.total = IF unheard THEN used.fresh + used.read ELSE PromptOf(used)
         /\ usage.tokens["output"] = used.output
         /\ Sum(usage.tokens, Reads) = IF translated \/ req.model.speaks = "anthropic" THEN used.read
                                       ELSE CacheReadTokensFor(used, req.model.target)
         /\ ~translated /\ ~unheard => Sum(usage.tokens, Writes) = Written(used)

(* The output a request is granted is the most its budget pays for, and    *)
(* one is refused for its price only when the budget does not pay for a    *)
(* single token of output or, of a thinking model asked in OpenAI's        *)
(* dialect, for the visible floor (affordableGeneration, MaxOutputTokensAt).*)
AllowanceIsLargest ==
  LET Cost(output) == QuoteFor(req.rules, req.bound, output, req.pin) IN
  /\ req.phase \in {"admitted", "charged"} =>
       /\ req.ceiling <= req.asked.budget
       /\ req.allowed < req.requested => Cost(req.allowed + 1) > req.asked.budget
  /\ req.phase = "refused" =>
       \/ Cost(1) > req.asked.budget
       \/ FloorApplies(req.asked, req.model) /\ Cost(VisibleFloor) > req.asked.budget

(* No rate of a prompt class is above that of fresh input, and no tier is  *)
(* cheaper than a lower one, once the window at the pinned instant scales. *)
Above(s, t) == s.num * t.den   \* s over t, times both denominators

PricesAscend(rules, t) ==
  LET window == WindowFor(rules, t)
      all == {[above |-> Base, rates |-> rules.base]} \cup rules.tiers IN
  /\ \A tier \in all : \A c \in Prompt :
       RateFor(tier.rates, c) * Above(Scale(window, c), Scale(window, "input_fresh"))
         <= tier.rates["input_fresh"] * Above(Scale(window, "input_fresh"), Scale(window, c))
  /\ \A low, high \in all : \A c \in {"input_fresh", "output"} :
       low.above < high.above => low.rates[c] <= high.rates[c]

(* With such prices a request that stays within the prompt it was quoted   *)
(* and the output it was allowed is charged no more than its ceiling, but  *)
(* for the nano-USD by which each further prompt line is rounded up: the   *)
(* quote is the charge (priceclock.go).                                    *)
ChargedWithinQuote ==
  /\ Charged /\ PricesAscend(req.rules, req.pin)
  /\ req.receipt.usage.total <= req.bound
  /\ req.receipt.usage.tokens["output"] <= req.allowed
  => LET billed == {c \in Prompt : req.receipt.usage.tokens[c] > 0} IN
     req.receipt.cost <= req.ceiling + (IF billed = {} THEN 0 ELSE Cardinality(billed) - 1)

(* No window begins or ends within a minute.                               *)
WholeMinutes(rules) ==
  \A w \in rules.windows :
    w.from % PerMinute = 0 /\ (w.until # NoInstant => w.until % PerMinute = 0)

(* While a price list stands, a request that is priced by the rules it     *)
(* showed and pinned before the next change it announced, or within the    *)
(* eight days it looked ahead if it announced none, pays on every line     *)
(* what the list says of the context tier the prompt falls in, to within   *)
(* the rounding of the rates it shows (modelPricingSnapshot,               *)
(* NextBoundaryAfter).                                                     *)
ChargedAsShown ==
  /\ Charged /\ list.phase = "shown"
  /\ req.receipt.rules = list.rules /\ WholeMinutes(list.rules)
  /\ req.pin >= list.at
  /\ req.pin < IF list.next # NoInstant THEN list.next
               ELSE list.at + 8 * MinutesPerDay * PerMinute
  => LET usage == req.receipt.usage
         reached == {t \in list.tiers : usage.total > t.above}
         rates == IF reached = {} THEN list.base
                  ELSE (CHOOSE t \in reached : \A u \in reached : u.above <= t.above).rates IN
     \A c \in TokenClasses :
       /\ req.receipt.lines[c] <= CeilQuotient(usage.tokens[c] * rates[c], PerMillion)
       /\ req.receipt.lines[c] * PerMillion >= usage.tokens[c] * (rates[c] - 1)

=============================================================================
