----------------------------- MODULE PriceRules -----------------------------
(***************************************************************************)
(* The arithmetic of package pricing (and of package money under it): what *)
(* a model's rates, context tiers, cache rates and price windows make of   *)
(* the tokens an upstream reports.  Amounts are in nano-USD and exact;     *)
(* none is large enough to overflow.                                       *)
(***************************************************************************)
EXTENDS Integers, FiniteSetsExt

CONSTANTS
  PerMillion,      \* tokens a rate is quoted for
  PerMinute,       \* instants of the clock in a minute
  MinutesPerDay,
  MiniMaxCaches,   \* minimaxCacheThresholdTokens
  NoWindow, NoInstant

ASSUME PriceAssumption ==
  /\ {PerMillion, PerMinute, MinutesPerDay} \subseteq Nat \ {0}
  /\ MiniMaxCaches \in Nat /\ NoInstant \notin Nat

Writes == {"cache_write", "cache_write_5m", "cache_write_1h"}
Reads == {"cache_read", "cache_read_5m"}
TokenClasses == {"input_fresh", "output"} \cup Reads \cup Writes
Prompt == TokenClasses \ {"output"}

Sum(f, S) ==
  LET Of(c) == IF c \in S THEN f[c] ELSE 0 IN
  Of("input_fresh") + Of("output") + Of("cache_read") + Of("cache_read_5m")
    + Of("cache_write") + Of("cache_write_5m") + Of("cache_write_1h")
FirstNonZero(a, b) == IF a # 0 THEN a ELSE b

-----------------------------------------------------------------------------
(* Rates.  A rate is a function of the token class in which 0 inherits; a  *)
(* tier is [above, rates]; a cache rate [above, class, rate], where above  *)
(* is Base or the threshold of a tier and a rate that is not configured is *)
(* not there.                                                              *)

Base == -1

EffectiveCacheWrite(rates) == FirstNonZero(rates["cache_write"], rates["input_fresh"])

RateFor(rates, class) ==
  CASE class = "cache_read_5m" -> FirstNonZero(rates[class], rates["cache_read"])
    [] class \in Writes -> FirstNonZero(rates[class], EffectiveCacheWrite(rates))
    [] OTHER -> rates[class]

(* OverlayTTLRates.                                                        *)
Overlay(rates, ttl, above) ==
  [c \in TokenClasses |->
     LET own == {t \in ttl : t.above = above /\ t.class = c} IN
     IF own = {} THEN rates[c] ELSE (CHOOSE t \in own : TRUE).rate]

(* pricingRulesForModel, of a model as it was loaded.                      *)
Rules(model) ==
  [base |-> Overlay(model.exact, model.ttl, Base),
   tiers |-> {[t EXCEPT !.rates = Overlay(@, model.ttl, t.above)] : t \in model.tiers},
   windows |-> model.windows]

TierFromThreshold(rules, prompt) == {t \in rules.tiers : prompt >= t.above} \* variant
TiersPassed(rules, prompt) == {t \in rules.tiers : prompt > t.above}

RatesForPromptTotal(rules, prompt) ==
  LET passed == TiersPassed(rules, prompt) IN
  IF passed = {} THEN rules.base
  ELSE (CHOOSE t \in passed : \A u \in passed : u.above <= t.above).rates

-----------------------------------------------------------------------------
(* Windows.  No class stands for all of them; until may be open.           *)

Window ==
  [id : Nat, start : Nat, end : Nat, days : SUBSET (0..6), num : Nat, den : Nat,
   classes : SUBSET TokenClasses, priority : Int, from : Nat, until : Nat \cup {NoInstant}]

MinuteOf(t) == (t \div PerMinute) % MinutesPerDay
WeekdayOf(t) == ((t \div PerMinute) \div MinutesPerDay) % 7

CoversMinute(w, minute) ==
  IF w.start < w.end THEN minute >= w.start /\ minute < w.end
  ELSE minute >= w.start \/ minute < w.end

Matches(w, t) ==
  /\ t >= w.from
  /\ (w.until # NoInstant => t < w.until)
  /\ WeekdayOf(t) \in w.days
  /\ CoversMinute(w, MinuteOf(t))

WindowFor(rules, t) ==
  LET matching == {w \in rules.windows : Matches(w, t)} IN
  IF matching = {} THEN NoWindow
  ELSE CHOOSE w \in matching : \A v \in matching :
         \/ w.priority > v.priority
         \/ w.priority = v.priority /\ w.id <= v.id

FirstChange(rules, t, minutes) ==
  LET start == (t \div PerMinute) * PerMinute
      changes == {u \in {start + m * PerMinute : m \in 1..minutes} :
                    WindowFor(rules, u) # WindowFor(rules, t)} IN
  IF changes = {} THEN NoInstant ELSE Min(changes)

(* Variant: the scan ends with the day.                                    *)
NextBoundaryToday(rules, t) == FirstChange(rules, t, MinutesPerDay - 1 - MinuteOf(t))

NextBoundaryAfter(rules, t) == FirstChange(rules, t, 8 * MinutesPerDay)

Scale(w, class) ==
  IF w # NoWindow /\ (w.classes = {} \/ class \in w.classes)
  THEN [num |-> w.num, den |-> w.den] ELSE [num |-> 1, den |-> 1]

Apart(tiers) == \A t, u \in tiers : t.above = u.above => t = u

(* RuleSet.Validate and Window.Validate.                                   *)
Valid(rules) ==
  /\ Apart(rules.tiers)
  /\ \A w, v \in rules.windows : w.id = v.id => w = v
  /\ \A w \in rules.windows :
       /\ w.start \in 0..(MinutesPerDay - 1) /\ w.end \in 0..MinutesPerDay
       /\ w.start # w.end /\ w.days # {} /\ w.den > 0
       /\ (w.until # NoInstant => w.until > w.from)

-----------------------------------------------------------------------------
(* Charges *)

CeilQuotient(a, b) == (a + b - 1) \div b

(* CostForTokensScaled: one rounding for the tokens and the window.        *)
CostForTokens(tokens, rate, scale) ==
  CeilQuotient(tokens * rate * scale.num, PerMillion * scale.den)

(* Usage is [total, tokens], tokens a function of the token class.         *)
Lines(rules, usage, t) ==
  LET rates == RatesForPromptTotal(rules, usage.total)
      window == WindowFor(rules, t) IN
  [c \in TokenClasses |-> CostForTokens(usage.tokens[c], RateFor(rates, c), Scale(window, c))]

QuoteAt(rules, usage, t) == Sum(Lines(rules, usage, t), TokenClasses)

Only(class, n) == [c \in TokenClasses |-> IF c = class THEN n ELSE 0]

InputUsage(prompt) == [total |-> prompt, tokens |-> Only("input_fresh", prompt)]
WithOutput(usage, n) == [usage EXCEPT !.tokens["output"] = n]

-----------------------------------------------------------------------------
(* Usage.  What an upstream reports is [prompt, tokens], where tokens says *)
(* nothing of fresh input.                                                 *)

AtLeastZero(n) == IF n < 0 THEN 0 ELSE n

Negative(reported) ==
  reported.prompt < 0 \/ \E c \in TokenClasses : reported.tokens[c] < 0

Clamped(reported) ==
  [prompt |-> AtLeastZero(reported.prompt),
   tokens |-> [c \in TokenClasses |-> AtLeastZero(reported.tokens[c])]]

(* Variant: one convention for every upstream.                             *)
NormalizeAsInclusive(raw, accounting) ==
  LET reported == Clamped(raw)
      cached == Sum(reported.tokens, Reads \cup Writes)
      fresh == AtLeastZero(reported.prompt - cached) IN
  [total |-> fresh + cached,
   tokens |-> [reported.tokens EXCEPT !["input_fresh"] = fresh],
   anomaly |-> Negative(raw) \/ cached > reported.prompt]

NormalizeUsage(raw, accounting) ==
  LET reported == Clamped(raw)
      cached == Sum(reported.tokens, Reads \cup Writes)
      fresh == IF accounting = "exclusive" THEN reported.prompt
               ELSE AtLeastZero(reported.prompt - cached) IN
  [total |-> fresh + cached,
   tokens |-> [reported.tokens EXCEPT !["input_fresh"] = fresh],
   anomaly |-> Negative(raw) \/ (accounting # "exclusive" /\ cached > reported.prompt)]

(* A reply says of a generation's fresh, read, write5m, write1h and output *)
(* tokens what its upstream's dialect has words for.  If it streams, tells *)
(* are the events that do and split those of them that break cache writes  *)
(* down by lifetime: an Anthropic stream tells of writes when it starts    *)
(* ("early"), in its last delta ("late") or both, an OpenAI one of all its *)
(* usage by the chunk that finishes it ("early") or in one of its own      *)
(* after that ("late").                                                    *)
Dialects == {"openai", "anthropic"}
Written(u) == u.write5m + u.write1h
PromptOf(u) == u.fresh + u.read + Written(u)

Told(prompt, reads, write, write5m, write1h, output) ==
  [prompt |-> prompt,
   tokens |-> [c \in TokenClasses |->
     CASE c = "output" -> output
       [] c = "cache_read" -> reads
       [] c = "cache_write" -> write
       [] c = "cache_write_5m" -> write5m
       [] c = "cache_write_1h" -> write1h
       [] OTHER -> 0]]

(* CacheReadTokensFor: a sub-threshold count of MiniMax is ignored.        *)
CacheReadTokensFor(u, target) ==
  IF target = "minimax" /\ PromptOf(u) < MiniMaxCaches THEN 0 ELSE u.read

(* What the breakdown did not account for.                                 *)
Remainder(created, by5m, by1h) == AtLeastZero(created - by5m - by1h)

(* proxyOpenAIToOpenAI, and proxyAnthropicToOpenAI of a whole reply.       *)
OpenAIReported(u, target) ==
  Told(PromptOf(u), CacheReadTokensFor(u, target), Written(u), 0, 0, u.output)

(* TranslateOpenAIChunkToAnthropic: no thresholds and no writes, and what  *)
(* comes after the chunk that finishes is not read.                        *)
TranslatedReported(u) ==
  IF "early" \in u.tells THEN Told(PromptOf(u), u.read, 0, 0, 0, u.output)
  ELSE Told(0, 0, 0, 0, 0, 0)

(* anthropicReportedUsage, CacheWriteTokensByTTL: the breakdown is taken   *)
(* from streams alone, from message_start where the stream is translated   *)
(* (TranslateAnthropicChunkToOpenAI) and from message_delta, the one event *)
(* it hears of writes in, where it is forwarded (proxyAnthropicToAnthropic).*)
AnthropicReported(u) ==
  LET lifetimes == u.stream /\ (IF u.client = "openai" THEN "early" ELSE "late") \in u.split
      created == IF u.stream /\ u.client = "anthropic" /\ "late" \notin u.tells
                 THEN 0 ELSE Written(u)
      by5m == IF lifetimes THEN u.write5m ELSE 0
      by1h == IF lifetimes THEN u.write1h ELSE 0 IN
  Told(u.fresh, u.read, Remainder(created, by5m, by1h), by5m, by1h, u.output)

(* The stream of an OpenAI upstream, to a client that speaks Anthropic.    *)
Translated(u, speaks) == u.client = "anthropic" /\ speaks = "openai" /\ u.stream

Reported(u, speaks, target) ==
  IF speaks = "anthropic" THEN AnthropicReported(u)
  ELSE IF Translated(u, speaks) THEN TranslatedReported(u)
  ELSE OpenAIReported(u, target)

=============================================================================
