------------------------------ MODULE MCPricing ------------------------------
(* Three models with the rates of a small price list: a token costs a few  *)
(* nano-USD, a million tokens is ten, a day three minutes of two instants. *)
EXTENDS Pricing, TLC

RatesOf(input, output, read, write) ==
  [c \in TokenClasses |-> CASE c = "input_fresh" -> input
                            [] c = "output" -> output
                            [] c = "cache_read" -> read
                            [] c = "cache_write" -> write
                            [] OTHER -> 0]

Peak == [id |-> 1, start |-> 1, end |-> 2, days |-> 0..6, num |-> 2, den |-> 1,
         classes |-> {}, priority |-> 0, from |-> 0, until |-> NoInstant]
(* Wraps midnight, on the first day only, and output alone is cheaper.     *)
Night == [Peak EXCEPT !.id = 2, !.start = 2, !.end = 1, !.days = {0}, !.num = 1,
                      !.den = 2, !.classes = {"output"}, !.priority = 1]
(* As an admin may leave it: no divisor, no days; it starts one minute in. *)
Sale == [Peak EXCEPT !.id = 3, !.start = 0, !.end = 3, !.num = 1, !.den = 0,
                     !.days = {}, !.from = 2, !.until = 4]

Model(family, exact, tiers, ttl, windows, thinks, maxOutput) ==
  [exact |-> exact, legacy |-> exact, accounting |-> DefaultAccounting(family),
   family |-> family, target |-> family,
   speaks |-> IF family = "anthropic" THEN "anthropic" ELSE "openai",
   context |-> 9, maxOutput |-> maxOutput, thinks |-> thinks,
   tiers |-> tiers, ttl |-> ttl, windows |-> windows]

Tier(above, exact) == [above |-> above, rates |-> exact]
TTL(above, class, rate) == [above |-> above, class |-> class, rate |-> rate]

DeepSeek == Model("deepseek", RatesOf(7, 13, 1, 0), {Tier(5, RatesOf(9, 25, 2, 0))}, {},
                  {Peak, Night}, TRUE, 5)
Claude == Model("anthropic", RatesOf(10, 30, 1, 0), {},
                {TTL(Base, "cache_write_5m", 12), TTL(Base, "cache_write_1h", 20)},
                {Peak}, FALSE, 0)
MiniMax == Model("minimax", RatesOf(3, 12, 1, 0),
                 {Tier(2, RatesOf(6, 24, 1, 0)), Tier(6, RatesOf(8, 24, 0, 0))},
                 {TTL(2, "cache_read", 3)}, {Night}, TRUE, 5)

MCFirstModels == {DeepSeek, Claude, MiniMax}

(* The console sends of a price the legacy column only.                    *)
MCPatches == {[windows |-> {Peak, Sale}, legacy |-> RatesOf(5, 11, 2, 5)],
              [exact |-> RatesOf(5, 11, 2, 5), tiers |-> {}]}

Ask(client, told, serialized, requested, budget, thinks, fresh, read, write5m, write1h, output) ==
  [client |-> client, stream |-> told.stream, tells |-> told.tells, split |-> told.split,
   serialized |-> serialized, estimated |-> serialized, requested |-> requested,
   budget |-> budget, thinks |-> thinks, fresh |-> fresh, read |-> read,
   write5m |-> write5m, write1h |-> write1h, output |-> output]

Whole == [stream |-> FALSE, tells |-> {}, split |-> {}]
Streamed(tells, split) == [stream |-> TRUE, tells |-> tells, split |-> split]

MCRequests == {
  Ask("openai", Streamed({"early", "late"}, {"early"}), 5, 4, 40, FALSE, 2, 2, 1, 1, 3),
  Ask("openai", Whole, 5, 0, 18, TRUE, 4, 1, 1, 0, 2),
  Ask("anthropic", Streamed({"late"}, {"late"}), 5, 4, 40, FALSE, 2, 2, 1, 1, 3),
  Ask("anthropic", Streamed({"early"}, {}), 0, 0, 200, FALSE, 2, 6, 1, 0, 6),
  Ask("openai", Whole, 0, 3, 30, FALSE, 1, 1, 0, 0, 1),
  Ask("anthropic", Streamed({"early"}, {"early"}), 0, 3, 30, FALSE, 1, 1, 0, 0, 1) }

MCSymmetry == Permutations(Admins)

Quiet == \A a \in Admins : patch[a] = NoBody

(* A PUT overlaps the request or the list, these two overlap, and with     *)
(* neither of them there two PUTs do.                                      *)
MCScope ==
  /\ Quiet \/ req.phase = "none" \/ list.phase = "none"
  /\ \/ edits < 2 /\ Cardinality({a \in Admins : patch[a] # NoBody}) < 2
     \/ req.phase = "none" /\ list.phase = "none"
=============================================================================
