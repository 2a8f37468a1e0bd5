---------------------------- MODULE MCRateLimiter ----------------------------
(***************************************************************************)
(* A small instance of RateLimiter for TLC.  Its scope is the union of     *)
(* two: requests of two gateways whose clocks differ, counted by Redis;    *)
(* and requests of one gateway while Redis fails, recovers and is stood in *)
(* for by the memory, which the sweep clears; two in flight at a time.     *)
(***************************************************************************)
EXTENDS RateLimiter, TLC

MCTokens == [r \in Requests |-> CASE r = "d" -> 2 [] r = "c" -> 0 [] OTHER -> 1]
MCNano == [r \in Requests |-> CASE r = "a" -> 1 [] r = "b" -> 2 [] r = "c" -> 3 [] OTHER -> 4]
MCSkew == [g \in Gateways |-> IF g = "g1" THEN 1 ELSE 0]

Called == {r \in Requests : call[r].phase # "new"}

Shared ==
  /\ Called \subseteq {"a", "c", "d"}
  /\ \A r \in Called : call[r].phase \notin {"fallback", "holding"}
  /\ \A g \in Gateways : limiters[g] = NoLimiter /\ sweptAt[g] = 0

InFlight == {r \in Requests : call[r].phase \in {"asking", "fallback", "holding"}}

(* Only the number of requests stops the first three; two of the others    *)
(* are too many tokens together.                                           *)
Fallback ==
  /\ Called \subseteq {"a", "b", "c"} \/ Called \subseteq {"a", "d"}
  /\ \A r \in Called : call[r].gateway = "g2"
  /\ sweptAt["g1"] = 0
  /\ Cardinality(InFlight) <= 2

MCScope == Shared \/ Fallback

=============================================================================
