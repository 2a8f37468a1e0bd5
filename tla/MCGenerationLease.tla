-------------------------- MODULE MCGenerationLease --------------------------
(* A small instance of GenerationLease for TLC.                            *)
EXTENDS GenerationLease, TLC

CONSTANTS h1, h2, h3, alice, q1, q2, q3

MCHandlers == {h1, h2, h3}

(* Two requests of one scope, and a batch request of the same user; each   *)
(* may be replayed by another handler.                                     *)
MCRequests ==
  {[user |-> alice, id |-> q1, batch |-> FALSE], [user |-> alice, id |-> q2, batch |-> FALSE],
   [user |-> alice, id |-> q3, batch |-> TRUE]}

MCSymmetry == Permutations(MCHandlers)

=============================================================================
