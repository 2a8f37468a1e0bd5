------------------------------ MODULE UnitSums ------------------------------
(***************************************************************************)
(* Sums of natural amounts over finite sets: the SUM(...) aggregates that  *)
(* the gateway's SQL takes over request_logs and user_topups.  An amount   *)
(* of n nano-dollars is counted as the n units <<x, 1>>, ..., <<x, n>>, so *)
(* the sum is a cardinality.  Unlike the folds of the community modules    *)
(* this needs no recursion: the laws of SUM that the proofs use follow     *)
(* from facts about finite sets (module BudgetTheorems).                  *)
(***************************************************************************)
EXTENDS Integers, FiniteSets

(* The units that the elements of S hold under the amounts f.              *)
Units(f, S) == UNION {{x} \X (1..f[x]) : x \in S}

(* The sum of f[x] over the elements x of S; 0 for the empty set, which is *)
(* what COALESCE(SUM(...), 0) returns.                                     *)
SumOf(f, S) == Cardinality(Units(f, S))

=============================================================================
