---------------------------- MODULE MCLimiterDefs ----------------------------
(* Small instances of LimiterDefs for TLC.                                 *)
EXTENDS LimiterDefs, TLC

MCSymmetry == Permutations(Calls)

=============================================================================
