------------------------------ MODULE MCOutbox ------------------------------
(* Small instances of Outbox for TLC.                                      *)
EXTENDS Outbox

MCSymmetry == Permutations(Entries) \cup Permutations(Workers)

=============================================================================
