----------------------------- MODULE MCFrontDoor ----------------------------
(***************************************************************************)
(* A small instance of FrontDoor for TLC: the union of two scopes, bodies  *)
(* of both limits before a reachable database was missed or the watchdog   *)
(* panicked, and bodies of the limit that leaves a remainder whatever      *)
(* happens around them.                                                    *)
(***************************************************************************)
EXTENDS FrontDoor

MCScope == flakes + panics = 0 \/ met \subseteq {3}

=============================================================================
