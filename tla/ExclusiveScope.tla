---------------------------- MODULE ExclusiveScope ----------------------------
(***************************************************************************)
(* What the generation guard promises: a request enters its scope only     *)
(* while nobody is inside, and is inside until it leaves.                  *)
(***************************************************************************)
CONSTANTS Handlers, Scopes, Outside

VARIABLE inside   \* the scope each handler has entered, or Outside

Init == inside = [h \in Handlers |-> Outside]

Enter(h, s) ==
  /\ inside[h] = Outside
  /\ \A k \in Handlers : inside[k] # s
  /\ inside' = [inside EXCEPT ![h] = s]

Leave(h) ==
  /\ inside[h] # Outside
  /\ inside' = [inside EXCEPT ![h] = Outside]

Next == \E h \in Handlers : Leave(h) \/ \E s \in Scopes : Enter(h, s)

Spec == Init /\ [][Next]_inside

=============================================================================
