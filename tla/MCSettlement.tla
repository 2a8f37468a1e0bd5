---------------------------- MODULE MCSettlement ----------------------------
(***************************************************************************)
(* Small instances of Settlement for TLC.  The run of the transactions is  *)
(* the union of three scopes: two settlements at a time while their top-ups*)
(* are bought, deleted and re-dated and plain inserts take their ids; plans*)
(* and limits, usage resets and plain inserts that change under one        *)
(* settlement; and requests that settle late and out of order over three   *)
(* periods, while old rows are pruned.                                     *)
(***************************************************************************)
EXTENDS Settlement, TLC

CONSTANTS p1, p2

MCPlans == {p1, p2}
MCDay == [duration |-> 2, budget |-> 3]
MCHour == [duration |-> 1, budget |-> 1]
MCOff == [duration |-> 1, budget |-> 0]
MCWindowSets == {{MCDay, MCHour}, {MCDay, MCOff}}
MCExpiries == {NoTime, 2}

FirstPlan ==
  /\ account = [plan |-> p1, assigned |-> 0, reset |-> NoTime]
  /\ windows[p1] = {MCDay, MCHour} /\ windows[p2] = {MCDay, MCHour}
Running == {c \in Callers : calls[c] # Idle}
KnownIDs == DOMAIN requestLogs \cup {calls[c].id : c \in Running}

PlainRows == {i \in DOMAIN requestLogs : against[i] = {}}

(* A request that failed settles in the second scope.                      *)
AllSucceed ==
  /\ \A c \in Running : calls[c].ok
  /\ \A i \in DOMAIN requestLogs \ PlainRows : requestLogs[i].ok
AtOnce == \A c \in Running : calls[c].created = calls[c].began

Concurrent ==
  /\ FirstPlan /\ now <= 1
  /\ Cardinality(KnownIDs) <= 2
  /\ PlainRows \subseteq overtook /\ (PlainRows # {} => Cardinality(KnownIDs) = 1)
  /\ AllSucceed /\ AtOnce
Administered ==
  /\ now <= 1 /\ Cardinality(Running) <= 1
  /\ Cardinality(KnownIDs \ PlainRows) <= 1 /\ Cardinality(PlainRows) <= 1
  /\ PlainRows # {} => topups = <<>> /\ \A i \in PlainRows : requestLogs[i].ok
  /\ AtOnce /\ windows[p2] = {MCDay, MCHour}
  /\ DOMAIN topups # TopupIDs
  /\ \A u \in DOMAIN topups : topups[u].expires = NoTime /\ ~topups[u].deleted

(* Requests that settle out of order across periods, one top-up at most.   *)
Overlapping ==
  /\ FirstPlan
  /\ Cardinality(Running) <= 1
  /\ PlainRows = {}
  /\ AllSucceed
  /\ Cardinality(DOMAIN topups) <= 1
  /\ \A u \in DOMAIN topups : topups[u].expires = NoTime /\ topups[u].created = 0

MCScope == Concurrent \/ Administered \/ Overlapping

MCSymmetry == Permutations(Callers) \cup Permutations(SettleIDs) \cup Permutations(TopupIDs)

=============================================================================
