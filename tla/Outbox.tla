------------------------------- MODULE Outbox -------------------------------
(***************************************************************************)
(* The retry buffer of billing rows (proxy/outbox.go): saveRequestLog of a *)
(* finished request, the bounded queue it falls back on, the workers that  *)
(* retry, the loss counter on /health, and the shutdown of main.go, which  *)
(* drains the HTTP handlers and nothing else.                              *)
(*                                                                         *)
(* One call of the database has three outcomes: the row is stored and the  *)
(* caller knows; it is stored but the caller sees an error (the commit's   *)
(* acknowledgement is lost or late); it is not stored.  A second write of  *)
(* a stored row changes nothing (module Settlement).                       *)
(***************************************************************************)
EXTENDS Integers, Sequences, FiniteSets, SequencesExt

CONSTANTS
  Entries,       \* billing rows, one for each request
  Workers,       \* outboxWorkers
  Capacity,      \* logOutboxCapacity
  Attempts,      \* the immediate attempt and those after each backoff
  NoEntry

ASSUME OutboxAssumption ==
  /\ IsFiniteSet(Entries)
  /\ Capacity \in Nat /\ Attempts \in Nat \ {0}
  /\ NoEntry \notin Entries

VARIABLES
  phase,    \* of each request: "open", "saving", "failed" or "done"
  queue,    \* the channel
  job,      \* the entry of each worker, or NoEntry
  failures, \* failed attempts of each worker at its entry
  stored,   \* the rows in request_logs
  losses,   \* BillingLossCount
  running   \* the process lives

vars == <<phase, queue, job, failures, stored, losses, running>>

Init ==
  /\ phase = [e \in Entries |-> "open"]
  /\ queue = <<>>
  /\ job = [w \in Workers |-> NoEntry]
  /\ failures = [w \in Workers |-> 0]
  /\ stored = {}
  /\ losses = 0
  /\ running = TRUE

(* A handler finishes its request and calls saveRequestLog.                *)
FinishRequest(e) ==
  /\ running /\ phase[e] = "open"
  /\ phase' = [phase EXCEPT ![e] = "saving"]
  /\ UNCHANGED <<queue, job, failures, stored, losses, running>>

(* The call of the database, seen by the caller as success or as an error. *)
Persist(e, acknowledged) ==
  IF acknowledged THEN stored' = stored \cup {e}
  ELSE stored' = stored \/ stored' = stored \cup {e}

SaveSucceeds(e) ==
  /\ running /\ phase[e] = "saving"
  /\ Persist(e, TRUE)
  /\ phase' = [phase EXCEPT ![e] = "done"]
  /\ UNCHANGED <<queue, job, failures, losses, running>>

SaveFails(e) ==
  /\ running /\ phase[e] = "saving"
  /\ Persist(e, FALSE)
  /\ phase' = [phase EXCEPT ![e] = "failed"]
  /\ UNCHANGED <<queue, job, failures, losses, running>>

(* Variant: a full buffer drops the row and says nothing.                  *)
EnqueueSilently(e) ==
  /\ running /\ phase[e] = "failed"
  /\ phase' = [phase EXCEPT ![e] = "done"]
  /\ queue' = IF Len(queue) < Capacity THEN Append(queue, e) ELSE queue
  /\ UNCHANGED <<job, failures, stored, losses, running>>

(* enqueue never blocks: a full buffer counts the row as lost.             *)
Enqueue(e) ==
  /\ running /\ phase[e] = "failed"
  /\ phase' = [phase EXCEPT ![e] = "done"]
  /\ IF Len(queue) < Capacity
       THEN queue' = Append(queue, e) /\ losses' = losses
       ELSE queue' = queue /\ losses' = losses + 1
  /\ UNCHANGED <<job, failures, stored, running>>

(* A worker receives from the channel.                                     *)
TakeEntry(w) ==
  /\ running /\ job[w] = NoEntry /\ queue # <<>>
  /\ job' = [job EXCEPT ![w] = Head(queue)]
  /\ queue' = Tail(queue)
  /\ failures' = [failures EXCEPT ![w] = 0]
  /\ UNCHANGED <<phase, stored, losses, running>>

RetrySucceeds(w) ==
  /\ running /\ job[w] # NoEntry
  /\ Persist(job[w], TRUE)
  /\ job' = [job EXCEPT ![w] = NoEntry]
  /\ UNCHANGED <<phase, queue, failures, losses, running>>

(* Variant: the ladder of backoffs starts over after its last attempt.     *)
RetryForEver(w) ==
  /\ running /\ job[w] # NoEntry
  /\ Persist(job[w], FALSE)
  /\ failures' = [failures EXCEPT ![w] = (@ + 1) % Attempts]
  /\ UNCHANGED <<phase, queue, job, losses, running>>

(* A failed attempt; after the last one the row is counted as lost.        *)
RetryFails(w) ==
  /\ running /\ job[w] # NoEntry
  /\ Persist(job[w], FALSE)
  /\ IF failures[w] + 1 < Attempts
       THEN failures' = [failures EXCEPT ![w] = @ + 1] /\ UNCHANGED <<job, losses>>
       ELSE /\ losses' = losses + 1
            /\ job' = [job EXCEPT ![w] = NoEntry]
            /\ UNCHANGED failures
  /\ UNCHANGED <<phase, queue, running>>

(* srv.Shutdown has drained the handlers and main returns.                 *)
ShutDown ==
  /\ running
  /\ \A e \in Entries : phase[e] \in {"open", "done"}
  /\ running' = FALSE
  /\ queue' = <<>>
  /\ job' = [w \in Workers |-> NoEntry]
  /\ UNCHANGED <<phase, failures, stored, losses>>

Save(e) == SaveSucceeds(e) \/ SaveFails(e) \/ Enqueue(e)
Work(w) == TakeEntry(w) \/ RetrySucceeds(w) \/ RetryFails(w)

Next ==
  \/ \E e \in Entries : FinishRequest(e) \/ Save(e)
  \/ \E w \in Workers : Work(w)
  \/ ShutDown

Spec == Init /\ [][Next]_vars

(* Handlers and workers go on; backoffs end.                               *)
FairSpec ==
  /\ Spec
  /\ \A e \in Entries : WF_vars(Save(e))
  /\ \A w \in Workers : WF_vars(Work(w))

-----------------------------------------------------------------------------
(* Properties *)

(* The type invariant.                                                     *)
TypeOK ==
  /\ phase \in [Entries -> {"open", "saving", "failed", "done"}]
  /\ queue \in Seq(Entries) /\ Len(queue) <= Capacity
  /\ job \in [Workers -> Entries \cup {NoEntry}]
  /\ failures \in [Workers -> 0..(Attempts - 1)]
  /\ stored \subseteq Entries
  /\ losses \in Nat
  /\ running \in BOOLEAN

AtWork == {job[w] : w \in Workers} \ {NoEntry}
Pending == ToSet(queue) \cup AtWork
Missing == {e \in Entries : phase[e] = "done"} \ (stored \cup Pending)

(* Billing loss is observable: while the gateway runs, every row that is   *)
(* not in the database and that nobody will try again is counted.          *)
LossesAreCounted == running => Cardinality(Missing) <= losses

(* "so a transient database blip cannot lose billing history": the rows    *)
(* missing when the gateway has shut down were counted as lost.  (Not      *)
(* kept: README.md.)                                                       *)
NothingLostAtShutdown == ~running => Cardinality(Missing) <= losses

(* "counts request-log rows that could not be persisted": no row is both   *)
(* in the database and counted as lost.  (Not kept: README.md.)            *)
CountedRowsAreMissing == losses <= Cardinality({e \in Entries : phase[e] = "done"} \ stored)

(* A row waits in one place: no two workers settle the same request at the *)
(* same time and no slot of the buffer is wasted on a duplicate.           *)
NeverQueuedTwice ==
  /\ \A i, j \in 1..Len(queue) : queue[i] = queue[j] => i = j
  /\ \A e \in AtWork : e \notin ToSet(queue)
  /\ \A v, w \in Workers : job[v] = job[w] /\ job[v] # NoEntry => v = w

(* Every finished request is stored or given up on in the end.             *)
EveryRowIsResolved ==
  \A e \in Entries : phase[e] = "saving" ~> phase[e] = "done" /\ e \notin Pending

=============================================================================
