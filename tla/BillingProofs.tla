---------------------------- MODULE BillingProofs ----------------------------
(***************************************************************************)
(* What a request is charged and what becomes of its row.  The two         *)
(* components share no state.                                              *)
(*                                                                         *)
(* Outbox, for every number of rows and workers and every capacity of the  *)
(* buffer: no row waits in two places, and while the gateway runs every    *)
(* row that nobody will store is counted as lost, and moves towards its    *)
(* end.                                                                    *)
(*                                                                         *)
(* Pricing, for every catalogue, every sequence of edits and every         *)
(* request: tokens are billed once, the allowance is the largest the       *)
(* budget pays for, and a charge stays within its quote.                   *)
(***************************************************************************)
EXTENDS Outbox, Pricing, FiniteSetTheorems, WellFoundedInduction, TLAPS

-----------------------------------------------------------------------------
(* Outbox *)

(* Only rows whose handler is through with them are pending.               *)
PendingIsDone == \A e \in Pending : phase[e] = "done"

(* The inductive invariant of the uniqueness of pending rows.              *)
IInv == TypeOK /\ PendingIsDone /\ NeverQueuedTwice

LEMMA QueueSet == ASSUME NEW s \in Seq(Entries)
                  PROVE  ToSet(s) = {s[i] : i \in 1..Len(s)}
BY DEF ToSet

LEMMA AppendSet ==
  ASSUME NEW s \in Seq(Entries), NEW e \in Entries
  PROVE  /\ Append(s, e) \in Seq(Entries) /\ Len(Append(s, e)) = Len(s) + 1
         /\ \A i \in 1..Len(s) : Append(s, e)[i] = s[i]
         /\ Append(s, e)[Len(s) + 1] = e
         /\ ToSet(Append(s, e)) = ToSet(s) \cup {e}
<1>1. /\ Append(s, e) \in Seq(Entries) /\ Len(Append(s, e)) = Len(s) + 1
      /\ \A i \in 1..Len(s) : Append(s, e)[i] = s[i]
      /\ Append(s, e)[Len(s) + 1] = e
  OBVIOUS
<1>2. Len(s) \in Nat
  OBVIOUS
<1>3. 1..(Len(s) + 1) = 1..Len(s) \cup {Len(s) + 1}
  BY <1>2
<1>4. ToSet(Append(s, e)) = {Append(s, e)[i] : i \in 1..(Len(s) + 1)}
  BY <1>1, QueueSet
<1>5. ToSet(s) = {s[i] : i \in 1..Len(s)}
  BY QueueSet
<1> QED
  BY <1>1, <1>2, <1>3, <1>4, <1>5

LEMMA TailSet ==
  ASSUME NEW s \in Seq(Entries), s # <<>>
  PROVE  /\ Head(s) \in Entries /\ Tail(s) \in Seq(Entries) /\ Len(Tail(s)) = Len(s) - 1
         /\ Len(s) \in Nat \ {0} /\ Head(s) = s[1]
         /\ \A i \in 1..Len(Tail(s)) : Tail(s)[i] = s[i + 1]
         /\ ToSet(s) = ToSet(Tail(s)) \cup {Head(s)}
<1>1. /\ Head(s) \in Entries /\ Tail(s) \in Seq(Entries) /\ Len(Tail(s)) = Len(s) - 1
      /\ Len(s) \in Nat \ {0} /\ Head(s) = s[1]
      /\ \A i \in 1..Len(Tail(s)) : Tail(s)[i] = s[i + 1]
  OBVIOUS
<1>2. ToSet(s) = {s[i] : i \in 1..Len(s)}
  BY QueueSet
<1>3. ToSet(Tail(s)) = {Tail(s)[i] : i \in 1..Len(Tail(s))}
  BY <1>1, QueueSet
<1>4. ASSUME NEW i \in 1..Len(s), i # 1 PROVE i - 1 \in 1..Len(Tail(s)) /\ Tail(s)[i - 1] = s[i]
  BY <1>1, <1>4
<1>5. ASSUME NEW i \in 1..Len(Tail(s)) PROVE i + 1 \in 1..Len(s)
  BY <1>1
<1>6. ToSet(s) \subseteq ToSet(Tail(s)) \cup {Head(s)}
  BY <1>1, <1>2, <1>3, <1>4
<1>7. ToSet(Tail(s)) \cup {Head(s)} \subseteq ToSet(s)
  BY <1>1, <1>2, <1>3, <1>5
<1> QED
  BY <1>1, <1>6, <1>7

LEMMA TypeInvariant == Spec => []TypeOK
<1>1. Init => TypeOK
  BY OutboxAssumption DEF Init, TypeOK
<1>2. ASSUME TypeOK, Next PROVE TypeOK'
  <2>1. ASSUME NEW e \in Entries, FinishRequest(e) PROVE TypeOK'
    BY <1>2, <2>1 DEF TypeOK, FinishRequest
  <2>2. ASSUME NEW e \in Entries, SaveSucceeds(e) \/ SaveFails(e) PROVE TypeOK'
    BY <1>2, <2>2 DEF TypeOK, SaveSucceeds, SaveFails, Persist
  <2>3. ASSUME NEW e \in Entries, Enqueue(e) PROVE TypeOK'
    <3>1. phase' \in [Entries -> {"open", "saving", "failed", "done"}]
      BY <1>2, <2>3 DEF TypeOK, Enqueue
    <3>2. queue' \in Seq(Entries) /\ Len(queue') <= Capacity /\ losses' \in Nat
      <4>1. queue \in Seq(Entries) /\ Len(queue) \in Nat /\ Len(queue) <= Capacity /\ losses \in Nat
        BY <1>2 DEF TypeOK
      <4>2. CASE Len(queue) < Capacity
        <5>1. queue' = Append(queue, e) /\ losses' = losses
          BY <2>3, <4>2 DEF Enqueue
        <5> QED
          BY <4>1, <4>2, <5>1, AppendSet, OutboxAssumption
      <4>3. CASE ~(Len(queue) < Capacity)
        BY <2>3, <4>1, <4>3 DEF Enqueue
      <4> QED
        BY <4>2, <4>3
    <3> QED
      BY <1>2, <2>3, <3>1, <3>2 DEF TypeOK, Enqueue
  <2>4. ASSUME NEW w \in Workers, TakeEntry(w) PROVE TypeOK'
    <3>1. queue' \in Seq(Entries) /\ Len(queue') <= Capacity /\ Head(queue) \in Entries
      BY <1>2, <2>4, TailSet, OutboxAssumption DEF TypeOK, TakeEntry
    <3> QED
      BY <1>2, <2>4, <3>1, OutboxAssumption DEF TypeOK, TakeEntry
  <2>5. ASSUME NEW w \in Workers, RetrySucceeds(w) \/ RetryFails(w) PROVE TypeOK'
    <3>1. stored' \subseteq Entries
      BY <1>2, <2>5 DEF TypeOK, RetrySucceeds, RetryFails, Persist
    <3>2. CASE RetrySucceeds(w)
      BY <1>2, <3>1, <3>2 DEF TypeOK, RetrySucceeds
    <3>3. CASE RetryFails(w)
      <4>1. CASE failures[w] + 1 < Attempts
        <5>1. failures' = [failures EXCEPT ![w] = failures[w] + 1] /\ UNCHANGED <<job, losses, phase, queue, running>>
          BY <3>3, <4>1 DEF RetryFails
        <5>2. failures[w] + 1 \in 0..(Attempts - 1)
          BY <1>2, <4>1, OutboxAssumption DEF TypeOK
        <5> QED
          BY <1>2, <3>1, <5>1, <5>2 DEF TypeOK
      <4>2. CASE ~(failures[w] + 1 < Attempts)
        <5>1. /\ losses' = losses + 1 /\ job' = [job EXCEPT ![w] = NoEntry]
              /\ UNCHANGED <<failures, phase, queue, running>>
          BY <3>3, <4>2 DEF RetryFails
        <5> QED
          BY <1>2, <3>1, <5>1 DEF TypeOK
      <4> QED
        BY <4>1, <4>2
    <3> QED
      BY <1>2, <2>5, <3>1, <3>2, <3>3 DEF TypeOK, RetrySucceeds, RetryFails
  <2>6. ASSUME ShutDown PROVE TypeOK'
    <3>1. queue' \in Seq(Entries) /\ Len(queue') <= Capacity
      BY <2>6, OutboxAssumption DEF ShutDown
    <3> QED
      BY <1>2, <2>6, <3>1 DEF TypeOK, ShutDown
  <2> QED
    BY <1>2, <2>1, <2>2, <2>3, <2>4, <2>5, <2>6 DEF Next, Save, Work
<1>3. TypeOK /\ [Next]_vars => TypeOK'
  BY <1>2 DEF TypeOK, vars
<1> QED
  BY <1>1, <1>3, PTL DEF Spec

(* Types of the rows, the buffer and the workers.                          *)
THEOREM OutboxTypes == Spec => []TypeOK
BY TypeInvariant

(* A row that leaves the buffer and the workers is stored or counted.      *)
LEMMA OneLossAtATime ==
  ASSUME TypeOK, NEW e \in Entries, Missing' \subseteq Missing \cup {e}
  PROVE  Cardinality(Missing') \in Nat /\ Cardinality(Missing') <= Cardinality(Missing) + 1
<1>1. IsFiniteSet(Missing)
  BY OutboxAssumption, FS_Subset DEF Missing
<1> DEFINE M == Missing
           N == Missing'
<1>2. IsFiniteSet(M) /\ N \subseteq M \cup {e}
  BY <1>1
<1> HIDE DEF M, N
<1>3. IsFiniteSet(M \cup {e}) /\ Cardinality(M \cup {e}) <= Cardinality(M) + 1
  BY <1>2, FS_AddElement, FS_CardinalityType
<1>4. IsFiniteSet(N) /\ Cardinality(N) <= Cardinality(M \cup {e})
  BY <1>2, <1>3, FS_Subset
<1>5. Cardinality(N) \in Nat /\ Cardinality(M) \in Nat /\ Cardinality(M \cup {e}) \in Nat
  BY <1>2, <1>3, <1>4, FS_CardinalityType
<1>6. Cardinality(N) <= Cardinality(M) + 1
  BY <1>3, <1>4, <1>5
<1> QED
  BY <1>5, <1>6 DEF M, N

LEMMA NoNewLoss ==
  ASSUME TypeOK, Missing' \subseteq Missing
  PROVE  Cardinality(Missing') \in Nat /\ Cardinality(Missing') <= Cardinality(Missing)
<1>1. IsFiniteSet(Missing)
  BY OutboxAssumption, FS_Subset DEF Missing
<1> DEFINE M == Missing
           N == Missing'
<1>2. IsFiniteSet(M) /\ N \subseteq M
  BY <1>1
<1> HIDE DEF M, N
<1>3. Cardinality(N) <= Cardinality(M) /\ Cardinality(N) \in Nat
  BY <1>2, FS_Subset, FS_CardinalityType
<1> QED
  BY <1>3 DEF M, N

LEMMA MissingSize == ASSUME TypeOK PROVE Cardinality(Missing) \in Nat
<1>1. IsFiniteSet(Missing)
  BY OutboxAssumption, FS_Subset DEF Missing
<1> QED
  BY <1>1, FS_CardinalityType

(* While the gateway runs, no row is lost that is not counted.             *)
THEOREM NoSilentLoss == Spec => []LossesAreCounted
<1> DEFINE Counted == Cardinality(Missing) <= losses
           Kept == Missing' \subseteq Missing /\ losses' = losses
           Lost == \E e \in Entries : Missing' \subseteq Missing \cup {e} /\ losses' = losses + 1
<1>1. Init => LossesAreCounted
  <2> SUFFICES ASSUME Init PROVE Counted
    BY DEF LossesAreCounted
  <2>1. Missing = {}
    BY DEF Init, Missing
  <2> QED
    BY <2>1, FS_EmptySet DEF Init
<1>2. ASSUME TypeOK, Counted, Kept \/ Lost PROVE Counted'
  <2> DEFINE before == Cardinality(Missing)
             after == Cardinality(Missing')
             l == losses'
  <2>1. before \in Nat /\ losses \in Nat /\ before <= losses
    BY <1>2, MissingSize DEF TypeOK
  <2>2. CASE Kept
    <3>1. after <= before /\ l = losses /\ after \in Nat
      BY <1>2, <2>2, NoNewLoss
    <3> HIDE DEF before, after, l
    <3>2. after <= l
      BY <2>1, <3>1
    <3> QED
      BY <3>2 DEF after, l
  <2>3. CASE Lost
    <3>1. after <= before + 1 /\ l = losses + 1 /\ after \in Nat
      BY <1>2, <2>3, OneLossAtATime
    <3> HIDE DEF before, after, l
    <3>2. after <= l
      BY <2>1, <3>1
    <3> QED
      BY <3>2 DEF after, l
  <2> QED
    BY <1>2, <2>2, <2>3
<1>3. ASSUME TypeOK, Next PROVE Kept \/ Lost \/ ~running'
  <2>1. ASSUME NEW e \in Entries, FinishRequest(e) PROVE Kept
    BY <1>3, <2>1 DEF FinishRequest, TypeOK, Missing, Pending, AtWork
  <2>2. ASSUME NEW e \in Entries, SaveSucceeds(e) \/ SaveFails(e) PROVE Kept
    BY <1>3, <2>2 DEF SaveSucceeds, SaveFails, Persist, TypeOK, Missing, Pending, AtWork
  <2>3. ASSUME NEW e \in Entries, Enqueue(e) PROVE Kept \/ Lost
    <3>1. /\ phase' = [phase EXCEPT ![e] = "done"] /\ job' = job /\ stored' = stored
          /\ AtWork' = AtWork
      BY <2>3 DEF Enqueue, AtWork
    <3>2. \A x \in Entries : phase'[x] = "done" => x = e \/ phase[x] = "done"
      BY <1>3, <3>1 DEF TypeOK
    <3>3. CASE Len(queue) < Capacity
      <4>1. ToSet(queue') = ToSet(queue) \cup {e} /\ losses' = losses
        BY <1>3, <2>3, <3>3, AppendSet DEF Enqueue, TypeOK
      <4> QED
        BY <3>1, <3>2, <4>1 DEF Missing, Pending
    <3>4. CASE ~(Len(queue) < Capacity)
      <4>1. queue' = queue /\ losses' = losses + 1
        BY <2>3, <3>4 DEF Enqueue
      <4> QED
        BY <3>1, <3>2, <4>1 DEF Missing, Pending
    <3> QED
      BY <3>3, <3>4
  <2>4. ASSUME NEW w \in Workers, TakeEntry(w) PROVE Kept
    <3>1. /\ job[w] = NoEntry /\ job' = [job EXCEPT ![w] = Head(queue)]
          /\ UNCHANGED <<phase, stored, losses>>
      BY <2>4 DEF TakeEntry
    <3>2. ToSet(queue) = ToSet(queue') \cup {Head(queue)} /\ Head(queue) \in Entries
      BY <1>3, <2>4, TailSet DEF TakeEntry, TypeOK
    <3>3. AtWork' = AtWork \cup {Head(queue)}
      BY <1>3, <3>1, <3>2, OutboxAssumption DEF AtWork, TypeOK
    <3>4. Pending' = Pending
      BY <3>2, <3>3 DEF Pending
    <3> QED
      BY <3>1, <3>4 DEF Missing
  <2>5. ASSUME NEW w \in Workers, RetrySucceeds(w) \/ RetryFails(w) PROVE Kept \/ Lost
    <3>1. /\ UNCHANGED <<phase, queue>> /\ stored \subseteq stored' /\ job[w] \in Entries
          /\ job' = job \/ job' = [job EXCEPT ![w] = NoEntry]
      BY <1>3, <2>5 DEF RetrySucceeds, RetryFails, Persist, TypeOK
    <3>2. AtWork \subseteq AtWork' \cup {job[w]}
      BY <1>3, <3>1 DEF AtWork, TypeOK
    <3>3. Missing' \subseteq Missing \cup {job[w]}
      BY <3>1, <3>2 DEF Missing, Pending
    <3>4. CASE losses' = losses + 1
      BY <3>1, <3>3, <3>4
    <3>5. CASE RetrySucceeds(w)
      <4>1. job[w] \in stored' /\ losses' = losses
        BY <3>5 DEF RetrySucceeds, Persist
      <4> QED
        BY <3>3, <4>1 DEF Missing
    <3>6. CASE RetryFails(w) /\ losses' # losses + 1
      <4>1. job' = job /\ losses' = losses
        BY <3>6 DEF RetryFails
      <4> QED
        BY <3>1, <4>1 DEF Missing, Pending, AtWork
    <3> QED
      BY <2>5, <3>4, <3>5, <3>6
  <2>6. ASSUME ShutDown PROVE ~running'
    BY <2>6 DEF ShutDown
  <2> QED
    BY <1>3, <2>1, <2>2, <2>3, <2>4, <2>5, <2>6 DEF Next, Save, Work
<1>4. ASSUME Next PROVE running
  BY <1>4 DEF Next, FinishRequest, Save, SaveSucceeds, SaveFails, Enqueue, Work, TakeEntry,
              RetrySucceeds, RetryFails, ShutDown
<1>5. UNCHANGED vars => (LossesAreCounted => LossesAreCounted')
  BY DEF vars, LossesAreCounted, Missing, Pending, AtWork
<1>6. TypeOK /\ LossesAreCounted /\ [Next]_vars => LossesAreCounted'
  BY <1>2, <1>3, <1>4, <1>5 DEF LossesAreCounted
<1> QED
  BY <1>1, <1>6, TypeInvariant, PTL DEF Spec

LEMMA PendingRows == ASSUME TypeOK PROVE Pending \subseteq Entries
<1>1. queue \in Seq(Entries) /\ job \in [Workers -> Entries \cup {NoEntry}]
  BY DEF TypeOK
<1>2. ToSet(queue) \subseteq Entries
  BY <1>1, QueueSet
<1>3. AtWork \subseteq Entries
  BY <1>1 DEF AtWork
<1> QED
  BY <1>2, <1>3 DEF Pending

(* The handler's part of a step keeps the buffer and the workers.          *)
LEMMA HandlerKeepsPending ==
  ASSUME IInv, NEW e \in Entries, phase[e] # "done", TypeOK',
         \A x \in Entries \ {e} : phase'[x] = phase[x], UNCHANGED <<queue, job>>
  PROVE  PendingIsDone' /\ NeverQueuedTwice'
<1>1. Pending' = Pending /\ AtWork' = AtWork /\ e \notin Pending
  BY DEF Pending, AtWork, IInv, PendingIsDone
<1>2. Pending \subseteq Entries
  BY PendingRows DEF IInv
<1>3. PendingIsDone'
  BY <1>1, <1>2 DEF IInv, PendingIsDone
<1>4. NeverQueuedTwice'
  BY <1>1 DEF IInv, NeverQueuedTwice
<1> QED
  BY <1>3, <1>4

(* A failed row is in neither place when it enters the buffer.             *)
LEMMA EnqueueKeeps ==
  ASSUME IInv, NEW e \in Entries, Enqueue(e), TypeOK', Len(queue) < Capacity
  PROVE  PendingIsDone' /\ NeverQueuedTwice'
<1>1. /\ queue \in Seq(Entries) /\ queue' = Append(queue, e) /\ phase[e] = "failed"
      /\ phase' = [phase EXCEPT ![e] = "done"] /\ job' = job /\ AtWork' = AtWork
  BY DEF IInv, TypeOK, Enqueue, AtWork
<1>2. ToSet(queue') = ToSet(queue) \cup {e}
  BY <1>1, AppendSet
<1>3. e \notin Pending
  BY <1>1 DEF IInv, PendingIsDone
<1>4. Pending \subseteq Entries
  BY PendingRows DEF IInv
<1>5. PendingIsDone'
  BY <1>1, <1>2, <1>4 DEF IInv, PendingIsDone, Pending, TypeOK
<1>6. \A i, j \in 1..Len(queue') : queue'[i] = queue'[j] => i = j
  <2>1. \A i \in 1..Len(queue) : queue[i] # e
    BY <1>1, <1>3, QueueSet DEF Pending
  <2>2. /\ Len(queue') = Len(queue) + 1 /\ Len(queue) \in Nat
        /\ \A i \in 1..Len(queue) : queue'[i] = queue[i]
        /\ queue'[Len(queue) + 1] = e
    BY <1>1, AppendSet
  <2>3. \A i, j \in 1..Len(queue) : queue[i] = queue[j] => i = j
    BY DEF IInv, NeverQueuedTwice
  <2> QED
    BY <2>1, <2>2, <2>3
<1>7. \A x \in AtWork' : x \notin ToSet(queue')
  BY <1>1, <1>2, <1>3 DEF IInv, NeverQueuedTwice, Pending
<1>8. \A v, w \in Workers : job'[v] = job'[w] /\ job'[v] # NoEntry => v = w
  BY <1>1 DEF IInv, NeverQueuedTwice
<1> QED
  BY <1>5, <1>6, <1>7, <1>8 DEF NeverQueuedTwice

(* The worker that takes the head of the buffer is the only one to have it. *)
LEMMA TakeKeeps ==
  ASSUME IInv, NEW w \in Workers, TakeEntry(w), TypeOK'
  PROVE  PendingIsDone' /\ NeverQueuedTwice'
<1>1. /\ queue \in Seq(Entries) /\ queue # <<>> /\ queue' = Tail(queue) /\ phase' = phase
      /\ job \in [Workers -> Entries \cup {NoEntry}] /\ job[w] = NoEntry
      /\ job' = [job EXCEPT ![w] = Head(queue)]
  BY DEF IInv, TypeOK, TakeEntry
<1>2. /\ Head(queue) \in Entries /\ Head(queue) = queue[1] /\ Len(queue) \in Nat \ {0}
      /\ queue' \in Seq(Entries) /\ Len(queue') = Len(queue) - 1
      /\ \A i \in 1..Len(queue') : queue'[i] = queue[i + 1]
      /\ ToSet(queue) = ToSet(queue') \cup {Head(queue)}
  BY <1>1, TailSet
<1>3. AtWork' = AtWork \cup {Head(queue)}
  BY <1>1, <1>2, OutboxAssumption DEF AtWork
<1>4. Pending' = Pending
  BY <1>2, <1>3 DEF Pending
<1>5. PendingIsDone'
  BY <1>1, <1>4 DEF IInv, PendingIsDone
<1>6. \A i, j \in 1..Len(queue) : queue[i] = queue[j] => i = j
  BY DEF IInv, NeverQueuedTwice
<1>7. \A i, j \in 1..Len(queue') : queue'[i] = queue'[j] => i = j
  <2> SUFFICES ASSUME NEW i \in 1..Len(queue'), NEW j \in 1..Len(queue'),
                      queue'[i] = queue'[j]
               PROVE  i = j
    OBVIOUS
  <2>1. i + 1 \in 1..Len(queue) /\ j + 1 \in 1..Len(queue)
    BY <1>2
  <2>2. queue[i + 1] = queue[j + 1]
    BY <1>2
  <2>3. i + 1 = j + 1
    BY <1>6, <2>1, <2>2
  <2> QED
    BY <2>3
<1>8. Head(queue) \notin ToSet(queue')
  <2> SUFFICES ASSUME Head(queue) \in ToSet(queue') PROVE FALSE
    OBVIOUS
  <2>1. PICK i \in 1..Len(queue') : queue'[i] = Head(queue)
    BY <1>2, QueueSet
  <2>2. i + 1 \in 1..Len(queue) /\ 1 \in 1..Len(queue) /\ queue[i + 1] = queue[1]
    BY <1>2, <2>1
  <2>3. i + 1 = 1
    BY <1>6, <2>2
  <2> QED
    BY <2>1, <2>3
<1>9. \A x \in AtWork' : x \notin ToSet(queue')
  BY <1>2, <1>3, <1>8 DEF IInv, NeverQueuedTwice
<1>10. Head(queue) \notin AtWork
  BY <1>2 DEF IInv, NeverQueuedTwice
<1>11. \A v \in Workers : job[v] # Head(queue)
  BY <1>2, <1>10, OutboxAssumption DEF AtWork
<1>12. \A v, u \in Workers : job'[v] = job'[u] /\ job'[v] # NoEntry => v = u
  BY <1>1, <1>11 DEF IInv, NeverQueuedTwice
<1> QED
  BY <1>5, <1>7, <1>9, <1>12 DEF NeverQueuedTwice

(* Giving an entry up frees one worker and puts nothing back.              *)
LEMMA RetryKeeps ==
  ASSUME IInv, NEW w \in Workers, RetrySucceeds(w) \/ RetryFails(w)
  PROVE  PendingIsDone' /\ NeverQueuedTwice'
<1>1. /\ UNCHANGED <<phase, queue>> /\ job \in [Workers -> Entries \cup {NoEntry}]
      /\ job' = job \/ job' = [job EXCEPT ![w] = NoEntry]
  BY DEF IInv, TypeOK, RetrySucceeds, RetryFails
<1>2. AtWork' \subseteq AtWork
  BY <1>1 DEF AtWork
<1>3. PendingIsDone'
  BY <1>1, <1>2 DEF IInv, PendingIsDone, Pending
<1>4. NeverQueuedTwice'
  BY <1>1, <1>2 DEF IInv, NeverQueuedTwice
<1> QED
  BY <1>3, <1>4

LEMMA InvariantStep == ASSUME IInv, TypeOK', Next PROVE IInv'
<1>1. ASSUME NEW e \in Entries, FinishRequest(e) \/ SaveSucceeds(e) \/ SaveFails(e)
      PROVE  PendingIsDone' /\ NeverQueuedTwice'
  <2>1. phase[e] # "done" /\ UNCHANGED <<queue, job>> /\ \A x \in Entries \ {e} : phase'[x] = phase[x]
    BY <1>1 DEF IInv, TypeOK, FinishRequest, SaveSucceeds, SaveFails
  <2> QED
    BY <2>1, HandlerKeepsPending
<1>2. ASSUME NEW e \in Entries, Enqueue(e) PROVE PendingIsDone' /\ NeverQueuedTwice'
  <2>1. CASE Len(queue) < Capacity
    BY <1>2, <2>1, EnqueueKeeps
  <2>2. CASE ~(Len(queue) < Capacity)
    <3>1. phase[e] # "done" /\ UNCHANGED <<queue, job>> /\ \A x \in Entries \ {e} : phase'[x] = phase[x]
      BY <1>2, <2>2 DEF IInv, TypeOK, Enqueue
    <3> QED
      BY <3>1, HandlerKeepsPending
  <2> QED
    BY <2>1, <2>2
<1>3. ASSUME NEW w \in Workers, Work(w) PROVE PendingIsDone' /\ NeverQueuedTwice'
  BY <1>3, TakeKeeps, RetryKeeps DEF Work
<1>4. ASSUME ShutDown PROVE PendingIsDone' /\ NeverQueuedTwice'
  <2>1. queue' = <<>> /\ AtWork' = {} /\ \A v \in Workers : job'[v] = NoEntry
    BY <1>4 DEF ShutDown, AtWork
  <2>2. ToSet(queue') = {} /\ Len(queue') = 0
    BY <2>1 DEF ToSet
  <2> QED
    BY <2>1, <2>2 DEF PendingIsDone, Pending, NeverQueuedTwice
<1> QED
  BY <1>1, <1>2, <1>3, <1>4 DEF Next, Save, IInv

LEMMA OutboxInvariance == Spec => []IInv
<1>1. Init => IInv
  <2> SUFFICES ASSUME Init PROVE IInv
    OBVIOUS
  <2>1. queue = <<>> /\ AtWork = {} /\ \A v \in Workers : job[v] = NoEntry
    BY DEF Init, AtWork
  <2>2. ToSet(queue) = {} /\ Len(queue) = 0
    BY <2>1 DEF ToSet
  <2>3. TypeOK
    BY OutboxAssumption DEF Init, TypeOK
  <2> QED
    BY <2>1, <2>2, <2>3 DEF IInv, PendingIsDone, Pending, NeverQueuedTwice
<1>2. UNCHANGED vars => (IInv => IInv')
  BY DEF vars, IInv, TypeOK, PendingIsDone, Pending, AtWork, NeverQueuedTwice
<1>3. IInv /\ TypeOK' /\ [Next]_vars => IInv'
  BY <1>2, InvariantStep
<1> QED
  BY <1>1, <1>3, TypeInvariant, PTL DEF Spec

(* No row waits in two places, whatever fails and however full it gets.    *)
THEOREM PendingOnce == Spec => []NeverQueuedTwice
<1>1. IInv => NeverQueuedTwice
  BY DEF IInv
<1> QED
  BY <1>1, OutboxInvariance, PTL

(* A process that has ended has nothing in memory.                         *)
Drained ==
  running \/ /\ \A e \in Entries : phase[e] \in {"open", "done"}
             /\ queue = <<>> /\ \A w \in Workers : job[w] = NoEntry

LEMMA DrainStep == Drained /\ [Next]_vars => Drained'
<1>1. Next /\ ~ShutDown => running /\ running' = running
  BY DEF Next, Save, Work, FinishRequest, SaveSucceeds, SaveFails, Enqueue, TakeEntry,
         RetrySucceeds, RetryFails
<1>2. ShutDown => Drained'
  BY DEF ShutDown, Drained
<1> QED
  BY <1>1, <1>2 DEF Drained, vars

(* Where a row is in the buffer, and the attempts a worker has left.       *)
QueuedAt(e, i) == i \in 1..Len(queue) /\ queue[i] = e
Left(w) == IF job[w] = NoEntry THEN 0 ELSE Attempts - failures[w]
Resolved(e) == phase[e] = "done" /\ e \notin Pending

LEMMA LeftIsNatural == ASSUME TypeOK, NEW w \in Workers PROVE Left(w) \in 0..Attempts
BY OutboxAssumption DEF TypeOK, Left

LEMMA RetryLowers ==
  ASSUME TypeOK, NEW w \in Workers, RetrySucceeds(w) \/ RetryFails(w)
  PROVE  /\ Left(w)' \in Nat /\ Left(w)' < Left(w) /\ queue' = queue /\ phase' = phase
         /\ \A v \in Workers \ {w} : job'[v] = job[v] /\ failures'[v] = failures[v]
         /\ job'[w] \in {job[w], NoEntry}
<1>1. /\ job \in [Workers -> Entries \cup {NoEntry}] /\ failures \in [Workers -> 0..(Attempts - 1)]
      /\ job[w] # NoEntry /\ Attempts \in Nat /\ queue' = queue /\ phase' = phase
  BY OutboxAssumption DEF TypeOK, RetrySucceeds, RetryFails
<1>2. CASE job' = [job EXCEPT ![w] = NoEntry] /\ failures' = failures
  BY <1>1, <1>2 DEF Left
<1>3. CASE /\ failures[w] + 1 < Attempts
           /\ failures' = [failures EXCEPT ![w] = failures[w] + 1] /\ job' = job
  BY <1>1, <1>3 DEF Left
<1> QED
  BY <1>1, <1>2, <1>3 DEF RetrySucceeds, RetryFails

(* What a step may do to a row in the buffer: with each entry taken it     *)
(* moves up, and w takes one whenever it has none.                         *)
Sooner(e, w, i, m) ==
  \E j, k \in Nat : QueuedAt(e, j) /\ Left(w) = k /\ (j < i \/ (j = i /\ k < m))

LEMMA TakeMovesUp ==
  ASSUME IInv, IInv', NEW e \in Entries, NEW w \in Workers, NEW i \in Nat, NEW m \in Nat,
         QueuedAt(e, i), NEW v \in Workers, TakeEntry(v)
  PROVE  e \notin ToSet(queue') \/ Sooner(e, w, i, m)'
<1>1. /\ queue \in Seq(Entries) /\ Len(queue) \in Nat /\ i \in 1..Len(queue) /\ queue[i] = e
      /\ queue # <<>>
  BY DEF IInv, TypeOK, QueuedAt
<1>2. Left(w)' \in Nat
  <2>1. TypeOK' => (Left(w) \in 0..Attempts)'
    BY LeftIsNatural, PTL
  <2> QED
    BY <2>1, OutboxAssumption DEF IInv
<1>3. /\ queue' \in Seq(Entries) /\ Len(queue') = Len(queue) - 1
      /\ \A j \in 1..Len(queue') : queue'[j] = queue[j + 1]
  BY <1>1, TailSet DEF TakeEntry
<1>4. CASE i = 1
  <2> SUFFICES ASSUME e \in ToSet(queue') PROVE FALSE
    OBVIOUS
  <2>1. PICK j \in 1..Len(queue') : queue'[j] = e
    BY <1>3, QueueSet
  <2>2. j + 1 \in 1..Len(queue) /\ queue[j + 1] = queue[1] /\ 1 \in 1..Len(queue)
    BY <1>1, <1>3, <1>4, <2>1
  <2>3. j + 1 = 1
    BY <2>2 DEF IInv, NeverQueuedTwice
  <2> QED
    BY <2>1, <2>3
<1>5. CASE i # 1
  <2>1. i - 1 \in 1..Len(queue') /\ queue'[i - 1] = queue[i] /\ i - 1 \in Nat /\ i - 1 < i
    BY <1>1, <1>3, <1>5
  <2>2. QueuedAt(e, i - 1)'
    BY <1>1, <2>1 DEF QueuedAt
  <2> QED
    BY <1>2, <2>1, <2>2 DEF Sooner
<1> QED
  BY <1>4, <1>5

LEMMA QueueMoves ==
  ASSUME IInv, IInv', NEW e \in Entries, NEW w \in Workers, NEW i \in Nat, NEW m \in Nat,
         QueuedAt(e, i), Left(w) = m
  PROVE  /\ Next => \/ e \notin ToSet(queue') \/ Sooner(e, w, i, m)'
                     \/ (QueuedAt(e, i)' /\ Left(w)' = m)
         /\ Work(w) => e \notin ToSet(queue') \/ Sooner(e, w, i, m)'
<1>1. queue \in Seq(Entries) /\ i \in 1..Len(queue) /\ queue[i] = e /\ TypeOK
  BY DEF IInv, TypeOK, QueuedAt
<1>2. ASSUME NEW x \in Entries, FinishRequest(x) \/ Save(x)
      PROVE  QueuedAt(e, i)' /\ Left(w)' = m
  <2>1. UNCHANGED <<job, failures>> /\ (queue' = queue \/ queue' = Append(queue, x))
    BY <1>2 DEF FinishRequest, Save, SaveSucceeds, SaveFails, Enqueue
  <2>2. Left(w)' = Left(w)
    BY <2>1 DEF Left
  <2>3. QueuedAt(e, i)'
    BY <1>1, <2>1, AppendSet DEF QueuedAt
  <2> QED
    BY <2>2, <2>3
<1>3. ASSUME RetrySucceeds(w) \/ RetryFails(w) PROVE Sooner(e, w, i, m)'
  <2>1. Left(w)' \in Nat /\ Left(w)' < m /\ QueuedAt(e, i)'
    BY <1>1, <1>3, RetryLowers DEF QueuedAt
  <2> QED
    BY <2>1 DEF Sooner
<1>4. ASSUME NEW v \in Workers \ {w}, RetrySucceeds(v) \/ RetryFails(v)
      PROVE  QueuedAt(e, i)' /\ Left(w)' = m
  <2>1. queue' = queue /\ job'[w] = job[w] /\ failures'[w] = failures[w]
    BY <1>1, <1>4, RetryLowers
  <2> QED
    BY <2>1 DEF QueuedAt, Left
<1>5. ShutDown => e \notin ToSet(queue')
  BY DEF ShutDown, ToSet
<1> QED
  BY <1>2, <1>3, <1>4, <1>5, TakeMovesUp DEF Next, Work

LEMMA RetryMoves ==
  ASSUME IInv, NEW e \in Entries, NEW w \in Workers, NEW m \in Nat, job[w] = e, Left(w) = m
  PROVE  /\ Next => \/ e \notin Pending' \/ (job'[w] = e /\ Left(w)' < m)
                     \/ (job'[w] = e /\ Left(w)' = m)
         /\ Work(w) => e \notin Pending' \/ (job'[w] = e /\ Left(w)' < m)
<1>1. /\ TypeOK /\ e # NoEntry /\ queue \in Seq(Entries) /\ e \notin ToSet(queue)
      /\ phase[e] = "done"
      /\ \A v \in Workers : job[v] = e => v = w
  BY OutboxAssumption DEF IInv, TypeOK, NeverQueuedTwice, AtWork, PendingIsDone, Pending
<1>2. ASSUME RetrySucceeds(w) \/ RetryFails(w)
      PROVE  e \notin Pending' \/ (job'[w] = e /\ Left(w)' < m)
  BY <1>1, <1>2, RetryLowers DEF Pending, AtWork
<1>3. ASSUME NEW v \in Workers \ {w}, Work(v) PROVE job'[w] = e /\ Left(w)' = m
  <2>1. job'[w] = job[w] /\ failures'[w] = failures[w]
    BY <1>1, <1>3, RetryLowers DEF Work, TakeEntry, TypeOK
  <2> QED
    BY <2>1 DEF Left
<1>4. ASSUME NEW x \in Entries, FinishRequest(x) \/ Save(x) PROVE job'[w] = e /\ Left(w)' = m
  BY <1>4 DEF FinishRequest, Save, SaveSucceeds, SaveFails, Enqueue, Left
<1>5. ShutDown => e \notin Pending'
  BY <1>1 DEF ShutDown, Pending, AtWork, ToSet
<1>6. ~TakeEntry(w)
  BY <1>1 DEF TakeEntry
<1> QED
  BY <1>2, <1>3, <1>4, <1>5, <1>6 DEF Next, Work

(* What is resolved is never taken up again.                               *)
LEMMA ResolvedStays ==
  ASSUME IInv, NEW e \in Entries, Resolved(e), Next PROVE Resolved(e)'
<1>1. TypeOK /\ phase[e] = "done" /\ queue \in Seq(Entries) /\ e \notin ToSet(queue)
      /\ e # NoEntry /\ \A v \in Workers : job[v] # e
  BY OutboxAssumption DEF IInv, TypeOK, Resolved, Pending, AtWork
<1>2. ASSUME phase'[e] = "done", e \notin ToSet(queue'), \A v \in Workers : job'[v] # e
      PROVE  Resolved(e)'
  BY <1>2 DEF Resolved, Pending, AtWork
<1>3. ASSUME NEW x \in Entries, FinishRequest(x) \/ Save(x) PROVE Resolved(e)'
  <2>1. x # e /\ job' = job /\ phase'[e] = "done"
    BY <1>1, <1>3 DEF FinishRequest, Save, SaveSucceeds, SaveFails, Enqueue, TypeOK
  <2>2. queue' = queue \/ queue' = Append(queue, x)
    BY <1>3 DEF FinishRequest, Save, SaveSucceeds, SaveFails, Enqueue
  <2>3. ToSet(Append(queue, x)) = ToSet(queue) \cup {x}
    BY <1>1, AppendSet
  <2>4. e \notin ToSet(queue')
    BY <1>1, <2>1, <2>2, <2>3
  <2> QED
    BY <1>1, <1>2, <2>1, <2>4
<1>4. ASSUME NEW v \in Workers, TakeEntry(v) PROVE Resolved(e)'
  <2>1. Head(queue) # e /\ e \notin ToSet(queue') /\ phase' = phase
        /\ job' = [job EXCEPT ![v] = Head(queue)]
    BY <1>1, <1>4, TailSet DEF TakeEntry
  <2> QED
    BY <1>1, <1>2, <2>1 DEF TypeOK
<1>5. ASSUME NEW v \in Workers, RetrySucceeds(v) \/ RetryFails(v) PROVE Resolved(e)'
  BY <1>1, <1>2, <1>5, RetryLowers
<1>6. ASSUME ShutDown PROVE Resolved(e)'
  BY <1>1, <1>2, <1>6 DEF ShutDown, ToSet
<1> QED
  BY <1>3, <1>4, <1>5, <1>6 DEF Next, Work

(* That handlers and workers can go on, as their guards say it.            *)
SaverHasAStep(e) == phase[e] \in {"saving", "failed"} => ENABLED <<Save(e)>>_vars
WorkerHasAStep(w) == running /\ (job[w] # NoEntry \/ queue # <<>>) => ENABLED <<Work(w)>>_vars

(* EveryRowIsResolved (outbox.go), step by step.  A handler that saves     *)
(* comes to its end, whatever the database answers; a row in the buffer    *)
(* moves up, or the worker w has fewer attempts left at what delays it; a  *)
(* row with a worker is done with or has fewer attempts left; and what is  *)
(* resolved stays so.  Places and attempts are numbers, so none of this    *)
(* goes on for ever; that last step is an induction over temporal formulas *)
(* and ENABLED is assumed, both being out of the provers' reach.           *)
THEOREM RowsMoveOn ==
  ASSUME NEW e \in Entries, NEW w \in Workers, NEW i \in Nat, NEW m \in Nat
  PROVE  /\ Spec /\ WF_vars(Save(e)) /\ WF_vars(Work(w))
         /\ [](SaverHasAStep(e) /\ WorkerHasAStep(w))
         => /\ phase[e] = "saving" ~> phase[e] = "done"
            /\ QueuedAt(e, i) /\ Left(w) = m ~> e \notin ToSet(queue) \/ Sooner(e, w, i, m)
            /\ job[w] = e /\ Left(w) = m ~> e \notin Pending \/ (job[w] = e /\ Left(w) < m)
            /\ [](Resolved(e) => []Resolved(e))
<1> DEFINE Saving == phase[e] = "saving"
           Failed == phase[e] = "failed"
           Done == phase[e] = "done"
           Queued == QueuedAt(e, i) /\ Left(w) = m
           MovesUp == e \notin ToSet(queue) \/ Sooner(e, w, i, m)
           Working == job[w] = e /\ Left(w) = m
           Lower == e \notin Pending \/ (job[w] = e /\ Left(w) < m)
<1>1. IInv /\ Saving /\ [Next]_vars => Saving' \/ Failed' \/ Done'
  BY DEF IInv, TypeOK, Next, Save, Work, FinishRequest, SaveSucceeds, SaveFails, Enqueue,
         TakeEntry, RetrySucceeds, RetryFails, ShutDown, vars
<1>2. IInv /\ Saving /\ <<Save(e)>>_vars => Failed' \/ Done'
  BY DEF IInv, TypeOK, Save, SaveSucceeds, SaveFails, Enqueue
<1>3. IInv /\ Failed /\ [Next]_vars => Failed' \/ Done'
  BY DEF IInv, TypeOK, Next, Save, Work, FinishRequest, SaveSucceeds, SaveFails, Enqueue,
         TakeEntry, RetrySucceeds, RetryFails, ShutDown, vars
<1>4. IInv /\ Failed /\ <<Save(e)>>_vars => Done'
  BY DEF IInv, TypeOK, Save, SaveSucceeds, SaveFails, Enqueue
<1>5. IInv /\ IInv' /\ Queued /\ [Next]_vars => Queued' \/ MovesUp'
  <2>1. UNCHANGED vars /\ Queued => Queued'
    BY DEF vars, QueuedAt, Left
  <2> QED
    BY <2>1, QueueMoves
<1>6. IInv /\ IInv' /\ Queued /\ <<Work(w)>>_vars => MovesUp'
  BY QueueMoves
<1>7. IInv /\ Working /\ [Next]_vars => Working' \/ Lower'
  <2>1. UNCHANGED vars /\ Working => Working'
    BY DEF vars, Left
  <2> QED
    BY <2>1, RetryMoves
<1>8. IInv /\ Working /\ <<Work(w)>>_vars => Lower'
  BY RetryMoves
<1>9. IInv /\ Resolved(e) /\ [Next]_vars => Resolved(e)'
  BY ResolvedStays DEF vars, Resolved, Pending, AtWork
<1>10. SaverHasAStep(e) => /\ Saving => ENABLED <<Save(e)>>_vars
                           /\ Failed => ENABLED <<Save(e)>>_vars
  BY DEF SaverHasAStep
<1>11. IInv /\ Drained /\ WorkerHasAStep(w) => /\ Queued => ENABLED <<Work(w)>>_vars
                                               /\ Working => ENABLED <<Work(w)>>_vars
  <2>1. IInv /\ Queued => queue # <<>>
    BY DEF IInv, TypeOK, QueuedAt
  <2>2. Working => job[w] # NoEntry
    BY OutboxAssumption
  <2> QED
    BY <2>1, <2>2 DEF WorkerHasAStep, Drained
<1>12. Init => Drained
  BY DEF Init, Drained
<1>13. Spec => []Drained
  BY <1>12, DrainStep, PTL DEF Spec
<1> HIDE DEF Saving, Failed, Done, Queued, MovesUp, Working, Lower
<1>14. /\ Spec /\ WF_vars(Save(e)) /\ WF_vars(Work(w))
       /\ [](SaverHasAStep(e) /\ WorkerHasAStep(w))
       => (Saving ~> Done) /\ (Queued ~> MovesUp) /\ (Working ~> Lower)
          /\ [](Resolved(e) => []Resolved(e))
  BY <1>1, <1>2, <1>3, <1>4, <1>5, <1>6, <1>7, <1>8, <1>9, <1>10, <1>11, <1>13,
     OutboxInvariance, PTL DEF Spec
<1> QED
  BY <1>14, PTL DEF Saving, Done, Queued, MovesUp, Working, Lower

-----------------------------------------------------------------------------
(* Pricing: sets and sums *)

LEMMA LargestExists ==
  ASSUME NEW S, IsFiniteSet(S), S \subseteq Int, S # {}
  PROVE  \E m \in S : \A x \in S : x <= m
<1> DEFINE Bad == {T \in SUBSET S : T # {} /\ ~\E m \in T : \A x \in T : x <= m}
<1>1. ASSUME Bad # {} PROVE FALSE
  <2>1. FiniteSubsetsOf(S) = SUBSET S
    BY FS_FiniteSubsetsOfFinite
  <2>2. IsWellFoundedOn(StrictSubsetOrdering(S), SUBSET S)
    BY <2>1, FS_StrictSubsetOrderingWellFounded
  <2>3. PICK T \in Bad : \A U \in Bad : <<U, T>> \notin StrictSubsetOrdering(S)
    BY <1>1, <2>2, WFMin, Zenon
  <2>4. PICK t : t \in T
    OBVIOUS
  <2> DEFINE U == T \ {t}
  <2>5. U \notin Bad
    <3>1. ASSUME U \in Bad PROVE <<U, T>> \in StrictSubsetOrdering(S)
      BY <2>4 DEF StrictSubsetOrdering
    <3> QED
      BY <2>3, <3>1
  <2>6. CASE U = {}
    <3>1. T = {t} /\ t <= t
      BY <2>4, <2>6
    <3> QED
      BY <2>3, <3>1
  <2>7. CASE U # {}
    <3>1. PICK m \in U : \A x \in U : x <= m
      BY <2>5, <2>7
    <3>2. CASE t <= m
      BY <3>1, <3>2, <2>3
    <3>3. CASE ~(t <= m)
      <4>1. \A x \in T : x <= t
        BY <3>1, <3>3, <2>4
      <4> QED
        BY <4>1, <2>3, <2>4
    <3> QED
      BY <3>2, <3>3
  <2> QED
    BY <2>6, <2>7
<1> QED
  BY <1>1

LEMMA Classes ==
  /\ TokenClasses = {"input_fresh", "output", "cache_read", "cache_read_5m",
                     "cache_write", "cache_write_5m", "cache_write_1h"}
  /\ Prompt = {"input_fresh", "cache_read", "cache_read_5m",
               "cache_write", "cache_write_5m", "cache_write_1h"}
BY DEF TokenClasses, Prompt, Reads, Writes

LEMMA SumType ==
  ASSUME NEW f \in [TokenClasses -> Int], NEW S
  PROVE  Sum(f, S) \in Int
BY Classes DEF Sum

LEMMA SumAdd ==
  ASSUME NEW f \in [TokenClasses -> Int], NEW S, NEW c \in TokenClasses, c \notin S
  PROVE  Sum(f, S \cup {c}) = Sum(f, S) + f[c]
<1> DEFINE Of(x, T) == IF x \in T THEN f[x] ELSE 0
<1>1. \A T : \A x \in TokenClasses : Of(x, T) \in Int
  OBVIOUS
<1>2. \A x \in TokenClasses : Of(x, S \cup {c}) = IF x = c THEN Of(x, S) + f[c] ELSE Of(x, S)
  OBVIOUS
<1>3. \A T : Sum(f, T) = Of("input_fresh", T) + Of("output", T) + Of("cache_read", T) + Of("cache_read_5m", T)
                            + Of("cache_write", T) + Of("cache_write_5m", T) + Of("cache_write_1h", T)
  BY DEF Sum
<1> HIDE DEF Of
<1>4. f[c] \in Int
  OBVIOUS
<1> QED
  BY <1>1, <1>2, <1>3, <1>4, Classes

LEMMA SumNone ==
  ASSUME NEW f
  PROVE  Sum(f, {}) = 0
BY DEF Sum

-----------------------------------------------------------------------------
(* Rounding *)

(* The quotient rounded up is the least number whose product is no less.   *)
LEMMA CeilBounds ==
  ASSUME NEW a \in Nat, NEW b \in Nat \ {0}
  PROVE  /\ CeilQuotient(a, b) \in Nat
         /\ a <= CeilQuotient(a, b) * b
         /\ CeilQuotient(a, b) * b < a + b
<1>1. (a + b - 1) \div b \in Nat
  OBVIOUS
<1>2. (a + b - 1) = ((a + b - 1) \div b) * b + ((a + b - 1) % b) /\ (a + b - 1) % b \in 0..(b - 1)
  OBVIOUS
<1> DEFINE q == (a + b - 1) \div b
           r == (a + b - 1) % b
<1>3. q \in Nat /\ r \in Int /\ 0 <= r /\ r <= b - 1 /\ a + b - 1 = q * b + r
  BY <1>1, <1>2
<1> HIDE DEF q, r
<1>4. q * b \in Int
  BY <1>3
<1>5. q \in Nat /\ a <= q * b /\ q * b < a + b
  BY <1>3, <1>4
<1> QED
  BY <1>5 DEF q, CeilQuotient

LEMMA Cancel ==
  ASSUME NEW x \in Int, NEW y \in Int, NEW d \in Nat \ {0}
  PROVE  /\ x * d < y * d => x < y
         /\ x * d <= y * d => x <= y
         /\ x <= y => x * d <= y * d
OBVIOUS

LEMMA CeilIsLeast ==
  ASSUME NEW a \in Nat, NEW b \in Nat \ {0}, NEW n \in Int, a <= n * b
  PROVE  CeilQuotient(a, b) <= n
<1>1. CeilQuotient(a, b) \in Nat /\ CeilQuotient(a, b) * b < n * b + b
  <2>1. CeilQuotient(a, b) \in Nat /\ CeilQuotient(a, b) * b < a + b
    BY CeilBounds
  <2>2. CeilQuotient(a, b) * b \in Int /\ n * b \in Int
    BY <2>1
  <2> QED
    BY <2>1, <2>2
<1>2. n * b + b = (n + 1) * b
  OBVIOUS
<1>3. CeilQuotient(a, b) < n + 1
  BY <1>1, <1>2, Cancel
<1> QED
  BY <1>1, <1>3

(* A smaller fraction is not rounded up to more.                           *)
LEMMA CeilMonotonic ==
  ASSUME NEW a \in Nat, NEW b \in Nat \ {0}, NEW c \in Nat, NEW d \in Nat \ {0}, a * d <= c * b
  PROVE  CeilQuotient(a, b) <= CeilQuotient(c, d)
<1> DEFINE q == CeilQuotient(c, d)
<1>1. q \in Nat /\ c <= q * d
  BY CeilBounds
<1> HIDE DEF q
<1>2. c * b <= (q * d) * b
  BY <1>1, Cancel
<1>3. (q * d) * b = (q * b) * d /\ q * b \in Int /\ c * b \in Int /\ a * d \in Int
  BY <1>1
<1>4. a * d <= (q * b) * d
  BY <1>2, <1>3
<1>5. a <= q * b
  BY <1>3, <1>4, Cancel
<1>6. CeilQuotient(a, b) <= q
  BY <1>1, <1>5, CeilIsLeast
<1> QED
  BY <1>6 DEF q

(* Two roundings instead of one cost at most one more.                     *)
LEMMA CeilOfSum ==
  ASSUME NEW a \in Nat, NEW c \in Nat, NEW b \in Nat \ {0}
  PROVE  CeilQuotient(a, b) + CeilQuotient(c, b) <= CeilQuotient(a + c, b) + 1
<1> DEFINE p == CeilQuotient(a, b)
           q == CeilQuotient(c, b)
           s == CeilQuotient(a + c, b)
<1>1. p \in Nat /\ q \in Nat /\ s \in Nat /\ p * b < a + b /\ q * b < c + b /\ a + c <= s * b
  BY CeilBounds, a + c \in Nat
<1> HIDE DEF p, q, s
<1>2. (p + q) * b = p * b + q * b /\ (s + 2) * b = s * b + 2 * b
  BY <1>1
<1>3. p * b \in Int /\ q * b \in Int /\ s * b \in Int
  BY <1>1
<1>4. (p + q) * b < (s + 2) * b
  BY <1>1, <1>2, <1>3
<1>5. p + q < s + 2
  BY <1>1, <1>4, Cancel
<1> QED
  BY <1>1, <1>5 DEF p, q, s

LEMMA CeilOfNone == ASSUME NEW b \in Nat \ {0} PROVE CeilQuotient(0, b) = 0
<1>1. CeilQuotient(0, b) <= 0
  BY CeilIsLeast, 0 <= 0 * b
<1> QED
  BY <1>1, CeilBounds

-----------------------------------------------------------------------------
(* Tiers and windows *)

LEMMA BestExists ==
  ASSUME NEW S, IsFiniteSet(S), S # {}, NEW f \in [S -> Int]
  PROVE  \E m \in S : \A x \in S : f[x] <= f[m]
<1> DEFINE T == {f[x] : x \in S}
<1>1. f \in Surjection(S, T)
  BY DEF Surjection
<1>2. IsFiniteSet(T)
  BY <1>1, FS_Surjection
<1>3. PICK m \in T : \A x \in T : x <= m
  <2>1. T \subseteq Int /\ T # {}
    OBVIOUS
  <2> QED
    BY <1>2, <2>1, LargestExists
<1> QED
  BY <1>3

(* A model's rules, of parts that may have been saved at different times.  *)
Ruled(rules) ==
  /\ rules.base \in Rates
  /\ IsFiniteSet(rules.tiers) /\ rules.tiers \subseteq [above : Nat, rates : Rates]
  /\ IsFiniteSet(rules.windows) /\ rules.windows \subseteq {w \in Window : w.den > 0}

AllTiers(rules) == {[above |-> Base, rates |-> rules.base]} \cup rules.tiers

LEMMA TierFound ==
  ASSUME NEW rules, Ruled(rules), NEW prompt \in Nat
  PROVE  \E tier \in AllTiers(rules) :
           /\ tier.above \in Int /\ tier.above < prompt /\ tier.rates \in Rates
           /\ RatesForPromptTotal(rules, prompt) = tier.rates
           /\ \A u \in TiersPassed(rules, prompt) : u.above <= tier.above
<1> DEFINE passed == TiersPassed(rules, prompt)
<1>1. CASE passed = {}
  <2> DEFINE tier == [above |-> Base, rates |-> rules.base]
  <2>1. tier \in AllTiers(rules) /\ tier.above = -1 /\ tier.rates = rules.base
    BY DEF AllTiers, Base
  <2> QED
    BY <1>1, <2>1 DEF RatesForPromptTotal, Ruled
<1>2. CASE passed # {}
  <2> DEFINE above == [t \in passed |-> t.above]
             best(t) == \A u \in passed : u.above <= t.above
             tier == CHOOSE t \in passed : best(t)
  <2>1. /\ IsFiniteSet(passed) /\ passed \subseteq rules.tiers
        /\ \A t \in passed : t.above \in Nat /\ t.above < prompt /\ t.rates \in Rates
    BY FS_Subset DEF TiersPassed, Ruled
  <2>2. above \in [passed -> Int]
    BY <2>1
  <2> HIDE DEF passed
  <2>3. PICK m \in passed : \A x \in passed : above[x] <= above[m]
    BY <1>2, <2>1, <2>2, BestExists
  <2>4. best(m)
    BY <2>3
  <2> HIDE DEF best
  <2>5. tier \in passed /\ best(tier)
    BY <2>4
  <2>6. RatesForPromptTotal(rules, prompt) = tier.rates
    BY <1>2 DEF RatesForPromptTotal, passed, best
  <2>7. tier \in AllTiers(rules)
    BY <2>1, <2>5 DEF AllTiers
  <2> HIDE DEF tier
  <2> QED
    BY <2>1, <2>5, <2>6, <2>7 DEF best, passed
<1> QED
  BY <1>1, <1>2

(* A longer prompt is priced by the same tier or by a higher one.          *)
LEMMA TiersAscend ==
  ASSUME NEW rules, Ruled(rules), NEW p \in Nat, NEW q \in Nat, p <= q
  PROVE  \/ RatesForPromptTotal(rules, p) = RatesForPromptTotal(rules, q)
         \/ \E low, high \in AllTiers(rules) :
              /\ low.above < high.above
              /\ RatesForPromptTotal(rules, p) = low.rates
              /\ RatesForPromptTotal(rules, q) = high.rates
<1>1. TiersPassed(rules, p) \subseteq TiersPassed(rules, q)
  BY DEF TiersPassed, Ruled
<1>2. CASE TiersPassed(rules, p) = TiersPassed(rules, q)
  BY <1>2 DEF RatesForPromptTotal
<1>3. CASE TiersPassed(rules, p) # TiersPassed(rules, q)
  <2>1. PICK u \in TiersPassed(rules, q) : u \notin TiersPassed(rules, p)
    BY <1>1, <1>3
  <2>2. u.above \in Nat /\ u.above >= p
    BY <2>1 DEF TiersPassed, Ruled
  <2>3. PICK low \in AllTiers(rules) :
          low.above \in Int /\ low.above < p /\ RatesForPromptTotal(rules, p) = low.rates
    BY TierFound
  <2>4. PICK high \in AllTiers(rules) :
          /\ high.above \in Int /\ RatesForPromptTotal(rules, q) = high.rates
          /\ \A v \in TiersPassed(rules, q) : v.above <= high.above
    BY TierFound
  <2>5. low.above < high.above
    BY <2>1, <2>2, <2>3, <2>4
  <2> QED
    BY <2>3, <2>4, <2>5
<1> QED
  BY <1>2, <1>3

LEMMA WindowFound ==
  ASSUME NEW rules, Ruled(rules), NEW t, WindowFor(rules, t) # NoWindow
  PROVE  WindowFor(rules, t) \in rules.windows
<1> DEFINE matching == {w \in rules.windows : Matches(w, t)}
           best(w) == \A v \in matching : \/ w.priority > v.priority
                                          \/ w.priority = v.priority /\ w.id <= v.id
<1>1. /\ IsFiniteSet(matching) /\ matching # {} /\ matching \subseteq rules.windows
      /\ \A w \in matching : w.priority \in Int /\ w.id \in Nat
  BY FS_Subset DEF WindowFor, Ruled, Window
<1> HIDE DEF matching
<1>2. PICK top \in matching : \A w \in matching : w.priority <= top.priority
  <2> DEFINE f == [w \in matching |-> w.priority]
  <2>1. f \in [matching -> Int]
    BY <1>1
  <2> HIDE DEF f
  <2>2. PICK m \in matching : \A x \in matching : f[x] <= f[m]
    BY <1>1, <2>1, BestExists
  <2> QED
    BY <2>2 DEF f
<1> DEFINE tops == {w \in matching : w.priority = top.priority}
<1>3. PICK w \in tops : \A v \in tops : w.id <= v.id
  <2> DEFINE f == [v \in tops |-> -v.id]
  <2>1. f \in [tops -> Int] /\ IsFiniteSet(tops) /\ tops # {}
    BY <1>1, FS_Subset
  <2>2. \A v \in tops : f[v] = -v.id /\ v.id \in Nat
    BY <1>1
  <2> HIDE DEF f, tops
  <2>3. PICK m \in tops : \A x \in tops : f[x] <= f[m]
    BY <2>1, BestExists
  <2>4. \A x \in tops : m.id <= x.id
    BY <2>2, <2>3
  <2> QED
    BY <2>4
<1>4. w \in matching /\ best(w)
  BY <1>1, <1>2, <1>3
<1> HIDE DEF best
<1>5. (CHOOSE v \in matching : best(v)) \in matching
  BY <1>4
<1>6. WindowFor(rules, t) = CHOOSE v \in matching : best(v)
  BY <1>1 DEF WindowFor, best, matching
<1> QED
  BY <1>1, <1>5, <1>6

LEMMA ScaleType ==
  ASSUME NEW rules, Ruled(rules), NEW t, NEW c
  PROVE  /\ Scale(WindowFor(rules, t), c).num \in Nat
         /\ Scale(WindowFor(rules, t), c).den \in Nat \ {0}
<1> DEFINE w == WindowFor(rules, t)
<1>1. w # NoWindow => w.num \in Nat /\ w.den \in Nat \ {0}
  BY WindowFound DEF Ruled, Window
<1> HIDE DEF w
<1>2. Scale(w, c).num \in Nat /\ Scale(w, c).den \in Nat \ {0}
  BY <1>1 DEF Scale
<1> QED
  BY <1>2 DEF w

LEMMA RateType ==
  ASSUME NEW rates \in Rates, NEW c \in TokenClasses
  PROVE  RateFor(rates, c) \in Nat
BY Classes DEF Rates, RateFor, EffectiveCacheWrite, FirstNonZero, Writes

LEMMA CostType ==
  ASSUME NEW rules, Ruled(rules), NEW t, NEW c, NEW tokens \in Nat, NEW rate \in Nat
  PROVE  CostForTokens(tokens, rate, Scale(WindowFor(rules, t), c)) \in Nat
<1> DEFINE s == Scale(WindowFor(rules, t), c)
<1>1. s.num \in Nat /\ s.den \in Nat \ {0}
  BY ScaleType
<1> HIDE DEF s
<1>2. tokens * rate * s.num \in Nat /\ PerMillion * s.den \in Nat \ {0}
  BY <1>1, PriceAssumption
<1>3. CostForTokens(tokens, rate, s) \in Nat
  BY <1>2, CeilBounds DEF CostForTokens
<1> QED
  BY <1>3 DEF s

-----------------------------------------------------------------------------
(* Usage *)

(* What is asked for, with what will be generated for it.                  *)
Generation(u) ==
  {u.fresh, u.read, u.write5m, u.write1h, u.output} \subseteq Nat /\ u.split \subseteq u.tells

LEMMA NormalizedUsage ==
  ASSUME NEW raw, raw.prompt \in Nat, raw.tokens \in [TokenClasses -> Nat],
         raw.tokens["input_fresh"] = 0, NEW accounting
  PROVE  LET usage == NormalizeUsage(raw, accounting)
             cached == Sum(raw.tokens, Reads \cup Writes) IN
         /\ cached \in Nat
         /\ usage.tokens \in [TokenClasses -> Nat] /\ usage.total \in Nat
         /\ usage.tokens = [raw.tokens EXCEPT !["input_fresh"] =
              IF accounting = "exclusive" THEN raw.prompt ELSE AtLeastZero(raw.prompt - cached)]
         /\ usage.total = usage.tokens["input_fresh"] + cached
         /\ usage.total = Sum(usage.tokens, Prompt)
         /\ usage.anomaly <=> (accounting # "exclusive" /\ cached > raw.prompt)
<1> DEFINE cached == Sum(raw.tokens, Reads \cup Writes)
           fresh == IF accounting = "exclusive" THEN raw.prompt ELSE AtLeastZero(raw.prompt - cached)
           usage == NormalizeUsage(raw, accounting)
<1>1. Clamped(raw).prompt = raw.prompt /\ Clamped(raw).tokens = raw.tokens /\ ~Negative(raw)
  <2>1. \A c \in TokenClasses : raw.tokens[c] \in Nat
    OBVIOUS
  <2>2. AtLeastZero(raw.prompt) = raw.prompt /\ \A c \in TokenClasses : AtLeastZero(raw.tokens[c]) = raw.tokens[c]
    BY <2>1 DEF AtLeastZero
  <2>3. [c \in TokenClasses |-> AtLeastZero(raw.tokens[c])] = raw.tokens
    BY <2>2
  <2>4. ~Negative(raw)
    BY <2>1 DEF Negative
  <2> QED
    BY <2>2, <2>3, <2>4 DEF Clamped
<1>2. cached \in Nat
  BY Classes DEF Sum, Reads, Writes
<1>3. fresh \in Nat
  BY <1>2 DEF AtLeastZero
<1>4. /\ usage.total = fresh + cached
      /\ usage.tokens = [raw.tokens EXCEPT !["input_fresh"] = fresh]
      /\ usage.anomaly <=> (accounting # "exclusive" /\ cached > raw.prompt)
  BY <1>1 DEF NormalizeUsage
<1> HIDE DEF usage, fresh
<1>5. usage.tokens \in [TokenClasses -> Nat] /\ usage.tokens["input_fresh"] = fresh
  BY <1>3, <1>4, Classes
<1>6. Sum(usage.tokens, Prompt) = fresh + cached
  BY <1>3, <1>4, <1>5, Classes DEF Sum, Reads, Writes
<1> QED
  BY <1>2, <1>3, <1>4, <1>5, <1>6 DEF usage, fresh

(* What the sums of the cached tokens are, of tokens told class by class.  *)
LEMMA CachedSums ==
  ASSUME NEW tokens \in [TokenClasses -> Nat], tokens["cache_read_5m"] = 0
  PROVE  /\ Sum(tokens, Reads) = tokens["cache_read"]
         /\ Sum(tokens, Writes) = tokens["cache_write"] + tokens["cache_write_5m"] + tokens["cache_write_1h"]
         /\ Sum(tokens, Reads \cup Writes) = Sum(tokens, Reads) + Sum(tokens, Writes)
BY Classes DEF Sum, Reads, Writes

(* What is not told at all, and the cache writes that are not heard of.    *)
Lost(u, speaks) == Translated(u, speaks) /\ "early" \notin u.tells
Unheard(u, speaks) ==
  speaks = "anthropic" /\ u.client = "anthropic" /\ u.stream /\ "late" \notin u.tells

ReadsTold(u, speaks, target) ==
  IF Lost(u, speaks) THEN 0
  ELSE IF speaks = "anthropic" \/ Translated(u, speaks) THEN u.read
  ELSE CacheReadTokensFor(u, target)
WritesTold(u, speaks) ==
  IF Translated(u, speaks) \/ Unheard(u, speaks) THEN 0 ELSE Written(u)

(* A reply tells of the prompt as its dialect counts it, of the reads it   *)
(* admits to, and of the cache writes, in whatever classes, once.          *)
LEMMA ReportedUsage ==
  ASSUME NEW u, Generation(u), NEW speaks, NEW target
  PROVE  LET raw == Reported(u, speaks, target) IN
         /\ raw.prompt = IF speaks = "anthropic" THEN u.fresh
                         ELSE IF Lost(u, speaks) THEN 0 ELSE PromptOf(u)
         /\ raw.prompt \in Nat /\ raw.tokens \in [TokenClasses -> Nat]
         /\ raw.tokens["input_fresh"] = 0
         /\ raw.tokens["output"] = IF Lost(u, speaks) THEN 0 ELSE u.output
         /\ Sum(raw.tokens, Reads) = ReadsTold(u, speaks, target)
         /\ Sum(raw.tokens, Writes) = WritesTold(u, speaks)
         /\ Sum(raw.tokens, Reads \cup Writes) = ReadsTold(u, speaks, target) + WritesTold(u, speaks)
         /\ ReadsTold(u, speaks, target) \in 0..u.read /\ WritesTold(u, speaks) \in 0..Written(u)
<1> DEFINE raw == Reported(u, speaks, target)
           reads == ReadsTold(u, speaks, target)
           writes == WritesTold(u, speaks)
<1>1. /\ u.fresh \in Nat /\ u.read \in Nat /\ u.write5m \in Nat /\ u.write1h \in Nat /\ u.output \in Nat
      /\ u.split \subseteq u.tells /\ Written(u) = u.write5m + u.write1h
      /\ Written(u) \in Nat /\ PromptOf(u) \in Nat
  BY DEF Generation, Written, PromptOf
<1>2. reads \in 0..u.read /\ writes \in 0..Written(u)
  BY <1>1 DEF ReadsTold, WritesTold, CacheReadTokensFor
<1>3. CASE speaks = "anthropic"
  <2> DEFINE lifetimes == u.stream /\ (IF u.client = "openai" THEN "early" ELSE "late") \in u.split
             created == IF u.stream /\ u.client = "anthropic" /\ "late" \notin u.tells
                        THEN 0 ELSE Written(u)
             by5m == IF lifetimes THEN u.write5m ELSE 0
             by1h == IF lifetimes THEN u.write1h ELSE 0
             write == Remainder(created, by5m, by1h)
  <2>1. ~Translated(u, speaks) /\ ~Lost(u, speaks) /\ reads = u.read /\ writes = created
    BY <1>3 DEF Translated, Lost, Unheard, ReadsTold, WritesTold
  <2>2. by5m \in Nat /\ by1h \in Nat /\ created \in Nat
    BY <1>1
  <2>3. created = 0 \/ created = Written(u)
    OBVIOUS
  <2>4. lifetimes /\ u.client # "openai" => "late" \in u.tells
    BY <1>1
  <2>5. by5m + by1h <= created
    <3>1. CASE lifetimes
      <4>1. created = Written(u)
        BY <2>4, <3>1
      <4> QED
        BY <1>1, <3>1, <4>1
    <3>2. CASE ~lifetimes
      BY <2>2, <3>2
    <3> QED
      BY <3>1, <3>2
  <2>6. raw = Told(u.fresh, u.read, write, by5m, by1h, u.output)
    BY <1>3 DEF Reported, AnthropicReported
  <2> HIDE DEF lifetimes, created, by5m, by1h
  <2>7. write \in Nat /\ write + by5m + by1h = created
    BY <2>2, <2>5 DEF Remainder, AtLeastZero
  <2> HIDE DEF write, raw, reads, writes
  <2>8. /\ raw.prompt = u.fresh /\ raw.tokens \in [TokenClasses -> Nat]
        /\ raw.tokens["input_fresh"] = 0 /\ raw.tokens["output"] = u.output
        /\ Sum(raw.tokens, Reads) = u.read /\ Sum(raw.tokens, Writes) = write + by5m + by1h
        /\ Sum(raw.tokens, Reads \cup Writes) = u.read + write + by5m + by1h
    <3>1. /\ raw.prompt = u.fresh /\ raw.tokens \in [TokenClasses -> Nat]
          /\ raw.tokens["input_fresh"] = 0 /\ raw.tokens["cache_read_5m"] = 0
          /\ raw.tokens["output"] = u.output /\ raw.tokens["cache_read"] = u.read
          /\ raw.tokens["cache_write"] = write /\ raw.tokens["cache_write_5m"] = by5m
          /\ raw.tokens["cache_write_1h"] = by1h
      BY <1>1, <2>2, <2>6, <2>7, Classes DEF Told
    <3>2. /\ Sum(raw.tokens, Reads) = raw.tokens["cache_read"]
          /\ Sum(raw.tokens, Writes) =
               raw.tokens["cache_write"] + raw.tokens["cache_write_5m"] + raw.tokens["cache_write_1h"]
          /\ Sum(raw.tokens, Reads \cup Writes) = Sum(raw.tokens, Reads) + Sum(raw.tokens, Writes)
      BY <3>1, CachedSums
    <3> QED
      BY <1>1, <2>2, <2>7, <3>1, <3>2
  <2>9. Sum(raw.tokens, Writes) = writes /\ Sum(raw.tokens, Reads \cup Writes) = reads + writes
    <3>1. u.read + write + by5m + by1h = u.read + created
      BY <1>1, <2>2, <2>7
    <3>2. Sum(raw.tokens, Writes) = created /\ Sum(raw.tokens, Reads \cup Writes) = u.read + created
      BY <2>7, <2>8, <3>1
    <3> QED
      BY <2>1, <3>2
  <2> QED
    BY <1>1, <1>2, <1>3, <2>1, <2>8, <2>9 DEF raw, reads, writes
<1>4. CASE speaks # "anthropic"
  <2>1. ASSUME NEW prompt \in Nat, NEW write \in Nat, NEW output \in Nat,
               raw = Told(prompt, reads, write, 0, 0, output)
        PROVE  /\ raw.prompt = prompt /\ raw.tokens \in [TokenClasses -> Nat]
               /\ raw.tokens["input_fresh"] = 0 /\ raw.tokens["output"] = output
               /\ Sum(raw.tokens, Reads) = reads /\ Sum(raw.tokens, Writes) = write
               /\ Sum(raw.tokens, Reads \cup Writes) = reads + write
    <3>1. reads \in Nat
      BY <1>1, <1>2
    <3> HIDE DEF raw, reads
    <3>2. /\ raw.prompt = prompt /\ raw.tokens \in [TokenClasses -> Nat]
          /\ raw.tokens["input_fresh"] = 0 /\ raw.tokens["cache_read_5m"] = 0
          /\ raw.tokens["output"] = output /\ raw.tokens["cache_read"] = reads
          /\ raw.tokens["cache_write"] = write /\ raw.tokens["cache_write_5m"] = 0
          /\ raw.tokens["cache_write_1h"] = 0
      BY <2>1, <3>1, Classes DEF Told
    <3>3. /\ Sum(raw.tokens, Reads) = raw.tokens["cache_read"]
          /\ Sum(raw.tokens, Writes) =
               raw.tokens["cache_write"] + raw.tokens["cache_write_5m"] + raw.tokens["cache_write_1h"]
          /\ Sum(raw.tokens, Reads \cup Writes) = Sum(raw.tokens, Reads) + Sum(raw.tokens, Writes)
      BY <3>2, CachedSums
    <3> QED
      BY <3>1, <3>2, <3>3
  <2>2. CASE Lost(u, speaks)
    <3>1. raw = Told(0, reads, 0, 0, 0, 0) /\ writes = 0 /\ reads = 0
      BY <1>4, <2>2 DEF Reported, TranslatedReported, Lost, ReadsTold, WritesTold
    <3> HIDE DEF raw, reads, writes
    <3>2. /\ raw.prompt = 0 /\ raw.tokens \in [TokenClasses -> Nat]
          /\ raw.tokens["input_fresh"] = 0 /\ raw.tokens["output"] = 0
          /\ Sum(raw.tokens, Reads) = reads /\ Sum(raw.tokens, Writes) = 0
          /\ Sum(raw.tokens, Reads \cup Writes) = reads + 0
      BY <2>1, <3>1, 0 \in Nat
    <3> QED
      BY <1>2, <1>4, <2>2, <3>1, <3>2 DEF raw, reads, writes
  <2>3. CASE ~Lost(u, speaks)
    <3>1. raw = Told(PromptOf(u), reads, writes, 0, 0, u.output)
      BY <1>4, <2>3 DEF Reported, TranslatedReported, OpenAIReported, Lost, Unheard, ReadsTold, WritesTold
    <3>2. writes \in Nat
      BY <1>1, <1>2
    <3> HIDE DEF raw, reads, writes
    <3>3. /\ raw.prompt = PromptOf(u) /\ raw.tokens \in [TokenClasses -> Nat]
          /\ raw.tokens["input_fresh"] = 0 /\ raw.tokens["output"] = u.output
          /\ Sum(raw.tokens, Reads) = reads /\ Sum(raw.tokens, Writes) = writes
          /\ Sum(raw.tokens, Reads \cup Writes) = reads + writes
      BY <1>1, <2>1, <3>1, <3>2
    <3> QED
      BY <1>1, <1>2, <1>4, <2>3, <3>3 DEF raw, reads, writes
  <2> QED
    BY <2>2, <2>3
<1> QED
  BY <1>3, <1>4

(* The upstream's own convention, read with its own accounting, gives back *)
(* what it told of, and bills no token of it twice.                        *)
LEMMA UsageAsServed ==
  ASSUME NEW u, Generation(u), NEW speaks, NEW target
  PROVE  LET usage == NormalizeUsage(Reported(u, speaks, target), UpstreamsAccounting(speaks)) IN
         /\ usage.total = Sum(usage.tokens, Prompt) /\ ~usage.anomaly
         /\ usage.total = IF Lost(u, speaks) THEN 0
                          ELSE IF Unheard(u, speaks) THEN u.fresh + u.read ELSE PromptOf(u)
         /\ usage.tokens["output"] = IF Lost(u, speaks) THEN 0 ELSE u.output
         /\ Sum(usage.tokens, Reads) = ReadsTold(u, speaks, target)
         /\ Sum(usage.tokens, Writes) = WritesTold(u, speaks)
<1> DEFINE raw == Reported(u, speaks, target)
           usage == NormalizeUsage(raw, UpstreamsAccounting(speaks))
           reads == ReadsTold(u, speaks, target)
           writes == WritesTold(u, speaks)
           cached == Sum(raw.tokens, Reads \cup Writes)
           fresh == usage.tokens["input_fresh"]
<1>1. /\ u.fresh \in Nat /\ u.read \in Nat /\ Written(u) \in Nat
      /\ PromptOf(u) = u.fresh + u.read + Written(u)
  BY DEF Generation, Written, PromptOf
<1>2. /\ raw.prompt = IF speaks = "anthropic" THEN u.fresh
                      ELSE IF Lost(u, speaks) THEN 0 ELSE PromptOf(u)
      /\ raw.prompt \in Nat /\ raw.tokens \in [TokenClasses -> Nat]
      /\ raw.tokens["input_fresh"] = 0
      /\ raw.tokens["output"] = IF Lost(u, speaks) THEN 0 ELSE u.output
      /\ Sum(raw.tokens, Reads) = reads /\ Sum(raw.tokens, Writes) = writes
      /\ cached = reads + writes
      /\ reads \in 0..u.read /\ writes \in 0..Written(u)
  <2> HIDE DEF raw, reads, writes
  <2>1. /\ raw.prompt = IF speaks = "anthropic" THEN u.fresh
                        ELSE IF Lost(u, speaks) THEN 0 ELSE PromptOf(u)
        /\ raw.prompt \in Nat /\ raw.tokens \in [TokenClasses -> Nat]
        /\ raw.tokens["input_fresh"] = 0
        /\ raw.tokens["output"] = IF Lost(u, speaks) THEN 0 ELSE u.output
    BY ReportedUsage DEF raw
  <2>2. /\ Sum(raw.tokens, Reads) = reads /\ Sum(raw.tokens, Writes) = writes
        /\ Sum(raw.tokens, Reads \cup Writes) = reads + writes
        /\ reads \in 0..u.read /\ writes \in 0..Written(u)
    BY ReportedUsage DEF raw, reads, writes
  <2> QED
    BY <2>1, <2>2
<1> HIDE DEF raw
<1>3. /\ usage.tokens = [raw.tokens EXCEPT !["input_fresh"] =
           IF speaks = "anthropic" THEN raw.prompt ELSE AtLeastZero(raw.prompt - cached)]
      /\ usage.total = fresh + cached /\ usage.total = Sum(usage.tokens, Prompt)
      /\ usage.anomaly <=> (speaks # "anthropic" /\ cached > raw.prompt)
  <2>1. UpstreamsAccounting(speaks) = "exclusive" <=> speaks = "anthropic"
    BY DEF UpstreamsAccounting
  <2> QED
    BY <1>2, <2>1, NormalizedUsage
<1> HIDE DEF usage
<1>4. /\ fresh = IF speaks = "anthropic" THEN raw.prompt ELSE AtLeastZero(raw.prompt - cached)
      /\ usage.tokens["output"] = raw.tokens["output"]
      /\ Sum(usage.tokens, Reads) = Sum(raw.tokens, Reads)
      /\ Sum(usage.tokens, Writes) = Sum(raw.tokens, Writes)
  BY <1>2, <1>3, Classes DEF Sum, Reads, Writes
<1>5. /\ Lost(u, speaks) => speaks # "anthropic" /\ reads = 0 /\ writes = 0
      /\ Unheard(u, speaks) => speaks = "anthropic" /\ writes = 0
      /\ speaks = "anthropic" => reads = u.read
      /\ speaks = "anthropic" /\ ~Unheard(u, speaks) => writes = Written(u)
  BY DEF Lost, Unheard, Translated, ReadsTold, WritesTold
<1> HIDE DEF reads, writes, cached, fresh
<1>6. /\ ~(speaks # "anthropic" /\ cached > raw.prompt)
      /\ fresh + cached = IF Lost(u, speaks) THEN 0
                          ELSE IF Unheard(u, speaks) THEN u.fresh + u.read ELSE PromptOf(u)
  <2>1. CASE speaks = "anthropic"
    BY <1>1, <1>2, <1>4, <1>5, <2>1
  <2>2. CASE speaks # "anthropic" /\ Lost(u, speaks)
    BY <1>1, <1>2, <1>4, <1>5, <2>2 DEF AtLeastZero
  <2>3. CASE speaks # "anthropic" /\ ~Lost(u, speaks)
    BY <1>1, <1>2, <1>4, <1>5, <2>3 DEF AtLeastZero
  <2> QED
    BY <2>1, <2>2, <2>3
<1>7. ~usage.anomaly
  BY <1>3, <1>6, Zenon
<1> QED
  BY <1>2, <1>3, <1>4, <1>6, <1>7 DEF usage, raw, reads, writes, fresh

-----------------------------------------------------------------------------
(* The catalogue *)

(* Every part of a model that was saved is normalized.                     *)
Kept(model) ==
  /\ WellFormed(model)
  /\ "exact" \in DOMAIN model => "legacy" \in DOMAIN model /\ model["exact"] = model["legacy"]
  /\ "accounting" \in DOMAIN model => model["accounting"] # ""
  /\ "windows" \in DOMAIN model =>
       \A w \in model["windows"] : w.den # 0 /\ w.days # {}
  /\ "tiers" \in DOMAIN model => Apart(model["tiers"])

LEMMA PartsAre ==
  /\ Len(Parts) = 5 /\ DOMAIN Parts = 1..5
  /\ Parts[1] = {"exact", "legacy", "accounting", "target", "speaks", "context", "maxOutput", "thinks"}
  /\ Parts[2] = {"tiers"} /\ Parts[3] = {"family"} /\ Parts[4] = {"ttl"} /\ Parts[5] = {"windows"}
  /\ Fields = {"exact", "legacy", "accounting", "target", "speaks", "context", "maxOutput",
               "thinks", "tiers", "family", "ttl", "windows"}
<1>1. /\ Len(Parts) = 5 /\ DOMAIN Parts = 1..5
      /\ Parts[1] = {"exact", "legacy", "accounting", "target", "speaks", "context", "maxOutput", "thinks"}
      /\ Parts[2] = {"tiers"} /\ Parts[3] = {"family"} /\ Parts[4] = {"ttl"} /\ Parts[5] = {"windows"}
  BY DEF Parts
<1>2. Fields = Parts[1] \cup Parts[2] \cup Parts[3] \cup Parts[4] \cup Parts[5]
  <2>1. 1..5 = {1, 2, 3, 4, 5}
    OBVIOUS
  <2> QED
    BY <1>1, <2>1 DEF Fields
<1> QED
  BY <1>1, <1>2

LEMMA NormalizedFields ==
  ASSUME NEW model, DOMAIN model = Fields
  PROVE  /\ DOMAIN Normalized(model) = Fields
         /\ Normalized(model)["exact"] = ExactRates(model)
         /\ Normalized(model)["legacy"] = ExactRates(model)
         /\ Normalized(model)["accounting"] =
              IF model["accounting"] = "" THEN DefaultAccounting(model["family"]) ELSE model["accounting"]
         /\ Normalized(model)["windows"] = {NormalizedWindow(w) : w \in model["windows"]}
         /\ \A f \in Fields \ {"exact", "legacy", "accounting", "windows"} :
              Normalized(model)[f] = model[f]
BY PartsAre DEF Normalized

LEMMA WindowsKept ==
  ASSUME NEW w \in Window
  PROVE  /\ NormalizedWindow(w) \in Window
         /\ NormalizedWindow(w).den # 0 /\ NormalizedWindow(w).days # {}
         /\ w.den # 0 /\ w.days # {} => NormalizedWindow(w) = w
<1> DEFINE n == NormalizedWindow(w)
<1>1. /\ n.den = (IF w.den # 0 THEN w.den ELSE 1) /\ n.days = (IF w.days = {} THEN 0..6 ELSE w.days)
      /\ n.id = w.id /\ n.start = w.start /\ n.end = w.end /\ n.num = w.num /\ n.classes = w.classes
      /\ n.priority = w.priority /\ n.from = w.from /\ n.until = w.until
      /\ n = [w EXCEPT !.den = FirstNonZero(@, 1), !.days = IF @ = {} THEN 0..6 ELSE @]
  BY DEF NormalizedWindow, FirstNonZero, Window
<1>2. n \in Window
  <2> DEFINE den == IF w.den # 0 THEN w.den ELSE 1
             days == IF w.days = {} THEN 0..6 ELSE w.days
  <2>1. den \in Nat /\ days \in SUBSET (0..6)
    BY DEF Window
  <2>2. n = [w EXCEPT !.den = den, !.days = days]
    BY DEF NormalizedWindow, FirstNonZero
  <2> HIDE DEF den, days, n
  <2> QED
    BY <2>1, <2>2 DEF Window
<1>3. 0 \in 0..6
  OBVIOUS
<1>4. w.den # 0 /\ w.days # {} => n = w
  BY <1>1, <1>2 DEF Window, FirstNonZero
<1> QED
  BY <1>1, <1>2, <1>3, <1>4

LEMMA NormalizedIsKept ==
  ASSUME NEW model, DOMAIN model = Fields, WellFormed(model), Storable(Normalized(model))
  PROVE  DOMAIN Normalized(model) = Fields /\ Kept(Normalized(model))
<1> DEFINE n == Normalized(model)
<1>1. /\ DOMAIN n = Fields /\ n["exact"] = ExactRates(model) /\ n["legacy"] = ExactRates(model)
      /\ n["accounting"] = (IF model["accounting"] = "" THEN DefaultAccounting(model["family"]) ELSE model["accounting"])
      /\ n["windows"] = {NormalizedWindow(w) : w \in model["windows"]}
      /\ \A f \in Fields \ {"exact", "legacy", "accounting", "windows"} : n[f] = model[f]
  BY NormalizedFields
<1>8. Apart(n["tiers"])
  BY DEF Storable
<1> HIDE DEF n
<1>2. ExactRates(model) \in Rates
  <2>1. model["exact"] \in Rates /\ model["legacy"] \in Rates
    BY PartsAre DEF WellFormed
  <2>2. model.exact = model["exact"] /\ model.legacy = model["legacy"]
    OBVIOUS
  <2> QED
    BY <2>1, <2>2 DEF ExactRates, Rates, FirstNonZero
<1>3. IsFiniteSet(model["windows"]) /\ model["windows"] \subseteq Window
  BY PartsAre DEF WellFormed
<1>4. /\ IsFiniteSet(n["windows"]) /\ n["windows"] \subseteq Window
      /\ \A w \in n["windows"] : w.den # 0 /\ w.days # {}
  <2> DEFINE f == [w \in model["windows"] |-> NormalizedWindow(w)]
  <2>1. f \in Surjection(model["windows"], n["windows"])
    BY <1>1 DEF Surjection
  <2>2. IsFiniteSet(n["windows"])
    BY <1>3, <2>1, FS_Surjection
  <2> QED
    BY <1>1, <1>3, <2>2, WindowsKept
<1>5. n["accounting"] # ""
  BY <1>1 DEF DefaultAccounting
<1>6. WellFormed(n)
  <2> SUFFICES ASSUME NEW f \in Fields
               PROVE  /\ f \in {"exact", "legacy"} => n[f] \in Rates
                      /\ f \in {"context", "maxOutput"} => n[f] \in Nat
                      /\ f \in {"tiers", "windows"} => IsFiniteSet(n[f])
                      /\ f = "tiers" => n[f] \subseteq [above : Nat, rates : Rates]
                      /\ f = "ttl" => n[f] \subseteq [above : Nat \cup {Base}, class : TokenClasses, rate : Nat]
                      /\ f = "windows" => n[f] \subseteq Window
    BY <1>1 DEF WellFormed
  <2>1. CASE f \in {"exact", "legacy", "windows", "accounting"}
    BY <1>1, <1>2, <1>4, <2>1
  <2>2. CASE f \notin {"exact", "legacy", "windows", "accounting"}
    <3>1. n[f] = model[f]
      BY <1>1, <2>2
    <3> QED
      BY <2>2, <3>1 DEF WellFormed
  <2> QED
    BY <2>1, <2>2
<1>7. Kept(n)
  BY <1>1, <1>4, <1>5, <1>6, <1>8, PartsAre DEF Kept
<1> QED
  BY <1>1, <1>7 DEF n

(* What a body does not touch survives the merge and the normalization.    *)
LEMMA MergeKeepsTheRest ==
  ASSUME NEW model, DOMAIN model = Fields, Kept(model), NEW body, WellFormed(body),
         NEW f \in Fields \ Touched(body)
  PROVE  Normalized(Merged(model, body))[f] = model[f]
<1> DEFINE m == Merged(model, body)
           n == Normalized(m)
<1>1. DOMAIN m = Fields /\ \A g \in Fields : m[g] = IF g \in DOMAIN body THEN body[g] ELSE model[g]
  BY DEF WellFormed, Merged, Overlaid
<1> HIDE DEF m
<1>2. /\ n["exact"] = ExactRates(m) /\ n["legacy"] = ExactRates(m)
      /\ n["accounting"] = (IF m["accounting"] = "" THEN DefaultAccounting(m["family"]) ELSE m["accounting"])
      /\ n["windows"] = {NormalizedWindow(w) : w \in m["windows"]}
      /\ \A g \in Fields \ {"exact", "legacy", "accounting", "windows"} : n[g] = m[g]
  BY <1>1, NormalizedFields
<1> HIDE DEF n
<1>3. f \notin DOMAIN body /\ m[f] = model[f]
  BY <1>1 DEF Touched
<1>4. ASSUME f \in {"exact", "legacy"} PROVE n[f] = model[f]
  <2>1. "exact" \notin DOMAIN body /\ "legacy" \notin DOMAIN body
    BY <1>4 DEF Touched
  <2>2. m["exact"] = model["exact"] /\ m["legacy"] = model["exact"] /\ model["exact"] \in Rates /\ model["legacy"] = model["exact"]
    BY <1>1, <2>1, PartsAre DEF Kept, WellFormed
  <2>3. m.exact = model["exact"] /\ m.legacy = model["exact"]
    BY <2>2
  <2>4. ExactRates(m) = model["exact"]
    BY <2>2, <2>3 DEF ExactRates, FirstNonZero, Rates
  <2> QED
    BY <1>2, <1>4, <2>2, <2>4
<1>5. ASSUME f = "accounting" PROVE n[f] = model[f]
  BY <1>2, <1>3, <1>5, PartsAre DEF Kept
<1>6. ASSUME f = "windows" PROVE n[f] = model[f]
  <2>1. model["windows"] \subseteq Window /\ \A w \in model["windows"] : w.den # 0 /\ w.days # {}
    BY <1>6, PartsAre DEF Kept, WellFormed
  <2>2. \A w \in model["windows"] : NormalizedWindow(w) = w
    BY <2>1, WindowsKept
  <2>3. n["windows"] = model["windows"]
    <3> DEFINE S == model["windows"]
    <3>1. m["windows"] = S /\ n["windows"] = {NormalizedWindow(w) : w \in m["windows"]}
      BY <1>2, <1>3, <1>6
    <3>2. \A w \in S : NormalizedWindow(w) = w
      BY <2>2
    <3> HIDE DEF S
    <3>3. {NormalizedWindow(w) : w \in S} = S
      BY <3>2
    <3>4. n["windows"] = S
      BY <3>1, <3>3
    <3> QED
      BY <3>4 DEF S
  <2> QED
    BY <1>3, <1>6, <2>3
<1>7. ASSUME f \notin {"exact", "legacy", "accounting", "windows"} PROVE n[f] = model[f]
  BY <1>2, <1>3, <1>7
<1> QED
  BY <1>4, <1>5, <1>6, <1>7 DEF m, n

(* What a reader holds: the parts it has queried, each as it was saved.    *)
LoadedInv(r) ==
  /\ loading[r].parts \in 0..5
  /\ Kept(loading[r].model)
  /\ \A i \in 1..loading[r].parts : Parts[i] \subseteq DOMAIN loading[r].model

(* An admin whose PUT no save has overtaken holds the saved model.         *)
EditInv(a) ==
  /\ patch[a] \in Patches \cup {NoBody}
  /\ begun[a] \in Nat /\ begun[a] <= edits
  /\ patch[a] = NoBody => loading[a] = Nothing
  /\ patch[a] # NoBody /\ begun[a] = edits =>
       \A f \in DOMAIN loading[a].model : loading[a].model[f] = saved[f]

CatalogueInv ==
  /\ edits \in Nat
  /\ DOMAIN saved = Fields /\ Kept(saved)
  /\ DOMAIN loading = Readers /\ DOMAIN patch = Admins /\ DOMAIN begun = Admins
  /\ \A r \in Readers : LoadedInv(r)
  /\ \A a \in Admins : EditInv(a)

LEMMA NothingIsLoaded ==
  /\ Nothing.parts = 0 /\ DOMAIN Nothing.model = {} /\ Kept(Nothing.model)
  /\ \A i \in 1..Nothing.parts : Parts[i] \subseteq DOMAIN Nothing.model
<1>1. Nothing.parts = 0 /\ Nothing.model = <<>> /\ DOMAIN <<>> = {}
  BY DEF Nothing
<1>2. Kept(Nothing.model)
  BY <1>1 DEF Kept, WellFormed
<1>3. 1..0 = {}
  OBVIOUS
<1> QED
  BY <1>1, <1>2, <1>3

LEMMA FirstModelIsKept ==
  ASSUME NEW model \in FirstModels
  PROVE  DOMAIN model = Fields /\ Kept(model)
BY FirstModelsAssumption, CatalogueAssumption, NormalizedIsKept

LEMMA InitCatalogueInv == CatalogueInit => CatalogueInv
<1> SUFFICES ASSUME CatalogueInit PROVE CatalogueInv
  OBVIOUS
<1>1. DOMAIN saved = Fields /\ Kept(saved)
  BY FirstModelIsKept DEF CatalogueInit
<1>2. \A r \in Readers : LoadedInv(r)
  BY NothingIsLoaded DEF CatalogueInit, LoadedInv
<1>3. \A a \in Admins : EditInv(a)
  BY NothingIsLoaded DEF CatalogueInit, EditInv, Readers
<1> QED
  BY <1>1, <1>2, <1>3 DEF CatalogueInv, CatalogueInit

LEMMA WholeModel ==
  ASSUME CatalogueInv, NEW r \in Readers, Loaded(r)
  PROVE  DOMAIN loading[r].model = Fields /\ Kept(loading[r].model)
<1>1. LoadedInv(r) /\ loading[r].parts = 5
  BY PartsAre DEF CatalogueInv, Loaded
<1>2. {1, 2, 3, 4, 5} \subseteq 1..loading[r].parts
  BY <1>1
<1>3. Fields = Parts[1] \cup Parts[2] \cup Parts[3] \cup Parts[4] \cup Parts[5]
  BY PartsAre
<1> QED
  BY <1>1, <1>2, <1>3 DEF LoadedInv, Kept, WellFormed

(* A query adds a part of the saved model to what its reader holds.        *)
LEMMA QueryStep ==
  ASSUME CatalogueInv, NEW r \in Readers, Query(r), r \in Admins => patch[r] # NoBody
  PROVE  CatalogueInv'
<1> DEFINE part == loading[r].parts + 1
           old == loading[r].model
           new == Overlaid([f \in Parts[part] |-> saved[f]], old)
<1>1. /\ loading' = [loading EXCEPT ![r] = [model |-> new, parts |-> part]]
      /\ UNCHANGED <<saved, edits, patch, begun>>
      /\ loading[r].parts # 5
  BY PartsAre DEF Query, Loaded
<1>2. LoadedInv(r) /\ DOMAIN loading = Readers /\ DOMAIN saved = Fields /\ Kept(saved)
  BY DEF CatalogueInv
<1>3. part \in 1..5 /\ Parts[part] \subseteq Fields
  BY <1>1, <1>2, PartsAre DEF LoadedInv, Fields
<1>4. /\ DOMAIN new = Parts[part] \cup DOMAIN old
      /\ \A f \in DOMAIN new : new[f] = IF f \in Parts[part] THEN saved[f] ELSE old[f]
  BY DEF Overlaid
<1>5. /\ loading'[r].parts = part /\ loading'[r].model = new
      /\ \A q \in Readers \ {r} : loading'[q] = loading[q]
      /\ DOMAIN loading' = Readers
  BY <1>1, <1>2
<1>6. Kept(new)
  <2>1. Kept(old) /\ DOMAIN old \subseteq Fields
    BY <1>2 DEF LoadedInv, Kept, WellFormed
  <2>2. DOMAIN new \subseteq Fields
    BY <1>3, <1>4, <2>1
  <2>3. WellFormed(new)
    <3>1. \A f \in DOMAIN new : \/ new[f] = saved[f] /\ f \in DOMAIN saved
                                \/ new[f] = old[f] /\ f \in DOMAIN old
      BY <1>2, <1>3, <1>4
    <3> QED
      BY <1>2, <2>1, <2>2, <3>1 DEF Kept, WellFormed
  <2>4. "exact" \in DOMAIN new => "legacy" \in DOMAIN new /\ new["exact"] = new["legacy"]
    <3>1. "exact" \in Parts[part] <=> "legacy" \in Parts[part]
      BY <1>3, PartsAre
    <3>2. saved["exact"] = saved["legacy"]
      BY <1>2, PartsAre DEF Kept
    <3> QED
      BY <1>4, <2>1, <3>1, <3>2 DEF Kept
  <2>5. "accounting" \in DOMAIN new => new["accounting"] # ""
    BY <1>2, <1>4, <2>1, PartsAre DEF Kept
  <2>6. "windows" \in DOMAIN new => \A w \in new["windows"] : w.den # 0 /\ w.days # {}
    BY <1>2, <1>4, <2>1, PartsAre DEF Kept
  <2>7. "tiers" \in DOMAIN new => Apart(new["tiers"])
    BY <1>2, <1>4, <2>1, PartsAre DEF Kept
  <2> QED
    BY <2>3, <2>4, <2>5, <2>6, <2>7 DEF Kept
<1>7. LoadedInv(r)'
  <2>1. \A i \in 1..part : i = part \/ i \in 1..loading[r].parts
    BY <1>2, <1>3 DEF LoadedInv
  <2>2. \A i \in 1..part : Parts[i] \subseteq DOMAIN new
    BY <1>2, <1>4, <2>1 DEF LoadedInv
  <2> HIDE DEF new, part
  <2> QED
    BY <1>3, <1>5, <1>6, <2>2 DEF LoadedInv
<1>8. ASSUME NEW q \in Readers PROVE LoadedInv(q)'
  <2>1. CASE q # r
    BY <1>5, <2>1 DEF CatalogueInv, LoadedInv
  <2> QED
    BY <1>7, <2>1
<1>9. ASSUME NEW a \in Admins PROVE EditInv(a)'
  <2>1. EditInv(a) /\ a \in Readers
    BY DEF CatalogueInv, Readers
  <2>2. CASE a # r
    BY <1>1, <1>5, <2>1, <2>2 DEF EditInv
  <2>3. CASE a = r
    <3>1. patch[a] # NoBody /\ patch'[a] # NoBody
      BY <1>1, <2>3
    <3>2. begun[a] = edits => \A f \in DOMAIN new : new[f] = saved[f]
      BY <1>4, <2>1, <2>3, <3>1 DEF EditInv
    <3> HIDE DEF new
    <3> QED
      BY <1>1, <1>5, <2>1, <2>3, <3>1, <3>2 DEF EditInv
  <2> QED
    BY <2>2, <2>3
<1> QED
  BY <1>1, <1>5, <1>8, <1>9 DEF CatalogueInv

LEMMA BeginEditStep ==
  ASSUME CatalogueInv, NEW a \in Admins, NEW body \in Patches, BeginEdit(a, body)
  PROVE  CatalogueInv'
<1>1. /\ patch[a] = NoBody /\ patch' = [patch EXCEPT ![a] = body] /\ begun' = [begun EXCEPT ![a] = edits]
      /\ UNCHANGED <<saved, edits, loading>>
  BY DEF BeginEdit
<1>2. ASSUME NEW b \in Admins PROVE EditInv(b)'
  <2>1. EditInv(b)
    BY DEF CatalogueInv
  <2>2. CASE b # a
    <3>1. patch'[b] = patch[b] /\ begun'[b] = begun[b]
      BY <1>1, <2>2 DEF CatalogueInv
    <3> QED
      BY <1>1, <2>1, <3>1 DEF EditInv
  <2>3. CASE b = a
    <3>1. patch'[b] = body /\ begun'[b] = edits /\ loading[b] = Nothing /\ edits \in Nat
      BY <1>1, <2>1, <2>3 DEF CatalogueInv, EditInv
    <3> QED
      BY <1>1, <3>1, NothingIsLoaded DEF EditInv
  <2> QED
    BY <2>2, <2>3
<1>3. \A r \in Readers : LoadedInv(r)'
  BY <1>1 DEF CatalogueInv, LoadedInv
<1> QED
  BY <1>1, <1>2, <1>3 DEF CatalogueInv

(* A PUT ends, saved or not.                                               *)
LEMMA FinishStep ==
  ASSUME CatalogueInv, NEW a \in Admins, Finish(a), edits' \in Nat,
         DOMAIN saved' = Fields, Kept(saved'),
         (edits' = edits /\ saved' = saved) \/ edits' > edits
  PROVE  CatalogueInv'
<1>1. /\ patch' = [patch EXCEPT ![a] = NoBody] /\ begun' = [begun EXCEPT ![a] = 0]
      /\ loading' = [loading EXCEPT ![a] = Nothing]
  BY DEF Finish
<1>2. a \in Readers /\ DOMAIN loading = Readers /\ DOMAIN patch = Admins /\ DOMAIN begun = Admins /\ edits \in Nat
  BY DEF CatalogueInv, Readers
<1>3. ASSUME NEW r \in Readers PROVE LoadedInv(r)'
  <2>1. loading'[r] = IF r = a THEN Nothing ELSE loading[r]
    BY <1>1, <1>2
  <2> QED
    BY <2>1, NothingIsLoaded DEF CatalogueInv, LoadedInv
<1>4. ASSUME NEW b \in Admins PROVE EditInv(b)'
  <2>1. EditInv(b) /\ b \in Readers
    BY DEF CatalogueInv, Readers
  <2>2. CASE b = a
    <3>1. patch'[b] = NoBody /\ begun'[b] = 0 /\ loading'[b] = Nothing
      BY <1>1, <1>2, <2>2
    <3> QED
      BY <3>1 DEF EditInv
  <2>3. CASE b # a
    <3>1. patch'[b] = patch[b] /\ begun'[b] = begun[b] /\ loading'[b] = loading[b]
      BY <1>1, <1>2, <2>1, <2>3
    <3>2. CASE edits' = edits /\ saved' = saved
      BY <2>1, <3>1, <3>2 DEF EditInv
    <3>3. CASE edits' > edits
      <4>1. begun[b] \in Nat /\ begun[b] <= edits /\ begun[b] < edits'
        BY <1>2, <2>1, <3>3 DEF EditInv
      <4> QED
        BY <2>1, <3>1, <4>1 DEF EditInv
    <3> QED
      BY <3>2, <3>3
  <2> QED
    BY <2>2, <2>3
<1> QED
  BY <1>1, <1>2, <1>3, <1>4 DEF CatalogueInv

LEMMA UpdateModelStep ==
  ASSUME CatalogueInv, NEW a \in Admins, UpdateModel(a)
  PROVE  CatalogueInv'
<1> DEFINE merged == Merged(loading[a].model, patch[a])
           model == Normalized(merged)
<1>1. patch[a] # NoBody /\ Loaded(a) /\ Finish(a)
  BY DEF UpdateModel
<1>2. \/ saved' = model /\ edits' = edits + 1 /\ Storable(model)
      \/ UNCHANGED <<saved, edits>>
  BY DEF UpdateModel
<1>3. /\ DOMAIN loading[a].model = Fields /\ WellFormed(loading[a].model)
      /\ WellFormed(patch[a]) /\ DOMAIN patch[a] \subseteq Fields
  <2>1. patch[a] \in Patches
    BY <1>1 DEF CatalogueInv, EditInv
  <2> QED
    BY <1>1, <2>1, WholeModel, CatalogueAssumption DEF Kept, WellFormed, Readers
<1>4. DOMAIN merged = Fields /\ WellFormed(merged)
  BY <1>3 DEF Merged, Overlaid, WellFormed
<1>5. Storable(model) => DOMAIN model = Fields /\ Kept(model)
  BY <1>4, NormalizedIsKept
<1> HIDE DEF model
<1>6. edits \in Nat /\ DOMAIN saved = Fields /\ Kept(saved)
  BY DEF CatalogueInv
<1>7. CASE saved' = model /\ edits' = edits + 1 /\ Storable(model)
  BY <1>1, <1>5, <1>6, <1>7, FinishStep
<1>8. CASE UNCHANGED <<saved, edits>>
  BY <1>1, <1>6, <1>8, FinishStep
<1> QED
  BY <1>2, <1>7, <1>8

LEMMA CatalogueSteps ==
  ASSUME CatalogueInv, CatalogueNext
  PROVE  CatalogueInv'
<1> SUFFICES ASSUME NEW a \in Admins, EditNext(a) PROVE CatalogueInv'
  BY DEF CatalogueNext
<1>1. CASE patch[a] # NoBody /\ Query(a)
  BY <1>1, QueryStep DEF Readers
<1>2. CASE EditFails(a)
  BY <1>2, FinishStep DEF EditFails, CatalogueInv
<1> QED
  BY <1>1, <1>2, BeginEditStep, UpdateModelStep DEF EditNext

LEMMA CatalogueStutters ==
  ASSUME CatalogueInv, UNCHANGED catalogueVars
  PROVE  CatalogueInv'
BY DEF CatalogueInv, catalogueVars, LoadedInv, EditInv

-----------------------------------------------------------------------------
(* Requests *)

LEMMA MaxOfTwo ==
  ASSUME NEW a \in Int, NEW b \in Int
  PROVE  Max({a, b}) = IF a >= b THEN a ELSE b
<1>1. \A x \in {a, b} : (\A y \in {a, b} : x >= y) => x = IF a >= b THEN a ELSE b
  OBVIOUS
<1>2. \E x \in {a, b} : \A y \in {a, b} : x >= y
  OBVIOUS
<1> QED
  BY <1>1, <1>2 DEF Max

LEMMA RulesAreRuled ==
  ASSUME NEW model, DOMAIN model = Fields, Kept(model)
  PROVE  Ruled(Rules(model)) /\ Apart(Rules(model).tiers)
<1> DEFINE rules == Rules(model)
<1>1. /\ model.exact \in Rates
      /\ IsFiniteSet(model.tiers) /\ model.tiers \subseteq [above : Nat, rates : Rates]
      /\ model.ttl \subseteq [above : Nat \cup {Base}, class : TokenClasses, rate : Nat]
      /\ IsFiniteSet(model.windows) /\ model.windows \subseteq Window
      /\ \A w \in model.windows : w.den # 0
  BY PartsAre DEF Kept, WellFormed
<1>2. ASSUME NEW rates \in Rates, NEW above PROVE Overlay(rates, model.ttl, above) \in Rates
  <2> DEFINE own(c) == {t \in model.ttl : t.above = above /\ t.class = c}
  <2>1. \A c \in TokenClasses : own(c) # {} => (CHOOSE t \in own(c) : TRUE) \in model.ttl
    OBVIOUS
  <2>2. \A c \in TokenClasses : own(c) # {} => (CHOOSE t \in own(c) : TRUE).rate \in Nat
    BY <1>1, <2>1
  <2>3. Overlay(rates, model.ttl, above) =
          [c \in TokenClasses |-> IF own(c) = {} THEN rates[c] ELSE (CHOOSE t \in own(c) : TRUE).rate]
    BY DEF Overlay
  <2> HIDE DEF own
  <2> QED
    BY <2>2, <2>3 DEF Rates
<1>3. rules.base \in Rates
  BY <1>1, <1>2 DEF Rules
<1>4. IsFiniteSet(rules.tiers) /\ rules.tiers \subseteq [above : Nat, rates : Rates]
  <2> DEFINE f == [t \in model.tiers |-> [t EXCEPT !.rates = Overlay(@, model.ttl, t.above)]]
  <2>1. rules.tiers = {f[t] : t \in model.tiers}
    BY DEF Rules
  <2>2. f \in Surjection(model.tiers, rules.tiers)
    BY <2>1 DEF Surjection
  <2>3. \A t \in model.tiers : f[t] \in [above : Nat, rates : Rates]
    BY <1>1, <1>2
  <2> QED
    BY <1>1, <2>1, <2>2, <2>3, FS_Surjection
<1>5. rules.windows = model.windows
  BY DEF Rules
<1>6. \A w \in model.windows : w.den > 0
  BY <1>1 DEF Window
<1>7. Apart(rules.tiers)
  <2> DEFINE f(t) == [t EXCEPT !.rates = Overlay(@, model.ttl, t.above)]
  <2>1. rules.tiers = {f(t) : t \in model.tiers}
    BY DEF Rules
  <2>2. \A t \in model.tiers : f(t).above = t.above
    BY <1>1
  <2>3. Apart(model.tiers)
    BY PartsAre DEF Kept
  <2> HIDE DEF f
  <2> QED
    BY <2>1, <2>2, <2>3 DEF Apart
<1> QED
  BY <1>1, <1>3, <1>4, <1>5, <1>6, <1>7 DEF Ruled

Reduced(r) == r.allowed < r.requested
Refused(r) ==
  \/ Reduced(r) /\ r.allowed < 1
  \/ Reduced(r) /\ r.allowed < VisibleFloor /\ FloorApplies(r.asked, r.model)

(* A request that has been admitted or refused.                            *)
GrantInv ==
  /\ {"phase", "asked", "pin", "model", "rules", "bound", "requested", "allowed", "ceiling",
      "receipt"} \subseteq DOMAIN req
  /\ Ruled(req.rules) /\ req.bound \in Nat /\ req.requested \in Nat \ {0}
  /\ req.allowed = Allowed(req.rules, req.bound, req.requested, req.asked.budget, req.pin)
  /\ req.ceiling = QuoteFor(req.rules, req.bound, req.allowed, req.pin)
  /\ req.phase = "refused" <=> Refused(req)

RequestInv ==
  /\ now \in Nat
  /\ req.phase \in {"none", "loading", "refused", "admitted", "charged"}
  /\ req.phase # "none" => req.asked \in Requests /\ req.pin \in Nat
  /\ req.phase \in {"refused", "admitted", "charged"} => GrantInv
  /\ Charged => req.receipt = Receipt(req)

(* What a list shows of the tiers, and of everything at its instant.       *)
ShownTiers(rules, window) ==
  {[above |-> t.above, rates |-> RatesView(t.rates, window)] : t \in rules.tiers}

ListInv ==
  list.phase = "shown" =>
    /\ list.at \in Nat /\ Ruled(list.rules) /\ Apart(list.rules.tiers)
    /\ list.next = NextBoundaryAfter(list.rules, list.at)
    /\ list.base = RatesView(RatesForPromptTotal(list.rules, 0), WindowFor(list.rules, list.at))
    /\ list.tiers = ShownTiers(list.rules, WindowFor(list.rules, list.at))

PricingInv == CatalogueInv /\ RequestInv /\ ListInv

LEMMA InitPricingInv == PricingInit => PricingInv
BY InitCatalogueInv DEF PricingInit, PricingInv, RequestInv, ListInv, NoList, Charged

LEMMA OutputLimitType ==
  ASSUME NEW asked \in Requests, NEW model, DOMAIN model = Fields, Kept(model)
  PROVE  OutputLimit(asked, model) \in Nat \ {0} /\ InputBound(asked, model) \in Nat
<1>1. model.maxOutput \in Nat /\ model.context \in Nat
  BY PartsAre DEF Kept, WellFormed
<1>2. /\ asked.requested \in Nat /\ asked.serialized + Slack \in Nat /\ asked.estimated \in Nat
      /\ DefaultOutput \in Nat \ {0}
  BY PricingAssumption
<1>3. OutputLimit(asked, model) \in Nat \ {0}
  BY <1>1, <1>2 DEF OutputLimit, FirstNonZero
<1> DEFINE bound == Max({asked.serialized + Slack, asked.estimated})
           window == IF model.context > 0 /\ bound > model.context THEN model.context ELSE bound
<1>4. bound \in Nat
  BY <1>2, MaxOfTwo
<1> HIDE DEF bound
<1>5. window \in Nat
  BY <1>1, <1>4
<1> HIDE DEF window
<1>6. Max({window, 1}) \in Nat
  BY <1>5, MaxOfTwo
<1>7. InputBound(asked, model) = Max({window, 1})
  BY DEF InputBound, window, bound
<1> QED
  BY <1>3, <1>6, <1>7

LEMMA AdmitStep ==
  ASSUME PricingInv, Admit
  PROVE  RequestInv'
<1> DEFINE asked == req.asked
           model == loading[Customer].model
           rules == Rules(model)
           requested == OutputLimit(asked, model)
           bound == InputBound(asked, model)
           allowed == Allowed(rules, bound, requested, asked.budget, req.pin)
           ceiling == QuoteFor(rules, bound, allowed, req.pin)
           reduced == allowed < requested
           refused == \/ reduced /\ allowed < 1
                      \/ reduced /\ allowed < VisibleFloor /\ FloorApplies(asked, model)
           named == asked.client = "anthropic" \/ model.speaks = "anthropic"
           capped == asked.requested > 0 \/ reduced \/ named
<1>1. /\ req.phase = "loading" /\ Loaded(Customer) /\ now' = now
      /\ req' = [phase |-> IF refused THEN "refused" ELSE "admitted",
                 asked |-> asked, pin |-> req.pin, model |-> model, rules |-> rules,
                 bound |-> bound, requested |-> requested, allowed |-> allowed,
                 capped |-> capped, ceiling |-> ceiling, receipt |-> NoReceipt]
  BY DEF Admit
<1>2. asked \in Requests /\ req.pin \in Nat /\ now \in Nat
  BY <1>1 DEF PricingInv, RequestInv
<1>3. DOMAIN model = Fields /\ Kept(model)
  BY <1>1, WholeModel, PricingAssumption DEF PricingInv, Readers
<1>4. Ruled(rules) /\ bound \in Nat /\ requested \in Nat \ {0}
  BY <1>2, <1>3, RulesAreRuled, OutputLimitType
<1> DEFINE verdict == IF refused THEN "refused" ELSE "admitted"
<1>5. verdict \in {"refused", "admitted"} /\ (verdict = "refused" <=> refused)
  OBVIOUS
<1>6. refused <=> \/ reduced /\ allowed < 1
                  \/ reduced /\ allowed < VisibleFloor /\ FloorApplies(asked, model)
  OBVIOUS
<1>7. allowed = Allowed(rules, bound, requested, asked.budget, req.pin) /\ ceiling = QuoteFor(rules, bound, allowed, req.pin)
  OBVIOUS
<1> HIDE DEF verdict, refused, capped, named, allowed, ceiling, rules, bound, requested, model
<1>8. /\ req'.phase = verdict /\ req'.asked = asked /\ req'.pin = req.pin /\ req'.model = model
      /\ req'.rules = rules /\ req'.bound = bound /\ req'.requested = requested
      /\ req'.allowed = allowed /\ req'.ceiling = ceiling
      /\ {"phase", "asked", "pin", "model", "rules", "bound", "requested", "allowed", "ceiling",
          "receipt"} \subseteq DOMAIN req'
  BY <1>1 DEF verdict
<1>9. GrantInv'
  <2>1. req'.phase = "refused" <=> Refused(req')
    BY <1>5, <1>6, <1>8 DEF Refused, Reduced
  <2> QED
    BY <1>4, <1>7, <1>8, <2>1 DEF GrantInv, Refused, Reduced
<1> QED
  BY <1>1, <1>2, <1>5, <1>8, <1>9 DEF RequestInv, Charged

LEMMA SettleStep ==
  ASSUME PricingInv, Settle
  PROVE  RequestInv'
<1>1. /\ req.phase = "admitted" /\ now' = now
      /\ req' = [req EXCEPT !.phase = "charged", !.receipt = Receipt(req)]
  BY DEF Settle
<1>2. GrantInv /\ req.asked \in Requests /\ req.pin \in Nat /\ now \in Nat
  BY <1>1 DEF PricingInv, RequestInv
<1>3. /\ req'.phase = "charged" /\ req'.asked = req.asked /\ req'.pin = req.pin /\ req'.model = req.model
      /\ req'.rules = req.rules /\ req'.bound = req.bound /\ req'.requested = req.requested
      /\ req'.allowed = req.allowed /\ req'.ceiling = req.ceiling /\ req'.receipt = Receipt(req)
      /\ DOMAIN req' = DOMAIN req
  BY <1>1, <1>2 DEF GrantInv
<1>4. Receipt(req') = Receipt(req)
  BY <1>3 DEF Receipt, PricedAt
<1>5. GrantInv'
  BY <1>1, <1>2, <1>3 DEF GrantInv, Refused, Reduced
<1> QED
  BY <1>1, <1>2, <1>3, <1>4, <1>5 DEF RequestInv, Charged

LEMMA RequestStutters ==
  ASSUME RequestInv, UNCHANGED req, now' \in Nat
  PROVE  RequestInv'
BY DEF RequestInv, GrantInv, Charged, Receipt, PricedAt, Refused, Reduced

(* A reader that is not an admin is through with the model.                *)
LEMMA LetGoStep ==
  ASSUME CatalogueInv, NEW r \in Readers \ Admins,
         loading' = [loading EXCEPT ![r] = Nothing], UNCHANGED <<saved, edits, patch, begun>>
  PROVE  CatalogueInv'
<1>1. DOMAIN loading = Readers /\ \A q \in Readers : LoadedInv(q)
  BY DEF CatalogueInv
<1>2. \A q \in Readers : loading'[q] = IF q = r THEN Nothing ELSE loading[q]
  BY <1>1
<1>3. ASSUME NEW q \in Readers PROVE LoadedInv(q)'
  <2>1. CASE q = r
    BY <1>2, <2>1, NothingIsLoaded DEF LoadedInv
  <2>2. CASE q # r
    BY <1>1, <1>2, <2>2 DEF LoadedInv
  <2> QED
    BY <2>1, <2>2
<1>4. ASSUME NEW a \in Admins PROVE EditInv(a)'
  <2>1. EditInv(a) /\ loading'[a] = loading[a]
    BY <1>2 DEF CatalogueInv, Readers
  <2> QED
    BY <2>1 DEF EditInv
<1> QED
  BY <1>1, <1>3, <1>4 DEF CatalogueInv

LEMMA NextCatalogueInv ==
  ASSUME CatalogueInv, [PricingNext]_pricingVars
  PROVE  CatalogueInv'
<1>1. {Customer, Shopper} \subseteq Readers \ Admins
  BY PricingAssumption DEF Readers
<1>2. CASE Query(Customer) \/ Query(Shopper)
  BY <1>1, <1>2, QueryStep
<1>3. CASE Admit
  BY <1>1, <1>3, LetGoStep DEF Admit
<1>4. CASE ShowPrices
  BY <1>1, <1>4, LetGoStep DEF ShowPrices
<1>5. CASE CatalogueNext
  BY <1>5, CatalogueSteps
<1>6. CASE UNCHANGED catalogueVars
  BY <1>6, CatalogueStutters
<1>7. \/ Query(Customer) \/ Query(Shopper) \/ Admit \/ ShowPrices
      \/ CatalogueNext \/ UNCHANGED catalogueVars
  BY DEF PricingNext, pricingVars, Arrive, Settle, Leave, AskPrices, Tick
<1> QED
  BY <1>2, <1>3, <1>4, <1>5, <1>6, <1>7

LEMMA NextRequestInv ==
  ASSUME PricingInv, [PricingNext]_pricingVars
  PROVE  RequestInv'
<1>1. RequestInv /\ now \in Nat
  BY DEF PricingInv, RequestInv
<1>2. ASSUME NEW asked \in Requests, Arrive(asked) PROVE RequestInv'
  BY <1>1, <1>2 DEF Arrive, RequestInv, Charged
<1>3. CASE Admit
  BY <1>3, AdmitStep
<1>4. CASE Settle
  BY <1>4, SettleStep
<1>5. CASE Leave
  BY <1>1, <1>5 DEF Leave, RequestInv, Charged
<1>6. CASE UNCHANGED req /\ (UNCHANGED now \/ Tick)
  <2>1. now' \in Nat
    BY <1>1, <1>6 DEF Tick
  <2> QED
    BY <1>1, <1>6, <2>1, RequestStutters
<1>7. \/ \E asked \in Requests : Arrive(asked)
      \/ Admit \/ Settle \/ Leave
      \/ UNCHANGED req /\ (UNCHANGED now \/ Tick)
  BY DEF PricingNext, pricingVars, AskPrices, ShowPrices, Tick
<1> QED
  BY <1>2, <1>3, <1>4, <1>5, <1>6, <1>7

LEMMA ShowPricesStep ==
  ASSUME PricingInv, ShowPrices
  PROVE  ListInv'
<1> DEFINE rules == Rules(loading[Shopper].model)
           window == WindowFor(rules, now)
           next == NextBoundaryAfter(rules, now)
           base == RatesView(RatesForPromptTotal(rules, 0), window)
           tiers == ShownTiers(rules, window)
<1>1. /\ Loaded(Shopper) /\ now' = now
      /\ list' = [phase |-> "shown", at |-> now, rules |-> rules, next |-> next,
                  base |-> base, tiers |-> tiers]
  BY DEF ShowPrices, ShownTiers
<1>2. now \in Nat
  BY DEF PricingInv, RequestInv
<1>3. Ruled(rules) /\ Apart(rules.tiers)
  BY <1>1, WholeModel, RulesAreRuled, PricingAssumption DEF PricingInv, Readers
<1> HIDE DEF rules
<1>4. /\ list'.phase = "shown" /\ list'.at = now /\ list'.rules = rules /\ list'.next = next
      /\ list'.base = base /\ list'.tiers = tiers
  BY <1>1
<1> QED
  BY <1>2, <1>3, <1>4 DEF ListInv

LEMMA NextListInv ==
  ASSUME PricingInv, [PricingNext]_pricingVars
  PROVE  ListInv'
<1>1. ListInv
  BY DEF PricingInv
<1>2. CASE ShowPrices
  BY <1>2, ShowPricesStep
<1>3. CASE AskPrices
  BY <1>3 DEF AskPrices, ListInv
<1>4. CASE UNCHANGED list
  BY <1>1, <1>4 DEF ListInv
<1>5. ShowPrices \/ AskPrices \/ UNCHANGED list
  BY DEF PricingNext, pricingVars, Arrive, Admit, Settle, Leave, Tick
<1> QED
  BY <1>2, <1>3, <1>4, <1>5

LEMMA PricingInvariant == PricingSpec => []PricingInv
<1>1. PricingInv /\ [PricingNext]_pricingVars => PricingInv'
  BY NextCatalogueInv, NextRequestInv, NextListInv DEF PricingInv
<1> QED
  BY <1>1, InitPricingInv, PTL DEF PricingSpec

-----------------------------------------------------------------------------
(* Edits *)

(* Whatever the queries of a PUT read, and whoever else edits or reads the *)
(* model meanwhile: a save that no other save overtook leaves what its     *)
(* body does not contain, and a PUT that was not saved leaves everything   *)
(* (handleModels, UpdateModel).                                            *)
THEOREM OvertakenByNoneKeepsTheRest == PricingSpec => EditsKeepTheRest
<1> DEFINE Keeps == \A a \in Admins : Ended(a) =>
                      IF AnsweredSaved(a)
                      THEN begun[a] = edits =>
                             \A f \in Fields \ Touched(patch[a]) : saved'[f] = saved[f]
                      ELSE saved' = saved
<1>1. ASSUME CatalogueInv, [PricingNext]_pricingVars PROVE [Keeps]_catalogueVars
  <2> SUFFICES ASSUME NEW a \in Admins, Ended(a)
               PROVE  IF AnsweredSaved(a)
                      THEN begun[a] = edits =>
                             \A f \in Fields \ Touched(patch[a]) : saved'[f] = saved[f]
                      ELSE saved' = saved
    OBVIOUS
  <2>1. edits \in Nat /\ DOMAIN patch = Admins /\ EditInv(a) /\ patch[a] \in Patches
    BY <1>1 DEF CatalogueInv, EditInv, Ended
  <2>2. patch[a] # NoBody /\ patch'[a] = NoBody /\ patch' # patch
    BY DEF Ended
  <2>3. CatalogueNext
    BY <1>1, <2>2 DEF PricingNext, pricingVars, catalogueVars, Arrive, Admit, Settle, Leave,
                      AskPrices, ShowPrices, Tick, Query
  <2>4. PICK b \in Admins : EditNext(b)
    BY <2>3 DEF CatalogueNext
  <2>5. ASSUME NEW body \in Patches, BeginEdit(b, body) PROVE FALSE
    <3>1. patch[b] = NoBody /\ patch' = [patch EXCEPT ![b] = body]
      BY <2>5 DEF BeginEdit
    <3> QED
      BY <2>1, <2>2, <3>1
  <2>6. UpdateModel(b) \/ EditFails(b)
    BY <2>2, <2>4, <2>5 DEF EditNext, Query
  <2>7. a = b
    BY <2>1, <2>2, <2>6 DEF UpdateModel, EditFails, Finish
  <2>8. CASE EditFails(a)
    BY <2>1, <2>8 DEF EditFails, AnsweredSaved
  <2>9. CASE UpdateModel(a)
    <3> DEFINE model == Normalized(Merged(loading[a].model, patch[a]))
    <3>1. Loaded(a) /\ ((saved' = model /\ edits' = edits + 1) \/ UNCHANGED <<saved, edits>>)
      BY <2>9 DEF UpdateModel
    <3>2. CASE UNCHANGED <<saved, edits>>
      BY <2>1, <3>2 DEF AnsweredSaved
    <3>3. CASE saved' = model /\ edits' = edits + 1
      <4> SUFFICES ASSUME begun[a] = edits, NEW f \in Fields \ Touched(patch[a])
                   PROVE  saved'[f] = saved[f]
        BY <2>1, <2>2, <3>3 DEF AnsweredSaved, Ended
      <4>1. DOMAIN loading[a].model = Fields /\ Kept(loading[a].model) /\ WellFormed(patch[a])
        BY <1>1, <2>1, <3>1, WholeModel, CatalogueAssumption DEF Readers
      <4>2. model[f] = loading[a].model[f]
        BY <4>1, MergeKeepsTheRest
      <4>3. loading[a].model[f] = saved[f]
        BY <2>1, <2>2, <4>1 DEF EditInv
      <4> QED
        BY <3>3, <4>2, <4>3
    <3> QED
      BY <3>1, <3>2, <3>3
  <2> QED
    BY <2>6, <2>7, <2>8, <2>9
<1>2. PricingInv => CatalogueInv
  BY DEF PricingInv
<1> HIDE DEF Keeps
<1>3. PricingSpec => [][Keeps]_catalogueVars
  BY <1>1, <1>2, PricingInvariant, PTL DEF PricingSpec
<1> QED
  BY <1>3 DEF EditsKeepTheRest, Keeps

-----------------------------------------------------------------------------
(* Charges *)

(* For every catalogue and every sequence of edits, reads and requests: a  *)
(* charged request whose model keeps the accounting of its upstream is     *)
(* billed for the tokens its reply told of, each of them once, on every    *)
(* route between the two dialects, streamed or whole; where the route      *)
(* hears of them all, for all that were generated (NormalizeUsage,         *)
(* anthropicReportedUsage, TranslateOpenAIChunkToAnthropic).               *)
THEOREM TokensAreBilledOnce == PricingSpec => []BilledAsServed
<1>1. ASSUME RequestInv PROVE BilledAsServed
  <2> DEFINE used == req.asked
             speaks == req.model.speaks
             target == req.model.target
             usage == req.receipt.usage
             translated == Translated(used, speaks)
             unheard == /\ used.client = "anthropic" /\ speaks = "anthropic"
                        /\ used.stream /\ "late" \notin used.tells
  <2> SUFFICES
        ASSUME Charged, req.model.accounting = UpstreamsAccounting(speaks)
        PROVE  /\ usage.total = Sum(usage.tokens, Prompt) /\ ~usage.anomaly
               /\ usage.total <= PromptOf(used) /\ usage.tokens["output"] <= used.output
               /\ Sum(usage.tokens, Reads) <= used.read /\ Sum(usage.tokens, Writes) <= Written(used)
               /\ ~translated \/ "early" \in used.tells =>
                    /\ usage.total = IF unheard THEN used.fresh + used.read ELSE PromptOf(used)
                    /\ usage.tokens["output"] = used.output
                    /\ Sum(usage.tokens, Reads) = IF translated \/ speaks = "anthropic" THEN used.read
                                                  ELSE CacheReadTokensFor(used, target)
                    /\ ~translated /\ ~unheard => Sum(usage.tokens, Writes) = Written(used)
    BY DEF BilledAsServed
  <2>1. used \in Requests /\ req.receipt = Receipt(req)
    BY <1>1 DEF RequestInv, Charged
  <2>2. Generation(used)
    BY <2>1, PricingAssumption DEF Generation
  <2>3. usage = NormalizeUsage(Reported(used, speaks, target), UpstreamsAccounting(speaks))
    BY <2>1 DEF Receipt
  <2> HIDE DEF used, speaks, target, usage
  <2>4. /\ usage.total = Sum(usage.tokens, Prompt) /\ ~usage.anomaly
        /\ usage.total = IF Lost(used, speaks) THEN 0
                         ELSE IF Unheard(used, speaks) THEN used.fresh + used.read ELSE PromptOf(used)
        /\ usage.tokens["output"] = IF Lost(used, speaks) THEN 0 ELSE used.output
        /\ Sum(usage.tokens, Reads) = ReadsTold(used, speaks, target)
        /\ Sum(usage.tokens, Writes) = WritesTold(used, speaks)
    BY <2>2, <2>3, UsageAsServed, Zenon
  <2>5. /\ ReadsTold(used, speaks, target) <= used.read /\ WritesTold(used, speaks) <= Written(used)
        /\ used.fresh \in Nat /\ used.read \in Nat /\ Written(used) \in Nat /\ used.output \in Nat
        /\ PromptOf(used) = used.fresh + used.read + Written(used)
    <3>1. ReadsTold(used, speaks, target) \in 0..used.read /\ WritesTold(used, speaks) \in 0..Written(used)
      BY <2>2, ReportedUsage
    <3> QED
      BY <2>2, <3>1 DEF Generation, Written, PromptOf
  <2>6. /\ Lost(used, speaks) <=> translated /\ "early" \notin used.tells
        /\ Unheard(used, speaks) <=> unheard
        /\ ~Lost(used, speaks) =>
             ReadsTold(used, speaks, target) = IF translated \/ speaks = "anthropic" THEN used.read
                                               ELSE CacheReadTokensFor(used, target)
        /\ ~translated /\ ~unheard => WritesTold(used, speaks) = Written(used)
    BY DEF Lost, Unheard, ReadsTold, WritesTold
  <2> HIDE DEF translated, unheard
  <2> QED
    BY <2>4, <2>5, <2>6
<1>2. PricingInv => BilledAsServed
  BY <1>1 DEF PricingInv
<1> QED
  BY <1>2, PricingInvariant, PTL

(* The classes of S there are tokens of.                                   *)
Billed(tokens, S) == {c \in S : tokens[c] > 0}

(* The lines of S are charged no more than all their tokens would be in    *)
(* one line at K for Q tokens, but for the rounding of each further line.  *)
Within(lines, tokens, K, Q, S) ==
  LET billed == Billed(tokens, S) IN
  /\ IsFiniteSet(billed)
  /\ Sum(tokens, S) \in Nat /\ Sum(lines, S) \in Nat
  /\ billed = {} => Sum(tokens, S) = 0
  /\ Sum(lines, S) <= CeilQuotient(Sum(tokens, S) * K, Q)
                        + (IF billed = {} THEN 0 ELSE Cardinality(billed) - 1)

LEMMA OneMoreLine ==
  ASSUME NEW lines \in [TokenClasses -> Nat], NEW tokens \in [TokenClasses -> Nat],
         NEW K \in Nat, NEW Q \in Nat \ {0}, NEW S, NEW c \in TokenClasses, c \notin S,
         Within(lines, tokens, K, Q, S), lines[c] <= CeilQuotient(tokens[c] * K, Q)
  PROVE  Within(lines, tokens, K, Q, S \cup {c})
<1> DEFINE P == Billed(tokens, S)
           R == Billed(tokens, S \cup {c})
           T == Sum(tokens, S)
           L == Sum(lines, S)
<1>1. /\ IsFiniteSet(P) /\ T \in Nat /\ L \in Nat /\ (P = {} => T = 0)
      /\ L <= CeilQuotient(T * K, Q) + (IF P = {} THEN 0 ELSE Cardinality(P) - 1)
  BY DEF Within
<1>2. Sum(tokens, S \cup {c}) = T + tokens[c] /\ Sum(lines, S \cup {c}) = L + lines[c]
  BY SumAdd
<1>3. R = IF tokens[c] > 0 THEN P \cup {c} ELSE P
  BY DEF Billed
<1>4. c \notin P
  BY DEF Billed
<1> HIDE DEF P, R, T, L
<1>5. tokens[c] \in Nat /\ lines[c] \in Nat
  OBVIOUS
<1>6. T * K \in Nat /\ tokens[c] * K \in Nat /\ (T + tokens[c]) * K = T * K + tokens[c] * K
  BY <1>1, <1>5
<1>7. /\ CeilQuotient(T * K, Q) \in Nat
      /\ CeilQuotient(tokens[c] * K, Q) \in Nat
      /\ CeilQuotient((T + tokens[c]) * K, Q) \in Nat
      /\ CeilQuotient(T * K, Q) + CeilQuotient(tokens[c] * K, Q)
           <= CeilQuotient((T + tokens[c]) * K, Q) + 1
  <2>1. T * K + tokens[c] * K \in Nat
    BY <1>6
  <2> QED
    BY <1>6, <2>1, CeilBounds, CeilOfSum
<1>8. CASE tokens[c] = 0
  <2>1. CeilQuotient(tokens[c] * K, Q) = 0
    BY <1>8, CeilOfNone, 0 * K = 0
  <2>2. lines[c] = 0 /\ R = P /\ T + tokens[c] = T
    BY <1>1, <1>3, <1>5, <1>8, <2>1
  <2>3. Billed(tokens, S \cup {c}) = P /\ Sum(tokens, S \cup {c}) = T /\ Sum(lines, S \cup {c}) = L
    BY <1>1, <1>2, <2>2 DEF R
  <2> QED
    BY <1>1, <2>3, Zenon DEF Within
<1>9. CASE tokens[c] > 0
  <2>1. R = P \cup {c} /\ IsFiniteSet(R) /\ Cardinality(R) = Cardinality(P) + 1 /\ Cardinality(P) \in Nat /\ R # {}
    BY <1>1, <1>3, <1>4, <1>9, FS_AddElement, FS_CardinalityType
  <2>2. L + lines[c] <= CeilQuotient((T + tokens[c]) * K, Q) + Cardinality(R) - 1
    <3>1. CASE P = {}
      <4>1. T = 0 /\ Cardinality(P) = 0 /\ CeilQuotient(T * K, Q) = 0
        BY <1>1, <3>1, CeilOfNone, FS_EmptySet, 0 * K = 0
      <4>2. L = 0 /\ T + tokens[c] = tokens[c]
        BY <1>1, <1>5, <3>1, <4>1
      <4> QED
        BY <1>5, <1>7, <2>1, <4>1, <4>2
    <3>2. CASE P # {}
      BY <1>1, <1>5, <1>7, <2>1, <3>2
    <3> QED
      BY <3>1, <3>2
  <2>3. T + tokens[c] \in Nat /\ L + lines[c] \in Nat
    BY <1>1, <1>5
  <2>4. /\ Sum(tokens, S \cup {c}) \in Nat /\ Sum(lines, S \cup {c}) \in Nat
        /\ Sum(lines, S \cup {c}) <= CeilQuotient(Sum(tokens, S \cup {c}) * K, Q) + (Cardinality(R) - 1)
    <3>1. CeilQuotient((T + tokens[c]) * K, Q) + Cardinality(R) - 1
            = CeilQuotient((T + tokens[c]) * K, Q) + (Cardinality(R) - 1)
      BY <1>7, <2>1
    <3> QED
      BY <1>2, <2>2, <2>3, <3>1
  <2>5. R = Billed(tokens, S \cup {c})
    BY DEF R
  <2>6. (IF R = {} THEN 0 ELSE Cardinality(R) - 1) = Cardinality(R) - 1
    BY <2>1
  <2>7. /\ IsFiniteSet(R) /\ Sum(tokens, S \cup {c}) \in Nat /\ Sum(lines, S \cup {c}) \in Nat
        /\ (R = {} => Sum(tokens, S \cup {c}) = 0)
        /\ Sum(lines, S \cup {c}) <= CeilQuotient(Sum(tokens, S \cup {c}) * K, Q)
                                       + (IF R = {} THEN 0 ELSE Cardinality(R) - 1)
    BY <2>1, <2>4, <2>6
  <2> QED
    BY <2>5, <2>7, Zenon DEF Within
<1> QED
  BY <1>5, <1>8, <1>9

LEMMA AllPromptLines ==
  ASSUME NEW lines \in [TokenClasses -> Nat], NEW tokens \in [TokenClasses -> Nat],
         NEW K \in Nat, NEW Q \in Nat \ {0},
         \A c \in Prompt : lines[c] <= CeilQuotient(tokens[c] * K, Q)
  PROVE  Within(lines, tokens, K, Q, Prompt)
<1> DEFINE W(S) == Within(lines, tokens, K, Q, S)
<1>1. ASSUME NEW S, NEW c \in Prompt, c \notin S, W(S) PROVE W(S \cup {c})
  BY <1>1, OneMoreLine, Classes
<1>2. W({})
  <2>1. Billed(tokens, {}) = {} /\ Sum(tokens, {}) = 0 /\ Sum(lines, {}) = 0
    BY SumNone DEF Billed
  <2> QED
    BY <2>1, CeilOfNone, FS_EmptySet, 0 * K = 0 DEF Within
<1> HIDE DEF W
<1>3. W({"input_fresh"})
  BY <1>1, <1>2, Classes, {} \cup {"input_fresh"} = {"input_fresh"}
<1>4. W({"input_fresh", "cache_read"})
  <2>1. {"input_fresh"} \cup {"cache_read"} = {"input_fresh", "cache_read"}
    OBVIOUS
  <2> QED
    BY <1>1, <1>3, <2>1, Classes
<1>5. W({"input_fresh", "cache_read", "cache_read_5m"})
  <2>1. {"input_fresh", "cache_read"} \cup {"cache_read_5m"} = {"input_fresh", "cache_read", "cache_read_5m"}
    OBVIOUS
  <2> QED
    BY <1>1, <1>4, <2>1, Classes
<1>6. W({"input_fresh", "cache_read", "cache_read_5m", "cache_write"})
  <2>1. {"input_fresh", "cache_read", "cache_read_5m"} \cup {"cache_write"}
          = {"input_fresh", "cache_read", "cache_read_5m", "cache_write"}
    OBVIOUS
  <2> QED
    BY <1>1, <1>5, <2>1, Classes
<1>7. W({"input_fresh", "cache_read", "cache_read_5m", "cache_write", "cache_write_5m"})
  <2>1. {"input_fresh", "cache_read", "cache_read_5m", "cache_write"} \cup {"cache_write_5m"}
          = {"input_fresh", "cache_read", "cache_read_5m", "cache_write", "cache_write_5m"}
    OBVIOUS
  <2> QED
    BY <1>1, <1>6, <2>1, Classes
<1>8. W(Prompt)
  <2>1. {"input_fresh", "cache_read", "cache_read_5m", "cache_write", "cache_write_5m"}
          \cup {"cache_write_1h"} = Prompt
    BY Classes
  <2> QED
    BY <1>1, <1>7, <2>1, Classes
<1> QED
  BY <1>8 DEF W

(* What is left of a product when one factor grows.                        *)
LEMMA ProductGrows ==
  ASSUME NEW a \in Nat, NEW b \in Nat, NEW c \in Nat, NEW d \in Nat, a <= c, b <= d
  PROVE  a * b <= c * d /\ a * b \in Nat /\ c * d \in Nat
<1>1. a * b <= c * b
  OBVIOUS
<1>2. c * b <= c * d
  OBVIOUS
<1>3. a * b \in Nat /\ c * b \in Nat /\ c * d \in Nat
  OBVIOUS
<1> QED
  BY <1>1, <1>2, <1>3

-----------------------------------------------------------------------------
(* Allowances *)

LEMMA Midpoint ==
  ASSUME NEW low \in Nat, NEW high \in Nat, low < high
  PROVE  low + ((high - low + 1) \div 2) \in (low + 1)..high
<1> DEFINE k == high - low + 1
           h == k \div 2
<1>1. k \in Nat /\ k >= 2 /\ k = high - low + 1
  OBVIOUS
<1> HIDE DEF k
<1>2. h \in Nat /\ h >= 1 /\ h + 1 <= k
  BY <1>1
<1> HIDE DEF h
<1>3. low + h \in (low + 1)..high
  BY <1>1, <1>2
<1> QED
  BY <1>3 DEF h, k

(* One step of the search, as MaxOutput takes it.                          *)
Step(rules, bound, n, budget, t, g, low, high) ==
  IF low >= high THEN low
  ELSE LET mid == low + ((high - low + 1) \div 2) IN
       IF Affords(QuoteFor(rules, bound, mid, t), budget)
       THEN g[mid, high] ELSE g[low, mid - 1]

Stepped(rules, bound, n, budget, t, g) ==
  [ends \in (0..n) \X (0..n) |-> Step(rules, bound, n, budget, t, g, ends[1], ends[2])]

(* g is the search, of ends less than d apart.                             *)
Searches(rules, bound, n, budget, t, g, d) ==
  \A low, high \in 0..n :
    high - low < d => g[low, high] = Step(rules, bound, n, budget, t, g, low, high)

LEMMA SearchGrows ==
  ASSUME NEW rules, NEW bound, NEW n \in Nat, NEW budget, NEW t, NEW d \in Nat, NEW g,
         Searches(rules, bound, n, budget, t, g, d)
  PROVE  Searches(rules, bound, n, budget, t,
           [ends \in (0..n) \X (0..n) |-> Step(rules, bound, n, budget, t, g, ends[1], ends[2])], d + 1)
<1> DEFINE next == [ends \in (0..n) \X (0..n) |-> Step(rules, bound, n, budget, t, g, ends[1], ends[2])]
<1>1. \A low, high \in 0..n : next[low, high] = Step(rules, bound, n, budget, t, g, low, high)
  OBVIOUS
<1> HIDE DEF next
<1> SUFFICES ASSUME NEW low \in 0..n, NEW high \in 0..n, high - low < d + 1
             PROVE  next[low, high] = Step(rules, bound, n, budget, t, next, low, high)
  BY DEF Searches, next
<1>2. CASE low >= high
  BY <1>1, <1>2 DEF Step
<1>3. CASE low < high
  <2> DEFINE mid == low + ((high - low + 1) \div 2)
  <2>1. mid \in (low + 1)..high
    BY <1>3, Midpoint
  <2>2. mid \in 0..n /\ mid - 1 \in 0..n /\ high - mid < d /\ (mid - 1) - low < d
    <3> HIDE DEF mid
    <3> QED
      BY <1>3, <2>1
  <2>3. /\ g[mid, high] = Step(rules, bound, n, budget, t, g, mid, high)
        /\ g[low, mid - 1] = Step(rules, bound, n, budget, t, g, low, mid - 1)
    <3> HIDE DEF mid
    <3> QED
      BY <2>2 DEF Searches
  <2>4. next[mid, high] = g[mid, high] /\ next[low, mid - 1] = g[low, mid - 1]
    <3> HIDE DEF mid
    <3> QED
      BY <1>1, <2>2, <2>3
  <2>5. ~(low >= high)
    BY <1>3
  <2>6. Step(rules, bound, n, budget, t, next, low, high) = Step(rules, bound, n, budget, t, g, low, high)
    BY <2>4, <2>5, Zenon DEF Step
  <2>7. next[low, high] = Step(rules, bound, n, budget, t, g, low, high)
    BY <1>1
  <2> HIDE DEF mid
  <2> QED
    BY <2>6, <2>7, Zenon
<1>4. low >= high \/ low < high
  OBVIOUS
<1> QED
  BY <1>2, <1>3, <1>4, Zenon

LEMMA SearchExists ==
  ASSUME NEW rules, NEW bound, NEW n \in Nat, NEW budget, NEW t
  PROVE  \E g : g = Stepped(rules, bound, n, budget, t, g)
<1> DEFINE Reached == {d \in 0..(n + 1) : \E g : Searches(rules, bound, n, budget, t, g, d)}
<1>1. 0 \in Reached
  <2> DEFINE g == [ends \in (0..n) \X (0..n) |-> Step(rules, bound, n, budget, t, <<>>, ends[1], ends[2])]
  <2>1. \A low, high \in 0..n : low >= high => g[low, high] = low
    BY DEF Step
  <2> HIDE DEF g
  <2>2. Searches(rules, bound, n, budget, t, g, 0)
    <3> SUFFICES ASSUME NEW low \in 0..n, NEW high \in 0..n, high - low < 0
                 PROVE  g[low, high] = Step(rules, bound, n, budget, t, g, low, high)
      BY DEF Searches
    <3>1. low >= high
      OBVIOUS
    <3> QED
      BY <2>1, <3>1 DEF Step
  <2> QED
    BY <2>2
<1>2. IsFiniteSet(Reached)
  <2>1. IsFiniteSet(0..(n + 1)) /\ Reached \subseteq 0..(n + 1)
    BY FS_Interval
  <2> HIDE DEF Reached
  <2> QED
    BY <2>1, FS_Subset
<1>3. PICK m \in Reached : \A d \in Reached : d <= m
  <2>1. Reached \subseteq Int
    OBVIOUS
  <2> HIDE DEF Reached
  <2> QED
    BY <1>1, <1>2, <2>1, LargestExists
<1>4. PICK g : Searches(rules, bound, n, budget, t, g, m)
  OBVIOUS
<1> DEFINE next == [ends \in (0..n) \X (0..n) |-> Step(rules, bound, n, budget, t, g, ends[1], ends[2])]
<1>5. Searches(rules, bound, n, budget, t, next, m + 1)
  <2>1. m \in Nat
    OBVIOUS
  <2> QED
    BY <1>4, <2>1, SearchGrows
<1> HIDE DEF next
<1>7. m + 1 = n + 1 \/ m = n + 1
  <2>1. CASE m <= n
    <3>1. m + 1 \in 0..(n + 1)
      BY <2>1
    <3>2. m + 1 \in Reached
      BY <1>5, <3>1
    <3> HIDE DEF Reached
    <3>3. m + 1 <= m
      BY <1>3, <3>2
    <3>4. m \in Int
      BY <1>3 DEF Reached
    <3> QED
      BY <3>3, <3>4
  <2>2. CASE ~(m <= n)
    BY <2>2
  <2> QED
    BY <2>1, <2>2
<1>8. Searches(rules, bound, n, budget, t, next, n + 1)
  <2>1. \A low, high \in 0..n : high - low < n + 1 /\ high - low < n + 1 + 1
    OBVIOUS
  <2> QED
    BY <1>5, <1>7, <2>1 DEF Searches
<1>9. next = [ends \in (0..n) \X (0..n) |-> Step(rules, bound, n, budget, t, next, ends[1], ends[2])]
  <2> DEFINE again == [ends \in (0..n) \X (0..n) |-> Step(rules, bound, n, budget, t, next, ends[1], ends[2])]
  <2>1. \A low, high \in 0..n : high - low < n + 1
    OBVIOUS
  <2>2. \A low, high \in 0..n : next[<<low, high>>] = again[<<low, high>>]
    BY <1>8, <2>1 DEF Searches
  <2> HIDE DEF again
  <2>3. \A ends \in (0..n) \X (0..n) : next[ends] = again[ends]
    <3> SUFFICES ASSUME NEW ends \in (0..n) \X (0..n) PROVE next[ends] = again[ends]
      OBVIOUS
    <3>1. ends[1] \in 0..n /\ ends[2] \in 0..n /\ ends = <<ends[1], ends[2]>>
      OBVIOUS
    <3> QED
      BY <2>2, <3>1
  <2> QED
    BY <2>3 DEF next, again
<1> QED
  BY <1>9 DEF Stepped

(* What a search between low and high has found.                           *)
Pays(rules, bound, budget, t, output) == Affords(QuoteFor(rules, bound, output, t), budget)

IsMost(rules, bound, n, budget, t, output) ==
  /\ output \in 0..n
  /\ Pays(rules, bound, budget, t, output)
  /\ output = n \/ ~Pays(rules, bound, budget, t, output + 1)

Finds(rules, bound, n, budget, t, g, low, high) ==
  /\ low <= high /\ Pays(rules, bound, budget, t, low)
  /\ high = n \/ ~Pays(rules, bound, budget, t, high + 1)
  => IsMost(rules, bound, n, budget, t, g[low, high])

LEMMA FindsOneFurther ==
  ASSUME NEW rules, NEW bound, NEW n \in Nat, NEW budget, NEW t, NEW g, NEW d \in Nat,
         Searches(rules, bound, n, budget, t, g, n + 1),
         \A low, high \in 0..n : high - low < d => Finds(rules, bound, n, budget, t, g, low, high),
         NEW low \in 0..n, NEW high \in 0..n, high - low < d + 1
  PROVE  Finds(rules, bound, n, budget, t, g, low, high)
<1> DEFINE pays(k) == Pays(rules, bound, budget, t, k)
           most(k) == IsMost(rules, bound, n, budget, t, k)
<1> SUFFICES ASSUME low <= high, pays(low), high = n \/ ~pays(high + 1)
             PROVE  most(g[low, high])
  BY DEF Finds
<1>1. g[low, high] = Step(rules, bound, n, budget, t, g, low, high)
  <2>1. high - low < n + 1
    OBVIOUS
  <2> QED
    BY <2>1 DEF Searches
<1>2. ASSUME low = high PROVE most(g[low, high])
  <2>1. g[low, high] = low
    BY <1>1, <1>2 DEF Step
  <2> QED
    BY <1>2, <2>1 DEF IsMost
<1>3. ASSUME low < high PROVE most(g[low, high])
  <2> DEFINE mid == low + ((high - low + 1) \div 2)
  <2>1. mid \in (low + 1)..high
    BY <1>3, Midpoint
  <2>2. g[low, high] = IF pays(mid) THEN g[mid, high] ELSE g[low, mid - 1]
    <3>1. ~(low >= high)
      BY <1>3
    <3> QED
      BY <1>1, <3>1, Zenon DEF Step, Pays
  <2> HIDE DEF mid
  <2>3. /\ mid \in 0..n /\ mid - 1 \in 0..n /\ high - mid < d /\ (mid - 1) - low < d
        /\ mid <= high /\ low <= mid - 1 /\ (mid - 1) + 1 = mid
    BY <1>3, <2>1
  <2>4. Finds(rules, bound, n, budget, t, g, mid, high)
    BY <2>3
  <2>5. Finds(rules, bound, n, budget, t, g, low, mid - 1)
    BY <2>3
  <2>6. CASE pays(mid)
    <3>1. most(g[mid, high])
      BY <2>3, <2>4, <2>6, Zenon DEF Finds
    <3> QED
      BY <2>2, <2>6, <3>1
  <2>7. CASE ~pays(mid)
    <3>1. ~pays((mid - 1) + 1)
      BY <2>3, <2>7
    <3>2. most(g[low, mid - 1])
      BY <2>3, <2>5, <3>1, Zenon DEF Finds
    <3> QED
      BY <2>2, <2>7, <3>2
  <2> QED
    BY <2>6, <2>7
<1>4. low = high \/ low < high
  OBVIOUS
<1> QED
  BY <1>2, <1>3, <1>4, Zenon

LEMMA SearchFinds ==
  ASSUME NEW rules, NEW bound, NEW n \in Nat, NEW budget, NEW t, NEW g,
         Searches(rules, bound, n, budget, t, g, n + 1),
         Pays(rules, bound, budget, t, 0)
  PROVE  IsMost(rules, bound, n, budget, t, g[0, n])
<1> DEFINE all(d) == \A low, high \in 0..n :
                       high - low < d => Finds(rules, bound, n, budget, t, g, low, high)
           Reached == {d \in 0..(n + 1) : all(d)}
<1>1. 0 \in Reached
  <2>1. \A low, high \in 0..n : high - low < 0 => ~(low <= high)
    OBVIOUS
  <2>2. all(0)
    BY <2>1, Zenon DEF Finds
  <2> HIDE DEF all
  <2> QED
    BY <2>2
<1>2. IsFiniteSet(Reached)
  <2>1. IsFiniteSet(0..(n + 1)) /\ Reached \subseteq 0..(n + 1)
    BY FS_Interval
  <2> HIDE DEF Reached
  <2> QED
    BY <2>1, FS_Subset
<1>3. PICK m \in Reached : \A d \in Reached : d <= m
  <2>1. Reached \subseteq Int
    OBVIOUS
  <2> HIDE DEF Reached
  <2> QED
    BY <1>1, <1>2, <2>1, LargestExists
<1>4. m \in 0..(n + 1) /\ m \in Nat /\ all(m)
  OBVIOUS
<1>5. all(m + 1)
  <2> SUFFICES ASSUME NEW low \in 0..n, NEW high \in 0..n, high - low < m + 1
               PROVE  Finds(rules, bound, n, budget, t, g, low, high)
    OBVIOUS
  <2> QED
    BY <1>4, FindsOneFurther
<1>6. ~(m <= n)
  <2>1. ASSUME m <= n PROVE FALSE
    <3>1. m + 1 \in 0..(n + 1)
      BY <1>4, <2>1
    <3> HIDE DEF all
    <3>2. m + 1 \in Reached
      BY <1>5, <3>1
    <3> HIDE DEF Reached
    <3>3. m + 1 <= m
      BY <1>3, <3>2
    <3> QED
      BY <1>4, <3>3
  <2> QED
    BY <2>1
<1>7. Finds(rules, bound, n, budget, t, g, 0, n)
  <2>1. 0 \in 0..n /\ n \in 0..n /\ n - 0 < m
    BY <1>4, <1>6
  <2> QED
    BY <1>4, <2>1
<1>8. 0 <= n
  OBVIOUS
<1> QED
  BY <1>7, <1>8, Zenon DEF Finds

(* The limit found is the most the budget pays for.                        *)
LEMMA MaxOutputIsMost ==
  ASSUME NEW rules, NEW bound, NEW n \in Nat, NEW budget, NEW t
  PROVE  IF Pays(rules, bound, budget, t, 0)
         THEN IsMost(rules, bound, n, budget, t, MaxOutput(rules, bound, n, budget, t))
         ELSE MaxOutput(rules, bound, n, budget, t) = 0
<1>1. ASSUME ~Pays(rules, bound, budget, t, 0) PROVE MaxOutput(rules, bound, n, budget, t) = 0
  BY <1>1, Zenon DEF MaxOutput, Pays
<1>2. ASSUME Pays(rules, bound, budget, t, 0)
      PROVE  IsMost(rules, bound, n, budget, t, MaxOutput(rules, bound, n, budget, t))
  <2> DEFINE next(g) == Stepped(rules, bound, n, budget, t, g)
             search == CHOOSE g : g = next(g)
  <2>1. MaxOutput(rules, bound, n, budget, t) = search[0, n]
    BY <1>2, Zenon DEF MaxOutput, Pays, Step, Stepped
  <2>2. \E f : f = next(f)
    BY SearchExists
  <2>3. search = next(search)
    <3> HIDE DEF next
    <3> QED
      BY <2>2
  <2>4. Searches(rules, bound, n, budget, t, search, n + 1)
    BY <2>3 DEF Searches, Stepped
  <2> HIDE DEF search
  <2> QED
    BY <1>2, <2>1, <2>4, SearchFinds
<1> QED
  BY <1>1, <1>2

-----------------------------------------------------------------------------
(* Quotes *)

LEMMA LinesType ==
  ASSUME NEW rules, Ruled(rules), NEW usage, usage.total \in Nat,
         usage.tokens \in [TokenClasses -> Nat], NEW t
  PROVE  /\ RatesForPromptTotal(rules, usage.total) \in Rates
         /\ Lines(rules, usage, t) \in [TokenClasses -> Nat]
         /\ QuoteAt(rules, usage, t) = Sum(Lines(rules, usage, t), Prompt) + Lines(rules, usage, t)["output"]
<1> DEFINE rates == RatesForPromptTotal(rules, usage.total)
           lines == Lines(rules, usage, t)
<1>1. rates \in Rates
  BY TierFound
<1> HIDE DEF rates
<1>2. \A c \in TokenClasses :
        CostForTokens(usage.tokens[c], RateFor(rates, c), Scale(WindowFor(rules, t), c)) \in Nat
  BY <1>1, RateType, CostType
<1>3. lines = [c \in TokenClasses |->
        CostForTokens(usage.tokens[c], RateFor(rates, c), Scale(WindowFor(rules, t), c))]
  BY DEF Lines, rates
<1> HIDE DEF lines
<1>4. lines \in [TokenClasses -> Nat]
  BY <1>2, <1>3
<1>5. Sum(lines, Prompt \cup {"output"}) = Sum(lines, Prompt) + lines["output"]
  BY <1>4, SumAdd, Classes
<1>6. Prompt \cup {"output"} = TokenClasses
  BY Classes
<1> QED
  BY <1>1, <1>4, <1>5, <1>6 DEF QuoteAt, rates, lines

(* A quote is a line of fresh input and one of output.                     *)
LEMMA QuoteForIs ==
  ASSUME NEW rules, Ruled(rules), NEW bound \in Nat, NEW output \in Nat, NEW t
  PROVE  LET rates == RatesForPromptTotal(rules, bound)
             Cost(tokens, c) == CostForTokens(tokens, rates[c], Scale(WindowFor(rules, t), c)) IN
         /\ rates \in Rates
         /\ Cost(bound, "input_fresh") \in Nat /\ Cost(output, "output") \in Nat
         /\ QuoteFor(rules, bound, output, t) = Cost(bound, "input_fresh") + Cost(output, "output")
<1> DEFINE rates == RatesForPromptTotal(rules, bound)
           Cost(tokens, c) == CostForTokens(tokens, rates[c], Scale(WindowFor(rules, t), c))
           usage == WithOutput(InputUsage(bound), output)
           lines == Lines(rules, usage, t)
<1>1. /\ usage.total = bound /\ usage.tokens \in [TokenClasses -> Nat]
      /\ usage.tokens["input_fresh"] = bound /\ usage.tokens["output"] = output
      /\ \A c \in TokenClasses \ {"input_fresh", "output"} : usage.tokens[c] = 0
  BY Classes DEF WithOutput, InputUsage, Only
<1> HIDE DEF usage
<1>2. rates \in Rates
  BY TierFound
<1>3. lines \in [TokenClasses -> Nat] /\ QuoteAt(rules, usage, t) = Sum(lines, TokenClasses)
  BY <1>1, LinesType DEF QuoteAt
<1>4. \A c \in TokenClasses :
        lines[c] = CostForTokens(usage.tokens[c], RateFor(rates, c), Scale(WindowFor(rules, t), c))
  BY <1>1 DEF Lines
<1> HIDE DEF lines
<1>5. RateFor(rates, "input_fresh") = rates["input_fresh"] /\ RateFor(rates, "output") = rates["output"]
  BY DEF RateFor, Writes
<1>6. lines["input_fresh"] = Cost(bound, "input_fresh") /\ lines["output"] = Cost(output, "output")
  BY <1>1, <1>4, <1>5, Classes
<1>7. ASSUME NEW c \in TokenClasses \ {"input_fresh", "output"} PROVE lines[c] = 0
  <2> DEFINE s == Scale(WindowFor(rules, t), c)
             rate == RateFor(rates, c)
  <2>1. s.num \in Nat /\ s.den \in Nat \ {0} /\ rate \in Nat
    BY <1>2, ScaleType, RateType
  <2>2. lines[c] = CostForTokens(0, rate, s)
    BY <1>1, <1>4
  <2> HIDE DEF s, rate
  <2>3. 0 * rate * s.num = 0 /\ PerMillion * s.den \in Nat \ {0}
    BY <2>1, PriceAssumption
  <2> QED
    BY <2>2, <2>3, CeilOfNone DEF CostForTokens
<1>8. Sum(lines, TokenClasses) = lines["input_fresh"] + lines["output"]
  <2>1. \A c \in TokenClasses : lines[c] \in Nat
    BY <1>3
  <2> QED
    BY <1>7, <2>1, Classes DEF Sum
<1>9. lines["input_fresh"] \in Nat /\ lines["output"] \in Nat
  BY <1>3, Classes
<1>10. QuoteFor(rules, bound, output, t) = QuoteAt(rules, usage, t)
  BY DEF QuoteFor, usage
<1> HIDE DEF Cost, rates
<1>11. /\ rates \in Rates /\ Cost(bound, "input_fresh") \in Nat /\ Cost(output, "output") \in Nat
       /\ QuoteFor(rules, bound, output, t) = Cost(bound, "input_fresh") + Cost(output, "output")
  BY <1>2, <1>3, <1>6, <1>8, <1>9, <1>10
<1> QED
  BY <1>11 DEF Cost, rates

(* More tokens at a higher rate cost more.                                 *)
LEMMA CostMonotonic ==
  ASSUME NEW rules, Ruled(rules), NEW t, NEW c, NEW few \in Nat, NEW many \in Nat, few <= many,
         NEW low \in Nat, NEW high \in Nat, low <= high
  PROVE  CostForTokens(few, low, Scale(WindowFor(rules, t), c))
           <= CostForTokens(many, high, Scale(WindowFor(rules, t), c))
<1> DEFINE s == Scale(WindowFor(rules, t), c)
<1>1. s.num \in Nat /\ s.den \in Nat \ {0}
  BY ScaleType
<1> HIDE DEF s
<1> DEFINE num == s.num
           den == PerMillion * s.den
<1>2. num \in Nat /\ den \in Nat \ {0}
  BY <1>1, PriceAssumption
<1>3. CostForTokens(few, low, s) = CeilQuotient(few * low * num, den)
      /\ CostForTokens(many, high, s) = CeilQuotient(many * high * num, den)
  BY DEF CostForTokens
<1> HIDE DEF num, den
<1>4. few * low <= many * high /\ few * low \in Nat /\ many * high \in Nat
  BY ProductGrows
<1>5. few * low * num <= many * high * num /\ few * low * num \in Nat /\ many * high * num \in Nat
  BY <1>2, <1>4, ProductGrows
<1>6. (few * low * num) * den <= (many * high * num) * den
  BY <1>2, <1>5, Cancel
<1>7. CeilQuotient(few * low * num, den) <= CeilQuotient(many * high * num, den)
  BY <1>2, <1>5, <1>6, CeilMonotonic
<1> QED
  BY <1>3, <1>7 DEF s

LEMMA QuoteMonotonic ==
  ASSUME NEW rules, Ruled(rules), NEW bound \in Nat, NEW t,
         NEW few \in Nat, NEW many \in Nat, few <= many
  PROVE  /\ QuoteFor(rules, bound, few, t) \in Nat /\ QuoteFor(rules, bound, many, t) \in Nat
         /\ QuoteFor(rules, bound, few, t) <= QuoteFor(rules, bound, many, t)
<1> DEFINE rates == RatesForPromptTotal(rules, bound)
           Cost(tokens, c) == CostForTokens(tokens, rates[c], Scale(WindowFor(rules, t), c))
<1>1. /\ rates \in Rates /\ Cost(bound, "input_fresh") \in Nat /\ Cost(few, "output") \in Nat
      /\ QuoteFor(rules, bound, few, t) = Cost(bound, "input_fresh") + Cost(few, "output")
  BY QuoteForIs, ZenonT(30)
<1>2. /\ Cost(many, "output") \in Nat
      /\ QuoteFor(rules, bound, many, t) = Cost(bound, "input_fresh") + Cost(many, "output")
  BY QuoteForIs, ZenonT(30)
<1>3. rates["output"] \in Nat
  BY <1>1, Classes DEF Rates
<1>4. Cost(few, "output") <= Cost(many, "output")
  <2> HIDE DEF rates
  <2>1. rates["output"] <= rates["output"]
    BY <1>3
  <2> QED
    BY <1>3, <2>1, CostMonotonic
<1> HIDE DEF Cost, rates
<1> QED
  BY <1>1, <1>2, <1>4

LEMMA GrantIsMost ==
  ASSUME NEW rules, Ruled(rules), NEW bound \in Nat, NEW requested \in Nat,
         NEW budget \in Int, NEW t
  PROVE  LET Cost(output) == QuoteFor(rules, bound, output, t)
             allowed == Allowed(rules, bound, requested, budget, t) IN
         /\ allowed \in 0..requested
         /\ \/ Cost(allowed) <= budget /\ (allowed < requested => Cost(allowed + 1) > budget)
            \/ allowed = 0 /\ Cost(0) > budget /\ Cost(requested) > budget
<1> DEFINE Cost(output) == QuoteFor(rules, bound, output, t)
           allowed == Allowed(rules, bound, requested, budget, t)
<1>1. \A output \in Nat : Cost(output) \in Nat
  BY QuoteMonotonic, \A n \in Nat : n <= n
<1>2. \A output \in Nat : Pays(rules, bound, budget, t, output) <=> Cost(output) <= budget
  BY DEF Pays, Affords
<1>3. CASE Cost(requested) <= budget
  BY <1>3 DEF Allowed
<1>4. CASE ~(Cost(requested) <= budget)
  <2>1. allowed = MaxOutput(rules, bound, requested, budget, t)
    BY <1>4 DEF Allowed
  <2> HIDE DEF Cost, allowed
  <2>2. CASE ~(Cost(0) <= budget)
    <3>1. allowed = 0
      BY <1>2, <2>1, <2>2, MaxOutputIsMost
    <3> QED
      BY <1>1, <1>4, <2>2, <3>1 DEF Cost, allowed
  <2>3. CASE Cost(0) <= budget
    <3>1. IsMost(rules, bound, requested, budget, t, allowed)
      BY <1>2, <2>1, <2>3, MaxOutputIsMost
    <3>2. allowed \in 0..requested /\ Cost(allowed) <= budget
      BY <1>2, <3>1 DEF IsMost
    <3>3. allowed < requested => Cost(allowed + 1) > budget
      <4> SUFFICES ASSUME allowed < requested PROVE Cost(allowed + 1) > budget
        OBVIOUS
      <4>1. allowed + 1 \in Nat /\ ~(allowed = requested)
        BY <3>2
      <4>2. ~(Cost(allowed + 1) <= budget)
        BY <1>2, <3>1, <4>1 DEF IsMost
      <4> QED
        BY <1>1, <4>1, <4>2
    <3> QED
      BY <3>2, <3>3 DEF Cost, allowed
  <2> QED
    BY <2>2, <2>3
<1> QED
  BY <1>3, <1>4

(* For every rule set, prompt and budget: the binary search of             *)
(* MaxOutputTokensAt grants the most output the budget pays for, a request *)
(* is never quoted more than its budget, and one is refused for its price  *)
(* only if the budget does not pay for a single token of output, or of a   *)
(* thinking model for the visible floor (affordableGeneration).            *)
THEOREM GrantsAreTheMostAffordable == PricingSpec => []AllowanceIsLargest
<1>1. ASSUME RequestInv PROVE AllowanceIsLargest
  <2> SUFFICES ASSUME req.phase \in {"refused", "admitted", "charged"} PROVE AllowanceIsLargest
    BY DEF AllowanceIsLargest
  <2> DEFINE Cost(output) == QuoteFor(req.rules, req.bound, output, req.pin)
             budget == req.asked.budget
             allowed == req.allowed
             requested == req.requested
  <2>1. /\ Ruled(req.rules) /\ req.bound \in Nat /\ requested \in Nat \ {0}
        /\ allowed = Allowed(req.rules, req.bound, requested, budget, req.pin)
        /\ req.ceiling = Cost(allowed)
        /\ (req.phase = "refused" <=> Refused(req))
        /\ req.asked \in Requests
    BY <1>1 DEF RequestInv, GrantInv
  <2>2. budget \in Int /\ VisibleFloor \in Nat
    BY <2>1, PricingAssumption
  <2>3. /\ allowed \in 0..requested
        /\ \/ Cost(allowed) <= budget /\ (allowed < requested => Cost(allowed + 1) > budget)
           \/ allowed = 0 /\ Cost(0) > budget /\ Cost(requested) > budget
    <3> HIDE DEF allowed, requested, budget
    <3> QED
      BY <2>1, <2>2, GrantIsMost
  <2>4. \A few, many \in Nat : few <= many =>
          Cost(few) \in Nat /\ Cost(many) \in Nat /\ Cost(few) <= Cost(many)
    BY <2>1, QuoteMonotonic
  <2>5. Refused(req) => allowed < requested /\ (allowed < 1 \/ (allowed < VisibleFloor /\ FloorApplies(req.asked, req.model)))
    BY DEF Refused, Reduced
  <2>6. allowed < requested /\ allowed < 1 => Refused(req)
    BY DEF Refused, Reduced
  <2> HIDE DEF Cost, budget, allowed, requested
  <2>7. req.phase \in {"admitted", "charged"} =>
          /\ Cost(allowed) <= budget
          /\ allowed < requested => Cost(allowed + 1) > budget
    <3> SUFFICES ASSUME req.phase \in {"admitted", "charged"}
                 PROVE  ~(allowed = 0 /\ Cost(0) > budget /\ Cost(requested) > budget)
      BY <2>3
    <3> QED
      BY <2>1, <2>6
  <2>8. ASSUME req.phase = "refused"
        PROVE  \/ Cost(1) > budget
               \/ FloorApplies(req.asked, req.model) /\ Cost(VisibleFloor) > budget
    <3>1. allowed < requested /\ (allowed < 1 \/ (allowed < VisibleFloor /\ FloorApplies(req.asked, req.model)))
      BY <2>1, <2>5, <2>8
    <3>2. \A many \in Nat : allowed < many => Cost(many) > budget
      <4> SUFFICES ASSUME NEW many \in Nat, allowed < many PROVE Cost(many) > budget
        OBVIOUS
      <4>1. CASE Cost(allowed) <= budget /\ (allowed < requested => Cost(allowed + 1) > budget)
        <5>1. allowed + 1 \in Nat /\ allowed + 1 <= many
          BY <2>3
        <5>2. Cost(allowed + 1) \in Nat /\ Cost(many) \in Nat /\ Cost(allowed + 1) <= Cost(many)
          BY <2>4, <5>1
        <5>3. Cost(allowed + 1) > budget
          BY <3>1, <4>1
        <5> QED
          BY <2>2, <5>2, <5>3
      <4>2. CASE allowed = 0 /\ Cost(0) > budget
        <5>1. Cost(0) \in Nat /\ Cost(many) \in Nat /\ Cost(0) <= Cost(many)
          BY <2>4, 0 <= many, 0 \in Nat
        <5> QED
          BY <2>2, <4>2, <5>1
      <4> QED
        BY <2>3, <4>1, <4>2
    <3> QED
      BY <2>2, <2>3, <3>1, <3>2, 1 \in Nat
  <2> QED
    BY <2>1, <2>7, <2>8 DEF AllowanceIsLargest, Cost, budget, allowed, requested
<1>2. PricingInv => AllowanceIsLargest
  BY <1>1 DEF PricingInv
<1> QED
  BY <1>2, PricingInvariant, PTL

(* A prompt line is charged no more than its tokens would be as fresh.     *)
LEMMA PromptLineIsWithinFresh ==
  ASSUME NEW rules, Ruled(rules), NEW rates \in Rates, NEW t, NEW tokens \in Nat, NEW c \in Prompt,
         LET s == Scale(WindowFor(rules, t), c)
             fresh == Scale(WindowFor(rules, t), "input_fresh") IN
         RateFor(rates, c) * Above(s, fresh) <= rates["input_fresh"] * Above(fresh, s)
  PROVE  LET fresh == Scale(WindowFor(rules, t), "input_fresh") IN
         CostForTokens(tokens, RateFor(rates, c), Scale(WindowFor(rules, t), c))
           <= CeilQuotient(tokens * (rates["input_fresh"] * fresh.num), PerMillion * fresh.den)
<1> DEFINE s == Scale(WindowFor(rules, t), c)
           fresh == Scale(WindowFor(rules, t), "input_fresh")
           rate == RateFor(rates, c)
           top == rates["input_fresh"]
<1>1. /\ s.num \in Nat /\ s.den \in Nat \ {0} /\ fresh.num \in Nat /\ fresh.den \in Nat \ {0}
      /\ rate \in Nat /\ top \in Nat /\ PerMillion \in Nat \ {0}
  BY ScaleType, RateType, Classes, PriceAssumption DEF Rates
<1>2. rate * (s.num * fresh.den) <= top * (fresh.num * s.den)
  BY DEF Above
<1> HIDE DEF s, fresh, rate, top
<1> DEFINE n == s.num   d == s.den   fn == fresh.num   fd == fresh.den
<1>3. n \in Nat /\ d \in Nat \ {0} /\ fn \in Nat /\ fd \in Nat \ {0}
  BY <1>1
<1>4. rate * (n * fd) <= top * (fn * d)
  BY <1>2
<1>5. CostForTokens(tokens, rate, s) = CeilQuotient(tokens * rate * n, PerMillion * d)
  BY DEF CostForTokens
<1> HIDE DEF n, d, fn, fd
<1>6. /\ rate * (n * fd) \in Nat /\ top * (fn * d) \in Nat
      /\ tokens * rate * n \in Nat /\ tokens * (top * fn) \in Nat
      /\ PerMillion * d \in Nat \ {0} /\ PerMillion * fd \in Nat \ {0}
  BY <1>1, <1>3
<1>7. tokens * (rate * (n * fd)) <= tokens * (top * (fn * d))
  BY <1>4, <1>6, ProductGrows, tokens <= tokens
<1>8. PerMillion * (tokens * (rate * (n * fd))) <= PerMillion * (tokens * (top * (fn * d)))
  <2>1. tokens * (rate * (n * fd)) \in Nat /\ tokens * (top * (fn * d)) \in Nat
    BY <1>6
  <2> QED
    BY <1>1, <1>7, <2>1, ProductGrows, PerMillion <= PerMillion
<1>9. /\ (tokens * rate * n) * (PerMillion * fd) = PerMillion * (tokens * (rate * (n * fd)))
      /\ (tokens * (top * fn)) * (PerMillion * d) = PerMillion * (tokens * (top * (fn * d)))
  BY <1>1, <1>3
<1>10. CeilQuotient(tokens * rate * n, PerMillion * d)
         <= CeilQuotient(tokens * (top * fn), PerMillion * fd)
  BY <1>6, <1>8, <1>9, CeilMonotonic
<1> QED
  BY <1>5, <1>10 DEF s, fresh, rate, top, fn, fd

(* With prices that ascend, usage within a quote is charged within it.     *)
LEMMA ChargeWithinQuote ==
  ASSUME NEW rules, Ruled(rules), NEW t, PricesAscend(rules, t), NEW usage,
         usage.tokens \in [TokenClasses -> Nat], usage.total = Sum(usage.tokens, Prompt),
         usage.total \in Nat, NEW bound \in Nat, NEW output \in Nat,
         usage.total <= bound, usage.tokens["output"] <= output
  PROVE  LET billed == Billed(usage.tokens, Prompt) IN
         QuoteAt(rules, usage, t)
           <= QuoteFor(rules, bound, output, t) + (IF billed = {} THEN 0 ELSE Cardinality(billed) - 1)
<1> DEFINE total == usage.total
           rates == RatesForPromptTotal(rules, total)
           above == RatesForPromptTotal(rules, bound)
           fresh == Scale(WindowFor(rules, t), "input_fresh")
           lines == Lines(rules, usage, t)
           Q == PerMillion * fresh.den
           more == IF Billed(usage.tokens, Prompt) = {} THEN 0
                   ELSE Cardinality(Billed(usage.tokens, Prompt)) - 1
           Cost(tokens, r, c) == CostForTokens(tokens, r, Scale(WindowFor(rules, t), c))
<1>1. /\ rates \in Rates /\ lines \in [TokenClasses -> Nat]
      /\ QuoteAt(rules, usage, t) = Sum(lines, Prompt) + lines["output"]
  BY LinesType
<1>2. /\ above \in Rates /\ Cost(bound, above["input_fresh"], "input_fresh") \in Nat
      /\ Cost(output, above["output"], "output") \in Nat
      /\ QuoteFor(rules, bound, output, t)
           = Cost(bound, above["input_fresh"], "input_fresh") + Cost(output, above["output"], "output")
  BY QuoteForIs
<1>3. PICK tier \in AllTiers(rules) : rates = tier.rates
  BY TierFound
<1>4. \A c \in Prompt :
        RateFor(rates, c) * Above(Scale(WindowFor(rules, t), c), fresh)
          <= rates["input_fresh"] * Above(fresh, Scale(WindowFor(rules, t), c))
  <2> HIDE DEF rates
  <2> QED
    BY <1>3 DEF PricesAscend, AllTiers
<1>5. \A c \in {"input_fresh", "output"} : rates[c] <= above[c]
  <2>1. CASE rates = above
    <3> HIDE DEF rates, above
    <3>1. \A c \in {"input_fresh", "output"} : rates[c] \in Nat
      BY <1>1, Classes DEF Rates
    <3> QED
      BY <2>1, <3>1
  <2>2. CASE \E low, high \in AllTiers(rules) :
               low.above < high.above /\ rates = low.rates /\ above = high.rates
    <3> HIDE DEF rates, above
    <3> QED
      BY <2>2 DEF PricesAscend, AllTiers
  <2> QED
    BY <2>1, <2>2, TiersAscend
<1>6. /\ fresh.num \in Nat /\ fresh.den \in Nat \ {0} /\ Q \in Nat \ {0}
      /\ \A c \in {"input_fresh", "output"} : rates[c] \in Nat /\ above[c] \in Nat
  <2>1. fresh.num \in Nat /\ fresh.den \in Nat \ {0}
    BY ScaleType
  <2> HIDE DEF rates, above, fresh
  <2> QED
    BY <1>1, <1>2, <2>1, Classes, PriceAssumption DEF Rates
<1> DEFINE K == rates["input_fresh"] * fresh.num
<1>7. K \in Nat
  <2> HIDE DEF rates, fresh
  <2> QED
    BY <1>6
<1>8. \A c \in Prompt : lines[c] <= CeilQuotient(usage.tokens[c] * K, Q)
  <2> SUFFICES ASSUME NEW c \in Prompt PROVE lines[c] <= CeilQuotient(usage.tokens[c] * K, Q)
    OBVIOUS
  <2>1. lines[c] = Cost(usage.tokens[c], RateFor(rates, c), c) /\ usage.tokens[c] \in Nat
    BY Classes DEF Lines
  <2>2. Cost(usage.tokens[c], RateFor(rates, c), c) <= CeilQuotient(usage.tokens[c] * K, Q)
    <3> HIDE DEF rates
    <3> QED
      BY <1>1, <1>4, <2>1, PromptLineIsWithinFresh
  <2> QED
    BY <2>1, <2>2
<1>9. /\ Sum(lines, Prompt) \in Nat /\ more \in Nat
      /\ Sum(lines, Prompt) <= CeilQuotient(total * K, Q) + more
  <2> HIDE DEF lines, K, Q
  <2>1. Within(lines, usage.tokens, K, Q, Prompt)
    BY <1>1, <1>6, <1>7, <1>8, AllPromptLines
  <2>2. more \in Nat
    <3> DEFINE P == Billed(usage.tokens, Prompt)
    <3>1. IsFiniteSet(P)
      BY <2>1 DEF Within
    <3> HIDE DEF P
    <3>2. Cardinality(P) \in Nat /\ (P # {} => Cardinality(P) # 0)
      BY <3>1, FS_CardinalityType, FS_EmptySet
    <3> QED
      BY <3>2 DEF P
  <2>3. /\ Sum(lines, Prompt) \in Nat
        /\ Sum(lines, Prompt) <= CeilQuotient(Sum(usage.tokens, Prompt) * K, Q) + more
    BY <2>1, Zenon DEF Within
  <2> HIDE DEF more
  <2> QED
    BY <2>2, <2>3
<1>10. CeilQuotient(total * K, Q) <= Cost(bound, above["input_fresh"], "input_fresh")
  <2>1. CostForTokens(total, rates["input_fresh"], fresh) = CeilQuotient(total * rates["input_fresh"] * fresh.num, Q)
    BY DEF CostForTokens
  <2>2. total * rates["input_fresh"] * fresh.num = total * K
    <3> HIDE DEF rates, fresh
    <3> QED
      BY <1>6
  <2>3. Cost(total, rates["input_fresh"], "input_fresh") <= Cost(bound, above["input_fresh"], "input_fresh")
    <3> HIDE DEF rates, above
    <3> QED
      BY <1>5, <1>6, CostMonotonic
  <2> QED
    BY <2>1, <2>2, <2>3
<1>11. lines["output"] <= Cost(output, above["output"], "output")
  <2>1. RateFor(rates, "output") = rates["output"]
    BY DEF RateFor, Writes
  <2>2. lines["output"] = Cost(usage.tokens["output"], rates["output"], "output")
        /\ usage.tokens["output"] \in Nat
    BY <2>1, Classes DEF Lines
  <2>3. Cost(usage.tokens["output"], rates["output"], "output") <= Cost(output, above["output"], "output")
    <3> HIDE DEF rates, above
    <3> QED
      BY <1>5, <1>6, <2>2, CostMonotonic
  <2> QED
    BY <2>2, <2>3
<1>12. total * K \in Nat /\ CeilQuotient(total * K, Q) \in Nat /\ lines["output"] \in Nat
  <2>1. total * K \in Nat
    <3> HIDE DEF K
    <3> QED
      BY <1>7
  <2> HIDE DEF K, Q
  <2> QED
    BY <1>1, <1>6, <2>1, CeilBounds, Classes
<1>13. QuoteAt(rules, usage, t) <= QuoteFor(rules, bound, output, t) + more
  <2> HIDE DEF lines, K, Q, more, Cost, above
  <2> QED
    BY <1>1, <1>2, <1>9, <1>10, <1>11, <1>12
<1> QED
  BY <1>13

(* For every rule set whose prompt classes cost no more than fresh input   *)
(* and whose tiers ascend: a request that stays within the prompt and the  *)
(* output it was quoted for is charged no more than the quote, but for the *)
(* rounding of each further prompt line (CostForTokensScaled, QuoteAt).    *)
THEOREM ChargesStayWithinTheQuote == PricingSpec => []ChargedWithinQuote
<1>1. ASSUME RequestInv PROVE ChargedWithinQuote
  <2> DEFINE usage == req.receipt.usage
             billed == {c \in Prompt : usage.tokens[c] > 0}
  <2> SUFFICES ASSUME Charged, PricesAscend(req.rules, req.pin),
                      usage.total <= req.bound, usage.tokens["output"] <= req.allowed
               PROVE  req.receipt.cost <= req.ceiling
                        + (IF billed = {} THEN 0 ELSE Cardinality(billed) - 1)
    BY DEF ChargedWithinQuote
  <2>1. /\ req.asked \in Requests /\ req.receipt = Receipt(req)
        /\ Ruled(req.rules) /\ req.bound \in Nat /\ req.requested \in Nat \ {0}
        /\ req.allowed = Allowed(req.rules, req.bound, req.requested, req.asked.budget, req.pin)
        /\ req.ceiling = QuoteFor(req.rules, req.bound, req.allowed, req.pin)
    BY <1>1 DEF RequestInv, GrantInv, Charged
  <2>2. /\ Generation(req.asked) /\ req.asked.budget \in Int
    BY <2>1, PricingAssumption DEF Generation
  <2> DEFINE raw == Reported(req.asked, req.model.speaks, req.model.target)
  <2>3. /\ usage = NormalizeUsage(raw, req.model.accounting)
        /\ req.receipt.cost = QuoteAt(req.rules, usage, req.pin)
    BY <2>1 DEF Receipt, PricedAt
  <2>4. /\ usage.tokens \in [TokenClasses -> Nat] /\ usage.total \in Nat
        /\ usage.total = Sum(usage.tokens, Prompt)
    <3>1. raw.prompt \in Nat /\ raw.tokens \in [TokenClasses -> Nat] /\ raw.tokens["input_fresh"] = 0
      BY <2>2, ReportedUsage
    <3> HIDE DEF raw, usage
    <3> QED
      BY <2>3, <3>1, NormalizedUsage
  <2>5. req.allowed \in Nat
    BY <2>1, <2>2, GrantIsMost
  <2> HIDE DEF usage, raw
  <2>6. billed = Billed(usage.tokens, Prompt)
    BY DEF Billed
  <2> HIDE DEF billed
  <2>7. QuoteAt(req.rules, usage, req.pin)
          <= QuoteFor(req.rules, req.bound, req.allowed, req.pin)
               + (IF Billed(usage.tokens, Prompt) = {} THEN 0
                  ELSE Cardinality(Billed(usage.tokens, Prompt)) - 1)
    <3>1. PricesAscend(req.rules, req.pin) /\ usage.total <= req.bound
          /\ usage.tokens["output"] <= req.allowed
      BY DEF usage
    <3> QED
      BY <2>1, <2>4, <2>5, <3>1, ChargeWithinQuote
  <2> QED
    BY <2>1, <2>3, <2>6, <2>7
<1>2. PricingInv => ChargedWithinQuote
  BY <1>1 DEF PricingInv
<1> QED
  BY <1>2, PricingInvariant, PTL

-----------------------------------------------------------------------------
(* Pricing: the price list *)

LEMMA MinuteBounds ==
  ASSUME NEW t \in Nat
  PROVE  /\ t \div PerMinute \in Nat
         /\ (t \div PerMinute) * PerMinute <= t
         /\ t < (t \div PerMinute) * PerMinute + PerMinute
<1>1. PerMinute \in Nat \ {0}
  BY PriceAssumption
<1>2. /\ t \div PerMinute \in Nat /\ t % PerMinute \in 0..(PerMinute - 1)
      /\ t = PerMinute * (t \div PerMinute) + (t % PerMinute)
  BY <1>1
<1> DEFINE q == t \div PerMinute
           r == t % PerMinute
<1>3. q \in Nat /\ r \in Int /\ 0 <= r /\ r <= PerMinute - 1 /\ t = q * PerMinute + r
  BY <1>1, <1>2
<1> HIDE DEF q, r
<1>4. q * PerMinute \in Nat
  BY <1>1, <1>3
<1>5. q * PerMinute <= t /\ t < q * PerMinute + PerMinute
  BY <1>1, <1>3, <1>4
<1> QED
  BY <1>3, <1>5 DEF q

(* Whether an instant is past a whole minute depends on its own minute.    *)
LEMMA PastWholeMinute ==
  ASSUME NEW t \in Nat, NEW edge \in Nat, edge % PerMinute = 0
  PROVE  t >= edge <=> t \div PerMinute >= edge \div PerMinute
<1> DEFINE q == t \div PerMinute
           e == edge \div PerMinute
<1>1. PerMinute \in Nat \ {0}
  BY PriceAssumption
<1>2. q \in Nat /\ q * PerMinute <= t /\ t < q * PerMinute + PerMinute
  BY MinuteBounds
<1>3. e \in Nat /\ edge = e * PerMinute
  <2>1. edge = PerMinute * (edge \div PerMinute) + (edge % PerMinute) /\ edge \div PerMinute \in Nat
    BY <1>1
  <2> QED
    BY <1>1, <2>1
<1> HIDE DEF q, e
<1>4. q * PerMinute \in Nat /\ e * PerMinute \in Nat /\ (q + 1) * PerMinute = q * PerMinute + PerMinute
  BY <1>1, <1>2, <1>3
<1>5. q >= e => t >= edge
  <2> SUFFICES ASSUME e <= q PROVE t >= edge
    BY <1>2, <1>3
  <2>1. e * PerMinute <= q * PerMinute
    BY <1>1, <1>2, <1>3, Cancel
  <2> QED
    BY <1>2, <1>3, <1>4, <2>1
<1>6. t >= edge => q >= e
  <2> SUFFICES ASSUME t >= edge PROVE q >= e
    OBVIOUS
  <2>1. e * PerMinute < (q + 1) * PerMinute
    BY <1>1, <1>2, <1>3, <1>4
  <2>2. e < q + 1
    <3>1. q + 1 \in Int
      BY <1>2
    <3> QED
      BY <1>1, <1>3, <2>1, <3>1, Cancel
  <2> QED
    BY <1>2, <1>3, <2>2
<1> QED
  BY <1>5, <1>6 DEF q, e

(* One window is in force throughout a minute.                             *)
LEMMA SameMinuteSameWindow ==
  ASSUME NEW rules, Ruled(rules), WholeMinutes(rules), NEW s \in Nat, NEW t \in Nat,
         s \div PerMinute = t \div PerMinute
  PROVE  WindowFor(rules, s) = WindowFor(rules, t)
<1>1. ASSUME NEW w \in rules.windows PROVE Matches(w, s) <=> Matches(w, t)
  <2>1. w.from \in Nat /\ w.until \in Nat \cup {NoInstant}
    BY DEF Ruled, Window
  <2>2. w.from % PerMinute = 0 /\ (w.until # NoInstant => w.until % PerMinute = 0)
    BY DEF WholeMinutes
  <2>3. s >= w.from <=> t >= w.from
    BY <2>1, <2>2, PastWholeMinute
  <2>4. w.until # NoInstant => (s < w.until <=> t < w.until)
    <3> SUFFICES ASSUME w.until # NoInstant PROVE s < w.until <=> t < w.until
      OBVIOUS
    <3>1. w.until \in Nat
      BY <2>1
    <3>2. s >= w.until <=> t >= w.until
      BY <2>2, <3>1, PastWholeMinute
    <3> QED
      BY <3>1, <3>2
  <2>5. WeekdayOf(s) = WeekdayOf(t) /\ MinuteOf(s) = MinuteOf(t)
    BY DEF WeekdayOf, MinuteOf
  <2> QED
    BY <2>3, <2>4, <2>5 DEF Matches
<1> DEFINE matching(x) == {w \in rules.windows : Matches(w, x)}
<1>2. matching(s) = matching(t)
  BY <1>1
<1>3. \A x : WindowFor(rules, x) =
              IF matching(x) = {} THEN NoWindow
              ELSE CHOOSE w \in matching(x) : \A v \in matching(x) :
                     \/ w.priority > v.priority
                     \/ w.priority = v.priority /\ w.id <= v.id
  BY DEF WindowFor
<1> HIDE DEF matching
<1> QED
  BY <1>2, <1>3

LEMMA MinOfFinite ==
  ASSUME NEW S, IsFiniteSet(S), S \subseteq Int, S # {}
  PROVE  Min(S) \in S /\ \A x \in S : Min(S) <= x
<1> DEFINE f == [x \in S |-> -x]
<1>1. f \in [S -> Int]
  OBVIOUS
<1>2. \A x \in S : f[x] = -x /\ x \in Int
  OBVIOUS
<1> HIDE DEF f
<1>3. PICK m \in S : \A x \in S : f[x] <= f[m]
  BY <1>1, BestExists
<1>4. \A x \in S : x >= m
  BY <1>2, <1>3
<1>5. \E x \in S : \A y \in S : x <= y
  BY <1>2, <1>3, <1>4
<1> QED
  BY <1>5 DEF Min

(* Until the announced change, and for eight days if there is none, the    *)
(* window in force stays the same.                                         *)
LEMMA NoChangeBeforeTheNext ==
  ASSUME NEW rules, Ruled(rules), WholeMinutes(rules), NEW s \in Nat, NEW t \in Nat, s <= t,
         t < IF NextBoundaryAfter(rules, s) # NoInstant THEN NextBoundaryAfter(rules, s)
             ELSE s + 8 * MinutesPerDay * PerMinute
  PROVE  WindowFor(rules, t) = WindowFor(rules, s)
<1> DEFINE first == s \div PerMinute
           last == t \div PerMinute
           start == first * PerMinute
           days == 8 * MinutesPerDay
           all == {start + m * PerMinute : m \in 1..days}
           changes == {u \in all : WindowFor(rules, u) # WindowFor(rules, s)}
           u == last * PerMinute
           next == NextBoundaryAfter(rules, s)
<1>1. PerMinute \in Nat \ {0} /\ days \in Nat /\ NoInstant \notin Nat
  BY PriceAssumption
<1>2. /\ first \in Nat /\ start <= s /\ s < start + PerMinute
      /\ last \in Nat /\ u <= t /\ t < u + PerMinute
  BY MinuteBounds
<1>3. next = IF changes = {} THEN NoInstant ELSE Min(changes)
  BY DEF NextBoundaryAfter, FirstChange
<1>4. IsFiniteSet(changes) /\ changes \subseteq Nat
  <2> DEFINE f == [m \in 1..days |-> start + m * PerMinute]
  <2>1. f \in Surjection(1..days, all)
    BY DEF Surjection
  <2>2. IsFiniteSet(all)
    BY <1>1, <2>1, FS_Interval, FS_Surjection
  <2>3. all \subseteq Nat
    <3> HIDE DEF days, first
    <3> QED
      BY <1>1, <1>2
  <2> HIDE DEF all
  <2> QED
    BY <2>2, <2>3, FS_Subset
<1>5. changes # {} => next \in changes /\ next # NoInstant /\ \A v \in changes : next <= v
  <2> HIDE DEF changes, next
  <2> SUFFICES ASSUME changes # {}
               PROVE  next \in changes /\ next # NoInstant /\ \A v \in changes : next <= v
    OBVIOUS
  <2>1. changes \subseteq Int
    BY <1>4
  <2>2. Min(changes) \in changes /\ \A v \in changes : Min(changes) <= v
    BY <1>4, <2>1, MinOfFinite
  <2> QED
    BY <1>1, <1>3, <1>4, <2>2
<1>6. u \notin changes
  <2> SUFFICES ASSUME u \in changes PROVE FALSE
    OBVIOUS
  <2>1. next \in Nat /\ next <= u /\ t < next /\ u \in Nat
    BY <1>4, <1>5
  <2> HIDE DEF next, u
  <2> QED
    BY <1>2, <2>1
<1>7. u \div PerMinute = last /\ u \in Nat
  <2> HIDE DEF last
  <2>1. u \in Nat
    BY <1>1, <1>2
  <2> DEFINE q == u \div PerMinute
  <2>2. q \in Nat /\ q * PerMinute <= last * PerMinute /\ last * PerMinute < q * PerMinute + PerMinute
    BY <2>1, MinuteBounds
  <2> HIDE DEF q
  <2>3. q <= last
    BY <1>1, <1>2, <2>2, Cancel
  <2>4. last < q + 1
    <3>1. (q + 1) * PerMinute = q * PerMinute + PerMinute /\ q + 1 \in Int
      BY <1>1, <2>2
    <3> QED
      BY <1>1, <1>2, <2>2, <3>1, Cancel
  <2> QED
    BY <1>2, <2>1, <2>2, <2>3, <2>4 DEF q
<1>8. WindowFor(rules, u) = WindowFor(rules, t)
  <2>1. u \div PerMinute = t \div PerMinute
    BY <1>7
  <2> HIDE DEF u
  <2> QED
    BY <1>7, <2>1, SameMinuteSameWindow
<1>9. CASE last = first
  BY <1>9, SameMinuteSameWindow
<1>10. CASE last # first
  <2>1. first < last
    <3> HIDE DEF first, last
    <3>1. first * PerMinute < (last + 1) * PerMinute
      <4>1. (last + 1) * PerMinute = last * PerMinute + PerMinute
        BY <1>1, <1>2
      <4>2. first * PerMinute \in Nat /\ last * PerMinute \in Nat
        BY <1>1, <1>2
      <4> QED
        BY <1>1, <1>2, <4>1, <4>2
    <3>2. first < last + 1
      <4>1. last + 1 \in Int
        BY <1>2
      <4> QED
        BY <1>1, <1>2, <3>1, <4>1, Cancel
    <3> QED
      BY <1>2, <1>10, <3>2
  <2>2. last - first \in 1..days
    <3>1. CASE changes = {}
      <4>1. t < s + days * PerMinute
        BY <1>3, <3>1
      <4>2. last * PerMinute < (first + days + 1) * PerMinute
        <5> HIDE DEF first, last, days, next, changes, all
        <5>1. (first + days + 1) * PerMinute = first * PerMinute + days * PerMinute + PerMinute
          BY <1>1, <1>2
        <5>2. first * PerMinute \in Nat /\ last * PerMinute \in Nat /\ days * PerMinute \in Nat
          BY <1>1, <1>2
        <5> QED
          BY <1>1, <1>2, <4>1, <5>1, <5>2
      <4>3. last < first + days + 1
        <5> HIDE DEF first, last, days, next, changes, all
        <5>1. first + days + 1 \in Int
          BY <1>1, <1>2
        <5> QED
          BY <1>1, <1>2, <4>2, <5>1, Cancel
      <4> HIDE DEF first, last, days, next, changes, all
      <4> QED
        BY <1>1, <1>2, <2>1, <4>3
    <3>2. CASE changes # {}
      <4>1. next \in all /\ t < next
        BY <1>5, <3>2
      <4>2. PICK m \in 1..days : next = start + m * PerMinute
        BY <4>1
      <4>3. last * PerMinute < (first + m) * PerMinute
        <5> HIDE DEF first, last, days, next, changes, all
        <5>1. (first + m) * PerMinute = first * PerMinute + m * PerMinute
          BY <1>1, <1>2
        <5>2. first * PerMinute \in Nat /\ last * PerMinute \in Nat /\ m * PerMinute \in Nat
          BY <1>1, <1>2
        <5> QED
          BY <1>1, <1>2, <4>1, <4>2, <5>1, <5>2
      <4> HIDE DEF first, last, days, next, changes, all
      <4>4. last < first + m
        <5>1. first + m \in Int
          BY <1>2
        <5> QED
          BY <1>1, <1>2, <4>3, <5>1, Cancel
      <4> QED
        BY <1>1, <1>2, <2>1, <4>4
    <3> QED
      BY <3>1, <3>2
  <2>3. u = start + (last - first) * PerMinute
    <3> HIDE DEF first, last
    <3> QED
      BY <1>1, <1>2
  <2>4. u \in all
    <3> HIDE DEF first, last, days
    <3> QED
      BY <2>2, <2>3
  <2>5. WindowFor(rules, u) = WindowFor(rules, s)
    BY <1>6, <2>4
  <2> QED
    BY <1>8, <2>5
<1> QED
  BY <1>9, <1>10

(* A rate is shown rounded up to a nano-USD for a million tokens; what the *)
(* tokens cost is what they would at that rate, or less by under one nano. *)
LEMMA LineIsAsShown ==
  ASSUME NEW rate \in Nat, NEW tokens \in Nat, NEW scale, scale.num \in Nat, scale.den \in Nat \ {0}
  PROVE  LET shown == CostForTokens(PerMillion, rate, scale)
             line == CostForTokens(tokens, rate, scale) IN
         /\ line <= CeilQuotient(tokens * shown, PerMillion)
         /\ line * PerMillion >= tokens * (shown - 1)
<1> DEFINE M == PerMillion
           x == rate * scale.num
           d == scale.den
           shown == CostForTokens(M, rate, scale)
           line == CostForTokens(tokens, rate, scale)
<1>1. M \in Nat \ {0} /\ x \in Nat /\ d \in Nat \ {0}
  BY PriceAssumption
<1>2. shown = CeilQuotient(M * x, M * d) /\ line = CeilQuotient(tokens * x, M * d)
  <2>1. M * rate * scale.num = M * x /\ tokens * rate * scale.num = tokens * x
    BY PriceAssumption
  <2> QED
    BY <2>1 DEF CostForTokens
<1> HIDE DEF M, x, d, shown, line
<1>3. M * x \in Nat /\ tokens * x \in Nat /\ M * d \in Nat \ {0}
  BY <1>1
<1>4. /\ shown \in Nat /\ M * x <= shown * (M * d) /\ shown * (M * d) < M * x + M * d
      /\ line \in Nat /\ tokens * x <= line * (M * d)
  BY <1>2, <1>3, CeilBounds
<1>5. x <= shown * d
  <2>1. shown * (M * d) = (shown * d) * M /\ M * x = x * M /\ shown * d \in Nat
    BY <1>1, <1>4
  <2> QED
    BY <1>1, <1>4, <2>1, Cancel
<1>6. line <= CeilQuotient(tokens * shown, M)
  <2>1. tokens * x <= tokens * (shown * d) /\ tokens * (shown * d) \in Nat
    <3>1. shown * d \in Nat /\ tokens <= tokens
      BY <1>1, <1>4
    <3> QED
      BY <1>1, <1>5, <3>1, ProductGrows
  <2>2. (tokens * x) * M <= (tokens * (shown * d)) * M
    BY <1>1, <1>3, <2>1, Cancel
  <2>3. (tokens * (shown * d)) * M = (tokens * shown) * (M * d) /\ tokens * shown \in Nat
    BY <1>1, <1>4
  <2>4. (tokens * x) * M <= (tokens * shown) * (M * d)
    BY <2>2, <2>3
  <2> QED
    BY <1>1, <1>2, <1>3, <2>3, <2>4, CeilMonotonic
<1>7. line * M >= tokens * (shown - 1)
  <2>1. CASE shown = 0
    <3>1. line * M \in Nat /\ tokens * (shown - 1) = -tokens
      BY <1>1, <1>4, <2>1
    <3> QED
      BY <3>1
  <2>2. CASE shown # 0
    <3> DEFINE less == shown - 1
    <3>1. less \in Nat /\ shown = less + 1
      BY <1>4, <2>2
    <3> HIDE DEF less
    <3>2. (less * d) * M < x * M
      <4>1. shown * (M * d) = (less * d) * M + M * d /\ M * x = x * M
        BY <1>1, <1>4, <3>1
      <4>2. (less * d) * M \in Nat /\ M * d \in Nat /\ x * M \in Nat
        BY <1>1, <3>1
      <4> QED
        BY <1>4, <4>1, <4>2
    <3>3. less * d < x /\ less * d \in Nat
      <4>1. less * d \in Nat
        BY <1>1, <3>1
      <4> QED
        BY <1>1, <3>2, <4>1, Cancel
    <3>4. tokens * (less * d) <= tokens * x
      <4>1. less * d <= x /\ tokens <= tokens
        BY <1>1, <3>3
      <4> QED
        BY <1>1, <3>3, <4>1, ProductGrows
    <3>5. (tokens * less) * d <= (line * M) * d
      <4>1. tokens * (less * d) = (tokens * less) * d /\ line * (M * d) = (line * M) * d
        BY <1>1, <1>4, <3>1
      <4>2. tokens * (less * d) \in Nat /\ line * (M * d) \in Nat
        BY <1>1, <1>4, <3>1, <3>3
      <4> QED
        BY <1>3, <1>4, <3>4, <4>1, <4>2
    <3>6. tokens * less <= line * M
      <4>1. tokens * less \in Int /\ line * M \in Int
        BY <1>1, <1>4, <3>1
      <4> QED
        BY <1>1, <3>5, <4>1, Cancel
    <3> QED
      BY <3>6 DEF less
  <2> QED
    BY <2>1, <2>2
<1> QED
  BY <1>6, <1>7 DEF M, shown, line

(* The tier that is found in the list is the one that is charged by.       *)
LEMMA TierIsAsShown ==
  ASSUME NEW rules, Ruled(rules), Apart(rules.tiers), NEW window, NEW total \in Nat
  PROVE  LET reached == {t \in ShownTiers(rules, window) : total > t.above}
             found == CHOOSE t \in reached : \A u \in reached : u.above <= t.above IN
         RatesView(RatesForPromptTotal(rules, total), window)
           = IF reached = {} THEN RatesView(RatesForPromptTotal(rules, 0), window) ELSE found.rates
<1> DEFINE V(t) == [above |-> t.above, rates |-> RatesView(t.rates, window)]
           passed == TiersPassed(rules, total)
           reached == {t \in ShownTiers(rules, window) : total > t.above}
           found == CHOOSE t \in reached : \A u \in reached : u.above <= t.above
<1>1. \A t \in rules.tiers : t.above \in Nat /\ V(t).above = t.above /\ V(t).rates = RatesView(t.rates, window)
  BY DEF Ruled
<1>2. passed = {t \in rules.tiers : total > t.above}
  BY DEF TiersPassed
<1>3. reached = {V(t) : t \in passed}
  <2>1. ShownTiers(rules, window) = {V(t) : t \in rules.tiers}
    BY DEF ShownTiers
  <2> HIDE DEF V
  <2> QED
    BY <1>1, <1>2, <2>1
<1> HIDE DEF V, passed, reached
<1>4. CASE passed = {}
  <2>1. TiersPassed(rules, 0) = {}
    BY <1>1 DEF TiersPassed
  <2>2. RatesForPromptTotal(rules, total) = RatesForPromptTotal(rules, 0)
    BY <1>4, <2>1 DEF RatesForPromptTotal, passed
  <2>3. reached = {}
    BY <1>3, <1>4
  <2> QED
    BY <2>2, <2>3 DEF reached
<1>5. CASE passed # {}
  <2> DEFINE best(t) == \A u \in passed : u.above <= t.above
             top == CHOOSE t \in passed : best(t)
  <2>1. RatesForPromptTotal(rules, total) = top.rates
    BY <1>5 DEF RatesForPromptTotal, passed
  <2>2. top \in passed /\ best(top)
    <3> DEFINE above == [t \in passed |-> t.above]
    <3>1. IsFiniteSet(passed)
      BY <1>2, FS_Subset DEF Ruled
    <3>2. above \in [passed -> Int]
      BY <1>1, <1>2
    <3>3. PICK m \in passed : \A x \in passed : above[x] <= above[m]
      BY <1>5, <3>1, <3>2, BestExists
    <3>4. best(m)
      BY <3>3
    <3> HIDE DEF best
    <3> QED
      BY <3>4
  <2> HIDE DEF top
  <2>3. V(top) \in reached /\ \A u \in reached : u.above <= V(top).above
    BY <1>1, <1>2, <1>3, <2>2
  <2>4. found \in reached /\ \A u \in reached : u.above <= found.above
    BY <2>3
  <2> HIDE DEF found
  <2>5. PICK t \in passed : found = V(t)
    BY <1>3, <2>4
  <2>6. t.above = top.above
    <3>1. t.above <= top.above
      BY <2>2, <2>5
    <3>2. top.above <= t.above
      BY <1>1, <1>2, <2>2, <2>3, <2>4, <2>5
    <3>3. t.above \in Nat /\ top.above \in Nat
      BY <1>1, <1>2, <2>2
    <3> QED
      BY <3>1, <3>2, <3>3
  <2>7. t = top
    BY <1>2, <2>2, <2>5, <2>6 DEF Apart
  <2>8. found.rates = RatesView(RatesForPromptTotal(rules, total), window)
    BY <1>1, <1>2, <2>1, <2>2, <2>5, <2>7
  <2>9. reached # {}
    BY <2>3
  <2> QED
    BY <2>8, <2>9 DEF found, reached
<1> QED
  BY <1>4, <1>5

(* For every rule set whose windows begin and end at whole minutes, and    *)
(* every interleaving of requests, price lists, edits and the clock: a     *)
(* request pinned before the change that a list announced, and priced by   *)
(* the rules it showed, pays on each line what the list says, to within    *)
(* the rounding of the shown rates (modelPricingSnapshot,                  *)
(* NextBoundaryAfter).                                                     *)
THEOREM PricesHoldUntilTheNext == PricingSpec => []ChargedAsShown
<1>1. ASSUME RequestInv, ListInv PROVE ChargedAsShown
  <2> DEFINE rules == list.rules
             usage == req.receipt.usage
             reached == {t \in list.tiers : usage.total > t.above}
             rates == IF reached = {} THEN list.base
                      ELSE (CHOOSE t \in reached : \A u \in reached : u.above <= t.above).rates
  <2> SUFFICES ASSUME Charged, list.phase = "shown", req.receipt.rules = rules, WholeMinutes(rules),
                      req.pin >= list.at,
                      req.pin < IF list.next # NoInstant THEN list.next
                                ELSE list.at + 8 * MinutesPerDay * PerMinute,
                      NEW c \in TokenClasses
               PROVE  /\ req.receipt.lines[c] <= CeilQuotient(usage.tokens[c] * rates[c], PerMillion)
                      /\ req.receipt.lines[c] * PerMillion >= usage.tokens[c] * (rates[c] - 1)
    BY DEF ChargedAsShown
  <2> DEFINE window == WindowFor(rules, list.at)
             mine == RatesForPromptTotal(rules, usage.total)
  <2>1. /\ req.asked \in Requests /\ req.pin \in Nat /\ req.receipt = Receipt(req)
        /\ req.rules = rules
    <3>1. req.receipt = Receipt(req) /\ req.asked \in Requests /\ req.pin \in Nat
      BY <1>1 DEF RequestInv, Charged
    <3>2. Receipt(req).rules = req.rules
      BY DEF Receipt
    <3> QED
      BY <3>1, <3>2
  <2>2. /\ list.at \in Nat /\ Ruled(rules) /\ Apart(rules.tiers)
        /\ list.next = NextBoundaryAfter(rules, list.at)
        /\ list.base = RatesView(RatesForPromptTotal(rules, 0), window)
        /\ list.tiers = ShownTiers(rules, window)
    BY <1>1 DEF ListInv
  <2>3. /\ usage = NormalizeUsage(Reported(req.asked, req.model.speaks, req.model.target),
                                  req.model.accounting)
        /\ req.receipt.lines = Lines(rules, usage, req.pin)
    BY <2>1 DEF Receipt, PricedAt
  <2>4. usage.tokens \in [TokenClasses -> Nat] /\ usage.total \in Nat
    <3>1. Generation(req.asked)
      BY <2>1, PricingAssumption DEF Generation
    <3> DEFINE raw == Reported(req.asked, req.model.speaks, req.model.target)
    <3>2. raw.prompt \in Nat /\ raw.tokens \in [TokenClasses -> Nat] /\ raw.tokens["input_fresh"] = 0
      BY <3>1, ReportedUsage
    <3> HIDE DEF raw, usage
    <3> QED
      BY <2>3, <3>2, NormalizedUsage DEF raw
  <2>5. WindowFor(rules, req.pin) = window
    <3> HIDE DEF rules
    <3> QED
      BY <2>1, <2>2, NoChangeBeforeTheNext
  <2>6. rates = RatesView(mine, window)
    <3> HIDE DEF rules, usage, window
    <3> QED
      BY <2>2, <2>4, TierIsAsShown
  <2>7. mine \in Rates /\ RateFor(mine, c) \in Nat
    <3> HIDE DEF rules, usage
    <3> QED
      BY <2>2, <2>4, TierFound, RateType
  <2> DEFINE scale == Scale(window, c)
             rate == RateFor(mine, c)
  <2>8. rates[c] = CostForTokens(PerMillion, rate, scale)
    <3> HIDE DEF rates
    <3> QED
      BY <2>6 DEF RatesView
  <2>9. req.receipt.lines[c] = CostForTokens(usage.tokens[c], rate, scale)
    <3> HIDE DEF usage, rules
    <3> QED
      BY <2>3, <2>5 DEF Lines
  <2>10. scale.num \in Nat /\ scale.den \in Nat \ {0} /\ usage.tokens[c] \in Nat
    <3> HIDE DEF usage, rules
    <3> QED
      BY <2>2, <2>4, ScaleType
  <2> HIDE DEF usage, rules, rates, window, mine, scale, rate
  <2>11. rate \in Nat
    BY <2>7 DEF rate
  <2> QED
    BY <2>8, <2>9, <2>10, <2>11, LineIsAsShown
<1>2. PricingInv => ChargedAsShown
  BY <1>1 DEF PricingInv
<1> QED
  BY <1>2, PricingInvariant, PTL

=============================================================================
