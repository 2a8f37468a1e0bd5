----------------------- MODULE LimiterProofs -----------------------
(***************************************************************************)
(* Proofs about the limiter.                                               *)
(*                                                                         *)
(* The generation lease: as long as fewer than TTL - 1 renewals in a row   *)
(* fail, it gives every scope to one generation at a time, for any number  *)
(* of handlers, requests and users, reused request ids included; and a     *)
(* generation that is over leaves a key that runs out.                     *)
(*                                                                         *)
(* The cache of the definitions (LimiterDefs): how old the definitions of  *)
(* a decision may be, and where an edit binds the next request, for any    *)
(* number of gateways, requests and edits.                                 *)
(***************************************************************************)
EXTENDS GenerationLease, LimiterDefs, TLAPS

(* The renewals that may fail leave the lease a heartbeat to spare.        *)
RenewalsSuffice == MaxMissed + 1 < TTL

(* Heartbeats that have passed since the lease was last set.               *)
Behind(h) == missed[h] + (IF due[h] THEN 1 ELSE 0)

HandlerInv(h) ==
  /\ phase[h] # "idle" => request[h] \in Requests
  /\ Generating(h) => /\ lease[ScopeOf(h)] \in Lease
                      /\ lease[ScopeOf(h)].id = request[h].id
                      /\ lease[ScopeOf(h)].ttl + Behind(h) >= TTL
  /\ ~Generating(h) => missed[h] = 0 /\ ~due[h]

(* The inductive invariant: a running generation owns a live lease, so the *)
(* SETNX of any other handler of the scope finds the key present.          *)
IInv == TypeOK /\ (\A h \in Handlers : HandlerInv(h)) /\ OneHolder

LEMMA ScopesOfRequests == ASSUME NEW r \in Requests PROVE Scope(r) \in Scopes
BY DEF Scopes

LEMMA InitIInv == Init => IInv
<1> SUFFICES ASSUME Init PROVE IInv
  OBVIOUS
<1>1. TypeOK
  BY LeaseAssumption DEF Init, TypeOK
<1>2. \A h \in Handlers : ~Generating(h)
  BY DEF Init, Generating
<1>3. (\A h \in Handlers : HandlerInv(h)) /\ OneHolder
  BY <1>2 DEF HandlerInv, OneHolder, Init
<1> QED
  BY <1>1, <1>3 DEF IInv

(* A handler that goes idle disturbs nobody.                               *)
LEMMA FinishKeepsIInv ==
  ASSUME IInv, NEW h \in Handlers, Finish(h),
         lease' \in [Scopes -> Lease \cup {NoLease}],
         \A k \in Handlers \ {h} : Generating(k) => lease'[ScopeOf(k)] = lease[ScopeOf(k)]
  PROVE  IInv'
<1>1. TypeOK'
  BY LeaseAssumption DEF IInv, TypeOK, Finish
<1>2. ~Generating(h)' /\ \A k \in Handlers \ {h} :
        /\ Generating(k)' = Generating(k) /\ ScopeOf(k)' = ScopeOf(k) /\ Behind(k)' = Behind(k)
        /\ phase'[k] = phase[k] /\ request'[k] = request[k] /\ missed'[k] = missed[k] /\ due'[k] = due[k]
  BY DEF Finish, Generating, ScopeOf, Behind, IInv, TypeOK
<1>3. HandlerInv(h)'
  BY <1>2 DEF HandlerInv, Finish, Generating, IInv, TypeOK
<1>4. \A k \in Handlers \ {h} : HandlerInv(k)'
  BY <1>2 DEF HandlerInv, IInv
<1>5. OneHolder'
  BY <1>2 DEF OneHolder, IInv
<1> QED
  BY <1>1, <1>3, <1>4, <1>5 DEF IInv

LEMMA ArriveKeepsIInv ==
  ASSUME IInv, NEW h \in Handlers, NEW r \in Requests, Arrive(h, r)
  PROVE  IInv'
<1>1. TypeOK'
  BY DEF IInv, TypeOK, Arrive
<1>2. ~Generating(h) /\ ~Generating(h)' /\ \A k \in Handlers \ {h} :
        /\ Generating(k)' = Generating(k) /\ ScopeOf(k)' = ScopeOf(k)
        /\ phase'[k] = phase[k] /\ request'[k] = request[k]
  BY DEF Arrive, Generating, ScopeOf, IInv, TypeOK
<1>3. HandlerInv(h)'
  BY <1>2 DEF HandlerInv, Arrive, IInv, TypeOK
<1>4. \A k \in Handlers \ {h} : HandlerInv(k)'
  BY <1>2 DEF HandlerInv, IInv, Arrive, Behind
<1>5. OneHolder'
  BY <1>2 DEF OneHolder, IInv
<1> QED
  BY <1>1, <1>3, <1>4, <1>5 DEF IInv

(* A free key means that nobody generates in the scope.                    *)
LEMMA FreeScopeIsEmpty ==
  ASSUME IInv, NEW s, Free(s)
  PROVE  \A k \in Handlers : ~(Generating(k) /\ ScopeOf(k) = s)
BY NoLeaseIsAbsence DEF IInv, HandlerInv, Free

LEMMA AcquireKeepsIInv ==
  ASSUME IInv, NEW h \in Handlers, Acquire(h)
  PROVE  IInv'
<1> DEFINE s == ScopeOf(h)
           l == [id |-> request[h].id, ttl |-> TTL]
<1>1. request[h] \in Requests /\ s \in Scopes /\ l \in Lease
  BY LeaseAssumption, ScopesOfRequests DEF Acquire, IInv, HandlerInv, ScopeOf, Lease, Ids
<1>2. /\ lease' = [lease EXCEPT ![s] = l] /\ phase' = [phase EXCEPT ![h] = "generating"]
      /\ UNCHANGED <<request, missed, due>> /\ ~Generating(h)
  BY DEF Acquire, Grant, Generating
<1>3. \A k \in Handlers : ~(Generating(k) /\ ScopeOf(k) = s)
  BY FreeScopeIsEmpty DEF Acquire
<1> HIDE DEF s, l
<1>4. TypeOK'
  BY <1>1, <1>2 DEF IInv, TypeOK
<1>5. /\ Generating(h)' /\ ScopeOf(h)' = s /\ lease'[s] = l /\ request'[h] = request[h]
      /\ \A k \in Handlers \ {h} :
           /\ Generating(k)' = Generating(k) /\ ScopeOf(k)' = ScopeOf(k)
           /\ phase'[k] = phase[k] /\ Behind(k)' = Behind(k)
           /\ Generating(k) => lease'[ScopeOf(k)] = lease[ScopeOf(k)]
  BY <1>1, <1>2, <1>3 DEF Generating, ScopeOf, Behind, IInv, TypeOK, s
<1>6. HandlerInv(h)'
  <2>1. Behind(h)' = 0
    BY <1>2 DEF Behind, IInv, HandlerInv
  <2> QED
    BY <1>1, <1>2, <1>5, <2>1, LeaseAssumption DEF HandlerInv, l
<1>7. \A k \in Handlers \ {h} : HandlerInv(k)'
  BY <1>2, <1>5 DEF HandlerInv, IInv
<1>8. OneHolder'
  BY <1>3, <1>5 DEF OneHolder, IInv
<1> QED
  BY <1>4, <1>6, <1>7, <1>8 DEF IInv

LEMMA GeneratingScope ==
  ASSUME IInv, NEW k \in Handlers, Generating(k)
  PROVE  request[k] \in Requests /\ ScopeOf(k) \in Scopes /\ ScopeOf(k) = Scope(request[k])
BY ScopesOfRequests DEF IInv, HandlerInv, Generating, ScopeOf

(* A heartbeat of h; the leases of the others stay.                        *)
LEMMA HeartbeatKeepsIInv ==
  ASSUME IInv, NEW h \in Handlers, Renew(h) \/ RenewFails(h)
  PROVE  IInv'
<1> DEFINE s == ScopeOf(h)
<1>1. /\ Generating(h) /\ request[h] \in Requests /\ s \in Scopes
      /\ lease[s] \in Lease /\ lease[s].id = request[h].id /\ Owns(h)
      /\ lease[s].ttl + missed[h] + 1 >= TTL
  <2>1. Generating(h) /\ due[h] = TRUE /\ missed[h] \in Nat
    BY DEF Renew, RenewFails, IInv, TypeOK
  <2>2. Behind(h) = missed[h] + 1
    BY <2>1 DEF Behind
  <2>3. lease[s] \in Lease /\ lease[s].id = request[h].id /\ lease[s].ttl + (missed[h] + 1) >= TTL
    BY <2>1, <2>2 DEF IInv, HandlerInv
  <2>4. lease[s].ttl \in Int /\ TTL \in Int
    BY <2>3, LeaseAssumption DEF Lease
  <2>5. Owns(h)
    BY <2>3, NoLeaseIsAbsence DEF Owns
  <2> QED
    BY <2>1, <2>3, <2>4, <2>5, GeneratingScope
<1>2. \A k \in Handlers \ {h} : Generating(k) => ScopeOf(k) # s
  BY <1>1 DEF IInv, OneHolder
<1>3. /\ UNCHANGED <<phase, request>> /\ due' = [due EXCEPT ![h] = FALSE]
      /\ \/ lease' = [lease EXCEPT ![s].ttl = TTL] /\ missed' = [missed EXCEPT ![h] = 0]
         \/ lease' = lease /\ missed[h] < MaxMissed /\ missed' = [missed EXCEPT ![h] = @ + 1]
  BY <1>1 DEF Renew, RenewFails
<1> HIDE DEF s
<1>4. [lease[s] EXCEPT !.ttl = TTL] \in Lease
  BY <1>1, LeaseAssumption DEF Lease
<1>5. lease' \in [Scopes -> Lease \cup {NoLease}]
  BY <1>1, <1>3, <1>4 DEF IInv, TypeOK
<1>6. TypeOK'
  BY <1>3, <1>5, LeaseAssumption DEF IInv, TypeOK
<1>7. /\ Generating(h)' /\ ScopeOf(h)' = s
      /\ \A k \in Handlers \ {h} :
           /\ Generating(k)' = Generating(k) /\ ScopeOf(k)' = ScopeOf(k) /\ Behind(k)' = Behind(k)
           /\ phase'[k] = phase[k] /\ request'[k] = request[k]
           /\ missed'[k] = missed[k] /\ due'[k] = due[k]
           /\ Generating(k) => lease'[ScopeOf(k)] = lease[ScopeOf(k)]
  <2>1. Generating(h)' /\ ScopeOf(h)' = s
    BY <1>1, <1>3 DEF Generating, ScopeOf, s
  <2>2. ASSUME NEW k \in Handlers \ {h}
        PROVE  /\ Generating(k)' = Generating(k) /\ ScopeOf(k)' = ScopeOf(k)
               /\ phase'[k] = phase[k] /\ request'[k] = request[k]
               /\ missed'[k] = missed[k] /\ due'[k] = due[k]
    BY <1>3 DEF Generating, ScopeOf, IInv, TypeOK
  <2>3. ASSUME NEW k \in Handlers \ {h}, Generating(k) PROVE lease'[ScopeOf(k)] = lease[ScopeOf(k)]
    BY <1>1, <1>2, <1>3, <2>3, GeneratingScope DEF IInv, TypeOK
  <2> QED
    BY <2>1, <2>2, <2>3 DEF Behind
<1>8. HandlerInv(h)'
  <2>1. lease'[s] \in Lease /\ lease'[s].id = request[h].id /\ lease'[s].ttl + missed'[h] >= TTL
    <3>1. CASE lease' = [lease EXCEPT ![s].ttl = TTL] /\ missed' = [missed EXCEPT ![h] = 0]
      BY <1>1, <1>4, <3>1, LeaseAssumption DEF IInv, TypeOK, Lease
    <3>2. CASE lease' = lease /\ missed' = [missed EXCEPT ![h] = @ + 1]
      BY <1>1, <3>2 DEF IInv, TypeOK, Lease
    <3> QED
      BY <1>3, <3>1, <3>2
  <2>2. Behind(h)' = missed'[h] + 0
    BY <1>3 DEF Behind, IInv, TypeOK
  <2>3. missed'[h] \in Nat
    BY <1>6 DEF TypeOK
  <2> QED
    BY <1>1, <1>3, <1>7, <2>1, <2>2, <2>3 DEF HandlerInv
<1>9. \A k \in Handlers \ {h} : HandlerInv(k)'
  BY <1>7 DEF HandlerInv, IInv
<1>10. OneHolder'
  BY <1>1, <1>2, <1>7 DEF OneHolder, IInv
<1> QED
  BY <1>6, <1>8, <1>9, <1>10 DEF IInv

(* The ways out of the guard.                                              *)
LEMMA LeaveKeepsIInv ==
  ASSUME IInv, NEW h \in Handlers,
         AcquireUnacknowledged(h) \/ GiveUp(h) \/ Release(h) \/ ReleaseLost(h)
  PROVE  IInv'
<1> DEFINE s == ScopeOf(h)
<1>1. Finish(h)
  BY DEF AcquireUnacknowledged, GiveUp, Release, ReleaseLost
<1>2. request[h] \in Requests /\ s \in Scopes
  BY ScopesOfRequests
     DEF AcquireUnacknowledged, GiveUp, Release, ReleaseLost, Generating, IInv, HandlerInv, ScopeOf
<1>3. CASE AcquireUnacknowledged(h)
  <2>1. [id |-> request[h].id, ttl |-> TTL] \in Lease
    BY <1>2, LeaseAssumption DEF Lease, Ids
  <2>2. lease' \in [Scopes -> Lease \cup {NoLease}]
    BY <1>2, <1>3, <2>1 DEF AcquireUnacknowledged, Grant, IInv, TypeOK
  <2>3. \A k \in Handlers : Generating(k) => ScopeOf(k) # s
    BY <1>3, FreeScopeIsEmpty DEF AcquireUnacknowledged
  <2>4. \A k \in Handlers \ {h} : Generating(k) => lease'[ScopeOf(k)] = lease[ScopeOf(k)]
    BY <1>3, <2>3 DEF AcquireUnacknowledged, Grant, IInv, TypeOK
  <2> QED
    BY <1>1, <2>2, <2>4, FinishKeepsIInv
<1>4. CASE GiveUp(h) \/ ReleaseLost(h)
  <2>1. lease' = lease
    BY <1>4 DEF GiveUp, ReleaseLost
  <2> QED
    BY <1>1, <2>1, FinishKeepsIInv DEF IInv, TypeOK
<1>5. CASE Release(h)
  <2>1. lease' = lease \/ lease' = [lease EXCEPT ![s] = NoLease]
    BY <1>5 DEF Release
  <2>2. \A k \in Handlers \ {h} : Generating(k) => ScopeOf(k) # s
    BY <1>5 DEF Release, IInv, OneHolder
  <2>3. lease' \in [Scopes -> Lease \cup {NoLease}]
    BY <2>1 DEF IInv, TypeOK
  <2>4. ASSUME NEW k \in Handlers \ {h}, Generating(k) PROVE lease'[ScopeOf(k)] = lease[ScopeOf(k)]
    <3>1. ScopeOf(k) \in Scopes /\ ScopeOf(k) # s
      BY <2>2, <2>4, GeneratingScope
    <3> HIDE DEF s
    <3> QED
      BY <2>1, <3>1 DEF IInv, TypeOK
  <2> QED
    BY <1>1, <2>3, <2>4, FinishKeepsIInv
<1> QED
  BY <1>3, <1>4, <1>5

(* Time: no lease of a running generation expires.                         *)
LEMMA TickKeepsIInv ==
  ASSUME RenewalsSuffice, IInv, Tick
  PROVE  IInv'
<1>1. /\ lease' = [s \in Scopes |-> Aged(lease[s])] /\ due' = [h \in Handlers |-> Generating(h)]
      /\ UNCHANGED <<phase, request, missed>> /\ \A h \in Handlers : ~due[h]
  BY DEF Tick
<1>2. \A s \in Scopes : Aged(lease[s]) \in Lease \cup {NoLease}
  <2> SUFFICES ASSUME NEW s \in Scopes, lease[s] # NoLease, lease[s].ttl # 1
               PROVE  [lease[s] EXCEPT !.ttl = lease[s].ttl - 1] \in Lease
    BY DEF Aged
  <2>1. lease[s] \in Lease
    BY DEF IInv, TypeOK
  <2> QED
    BY <2>1, LeaseAssumption DEF Lease
<1>3. TypeOK'
  BY <1>1, <1>2 DEF IInv, TypeOK, Generating
<1>4. ASSUME NEW h \in Handlers PROVE HandlerInv(h)'
  <2>1. Generating(h)' = Generating(h) /\ ScopeOf(h)' = ScopeOf(h)
    BY <1>1 DEF Generating, ScopeOf
  <2>2. CASE Generating(h)
    <3> DEFINE l == lease[ScopeOf(h)]
    <3>1. /\ request[h] \in Requests /\ ScopeOf(h) \in Scopes
          /\ l \in Lease /\ l.id = request[h].id /\ l.ttl + missed[h] >= TTL /\ missed[h] \in 0..MaxMissed
      BY <1>1, <2>2, ScopesOfRequests DEF IInv, TypeOK, HandlerInv, Behind, ScopeOf, Generating
    <3>2. l.ttl > 1 /\ l.ttl \in Nat /\ TTL \in Nat
      BY <3>1, LeaseAssumption DEF RenewalsSuffice, Lease
    <3>3. lease'[ScopeOf(h)] = [l EXCEPT !.ttl = l.ttl - 1]
      BY <1>1, <3>1, <3>2, NoLeaseIsAbsence DEF Aged
    <3>4. /\ lease'[ScopeOf(h)] \in Lease /\ lease'[ScopeOf(h)].id = request[h].id
          /\ lease'[ScopeOf(h)].ttl = l.ttl - 1
      BY <3>1, <3>2, <3>3 DEF Lease
    <3>5. Behind(h)' = missed[h] + 1
      BY <1>1, <2>2 DEF Behind
    <3> QED
      BY <1>1, <2>1, <2>2, <3>1, <3>2, <3>4, <3>5 DEF HandlerInv
  <2>3. CASE ~Generating(h)
    BY <1>1, <2>1, <2>3 DEF HandlerInv, IInv
  <2> QED
    BY <2>2, <2>3
<1>5. OneHolder'
  BY <1>1 DEF OneHolder, IInv, Generating, ScopeOf
<1> QED
  BY <1>3, <1>4, <1>5 DEF IInv

THEOREM LeaseInvariant ==
  ASSUME RenewalsSuffice
  PROVE  Spec => []IInv
<1>1. IInv /\ Next => IInv'
  BY ArriveKeepsIInv, AcquireKeepsIInv, LeaveKeepsIInv, HeartbeatKeepsIInv, TickKeepsIInv DEF Next
<1>2. IInv /\ UNCHANGED vars => IInv'
  BY DEF IInv, TypeOK, HandlerInv, OneHolder, Behind, Generating, ScopeOf, vars
<1> QED
  BY <1>1, <1>2, InitIInv, PTL DEF Spec

(* At most one generation runs in a scope.                                 *)
THEOREM LeaseExcludes ==
  ASSUME RenewalsSuffice
  PROVE  Spec => []OneHolder
BY LeaseInvariant, PTL DEF IInv

(* The key of a running generation is there and its own.                   *)
THEOREM LeaseIsKept ==
  ASSUME RenewalsSuffice
  PROVE  Spec => []HolderKeepsLease
<1>1. IInv => HolderKeepsLease
  BY NoLeaseIsAbsence DEF IInv, HandlerInv, HolderKeepsLease, Owns
<1> QED
  BY <1>1, LeaseInvariant, PTL

(* The guard implements exclusive scopes.                                  *)
THEOREM LeaseImplementsExclusiveScope ==
  ASSUME RenewalsSuffice
  PROVE  Spec => ImplementsExclusiveScope
<1>1. Init => Guard!Init
  BY DEF Init, Guard!Init, Inside, Generating
<1> DEFINE Left(h) == /\ Generating(h) /\ phase' = [phase EXCEPT ![h] = "idle"]
                      /\ request' = [request EXCEPT ![h] = NoRequest]
<1>2. ASSUME IInv, NEW h \in Handlers, Left(h) PROVE Guard!Leave(h)
  <2>1. Inside[h] # Outside
    BY <1>2, GeneratingScope, OutsideIsNoScope DEF Inside
  <2>2. Inside' = [Inside EXCEPT ![h] = Outside]
    BY <1>2 DEF Inside, Generating, ScopeOf, IInv, TypeOK
  <2> QED
    BY <2>1, <2>2 DEF Guard!Leave
<1>3. ASSUME IInv, NEW h \in Handlers, Acquire(h) PROVE Guard!Enter(h, ScopeOf(h)) /\ ScopeOf(h) \in Scopes
  <2>1. ScopeOf(h) \in Scopes
    BY <1>3, ScopesOfRequests DEF Acquire, IInv, HandlerInv, ScopeOf
  <2>2. Inside[h] = Outside /\ \A k \in Handlers : Inside[k] # ScopeOf(h)
    BY <1>3, <2>1, FreeScopeIsEmpty, OutsideIsNoScope DEF Acquire, Inside, Generating
  <2>3. Inside' = [Inside EXCEPT ![h] = ScopeOf(h)]
    BY <1>3 DEF Acquire, Inside, Generating, ScopeOf, IInv, TypeOK
  <2> QED
    BY <2>1, <2>2, <2>3 DEF Guard!Enter
<1>4. ASSUME IInv, NEW h \in Handlers, ~Generating(h), ~Generating(h)',
             \A k \in Handlers \ {h} : phase'[k] = phase[k] /\ request'[k] = request[k]
      PROVE  Inside' = Inside
  BY <1>4 DEF Inside, Generating, ScopeOf
<1>5. ASSUME UNCHANGED <<phase, request>> PROVE Inside' = Inside
  BY <1>5 DEF Inside, Generating, ScopeOf
<1>6. ASSUME IInv, Next PROVE [Guard!Next]_Inside
  <2>1. ASSUME NEW h \in Handlers, NEW r \in Requests, Arrive(h, r) PROVE Inside' = Inside
    BY <1>4, <1>6, <2>1 DEF Arrive, Generating, IInv, TypeOK
  <2>2. ASSUME NEW h \in Handlers, AcquireUnacknowledged(h) \/ GiveUp(h) PROVE Inside' = Inside
    BY <1>4, <1>6, <2>2 DEF AcquireUnacknowledged, GiveUp, Finish, Generating, IInv, TypeOK
  <2>3. ASSUME NEW h \in Handlers, Renew(h) \/ RenewFails(h) \/ Tick PROVE Inside' = Inside
    BY <1>5, <2>3 DEF Renew, RenewFails, Tick
  <2>4. ASSUME NEW h \in Handlers, Release(h) \/ ReleaseLost(h) PROVE Guard!Leave(h)
    BY <1>2, <1>6, <2>4 DEF Release, ReleaseLost, Finish
  <2>5. ASSUME Tick PROVE Inside' = Inside
    BY <1>5, <2>5 DEF Tick
  <2> QED
    BY <1>3, <1>6, <2>1, <2>2, <2>3, <2>4, <2>5 DEF Next, Guard!Next
<1>7. IInv /\ [Next]_vars => [Guard!Next]_Inside
  BY <1>5, <1>6 DEF vars
<1> QED
  BY <1>1, <1>7, LeaseInvariant, PTL DEF Spec, ImplementsExclusiveScope, Guard!Spec

(* A key nobody generates under any more: its owner is gone, or never      *)
(* learnt that it had it.                                                  *)
Nobodys(s) == \A h \in Handlers : ~(Generating(h) /\ ScopeOf(h) = s)
Abandoned(s) == lease[s] # NoLease /\ Nobodys(s)
Holding(h, s) == Generating(h) /\ ScopeOf(h) = s
Gone(s) == lease[s] = NoLease

(* Nobody takes up a key that is there, and only its holder renews it.     *)
LEMMA AbandonedStays ==
  ASSUME IInv, NEW s \in Scopes, [Next]_vars, Abandoned(s)
  PROVE  /\ Gone(s)' \/ (Abandoned(s)' /\ lease'[s].ttl <= lease[s].ttl)
         /\ Tick => Gone(s)' \/ (Abandoned(s)' /\ lease'[s].ttl < lease[s].ttl)
<1>1. lease[s] \in Lease /\ lease[s].ttl \in 1..TTL /\ TTL \in Nat
  BY LeaseAssumption DEF Abandoned, IInv, TypeOK, Lease
<1>2. ASSUME lease'[s] = lease[s], Nobodys(s)', ~Tick
      PROVE  /\ Gone(s)' \/ (Abandoned(s)' /\ lease'[s].ttl <= lease[s].ttl)
             /\ Tick => Gone(s)' \/ (Abandoned(s)' /\ lease'[s].ttl < lease[s].ttl)
  BY <1>1, <1>2 DEF Abandoned
<1>3. CASE Tick
  <2>1. lease'[s] = Aged(lease[s]) /\ Nobodys(s)'
    BY <1>3 DEF Tick, Abandoned, Nobodys, Generating, ScopeOf
  <2>2. CASE lease[s].ttl = 1
    BY <2>1, <2>2 DEF Aged, Gone
  <2>3. CASE lease[s].ttl # 1
    <3>1. lease'[s] = [lease[s] EXCEPT !.ttl = lease[s].ttl - 1]
      BY <2>1, <2>3 DEF Aged, Abandoned
    <3>2. lease'[s] \in Lease /\ lease'[s].ttl = lease[s].ttl - 1
      BY <1>1, <2>3, <3>1 DEF Lease
    <3>3. lease'[s] # NoLease
      BY <3>2, NoLeaseIsAbsence
    <3> QED
      BY <1>1, <2>1, <3>2, <3>3 DEF Abandoned
  <2> QED
    BY <2>2, <2>3
<1>4. ASSUME NEW h \in Handlers, NEW r \in Requests, Arrive(h, r), ~Tick
      PROVE  lease'[s] = lease[s] /\ Nobodys(s)'
  BY <1>4 DEF Arrive, Abandoned, Nobodys, Generating, ScopeOf, IInv, TypeOK
<1>5. ASSUME NEW h \in Handlers, Acquire(h), ~Tick PROVE lease'[s] = lease[s] /\ Nobodys(s)'
  <2>1. ScopeOf(h) # s
    BY <1>5 DEF Acquire, Free, Abandoned
  <2>2. lease'[s] = lease[s]
    BY <1>5, <2>1 DEF Acquire, Grant, IInv, TypeOK
  <2>3. Nobodys(s)'
    BY <1>5, <2>1 DEF Acquire, Abandoned, Nobodys, Generating, ScopeOf, IInv, TypeOK
  <2> QED
    BY <2>2, <2>3
<1>6. ASSUME NEW h \in Handlers, Finish(h) PROVE Nobodys(s)'
  BY <1>6 DEF Finish, Abandoned, Nobodys, Generating, ScopeOf, IInv, TypeOK
<1>7. ASSUME NEW h \in Handlers, AcquireUnacknowledged(h) PROVE lease'[s] = lease[s]
  BY <1>7 DEF AcquireUnacknowledged, Free, Grant, Abandoned, IInv, TypeOK
<1>8. ASSUME NEW h \in Handlers, Release(h) \/ Renew(h) PROVE lease'[s] = lease[s]
  <2>1. ScopeOf(h) # s
    BY <1>8 DEF Release, Renew, Abandoned, Nobodys
  <2>2. lease' \in {lease, [lease EXCEPT ![ScopeOf(h)] = NoLease], [lease EXCEPT ![ScopeOf(h)].ttl = TTL]}
    BY <1>8 DEF Release, Renew
  <2> QED
    BY <2>1, <2>2 DEF IInv, TypeOK
<1>9. ASSUME NEW h \in Handlers, AcquireUnacknowledged(h) \/ GiveUp(h) \/ Release(h) \/ ReleaseLost(h)
      PROVE  lease'[s] = lease[s] /\ Nobodys(s)'
  BY <1>6, <1>7, <1>8, <1>9 DEF AcquireUnacknowledged, GiveUp, Release, ReleaseLost
<1>10. ASSUME NEW h \in Handlers, Renew(h) \/ RenewFails(h) PROVE lease'[s] = lease[s] /\ Nobodys(s)'
  <2>1. Nobodys(s)'
    BY <1>10 DEF Renew, RenewFails, Abandoned, Nobodys, Generating, ScopeOf
  <2> QED
    BY <1>8, <1>10, <2>1 DEF RenewFails
<1>11. CASE UNCHANGED vars
  BY <1>2, <1>3, <1>11 DEF vars, Abandoned, Nobodys, Generating, ScopeOf
<1> QED
  BY <1>2, <1>3, <1>4, <1>5, <1>9, <1>10, <1>11 DEF Next

(* A generation keeps its key until it leaves, and then nobody has it.     *)
LEMMA HolderLeaves ==
  ASSUME RenewalsSuffice, IInv, IInv', NEW s \in Scopes, NEW h \in Handlers, [Next]_vars, Holding(h, s)
  PROVE  \/ Holding(h, s)' /\ ~(Release(h) \/ ReleaseLost(h))
         \/ (Release(h) \/ ReleaseLost(h)) /\ (Gone(s)' \/ Abandoned(s)')
<1>1. \A k \in Handlers \ {h} : ~(Generating(k) /\ ScopeOf(k) = s)
  BY DEF IInv, OneHolder, Holding
<1>2. CASE Release(h) \/ ReleaseLost(h)
  BY <1>1, <1>2 DEF Release, ReleaseLost, Finish, Gone, Abandoned, Nobodys, Generating, ScopeOf,
                    IInv, TypeOK
<1>3. ASSUME ~(Release(h) \/ ReleaseLost(h)) PROVE Holding(h, s)'
  <2>1. ASSUME NEW k \in Handlers, Renew(k) \/ RenewFails(k) \/ Tick \/ UNCHANGED vars
        PROVE  Holding(h, s)'
    BY <2>1 DEF Renew, RenewFails, Tick, vars, Holding, Generating, ScopeOf
  <2>2. ASSUME NEW k \in Handlers, Finish(k), k # h PROVE Holding(h, s)'
    BY <2>2 DEF Finish, Holding, Generating, ScopeOf
  <2>3. ASSUME NEW k \in Handlers, AcquireUnacknowledged(k) \/ GiveUp(k) PROVE Holding(h, s)'
    BY <2>2, <2>3 DEF AcquireUnacknowledged, GiveUp, Holding, Generating
  <2>4. ASSUME NEW k \in Handlers, Release(k) \/ ReleaseLost(k) PROVE Holding(h, s)'
    BY <1>3, <2>2, <2>4 DEF Release, ReleaseLost
  <2>5. ASSUME NEW k \in Handlers, NEW r \in Requests, Arrive(k, r) PROVE Holding(h, s)'
    BY <2>5 DEF Arrive, Holding, Generating, ScopeOf
  <2>6. ASSUME NEW k \in Handlers, Acquire(k) PROVE Holding(h, s)'
    BY <2>6 DEF Acquire, Holding, Generating, ScopeOf
  <2> QED
    BY <2>1, <2>3, <2>4, <2>5, <2>6 DEF Next
<1> QED
  BY <1>2, <1>3

(* The heartbeat of this unit, and who may raise it.                       *)
LEMMA Heartbeats ==
  ASSUME IInv, NEW h \in Handlers, [Next]_vars
  PROVE  /\ ~due[h] => ~due'[h] \/ Tick
         /\ Renew(h) \/ RenewFails(h) => ~due'[h]
<1>1. ASSUME NEW k \in Handlers, NEW r \in Requests, Arrive(k, r) PROVE due' = due
  BY <1>1 DEF Arrive
<1>2. ASSUME NEW k \in Handlers, Acquire(k) \/ AcquireUnacknowledged(k) \/ GiveUp(k) \/ Renew(k)
             \/ RenewFails(k) \/ Release(k) \/ ReleaseLost(k)
      PROVE  ~due[h] => ~due'[h]
  BY <1>2 DEF Acquire, AcquireUnacknowledged, GiveUp, Renew, RenewFails, Release, ReleaseLost,
              Finish, IInv, TypeOK
<1>3. Renew(h) \/ RenewFails(h) => ~due'[h]
  BY DEF Renew, RenewFails, IInv, TypeOK
<1> QED
  BY <1>1, <1>2, <1>3 DEF Next, vars

(* LeaseEnds (limiter.go 143, 280: the key has a time to live, as its      *)
(* process may die): a generation that ends gives its key back or leaves   *)
(* it to nobody, nobody's key has one unit less after every tick, and no   *)
(* handler holds the tick up with its heartbeat.  (The client of a         *)
(* generation may keep it going for ever: that it ends is a premise.)  The *)
(* descent from TTL to nothing, and that finitely many heartbeats that all *)
(* end leave room for a tick, are inductions over temporal formulas; that a*)
(* step whose guard holds is ENABLED is assumed.                           *)
THEOREM LeasesRunOut ==
  ASSUME RenewalsSuffice, NEW s \in Scopes, NEW h \in Handlers, NEW n \in Nat
  PROVE  /\ Spec /\ []<>~Generating(h) => (Holding(h, s) ~> Gone(s) \/ Abandoned(s))
         /\ Spec /\ []<><<Tick>>_vars =>
              ((Abandoned(s) /\ lease[s].ttl = n + 1) ~> (Gone(s) \/ (Abandoned(s) /\ lease[s].ttl <= n)))
         /\ /\ Spec
            /\ WF_vars(Renew(h) \/ RenewFails(h))
            /\ [](due[h] => ENABLED <<Renew(h) \/ RenewFails(h)>>_vars)
            => (due[h] ~> ~due[h]) /\ [][~due[h] /\ ~Tick => ~due'[h]]_vars
<1> DEFINE Beats == Renew(h) \/ RenewFails(h)
           Busy == Generating(h)
           Held == Holding(h, s)
           Left == Gone(s) \/ Abandoned(s)
           Old == Abandoned(s) /\ lease[s].ttl = n + 1
           Older == Gone(s) \/ (Abandoned(s) /\ lease[s].ttl <= n)
           Due == due[h]
           B == ~due[h] /\ ~Tick => ~due'[h]
<1>1. IInv /\ IInv' /\ [Next]_vars /\ Held => Held' \/ Left'
  BY HolderLeaves
<1>2. Held => Busy
  BY DEF Holding
<1>3. IInv /\ IInv' /\ [Next]_vars /\ Old => (Old' /\ ~<<Tick>>_vars) \/ Older'
  <2> SUFFICES ASSUME IInv, IInv', [Next]_vars, Old PROVE (Old' /\ ~<<Tick>>_vars) \/ Older'
    OBVIOUS
  <2>1. CASE Gone(s)'
    BY <2>1
  <2>2. CASE ~Gone(s)'
    <3>1. Abandoned(s)' /\ lease'[s].ttl <= lease[s].ttl /\ (Tick => lease'[s].ttl < lease[s].ttl)
      BY <2>2, AbandonedStays
    <3>2. lease'[s].ttl \in Nat
      <4>1. lease'[s] # NoLease
        BY <3>1 DEF Abandoned
      <4>2. lease'[s] \in Lease
        BY <4>1 DEF IInv, TypeOK
      <4> QED
        BY <4>2, LeaseAssumption DEF Lease
    <3>3. lease'[s].ttl <= n \/ lease'[s].ttl = n + 1
      BY <3>1, <3>2
    <3>4. Tick => lease'[s].ttl <= n
      BY <3>1, <3>2
    <3> QED
      BY <3>1, <3>3, <3>4
  <2> QED
    BY <2>1, <2>2
<1>4. IInv /\ [Next]_vars => B
  BY Heartbeats
<1>5. IInv /\ [Next]_vars /\ Due => (Due' /\ ~<<Beats>>_vars) \/ ~Due'
  BY Heartbeats
<1> HIDE DEF Beats, Busy, Held, Left, Old, Older, Due, B
<1>6. Spec /\ []<>~Busy => (Held ~> Left)
  BY <1>1, <1>2, LeaseInvariant, PTL DEF Spec
<1>7. Spec /\ []<><<Tick>>_vars => (Old ~> Older)
  BY <1>3, LeaseInvariant, PTL DEF Spec
<1>8. Spec /\ WF_vars(Beats) /\ [](Due => ENABLED <<Beats>>_vars) => (Due ~> ~Due) /\ [][B]_vars
  BY <1>4, <1>5, LeaseInvariant, PTL DEF Spec
<1> QED
  BY <1>6, <1>7, <1>8, PTL DEF Beats, Busy, Held, Left, Old, Older, Due, B

-----------------------------------------------------------------------------
(* The cache of the definitions, the other part of limiter.go that has a   *)
(* state of its own.                                                       *)

LEMMA Durations == DefsTTL \in Nat /\ MaxFetch \in Nat
BY LimiterDefsAssumption

(* Types, with any number of versions.                                     *)
Call == [phase : {"new", "reading", "decided"}, gateway : Gateways \cup {NoCall.gateway},
         defs : [Tables -> Nat \cup {Unread}], began : Nat, since : [Tables -> Nat]]
Typed ==
  /\ now \in Nat
  /\ rows \in [Tables -> Nat] /\ effective \in [Tables -> Nat]
  /\ replaced \subseteq [table : Tables, version : Nat, at : Nat]
  /\ DOMAIN cache = Gateways
  /\ \A g \in Gateways : cache[g] # NoEntry => cache[g] \in [defs : [Tables -> Nat], expires : Nat]
  /\ call \in [Calls -> Call]
  /\ edit \in Gateways \cup {NoEntry}

(* A version that was replaced is behind the row, nothing is replaced in   *)
(* the future, and what is effective is in the rows.                       *)
Versioned ==
  /\ \A x \in replaced : x.version < rows[x.table] /\ x.at <= now
  /\ \A t \in Tables : effective[t] <= rows[t]

(* A cached definition was in its row a fetch before the fill or later; on *)
(* a gateway that served all edits and cleared its cache under no reader,  *)
(* nothing newer is effective.                                             *)
EntryInv(g) ==
  cache[g] # NoEntry =>
    /\ cache[g].expires <= now + DefsTTL
    /\ \A x \in replaced : cache[g].defs[x.table] = x.version =>
         cache[g].expires <= x.at + DefsTTL + MaxFetch
    /\ \A t \in Tables : cache[g].defs[t] <= rows[t]
    /\ g \notin overtaken => \A t \in Tables : cache[g].defs[t] >= effective[t]

(* A request has not read for longer than a fetch; what it has read was in *)
(* its row when it began or later; on such a gateway nothing has become    *)
(* effective since it began.                                               *)
ReadingInv(r) ==
  In(r, "reading") =>
    /\ call[r].gateway \in Gateways
    /\ call[r].began <= now /\ now <= call[r].began + MaxFetch
    /\ \A x \in replaced : call[r].defs[x.table] = x.version => x.at >= call[r].began
    /\ \A t \in Tables : call[r].defs[t] <= rows[t]
    /\ call[r].gateway \notin overtaken =>
         /\ call[r].since = effective
         /\ \A t \in Tables : call[r].defs[t] # Unread => call[r].defs[t] >= effective[t]
DecidedInv(r) ==
  In(r, "decided") =>
    /\ \A x \in replaced : call[r].defs[x.table] = x.version => now - x.at <= DefsTTL + MaxFetch
    /\ call[r].gateway \notin overtaken => \A t \in Tables : call[r].defs[t] >= call[r].since[t]
CallInv(r) == (In(r, "new") => call[r] = NoCall) /\ ReadingInv(r) /\ DecidedInv(r)

DInv ==
  /\ Typed /\ Versioned
  /\ \A g \in Gateways : EntryInv(g)
  /\ \A r \in Calls : CallInv(r)

LEMMA MinIsMember == ASSUME NEW S, S \subseteq Tables, S # {} PROVE Min(S) \in S
<1>1. \E x \in S : \A y \in S : x =< y
  <2>1. S \subseteq {1, 2, 3}
    BY DEF Tables
  <2>2. CASE 1 \in S
    BY <2>1, <2>2
  <2>3. CASE 1 \notin S /\ 2 \in S
    BY <2>1, <2>3
  <2>4. CASE 1 \notin S /\ 2 \notin S
    <3>1. S = {3}
      BY <2>1, <2>4
    <3> QED
      BY <3>1
  <2> QED
    BY <2>2, <2>3, <2>4
<1> QED
  BY <1>1 DEF Min

LEMMA NoCallType == NoCall \in Call
BY DEF NoCall, Call, Tables, Unread

LEMMA NoCallIsDone ==
  ASSUME NEW r, call[r] = NoCall
  PROVE  CallInv(r)
BY DEF CallInv, ReadingInv, DecidedInv, In, NoCall

LEMMA InitDInv == DefsInit => DInv
<1> SUFFICES ASSUME DefsInit PROVE DInv
  OBVIOUS
<1>1. Typed
  BY NoCallType DEF DefsInit, Typed
<1>2. Versioned
  BY DEF DefsInit, Versioned
<1>3. \A g \in Gateways : EntryInv(g)
  BY DEF DefsInit, EntryInv
<1>4. \A r \in Calls : CallInv(r)
  BY NoCallIsDone DEF DefsInit
<1> QED
  BY <1>1, <1>2, <1>3, <1>4 DEF DInv

(* A step of one call leaves the others alone.                             *)
LEMMA OtherCalls ==
  ASSUME NEW q \in Calls, call'[q] = call[q], CallInv(q),
         UNCHANGED <<rows, replaced, overtaken, effective, now>>
  PROVE  CallInv(q)'
BY DEF CallInv, ReadingInv, DecidedInv, In

LEMMA OtherEntries ==
  ASSUME NEW g \in Gateways, cache'[g] = cache[g], EntryInv(g),
         UNCHANGED <<rows, replaced, overtaken, effective, now>>
  PROVE  EntryInv(g)'
BY DEF EntryInv

(* A step of a call, which may fill the cache.                             *)
LEMMA CallSteps ==
  ASSUME DInv, NEW r \in Calls, NEW c \in Call, call' = [call EXCEPT ![r] = c],
         UNCHANGED <<rows, replaced, edit, overtaken, effective, now>>,
         call'[r] = c => CallInv(r)',
         DOMAIN cache' = Gateways,
         \A g \in Gateways : cache'[g] # cache[g] =>
           EntryInv(g)' /\ cache'[g] \in [defs : [Tables -> Nat], expires : Nat]
  PROVE  DInv'
<1>1. \A g \in Gateways : EntryInv(g)'
  BY OtherEntries DEF DInv
<1>2. Typed' /\ Versioned'
  BY DEF DInv, Typed, Versioned
<1>3. ASSUME NEW q \in Calls PROVE CallInv(q)'
  <2>1. CASE q = r
    BY <2>1 DEF DInv, Typed
  <2>2. CASE q # r
    <3>1. call'[q] = call[q]
      BY <2>2 DEF DInv, Typed
    <3> QED
      BY <3>1, OtherCalls DEF DInv
  <2> QED
    BY <2>1, <2>2
<1> QED
  BY <1>1, <1>2, <1>3 DEF DInv

LEMMA LookupStep ==
  ASSUME DInv, NEW r \in Calls, NEW g \in Gateways, Lookup(r, g)
  PROVE  DInv'
<1> DEFINE defs == IF Fresh(g) THEN cache[g].defs ELSE call[r].defs
           c == [phase |-> IF Fresh(g) THEN "decided" ELSE "reading", gateway |-> g,
                 defs |-> defs, began |-> now, since |-> effective]
<1>1. /\ call' = [call EXCEPT ![r] = c]
      /\ UNCHANGED <<rows, replaced, cache, edit, overtaken, effective, now>>
  BY DEF Lookup
<1>2. Typed /\ Versioned /\ EntryInv(g) /\ call[r] = NoCall
  BY DEF DInv, CallInv, Lookup
<1>3. call[r].defs = [t \in Tables |-> Unread]
  BY <1>2 DEF NoCall
<1>4. Fresh(g) =>
        cache[g].defs \in [Tables -> Nat] /\ cache[g].expires \in Nat /\ now <= cache[g].expires
  BY <1>2 DEF Typed, Fresh
<1>5. defs \in [Tables -> Nat \cup {Unread}]
  BY <1>3, <1>4
<1> HIDE DEF defs
<1>6. c \in Call
  BY <1>2, <1>5 DEF Call, Typed
<1>7. /\ c.gateway = g /\ c.defs = defs /\ c.began = now /\ c.since = effective
      /\ c.phase = IF Fresh(g) THEN "decided" ELSE "reading"
  OBVIOUS
<1> HIDE DEF c
<1>8. ASSUME call'[r] = c PROVE CallInv(r)'
  <2>1. CASE Fresh(g)
    <3>1. c.phase = "decided" /\ defs = cache[g].defs
      BY <2>1, <1>7 DEF defs
    <3>2. ASSUME NEW x \in replaced, defs[x.table] = x.version PROVE now - x.at <= DefsTTL + MaxFetch
      <4>1. cache[g].expires <= x.at + DefsTTL + MaxFetch /\ x.at \in Nat
        BY <1>2, <2>1, <3>1, <3>2 DEF EntryInv, Fresh, Typed
      <4> QED
        BY <4>1, <1>2, <1>4, <2>1, Durations DEF Typed
    <3>3. g \notin overtaken => \A t \in Tables : defs[t] >= effective[t]
      BY <1>2, <2>1, <3>1 DEF EntryInv, Fresh
    <3> QED
      BY <1>1, <1>7, <1>8, <3>1, <3>2, <3>3 DEF CallInv, ReadingInv, DecidedInv, In
  <2>2. CASE ~Fresh(g)
    <3>1. c.phase = "reading" /\ \A t \in Tables : defs[t] = Unread
      BY <2>2, <1>3, <1>7 DEF defs
    <3>2. \A x \in replaced : defs[x.table] # x.version
      BY <1>2, <3>1 DEF Typed, Unread
    <3>3. \A t \in Tables : defs[t] <= rows[t]
      BY <1>2, <3>1 DEF Typed, Unread
    <3>4. now <= now + MaxFetch /\ now <= now
      BY <1>2, Durations DEF Typed
    <3> QED
      BY <1>1, <1>7, <1>8, <3>1, <3>2, <3>3, <3>4 DEF CallInv, ReadingInv, DecidedInv, In
  <2> QED
    BY <2>1, <2>2
<1> QED
  BY <1>1, <1>2, <1>6, <1>8, CallSteps DEF Typed

LEMMA ReadStep ==
  ASSUME DInv, NEW r \in Calls, Read(r)
  PROVE  DInv'
<1> DEFINE k == Min(Missing(r))
           old == call[r].defs
           defs == [old EXCEPT ![k] = rows[k]]
           c == [call[r] EXCEPT !.defs = defs]
<1>1. /\ call' = [call EXCEPT ![r] = c]
      /\ UNCHANGED <<rows, replaced, cache, edit, overtaken, effective, now>>
  BY DEF Read
<1>2. /\ Typed /\ Versioned /\ ReadingInv(r) /\ In(r, "reading") /\ call[r] \in Call
      /\ old \in [Tables -> Nat \cup {Unread}]
  BY DEF DInv, CallInv, Read, Typed, Call
<1>3. k \in Tables
  <2>1. Missing(r) \subseteq Tables /\ Missing(r) # {}
    BY DEF Missing, Read
  <2> QED
    BY <2>1, MinIsMember
<1> HIDE DEF k
<1>4. /\ defs \in [Tables -> Nat \cup {Unread}]
      /\ \A t \in Tables : defs[t] = IF t = k THEN rows[t] ELSE old[t]
  BY <1>2, <1>3 DEF Typed
<1> HIDE DEF defs
<1>5. /\ c \in Call /\ c.phase = "reading" /\ c.gateway = call[r].gateway /\ c.defs = defs
      /\ c.began = call[r].began /\ c.since = call[r].since
  BY <1>2, <1>4 DEF Call, In
<1> HIDE DEF c
<1>6. /\ call[r].gateway \in Gateways
      /\ call[r].began <= now /\ now <= call[r].began + MaxFetch
      /\ \A x \in replaced : old[x.table] = x.version => x.at >= call[r].began
      /\ \A t \in Tables : old[t] <= rows[t]
      /\ call[r].gateway \notin overtaken =>
           /\ call[r].since = effective
           /\ \A t \in Tables : old[t] # Unread => old[t] >= effective[t]
  BY <1>2 DEF ReadingInv
<1> HIDE DEF old
<1>7. \A x \in replaced : defs[x.table] = x.version => x.at >= call[r].began
  <2> SUFFICES ASSUME NEW x \in replaced, defs[x.table] = x.version PROVE x.at >= call[r].began
    OBVIOUS
  <2>1. x.table \in Tables /\ x.version \in Nat /\ x.version < rows[x.table] /\ rows[x.table] \in Nat
    BY <1>2 DEF Typed, Versioned
  <2>2. x.table # k
    BY <1>4, <2>1
  <2> QED
    BY <1>4, <1>6, <2>1, <2>2
<1>8. \A t \in Tables : defs[t] <= rows[t]
  BY <1>2, <1>4, <1>6 DEF Typed
<1>9. call[r].gateway \notin overtaken =>
        /\ call[r].since = effective
        /\ \A t \in Tables : defs[t] # Unread => defs[t] >= effective[t]
  BY <1>2, <1>4, <1>6 DEF Typed, Versioned
<1>10. call'[r] = c => CallInv(r)'
  BY <1>1, <1>5, <1>6, <1>7, <1>8, <1>9 DEF CallInv, ReadingInv, DecidedInv, In
<1> QED
  BY <1>1, <1>2, <1>5, <1>10, CallSteps DEF Typed

(* The end of a call, decided or failed.                                   *)
LEMMA EndStep ==
  ASSUME DInv, NEW r \in Calls, ReadFails(r) \/ Forget(r)
  PROVE  DInv'
<1>1. /\ call' = [call EXCEPT ![r] = NoCall]
      /\ UNCHANGED <<rows, replaced, cache, edit, overtaken, effective, now>>
  BY DEF ReadFails, Forget
<1>2. call'[r] = NoCall => CallInv(r)'
  BY DEF CallInv, ReadingInv, DecidedInv, In, NoCall
<1> QED
  BY <1>1, <1>2, NoCallType, CallSteps DEF DInv, Typed

LEMMA FillStep ==
  ASSUME DInv, NEW r \in Calls, Fill(r)
  PROVE  DInv'
<1> DEFINE defs == call[r].defs
           g == call[r].gateway
           entry == [defs |-> defs, expires |-> now + DefsTTL]
           c == [call[r] EXCEPT !.phase = "decided"]
<1>1. /\ call' = [call EXCEPT ![r] = c] /\ cache' = [cache EXCEPT ![g] = entry]
      /\ UNCHANGED <<rows, replaced, edit, overtaken, effective, now>>
  BY DEF Fill
<1>2. /\ Typed /\ Versioned
      /\ In(r, "reading") /\ call[r] \in Call /\ DOMAIN cache = Gateways
      /\ g \in Gateways
      /\ call[r].began <= now /\ now <= call[r].began + MaxFetch
      /\ \A x \in replaced : defs[x.table] = x.version => x.at >= call[r].began
      /\ \A t \in Tables : defs[t] <= rows[t]
      /\ g \notin overtaken =>
           /\ call[r].since = effective
           /\ \A t \in Tables : defs[t] # Unread => defs[t] >= effective[t]
  BY DEF DInv, CallInv, ReadingInv, Fill, Typed
<1>3. defs \in [Tables -> Nat]
  <2>1. defs \in [Tables -> Nat \cup {Unread}] /\ \A t \in Tables : defs[t] # Unread
    BY <1>2 DEF Call, Fill, Missing
  <2> QED
    BY <2>1
<1>4. c \in Call /\ c.phase = "decided" /\ c.gateway = g /\ c.defs = defs /\ c.since = call[r].since
  BY <1>2 DEF Call
<1>5. \A x \in replaced : defs[x.table] = x.version =>
        now + DefsTTL <= x.at + DefsTTL + MaxFetch /\ now - x.at <= DefsTTL + MaxFetch
  <2> SUFFICES ASSUME NEW x \in replaced, defs[x.table] = x.version
               PROVE  now + DefsTTL <= x.at + DefsTTL + MaxFetch /\ now - x.at <= DefsTTL + MaxFetch
    OBVIOUS
  <2>1. x.at \in Nat /\ x.at >= call[r].began /\ call[r].began \in Nat /\ now \in Nat
    BY <1>2 DEF Typed, Call
  <2> QED
    BY <2>1, <1>2, Durations
<1>6. /\ entry \in [defs : [Tables -> Nat], expires : Nat]
      /\ entry.defs = defs /\ entry.expires = now + DefsTTL
  BY <1>2, <1>3, Durations DEF Typed
<1>7. g \notin overtaken => \A t \in Tables : defs[t] >= effective[t] /\ defs[t] >= call[r].since[t]
  BY <1>2, <1>3 DEF Unread
<1> HIDE DEF c, entry, defs
<1>8. call'[r] = c => CallInv(r)'
  BY <1>1, <1>4, <1>5, <1>7 DEF CallInv, ReadingInv, DecidedInv, In
<1>9. cache'[g] = entry /\ \A f \in Gateways : f # g => cache'[f] = cache[f]
  BY <1>1, <1>2
<1>10. ASSUME NEW f \in Gateways, f = g PROVE EntryInv(f)'
  <2>1. cache'[f] = entry /\ (f \notin overtaken => \A t \in Tables : defs[t] >= effective[t])
    BY <1>7, <1>9, <1>10
  <2>2. entry.expires <= now + DefsTTL
    BY <1>2, <1>6, Durations DEF Typed
  <2> QED
    BY <1>1, <1>2, <1>5, <1>6, <2>1, <2>2 DEF EntryInv
<1>11. DOMAIN cache' = Gateways
  BY <1>1, <1>2
<1> HIDE DEF g
<1>12. \A f \in Gateways : cache'[f] # cache[f] =>
         EntryInv(f)' /\ cache'[f] \in [defs : [Tables -> Nat], expires : Nat]
  BY <1>6, <1>9, <1>10
<1> QED
  BY <1>1, <1>4, <1>8, <1>11, <1>12, CallSteps

LEMMA EditStep ==
  ASSUME DInv, NEW g \in Gateways, NEW changed \in SUBSET Tables, Edit(g, changed)
  PROVE  DInv'
<1>1. /\ rows' = [t \in Tables |-> IF t \in changed THEN rows[t] + 1 ELSE rows[t]]
      /\ replaced' = replaced \cup {[table |-> t, version |-> rows[t], at |-> now] : t \in changed}
      /\ edit' = g
      /\ UNCHANGED <<cache, call, overtaken, effective, now>>
  BY DEF Edit
<1>2. Typed /\ Versioned
  BY DEF DInv
<1>3. /\ rows' \in [Tables -> Nat]
      /\ \A t \in Tables : rows[t] <= rows'[t] /\ (t \in changed => rows[t] < rows'[t])
  BY <1>1, <1>2 DEF Typed
<1>4. ASSUME NEW x \in replaced'
      PROVE  \/ x \in replaced
             \/ x.table \in changed /\ x.version = rows[x.table] /\ x.at = now
  BY <1>1
<1>5. Typed'
  <2>1. replaced' \subseteq [table : Tables, version : Nat, at : Nat]
    BY <1>1, <1>2 DEF Typed
  <2> QED
    BY <1>1, <1>2, <1>3, <2>1 DEF Typed
<1>6. Versioned'
  <2>1. ASSUME NEW x \in replaced' PROVE x.version < rows'[x.table] /\ x.at <= now'
    <3>1. x.table \in Tables /\ x.version \in Nat /\ x.at \in Nat /\ now \in Nat
      BY <1>1, <1>5 DEF Typed
    <3>2. CASE x \in replaced
      BY <1>1, <1>2, <1>3, <3>1, <3>2 DEF Versioned, Typed
    <3>3. CASE x.table \in changed /\ x.version = rows[x.table] /\ x.at = now
      BY <1>1, <1>3, <3>1, <3>3
    <3> QED
      BY <1>4, <3>2, <3>3
  <2>2. \A t \in Tables : effective'[t] <= rows'[t]
    BY <1>1, <1>2, <1>3 DEF Versioned, Typed
  <2> QED
    BY <2>1, <2>2 DEF Versioned
<1>7. ASSUME NEW f \in Gateways PROVE EntryInv(f)'
  <2> SUFFICES ASSUME cache[f] # NoEntry PROVE EntryInv(f)'
    BY <1>1 DEF EntryInv
  <2>1. EntryInv(f) /\ cache[f] \in [defs : [Tables -> Nat], expires : Nat]
    BY <1>2 DEF DInv, Typed
  <2>2. ASSUME NEW x \in replaced', cache[f].defs[x.table] = x.version
        PROVE  cache[f].expires <= x.at + DefsTTL + MaxFetch
    <3>1. CASE x \in replaced
      BY <2>1, <2>2, <3>1 DEF EntryInv
    <3>2. CASE x.at = now
      BY <1>2, <2>1, <3>2, Durations DEF EntryInv, Typed
    <3> QED
      BY <1>4, <3>1, <3>2
  <2>3. \A t \in Tables : cache[f].defs[t] <= rows'[t]
    BY <1>2, <1>3, <2>1 DEF EntryInv, Typed
  <2> QED
    BY <1>1, <2>1, <2>2, <2>3 DEF EntryInv
<1>8. ASSUME NEW r \in Calls PROVE CallInv(r)'
  <2>1. CallInv(r) /\ call[r] \in Call
    BY <1>2 DEF DInv, Typed
  <2>2. ReadingInv(r)'
    <3> SUFFICES ASSUME In(r, "reading") PROVE ReadingInv(r)'
      BY <1>1 DEF ReadingInv, In
    <3>1. ASSUME NEW x \in replaced', call[r].defs[x.table] = x.version
          PROVE  x.at >= call[r].began
      <4>1. CASE x \in replaced
        BY <2>1, <3>1, <4>1 DEF CallInv, ReadingInv
      <4>2. CASE x.at = now
        BY <1>2, <2>1, <4>2 DEF CallInv, ReadingInv, Typed, Call
      <4> QED
        BY <1>4, <4>1, <4>2
    <3>2. \A t \in Tables : call[r].defs[t] <= rows'[t]
      BY <1>2, <1>3, <2>1 DEF CallInv, ReadingInv, Typed, Call, Unread
    <3> QED
      BY <1>1, <2>1, <3>1, <3>2 DEF CallInv, ReadingInv, In
  <2>3. DecidedInv(r)'
    <3> SUFFICES ASSUME In(r, "decided") PROVE DecidedInv(r)'
      BY <1>1 DEF DecidedInv, In
    <3>1. ASSUME NEW x \in replaced', call[r].defs[x.table] = x.version
          PROVE  now - x.at <= DefsTTL + MaxFetch
      <4>1. CASE x \in replaced
        BY <2>1, <3>1, <4>1 DEF CallInv, DecidedInv
      <4>2. CASE x.at = now
        BY <1>2, <4>2, Durations DEF Typed
      <4> QED
        BY <1>4, <4>1, <4>2
    <3> QED
      BY <1>1, <2>1, <3>1 DEF CallInv, DecidedInv, In
  <2> QED
    BY <1>1, <2>1, <2>2, <2>3 DEF CallInv, In
<1> QED
  BY <1>5, <1>6, <1>7, <1>8 DEF DInv

LEMMA InvalidateStep ==
  ASSUME DInv, Invalidate
  PROVE  DInv'
<1>1. /\ edit # NoEntry /\ cache' = [cache EXCEPT ![edit] = NoEntry] /\ effective' = rows
      /\ overtaken' = overtaken \cup
           {g \in Gateways : g # edit \/ \E r \in Calls : In(r, "reading") /\ call[r].gateway = g}
      /\ edit' = NoEntry
      /\ UNCHANGED <<rows, replaced, call, now>>
  BY DEF Invalidate, Clear
<1>2. Typed /\ Versioned /\ edit \in Gateways
  BY <1>1 DEF DInv, Typed
<1>3. Typed' /\ Versioned'
  BY <1>1, <1>2 DEF Typed, Versioned
<1>4. ASSUME NEW g \in Gateways PROVE EntryInv(g)'
  <2>1. CASE g = edit
    BY <1>1, <1>2, <2>1 DEF EntryInv, Typed
  <2>2. CASE g # edit
    <3>1. cache'[g] = cache[g] /\ g \in overtaken'
      BY <1>1, <1>2, <2>2 DEF Typed
    <3> QED
      BY <1>1, <3>1 DEF EntryInv, DInv
  <2> QED
    BY <2>1, <2>2
<1>5. ASSUME NEW r \in Calls PROVE CallInv(r)'
  <2>1. CallInv(r)
    BY DEF DInv
  <2>2. In(r, "reading") => call[r].gateway \in overtaken'
    BY <1>1, <2>1 DEF CallInv, ReadingInv
  <2>3. ReadingInv(r)'
    BY <1>1, <2>1, <2>2 DEF CallInv, ReadingInv, In
  <2>4. DecidedInv(r)'
    BY <1>1, <2>1 DEF CallInv, DecidedInv, In
  <2> QED
    BY <1>1, <2>1, <2>3, <2>4 DEF CallInv, In
<1> QED
  BY <1>3, <1>4, <1>5 DEF DInv

LEMMA TickStep ==
  ASSUME DInv, DefsTick
  PROVE  DInv'
<1>1. /\ now' = now + 1
      /\ \A r \in Calls : In(r, "reading") => now - call[r].began < MaxFetch
      /\ \A r \in Calls : ~In(r, "decided")
      /\ UNCHANGED <<rows, replaced, cache, call, edit, overtaken, effective>>
  BY DEF DefsTick
<1>2. Typed /\ Versioned
  BY DEF DInv
<1>3. Typed' /\ Versioned'
  BY <1>1, <1>2 DEF Typed, Versioned
<1>4. ASSUME NEW g \in Gateways PROVE EntryInv(g)'
  <2>1. EntryInv(g) /\ (cache[g] # NoEntry => cache[g].expires \in Nat)
    BY <1>2 DEF DInv, Typed
  <2> QED
    BY <1>1, <1>2, <2>1, Durations DEF EntryInv, Typed
<1>5. ASSUME NEW r \in Calls PROVE CallInv(r)'
  <2>1. CallInv(r) /\ call[r].began \in Nat /\ now \in Nat
    BY <1>2 DEF DInv, Typed, Call
  <2>2. ReadingInv(r)'
    <3> SUFFICES ASSUME In(r, "reading") PROVE ReadingInv(r)'
      BY <1>1 DEF ReadingInv, In
    <3>1. now' <= call[r].began + MaxFetch /\ call[r].began <= now'
      BY <1>1, <1>2, <2>1, Durations DEF CallInv, ReadingInv
    <3> QED
      BY <1>1, <2>1, <3>1 DEF CallInv, ReadingInv, In
  <2> QED
    BY <1>1, <2>1, <2>2 DEF CallInv, DecidedInv, In
<1> QED
  BY <1>3, <1>4, <1>5 DEF DInv

LEMMA NextDInv == DInv /\ [DefsNext]_defsVars => DInv'
<1> SUFFICES ASSUME DInv, [DefsNext]_defsVars PROVE DInv'
  OBVIOUS
<1>1. CASE UNCHANGED defsVars
  BY <1>1 DEF defsVars, DInv, Typed, Versioned, EntryInv, CallInv, ReadingInv, DecidedInv, In
<1>2. ASSUME NEW g \in Gateways, NEW changed \in {{1}, {2, 3}, {3}}, Edit(g, changed) PROVE DInv'
  <2>1. changed \subseteq Tables
    BY DEF Tables
  <2> QED
    BY <1>2, <2>1, EditStep
<1> QED
  BY <1>1, <1>2, LookupStep, ReadStep, EndStep, FillStep, InvalidateStep, TickStep DEF DefsNext

(* No request decides on a user, a plan or a window that was replaced more *)
(* than limiterDefsTTL and the time of three queries before.               *)
THEOREM Staleness ==
  DefsSpec => []StalenessBounded
<1>1. DefsInit => DInv
  BY InitDInv
<1>2. DInv => StalenessBounded
  BY DEF DInv, CallInv, DecidedInv, StalenessBounded
<1> QED
  BY <1>1, <1>2, NextDInv, PTL DEF DefsSpec

(* On a gateway that served every edit, and whose invalidations met no     *)
(* request between its reads and its fill, an edit binds every request     *)
(* that begins after the administrator was answered.                       *)
THEOREM EditsTakeEffectWhereServed ==
  DefsSpec => []EffectiveUnlessOvertaken
<1>1. DefsInit => DInv
  BY InitDInv
<1>2. DInv => EffectiveUnlessOvertaken
  BY DEF DInv, CallInv, DecidedInv, EffectiveUnlessOvertaken
<1> QED
  BY <1>1, <1>2, NextDInv, PTL DEF DefsSpec

=============================================================================
