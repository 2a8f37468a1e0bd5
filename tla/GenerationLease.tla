--------------------------- MODULE GenerationLease ---------------------------
(***************************************************************************)
(* The generation guard over Redis (proxy/limiter.go, AcquireGeneration    *)
(* with useRedis): a lease per scope, taken with SETNX and a time to live, *)
(* renewed by a heartbeat of the holder and deleted by its release.        *)
(*                                                                         *)
(* One unit of time is the heartbeat, generationLeaseHeartbeat.  A renewal *)
(* that fails (Redis unreachable, the two second timeout, a stalled        *)
(* process) is logged and nothing else; the holder does not learn that its *)
(* lease has expired.                                                      *)
(***************************************************************************)
EXTENDS Integers

CONSTANTS
  Handlers,   \* goroutines serving requests, in any number of processes
  Requests,   \* records [user, id, batch]: the requests clients send
  TTL,        \* generationLeaseTTL in heartbeats
  MaxMissed,  \* renewals of one lease that may fail in a row
  NoRequest,  \* a handler without a request
  NoLease,    \* the key is absent
  Outside

ASSUME LeaseAssumption ==
  /\ TTL \in Nat \ {0} /\ MaxMissed \in Nat
  /\ NoRequest \notin Requests

(* generationScope: batch clients get a scope of their own per request.    *)
Scope(r) == IF r.batch THEN r.id ELSE r.user

Scopes == {Scope(r) : r \in Requests}

ASSUME OutsideIsNoScope == Outside \notin Scopes

VARIABLES
  phase,    \* of each handler: "idle", "waiting" or "generating"
  request,  \* what it serves
  lease,    \* the Redis keys: [id, ttl] by scope, or NoLease
  missed,   \* renewals that failed since the lease was last set or renewed
  due       \* the heartbeat of this unit has not happened yet

vars == <<phase, request, lease, missed, due>>

Ids == {r.id : r \in Requests}
Lease == [id : Ids, ttl : 1..TTL]

ASSUME NoLeaseIsAbsence == NoLease \notin Lease

Generating(h) == phase[h] = "generating"
ScopeOf(h) == Scope(request[h])
Owns(h) == lease[ScopeOf(h)] # NoLease /\ lease[ScopeOf(h)].id = request[h].id

Init ==
  /\ phase = [h \in Handlers |-> "idle"]
  /\ request = [h \in Handlers |-> NoRequest]
  /\ lease = [s \in Scopes |-> NoLease]
  /\ missed = [h \in Handlers |-> 0]
  /\ due = [h \in Handlers |-> FALSE]

Arrive(h, r) ==
  /\ phase[h] = "idle"
  /\ phase' = [phase EXCEPT ![h] = "waiting"]
  /\ request' = [request EXCEPT ![h] = r]
  /\ UNCHANGED <<lease, missed, due>>

(* The request is over for this handler.                                   *)
Finish(h) ==
  /\ phase' = [phase EXCEPT ![h] = "idle"]
  /\ request' = [request EXCEPT ![h] = NoRequest]
  /\ missed' = [missed EXCEPT ![h] = 0]
  /\ due' = [due EXCEPT ![h] = FALSE]

TakenOver(s) == TRUE   \* variant: SET instead of SETNX

Free(s) == lease[s] = NoLease

Grant(h) == lease' = [lease EXCEPT ![ScopeOf(h)] = [id |-> request[h].id, ttl |-> TTL]]

(* SETNX succeeds and the heartbeat starts.  Polling a taken key changes   *)
(* nothing.                                                                *)
Acquire(h) ==
  /\ phase[h] = "waiting"
  /\ Free(ScopeOf(h))
  /\ Grant(h)
  /\ phase' = [phase EXCEPT ![h] = "generating"]
  /\ UNCHANGED <<request, missed, due>>

(* Redis sets the key but the answer is lost: the handler gives up with    *)
(* LimitInfrastructure and leaves the key behind.                          *)
AcquireUnacknowledged(h) ==
  /\ phase[h] = "waiting"
  /\ Free(ScopeOf(h))
  /\ Grant(h)
  /\ Finish(h)

(* The client is gone, the wait timed out or Redis failed.                 *)
GiveUp(h) ==
  /\ phase[h] = "waiting"
  /\ Finish(h)
  /\ UNCHANGED lease

(* Variant: the ttl argument of the script is forgotten.                   *)
RenewWithoutExtension(h) ==
  /\ Generating(h) /\ due[h]
  /\ due' = [due EXCEPT ![h] = FALSE]
  /\ missed' = [missed EXCEPT ![h] = 0]
  /\ UNCHANGED <<phase, request, lease>>

(* renewGenerationScript: only the key of this request is extended.  A key *)
(* that is gone or somebody else's returns 0, which is no error.           *)
Renew(h) ==
  /\ Generating(h) /\ due[h]
  /\ due' = [due EXCEPT ![h] = FALSE]
  /\ missed' = [missed EXCEPT ![h] = 0]
  /\ lease' = IF Owns(h) THEN [lease EXCEPT ![ScopeOf(h)].ttl = TTL] ELSE lease
  /\ UNCHANGED <<phase, request>>

RenewFails(h) ==
  /\ Generating(h) /\ due[h]
  /\ missed[h] < MaxMissed
  /\ due' = [due EXCEPT ![h] = FALSE]
  /\ missed' = [missed EXCEPT ![h] = @ + 1]
  /\ UNCHANGED <<phase, request, lease>>

(* releaseGenerationScript: the key is deleted if it names this request.   *)
Release(h) ==
  /\ Generating(h)
  /\ lease' = IF Owns(h) THEN [lease EXCEPT ![ScopeOf(h)] = NoLease] ELSE lease
  /\ Finish(h)

(* The release fails, which is only logged, or the process dies.           *)
ReleaseLost(h) ==
  /\ Generating(h)
  /\ Finish(h)
  /\ UNCHANGED lease

NeverExpires(l) == l   \* variant: SETNX without an expiry

(* A heartbeat of time.  Keys reach the end of their time to live.         *)
Aged(l) == IF l = NoLease \/ l.ttl = 1 THEN NoLease ELSE [l EXCEPT !.ttl = @ - 1]

Tick ==
  /\ \A h \in Handlers : ~due[h]
  /\ lease' = [s \in Scopes |-> Aged(lease[s])]
  /\ due' = [h \in Handlers |-> Generating(h)]
  /\ UNCHANGED <<phase, request, missed>>

Next ==
  \/ \E h \in Handlers :
       \/ \E r \in Requests : Arrive(h, r)
       \/ Acquire(h) \/ AcquireUnacknowledged(h) \/ GiveUp(h)
       \/ Renew(h) \/ RenewFails(h) \/ Release(h) \/ ReleaseLost(h)
  \/ Tick

Spec == Init /\ [][Next]_vars

(* Time passes and tickers fire.  Nothing makes a generation end: a client *)
(* may leave its handler in a write for ever, with the heartbeat going on. *)
FairSpec ==
  /\ Spec
  /\ WF_vars(Tick)
  /\ \A h \in Handlers : WF_vars(Renew(h) \/ RenewFails(h))

-----------------------------------------------------------------------------
(* Properties *)

(* The type invariant.                                                     *)
TypeOK ==
  /\ phase \in [Handlers -> {"idle", "waiting", "generating"}]
  /\ request \in [Handlers -> Requests \cup {NoRequest}]
  /\ lease \in [Scopes -> Lease \cup {NoLease}]
  /\ missed \in [Handlers -> 0..MaxMissed]
  /\ due \in [Handlers -> BOOLEAN]

(* "Serializing admission through settlement": one generation at a time in *)
(* a scope, replayed request ids, lost answers, lost releases and failed   *)
(* renewals included.                                                      *)
OneHolder ==
  \A h, k \in Handlers :
    Generating(h) /\ Generating(k) /\ ScopeOf(h) = ScopeOf(k) => h = k

(* Nobody deletes or outlives the lease of a generation that is running:   *)
(* its key names it until it ends.                                         *)
HolderKeepsLease == \A h \in Handlers : Generating(h) => Owns(h)

(* The guard implements exclusive scopes.                                  *)
Inside == [h \in Handlers |-> IF Generating(h) THEN ScopeOf(h) ELSE Outside]
Guard == INSTANCE ExclusiveScope WITH inside <- Inside
ImplementsExclusiveScope == Guard!Spec

(* A lease does not lock the user out for ever, whatever answers and       *)
(* releases are lost and whichever processes die, if no generation itself  *)
(* goes on for ever.                                                       *)
LeaseEnds ==
  (\A h \in Handlers : []<>~Generating(h))
  => \A s \in Scopes : lease[s] # NoLease ~> lease[s] = NoLease

=============================================================================
