----------------------------- MODULE RateLimiter -----------------------------
(***************************************************************************)
(* The throughput limits of one virtual key (CheckLimit of                 *)
(* proxy/limiter.go): a sliding window of Window ticks in which at most    *)
(* Rpm requests and Tpm tokens may pass.  It is kept either in Redis,      *)
(* shared by the gateways and updated by one atomic script, or in the      *)
(* memory of a gateway, in a KeyLimiter that a background sweep drops when *)
(* it is idle; the memory also stands in for a Redis that fails, unless    *)
(* REQUIRE_REDIS is set.                                                   *)
(*                                                                         *)
(* A KeyLimiter is an object of the heap, named after the request that     *)
(* created it: a request gets hold of it first and locks it later.         *)
(***************************************************************************)
EXTENDS UnitSums, Sequences, FiniteSetsExt, Functions

CONSTANTS
  Requests, Gateways,
  Tokens,         \* of each request: its estimate
  Nano,           \* of each request: the nanosecond of the tick it starts in
  Skew, MaxSkew,  \* of each gateway: how far its clock is ahead, and at most
  Lag,            \* ticks between reading the clock and the script, at most
  Rpm, Tpm,       \* the limits of the plan; 0 is no limit
  Window,         \* one minute
  Keep,           \* the expiry of the Redis keys, 75 seconds
  SweepInterval, IdleAfter,
  UsesRedis, RequiresRedis,
  MaxTime,        \* bound on the clock
  NoLimiter, Redis

ASSUME RateLimiterAssumption ==
  /\ Tokens \in [Requests -> Nat] /\ Nano \in [Requests -> Nat]
  /\ MaxSkew \in Nat /\ Skew \in [Gateways -> 0..MaxSkew] /\ Gateways # {}
  /\ {Lag, Rpm, Tpm, MaxTime} \subseteq Nat
  /\ {Window, Keep, SweepInterval, IdleAfter} \subseteq Nat \ {0}
  /\ Window <= Keep
  /\ Redis \notin Requests /\ NoLimiter \notin Requests

VARIABLES
  call,      \* of each request: [phase, gateway, at, limiter]
  limiters,  \* of each gateway: the entry of its map for the key
  memory,    \* of each KeyLimiter: [requests, tokens], two sequences
  zsets,     \* in Redis: [rpm, tpm], each [scores, touched]
  sweptAt,   \* when each gateway last swept
  counted,   \* requests some limiter has counted: [request, at, by], so far
  now

limiterVars == <<call, limiters, memory, zsets, sweptAt, counted, now>>

Clock(g) == now + Skew[g]
NoCall == [phase |-> "new", gateway |-> CHOOSE g \in Gateways : TRUE, at |-> 0,
           limiter |-> NoLimiter]
EmptyLimiter == [requests |-> <<>>, tokens |-> <<>>]
EmptySet == [scores |-> <<>>, touched |-> 0]

LimiterInit ==
  /\ call = [r \in Requests |-> NoCall]
  /\ limiters = [g \in Gateways |-> NoLimiter]
  /\ memory = [r \in Requests |-> EmptyLimiter]
  /\ zsets = [rpm |-> EmptySet, tpm |-> EmptySet]
  /\ sweptAt = [g \in Gateways |-> 0]
  /\ counted = {}
  /\ now = 0

In(r, p) == call[r].phase = p
Become(r, p) == call' = [call EXCEPT ![r].phase = p]

-----------------------------------------------------------------------------
(* In memory *)

(* getLimiter: the entry of the map, or a new one.                         *)
GetLimiter(r, g) ==
  /\ IF UsesRedis THEN In(r, "fallback") /\ call[r].gateway = g ELSE In(r, "new")
  /\ LET kl == IF limiters[g] = NoLimiter THEN r ELSE limiters[g] IN
     /\ limiters' = [limiters EXCEPT ![g] = kl]
     /\ call' = [call EXCEPT ![r] = [phase |-> "holding", gateway |-> g, at |-> 0,
                                     limiter |-> kl]]
  /\ UNCHANGED <<memory, zsets, sweptAt, counted, now>>

TokenSum(tokens) == SumOf([i \in DOMAIN tokens |-> tokens[i].n], DOMAIN tokens)

Exceeds(requests, tokens, r) ==
  \/ Rpm > 0 /\ requests >= Rpm
  \/ Tpm > 0 /\ tokens + Tokens[r] > Tpm

(* Variant: a record is dropped a tick early.                              *)
AfterTheNext(records, cutoff) == {i \in DOMAIN records : records[i].at > cutoff + 1}

After(records, cutoff) == {i \in DOMAIN records : records[i].at > cutoff}

(* The slice from the first record after the cutoff; none if there is none. *)
Since(records, cutoff) ==
  LET live == After(records, cutoff) IN
  IF live = {} THEN <<>> ELSE SubSeq(records, Min(live), Len(records))

(* Both slices lose what is a minute old.                                  *)
Pruned(kl, t) == [requests |-> Since(memory[kl].requests, t - Window),
                  tokens |-> Since(memory[kl].tokens, t - Window)]

Recorded(kept, r, t) ==
  [requests |-> Append(kept.requests, [at |-> t]),
   tokens |-> IF Tokens[r] > 0 THEN Append(kept.tokens, [at |-> t, n |-> Tokens[r]])
              ELSE kept.tokens]

Count(r, t, by) == counted' = counted \cup {[request |-> r, at |-> t, by |-> by]}

(* checkInMemoryLimits, under the lock of the KeyLimiter it holds.         *)
CheckMemory(r) ==
  /\ In(r, "holding")
  /\ LET kl == call[r].limiter
         t == Clock(call[r].gateway)
         kept == Pruned(kl, t) IN
     IF Exceeds(Len(kept.requests), TokenSum(kept.tokens), r)
     THEN /\ memory' = [memory EXCEPT ![kl] = kept]
          /\ call' = [call EXCEPT ![r].phase = "throttled", ![r].at = t]
          /\ UNCHANGED counted
     ELSE /\ memory' = [memory EXCEPT ![kl] = Recorded(kept, r, t)]
          /\ call' = [call EXCEPT ![r].phase = "passed", ![r].at = t]
          /\ Count(r, t, kl)
  /\ UNCHANGED <<limiters, zsets, sweptAt, now>>

(* No activity since the cutoff; a limiter nobody used yet has none.       *)
Idle(kl, t) ==
  \A i \in DOMAIN memory[kl].requests : memory[kl].requests[i].at < t - IdleAfter

(* sweepInMemoryLimiters wakes up.                                         *)
Sweep(g) ==
  /\ now - sweptAt[g] >= SweepInterval
  /\ sweptAt' = [sweptAt EXCEPT ![g] = now]
  /\ limiters' = IF limiters[g] # NoLimiter /\ Idle(limiters[g], Clock(g))
                 THEN [limiters EXCEPT ![g] = NoLimiter] ELSE limiters
  /\ UNCHANGED <<call, memory, zsets, counted, now>>

-----------------------------------------------------------------------------
(* In Redis *)

(* checkRedisLimits reads the clock and calls the script.                  *)
AskRedis(r, g) ==
  /\ UsesRedis /\ In(r, "new")
  /\ call' = [call EXCEPT ![r] = [phase |-> "asking", gateway |-> g, at |-> Clock(g),
                                  limiter |-> NoLimiter]]
  /\ UNCHANGED <<limiters, memory, zsets, sweptAt, counted, now>>

(* Variant: old members are not removed.                                   *)
LiveUnpruned(set, t) == IF now - set.touched >= Keep THEN <<>> ELSE set.scores

(* What the script finds: expired keys are gone, old members are removed.  *)
Live(set, t) ==
  IF now - set.touched >= Keep THEN <<>>
  ELSE Restrict(set.scores, {m \in DOMAIN set.scores : set.scores[m] > t - Window})

MilliMember(r) == <<call[r].at>>   \* variant: the member is the score

ReqMember(r) == <<call[r].at, Nano[r]>>
TokMember(r) == <<call[r].at, Nano[r], Tokens[r]>>
Add(scores, m, t) == [x \in DOMAIN scores \cup {m} |-> IF x = m THEN t ELSE scores[x]]
MemberSum(scores) == SumOf([m \in DOMAIN scores |-> m[3]], DOMAIN scores)

Unavailable(r) == Become(r, IF RequiresRedis THEN "unavailable" ELSE "fallback")

(* atomicLimitScript, run within the timeout of the call.  Its reply may   *)
(* be lost.                                                                *)
RunScript(r) ==
  /\ In(r, "asking")
  /\ LET t == call[r].at
         rpm == Live(zsets.rpm, t)
         tpm == Live(zsets.tpm, t) IN
     IF Exceeds(Cardinality(DOMAIN rpm), MemberSum(tpm), r)
     THEN /\ zsets' = [rpm |-> [zsets.rpm EXCEPT !.scores = rpm],
                       tpm |-> [zsets.tpm EXCEPT !.scores = tpm]]
          /\ Become(r, "throttled") \/ Unavailable(r)
          /\ UNCHANGED counted
     ELSE /\ zsets' = [rpm |-> [scores |-> Add(rpm, ReqMember(r), t), touched |-> now],
                       tpm |-> IF Tokens[r] > 0
                               THEN [scores |-> Add(tpm, TokMember(r), t), touched |-> now]
                               ELSE [scores |-> tpm, touched |-> zsets.tpm.touched]]
          /\ Become(r, "passed") \/ Unavailable(r)
          /\ Count(r, t, Redis)
  /\ UNCHANGED <<limiters, memory, sweptAt, now>>

(* The call never reaches Redis.                                           *)
RedisFails(r) ==
  /\ In(r, "asking")
  /\ Unavailable(r)
  /\ UNCHANGED <<limiters, memory, zsets, sweptAt, counted, now>>

-----------------------------------------------------------------------------
Asking(r) == In(r, "asking") /\ now + Skew[call[r].gateway] - call[r].at >= Lag

(* A call that is out does not outlive its timeout.                        *)
Tick ==
  /\ now < MaxTime /\ \A r \in Requests : ~Asking(r)
  /\ now' = now + 1
  /\ UNCHANGED <<call, limiters, memory, zsets, sweptAt, counted>>

LimiterNext ==
  \/ \E r \in Requests :
       \/ \E g \in Gateways : GetLimiter(r, g) \/ AskRedis(r, g)
       \/ CheckMemory(r) \/ RunScript(r) \/ RedisFails(r)
  \/ \E g \in Gateways : Sweep(g)
  \/ Tick

LimiterSpec == LimiterInit /\ [][LimiterNext]_limiterVars

-----------------------------------------------------------------------------
(* Properties *)

Phases == {"new", "holding", "asking", "fallback", "passed", "throttled", "unavailable"}
Times == 0..(MaxTime + MaxSkew)

(* The type invariant.                                                     *)
LimiterTypeOK ==
  /\ call \in [Requests -> [phase : Phases, gateway : Gateways, at : Times,
                            limiter : Requests \cup {NoLimiter}]]
  /\ limiters \in [Gateways -> Requests \cup {NoLimiter}]
  /\ \A r \in Requests : /\ memory[r].requests \in Seq([at : Times])
                         /\ memory[r].tokens \in Seq([at : Times, n : Nat \ {0}])
                         /\ Rpm > 0 => Len(memory[r].requests) <= Rpm
  /\ counted \subseteq [request : Requests, at : Times, by : Requests \cup {Redis}]

(* How far the clocks that stamped two requests of a limiter may disagree. *)
Slack(by) == IF by = Redis THEN Lag + MaxSkew ELSE 0

Between(set, first, last) == {x \in set : x.at \in first..last}
TokensOf(set) == SumOf([x \in set |-> Tokens[x.request]], set)
Within(set) ==
  /\ Rpm > 0 => Cardinality(set) <= Rpm
  /\ Tpm > 0 => TokensOf(set) <= Tpm
By(b) == {x \in counted : x.by = b}

(* "closes that window entirely": no burst, from any gateway and in any    *)
(* order, gets more than the limits through Redis within a minute, up to   *)
(* the disagreement of the clocks; and whatever Redis or another limiter   *)
(* lets through, the same holds of every KeyLimiter.                       *)
EachLimiterHolds ==
  \A x \in counted : Within(Between(By(x.by), x.at - (Window - Slack(x.by)) + 1, x.at))

(* The minute of the key holds what the plan allows, whoever counts.  (Not *)
(* kept when a KeyLimiter is swept under a request: README.md.)            *)
LimitsHold ==
  \A x \in counted : Within(Between(counted, x.at - (Window - Slack(x.by)) + 1, x.at))

(* A request is throttled only if what its limiter counted within the      *)
(* last minute leaves no room for it.                                      *)
ThrottlingIsJustified ==
  [][\A r \in Requests : In(r, "asking") \/ In(r, "holding") =>
       (call'[r].phase = "throttled" =>
          LET by == IF In(r, "asking") THEN Redis ELSE call[r].limiter
              recent == Between(By(by), call'[r].at - Window + 1, call'[r].at + Slack(by))
          IN Exceeds(Cardinality(recent), TokensOf(recent), r))]_limiterVars

=============================================================================
