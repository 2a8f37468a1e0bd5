----------------------------- MODULE LimiterDefs -----------------------------
(***************************************************************************)
(* The definitions CheckLimit decides on (the user, the plan and its       *)
(* budget windows) and the cache each gateway keeps of them                *)
(* (limiterDefsCache of proxy/limiter.go), under the edits of the Admin    *)
(* API, which clear the cache of the gateway that serves them.             *)
(*                                                                         *)
(* A definition is its version; one user, so a cache is an entry.          *)
(***************************************************************************)
EXTENDS Integers, FiniteSets, FiniteSetsExt

CONSTANTS
  Calls,       \* of CheckLimit
  Gateways,
  DefsTTL,     \* limiterDefsTTL
  MaxFetch,    \* ticks the queries of a request take, at most
  MaxEdits,    \* bound on the edits
  MaxTime,     \* bound on the clock
  NoEntry

ASSUME LimiterDefsAssumption ==
  {DefsTTL, MaxFetch, MaxEdits, MaxTime} \subseteq Nat

(* In the order CheckLimit reads them.                                     *)
Tables == 1..3
Versions == 0..(MaxEdits + 1)
Unread == -1

VARIABLES
  rows,      \* the version of each table
  replaced,  \* what was replaced, and when: [table, version, at]
  cache,     \* of each gateway: [defs, expires] or NoEntry
  call,      \* of each: [phase, gateway, defs, began, since]
  edit,      \* the Admin API: the gateway that must clear its cache, or NoEntry
  overtaken, \* gateways where an invalidation met a request that was reading,
             \* or which did not serve some edit
  effective, \* the versions whose edits have been answered
  now

defsVars == <<rows, replaced, cache, call, edit, overtaken, effective, now>>

NoCall == [phase |-> "new", gateway |-> CHOOSE g \in Gateways : TRUE,
           defs |-> [t \in Tables |-> Unread], began |-> 0,
           since |-> [t \in Tables |-> 0]]

DefsInit ==
  /\ rows = [t \in Tables |-> 0]
  /\ replaced = {}
  /\ cache = [g \in Gateways |-> NoEntry]
  /\ call = [r \in Calls |-> NoCall]
  /\ edit = NoEntry
  /\ overtaken = {}
  /\ effective = [t \in Tables |-> 0]
  /\ now = 0

In(r, p) == call[r].phase = p

FreshForEver(g) == cache[g] # NoEntry   \* variant: entries do not expire

(* limiterDefsCache.get.                                                   *)
Fresh(g) == cache[g] # NoEntry /\ now <= cache[g].expires

(* CheckLimit asks the cache of its gateway.                               *)
Lookup(r, g) ==
  /\ In(r, "new")
  /\ call' = [call EXCEPT ![r] =
       [phase |-> IF Fresh(g) THEN "decided" ELSE "reading", gateway |-> g,
        defs |-> IF Fresh(g) THEN cache[g].defs ELSE @.defs,
        began |-> now, since |-> effective]]
  /\ UNCHANGED <<rows, replaced, cache, edit, overtaken, effective, now>>

Missing(r) == {t \in Tables : call[r].defs[t] = Unread}

(* GetUser, GetPlan, ListBudgetWindowsByPlan.                              *)
Read(r) ==
  /\ In(r, "reading") /\ Missing(r) # {}
  /\ LET t == Min(Missing(r)) IN call' = [call EXCEPT ![r].defs[t] = rows[t]]
  /\ UNCHANGED <<rows, replaced, cache, edit, overtaken, effective, now>>

(* A query fails: the request is refused and nothing is cached.            *)
ReadFails(r) ==
  /\ In(r, "reading") /\ Missing(r) # {}
  /\ call' = [call EXCEPT ![r] = NoCall]
  /\ UNCHANGED <<rows, replaced, cache, edit, overtaken, effective, now>>

(* defs.set; the request goes on with what it read.                        *)
Fill(r) ==
  /\ In(r, "reading") /\ Missing(r) = {}
  /\ cache' = [cache EXCEPT ![call[r].gateway] =
                  [defs |-> call[r].defs, expires |-> now + DefsTTL]]
  /\ call' = [call EXCEPT ![r].phase = "decided"]
  /\ UNCHANGED <<rows, replaced, edit, overtaken, effective, now>>

(* The request goes on: its decision is past.                              *)
Forget(r) ==
  /\ In(r, "decided")
  /\ call' = [call EXCEPT ![r] = NoCall]
  /\ UNCHANGED <<rows, replaced, cache, edit, overtaken, effective, now>>

(* A handler of the Admin API writes a table, or a plan and its windows.   *)
Edit(g, changed) ==
  /\ edit = NoEntry
  /\ Cardinality(replaced) < MaxEdits
  /\ rows' = [t \in Tables |-> IF t \in changed THEN rows[t] + 1 ELSE rows[t]]
  /\ replaced' = replaced \cup {[table |-> t, version |-> rows[t], at |-> now] : t \in changed}
  /\ edit' = g
  /\ UNCHANGED <<cache, call, overtaken, effective, now>>

AnswerOnly == UNCHANGED cache   \* variant: no invalidation
Clear == cache' = [cache EXCEPT ![edit] = NoEntry]

(* InvalidateUser or InvalidateAll, then the answer to the administrator.  *)
Invalidate ==
  /\ edit # NoEntry
  /\ Clear
  /\ overtaken' = overtaken \cup
       {g \in Gateways : g # edit \/ \E r \in Calls : In(r, "reading") /\ call[r].gateway = g}
  /\ effective' = rows
  /\ edit' = NoEntry
  /\ UNCHANGED <<rows, replaced, call, now>>

DefsTick ==
  /\ now < MaxTime
  /\ \A r \in Calls : In(r, "reading") => now - call[r].began < MaxFetch
  /\ \A r \in Calls : ~In(r, "decided")
  /\ now' = now + 1
  /\ UNCHANGED <<rows, replaced, cache, call, edit, overtaken, effective>>

DefsNext ==
  \/ \E r \in Calls : \/ \E g \in Gateways : Lookup(r, g)
                         \/ Read(r) \/ ReadFails(r) \/ Fill(r) \/ Forget(r)
  \/ \E g \in Gateways, changed \in {{1}, {2, 3}, {3}} : Edit(g, changed)
  \/ Invalidate
  \/ DefsTick

DefsSpec == DefsInit /\ [][DefsNext]_defsVars

-----------------------------------------------------------------------------
(* Properties *)

(* The type invariant.                                                     *)
DefsTypeOK ==
  /\ rows \in [Tables -> Versions] /\ effective \in [Tables -> Versions]
  /\ \A g \in Gateways : cache[g] # NoEntry =>
       cache[g] \in [defs : [Tables -> Versions], expires : 0..(MaxTime + DefsTTL)]
  /\ call \in [Calls ->
       [phase : {"new", "reading", "decided"}, gateway : Gateways,
        defs : [Tables -> Versions \cup {Unread}], began : 0..MaxTime,
        since : [Tables -> Versions]]]
  /\ edit \in Gateways \cup {NoEntry} /\ overtaken \subseteq Gateways

(* "Short enough that an admin suspending a user or changing a plan takes  *)
(* effect": no decision rests on a definition that was replaced more than  *)
(* a TTL and a fetch ago.                                                  *)
StalenessBounded ==
  \A r \in Calls : In(r, "decided") =>
    \A x \in replaced :
      call[r].defs[x.table] = x.version => now - x.at <= DefsTTL + MaxFetch

(* "effective on the very next request": a request that begins after the   *)
(* answer to an edit decides on that edit or a later one.                  *)
(* (Not kept: README.md.)                                                  *)
EffectiveOnNextRequest ==
  \A r \in Calls : In(r, "decided") =>
    \A t \in Tables : call[r].defs[t] >= call[r].since[t]

(* It does on the gateway that served the edit, unless the answer overtook *)
(* a request that was reading the definitions.                             *)
EffectiveUnlessOvertaken ==
  \A r \in Calls : In(r, "decided") /\ call[r].gateway \notin overtaken =>
    \A t \in Tables : call[r].defs[t] >= call[r].since[t]

=============================================================================
