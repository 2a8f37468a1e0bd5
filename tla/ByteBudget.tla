----------------------------- MODULE ByteBudget -----------------------------
(***************************************************************************)
(* The cap on buffered request bytes (proxy/bytebudget.go): ServeHTTP      *)
(* takes the body limit of a route before it reads the body and returns it *)
(* when the handler ends.  Acquire collects its bytes in pieces, a piece   *)
(* for each visit of the mutex, and keeps what it has while it polls.      *)
(* Two requests of different limits may so hold the whole budget between   *)
(* them, each short of its own share.                                      *)
(***************************************************************************)
EXTENDS UnitSums

CONSTANTS
  Callers,   \* goroutines of ServeHTTP
  Limits,    \* the body limits of the routes: two in the code
  Total      \* maxInflightRequestBytes

ASSUME BudgetAssumption ==
  /\ IsFiniteSet(Callers)
  /\ Limits \subseteq Nat \ {0}
  /\ Total \in Nat \ {0}

VARIABLES
  avail,     \* bytes in the budget
  phase,     \* of each caller: "idle", "taking", "polling" or "buffering"
  limit,     \* the n of its Acquire, 0 when idle
  acquired,  \* what it has
  met        \* history: the limits of those inside since the budget was last whole

vars == <<avail, phase, limit, acquired, met>>

Init ==
  /\ avail = Total
  /\ phase = [c \in Callers |-> "idle"]
  /\ limit = [c \in Callers |-> 0]
  /\ acquired = [c \in Callers |-> 0]
  /\ met = {}

Goto(c, p) == phase' = [phase EXCEPT ![c] = p]

Arrive(c, n) ==
  /\ phase[c] = "idle"
  /\ Goto(c, "taking")
  /\ limit' = [limit EXCEPT ![c] = n]
  /\ met' = met \cup {n}
  /\ UNCHANGED <<avail, acquired>>

Lesser(a, b) == IF a < b THEN a ELSE b

OneToken(c) == Lesser(1, limit[c] - acquired[c])   \* variant: unit by unit

Piece(c) == Lesser(avail, limit[c] - acquired[c])

(* A visit of the mutex that finds bytes.                                  *)
Take(c) ==
  /\ phase[c] = "taking" /\ avail > 0
  /\ avail' = avail - Piece(c)
  /\ acquired' = [acquired EXCEPT ![c] = @ + Piece(c)]
  /\ Goto(c, IF acquired[c] + Piece(c) < limit[c] THEN "taking" ELSE "buffering")
  /\ UNCHANGED <<limit, met>>

(* One that finds none: five milliseconds, or the context's end.           *)
Poll(c) ==
  /\ phase[c] = "taking" /\ avail <= 0
  /\ Goto(c, "polling")
  /\ UNCHANGED <<avail, limit, acquired, met>>

Retry(c) ==
  /\ phase[c] = "polling"
  /\ Goto(c, "taking")
  /\ UNCHANGED <<avail, limit, acquired, met>>

Inside == {c \in Callers : phase[c] # "idle"}

(* Release, and the caller is through.                                     *)
GiveBack(c, n) ==
  /\ avail' = avail + n
  /\ met' = IF avail + n = Total THEN {limit[d] : d \in Inside \ {c}} ELSE met
  /\ Goto(c, "idle")
  /\ limit' = [limit EXCEPT ![c] = 0]
  /\ acquired' = [acquired EXCEPT ![c] = 0]

(* Variant: the context's error is returned without Release.               *)
CancelWithoutRelease(c) == phase[c] = "polling" /\ GiveBack(c, 0)

Cancel(c) == phase[c] = "polling" /\ GiveBack(c, acquired[c])

(* The deferred Release of ServeHTTP.                                      *)
Finish(c) == phase[c] = "buffering" /\ GiveBack(c, limit[c])

Next ==
  \E c \in Callers :
    \/ \E n \in Limits : Arrive(c, n)
    \/ Take(c) \/ Poll(c) \/ Retry(c) \/ Cancel(c) \/ Finish(c)

Spec == Init /\ [][Next]_vars

(* Goroutines run.  Nothing makes a handler that has its buffer end, and a *)
(* connection whose body nobody reads yet is not watched for a client that *)
(* leaves: a caller that waits is not cancelled.                           *)
FairSpec == Spec /\ \A c \in Callers : WF_vars(Take(c) \/ Poll(c) \/ Retry(c))

-----------------------------------------------------------------------------
(* Properties *)

(* The type invariant.                                                     *)
TypeOK ==
  /\ avail \in 0..Total
  /\ phase \in [Callers -> {"idle", "taking", "polling", "buffering"}]
  /\ limit \in [Callers -> Limits \cup {0}]
  /\ acquired \in [Callers -> Nat]
  /\ \A c \in Callers : acquired[c] <= limit[c]
  /\ met \subseteq Limits

(* No byte is lost or made: whoever is cancelled half way, the free bytes  *)
(* and the held ones add up to the cap.                                    *)
BytesConserved == avail + SumOf(acquired, Callers) = Total

Buffering == {c \in Callers : phase[c] = "buffering"}
Waiting == {c \in Callers : phase[c] \in {"taking", "polling"}}

(* The cap is a cap: the bodies in memory never exceed it.                 *)
BuffersBounded == SumOf(limit, Buffering) <= Total

(* "A blocked Acquire delays, never fails, well-behaved traffic": while    *)
(* requests wait, bytes are free, or somebody with a whole buffer will free*)
(* some.  (Not kept: chats and transcriptions may hold the whole budget    *)
(* between them, each short, README.md.)                                   *)
BytesToCome == Waiting # {} => avail > 0 \/ Buffering # {}

(* When that is sure: since the budget was last whole every request had    *)
(* the same limit, one within the cap, or all that are inside fit together.*)
OneKind == \E n \in Limits : met \subseteq {n} /\ n <= Total
AllFit == SumOf(limit, Inside) <= Total

(* Waiters never hold the whole budget between them, each short of its own *)
(* share, unless bodies of two limits meet that exceed the cap together.   *)
NeverStuck == OneKind \/ AllFit => BytesToCome

(* While requests wait, some request gets its buffer, or all of them gave  *)
(* up, or bodies of two limits met that exceed the cap together.           *)
TrafficMoves == Waiting # {} ~> \/ Buffering # {} \/ Waiting = {}
                                \/ ~(OneKind \/ AllFit)

=============================================================================
