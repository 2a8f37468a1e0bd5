------------------------------ MODULE FrontDoor ------------------------------
(***************************************************************************)
(* A request on its way into the process: the readiness gate of main.go,   *)
(* the key's check against the database, and the byte budget its body      *)
(* waits for.  Composes Lifecycle, which opens and shuts the gate and      *)
(* owns the database, with ByteBudget, whose callers come through it.      *)
(***************************************************************************)
EXTENDS ByteBudget

CONSTANTS Routes, Attempts, Threshold, MaxFlakes, MaxPanics,   \* of Lifecycle
          Proxy      \* the handler of the proxy's routes

ASSUME LifecycleAssumption ==
  /\ Proxy \in Routes
  /\ Attempts \in Nat /\ Threshold \in Nat \ {0}
  /\ MaxFlakes \in Nat /\ MaxPanics \in Nat

VARIABLES
  main, attempts, wired, ready, watchdog, failures, database, flakes, panics,
  active,    \* the key of the requests and its owner are in force
  door       \* of each caller: "out", "gate", "keys" or "in"

process == <<main, attempts, wired, ready, watchdog, failures, database, flakes, panics>>
all == <<vars, process, active, door>>

L == INSTANCE Lifecycle

FrontDoorInit == Init /\ L!Init /\ active \in BOOLEAN /\ door = [c \in Callers |-> "out"]

Move(c, place) == door' = [door EXCEPT ![c] = place]

-----------------------------------------------------------------------------
(* A request *)

Knock(c) ==
  /\ L!Alive /\ door[c] = "out"
  /\ Move(c, "gate")
  /\ UNCHANGED <<vars, process, active>>

(* proxyWrapper: 503 until the database is connected.                      *)
Gate(c) ==
  /\ door[c] = "gate"
  /\ Move(c, IF ready /\ Proxy \in wired THEN "keys" ELSE "out")
  /\ UNCHANGED <<vars, process, active>>

KeyPassesOpen == database = "up" => active   \* variant: an error lets it pass

(* The key is found, active, not expired, and so is its owner.             *)
KeyPasses == database = "up" /\ active

(* 401, 403, or the 503 of a failed query, of which any query may be one.  *)
TurnedAway(c) ==
  /\ door[c] = "keys"
  /\ Move(c, "out")
  /\ UNCHANGED <<vars, process, active>>

(* The routes with a body; the others answer and are out as above.         *)
LetIn(c) ==
  /\ door[c] = "keys" /\ KeyPasses
  /\ \E n \in Limits : Arrive(c, n)
  /\ Move(c, "in")
  /\ UNCHANGED <<process, active>>

(* Acquire's visits of the mutex.                                          *)
Acquiring(c) ==
  /\ Take(c) \/ Poll(c) \/ Retry(c)
  /\ UNCHANGED <<process, active, door>>

Leave(c) == Cancel(c) /\ Move(c, "out") /\ UNCHANGED <<process, active>>

Served(c) == Finish(c) /\ Move(c, "out") /\ UNCHANGED <<process, active>>

Request(c) ==
  \/ Knock(c) \/ Gate(c) \/ TurnedAway(c) \/ LetIn(c)
  \/ Acquiring(c) \/ Leave(c) \/ Served(c)

-----------------------------------------------------------------------------
(* What happens around it *)

(* An operator revokes or suspends the key or its owner, or reinstates it. *)
Moderate == active' = ~active /\ UNCHANGED <<vars, process, door>>

Runs == L!Next /\ main' # "dead" /\ UNCHANGED <<vars, active, door>>

(* The process ends: what it holds in memory goes with it.                 *)
Dies ==
  /\ L!Alive /\ L!Next /\ main' = "dead"
  /\ avail' = Total
  /\ phase' = [c \in Callers |-> "idle"]
  /\ limit' = [c \in Callers |-> 0]
  /\ acquired' = limit'
  /\ met' = {}
  /\ door' = [c \in Callers |-> "out"]
  /\ UNCHANGED active

Outlives == ~L!Alive /\ L!DatabaseChanges /\ UNCHANGED <<vars, active, door>>

FrontDoorNext == (\E c \in Callers : Request(c)) \/ Moderate \/ Runs \/ Dies \/ Outlives

FrontDoorSpec == FrontDoorInit /\ [][FrontDoorNext]_all

(* Goroutines run, pings and sleeps end.  Nothing makes a client cancel, or*)
(* take the reply its handler writes (main.go sets no WriteTimeout), or the*)
(* database come back, or an operator act.                                 *)
FrontDoorFair ==
  /\ FrontDoorSpec
  /\ \A c \in Callers : WF_all(Acquiring(c))
  /\ WF_all((Runs \/ Dies) /\ L!Main)
  /\ WF_all(Runs /\ L!Watchdog)

-----------------------------------------------------------------------------
(* Properties; BytesConserved and TrafficMoves are ByteBudget's *)

(* The type invariant.                                                     *)
FrontDoorTypeOK ==
  /\ TypeOK
  /\ active \in BOOLEAN
  /\ door \in [Callers -> {"out", "gate", "keys", "in"}]
  /\ \A c \in Callers : phase[c] # "idle" <=> door[c] = "in"

(* "There is no window where dbReady is true but a handler is still nil".  *)
HandlersAreAssigned == L!HandlersAreAssigned

(* An outage that lasts is noticed, also by a watchdog that panicked.      *)
OutagesAreNoticed == L!OutagesAreNoticed

(* "The gateway now survives any database outage unattended".              *)
ServiceResumes == L!ServiceResumes

(* A key that stays revoked empties the gateway, if no handler keeps its   *)
(* buffer for good (a client may leave a reply unread for ever) and the    *)
(* waiters do not hold the whole budget between them: what was inside ends,*)
(* what waits for its bytes gets them or leaves, and no outage lets another*)
(* request in.                                                             *)
RevocationTakesHold ==
  /\ <>[]~active
  /\ []<>BytesToCome
  /\ \A c \in Callers : []<>(phase[c] # "buffering")
  => <>[](\A c \in Callers : door[c] # "in")

=============================================================================
