------------------------------ MODULE Lifecycle ------------------------------
(***************************************************************************)
(* The process of the gateway (main.go): it listens at once, connects to   *)
(* the database, builds its handlers and publishes dbReady, which every    *)
(* route checks; a supervised watchdog then pings the database and moves   *)
(* dbReady; a signal starts the drain.                                     *)
(***************************************************************************)
EXTENDS Naturals

CONSTANTS
  Routes,       \* the handlers built after the database has connected
  Attempts,     \* connection attempts, 30 in the code
  Threshold,    \* dbWatchFailureThreshold
  MaxFlakes,    \* bound on the pings that fail although the database is up
  MaxPanics     \* bound on the panics of the watchdog

VARIABLES
  main,      \* what the main goroutine is doing
  attempts,  \* connection attempts made
  wired,     \* handlers assigned
  ready,     \* dbReady
  watchdog,  \* what the watchdog is doing; "off" before it is started
  failures,  \* its counter; MissCap stands for every larger value
  database,  \* "up" or "down"
  flakes, panics   \* so far

vars == <<main, attempts, wired, ready, watchdog, failures, database, flakes, panics>>

MissCap == Threshold + 1
Upto(n) == IF n < MissCap THEN n ELSE MissCap

Init ==
  /\ main = "connecting" /\ attempts = 0
  /\ wired = {} /\ ready = FALSE
  /\ watchdog = "off" /\ failures = 0
  /\ database \in {"up", "down"}
  /\ flakes = 0 /\ panics = 0

-----------------------------------------------------------------------------
(* The main goroutine *)

(* connectWithRetry.                                                       *)
Connect ==
  /\ main = "connecting" /\ attempts < Attempts
  /\ attempts' = attempts + 1
  /\ main' = IF database = "up" THEN "wiring" ELSE "connecting"
  /\ UNCHANGED <<wired, ready, watchdog, failures, database, flakes, panics>>

(* log.Fatalf.                                                             *)
GiveUp ==
  /\ main = "connecting" /\ attempts = Attempts
  /\ main' = "dead"
  /\ UNCHANGED <<attempts, wired, ready, watchdog, failures, database, flakes, panics>>

Wire(r) ==
  /\ main = "wiring" /\ r \notin wired
  /\ wired' = wired \cup {r}
  /\ UNCHANGED <<main, attempts, ready, watchdog, failures, database, flakes, panics>>

Publish ==
  /\ main = "wiring" /\ wired = Routes
  /\ ready' = TRUE /\ main' = "starting"
  /\ UNCHANGED <<attempts, wired, watchdog, failures, database, flakes, panics>>

StartWatchdog ==
  /\ main = "starting"
  /\ main' = "serving" /\ watchdog' = "sleeping"
  /\ UNCHANGED <<attempts, wired, ready, failures, database, flakes, panics>>

(* SIGTERM: dbReady is cleared, and the watchdog goes on.                  *)
Drain ==
  /\ main = "serving"
  /\ main' = "draining" /\ ready' = FALSE
  /\ UNCHANGED <<attempts, wired, watchdog, failures, database, flakes, panics>>

(* Shutdown has waited for the requests, or for its 120 seconds.           *)
Stop ==
  /\ main = "draining"
  /\ main' = "dead"
  /\ UNCHANGED <<attempts, wired, ready, watchdog, failures, database, flakes, panics>>

-----------------------------------------------------------------------------
(* The watchdog *)

Alive == main # "dead"

Ping(result) ==
  /\ Alive /\ watchdog = "sleeping"
  /\ result = "failed" => database = "down" \/ flakes < MaxFlakes
  /\ result = "answered" => database = "up"
  /\ watchdog' = result
  /\ flakes' = IF result = "failed" /\ database = "up" THEN flakes + 1 ELSE flakes
  /\ UNCHANGED <<main, attempts, wired, ready, failures, database, panics>>

(* Variant: the counter is compared before it is incremented.              *)
MissLate ==
  /\ Alive /\ watchdog = "failed"
  /\ failures' = IF failures < Threshold THEN failures + 1 ELSE 0
  /\ ready' = IF failures > Threshold THEN FALSE ELSE ready
  /\ watchdog' = "sleeping"
  /\ UNCHANGED <<main, attempts, wired, database, flakes, panics>>

Miss ==
  /\ Alive /\ watchdog = "failed"
  /\ failures' = Upto(failures + 1)
  /\ ready' = IF failures + 1 = Threshold THEN FALSE ELSE ready
  /\ watchdog' = "sleeping"
  /\ UNCHANGED <<main, attempts, wired, database, flakes, panics>>

(* Variant: an answer clears the counter and leaves the service degraded.  *)
AnswerOnlyCounts ==
  /\ Alive /\ watchdog = "answered"
  /\ failures' = 0
  /\ watchdog' = "sleeping"
  /\ UNCHANGED <<main, attempts, wired, ready, database, flakes, panics>>

Answer ==
  /\ Alive /\ watchdog = "answered"
  /\ failures' = 0 /\ ready' = TRUE
  /\ watchdog' = "sleeping"
  /\ UNCHANGED <<main, attempts, wired, database, flakes, panics>>

(* superviseLoop starts a new loop, with a new counter.                    *)
Panic ==
  /\ Alive /\ watchdog \notin {"off", "panicked"} /\ panics < MaxPanics
  /\ watchdog' = "panicked" /\ panics' = panics + 1
  /\ UNCHANGED <<main, attempts, wired, ready, failures, database, flakes>>

Restart ==
  /\ Alive /\ watchdog = "panicked"
  /\ watchdog' = "sleeping" /\ failures' = 0
  /\ UNCHANGED <<main, attempts, wired, ready, database, flakes, panics>>

DatabaseChanges ==
  /\ database' = IF database = "up" THEN "down" ELSE "up"
  /\ UNCHANGED <<main, attempts, wired, ready, watchdog, failures, flakes, panics>>

Main == Connect \/ GiveUp \/ (\E r \in Routes : Wire(r)) \/ Publish \/ StartWatchdog
Watchdog == Ping("answered") \/ Ping("failed") \/ Miss \/ Answer \/ Restart

Next == Main \/ Watchdog \/ Drain \/ Stop \/ Panic \/ DatabaseChanges

Spec == Init /\ [][Next]_vars

(* Goroutines run, sleeps and pings end; the database owes nothing, nobody *)
(* has to stop the gateway, and the watchdog need not panic.               *)
FairSpec == Spec /\ WF_vars(Main) /\ WF_vars(Watchdog)

-----------------------------------------------------------------------------
(* Properties *)

(* "There is no window where dbReady is true but a handler is still nil":  *)
(* neither the main goroutine nor the watchdog, in whichever run of it,    *)
(* opens the gate before that.                                             *)
HandlersAreAssigned == ready => wired = Routes

Serving == main = "serving"

(* An outage that lasts is noticed, also by a watchdog that panicked.      *)
OutagesAreNoticed == <>[](Serving /\ database = "down") => <>[]~ready

(* "The gateway now survives any database outage unattended".              *)
ServiceResumes == <>[](Serving /\ database = "up") => <>[]ready

=============================================================================
