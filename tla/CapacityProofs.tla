--------------------------- MODULE CapacityProofs ---------------------------
(***************************************************************************)
(* What the gateway takes on at most.                                      *)
(*                                                                         *)
(* The bytes of request bodies: for every number of callers, every set of  *)
(* body limits and every cap, no byte of the budget is lost or made, so    *)
(* the buffered bodies never exceed the cap; requests never block each     *)
(* other for good unless bodies of two limits meet that exceed the cap     *)
(* together; nor does any end of the process lose a byte, or open the gate *)
(* before there are handlers.                                              *)
(* Behind the gate the cap holds, traffic moves and a revoked key takes    *)
(* hold; the watchdog notices an outage and its end.                       *)
(*                                                                         *)
(* The throughput of a key: for all requests, gateways, clocks and limits, *)
(* Redis and each KeyLimiter let no more pass in a window than the plan    *)
(* allows, and refuse nothing that they have room for.                     *)
(***************************************************************************)
EXTENDS FrontDoor, RateLimiter, BudgetTheorems, SequenceTheorems, TLAPS

-----------------------------------------------------------------------------
(* The request byte budget *)

(* What each phase says of the bytes held.  TypeOK alone is not inductive: *)
(* that nobody holds more than the cap follows from conservation.          *)
Shape ==
  /\ avail \in Nat
  /\ phase \in [Callers -> {"idle", "taking", "polling", "buffering"}]
  /\ limit \in [Callers -> Limits \cup {0}]
  /\ acquired \in [Callers -> Nat]
  /\ met \subseteq Limits
  /\ \A c \in Callers : /\ phase[c] = "idle" => limit[c] = 0 /\ acquired[c] = 0
                        /\ phase[c] # "idle" => limit[c] \in met
                        /\ phase[c] \in {"taking", "polling"} =>
                             limit[c] \in Limits /\ acquired[c] < limit[c]
                        /\ phase[c] = "buffering" => acquired[c] = limit[c]

IInv == Shape /\ BytesConserved

LEMMA LimitsAreNat == Shape => \A c \in Callers : limit[c] \in Nat
BY BudgetAssumption DEF Shape

LEMMA ShapeStep == ASSUME Shape, Next PROVE Shape'
<1>1. ASSUME NEW c \in Callers, NEW n \in Limits, Arrive(c, n) PROVE Shape'
  BY <1>1, BudgetAssumption DEF Shape, Arrive, Goto
<1>2. ASSUME NEW c \in Callers, Take(c) PROVE Shape'
  <2>1. /\ avail \in Nat /\ avail > 0 /\ limit[c] \in Nat /\ acquired[c] \in Nat
        /\ acquired[c] < limit[c] /\ limit[c] \in Limits
    BY <1>2, BudgetAssumption DEF Shape, Take
  <2>2. /\ Piece(c) \in Nat /\ Piece(c) <= avail /\ acquired[c] + Piece(c) <= limit[c]
    BY <2>1 DEF Piece, Lesser
  <2>3. /\ avail' = avail - Piece(c) /\ limit' = limit /\ met' = met
        /\ acquired' = [acquired EXCEPT ![c] = acquired[c] + Piece(c)]
        /\ phase' = [phase EXCEPT ![c] = IF acquired[c] + Piece(c) < limit[c]
                                         THEN "taking" ELSE "buffering"]
    BY <1>2 DEF Take, Goto
  <2> HIDE DEF Piece
  <2>4. avail' \in Nat /\ acquired[c] + Piece(c) \in Nat
    BY <2>1, <2>2, <2>3
  <2> QED
    BY <2>1, <2>2, <2>3, <2>4 DEF Shape
<1>3. ASSUME NEW c \in Callers, Poll(c) \/ Retry(c) PROVE Shape'
  <2>1. \E p \in {"polling", "taking"} : phase' = [phase EXCEPT ![c] = p]
    BY <1>3 DEF Poll, Retry, Goto
  <2>2. phase[c] \in {"polling", "taking"} /\ UNCHANGED <<avail, limit, acquired, met>>
    BY <1>3 DEF Poll, Retry
  <2> QED
    BY <2>1, <2>2 DEF Shape
<1>4. ASSUME NEW c \in Callers, Cancel(c) \/ Finish(c) PROVE Shape'
  <2>1. /\ phase' = [phase EXCEPT ![c] = "idle"] /\ limit' = [limit EXCEPT ![c] = 0]
        /\ acquired' = [acquired EXCEPT ![c] = 0] /\ avail' \in Nat
    BY <1>4, LimitsAreNat DEF Shape, Cancel, Finish, GiveBack, Goto
  <2>2. met' \subseteq Limits /\ \A d \in Inside \ {c} : limit[d] \in met'
    BY <1>4 DEF Shape, Cancel, Finish, GiveBack, Inside
  <2> QED
    BY <2>1, <2>2 DEF Shape, Inside
<1> QED
  BY <1>1, <1>2, <1>3, <1>4 DEF Next

(* What one caller gains or gives back the budget loses or gets.           *)
LEMMA Transfer ==
  ASSUME IInv, Shape', NEW c \in Callers, NEW d \in Int, avail' = avail - d,
         acquired'[c] = acquired[c] + d,
         \A x \in Callers \ {c} : acquired'[x] = acquired[x]
  PROVE  BytesConserved'
<1>1. \A x \in Callers : acquired[x] \in Nat /\ acquired'[x] \in Nat
  BY DEF IInv, Shape
<1> DEFINE f == acquired
           g == acquired'
           s == SumOf(f, Callers)
           t == SumOf(g, Callers)
<1>2. t = s + d
  BY <1>1, SumRaise, BudgetAssumption
<1>3. s \in Nat
  BY <1>1, SumType, BudgetAssumption
<1>4. avail + s = Total /\ avail \in Nat
  BY DEF IInv, BytesConserved, Shape
<1> HIDE DEF s, t
<1>5. avail' + t = Total
  BY <1>2, <1>3, <1>4
<1> QED
  BY <1>5 DEF t, BytesConserved

LEMMA ConservationStep == ASSUME IInv, Shape', Next PROVE BytesConserved'
<1>1. ASSUME NEW c \in Callers, NEW n \in Limits, Arrive(c, n) PROVE BytesConserved'
  BY <1>1 DEF IInv, BytesConserved, Arrive
<1>2. ASSUME NEW c \in Callers, Take(c) PROVE BytesConserved'
  <2>1. Piece(c) \in Int /\ acquired[c] \in Int
    BY <1>2, LimitsAreNat DEF IInv, Shape, Piece, Lesser
  <2>2. /\ avail' = avail - Piece(c) /\ acquired'[c] = acquired[c] + Piece(c)
        /\ \A x \in Callers \ {c} : acquired'[x] = acquired[x]
    BY <1>2 DEF Take, IInv, Shape
  <2> QED
    BY <2>1, <2>2, Transfer
<1>3. ASSUME NEW c \in Callers, Poll(c) \/ Retry(c) PROVE BytesConserved'
  BY <1>3 DEF IInv, BytesConserved, Poll, Retry
<1>4. ASSUME NEW c \in Callers, Cancel(c) \/ Finish(c) PROVE BytesConserved'
  <2>1. avail' = avail + acquired[c] /\ acquired' = [acquired EXCEPT ![c] = 0]
    BY <1>4 DEF Cancel, Finish, GiveBack, IInv, Shape
  <2>2. acquired[c] \in Nat /\ avail \in Nat /\ acquired \in [Callers -> Nat]
    BY DEF IInv, Shape
  <2>3. /\ 0 - acquired[c] \in Int /\ avail' = avail - (0 - acquired[c])
        /\ acquired'[c] = acquired[c] + (0 - acquired[c])
        /\ \A x \in Callers \ {c} : acquired'[x] = acquired[x]
    BY <2>1, <2>2
  <2> QED
    BY <2>3, Transfer
<1> QED
  BY <1>1, <1>2, <1>3, <1>4 DEF Next

LEMMA InitIInv == Init => IInv
<1> SUFFICES ASSUME Init PROVE IInv
  OBVIOUS
<1>1. Shape
  BY BudgetAssumption DEF Init, Shape
<1>2. SumOf(acquired, Callers) = 0
  BY SumZero DEF Init
<1>3. BytesConserved
  BY <1>2, BudgetAssumption DEF Init, BytesConserved
<1> QED
  BY <1>1, <1>3 DEF IInv

LEMMA NextIInv == IInv /\ [Next]_vars => IInv'
<1>1. UNCHANGED vars => (IInv => IInv')
  BY DEF vars, IInv, Shape, BytesConserved
<1> QED
  BY <1>1, ShapeStep, ConservationStep DEF IInv

LEMMA Invariant == Spec => []IInv
  BY InitIInv, NextIInv, PTL DEF Spec

(* The budget neither leaks nor grows: a request cancelled half way gives  *)
(* back exactly what it took.                                              *)
THEOREM NoByteIsLost == Spec => []BytesConserved
<1>1. IInv => BytesConserved
  BY DEF IInv
<1> QED
  BY <1>1, Invariant, PTL

LEMMA IInvBounds == IInv => BuffersBounded
<1> SUFFICES ASSUME IInv PROVE BuffersBounded
  OBVIOUS
<1> DEFINE s == SumOf(acquired, Callers)
           b == SumOf(limit, Buffering)
<1>1. /\ \A c \in Callers : acquired[c] \in Nat
      /\ \A c \in Buffering : limit[c] \in Nat /\ limit[c] <= acquired[c]
      /\ Buffering \subseteq Callers
  BY LimitsAreNat DEF IInv, Shape, Buffering
<1>2. b <= s
  BY <1>1, SumMono, BudgetAssumption
<1>3. s \in Nat
  BY <1>1, SumType, BudgetAssumption
<1>4. b \in Nat
  BY <1>1, SumType, BudgetAssumption, FS_Subset
<1>5. avail + s = Total /\ avail \in Nat
  BY DEF IInv, BytesConserved, Shape
<1> HIDE DEF s, b
<1>6. b <= Total
  BY <1>2, <1>3, <1>4, <1>5, BudgetAssumption
<1> QED
  BY <1>6 DEF b, BuffersBounded

(* The bodies that are in memory at one time never exceed the cap.         *)
THEOREM MemoryIsBounded == Spec => []BuffersBounded
  BY Invariant, IInvBounds, PTL

LEMMA IInvTypes == IInv => TypeOK
<1> SUFFICES ASSUME IInv PROVE TypeOK
  OBVIOUS
<1> DEFINE s == SumOf(acquired, Callers)
<1>1. s \in Nat
  BY SumType, BudgetAssumption DEF IInv, Shape
<1>2. avail + s = Total /\ avail \in Nat
  BY DEF IInv, BytesConserved, Shape
<1> HIDE DEF s
<1>3. avail \in 0..Total
  BY <1>1, <1>2, BudgetAssumption
<1>4. \A c \in Callers : acquired[c] <= limit[c]
  BY LimitsAreNat DEF IInv, Shape
<1> QED
  BY <1>3, <1>4 DEF TypeOK, IInv, Shape

(* Types, with the budget between 0 and the cap.                           *)
THEOREM ByteBudgetTypes == Spec => []TypeOK
  BY Invariant, IInvTypes, PTL

-----------------------------------------------------------------------------
(* Requests of a single size n: met is within {n}.  The caller that finds less than n left is *)
(* the only one to hold a part, always the same: r, what the cap is more   *)
(* than a multiple of n.                                                   *)
Multiples(n) == {k * n : k \in Nat}
Partial == {c \in Waiting : acquired[c] # 0}

Remainder(n, r) ==
  /\ \A c, d \in Partial : c = d
  /\ \A c \in Partial : acquired[c] = r
  /\ IF Partial = {} THEN avail - r \in Multiples(n) ELSE avail \in Multiples(n)

LEMMA MultipleSteps ==
  ASSUME NEW n \in Nat \ {0}
  PROVE  /\ 0 \in Multiples(n) /\ Multiples(n) \subseteq Nat
         /\ \A a \in Multiples(n) : a + n \in Multiples(n)
         /\ \A a \in Multiples(n) : a > 0 => a >= n /\ a - n \in Multiples(n)
<1>1. 0 \in Multiples(n) /\ Multiples(n) \subseteq Nat
  <2>1. 0 = 0 * n
    OBVIOUS
  <2>2. \A k \in Nat : k * n \in Nat
    OBVIOUS
  <2> QED
    BY <2>1, <2>2 DEF Multiples
<1>2. ASSUME NEW a \in Multiples(n) PROVE a + n \in Multiples(n)
  <2>1. PICK k \in Nat : a = k * n
    BY DEF Multiples
  <2>2. a + n = (k + 1) * n /\ k + 1 \in Nat
    BY <2>1
  <2> QED
    BY <2>2 DEF Multiples
<1>3. ASSUME NEW a \in Multiples(n), a > 0 PROVE a >= n /\ a - n \in Multiples(n)
  <2>1. PICK k \in Nat : a = k * n
    BY DEF Multiples
  <2>2. k # 0
    BY <1>3, <2>1
  <2>3. PICK j \in Nat : k = j + 1
    BY <2>2
  <2>4. a = j * n + n /\ j * n \in Nat
    BY <2>1, <2>3
  <2>5. a - n = j * n /\ a >= n
    BY <2>4
  <2> QED
    BY <2>5 DEF Multiples
<1> QED
  BY <1>1, <1>2, <1>3

(* A visit of the mutex that finds n bytes completes the buffer; one that  *)
(* finds less takes the remainder, and then nobody holds a part yet.       *)
LEMMA TakeRemainder ==
  ASSUME NEW n \in Nat \ {0}, NEW r \in Nat, r < n, met \subseteq {n},
         IInv, Remainder(n, r), NEW c \in Callers, Take(c)
  PROVE  Remainder(n, r)'
<1>1. /\ limit[c] = n /\ acquired[c] \in Nat /\ acquired[c] < n /\ avail \in Nat /\ avail > 0
      /\ c \in Waiting
  BY DEF IInv, Shape, Take, Waiting
<1> DEFINE got == acquired[c] + Piece(c)
<1>2. /\ avail' = avail - Piece(c) /\ limit' = limit
      /\ acquired' = [acquired EXCEPT ![c] = got]
      /\ phase' = [phase EXCEPT ![c] = IF got < n THEN "taking" ELSE "buffering"]
      /\ phase \in [Callers -> {"idle", "taking", "polling", "buffering"}]
      /\ acquired \in [Callers -> Nat]
  BY <1>1 DEF Take, Goto, IInv, Shape
<1>3. Piece(c) = IF avail < n - acquired[c] THEN avail ELSE n - acquired[c]
  BY <1>1 DEF Piece, Lesser
<1>4. Partial' = IF got < n THEN Partial \cup {c} ELSE Partial \ {c}
  <2>1. got \in Nat /\ got > 0
    BY <1>1, <1>3
  <2> HIDE DEF got
  <2> QED
    BY <1>1, <1>2, <2>1 DEF Partial, Waiting
<1>5. CASE c \in Partial
  <2>1. acquired[c] = r /\ avail \in Multiples(n) /\ Partial = {c}
    BY <1>5 DEF Remainder
  <2>2. avail >= n /\ avail - n \in Multiples(n)
    BY <1>1, <2>1, MultipleSteps
  <2>3. Piece(c) = n - r /\ got = n
    BY <1>1, <1>3, <2>1, <2>2
  <2>4. Partial' = {}
    BY <1>4, <2>1, <2>3
  <2>5. avail' - r = avail - n
    BY <1>1, <1>2, <2>3
  <2> QED
    BY <2>2, <2>4, <2>5 DEF Remainder
<1>6. CASE c \notin Partial /\ avail >= n
  <2>1. acquired[c] = 0
    BY <1>1, <1>6 DEF Partial
  <2>2. Piece(c) = n /\ got = n
    BY <1>1, <1>3, <1>6, <2>1
  <2>3. Partial' = Partial /\ \A d \in Partial : acquired'[d] = acquired[d]
    BY <1>2, <1>4, <1>6, <2>2 DEF Partial, Waiting
  <2>4. CASE Partial = {}
    <3>1. avail - r \in Multiples(n)
      BY <2>4 DEF Remainder
    <3>2. avail - r > 0
      BY <1>1, <1>6
    <3>3. (avail - r) - n \in Multiples(n)
      BY <3>1, <3>2, MultipleSteps
    <3>4. avail' - r = (avail - r) - n
      BY <1>1, <1>2, <2>2
    <3> QED
      BY <2>3, <2>4, <3>3, <3>4 DEF Remainder
  <2>5. CASE Partial # {}
    <3>1. avail \in Multiples(n)
      BY <2>5 DEF Remainder
    <3>2. avail - n \in Multiples(n)
      BY <1>1, <3>1, MultipleSteps
    <3>3. avail' = avail - n
      BY <1>2, <2>2
    <3> QED
      BY <2>3, <2>5, <3>2, <3>3 DEF Remainder
  <2> QED
    BY <2>4, <2>5
<1>7. CASE c \notin Partial /\ avail < n
  <2>1. acquired[c] = 0
    BY <1>1, <1>7 DEF Partial
  <2>2. Piece(c) = avail /\ got = avail
    BY <1>1, <1>3, <1>7, <2>1
  <2>3. Partial = {}
    <3> SUFFICES ASSUME Partial # {} PROVE FALSE
      OBVIOUS
    <3>1. avail \in Multiples(n)
      BY DEF Remainder
    <3> QED
      BY <1>1, <1>7, <3>1, MultipleSteps
  <2>4. avail - r \in Multiples(n)
    BY <2>3 DEF Remainder
  <2>5. ~(avail - r > 0)
    <3> SUFFICES ASSUME avail - r > 0 PROVE FALSE
      OBVIOUS
    <3>1. avail - r >= n
      BY <2>4, MultipleSteps
    <3> QED
      BY <1>1, <1>7, <3>1
  <2>6. avail - r \in Nat
    BY <2>4, MultipleSteps
  <2>7. avail = r
    BY <1>1, <2>5, <2>6
  <2>8. avail' = 0 /\ Partial' = {c} /\ acquired'[c] = r
    BY <1>1, <1>2, <1>4, <1>7, <2>2, <2>3, <2>7
  <2> QED
    BY <2>8, MultipleSteps DEF Remainder
<1> QED
  BY <1>1, <1>5, <1>6, <1>7

(* A part and a complete buffer leave the remainder as it is.              *)
LEMMA GiveBackRemainder ==
  ASSUME NEW n \in Nat \ {0}, NEW r \in Nat, r < n, met \subseteq {n},
         IInv, Remainder(n, r), NEW c \in Callers, Cancel(c) \/ Finish(c)
  PROVE  Remainder(n, r)'
<1>1. /\ avail' = avail + acquired[c] /\ acquired' = [acquired EXCEPT ![c] = 0]
      /\ phase' = [phase EXCEPT ![c] = "idle"] /\ avail \in Nat
      /\ acquired \in [Callers -> Nat]
      /\ phase \in [Callers -> {"idle", "taking", "polling", "buffering"}]
  BY DEF Cancel, Finish, GiveBack, Goto, IInv, Shape
<1>2. Partial' = Partial \ {c} /\ \A d \in Partial' : acquired'[d] = acquired[d]
  BY <1>1 DEF Partial, Waiting
<1>3. CASE c \in Partial
  <2>1. acquired[c] = r /\ avail \in Multiples(n) /\ Partial = {c}
    BY <1>3 DEF Remainder
  <2>2. Partial' = {} /\ avail' - r = avail
    BY <1>1, <1>2, <2>1
  <2> QED
    BY <2>1, <2>2 DEF Remainder
<1>4. CASE c \notin Partial
  <2>1. acquired[c] = 0 \/ acquired[c] = n
    BY <1>4 DEF Cancel, Finish, Partial, Waiting, IInv, Shape
  <2>2. Partial' = Partial
    BY <1>2, <1>4
  <2>3. CASE acquired[c] = 0
    <3>1. avail' = avail
      BY <1>1, <2>3
    <3> QED
      BY <1>2, <2>2, <3>1 DEF Remainder
  <2>4. CASE acquired[c] = n /\ Partial = {}
    <3>1. avail - r \in Multiples(n) /\ avail' - r = (avail - r) + n
      BY <1>1, <2>4 DEF Remainder
    <3>2. avail' - r \in Multiples(n)
      BY <3>1, MultipleSteps
    <3> QED
      BY <2>2, <2>4, <3>2 DEF Remainder
  <2>5. CASE acquired[c] = n /\ Partial # {}
    <3>1. avail \in Multiples(n) /\ avail' = avail + n
      BY <1>1, <2>5 DEF Remainder
    <3>2. avail' \in Multiples(n)
      BY <3>1, MultipleSteps
    <3> QED
      BY <1>2, <2>2, <2>5, <3>2 DEF Remainder
  <2> QED
    BY <2>1, <2>3, <2>4, <2>5
<1> QED
  BY <1>3, <1>4

(* Nobody holds anything of a budget that is whole.                        *)
LEMMA WholeBudget == IInv /\ avail = Total => \A c \in Callers : acquired[c] = 0
<1> SUFFICES ASSUME IInv, avail = Total, NEW c \in Callers PROVE acquired[c] = 0
  OBVIOUS
<1> DEFINE s == SumOf(acquired, Callers)
<1>1. \A d \in Callers : acquired[d] \in Nat
  BY DEF IInv, Shape
<1>2. s = 0
  <2>1. s \in Nat /\ avail + s = Total
    BY <1>1, SumType, BudgetAssumption DEF IInv, BytesConserved
  <2> HIDE DEF s
  <2> QED
    BY <2>1, BudgetAssumption
<1>3. SumOf(acquired, {} \cup {c}) = SumOf(acquired, {}) + acquired[c]
  BY <1>1, SumAdd, FS_EmptySet
<1>4. {} \cup {c} = {c} /\ SumOf(acquired, {}) = 0
  BY SumEmpty
<1>5. SumOf(acquired, {c}) <= s
  BY <1>1, SumMono, BudgetAssumption
<1> HIDE DEF s
<1> QED
  BY <1>1, <1>2, <1>3, <1>4, <1>5

LEMMA RemainderStep ==
  ASSUME NEW n \in Nat \ {0}, NEW r \in Nat, r < n, met \subseteq {n},
         IInv, Remainder(n, r), Next
  PROVE  Remainder(n, r)'
<1>1. ASSUME NEW c \in Callers, NEW m \in Limits, Arrive(c, m) PROVE Remainder(n, r)'
  <2>1. Partial' = Partial /\ avail' = avail /\ acquired' = acquired
    BY <1>1 DEF Arrive, Goto, Partial, Waiting, IInv, Shape
  <2> QED
    BY <2>1 DEF Remainder
<1>2. ASSUME NEW c \in Callers, Poll(c) \/ Retry(c) PROVE Remainder(n, r)'
  <2>1. Partial' = Partial /\ avail' = avail /\ acquired' = acquired
    BY <1>2 DEF Poll, Retry, Goto, Partial, Waiting, IInv, Shape
  <2> QED
    BY <2>1 DEF Remainder
<1> QED
  BY <1>1, <1>2, TakeRemainder, GiveBackRemainder DEF Next

(* Only a budget that has become whole forgets a limit that was met, and   *)
(* nobody holds a part of that one.                                        *)
Rest(n) == Total % n
RemainderInv == \A n \in Limits : met \subseteq {n} => Remainder(n, Rest(n))

LEMMA RestOf ==
  ASSUME NEW n \in Nat \ {0}
  PROVE  Rest(n) \in Nat /\ Rest(n) < n /\ Total - Rest(n) \in Multiples(n)
<1>1. /\ Total \div n \in Nat /\ Total % n \in Nat /\ Total % n < n
      /\ Total = (n * (Total \div n)) + (Total % n)
  BY BudgetAssumption
<1>2. Total - (Total % n) = (Total \div n) * n
  BY <1>1, BudgetAssumption
<1> QED
  BY <1>1, <1>2 DEF Multiples, Rest

LEMMA MetGrows ==
  ASSUME IInv, Next
  PROVE  met \subseteq met' \/ avail' = Total
BY DEF Next, Arrive, Take, Poll, Retry, Cancel, Finish, GiveBack

LEMMA InitRemainder == Init => RemainderInv
<1> SUFFICES ASSUME Init, NEW n \in Limits PROVE Remainder(n, Rest(n))
  BY DEF RemainderInv
<1>1. Partial = {} /\ avail = Total
  BY DEF Init, Partial, Waiting
<1> QED
  BY <1>1, RestOf, BudgetAssumption DEF Remainder

LEMMA NextRemainder == IInv /\ RemainderInv /\ [Next]_vars => RemainderInv'
<1> SUFFICES ASSUME IInv, RemainderInv, [Next]_vars, NEW n \in Limits, met' \subseteq {n}
             PROVE  Remainder(n, Rest(n))'
  BY DEF RemainderInv, Rest
<1>1. n \in Nat \ {0}
  BY BudgetAssumption
<1>2. CASE UNCHANGED vars
  BY <1>2 DEF vars, RemainderInv, Remainder, Partial, Waiting, Rest
<1>3. CASE Next /\ met \subseteq {n}
  BY <1>1, <1>3, RestOf, RemainderStep DEF RemainderInv
<1>4. CASE Next /\ avail' = Total
  <2>1. IInv'
    BY NextIInv
  <2>2. (IInv /\ avail = Total => \A c \in Callers : acquired[c] = 0)'
    BY WholeBudget, PTL
  <2>3. Partial' = {}
    BY <1>4, <2>1, <2>2 DEF Partial, Waiting
  <2> QED
    BY <1>1, <1>4, <2>3, RestOf DEF Remainder
<1> QED
  BY <1>2, <1>3, <1>4, MetGrows

(* With the whole budget in parts of waiting callers, there is one part.   *)
LEMMA NoStandstill ==
  ASSUME NEW n \in Nat \ {0}, NEW r \in Nat, r < n, n <= Total, IInv, Remainder(n, r)
  PROVE  BytesToCome
<1> SUFFICES ASSUME avail = 0, Buffering = {} PROVE FALSE
  BY DEF BytesToCome, IInv, Shape
<1>1. \A x \in Callers \ Partial : acquired[x] = 0
  BY DEF Partial, Waiting, Buffering, IInv, Shape
<1>2. \A x \in Callers : acquired[x] \in Nat
  BY DEF IInv, Shape
<1> DEFINE s == SumOf(acquired, Callers)
<1>3. s = Total
  <2>1. avail + s = Total /\ s \in Nat
    BY <1>2, SumType, BudgetAssumption DEF IInv, BytesConserved
  <2> HIDE DEF s
  <2> QED
    BY <2>1
<1>4. CASE Partial = {}
  <2>1. s = 0
    BY <1>1, <1>4, SumZero
  <2> QED
    BY <1>3, <2>1
<1>5. CASE Partial # {}
  <2>1. PICK c \in Partial : Partial = {c} /\ acquired[c] = r
    BY <1>5 DEF Remainder
  <2>2. c \in Callers
    BY DEF Partial, Waiting
  <2>3. s = SumOf(acquired, {c})
    BY <1>1, <2>1, <2>2, SumSupport
  <2>4. SumOf(acquired, {} \cup {c}) = SumOf(acquired, {}) + acquired[c]
    BY <1>2, <2>2, SumAdd, FS_EmptySet
  <2>5. {} \cup {c} = {c} /\ SumOf(acquired, {}) = 0
    BY SumEmpty
  <2>6. s = r
    BY <2>1, <2>3, <2>4, <2>5
  <2> QED
    BY <1>3, <2>6
<1> QED
  BY <1>4, <1>5

(* If all that are inside fit together, what the waiters hold is less than *)
(* the budget.                                                             *)
LEMMA FittingIsEnough ==
  ASSUME IInv, AllFit
  PROVE  BytesToCome
<1> SUFFICES ASSUME NEW c \in Waiting, avail = 0, Buffering = {} PROVE FALSE
  BY DEF BytesToCome, IInv, Shape
<1> DEFINE R == Inside \ {c}
           s == SumOf(acquired, R)
           t == SumOf(limit, R)
<1>1. /\ c \in Inside /\ Inside \subseteq Callers /\ IsFiniteSet(R) /\ R \cup {c} = Inside
      /\ R \subseteq Callers
  <2>1. c \in Inside /\ Inside \subseteq Callers
    BY DEF Waiting, Inside
  <2>2. IsFiniteSet(R)
    BY <2>1, BudgetAssumption, FS_Subset
  <2> QED
    BY <2>1, <2>2
<1>2. /\ \A d \in Callers : acquired[d] \in Nat /\ limit[d] \in Nat
      /\ \A d \in Callers : acquired[d] <= limit[d]
      /\ \A d \in Callers \ Inside : acquired[d] = 0
      /\ acquired[c] < limit[c]
  BY LimitsAreNat DEF IInv, Shape, Waiting, Inside
<1>3. SumOf(acquired, Inside) = s + acquired[c] /\ SumOf(limit, Inside) = t + limit[c]
  <2>1. c \notin R
    OBVIOUS
  <2>2. /\ \A d \in R \cup {c} : acquired[d] \in Nat
        /\ \A d \in R \cup {c} : limit[d] \in Nat
    BY <1>1, <1>2
  <2> HIDE DEF R
  <2> QED
    BY <1>1, <2>1, <2>2, SumAdd
<1>4. SumOf(acquired, Inside) = SumOf(acquired, Callers)
  BY <1>1, <1>2, SumSupport
<1>5. s <= t
  BY <1>1, <1>2, SumMono
<1>6. s \in Nat /\ t \in Nat
  BY <1>1, <1>2, SumType
<1>7. SumOf(acquired, Callers) = Total /\ SumOf(limit, Inside) <= Total
  <2>1. SumOf(acquired, Callers) \in Nat
    BY <1>2, SumType, BudgetAssumption
  <2> QED
    BY <2>1 DEF IInv, BytesConserved, AllFit
<1> HIDE DEF s, t
<1>8. acquired[c] \in Nat /\ limit[c] \in Nat /\ acquired[c] < limit[c]
  BY <1>1, <1>2
<1> QED
  BY <1>3, <1>4, <1>5, <1>6, <1>7, <1>8, BudgetAssumption

LEMMA BytesWillCome == IInv /\ RemainderInv => NeverStuck
<1>1. ASSUME IInv, RemainderInv, NEW n \in Limits, met \subseteq {n}, n <= Total
      PROVE  BytesToCome
  BY <1>1, BudgetAssumption, RestOf, NoStandstill DEF RemainderInv
<1> QED
  BY <1>1, FittingIsEnough DEF NeverStuck, OneKind

(* Waiting requests block each other for good only if, since the budget    *)
(* was last whole, a chat and a transcription were inside (or a body       *)
(* larger than the cap), and those inside exceed the cap together: for     *)
(* every set of body limits, cap and number of callers.                    *)
THEOREM OnlyMixedBodiesStick == Spec => []NeverStuck
  BY InitRemainder, NextRemainder, BytesWillCome, Invariant, PTL DEF Spec

-----------------------------------------------------------------------------
(* The front door: the budget of a process that may die at any step, and   *)
(* the gate that its requests come through.                                *)

(* Who opens the gate, and from where: the main goroutine once it has      *)
(* published, and the watchdog, which it starts after that.                *)
ProcessInv ==
  /\ wired \subseteq Routes
  /\ ready \/ main \in {"starting", "serving", "draining"} \/ watchdog # "off" => wired = Routes

(* A caller is inside exactly while it has to do with the budget.          *)
DoorInv ==
  /\ IInv /\ ProcessInv
  /\ active \in BOOLEAN
  /\ door \in [Callers -> {"out", "gate", "keys", "in"}]
  /\ \A c \in Callers : phase[c] # "idle" <=> door[c] = "in"

LEMMA ProcessStep == ProcessInv /\ L!Next => ProcessInv'
<1> SUFFICES ASSUME ProcessInv, L!Next PROVE ProcessInv'
  OBVIOUS
<1>1. ASSUME L!Main PROVE ProcessInv'
  <2>1. ASSUME NEW r \in Routes, L!Wire(r) PROVE ProcessInv'
    BY <2>1 DEF ProcessInv, L!Wire
  <2> QED
    BY <1>1, <2>1
       DEF L!Main, ProcessInv, L!Connect, L!GiveUp, L!Publish, L!StartWatchdog
<1>2. ASSUME L!Watchdog PROVE ProcessInv'
  BY <1>2 DEF L!Watchdog, ProcessInv, L!Ping, L!Miss, L!Answer, L!Restart
<1>3. ASSUME L!Drain \/ L!Stop \/ L!Panic \/ L!DatabaseChanges PROVE ProcessInv'
  BY <1>3 DEF ProcessInv, L!Drain, L!Stop, L!Panic, L!DatabaseChanges
<1> QED
  BY <1>1, <1>2, <1>3 DEF L!Next

(* What a request does in the budget is a step of the budget.              *)
LEMMA RequestStep == ASSUME DoorInv, NEW c \in Callers, Request(c) PROVE DoorInv'
<1>1. ASSUME Knock(c) \/ Gate(c) \/ TurnedAway(c) PROVE DoorInv'
  <2>1. UNCHANGED vars /\ UNCHANGED process /\ UNCHANGED active
    BY <1>1 DEF Knock, Gate, TurnedAway
  <2>2. IInv' /\ ProcessInv'
    BY <2>1, NextIInv DEF DoorInv, ProcessInv, process
  <2> QED
    BY <1>1, <2>1, <2>2 DEF Knock, Gate, TurnedAway, Move, DoorInv, vars
<1>2. ASSUME LetIn(c) \/ Acquiring(c) \/ Leave(c) \/ Served(c) PROVE DoorInv'
  <2>1. Next /\ UNCHANGED process /\ UNCHANGED active
    BY <1>2 DEF LetIn, Acquiring, Leave, Served, Next
  <2>2. IInv' /\ ProcessInv'
    BY <2>1, NextIInv DEF DoorInv, ProcessInv, process
  <2>3. phase \in [Callers -> {"idle", "taking", "polling", "buffering"}]
    BY DEF DoorInv, IInv, Shape
  <2>4. CASE LetIn(c)
    BY <2>1, <2>2, <2>3, <2>4 DEF LetIn, Arrive, Goto, Move, DoorInv
  <2>5. CASE Acquiring(c)
    BY <2>1, <2>2, <2>3, <2>5 DEF Acquiring, Take, Poll, Retry, Goto, DoorInv
  <2>6. CASE Leave(c) \/ Served(c)
    BY <2>1, <2>2, <2>3, <2>6 DEF Leave, Served, Cancel, Finish, GiveBack, Goto, Move, DoorInv
  <2> QED
    BY <1>2, <2>4, <2>5, <2>6
<1> QED
  BY <1>1, <1>2 DEF Request

(* A process that dies has the budget it began with, and nobody inside.    *)
LEMMA DiesStep == ASSUME DoorInv, Dies PROVE DoorInv'
<1>1. Init'
  BY DEF Dies, Init
<1>2. Init' => IInv'
  BY InitIInv, PTL
<1>3. ProcessInv'
  BY ProcessStep DEF DoorInv, Dies
<1> QED
  BY <1>1, <1>2, <1>3 DEF Dies, DoorInv

LEMMA FrontDoorInvariant == FrontDoorSpec => []DoorInv
<1>1. FrontDoorInit => DoorInv
  BY InitIInv DEF FrontDoorInit, DoorInv, ProcessInv, Init, L!Init
<1>2. ASSUME DoorInv, [FrontDoorNext]_all PROVE DoorInv'
  <2>1. ASSUME UNCHANGED vars, UNCHANGED door, active' \in BOOLEAN, ProcessInv' PROVE DoorInv'
    BY <1>2, <2>1, NextIInv DEF DoorInv, vars
  <2>2. CASE Moderate
    <3>1. active' \in BOOLEAN /\ ProcessInv'
      BY <1>2, <2>2 DEF Moderate, DoorInv, ProcessInv, process
    <3> QED
      BY <2>1, <2>2, <3>1 DEF Moderate
  <2>3. CASE Runs \/ Outlives
    <3>1. L!Next
      BY <2>3 DEF Runs, Outlives, L!Next
    <3>2. ProcessInv'
      BY <1>2, <3>1, ProcessStep DEF DoorInv
    <3> QED
      BY <1>2, <2>1, <2>3, <3>2 DEF Runs, Outlives, DoorInv
  <2>4. CASE UNCHANGED all
    BY <1>2, <2>1, <2>4 DEF all, process, ProcessInv, DoorInv
  <2> QED
    BY <1>2, <2>2, <2>3, <2>4, RequestStep, DiesStep DEF FrontDoorNext
<1> QED
  BY <1>1, <1>2, PTL DEF FrontDoorSpec

(* What the composed process does to the budget is what ByteBudget allows, *)
(* or the death of the process, which leaves the budget it began with.     *)
LEMMA BudgetStep == [FrontDoorNext]_all => [Next]_vars \/ Init'
<1> SUFFICES ASSUME [FrontDoorNext]_all PROVE [Next]_vars \/ Init'
  OBVIOUS
<1>1. ASSUME NEW c \in Callers, Request(c) PROVE [Next]_vars
  BY <1>1 DEF Request, Knock, Gate, TurnedAway, LetIn, Acquiring, Leave, Served, Next
<1>2. CASE Dies
  BY <1>2 DEF Dies, Init
<1>3. CASE Moderate \/ Runs \/ Outlives \/ UNCHANGED all
  BY <1>3 DEF Moderate, Runs, Outlives, all
<1> QED
  BY <1>1, <1>2, <1>3 DEF FrontDoorNext

(* Seen from the budget, a request behind the door does what ByteBudget    *)
(* allows (bytebudget.go 37-73), and the end of the process begins anew.   *)
THEOREM TheBudgetRestarts == FrontDoorSpec => Init /\ [][Next \/ Init']_vars
<1>1. FrontDoorInit => Init
  BY DEF FrontDoorInit
<1>2. [FrontDoorNext]_all => [Next \/ Init']_vars
  BY BudgetStep
<1> QED
  BY <1>1, <1>2, PTL DEF FrontDoorSpec

(* The requests and the operator do nothing to the process: FrontDoor      *)
(* implements Lifecycle, and what that promises holds here.                *)
THEOREM FrontDoorImplementsLifecycle == FrontDoorSpec => L!Spec
<1>1. FrontDoorInit => L!Init
  BY DEF FrontDoorInit
<1>2. ASSUME [FrontDoorNext]_all PROVE [L!Next]_(L!vars)
  <2>1. ASSUME NEW c \in Callers, Request(c) PROVE UNCHANGED process
    BY <2>1 DEF Request, Knock, Gate, TurnedAway, LetIn, Acquiring, Leave, Served
  <2>2. CASE Moderate \/ UNCHANGED all
    BY <2>2 DEF Moderate, all, process, L!vars
  <2>3. CASE Runs \/ Dies \/ Outlives
    BY <2>3 DEF Runs, Dies, Outlives, L!Next
  <2> QED
    BY <1>2, <2>1, <2>2, <2>3 DEF FrontDoorNext, process, L!vars
<1> QED
  BY <1>1, <1>2, PTL DEF FrontDoorSpec, L!Spec

(* Types, and a caller is inside exactly while the budget knows of it.     *)
THEOREM FrontDoorTypes == FrontDoorSpec => []FrontDoorTypeOK
<1>1. DoorInv => FrontDoorTypeOK
  BY IInvTypes DEF DoorInv, FrontDoorTypeOK
<1> QED
  BY <1>1, FrontDoorInvariant, PTL

(* No byte of the budget is lost behind a gate that opens and shuts, in a  *)
(* process that dies at any step.                                          *)
THEOREM NoByteIsLostBehindTheDoor == FrontDoorSpec => []BytesConserved
<1>1. DoorInv => BytesConserved
  BY DEF DoorInv, IInv
<1> QED
  BY <1>1, FrontDoorInvariant, PTL

(* The cap on the bodies in memory, behind the same door.                  *)
THEOREM TheCapHoldsBehindTheDoor == FrontDoorSpec => []BuffersBounded
<1>1. DoorInv => BuffersBounded
  BY IInvBounds DEF DoorInv
<1> QED
  BY <1>1, FrontDoorInvariant, PTL

(* The same of the waiting requests, also after the process was replaced.  *)
LEMMA RemaindersBehindTheDoor == FrontDoorSpec => []RemainderInv
<1>1. Init' => RemainderInv'
  BY InitRemainder, PTL
<1>2. DoorInv /\ RemainderInv /\ [FrontDoorNext]_all => RemainderInv'
  BY <1>1, BudgetStep, NextRemainder DEF DoorInv
<1>3. FrontDoorInit => Init
  BY DEF FrontDoorInit
<1> QED
  BY <1>2, <1>3, InitRemainder, FrontDoorInvariant, PTL DEF FrontDoorSpec

THEOREM NeverStuckBehindTheDoor == FrontDoorSpec => []NeverStuck
<1>1. DoorInv /\ RemainderInv => NeverStuck
  BY BytesWillCome DEF DoorInv
<1> QED
  BY <1>1, RemaindersBehindTheDoor, FrontDoorInvariant, PTL

(* Whoever opens the gate, and however often the watchdog panics and the   *)
(* database comes and goes: behind an open gate every handler is assigned. *)
THEOREM HandlersAreThere == FrontDoorSpec => []HandlersAreAssigned
<1>1. DoorInv => HandlersAreAssigned
  BY DEF DoorInv, ProcessInv, HandlersAreAssigned, L!HandlersAreAssigned
<1> QED
  BY <1>1, FrontDoorInvariant, PTL

-----------------------------------------------------------------------------
(* Waiting for bytes *)

Waits(c) == phase[c] \in {"taking", "polling"}
Visits(c) == Take(c) \/ Poll(c) \/ Retry(c)

(* While nobody has a whole buffer, one visit that finds bytes makes one:  *)
(* it takes all that its caller lacks, or all there is, and then the last  *)
(* byte would be with callers who all lack some.                           *)
LEMMA AVisitFillsABuffer ==
  ASSUME IInv, BytesToCome, BytesToCome', NEW c \in Callers, [Next]_vars \/ Init',
         Waits(c), Buffering = {}
  PROVE  \/ Buffering' # {}
         \/ ~Waits(c)'
         \/ phase'[c] = phase[c] /\ ~Visits(c)
         \/ phase[c] = "polling" /\ phase'[c] = "taking"
<1>1. avail > 0 /\ avail \in Nat /\ phase \in [Callers -> {"idle", "taking", "polling", "buffering"}]
  BY DEF BytesToCome, Waiting, Waits, IInv, Shape
<1>2. ASSUME NEW d \in Callers, Take(d) PROVE Buffering' # {}
  <2>1. /\ limit[d] \in Nat /\ acquired[d] \in Nat /\ avail' = avail - Piece(d)
        /\ phase'[d] = IF acquired[d] + Piece(d) < limit[d] THEN "taking" ELSE "buffering"
    BY <1>1, <1>2, LimitsAreNat DEF Take, Goto, IInv, Shape
  <2>2. CASE acquired[d] + Piece(d) < limit[d]
    <3>1. Piece(d) = avail
      BY <1>1, <2>1, <2>2 DEF Piece, Lesser
    <3>2. avail' = 0
      BY <1>1, <2>1, <3>1
    <3>3. d \in Waiting'
      BY <2>1, <2>2 DEF Waiting
    <3> QED
      BY <3>2, <3>3 DEF BytesToCome
  <2>3. CASE ~(acquired[d] + Piece(d) < limit[d])
    BY <2>1, <2>3 DEF Buffering
  <2> QED
    BY <2>2, <2>3
<1>3. CASE Visits(c)
  <2>1. ~Poll(c)
    BY <1>1 DEF Poll
  <2>2. CASE Retry(c)
    BY <1>1, <2>2 DEF Retry, Goto
  <2> QED
    BY <1>2, <1>3, <2>1, <2>2 DEF Visits
<1>4. CASE Init' /\ ~Visits(c)
  BY <1>4 DEF Init, Waits
<1>5. CASE UNCHANGED vars /\ ~Visits(c)
  BY <1>5 DEF vars
<1>6. ASSUME NEW d \in Callers, Poll(d) \/ Retry(d) \/ Cancel(d) \/ Finish(d)
                                \/ (\E n \in Limits : Arrive(d, n)),
             ~Visits(c)
      PROVE  ~Waits(c)' \/ (phase'[c] = phase[c] /\ ~Visits(c))
  <2>1. CASE d = c
    BY <1>1, <1>6, <2>1 DEF Visits, Cancel, Finish, Arrive, GiveBack, Goto, Waits
  <2>2. CASE d # c
    BY <1>1, <1>6, <2>2 DEF Poll, Retry, Cancel, Finish, Arrive, GiveBack, Goto
  <2> QED
    BY <2>1, <2>2
<1> QED
  BY <1>2, <1>3, <1>4, <1>5, <1>6 DEF Next

(* TrafficMoves for one caller at a time: a caller that waits for bytes    *)
(* sees some request get its buffer, unless it is itself through with      *)
(* waiting, or bodies of two limits meet that exceed the cap together; in a*)
(* process that dies and begins again too.  That a waiting caller has a    *)
(* visit to make is assumed, as ENABLED is beyond the provers.             *)
THEOREM TrafficMovesForEach ==
  ASSUME NEW c \in Callers
  PROVE  /\ FrontDoorSpec
         /\ WF_all(Acquiring(c))
         /\ [](Waits(c) => ENABLED <<Acquiring(c)>>_all)
         => (Waits(c) ~> Buffering # {} \/ ~Waits(c) \/ ~(OneKind \/ AllFit))
<1> DEFINE Sure == OneKind \/ AllFit
           Polls == phase[c] = "polling" /\ Buffering = {} /\ Sure
           Takes == phase[c] = "taking" /\ Buffering = {} /\ Sure
           Out == Buffering # {} \/ ~Waits(c) \/ ~Sure
           Inwards == Waits(c)
           Tries == Acquiring(c)
<1>1. Waits(c) => Polls \/ Takes \/ Out
  BY DEF Waits
<1>2. Polls \/ Takes => Inwards
  BY DEF Waits
<1>3. DoorInv /\ NeverStuck /\ NeverStuck' /\ [FrontDoorNext]_all =>
        /\ Polls => (Polls' /\ ~<<Tries>>_all) \/ Takes' \/ Out'
        /\ Takes => (Takes' /\ ~<<Tries>>_all) \/ Out'
  <2> SUFFICES ASSUME DoorInv, NeverStuck, NeverStuck', [FrontDoorNext]_all, Waits(c),
                      Buffering = {}, Sure, Sure'
               PROVE  \/ (Buffering # {} \/ ~Waits(c))'
                      \/ phase'[c] = phase[c] /\ ~Tries /\ Buffering' = {}
                      \/ phase[c] = "polling" /\ phase'[c] = "taking" /\ Buffering' = {}
    BY DEF Waits
  <2>1. /\ IInv
        /\ [Next]_vars \/ Init'
        /\ Acquiring(c) => Visits(c)
    BY BudgetStep DEF DoorInv, Acquiring, Visits
  <2>2. BytesToCome /\ BytesToCome'
    BY DEF NeverStuck
  <2> QED
    BY <2>1, <2>2, AVisitFillsABuffer
<1> HIDE DEF Polls, Takes, Out, Inwards, Tries, Sure
<1> QED
  BY <1>1, <1>2, <1>3, FrontDoorInvariant, NeverStuckBehindTheDoor, PTL
     DEF FrontDoorSpec, Out, Inwards, Tries, Sure

(* The callers that have passed the key check and are not through.         *)
Indoors == {c \in Callers : door[c] = "in"}

LEMMA NobodyComesIn ==
  ASSUME DoorInv, [FrontDoorNext]_all, ~active
  PROVE  Indoors' \subseteq Indoors
<1>1. ASSUME NEW c \in Callers, Knock(c) \/ Gate(c) \/ TurnedAway(c) \/ Leave(c) \/ Served(c)
      PROVE  Indoors' \subseteq Indoors
  <2>1. \E place \in {"gate", "keys", "out"} : door' = [door EXCEPT ![c] = place]
    BY <1>1 DEF Knock, Gate, TurnedAway, Leave, Served, Move
  <2> QED
    BY <2>1 DEF Indoors, DoorInv
<1>2. ASSUME NEW c \in Callers PROVE ~LetIn(c)
  BY DEF LetIn, KeyPasses
<1>3. ASSUME NEW c \in Callers, Acquiring(c) PROVE Indoors' = Indoors
  BY <1>3 DEF Acquiring, Indoors
<1>4. CASE Moderate \/ Runs \/ Outlives \/ UNCHANGED all
  BY <1>4 DEF Moderate, Runs, Outlives, all, Indoors
<1>5. CASE Dies
  BY <1>5 DEF Dies, Indoors
<1> QED
  BY <1>1, <1>2, <1>3, <1>4, <1>5 DEF FrontDoorNext, Request

(* A caller with its buffer is indoors until it is through.                *)
LEMMA BufferingEnds ==
  ASSUME DoorInv, DoorInv', [FrontDoorNext]_all, NEW c \in Callers, phase[c] = "buffering"
  PROVE  \/ phase'[c] = "buffering"
         \/ c \notin Indoors'
<1>1. phase \in [Callers -> {"idle", "taking", "polling", "buffering"}]
  BY DEF DoorInv, IInv, Shape
<1>2. [Next]_vars \/ Init'
  BY BudgetStep
<1>3. phase'[c] \in {"buffering", "idle"}
  <2>1. ASSUME NEW d \in Callers, d # c,
               Take(d) \/ Poll(d) \/ Retry(d) \/ Cancel(d) \/ Finish(d)
               \/ (\E n \in Limits : Arrive(d, n))
        PROVE  phase'[c] = phase[c]
    BY <1>1, <2>1 DEF Take, Poll, Retry, Cancel, Finish, Arrive, GiveBack, Goto
  <2>2. Finish(c) => phase'[c] = "idle"
    BY <1>1 DEF Finish, GiveBack, Goto
  <2>3. ~Take(c) /\ ~Poll(c) /\ ~Retry(c) /\ ~Cancel(c) /\ \A n \in Limits : ~Arrive(c, n)
    BY DEF Take, Poll, Retry, Cancel, Arrive
  <2>4. Init' \/ UNCHANGED vars => phase'[c] \in {"buffering", "idle"}
    BY DEF Init, vars
  <2> QED
    BY <1>2, <2>1, <2>2, <2>3, <2>4 DEF Next
<1>4. phase'[c] = "idle" => c \notin Indoors'
  BY DEF DoorInv, Indoors
<1> QED
  BY <1>3, <1>4

(* RevocationTakesHold, one departure at a time: while the key stays       *)
(* revoked nobody joins those indoors, and a caller that has its buffer,   *)
(* and does not keep it for good, leaves them for good;                    *)
(* TrafficMovesForEach says of those that wait that somebody gets its      *)
(* buffer.  That a finite crowd which only shrinks and keeps losing        *)
(* somebody is gone in the end is an induction over it.                    *)
THEOREM RevokedKeysLeave ==
  ASSUME NEW c \in Callers, NEW S \in SUBSET Callers
  PROVE  /\ FrontDoorSpec
         /\ []<>(phase[c] # "buffering")
         /\ <>[]~active
         => <>[](/\ Indoors \subseteq S => [](Indoors \subseteq S)
                 /\ phase[c] = "buffering" /\ Indoors \subseteq S
                      => <>[](Indoors \subseteq S \ {c}))
<1> DEFINE Confined == Indoors \subseteq S
           Buffers == phase[c] = "buffering"
           Left == Indoors \subseteq S \ {c}
           Revoked == ~active
           Through == phase[c] # "buffering"
<1>0. Through => ~Buffers
  OBVIOUS
<1>1. DoorInv /\ [FrontDoorNext]_all /\ Revoked =>
        /\ Confined => Confined'
        /\ Left => Left'
  BY NobodyComesIn
<1>2. DoorInv /\ DoorInv' /\ [FrontDoorNext]_all /\ Revoked /\ Buffers /\ Confined =>
        Buffers' \/ Left'
  BY NobodyComesIn, BufferingEnds
<1> HIDE DEF Confined, Buffers, Left, Revoked, Through
<1> QED
  BY <1>0, <1>1, <1>2, FrontDoorInvariant, PTL
     DEF FrontDoorSpec, Confined, Buffers, Left, Revoked, Through

-----------------------------------------------------------------------------
(* The watchdog *)

(* The counter is zero until there is a watchdog, and once it has reached  *)
(* the threshold the gate is shut.                                         *)
WatchInv ==
  /\ failures \in Nat /\ flakes \in Nat /\ panics \in Nat
  /\ watchdog \in {"off", "sleeping", "failed", "answered", "panicked"}
  /\ main \in {"connecting", "wiring", "starting"} => watchdog = "off" /\ failures = 0
  /\ main = "serving" => watchdog # "off"
  /\ failures >= Threshold => ~ready

LEMMA WatchInvHolds == FrontDoorSpec => []WatchInv
<1>1. L!Init => WatchInv
  BY LifecycleAssumption DEF L!Init, WatchInv
<1>2. ASSUME WatchInv, [L!Next]_(L!vars) PROVE WatchInv'
  <2>1. Threshold \in Nat /\ Threshold # 0
    BY LifecycleAssumption
  <2>2. L!Upto(failures + 1) \in Nat /\ (L!Upto(failures + 1) >= Threshold => failures + 1 >= Threshold)
    BY <1>2, <2>1 DEF L!Upto, L!MissCap, WatchInv
  <2>3. CASE L!Main
    <3>1. ASSUME NEW r \in Routes, L!Wire(r) PROVE WatchInv'
      BY <1>2, <3>1 DEF L!Wire, WatchInv
    <3>2. CASE L!Connect \/ L!GiveUp
      BY <1>2, <3>2 DEF L!Connect, L!GiveUp, WatchInv
    <3>3. CASE L!Publish \/ L!StartWatchdog
      BY <1>2, <2>1, <3>3 DEF L!Publish, L!StartWatchdog, WatchInv
    <3> QED
      BY <2>3, <3>1, <3>2, <3>3 DEF L!Main
  <2>4. CASE L!Ping("answered") \/ L!Ping("failed")
    BY <1>2, <2>4 DEF L!Ping, WatchInv
  <2>5. CASE L!Miss
    <3>1. /\ watchdog = "failed" /\ watchdog' = "sleeping" /\ failures' = L!Upto(failures + 1)
          /\ ready' = IF failures + 1 = Threshold THEN FALSE ELSE ready
          /\ main' = main /\ flakes' = flakes /\ panics' = panics
      BY <2>5 DEF L!Miss
    <3>2. failures' >= Threshold => ~ready'
      BY <1>2, <2>1, <2>2, <3>1 DEF WatchInv
    <3> QED
      BY <1>2, <2>2, <3>1, <3>2 DEF WatchInv
  <2>6. CASE L!Answer \/ L!Restart
    BY <1>2, <2>1, <2>6 DEF L!Answer, L!Restart, WatchInv
  <2>7. CASE L!Drain \/ L!Stop
    BY <1>2, <2>7 DEF L!Drain, L!Stop, WatchInv
  <2>8. CASE L!Panic \/ L!DatabaseChanges
    BY <1>2, <2>8 DEF L!Panic, L!DatabaseChanges, WatchInv
  <2>9. CASE UNCHANGED L!vars
    BY <1>2, <2>9 DEF L!vars, WatchInv
  <2> QED
    BY <1>2, <2>3, <2>4, <2>5, <2>6, <2>7, <2>8, <2>9 DEF L!Next, L!Watchdog
<1> QED
  BY <1>1, <1>2, FrontDoorImplementsLifecycle, PTL DEF L!Spec

(* The loop of the watchdog, and what it does while the process serves and *)
(* nothing flakes or panics any more: its own steps, and no other's.       *)
Watches == Runs /\ L!Watchdog
Sound == UNCHANGED <<flakes, panics>>

LEMMA WatchSteps ==
  ASSUME WatchInv, [FrontDoorNext]_all, L!Serving, L!Serving', [Sound]_all
  PROVE  /\ ~Watches => UNCHANGED <<watchdog, failures, ready>>
         /\ Watches =>
              \/ /\ watchdog = "sleeping" /\ watchdog' \in {"answered", "failed"}
                 /\ watchdog' = (IF database = "up" THEN "answered" ELSE "failed")
                 /\ UNCHANGED <<failures, ready>>
              \/ /\ watchdog = "failed" /\ watchdog' = "sleeping"
                 /\ failures' = L!Upto(failures + 1)
                 /\ ready' = IF failures + 1 = Threshold THEN FALSE ELSE ready
              \/ watchdog = "answered" /\ watchdog' = "sleeping" /\ failures' = 0 /\ ready'
              \/ watchdog = "panicked" /\ watchdog' = "sleeping" /\ failures' = 0 /\ ready' = ready
<1>1. UNCHANGED <<flakes, panics>>
  BY DEF Sound, all, process
<1>2. ASSUME NEW c \in Callers, Request(c) PROVE UNCHANGED process
  BY <1>2 DEF Request, Knock, Gate, TurnedAway, LetIn, Acquiring, Leave, Served
<1>3. CASE Moderate \/ UNCHANGED all \/ \E c \in Callers : Request(c)
  BY <1>2, <1>3 DEF Moderate, all, process, Watches, Runs, L!Watchdog, L!Ping, L!Miss, L!Answer,
                    L!Restart, L!Serving
<1>4. CASE Dies \/ Outlives
  BY <1>4 DEF Dies, Outlives, L!Serving, L!Alive
<1>5. CASE Runs /\ ~L!Watchdog
  <2>1. ~L!Main /\ ~L!Drain /\ ~L!Stop
    BY DEF L!Main, L!Connect, L!GiveUp, L!Wire, L!Publish, L!StartWatchdog, L!Drain, L!Stop, L!Serving
  <2>2. ~L!Panic
    BY <1>1 DEF L!Panic, WatchInv
  <2>3. L!DatabaseChanges
    BY <1>5, <2>1, <2>2 DEF Runs, L!Next
  <2> QED
    BY <1>5, <2>3 DEF L!DatabaseChanges, Watches
<1>6. CASE Runs /\ L!Watchdog
  <2>1. CASE L!Ping("answered") \/ L!Ping("failed")
    <3>1. L!Ping("failed") => database # "up"
      BY <1>1 DEF L!Ping, WatchInv
    <3>2. L!Ping("answered") => database = "up"
      BY DEF L!Ping
    <3> QED
      BY <1>6, <2>1, <3>1, <3>2 DEF L!Ping, Watches
  <2>2. CASE L!Miss
    BY <1>6, <2>2 DEF L!Miss, Watches
  <2>3. CASE L!Answer \/ L!Restart
    BY <1>6, <2>3 DEF L!Answer, L!Restart, Watches
  <2> QED
    BY <1>6, <2>1, <2>2, <2>3 DEF L!Watchdog
<1> QED
  BY <1>3, <1>4, <1>5, <1>6 DEF FrontDoorNext

(* That the watchdog of a serving process can go on is left to TLC, as     *)
(* ENABLED is beyond the provers: it may ping, count, answer or start anew.*)
WatchdogGoesOn == L!Serving => ENABLED <<Watches>>_all

(* "The gateway now survives any database outage unattended" (main.go):    *)
(* the gate opens again, and stays open, once the database is there for    *)
(* good, wherever the outage, a failing ping or a panic left the watchdog, *)
(* if the pings and the panics that are bounded in the runs do come to an  *)
(* end.                                                                    *)
THEOREM TheServiceResumes ==
  FrontDoorFair /\ []WatchdogGoesOn /\ <>[][Sound]_all => ServiceResumes
<1> DEFINE Calm == L!Serving /\ database = "up"
           At(place) == watchdog = place
           Good == ready /\ watchdog \in {"sleeping", "answered"}
<1>1. WatchInv /\ Calm => At("sleeping") \/ At("failed") \/ At("panicked") \/ At("answered")
  BY DEF WatchInv, L!Serving
<1>2. WatchInv /\ [FrontDoorNext]_all /\ Calm /\ Calm' /\ [Sound]_all =>
        /\ At("sleeping") => (At("sleeping")' /\ ~<<Watches>>_all) \/ At("answered")'
        /\ At("failed") => (At("failed")' /\ ~<<Watches>>_all) \/ At("sleeping")'
        /\ At("panicked") => (At("panicked")' /\ ~<<Watches>>_all) \/ At("sleeping")'
        /\ At("answered") => (At("answered")' /\ ~<<Watches>>_all) \/ Good'
        /\ Good => Good'
  BY WatchSteps
<1>3. WatchdogGoesOn /\ Calm => ENABLED <<Watches>>_all
  BY DEF WatchdogGoesOn
<1>4. Good => ready
  OBVIOUS
<1>5. FrontDoorFair => WF_all(Watches)
  BY PTL DEF FrontDoorFair, Watches
<1> HIDE DEF Calm, At, Good
<1>6. FrontDoorFair /\ []WatchdogGoesOn /\ <>[][Sound]_all => (<>[]Calm => <>[]Good)
  BY <1>1, <1>2, <1>3, <1>5, WatchInvHolds, PTL DEF FrontDoorFair, FrontDoorSpec
<1>7. FrontDoorFair /\ []WatchdogGoesOn /\ <>[][Sound]_all => (<>[]Calm => <>[]ready)
  BY <1>4, <1>6, PTL
<1> QED
  BY <1>7, PTL DEF ServiceResumes, L!ServiceResumes, Calm

(* With the threshold of main.go 462 an outage that lasts shuts the gate   *)
(* for good, also if it began between a ping and its count or while a      *)
(* watchdog that panicked was being restarted with a new counter.          *)
THEOREM TheOutageIsNoticed ==
  ASSUME Threshold = 2
  PROVE  FrontDoorFair /\ []WatchdogGoesOn /\ <>[][Sound]_all => OutagesAreNoticed
<1> DEFINE Outage == L!Serving /\ database = "down"
           At(place) == watchdog = place
           Counted(place, n) == watchdog = place /\ failures = n
           Good == ~ready /\ watchdog \in {"sleeping", "failed"}
<1>0. L!Upto(0 + 1) = 1
  BY DEF L!Upto, L!MissCap
<1>1. WatchInv /\ Outage =>
        \/ At("panicked") \/ At("answered") \/ Good
        \/ Counted("sleeping", 0) \/ Counted("failed", 0)
        \/ Counted("sleeping", 1) \/ Counted("failed", 1)
  <2>1. WatchInv => failures \in Nat /\ (failures >= 2 => ~ready)
    BY DEF WatchInv
  <2>2. WatchInv => failures = 0 \/ failures = 1 \/ ~ready
    BY <2>1
  <2> QED
    BY <2>2 DEF WatchInv, L!Serving
<1>2. WatchInv /\ [FrontDoorNext]_all /\ Outage /\ Outage' /\ [Sound]_all =>
        /\ At("panicked") => (At("panicked")' /\ ~<<Watches>>_all) \/ Counted("sleeping", 0)'
        /\ At("answered") => (At("answered")' /\ ~<<Watches>>_all) \/ Counted("sleeping", 0)'
        /\ Counted("sleeping", 0) =>
             (Counted("sleeping", 0)' /\ ~<<Watches>>_all) \/ Counted("failed", 0)'
        /\ Counted("sleeping", 1) =>
             (Counted("sleeping", 1)' /\ ~<<Watches>>_all) \/ Counted("failed", 1)'
        /\ Counted("failed", 0) =>
             (Counted("failed", 0)' /\ ~<<Watches>>_all) \/ Counted("sleeping", 1)'
        /\ Counted("failed", 1) =>
             (Counted("failed", 1)' /\ ~<<Watches>>_all) \/ Good'
        /\ Good => Good'
  <2> SUFFICES ASSUME WatchInv, [FrontDoorNext]_all, Outage, Outage', [Sound]_all
               PROVE  /\ At("panicked") => (At("panicked")' /\ ~Watches) \/ Counted("sleeping", 0)'
                      /\ At("answered") => (At("answered")' /\ ~Watches) \/ Counted("sleeping", 0)'
                      /\ Counted("sleeping", 0) =>
                           (Counted("sleeping", 0)' /\ ~Watches) \/ Counted("failed", 0)'
                      /\ Counted("sleeping", 1) =>
                           (Counted("sleeping", 1)' /\ ~Watches) \/ Counted("failed", 1)'
                      /\ Counted("failed", 0) =>
                           (Counted("failed", 0)' /\ ~Watches) \/ Counted("sleeping", 1)'
                      /\ Counted("failed", 1) => (Counted("failed", 1)' /\ ~Watches) \/ Good'
                      /\ Good => Good'
    OBVIOUS
  <2>1. CASE ~Watches
    <3>1. UNCHANGED <<watchdog, failures, ready>>
      BY <2>1, WatchSteps
    <3> QED
      BY <2>1, <3>1
  <2>2. CASE Watches /\ watchdog = "sleeping"
    <3>1. watchdog' = "failed" /\ failures' = failures /\ ready' = ready
      BY <2>2, WatchSteps
    <3> QED
      BY <2>2, <3>1
  <2>3. CASE Watches /\ watchdog = "failed"
    <3>1. /\ watchdog' = "sleeping" /\ failures' = L!Upto(failures + 1)
          /\ ready' = IF failures + 1 = Threshold THEN FALSE ELSE ready
      BY <2>3, WatchSteps
    <3>2. failures = 0 => failures' = 1
      BY <1>0, <3>1
    <3>3. failures = 1 => ~ready'
      BY <3>1
    <3>4. ~ready => ~ready'
      BY <3>1
    <3> QED
      BY <2>3, <3>1, <3>2, <3>3, <3>4
  <2>4. CASE Watches /\ watchdog = "answered"
    BY <2>4, WatchSteps
  <2>5. CASE Watches /\ watchdog = "panicked"
    BY <2>5, WatchSteps
  <2> QED
    BY <2>1, <2>2, <2>3, <2>4, <2>5, WatchSteps
<1>3. WatchdogGoesOn /\ Outage => ENABLED <<Watches>>_all
  BY DEF WatchdogGoesOn
<1>4. Good => ~ready
  OBVIOUS
<1>5. FrontDoorFair => WF_all(Watches)
  BY PTL DEF FrontDoorFair, Watches
<1> HIDE DEF Outage, At, Counted, Good
<1>6. FrontDoorFair /\ []WatchdogGoesOn /\ <>[][Sound]_all => (<>[]Outage => <>[]Good)
  BY <1>1, <1>2, <1>3, <1>5, WatchInvHolds, PTL DEF FrontDoorFair, FrontDoorSpec
<1>7. FrontDoorFair /\ []WatchdogGoesOn /\ <>[][Sound]_all => (<>[]Outage => <>[]~ready)
  BY <1>4, <1>6, PTL
<1> QED
  BY <1>7, PTL DEF OutagesAreNoticed, L!OutagesAreNoticed, Outage

-----------------------------------------------------------------------------
(* The rate limiter *)

Member(c) == <<c.at, Nano[c.request]>>
TokenMember(c) == <<c.at, Nano[c.request], Tokens[c.request]>>

(* No two requests that Redis counted read the clock in one nanosecond.    *)
StampsDiffer == \A c, d \in By(Redis) : Member(c) = Member(d) => c = d

(* What a limiter has counted after an instant.                            *)
Recent(b, u) == {c \in By(b) : c.at > u}

Zset(set) ==
  /\ set = [scores |-> set.scores, touched |-> set.touched]
  /\ IsFiniteSet(DOMAIN set.scores) /\ set.touched \in 0..now

Types ==
  /\ LimiterTypeOK
  /\ memory \in [Requests -> [requests : Seq([at : Times]), tokens : Seq([at : Times, n : Nat \ {0}])]]
  /\ zsets = [rpm |-> zsets.rpm, tpm |-> zsets.tpm] /\ Zset(zsets.rpm) /\ Zset(zsets.tpm)
  /\ IsFiniteSet(counted)
  /\ now \in 0..MaxTime

(* A call is out for Lag at most; a stamp is not ahead of its clock.       *)
StampInv ==
  /\ \A r \in Requests : In(r, "asking") =>
       call[r].at <= Clock(call[r].gateway) /\ Clock(call[r].gateway) <= call[r].at + Lag
  /\ \A c \in counted :
       IF c.by = Redis
       THEN call[c.request].phase \notin {"new", "asking"} /\ c.at <= now + MaxSkew
       ELSE call[c.request].phase = "passed" /\ c.at <= Clock(call[c.by].gateway)

Stored(scores, c, m) == m \in DOMAIN scores /\ scores[m] = c.at

(* The sorted sets hold nothing that was not counted, and of what was      *)
(* counted all that a script may still have to count.                      *)
RedisInv ==
  /\ \A m \in DOMAIN zsets.rpm.scores : \E c \in By(Redis) :
       m = Member(c) /\ zsets.rpm.scores[m] = c.at
  /\ \A m \in DOMAIN zsets.tpm.scores : \E c \in By(Redis) :
       m = TokenMember(c) /\ zsets.tpm.scores[m] = c.at
  /\ \A c \in By(Redis) : c.at > now + MaxSkew - Window =>
       /\ Stored(zsets.rpm.scores, c, Member(c)) /\ c.at <= zsets.rpm.touched + MaxSkew
       /\ Tokens[c.request] > 0 =>
            Stored(zsets.tpm.scores, c, TokenMember(c)) /\ c.at <= zsets.tpm.touched + MaxSkew

Handled == {"holding", "passed", "throttled"}

(* A KeyLimiter belongs to the gateway of the request that created it.     *)
Owned(kl, g) == kl \in Requests /\ call[kl].gateway = g /\ call[kl].phase \in Handled

OwnerInv ==
  /\ \A g \in Gateways : limiters[g] # NoLimiter => Owned(limiters[g], g)
  /\ \A r \in Requests : In(r, "holding") => Owned(call[r].limiter, call[r].gateway)
  /\ \A c \in counted : c.by # Redis => Owned(c.by, call[c.by].gateway)
  /\ \A r \in Requests : call[r].phase \notin Handled => memory[r] = EmptyLimiter

Ascending(records, last) ==
  \A i, j \in DOMAIN records : i <= j => records[i].at <= records[j].at /\ records[j].at <= last

Amounts(records) == [i \in DOMAIN records |-> records[i].n]

(* A KeyLimiter has recorded after any instant it may still have to count  *)
(* from what it has counted since.                                         *)
Matches(kl, u) ==
  /\ Cardinality(After(memory[kl].requests, u)) = Cardinality(Recent(kl, u))
  /\ SumOf(Amounts(memory[kl].tokens), After(memory[kl].tokens, u)) = TokensOf(Recent(kl, u))

LimiterInv(kl) ==
  LET clock == Clock(call[kl].gateway) IN
  /\ Ascending(memory[kl].requests, clock) /\ Ascending(memory[kl].tokens, clock)
  /\ \A u \in (clock - Window)..(MaxTime + MaxSkew) : Matches(kl, u)

MemoryInv == \A kl \in Requests : LimiterInv(kl)

CountInv == Types /\ StampInv /\ RedisInv /\ OwnerInv /\ MemoryInv

-----------------------------------------------------------------------------
(* Sums and slices *)

(* Amounts that can be matched, one to one, with amounts no smaller sum to *)
(* no more.                                                                *)
LEMMA SumInto ==
  ASSUME NEW S, NEW f, \A x \in S : f[x] \in Nat,
         NEW T, IsFiniteSet(T), NEW g, \A y \in T : g[y] \in Nat,
         NEW h, \A x \in S : f[x] > 0 => h[x] \in T /\ f[x] <= g[h[x]],
         \A x, y \in S : f[x] > 0 /\ f[y] > 0 /\ h[x] = h[y] => x = y
  PROVE  SumOf(f, S) <= SumOf(g, T)
<1> DEFINE U == Units(f, S)
           V == Units(g, T)
           e == [u \in U |-> <<h[u[1]], u[2]>>]
<1>1. \A u \in U : \E x \in S : \E i \in 1..f[x] : u = <<x, i>>
  BY DEF Units
<1>2. \A y \in T : \A i \in 1..g[y] : <<y, i>> \in V
  BY DEF Units
<1> HIDE DEF U, V
<1>3. ASSUME NEW u \in U PROVE e[u] \in V
  <2>1. PICK x \in S : \E i \in 1..f[x] : u = <<x, i>>
    BY <1>1
  <2>2. PICK i \in 1..f[x] : u = <<x, i>>
    BY <2>1
  <2>3. f[x] \in Nat /\ f[x] > 0 /\ h[x] \in T /\ g[h[x]] \in Nat /\ f[x] <= g[h[x]]
    BY <2>2
  <2>4. i \in 1..g[h[x]]
    BY <2>2, <2>3
  <2> QED
    BY <1>2, <2>2, <2>3, <2>4
<1>4. ASSUME NEW u \in U, NEW v \in U, e[u] = e[v] PROVE u = v
  <2>1. PICK x \in S, y \in S : /\ \E i \in 1..f[x] : u = <<x, i>>
                               /\ \E j \in 1..f[y] : v = <<y, j>>
    BY <1>1
  <2>2. PICK i \in 1..f[x] : u = <<x, i>>
    BY <2>1
  <2>3. PICK j \in 1..f[y] : v = <<y, j>>
    BY <2>1
  <2>4. h[x] = h[y] /\ i = j
    BY <1>4, <2>2, <2>3
  <2>5. f[x] > 0 /\ f[y] > 0
    BY <2>2, <2>3
  <2> QED
    BY <2>2, <2>3, <2>4, <2>5
<1>5. e \in Injection(U, V)
  BY <1>3, <1>4 DEF Injection, IsInjective
<1>6. IsFiniteSet(V)
  BY UnitsFinite DEF V
<1>7. Cardinality(U) <= Cardinality(V)
  BY <1>5, <1>6, FS_Injection
<1> QED
  BY <1>7 DEF SumOf, U, V

(* Amounts that can be matched one to one sum to the same.                 *)
LEMMA SumOnto ==
  ASSUME NEW S, IsFiniteSet(S), NEW f, \A x \in S : f[x] \in Nat,
         NEW T, NEW g, NEW h \in Bijection(S, T), \A x \in S : g[h[x]] = f[x]
  PROVE  SumOf(f, S) = SumOf(g, T)
<1> DEFINE U == Units(f, S)
           V == Units(g, T)
           e == [u \in U |-> <<h[u[1]], u[2]>>]
<1>1. \A u : u \in U <=> \E x \in S : \E i \in 1..f[x] : u = <<x, i>>
  BY DEF Units
<1>2. \A u : u \in V <=> \E y \in T : \E i \in 1..g[y] : u = <<y, i>>
  BY DEF Units
<1>3. /\ \A x \in S : h[x] \in T
      /\ \A x, y \in S : h[x] = h[y] => x = y
      /\ \A y \in T : \E x \in S : h[x] = y
  BY DEF Bijection, Injection, Surjection, IsInjective
<1> HIDE DEF U, V
<1>4. ASSUME NEW u \in U PROVE e[u] \in V
  <2>1. PICK x \in S : \E i \in 1..f[x] : u = <<x, i>>
    BY <1>1
  <2>2. PICK i \in 1..f[x] : u = <<x, i>>
    BY <2>1
  <2>3. h[x] \in T /\ i \in 1..g[h[x]] /\ e[u] = <<h[x], i>>
    BY <1>3, <2>2
  <2> HIDE DEF e
  <2> QED
    BY <1>2, <2>3
<1>5. ASSUME NEW u \in U, NEW v \in U, e[u] = e[v] PROVE u = v
  <2>1. PICK x \in S, y \in S : /\ \E i \in 1..f[x] : u = <<x, i>>
                               /\ \E j \in 1..f[y] : v = <<y, j>>
    BY <1>1
  <2>2. PICK i \in 1..f[x] : u = <<x, i>>
    BY <2>1
  <2>3. PICK j \in 1..f[y] : v = <<y, j>>
    BY <2>1
  <2>4. h[x] = h[y] /\ i = j
    BY <1>5, <2>2, <2>3
  <2> QED
    BY <1>3, <2>2, <2>3, <2>4
<1>6. ASSUME NEW v \in V PROVE \E u \in U : e[u] = v
  <2>1. PICK y \in T : \E i \in 1..g[y] : v = <<y, i>>
    BY <1>2
  <2>2. PICK i \in 1..g[y] : v = <<y, i>>
    BY <2>1
  <2>3. PICK x \in S : h[x] = y
    BY <1>3
  <2>4. <<x, i>> \in U
    BY <1>1, <2>2, <2>3
  <2>5. e[<<x, i>>] = v
    BY <2>2, <2>3, <2>4
  <2> QED
    BY <2>4, <2>5
<1> HIDE DEF e
<1>7. DOMAIN e = U /\ e = [u \in U |-> e[u]]
  BY DEF e
<1>8. e \in Bijection(U, V)
  BY <1>4, <1>5, <1>6, <1>7 DEF Bijection, Injection, Surjection, IsInjective
<1>9. IsFiniteSet(U)
  BY UnitsFinite DEF U
<1>10. Cardinality(V) = Cardinality(U)
  BY <1>8, <1>9, FS_Bijection DEF ExistsBijection
<1> QED
  BY <1>10 DEF SumOf, U, V

(* What a slice leaves out and what it keeps.                              *)
LEMMA SinceSlices ==
  ASSUME NEW R, NEW records \in Seq(R), \A r \in R : r.at \in Int, NEW cutoff \in Int,
         NEW last, Ascending(records, last)
  PROVE  LET kept == Since(records, cutoff) IN
         /\ kept \in Seq(R)
         /\ \E gone \in Nat :
              /\ Len(records) = gone + Len(kept)
              /\ \A i \in 1..gone : records[i].at <= cutoff
              /\ \A i \in 1..Len(kept) : kept[i] = records[gone + i] /\ kept[i].at > cutoff
<1> DEFINE live == After(records, cutoff)
           kept == Since(records, cutoff)
<1>1. /\ Len(records) \in Nat /\ DOMAIN records = 1..Len(records)
      /\ \A i \in 1..Len(records) : records[i] \in R /\ records[i].at \in Int
  OBVIOUS
<1>2. CASE live = {}
  <2>1. kept = <<>>
    BY <1>2 DEF Since
  <2>2. \A i \in 1..Len(records) : records[i].at <= cutoff
    BY <1>1, <1>2 DEF After
  <2> HIDE DEF kept
  <2>3. kept \in Seq(R) /\ Len(kept) = 0 /\ Len(records) = Len(records) + Len(kept)
    BY <1>1, <2>1
  <2>4. \A i \in 1..Len(kept) : kept[i] = records[Len(records) + i] /\ kept[i].at > cutoff
    BY <2>3
  <2> QED
    BY <1>1, <2>2, <2>3, <2>4 DEF kept
<1>3. CASE live # {}
  <2> DEFINE first == Min(live)
  <2>1. live \in SUBSET Nat
    BY <1>1 DEF After
  <2>2. first \in live /\ \A x \in live : first <= x
    BY <1>3, <2>1, MinOfNaturals
  <2>3. first \in 1..Len(records) /\ records[first].at > cutoff
    BY <1>1, <2>2 DEF After
  <2>4. kept = SubSeq(records, first, Len(records))
    BY <1>3 DEF Since
  <2> HIDE DEF first, kept
  <2>5. /\ kept \in Seq(R) /\ Len(kept) = Len(records) - first + 1
        /\ \A i \in 1..Len(kept) : kept[i] = records[first + i - 1]
    BY <1>1, <2>3, <2>4, SubSeqProperties
  <2>6. first - 1 \in Nat /\ Len(records) = first - 1 + Len(kept)
    BY <1>1, <2>3, <2>5
  <2>7. \A i \in 1..(first - 1) : records[i].at <= cutoff
    BY <1>1, <2>2, <2>3 DEF After
  <2>8. ASSUME NEW i \in 1..Len(kept)
        PROVE  kept[i] = records[(first - 1) + i] /\ kept[i].at > cutoff
    <3>1. first + i - 1 = (first - 1) + i /\ first + i - 1 \in 1..Len(records) /\ first <= first + i - 1
      BY <1>1, <2>3, <2>5
    <3>2. records[first].at <= records[first + i - 1].at
      BY <1>1, <2>3, <3>1 DEF Ascending
    <3> QED
      BY <1>1, <2>3, <2>5, <3>1, <3>2
  <2> QED
    BY <2>5, <2>6, <2>7, <2>8 DEF kept
<1> QED
  BY <1>2, <1>3

(* A slice has recorded, after any instant it does not cut, what the whole *)
(* has.                                                                    *)
LEMMA SinceKeeps ==
  ASSUME NEW R, NEW records \in Seq(R), \A r \in R : r.at \in Int, NEW cutoff \in Int,
         NEW last \in Int, Ascending(records, last), NEW u \in Int, u >= cutoff
  PROVE  LET kept == Since(records, cutoff) IN
         /\ Ascending(kept, last) /\ After(kept, cutoff) = DOMAIN kept
         /\ Cardinality(After(kept, u)) = Cardinality(After(records, u))
         /\ (\A r \in R : r.n \in Nat) =>
              SumOf(Amounts(kept), After(kept, u)) = SumOf(Amounts(records), After(records, u))
<1> DEFINE kept == Since(records, cutoff)
<1>1. PICK gone \in Nat :
        /\ Len(records) = gone + Len(kept)
        /\ \A i \in 1..gone : records[i].at <= cutoff
        /\ \A i \in 1..Len(kept) : kept[i] = records[gone + i] /\ kept[i].at > cutoff
  BY SinceSlices
<1>2. kept \in Seq(R)
  BY SinceSlices
<1> HIDE DEF kept
<1> DEFINE n == Len(kept)
           S == After(kept, u)
           T == After(records, u)
           h == [i \in S |-> gone + i]
<1>3. n \in Nat /\ DOMAIN kept = 1..n /\ DOMAIN records = 1..(gone + n)
  BY <1>1, <1>2
<1> HIDE DEF n
<1>4. \A i \in 1..(gone + n) : records[i] \in R /\ records[i].at \in Int
  BY <1>3
<1>5. \A i \in 1..n : /\ gone + i \in 1..(gone + n)
                      /\ kept[i] = records[gone + i] /\ kept[i].at > cutoff
                      /\ kept[i] \in R /\ kept[i].at \in Int
  BY <1>1, <1>2, <1>3 DEF n
<1>6. Ascending(kept, last)
  <2> SUFFICES ASSUME NEW i \in 1..n, NEW j \in 1..n, i <= j
               PROVE  kept[i].at <= kept[j].at /\ kept[j].at <= last
    BY <1>3 DEF Ascending
  <2>1. gone + i <= gone + j
    BY <1>3
  <2> QED
    BY <1>3, <1>5, <2>1 DEF Ascending
<1>7. After(kept, cutoff) = DOMAIN kept
  BY <1>3, <1>5 DEF After
<1>8. S \subseteq 1..n /\ \A i \in 1..n : i \in S <=> kept[i].at > u
  BY <1>3 DEF After
<1>9. \A j : j \in T <=> j \in 1..(gone + n) /\ records[j].at > u
  BY <1>3 DEF After
<1> HIDE DEF S, T
<1>10. h \in Bijection(S, T)
  <2>1. ASSUME NEW i \in S PROVE h[i] \in T
    BY <1>5, <1>8, <1>9
  <2>2. ASSUME NEW i \in S, NEW j \in S, h[i] = h[j] PROVE i = j
    BY <1>3, <1>8, <2>2
  <2>3. ASSUME NEW j \in T PROVE \E i \in S : h[i] = j
    <3>1. j \in 1..(gone + n) /\ records[j].at > u /\ records[j].at \in Int
      BY <1>4, <1>9
    <3>2. ~(j \in 1..gone)
      BY <1>1, <3>1
    <3>3. j - gone \in 1..n /\ gone + (j - gone) = j
      BY <1>3, <3>1, <3>2
    <3>4. j - gone \in S
      BY <1>5, <1>8, <3>1, <3>3
    <3> QED
      BY <3>3, <3>4
  <2> QED
    BY <2>1, <2>2, <2>3 DEF Bijection, Injection, Surjection, IsInjective
<1>11. IsFiniteSet(S)
  <2>1. IsFiniteSet(1..n)
    BY <1>3, FS_Interval
  <2> QED
    BY <1>8, <2>1, FS_Subset
<1>12. Cardinality(S) = Cardinality(T)
  BY <1>10, <1>11, FS_Bijection DEF ExistsBijection
<1>13. ASSUME \A r \in R : r.n \in Nat
       PROVE  SumOf(Amounts(kept), S) = SumOf(Amounts(records), T)
  <2> DEFINE f == Amounts(kept)
             g == Amounts(records)
  <2>1. \A i \in S : f[i] = kept[i].n /\ f[i] \in Nat
    BY <1>3, <1>5, <1>8, <1>13 DEF Amounts
  <2>2. \A i \in S : g[gone + i] = kept[i].n
    BY <1>3, <1>5, <1>8 DEF Amounts
  <2>3. \A i \in S : g[h[i]] = f[i]
    BY <2>1, <2>2
  <2> HIDE DEF f, g, h
  <2>4. SumOf(f, S) = SumOf(g, T)
    BY <1>10, <1>11, <2>1, <2>3, SumOnto
  <2> QED
    BY <2>4 DEF f, g
<1> QED
  BY <1>6, <1>7, <1>12, <1>13 DEF kept, S, T

(* What one record more adds.                                              *)
LEMMA OneRecordMore ==
  ASSUME NEW R, NEW records \in Seq(R), \A r \in R : r.at \in Int, NEW e \in R,
         NEW last \in Int, Ascending(records, last), e.at = last, NEW u \in Int
  PROVE  LET more == Append(records, e)
             one == IF e.at > u THEN 1 ELSE 0 IN
         /\ Ascending(more, last)
         /\ Cardinality(After(records, u)) \in Nat
         /\ Cardinality(After(more, u)) = Cardinality(After(records, u)) + one
         /\ (\A r \in R : r.n \in Nat) =>
              /\ SumOf(Amounts(records), After(records, u)) \in Nat
              /\ SumOf(Amounts(more), After(more, u)) =
                   SumOf(Amounts(records), After(records, u)) + IF e.at > u THEN e.n ELSE 0
<1> DEFINE more == Append(records, e)
           n == Len(records)
           S == After(records, u)
           f == Amounts(records)
           g == Amounts(more)
<1>1. n \in Nat /\ DOMAIN records = 1..n /\ \A i \in 1..n : records[i] \in R
  OBVIOUS
<1>2. /\ DOMAIN more = 1..(n + 1) /\ more[n + 1] = e
      /\ \A i \in 1..n : more[i] = records[i]
  OBVIOUS
<1> HIDE DEF more, n
<1>3. Ascending(more, last)
  <2> SUFFICES ASSUME NEW i \in 1..(n + 1), NEW j \in 1..(n + 1), i <= j
               PROVE  more[i].at <= more[j].at /\ more[j].at <= last
    BY <1>2 DEF Ascending
  <2>1. CASE j \in 1..n
    <3>1. i \in 1..n
      BY <1>1, <2>1
    <3> QED
      BY <1>1, <1>2, <2>1, <3>1 DEF Ascending
  <2>2. CASE j = n + 1
    <3>1. CASE i \in 1..n
      <4>1. records[i].at <= last
        BY <1>1, <3>1 DEF Ascending
      <4> QED
        BY <1>2, <2>2, <3>1, <4>1
    <3>2. CASE i = n + 1
      BY <1>2, <2>2, <3>2
    <3> QED
      BY <1>1, <3>1, <3>2
  <2> QED
    BY <1>1, <2>1, <2>2, SMTT(30)
<1>4. S \subseteq 1..n /\ n + 1 \notin S
  BY <1>1 DEF After
<1>5. IsFiniteSet(S)
  <2>1. IsFiniteSet(1..n)
    BY <1>1, FS_Interval
  <2> HIDE DEF S
  <2> QED
    BY <1>4, <2>1, FS_Subset
<1>6. Cardinality(S) \in Nat
  BY <1>5, FS_CardinalityType
<1>7. After(more, u) = IF e.at > u THEN S \cup {n + 1} ELSE S
  <2>1. \A i \in 1..n : more[i].at > u <=> records[i].at > u
    BY <1>2
  <2>2. \A i : i \in After(more, u) <=> i \in 1..(n + 1) /\ more[i].at > u
    BY <1>2 DEF After
  <2>3. \A i : i \in S <=> i \in 1..n /\ records[i].at > u
    BY <1>1 DEF After
  <2>4. \A i : i \in 1..(n + 1) <=> i \in 1..n \/ i = n + 1
    BY <1>1
  <2> HIDE DEF S
  <2>5. \A i : i \in After(more, u) <=> i \in S \/ (i = n + 1 /\ e.at > u)
    BY <1>2, <2>1, <2>2, <2>3, <2>4
  <2> QED
    BY <2>5
<1>8. Cardinality(After(more, u)) = Cardinality(S) + IF e.at > u THEN 1 ELSE 0
  <2>1. Cardinality(S \cup {n + 1}) = Cardinality(S) + 1
    BY <1>4, <1>5, FS_AddElement
  <2> HIDE DEF S
  <2> QED
    BY <1>6, <1>7, <2>1
<1>9. ASSUME \A r \in R : r.n \in Nat
      PROVE  /\ SumOf(f, S) \in Nat
             /\ SumOf(g, After(more, u)) = SumOf(f, S) + IF e.at > u THEN e.n ELSE 0
  <2>1. \A i \in S : f[i] \in Nat /\ g[i] = f[i]
    BY <1>1, <1>2, <1>4, <1>9 DEF Amounts
  <2>2. g[n + 1] = e.n /\ e.n \in Nat
    BY <1>1, <1>2, <1>9 DEF Amounts
  <2> HIDE DEF f, g, S
  <2>3. SumOf(f, S) \in Nat /\ SumOf(g, S) = SumOf(f, S)
    BY <1>5, <2>1, SumType, SumAgree
  <2> DEFINE x == n + 1
  <2>4. SumOf(g, S \cup {x}) = SumOf(g, S) + g[x]
    <3>1. \A y \in S \cup {x} : g[y] \in Nat
      BY <2>1, <2>2
    <3>2. x \notin S
      BY <1>4
    <3> HIDE DEF x
    <3> QED
      BY <1>5, <3>1, <3>2, SumAdd
  <2> QED
    BY <1>7, <2>2, <2>3, <2>4
<1> QED
  BY <1>3, <1>6, <1>8, <1>9 DEF more, f, g, S

-----------------------------------------------------------------------------
(* The steps *)

(* What the types say of the numbers.                                      *)
LEMMA Numbers ==
  ASSUME Types
  PROVE  /\ now \in Nat /\ now <= MaxTime /\ {Lag, Rpm, Tpm, MaxTime, MaxSkew, Window, Keep} \subseteq Nat
         /\ Times = 0..(MaxTime + MaxSkew)
         /\ Window > 0 /\ Window <= Keep
         /\ \A g \in Gateways : Skew[g] \in Nat /\ Skew[g] <= MaxSkew
         /\ \A g \in Gateways : Clock(g) \in Times /\ Clock(g) \in Nat /\ Clock(g) <= now + MaxSkew
         /\ \A r \in Requests : call[r].gateway \in Gateways /\ call[r].at \in Times /\ call[r].at \in Nat
         /\ \A c \in counted : /\ c.request \in Requests /\ c.at \in Times /\ c.at \in Nat
                               /\ c.by \in Requests \cup {Redis}
         /\ \A r \in Requests : Tokens[r] \in Nat
<1>1. \A g \in Gateways : Skew[g] \in 0..MaxSkew
  BY RateLimiterAssumption
<1>2. MaxTime \in Nat /\ MaxSkew \in Nat /\ now \in 0..MaxTime
  BY RateLimiterAssumption DEF Types
<1>3. Times = 0..(MaxTime + MaxSkew)
  BY DEF Times
<1>4. \A g \in Gateways : Clock(g) \in 0..(MaxTime + MaxSkew) /\ Clock(g) \in Nat /\ Clock(g) <= now + MaxSkew
  BY <1>1, <1>2 DEF Clock
<1>5. \A r \in Requests : call[r].gateway \in Gateways /\ call[r].at \in Times
  BY DEF Types, LimiterTypeOK
<1>6. \A c \in counted : c.request \in Requests /\ c.at \in Times /\ c.by \in Requests \cup {Redis}
  BY DEF Types, LimiterTypeOK
<1>7. {Lag, Rpm, Tpm, MaxTime, MaxSkew, Window, Keep} \subseteq Nat /\ Window > 0 /\ Window <= Keep
  BY RateLimiterAssumption
<1>8. \A r \in Requests : Tokens[r] \in Nat
  BY RateLimiterAssumption
<1> QED
  BY <1>1, <1>2, <1>3, <1>4, <1>5, <1>6, <1>7, <1>8

(* What a sequence holds is of its type.                                   *)
LEMMA ElementType == ASSUME NEW R, NEW s \in Seq(R) PROVE \A i \in DOMAIN s : s[i] \in R
OBVIOUS

(* The records of a KeyLimiter.                                            *)
LEMMA RecordsType ==
  ASSUME Types, NEW kl \in Requests
  PROVE  /\ memory[kl].requests \in Seq([at : Times])
         /\ memory[kl].tokens \in Seq([at : Times, n : Nat \ {0}])
         /\ \A e \in [at : Times] : e.at \in Nat
         /\ \A e \in [at : Times, n : Nat \ {0}] : e.at \in Nat /\ e.n \in Nat
         /\ \A i \in DOMAIN memory[kl].requests : memory[kl].requests[i].at \in Nat
         /\ \A i \in DOMAIN memory[kl].tokens : memory[kl].tokens[i].at \in Nat
<1>1. /\ memory[kl].requests \in Seq([at : Times])
      /\ memory[kl].tokens \in Seq([at : Times, n : Nat \ {0}])
  BY DEF Types
<1>2. Times \subseteq Nat
  BY Numbers
<1>3. \A i \in DOMAIN memory[kl].requests : memory[kl].requests[i] \in [at : Times]
  BY <1>1, ElementType
<1>4. \A i \in DOMAIN memory[kl].tokens : memory[kl].tokens[i] \in [at : Times, n : Nat \ {0}]
  BY <1>1, ElementType
<1>5. /\ \A e \in [at : Times] : e.at \in Nat
      /\ \A e \in [at : Times, n : Nat \ {0}] : e.at \in Nat /\ e.n \in Nat
  BY <1>2
<1> QED
  BY <1>1, <1>3, <1>4, <1>5

(* A KeyLimiter that recorded nothing matches one that counted nothing.    *)
LEMMA NothingRecorded ==
  ASSUME NEW u, NEW last
  PROVE  /\ Ascending(<<>>, last) /\ After(<<>>, u) = {} /\ Cardinality({}) = 0
         /\ TokensOf({}) = 0 /\ SumOf(Amounts(<<>>), {}) = 0
<1>1. Ascending(<<>>, last) /\ After(<<>>, u) = {}
  BY DEF Ascending, After
<1>2. TokensOf({}) = 0 /\ SumOf(Amounts(<<>>), {}) = 0
  BY SumEmpty DEF TokensOf
<1> QED
  BY <1>1, <1>2, FS_EmptySet

(* The tokens of finitely many requests, and of one more.                  *)
LEMMA TokensOfMore ==
  ASSUME NEW set, IsFiniteSet(set), \A x \in set : Tokens[x.request] \in Nat,
         NEW y, y \notin set, Tokens[y.request] \in Nat
  PROVE  /\ TokensOf(set) \in Nat
         /\ TokensOf(set \cup {y}) = TokensOf(set) + Tokens[y.request]
<1> DEFINE f == [x \in set |-> Tokens[x.request]]
           g == [x \in set \cup {y} |-> Tokens[x.request]]
<1>1. \A x \in set : f[x] \in Nat /\ g[x] = f[x]
  OBVIOUS
<1>2. \A x \in set \cup {y} : g[x] \in Nat
  OBVIOUS
<1>3. g[y] = Tokens[y.request]
  OBVIOUS
<1>4. TokensOf(set) = SumOf(f, set) /\ TokensOf(set \cup {y}) = SumOf(g, set \cup {y})
  BY DEF TokensOf
<1> HIDE DEF f, g
<1>5. SumOf(f, set) \in Nat /\ SumOf(g, set) = SumOf(f, set)
  BY <1>1, SumType, SumAgree
<1>6. SumOf(g, set \cup {y}) = SumOf(g, set) + g[y]
  BY <1>2, SumAdd
<1> QED
  BY <1>3, <1>4, <1>5, <1>6

(* A step that records nothing and moves no request that may hold a        *)
(* KeyLimiter to another gateway leaves the KeyLimiters as they are.       *)
LEMMA MemoryFrame ==
  ASSUME CountInv, UNCHANGED <<memory, now>>, NEW r \in Requests,
         \A kl \in Requests \ {r} : call'[kl] = call[kl],
         call'[r].gateway = call[r].gateway \/ call[r].phase \notin Handled,
         \A kl \in Requests : {c \in counted' : c.by = kl} = By(kl)
  PROVE  MemoryInv'
<1>1. ASSUME NEW kl \in Requests, NEW u PROVE Recent(kl, u)' = Recent(kl, u)
  BY DEF Recent, By
<1>2. ASSUME NEW kl \in Requests, call'[kl].gateway = call[kl].gateway PROVE LimiterInv(kl)'
  <2>1. \A u : Matches(kl, u)' = Matches(kl, u)
    BY <1>1 DEF Matches
  <2>2. Clock(call[kl].gateway)' = Clock(call[kl].gateway)
    BY <1>2 DEF Clock
  <2>3. LimiterInv(kl)
    BY DEF CountInv, MemoryInv
  <2> QED
    BY <2>1, <2>2, <2>3 DEF LimiterInv, Ascending
<1>3. ASSUME call[r].phase \notin Handled PROVE LimiterInv(r)'
  <2>1. memory[r].requests = <<>> /\ memory[r].tokens = <<>>
    BY <1>3 DEF CountInv, OwnerInv, EmptyLimiter
  <2>2. By(r) = {}
    BY <1>3, RateLimiterAssumption DEF CountInv, OwnerInv, Owned, By
  <2>3. \A u : Recent(r, u) = {}
    BY <2>2 DEF Recent
  <2>4. \A u : Matches(r, u)'
    BY <1>1, <2>1, <2>3, NothingRecorded DEF Matches
  <2>5. \A last : Ascending(<<>>, last)
    BY NothingRecorded
  <2> QED
    BY <2>1, <2>4, <2>5 DEF LimiterInv
<1>4. ASSUME NEW kl \in Requests PROVE LimiterInv(kl)'
  BY <1>2, <1>3
<1> QED
  BY <1>4 DEF MemoryInv

(* The invariant at the start.                                             *)
LEMMA InitCountInv == LimiterInit => CountInv
<1> SUFFICES ASSUME LimiterInit PROVE CountInv
  OBVIOUS
<1>0. (CHOOSE g \in Gateways : TRUE) \in Gateways
  BY RateLimiterAssumption
<1>1. Zset(EmptySet)
  <2>1. DOMAIN EmptySet.scores = {}
    BY DEF EmptySet
  <2> QED
    BY <2>1, FS_EmptySet DEF Zset, EmptySet, LimiterInit
<1>2. /\ {MaxTime, MaxSkew, Rpm} \subseteq Nat /\ 0 \in Times /\ 0 \in 0..MaxTime
  BY RateLimiterAssumption DEF Times
<1>3. Types
  <2>1. NoCall \in [phase : Phases, gateway : Gateways, at : Times, limiter : Requests \cup {NoLimiter}]
    BY <1>0, <1>2 DEF NoCall, Phases
  <2>2. EmptyLimiter \in [requests : Seq([at : Times]), tokens : Seq([at : Times, n : Nat \ {0}])]
    BY DEF EmptyLimiter
  <2>3. Len(EmptyLimiter.requests) = 0
    BY DEF EmptyLimiter
  <2>4. LimiterTypeOK
    BY <1>2, <2>1, <2>2, <2>3 DEF LimiterInit, LimiterTypeOK
  <2> QED
    BY <1>1, <1>2, <2>2, <2>4, FS_EmptySet DEF LimiterInit, Types
<1>4. StampInv /\ OwnerInv
  BY DEF LimiterInit, StampInv, OwnerInv, In, NoCall, Handled
<1>5. RedisInv
  BY DEF LimiterInit, RedisInv, EmptySet, By
<1>6. MemoryInv
  <2>1. \A kl \in Requests : memory[kl].requests = <<>> /\ memory[kl].tokens = <<>>
    BY DEF LimiterInit, EmptyLimiter
  <2>2. \A kl, u : Recent(kl, u) = {}
    BY DEF LimiterInit, Recent, By
  <2> QED
    BY <2>1, <2>2, NothingRecorded DEF MemoryInv, LimiterInv, Matches
<1> QED
  BY <1>3, <1>4, <1>5, <1>6 DEF CountInv

(* A step that leaves Redis, the clock and the counts alone.               *)
LEMMA RedisFrame ==
  ASSUME CountInv, UNCHANGED <<zsets, counted, now>>
  PROVE  RedisInv'
<1>1. By(Redis)' = By(Redis)
  BY DEF By
<1> QED
  BY <1>1 DEF CountInv, RedisInv, Stored

(* One lemma for each action.                                              *)
LEMMA GetLimiterStep ==
  ASSUME CountInv, NEW r \in Requests, NEW g \in Gateways, GetLimiter(r, g)
  PROVE  CountInv'
<1> PICK kl : kl = IF limiters[g] = NoLimiter THEN r ELSE limiters[g]
  OBVIOUS
<1>1. /\ call[r].phase \in {"new", "fallback"} /\ call[r].phase \notin Handled
      /\ call[r].phase = "fallback" => call[r].gateway = g
  BY DEF GetLimiter, In, Handled, CountInv, StampInv
<1>2. /\ limiters' = [limiters EXCEPT ![g] = kl]
      /\ call' = [call EXCEPT ![r] = [phase |-> "holding", gateway |-> g, at |-> 0, limiter |-> kl]]
      /\ UNCHANGED <<memory, zsets, counted, now>>
  BY DEF GetLimiter
<1>3. kl \in Requests /\ (kl = r \/ Owned(kl, g))
  BY DEF CountInv, OwnerInv, Owned
<1>4. /\ call \in [Requests -> [phase : Phases, gateway : Gateways, at : Times,
                               limiter : Requests \cup {NoLimiter}]]
      /\ limiters \in [Gateways -> Requests \cup {NoLimiter}] /\ 0 \in Times
      /\ \A c \in counted : c.request \in Requests
  <2>1. 0 \in Times /\ \A c \in counted : c.request \in Requests
    BY Numbers DEF CountInv
  <2> QED
    BY <2>1 DEF CountInv, Types, LimiterTypeOK
<1>5. /\ \A q \in Requests : q # r => call'[q] = call[q]
      /\ call'[r] = [phase |-> "holding", gateway |-> g, at |-> 0, limiter |-> kl]
  BY <1>2, <1>4
<1>6. \A q, h : Owned(q, h) => q # r /\ Owned(q, h)'
  BY <1>1, <1>5 DEF Owned
<1>7. Types'
  <2>1. call' \in [Requests -> [phase : Phases, gateway : Gateways, at : Times,
                                limiter : Requests \cup {NoLimiter}]]
    BY <1>2, <1>3, <1>4 DEF Phases
  <2>2. limiters' \in [Gateways -> Requests \cup {NoLimiter}]
    BY <1>2, <1>3, <1>4
  <2> QED
    BY <1>2, <2>1, <2>2 DEF CountInv, Types, LimiterTypeOK, Zset
<1>8. StampInv'
  <2>1. \A q \in Requests : In(q, "asking")' => /\ In(q, "asking")
                                                /\ call'[q] = call[q]
    BY <1>5 DEF In
  <2>2. ASSUME NEW c \in counted, c.by # Redis
        PROVE  call'[c.request] = call[c.request] /\ call'[c.by] = call[c.by]
    <3>1. call[c.request].phase = "passed" /\ c.request # r
      BY <1>1, <2>2 DEF CountInv, StampInv
    <3>2. Owned(c.by, call[c.by].gateway) /\ c.by # r
      BY <1>6, <2>2 DEF CountInv, OwnerInv
    <3> QED
      BY <1>4, <1>5, <3>1, <3>2 DEF Owned
  <2>3. ASSUME NEW c \in counted, c.by = Redis
        PROVE  call'[c.request].phase \notin {"new", "asking"}
    BY <1>4, <1>5, <2>3 DEF CountInv, StampInv
  <2>4. StampInv
    BY DEF CountInv
  <2> QED
    BY <1>2, <2>1, <2>2, <2>3, <2>4 DEF StampInv, Clock
<1>9. OwnerInv'
  <2>1. Owned(kl, g)'
    BY <1>3, <1>5, <1>6 DEF Owned, Handled
  <2>2. ASSUME NEW h \in Gateways, limiters'[h] # NoLimiter PROVE Owned(limiters[h], h)'
    <3>1. CASE h = g
      BY <1>2, <1>4, <2>1, <3>1
    <3>2. CASE h # g
      <4>1. limiters'[h] = limiters[h] /\ Owned(limiters[h], h)
        BY <1>2, <1>4, <2>2, <3>2 DEF CountInv, OwnerInv
      <4> QED
        BY <1>6, <4>1 DEF Owned
    <3> QED
      BY <3>1, <3>2
  <2>3. ASSUME NEW q \in Requests, In(q, "holding")'
        PROVE  Owned(call[q].limiter, call[q].gateway)'
    <3>1. CASE q = r
      BY <1>5, <2>1, <3>1 DEF Owned
    <3>2. CASE q # r
      <4>1. call'[q] = call[q] /\ Owned(call[q].limiter, call[q].gateway)
        BY <1>5, <2>3, <3>2 DEF CountInv, OwnerInv, In
      <4> QED
        BY <1>6, <4>1 DEF Owned
    <3> QED
      BY <3>1, <3>2
  <2>4. ASSUME NEW c \in counted, c.by # Redis PROVE Owned(c.by, call[c.by].gateway)'
    <3>1. Owned(c.by, call[c.by].gateway)
      BY <2>4 DEF CountInv, OwnerInv
    <3>2. c.by # r /\ call'[c.by] = call[c.by]
      BY <1>5, <1>6, <3>1 DEF Owned
    <3> QED
      BY <3>1, <3>2 DEF Owned
  <2>5. \A q \in Requests : call'[q].phase \notin Handled => memory'[q] = EmptyLimiter
    BY <1>2, <1>5 DEF CountInv, OwnerInv, Handled
  <2> QED
    BY <1>2, <2>2, <2>3, <2>4, <2>5 DEF OwnerInv
<1>10. MemoryInv'
  BY <1>1, <1>2, <1>5, MemoryFrame DEF By
<1> QED
  BY <1>2, <1>7, <1>8, <1>9, <1>10, RedisFrame DEF CountInv

(* What a request that waits for Redis or has failed to reach it does to   *)
(* the others.                                                             *)
LEMMA CallFrame ==
  ASSUME CountInv, UNCHANGED <<limiters, memory>>, now' = now, NEW r \in Requests,
         call[r].phase \in {"new", "asking"},
         NEW new \in [phase : Phases, gateway : Gateways, at : Times,
                      limiter : Requests \cup {NoLimiter}],
         call' = [call EXCEPT ![r] = new],
         new.phase \notin {"new", "holding"},
         call[r].phase = "asking" => new.phase # "asking" /\ new.gateway = call[r].gateway,
         new.phase = "asking" =>
           new.at <= Clock(new.gateway) /\ Clock(new.gateway) <= new.at + Lag,
         \/ counted' = counted
         \/ /\ call[r].phase = "asking" /\ call[r].at <= now + MaxSkew
            /\ counted' = counted \cup {[request |-> r, at |-> call[r].at, by |-> Redis]}
  PROVE  StampInv' /\ OwnerInv' /\ MemoryInv'
<1>1. /\ \A q \in Requests : q # r => call'[q] = call[q]
      /\ call'[r] = new
  BY DEF CountInv, Types, LimiterTypeOK
<1>2. \A q, h : Owned(q, h) => q # r /\ Owned(q, h)'
  BY <1>1 DEF Owned, Handled
<1>3. \A c \in counted' : c \in counted \/ (c.by = Redis /\ c.request = r /\ c.at <= now + MaxSkew)
  OBVIOUS
<1>4. \A c \in counted : c.request \in Requests
  BY Numbers DEF CountInv
<1>5. StampInv'
  <2>1. ASSUME NEW q \in Requests, In(q, "asking")'
        PROVE  (call[q].at <= Clock(call[q].gateway) /\ Clock(call[q].gateway) <= call[q].at + Lag)'
    <3>1. CASE q = r
      BY <1>1, <2>1, <3>1 DEF In, Clock
    <3>2. CASE q # r
      BY <1>1, <2>1, <3>2 DEF In, Clock, CountInv, StampInv
    <3> QED
      BY <3>1, <3>2
  <2>2. ASSUME NEW c \in counted, c.by # Redis
        PROVE  call'[c.request].phase = "passed" /\ (c.at <= Clock(call[c.by].gateway))'
    <3>1. call[c.request].phase = "passed" /\ c.request # r /\ c.at <= Clock(call[c.by].gateway)
      BY <2>2 DEF CountInv, StampInv
    <3>2. Owned(c.by, call[c.by].gateway) /\ c.by # r
      BY <1>2, <2>2 DEF CountInv, OwnerInv
    <3> QED
      BY <1>1, <1>4, <3>1, <3>2 DEF Owned, Clock
  <2>3. ASSUME NEW c \in counted, c.by = Redis
        PROVE  call'[c.request].phase \notin {"new", "asking"} /\ c.at <= now' + MaxSkew
    <3>1. call[c.request].phase \notin {"new", "asking"} /\ c.at <= now + MaxSkew /\ c.request # r
      BY <2>3 DEF CountInv, StampInv
    <3> QED
      BY <1>1, <1>4, <3>1
  <2>4. ASSUME NEW c \in counted', c \notin counted
        PROVE  c.by = Redis /\ call'[c.request].phase \notin {"new", "asking"} /\ c.at <= now' + MaxSkew
    BY <1>1, <2>4
  <2> QED
    BY <2>1, <2>2, <2>3, <2>4 DEF StampInv
<1>6. OwnerInv'
  <2>2. ASSUME NEW h \in Gateways, limiters'[h] # NoLimiter PROVE Owned(limiters[h], h)'
    <3>1. limiters'[h] = limiters[h] /\ Owned(limiters[h], h)
      BY <2>2 DEF CountInv, OwnerInv
    <3> QED
      BY <1>2, <3>1 DEF Owned
  <2>3. ASSUME NEW q \in Requests, In(q, "holding")'
        PROVE  Owned(call[q].limiter, call[q].gateway)'
    <3>1. q # r
      BY <1>1, <2>3 DEF In
    <3>2. call'[q] = call[q] /\ Owned(call[q].limiter, call[q].gateway)
      BY <1>1, <2>3, <3>1 DEF CountInv, OwnerInv, In
    <3> QED
      BY <1>2, <3>2 DEF Owned
  <2>4. ASSUME NEW c \in counted', c.by # Redis PROVE Owned(c.by, call[c.by].gateway)'
    <3>1. Owned(c.by, call[c.by].gateway)
      BY <1>3, <2>4 DEF CountInv, OwnerInv
    <3>2. c.by # r /\ call'[c.by] = call[c.by]
      BY <1>1, <1>2, <3>1 DEF Owned
    <3> QED
      BY <3>1, <3>2 DEF Owned
  <2>5. \A q \in Requests : call'[q].phase \notin Handled => memory'[q] = EmptyLimiter
    BY <1>1 DEF CountInv, OwnerInv, Handled
  <2> QED
    BY <2>2, <2>3, <2>4, <2>5 DEF OwnerInv
<1>7. MemoryInv'
  <2>1. \A kl \in Requests : {c \in counted' : c.by = kl} = By(kl)
    BY RateLimiterAssumption DEF By
  <2>2. call[r].phase \notin Handled
    BY DEF Handled
  <2> QED
    BY <1>1, <2>1, <2>2, MemoryFrame
<1> QED
  BY <1>5, <1>6, <1>7

LEMMA AskRedisStep ==
  ASSUME CountInv, NEW r \in Requests, NEW g \in Gateways, AskRedis(r, g)
  PROVE  CountInv'
<1> PICK new : new = [phase |-> "asking", gateway |-> g, at |-> Clock(g), limiter |-> NoLimiter]
  OBVIOUS
<1>1. /\ call[r].phase = "new" /\ call' = [call EXCEPT ![r] = new]
      /\ UNCHANGED <<limiters, memory, zsets, counted, now>>
  BY DEF AskRedis, In
<1>2. /\ Clock(g) \in Times /\ Clock(g) \in Nat /\ Lag \in Nat
  BY Numbers DEF CountInv
<1>3. new \in [phase : Phases, gateway : Gateways, at : Times, limiter : Requests \cup {NoLimiter}]
  BY <1>2 DEF Phases
<1>4. Types'
  BY <1>1, <1>3 DEF CountInv, Types, LimiterTypeOK, Zset
<1>5. StampInv' /\ OwnerInv' /\ MemoryInv'
  <2>1. /\ new.phase = "asking" /\ new.at <= Clock(new.gateway)
        /\ Clock(new.gateway) <= new.at + Lag
    BY <1>2
  <2> QED
    BY <1>1, <1>3, <2>1, CallFrame
<1> QED
  BY <1>1, <1>4, <1>5, RedisFrame DEF CountInv

(* The ways in which a call of Redis ends.                                 *)
LEMMA CallEnds ==
  ASSUME CountInv, NEW r \in Requests, In(r, "asking"),
         Become(r, "passed") \/ Become(r, "throttled") \/ Unavailable(r)
  PROVE  \E new \in [phase : Phases, gateway : Gateways, at : Times, limiter : Requests \cup {NoLimiter}] :
           /\ call' = [call EXCEPT ![r] = new]
           /\ new.phase \notin {"new", "holding", "asking"} /\ new.gateway = call[r].gateway
<1>1. call \in [Requests -> [phase : Phases, gateway : Gateways, at : Times,
                             limiter : Requests \cup {NoLimiter}]]
  BY DEF CountInv, Types, LimiterTypeOK
<1>2. PICK p \in {"passed", "throttled", "unavailable", "fallback"} : Become(r, p)
  BY DEF Unavailable
<1> DEFINE new == [call[r] EXCEPT !.phase = p]
<1>3. new \in [phase : Phases, gateway : Gateways, at : Times, limiter : Requests \cup {NoLimiter}]
  BY <1>1 DEF Phases
<1>4. new.phase = p /\ new.gateway = call[r].gateway /\ new.at = call[r].at
  BY <1>1
<1>5. call' = [call EXCEPT ![r] = new]
  BY <1>1, <1>2 DEF Become
<1> HIDE DEF new
<1> QED
  BY <1>3, <1>4, <1>5

LEMMA RedisFailsStep ==
  ASSUME CountInv, NEW r \in Requests, RedisFails(r)
  PROVE  CountInv'
<1>1. /\ call[r].phase = "asking" /\ UNCHANGED <<limiters, memory, zsets, counted, now>>
      /\ In(r, "asking") /\ Unavailable(r)
  BY DEF RedisFails, In
<1>2. PICK new \in [phase : Phases, gateway : Gateways, at : Times, limiter : Requests \cup {NoLimiter}] :
        /\ call' = [call EXCEPT ![r] = new]
        /\ new.phase \notin {"new", "holding", "asking"} /\ new.gateway = call[r].gateway
  BY <1>1, CallEnds
<1>3. Types'
  BY <1>1, <1>2 DEF CountInv, Types, LimiterTypeOK, Zset
<1>4. StampInv' /\ OwnerInv' /\ MemoryInv'
  BY <1>1, <1>2, CallFrame
<1> QED
  BY <1>1, <1>3, <1>4, RedisFrame DEF CountInv

LEMMA SweepStep ==
  ASSUME CountInv, NEW g \in Gateways, Sweep(g)
  PROVE  CountInv'
<1>1. /\ UNCHANGED <<call, memory, zsets, counted, now>>
      /\ limiters' = limiters \/ limiters' = [limiters EXCEPT ![g] = NoLimiter]
  BY DEF Sweep
<1>2. Types'
  BY <1>1 DEF CountInv, Types, LimiterTypeOK, Zset
<1>3. StampInv'
  BY <1>1 DEF CountInv, StampInv, In, Clock
<1>4. OwnerInv'
  <2>1. \A h \in Gateways : limiters'[h] = limiters[h] \/ limiters'[h] = NoLimiter
    BY <1>1 DEF CountInv, Types, LimiterTypeOK
  <2> QED
    BY <1>1, <2>1 DEF CountInv, OwnerInv, Owned, In
<1>5. MemoryInv'
  BY <1>1 DEF CountInv, MemoryInv, LimiterInv, Ascending, Clock, Matches, Recent, By
<1> QED
  BY <1>1, <1>2, <1>3, <1>4, <1>5, RedisFrame DEF CountInv

LEMMA TickStep ==
  ASSUME CountInv, Tick
  PROVE  CountInv'
<1>1. /\ now' = now + 1 /\ now < MaxTime /\ UNCHANGED <<call, limiters, memory, zsets, counted>>
      /\ \A r \in Requests : ~Asking(r)
  BY DEF Tick
<1>2. /\ now \in Nat /\ MaxTime \in Nat /\ MaxSkew \in Nat /\ Lag \in Nat /\ Window \in Nat
      /\ \A h \in Gateways : Skew[h] \in Nat /\ Clock(h) = now + Skew[h] /\ Clock(h) \in Nat
      /\ \A r \in Requests : call[r].gateway \in Gateways /\ call[r].at \in Nat
      /\ \A c \in counted : c.at \in Nat /\ c.by \in Requests \cup {Redis}
  BY Numbers DEF CountInv, Clock
<1>3. \A h \in Gateways : Clock(h)' = Clock(h) + 1
  BY <1>1, <1>2 DEF Clock
<1>4. Types'
  <2>1. now' \in 0..MaxTime
    BY <1>1, <1>2
  <2>2. \A set : Zset(set) => Zset(set)'
    BY <1>1, <1>2 DEF Zset
  <2> QED
    BY <1>1, <2>1, <2>2 DEF CountInv, Types, LimiterTypeOK
<1>5. StampInv'
  <2>1. ASSUME NEW r \in Requests, In(r, "asking")
        PROVE  /\ call[r].at <= Clock(call[r].gateway)'
               /\ Clock(call[r].gateway)' <= call[r].at + Lag
    <3>1. /\ call[r].at <= Clock(call[r].gateway)
      BY <2>1 DEF CountInv, StampInv
    <3>2. ~(now + Skew[call[r].gateway] - call[r].at >= Lag)
      BY <1>1, <2>1 DEF Asking
    <3>3. Clock(call[r].gateway)' = Clock(call[r].gateway) + 1
      BY <1>1, <1>2 DEF Clock
    <3> QED
      BY <1>2, <3>1, <3>2, <3>3
  <2>2. ASSUME NEW c \in counted, c.by = Redis PROVE c.at <= now' + MaxSkew
    BY <1>1, <1>2, <2>2 DEF CountInv, StampInv
  <2>3. ASSUME NEW c \in counted, c.by # Redis PROVE c.at <= Clock(call[c.by].gateway)'
    <3>1. c.at <= Clock(call[c.by].gateway)
      BY <2>3 DEF CountInv, StampInv
    <3>2. Clock(call[c.by].gateway)' = Clock(call[c.by].gateway) + 1
      BY <1>1, <1>2, <2>3 DEF Clock
    <3> QED
      BY <1>2, <2>3, <3>1, <3>2
  <2>4. StampInv
    BY DEF CountInv
  <2> QED
    BY <1>1, <2>1, <2>2, <2>3, <2>4 DEF StampInv, In
<1>6. OwnerInv'
  BY <1>1 DEF CountInv, OwnerInv, Owned, In
<1>7. RedisInv'
  <2>1. By(Redis)' = By(Redis)
    BY <1>1 DEF By
  <2>2. \A c \in By(Redis) : c.at > now' + MaxSkew - Window => c.at > now + MaxSkew - Window
    BY <1>1, <1>2 DEF By
  <2> QED
    BY <1>1, <2>1, <2>2 DEF CountInv, RedisInv, Stored
<1>8. MemoryInv'
  <2> SUFFICES ASSUME NEW kl \in Requests PROVE LimiterInv(kl)'
    BY DEF MemoryInv
  <2> PICK clock : clock = Clock(call[kl].gateway)
    OBVIOUS
  <2>1. clock \in Nat /\ Clock(call[kl].gateway)' = clock + 1
    BY <1>1, <1>2 DEF Clock
  <2>2. LimiterInv(kl)
    BY DEF CountInv, MemoryInv
  <2>3. /\ \A i \in DOMAIN memory[kl].requests : memory[kl].requests[i].at \in Nat
        /\ \A i \in DOMAIN memory[kl].tokens : memory[kl].tokens[i].at \in Nat
    BY RecordsType DEF CountInv
  <2>4. /\ Ascending(memory[kl].requests, clock + 1)
        /\ Ascending(memory[kl].tokens, clock + 1)
    BY <2>1, <2>2, <2>3 DEF LimiterInv, Ascending
  <2>5. \A u \in (clock + 1 - Window)..(MaxTime + MaxSkew) : u \in (clock - Window)..(MaxTime + MaxSkew)
    BY <1>2, <2>1
  <2>6. \A u : Matches(kl, u)' = Matches(kl, u)
    BY <1>1 DEF Matches, Recent, By
  <2>7. /\ Ascending(memory[kl].requests, Clock(call[kl].gateway))'
        /\ Ascending(memory[kl].tokens, Clock(call[kl].gateway))'
    BY <1>1, <2>1, <2>4 DEF Ascending
  <2>8. \A u \in (clock + 1 - Window)..(MaxTime + MaxSkew) : Matches(kl, u)'
    BY <2>2, <2>5, <2>6 DEF LimiterInv
  <2>9. (\A u \in (Clock(call[kl].gateway) - Window)..(MaxTime + MaxSkew) : Matches(kl, u))'
    BY <1>2, <2>1, <2>8
  <2> QED
    BY <2>7, <2>9 DEF LimiterInv
<1> QED
  BY <1>4, <1>5, <1>6, <1>7, <1>8 DEF CountInv

(* What the script removes nobody will have to count again.                *)
LEMMA LiveKeeps ==
  ASSUME CountInv, NEW set, Zset(set), NEW t \in Int, t <= now + MaxSkew
  PROVE  /\ DOMAIN Live(set, t) \subseteq DOMAIN set.scores /\ IsFiniteSet(DOMAIN Live(set, t))
         /\ \A m \in DOMAIN Live(set, t) : /\ Live(set, t)[m] = set.scores[m]
                                           /\ set.scores[m] > t - Window
         /\ \A m : \A c \in counted :
              /\ c.at > now + MaxSkew - Window /\ c.at <= set.touched + MaxSkew
              /\ Stored(set.scores, c, m)
              => Stored(Live(set, t), c, m)
<1>1. /\ now \in Nat /\ MaxSkew \in Nat /\ Window \in Nat /\ Keep \in Nat /\ Window <= Keep
      /\ \A c \in counted : c.at \in Nat
  BY Numbers DEF CountInv
<1>2. set.touched \in 0..now /\ IsFiniteSet(DOMAIN set.scores)
  BY DEF Zset
<1>3. CASE now - set.touched >= Keep
  <2>1. DOMAIN Live(set, t) = {}
    BY <1>3 DEF Live
  <2>2. \A c \in counted : ~(c.at > now + MaxSkew - Window /\ c.at <= set.touched + MaxSkew)
    BY <1>1, <1>2, <1>3
  <2> QED
    BY <2>1, <2>2, FS_EmptySet
<1>4. CASE ~(now - set.touched >= Keep)
  <2> DEFINE kept == {m \in DOMAIN set.scores : set.scores[m] > t - Window}
  <2>1. Live(set, t) = [m \in kept |-> set.scores[m]]
    BY <1>4 DEF Live, Restrict
  <2>2. IsFiniteSet(kept)
    BY <1>2, FS_Subset
  <2>3. \A c \in counted : c.at > now + MaxSkew - Window => c.at > t - Window
    BY <1>1
  <2> QED
    BY <2>1, <2>2, <2>3 DEF Stored
<1> QED
  BY <1>3, <1>4

(* One sorted set over a script: pruned, or pruned and with a member more. *)
Scripted(set, t, m0, added, new) ==
  /\ added => new = [scores |-> Add(Live(set, t), m0, t), touched |-> now]
  /\ ~added => new = [scores |-> Live(set, t), touched |-> set.touched]

(* It has no members but those it had and the one added, and all those     *)
(* that somebody may still have to count.                                  *)
Retains(set, t, m0, added, new) ==
  /\ Zset(new)
  /\ \A m \in DOMAIN new.scores :
       \/ added /\ m = m0 /\ new.scores[m] = t
       \/ m \in DOMAIN set.scores /\ new.scores[m] = set.scores[m]
  /\ added => m0 \in DOMAIN new.scores /\ new.scores[m0] = t /\ new.touched = now
  /\ \A m : \A c \in counted :
       /\ c.at > now + MaxSkew - Window /\ c.at <= set.touched + MaxSkew
       /\ Stored(set.scores, c, m) /\ (m = m0 => c.at = t)
       => Stored(new.scores, c, m) /\ c.at <= new.touched + MaxSkew

(* What a script leaves in a sorted set.                                   *)
LEMMA ZsetStep ==
  ASSUME CountInv, NEW set, Zset(set), NEW t \in Int, t <= now + MaxSkew, NEW m0,
         NEW added \in BOOLEAN, NEW new, Scripted(set, t, m0, added, new)
  PROVE  Retains(set, t, m0, added, new)
<1> DEFINE live == Live(set, t)
<1>1. /\ DOMAIN live \subseteq DOMAIN set.scores /\ IsFiniteSet(DOMAIN live)
      /\ \A m \in DOMAIN live : live[m] = set.scores[m]
      /\ \A m : \A c \in counted :
           /\ c.at > now + MaxSkew - Window /\ c.at <= set.touched + MaxSkew
           /\ Stored(set.scores, c, m)
           => Stored(live, c, m)
  BY LiveKeeps
<1>2. now \in Nat /\ MaxSkew \in Nat /\ set.touched \in 0..now /\ \A c \in counted : c.at \in Nat
  BY Numbers DEF CountInv, Zset
<1> HIDE DEF live
<1>3. CASE added
  <2>1. /\ new = [scores |-> new.scores, touched |-> new.touched] /\ new.touched = now
        /\ new.scores = [x \in DOMAIN live \cup {m0} |-> IF x = m0 THEN t ELSE live[x]]
    BY <1>3 DEF live, Add, Scripted
  <2>2. IsFiniteSet(DOMAIN live \cup {m0})
    BY <1>1, FS_AddElement
  <2> QED
    BY <1>1, <1>2, <1>3, <2>1, <2>2 DEF Zset, Stored, Retains
<1>4. CASE ~added
  <2>1. new = [scores |-> live, touched |-> set.touched]
    BY <1>4 DEF live, Scripted
  <2> QED
    BY <1>1, <1>2, <1>4, <2>1 DEF Zset, Stored, Retains
<1> QED
  BY <1>3, <1>4

(* What the script finds leaves no room.                                   *)
Full(r) == Exceeds(Cardinality(DOMAIN Live(zsets.rpm, call[r].at)),
                   MemberSum(Live(zsets.tpm, call[r].at)), r)

(* What a script does to the sorted sets and to what is counted.           *)
LEMMA ScriptRuns ==
  ASSUME CountInv, NEW r \in Requests, RunScript(r)
  PROVE  LET t == call[r].at
             rpm == Live(zsets.rpm, t)
             tpm == Live(zsets.tpm, t)
             count == ~Full(r)
             more == count /\ Tokens[r] > 0 IN
         /\ zsets' = [rpm |-> zsets'.rpm, tpm |-> zsets'.tpm]
         /\ zsets'.rpm = IF count THEN [scores |-> Add(rpm, ReqMember(r), t), touched |-> now]
                         ELSE [scores |-> rpm, touched |-> zsets.rpm.touched]
         /\ zsets'.tpm = IF more THEN [scores |-> Add(tpm, TokMember(r), t), touched |-> now]
                         ELSE [scores |-> tpm, touched |-> zsets.tpm.touched]
         /\ counted' = IF count THEN counted \cup {[request |-> r, at |-> t, by |-> Redis]}
                       ELSE counted
<1>1. zsets = [rpm |-> [scores |-> zsets.rpm.scores, touched |-> zsets.rpm.touched],
               tpm |-> [scores |-> zsets.tpm.scores, touched |-> zsets.tpm.touched]]
  BY DEF CountInv, Types, Zset
<1> DEFINE rpm == Live(zsets.rpm, call[r].at)
           tpm == Live(zsets.tpm, call[r].at)
<1>2. CASE Full(r)
  <2>1. /\ zsets' = [rpm |-> [zsets.rpm EXCEPT !.scores = rpm],
                      tpm |-> [zsets.tpm EXCEPT !.scores = tpm]]
        /\ counted' = counted
    BY <1>2 DEF RunScript, Full
  <2> HIDE DEF rpm, tpm
  <2>2. \A a, b : [[scores |-> a, touched |-> b] EXCEPT !.scores = rpm] = [scores |-> rpm, touched |-> b]
    OBVIOUS
  <2>3. zsets' = [rpm |-> [scores |-> rpm, touched |-> zsets.rpm.touched],
                  tpm |-> [scores |-> tpm, touched |-> zsets.tpm.touched]]
    BY <1>1, <2>1
  <2> QED
    BY <1>2, <2>1, <2>3 DEF rpm, tpm
<1>3. CASE ~Full(r)
  BY <1>3 DEF RunScript, Full, Count
<1> QED
  BY <1>2, <1>3

LEMMA RunScriptStep ==
  ASSUME CountInv, NEW r \in Requests, RunScript(r)
  PROVE  CountInv'
<1> PICK t : t = call[r].at
  OBVIOUS
<1> PICK count \in BOOLEAN : count = ~Full(r)
  OBVIOUS
<1> PICK more \in BOOLEAN : more = (count /\ Tokens[r] > 0)
  OBVIOUS
<1> PICK y : y = [request |-> r, at |-> t, by |-> Redis]
  OBVIOUS
<1>1. /\ call[r].phase = "asking" /\ In(r, "asking") /\ UNCHANGED <<limiters, memory, now>>
      /\ Become(r, "passed") \/ Become(r, "throttled") \/ Unavailable(r)
  BY DEF RunScript, In
<1>2. /\ zsets' = [rpm |-> zsets'.rpm, tpm |-> zsets'.tpm]
      /\ zsets'.rpm = IF count
                      THEN [scores |-> Add(Live(zsets.rpm, t), ReqMember(r), t), touched |-> now]
                      ELSE [scores |-> Live(zsets.rpm, t), touched |-> zsets.rpm.touched]
      /\ zsets'.tpm = IF more
                      THEN [scores |-> Add(Live(zsets.tpm, t), TokMember(r), t), touched |-> now]
                      ELSE [scores |-> Live(zsets.tpm, t), touched |-> zsets.tpm.touched]
      /\ counted' = IF count THEN counted \cup {y} ELSE counted
  BY ScriptRuns
<1>3. /\ t \in Times /\ t \in Nat /\ t <= now + MaxSkew /\ now \in Nat /\ MaxSkew \in Nat
      /\ \A c \in counted : c.at \in Nat
  <2>1. t <= Clock(call[r].gateway) /\ Clock(call[r].gateway) <= now + MaxSkew
    BY <1>1, Numbers DEF CountInv, StampInv
  <2>2. Clock(call[r].gateway) \in Nat
    BY Numbers DEF CountInv
  <2> QED
    BY <2>1, <2>2, Numbers DEF CountInv
<1>4. Zset(zsets.rpm) /\ Zset(zsets.tpm)
  BY DEF CountInv, Types
<1>5. PICK new \in [phase : Phases, gateway : Gateways, at : Times, limiter : Requests \cup {NoLimiter}] :
        /\ call' = [call EXCEPT ![r] = new]
        /\ new.phase \notin {"new", "holding", "asking"} /\ new.gateway = call[r].gateway
  BY <1>1, CallEnds
<1> PICK R, T : R = zsets'.rpm /\ T = zsets'.tpm
  OBVIOUS
<1>6. /\ Zset(R)
      /\ \A m \in DOMAIN R.scores :
           \/ count /\ m = ReqMember(r) /\ R.scores[m] = t
           \/ m \in DOMAIN zsets.rpm.scores /\ R.scores[m] = zsets.rpm.scores[m]
      /\ count => /\ ReqMember(r) \in DOMAIN R.scores /\ R.scores[ReqMember(r)] = t
                  /\ R.touched = now
      /\ \A m : \A c \in counted :
           /\ c.at > now + MaxSkew - Window /\ c.at <= zsets.rpm.touched + MaxSkew
           /\ Stored(zsets.rpm.scores, c, m) /\ (m = ReqMember(r) => c.at = t)
           => Stored(R.scores, c, m) /\ c.at <= R.touched + MaxSkew
  <2>1. Scripted(zsets.rpm, t, ReqMember(r), count, R)
    BY <1>2 DEF Scripted
  <2>2. t \in Int
    BY <1>3
  <2>3. Retains(zsets.rpm, t, ReqMember(r), count, R)
    BY <1>3, <1>4, <2>1, <2>2, ZsetStep
  <2> QED
    BY <2>3 DEF Retains
<1>7. /\ Zset(T)
      /\ \A m \in DOMAIN T.scores :
           \/ more /\ m = TokMember(r) /\ T.scores[m] = t
           \/ m \in DOMAIN zsets.tpm.scores /\ T.scores[m] = zsets.tpm.scores[m]
      /\ more => /\ TokMember(r) \in DOMAIN T.scores /\ T.scores[TokMember(r)] = t
                 /\ T.touched = now
      /\ \A m : \A c \in counted :
           /\ c.at > now + MaxSkew - Window /\ c.at <= zsets.tpm.touched + MaxSkew
           /\ Stored(zsets.tpm.scores, c, m) /\ (m = TokMember(r) => c.at = t)
           => Stored(T.scores, c, m) /\ c.at <= T.touched + MaxSkew
  <2>1. Scripted(zsets.tpm, t, TokMember(r), more, T)
    BY <1>2 DEF Scripted
  <2>2. t \in Int
    BY <1>3
  <2>3. Retains(zsets.tpm, t, TokMember(r), more, T)
    BY <1>3, <1>4, <2>1, <2>2, ZsetStep
  <2> QED
    BY <2>3 DEF Retains
<1>8. Types'
  <2>1. LimiterTypeOK'
    <3>1. counted' \subseteq [request : Requests, at : Times, by : Requests \cup {Redis}]
      BY <1>2, <1>3 DEF CountInv, Types, LimiterTypeOK
    <3> QED
      BY <1>1, <1>5, <3>1 DEF CountInv, Types, LimiterTypeOK
  <2>2. IsFiniteSet(counted')
    BY <1>2, FS_AddElement DEF CountInv, Types
  <2>3. Zset(zsets.rpm)' /\ Zset(zsets.tpm)'
    BY <1>1, <1>6, <1>7 DEF Zset
  <2> QED
    BY <1>1, <1>2, <2>1, <2>2, <2>3 DEF CountInv, Types
<1>9. StampInv' /\ OwnerInv' /\ MemoryInv'
  BY <1>1, <1>2, <1>3, <1>5, CallFrame
<1>10. RedisInv'
  <2>1. RedisInv
    BY DEF CountInv
  <2>2. /\ Member(y) = ReqMember(r) /\ TokenMember(y) = TokMember(r)
        /\ y.by = Redis /\ y.at = t /\ y.request = r
    BY DEF Member, TokenMember, ReqMember, TokMember
  <2>3. \A c \in By(Redis) : /\ Member(c) = ReqMember(r) => c.at = t
                             /\ TokenMember(c) = TokMember(r) => c.at = t
    BY DEF Member, TokenMember, ReqMember, TokMember
  <2>4. \A c : c \in By(Redis)' <=> c \in By(Redis) \/ (count /\ c = y)
    BY <1>2, <2>2 DEF By
  <2>5. ASSUME NEW m \in DOMAIN R.scores
        PROVE  \E c \in By(Redis)' : m = Member(c) /\ R.scores[m] = c.at
    <3>1. CASE count /\ m = ReqMember(r) /\ R.scores[m] = t
      BY <2>2, <2>4, <3>1
    <3>2. CASE m \in DOMAIN zsets.rpm.scores /\ R.scores[m] = zsets.rpm.scores[m]
      BY <2>1, <2>4, <3>2 DEF RedisInv
    <3> QED
      BY <1>6, <3>1, <3>2
  <2>6. ASSUME NEW m \in DOMAIN T.scores
        PROVE  \E c \in By(Redis)' : m = TokenMember(c) /\ T.scores[m] = c.at
    <3>1. CASE more /\ m = TokMember(r) /\ T.scores[m] = t
      BY <2>2, <2>4, <3>1
    <3>2. CASE m \in DOMAIN zsets.tpm.scores /\ T.scores[m] = zsets.tpm.scores[m]
      BY <2>1, <2>4, <3>2 DEF RedisInv
    <3> QED
      BY <1>7, <3>1, <3>2
  <2>7. ASSUME NEW c \in By(Redis)', c.at > now + MaxSkew - Window
        PROVE  /\ Stored(R.scores, c, Member(c)) /\ c.at <= R.touched + MaxSkew
               /\ Tokens[c.request] > 0 =>
                    Stored(T.scores, c, TokenMember(c)) /\ c.at <= T.touched + MaxSkew
    <3>1. CASE count /\ c = y
      BY <1>3, <1>6, <1>7, <2>2, <3>1 DEF Stored
    <3>2. CASE c \in By(Redis)
      <4>1. c \in counted
        BY <3>2 DEF By
      <4>2. /\ Stored(zsets.rpm.scores, c, Member(c)) /\ c.at <= zsets.rpm.touched + MaxSkew
            /\ Tokens[c.request] > 0 =>
                 Stored(zsets.tpm.scores, c, TokenMember(c)) /\ c.at <= zsets.tpm.touched + MaxSkew
        BY <2>1, <2>7, <3>2 DEF RedisInv
      <4> QED
        BY <1>6, <1>7, <2>3, <2>7, <3>2, <4>1, <4>2
    <3> QED
      BY <2>4, <3>1, <3>2
  <2> QED
    BY <1>1, <2>5, <2>6, <2>7 DEF RedisInv
<1> QED
  BY <1>8, <1>9, <1>10 DEF CountInv

(* What CheckMemory works on: the KeyLimiter its request holds, at the     *)
(* instant of its gateway, holds what it counted within the minute.        *)
LEMMA HeldLimiter ==
  ASSUME CountInv, NEW r \in Requests, In(r, "holding")
  PROVE  LET kl == call[r].limiter
             t == Clock(call[r].gateway)
             kept == Pruned(kl, t)
             recent == Recent(kl, t - Window) IN
         /\ Owned(kl, call[r].gateway) /\ kl \in Requests /\ kl # Redis
         /\ t \in Times /\ t \in Nat /\ t - Window \in Int
         /\ kept.requests \in Seq([at : Times])
         /\ kept.tokens \in Seq([at : Times, n : Nat \ {0}])
         /\ Ascending(kept.requests, t) /\ Ascending(kept.tokens, t)
         /\ \A u \in (t - Window)..(MaxTime + MaxSkew) :
              /\ Cardinality(After(kept.requests, u)) = Cardinality(Recent(kl, u))
              /\ SumOf(Amounts(kept.tokens), After(kept.tokens, u)) = TokensOf(Recent(kl, u))
         /\ Len(kept.requests) = Cardinality(recent) /\ TokenSum(kept.tokens) = TokensOf(recent)
         /\ Len(kept.requests) <= Len(memory[kl].requests)
<1> DEFINE kl == call[r].limiter
           t == Clock(call[r].gateway)
           kept == Pruned(kl, t)
           cutoff == t - Window
<1>1. Owned(kl, call[r].gateway) /\ kl \in Requests /\ kl # Redis
  BY RateLimiterAssumption DEF CountInv, OwnerInv, Owned
<1>2. /\ t \in Times /\ t \in Nat /\ Window \in Nat /\ cutoff \in Int
      /\ MaxTime + MaxSkew \in Nat /\ t <= MaxTime + MaxSkew
  <2>1. /\ t \in Times /\ t \in Nat /\ Window \in Nat /\ {MaxTime, MaxSkew} \subseteq Nat
        /\ Times = 0..(MaxTime + MaxSkew)
    BY Numbers DEF CountInv
  <2> HIDE DEF t
  <2> QED
    BY <2>1
<1>3. LimiterInv(kl) /\ Clock(call[kl].gateway) = t
  BY <1>1 DEF CountInv, MemoryInv, Owned
<1> DEFINE Rs == [at : Times]
           Ts == [at : Times, n : Nat \ {0}]
<1>4. /\ Ascending(memory[kl].requests, t) /\ Ascending(memory[kl].tokens, t)
      /\ \A u \in cutoff..(MaxTime + MaxSkew) : Matches(kl, u)
  <2> HIDE DEF kl, t
  <2> QED
    BY <1>3 DEF LimiterInv
<1>5. kept.requests = Since(memory[kl].requests, cutoff) /\ kept.tokens = Since(memory[kl].tokens, cutoff)
  BY DEF Pruned
<1> HIDE DEF kl, t, kept, cutoff
<1>6. /\ memory[kl].requests \in Seq(Rs) /\ memory[kl].tokens \in Seq(Ts)
      /\ \A e \in Rs : e.at \in Int
      /\ \A e \in Ts : e.at \in Int /\ e.n \in Nat
  <2>1. /\ memory[kl].requests \in Seq(Rs) /\ memory[kl].tokens \in Seq(Ts)
        /\ \A e \in Rs : e.at \in Nat
        /\ \A e \in Ts : e.at \in Nat /\ e.n \in Nat
    BY <1>1, RecordsType DEF CountInv
  <2> HIDE DEF Rs, Ts
  <2> QED
    BY <2>1
<1> HIDE DEF Rs, Ts
<1> PICK s, q : s = memory[kl].requests /\ q = memory[kl].tokens
  OBVIOUS
<1> PICK ks, kq : ks = kept.requests /\ kq = kept.tokens
  OBVIOUS
<1>7. s \in Seq(Rs) /\ q \in Seq(Ts) /\ Ascending(s, t) /\ Ascending(q, t)
       /\ ks = Since(s, cutoff) /\ kq = Since(q, cutoff) /\ t \in Int
  BY <1>2, <1>4, <1>5, <1>6
<1>8. ks \in Seq(Rs) /\ kq \in Seq(Ts)
  BY <1>2, <1>6, <1>7, SinceSlices
<1>9. ASSUME NEW u \in cutoff..(MaxTime + MaxSkew)
      PROVE  /\ Ascending(ks, t) /\ After(ks, cutoff) = DOMAIN ks
             /\ Cardinality(After(ks, u)) = Cardinality(Recent(kl, u))
  <2>1. u \in Int /\ u >= cutoff
    BY <1>2
  <2>2. /\ Ascending(ks, t) /\ After(ks, cutoff) = DOMAIN ks
        /\ Cardinality(After(ks, u)) = Cardinality(After(s, u))
    BY <1>2, <1>6, <1>7, <2>1, SinceKeeps
  <2> QED
    BY <1>4, <2>2 DEF Matches
<1>10. ASSUME NEW u \in cutoff..(MaxTime + MaxSkew)
      PROVE  /\ Ascending(kq, t) /\ After(kq, cutoff) = DOMAIN kq
             /\ SumOf(Amounts(kq), After(kq, u)) = TokensOf(Recent(kl, u))
  <2>1. u \in Int /\ u >= cutoff
    BY <1>2
  <2>2. \A e \in Ts : e.at \in Int
    BY <1>6
  <2>3. /\ Ascending(kq, t) /\ After(kq, cutoff) = DOMAIN kq
        /\ SumOf(Amounts(kq), After(kq, u)) = SumOf(Amounts(q), After(q, u))
    BY <1>2, <1>6, <1>7, <2>1, <2>2, SinceKeeps
  <2> QED
    BY <1>4, <2>3 DEF Matches
<1>11. cutoff \in cutoff..(MaxTime + MaxSkew)
  BY <1>2 DEF cutoff
<1>12. Len(ks) = Cardinality(Recent(kl, cutoff))
  <2>1. Len(ks) \in Nat /\ DOMAIN ks = 1..Len(ks)
    BY <1>8
  <2>2. Cardinality(1..Len(ks)) = Len(ks)
    BY <2>1, FS_Interval
  <2> QED
    BY <1>9, <1>11, <2>1, <2>2
<1>13. TokenSum(kq) = TokensOf(Recent(kl, cutoff))
  BY <1>10, <1>11 DEF TokenSum, Amounts
<1>14. Len(ks) <= Len(s)
  <2>1. s \in Seq(Rs) /\ (\A x \in Rs : x.at \in Int) /\ cutoff \in Int /\ Ascending(s, t)
    BY <1>2, <1>6, <1>7
  <2>2. \E gone \in Nat :
          /\ Len(s) = gone + Len(Since(s, cutoff))
          /\ \A i \in 1..gone : s[i].at <= cutoff
          /\ \A i \in 1..Len(Since(s, cutoff)) :
               Since(s, cutoff)[i] = s[gone + i] /\ Since(s, cutoff)[i].at > cutoff
    BY ONLY <2>1, SinceSlices
  <2>3. PICK gone \in Nat : Len(s) = gone + Len(ks)
    BY <1>7, <2>2
  <2>4. Len(ks) \in Nat
    BY <1>8
  <2> QED
    BY <2>3, <2>4
<1> QED
  BY <1>1, <1>2, <1>8, <1>9, <1>10, <1>11, <1>12, <1>13, <1>14 DEF kl, t, kept, cutoff, Rs, Ts

(* What a KeyLimiter has counted, once its request is counted as well.     *)
LEMMA RecentMore ==
  ASSUME CountInv, NEW r \in Requests, NEW kl \in Requests, NEW t \in Nat, NEW u,
         In(r, "holding"), kl # Redis,
         counted' = counted \cup {[request |-> r, at |-> t, by |-> kl]}
  PROVE  /\ Cardinality(Recent(kl, u)) \in Nat /\ TokensOf(Recent(kl, u)) \in Nat
         /\ Cardinality(Recent(kl, u)') = Cardinality(Recent(kl, u)) + IF t > u THEN 1 ELSE 0
         /\ TokensOf(Recent(kl, u)') = TokensOf(Recent(kl, u)) + IF t > u THEN Tokens[r] ELSE 0
<1> DEFINE y == [request |-> r, at |-> t, by |-> kl]
           S == Recent(kl, u)
<1>1. y \notin counted
  BY DEF CountInv, StampInv, In
<1>2. S \subseteq counted /\ IsFiniteSet(counted)
  BY DEF Recent, By, CountInv, Types
<1>3. IsFiniteSet(S) /\ Cardinality(S) \in Nat
  BY <1>2, FS_Subset, FS_CardinalityType
<1>4. \A x \in S : Tokens[x.request] \in Nat
  BY <1>2, Numbers DEF CountInv
<1>5. Recent(kl, u)' = IF t > u THEN S \cup {y} ELSE S
  BY DEF Recent, By
<1>6. y \notin S /\ y.request = r /\ Tokens[r] \in Nat
  BY <1>1, <1>2, Numbers DEF CountInv
<1> HIDE DEF S, y
<1>7. Cardinality(S \cup {y}) = Cardinality(S) + 1
  BY <1>3, <1>6, FS_AddElement
<1>8. TokensOf(S) \in Nat /\ TokensOf(S \cup {y}) = TokensOf(S) + Tokens[r]
  BY <1>3, <1>4, <1>6, TokensOfMore
<1> QED
  BY <1>3, <1>5, <1>7, <1>8 DEF S

LEMMA CheckMemoryStep ==
  ASSUME CountInv, NEW r \in Requests, CheckMemory(r)
  PROVE  CountInv'
<1> PICK kl, t : kl = call[r].limiter /\ t = Clock(call[r].gateway)
  OBVIOUS
<1> PICK kept : kept = Pruned(kl, t)
  OBVIOUS
<1> PICK room \in BOOLEAN : room <=> ~Exceeds(Len(kept.requests), TokenSum(kept.tokens), r)
  OBVIOUS
<1> PICK new : new = IF room THEN Recorded(kept, r, t) ELSE kept
  OBVIOUS
<1> DEFINE y == [request |-> r, at |-> t, by |-> kl]
           Rs == [at : Times]
           Ts == [at : Times, n : Nat \ {0}]
<1>1. /\ In(r, "holding")
      /\ memory' = [memory EXCEPT ![kl] = new]
      /\ call' = [call EXCEPT ![r].phase = IF room THEN "passed" ELSE "throttled", ![r].at = t]
      /\ counted' = IF room THEN counted \cup {y} ELSE counted
      /\ UNCHANGED <<limiters, zsets, now>>
  BY DEF CheckMemory, Count
<1>2. /\ Owned(kl, call[r].gateway) /\ kl \in Requests /\ kl # Redis
      /\ t \in Times /\ t \in Nat
      /\ kept.requests \in Seq(Rs) /\ kept.tokens \in Seq(Ts)
      /\ Ascending(kept.requests, t) /\ Ascending(kept.tokens, t)
      /\ \A u \in (t - Window)..(MaxTime + MaxSkew) :
           /\ Cardinality(After(kept.requests, u)) = Cardinality(Recent(kl, u))
           /\ SumOf(Amounts(kept.tokens), After(kept.tokens, u)) = TokensOf(Recent(kl, u))
      /\ Len(kept.requests) <= Len(memory[kl].requests)
  BY <1>1, HeldLimiter
<1>3. /\ Tokens[r] \in Nat /\ t - Window \in Int /\ Times \subseteq Nat /\ Rpm \in Nat
      /\ \A c \in counted : c.request \in Requests
  BY <1>2, Numbers DEF CountInv
<1>4. kept = [requests |-> kept.requests, tokens |-> kept.tokens]
  BY DEF Pruned
<1>5. /\ new = [requests |-> new.requests, tokens |-> new.tokens]
      /\ new.requests = IF room THEN Append(kept.requests, [at |-> t]) ELSE kept.requests
      /\ new.tokens = IF room /\ Tokens[r] > 0 THEN Append(kept.tokens, [at |-> t, n |-> Tokens[r]])
                      ELSE kept.tokens
  BY <1>4 DEF Recorded
<1>6. [at |-> t] \in Rs /\ (Tokens[r] > 0 => [at |-> t, n |-> Tokens[r]] \in Ts)
  BY <1>2, <1>3
<1>7. /\ new.requests \in Seq(Rs) /\ new.tokens \in Seq(Ts)
      /\ Rpm > 0 => Len(new.requests) <= Rpm
  <2>1. new.requests \in Seq(Rs) /\ new.tokens \in Seq(Ts)
    <3> HIDE DEF Rs, Ts
    <3>0. Append(kept.requests, [at |-> t]) \in Seq(Rs)
      BY <1>2, <1>6
    <3>1. new.requests \in Seq(Rs)
      BY <1>2, <1>5, <3>0
    <3>2. CASE room /\ Tokens[r] > 0
      <4>1. Append(kept.tokens, [at |-> t, n |-> Tokens[r]]) \in Seq(Ts)
        BY <1>2, <1>6, <3>2
      <4> QED
        BY <1>5, <3>1, <3>2, <4>1
    <3>3. CASE ~(room /\ Tokens[r] > 0)
      BY <1>2, <1>5, <3>1, <3>3
    <3> QED
      BY <3>2, <3>3
  <2>2. Len(kept.requests) \in Nat
    BY <1>2
  <2>3. CASE room
    <3>1. Len(new.requests) = Len(kept.requests) + 1
      <4> HIDE DEF Rs, Ts
      <4>1. new.requests = Append(kept.requests, [at |-> t])
        BY <1>5, <2>3
      <4>2. kept.requests \in Seq(Rs)
        BY <1>2
      <4> QED
        BY ONLY <4>1, <4>2
    <3>2. Rpm > 0 => ~(Len(kept.requests) >= Rpm)
      BY <2>3 DEF Exceeds
    <3> QED
      BY <1>3, <2>1, <2>2, <3>1, <3>2
  <2>4. CASE ~room
    <3>1. Rpm > 0 => Len(memory[kl].requests) <= Rpm
      BY <1>2 DEF CountInv, Types, LimiterTypeOK
    <3>2. memory[kl].requests \in Seq(Rs)
      BY <1>2, RecordsType DEF CountInv
    <3>3. Len(memory[kl].requests) \in Nat
      BY <3>2
    <3> QED
      BY <1>2, <1>3, <1>5, <2>1, <2>2, <2>4, <3>1, <3>3
  <2> QED
    BY <2>3, <2>4
<1>8. /\ memory'[kl] = new /\ \A q \in Requests : q # kl => memory'[q] = memory[q]
      /\ memory' \in [Requests -> [requests : Seq(Rs), tokens : Seq(Ts)]]
  <2>1. memory \in [Requests -> [requests : Seq(Rs), tokens : Seq(Ts)]]
    BY DEF CountInv, Types
  <2>2. new \in [requests : Seq(Rs), tokens : Seq(Ts)]
    BY <1>5, <1>7
  <2> QED
    BY <1>1, <1>2, <2>1, <2>2
<1>9. /\ call' \in [Requests -> [phase : Phases, gateway : Gateways, at : Times,
                                 limiter : Requests \cup {NoLimiter}]]
      /\ \A q \in Requests : q # r => call'[q] = call[q]
      /\ call'[r].phase = IF room THEN "passed" ELSE "throttled"
      /\ \A q \in Requests : call'[q].gateway = call[q].gateway /\ call'[q].limiter = call[q].limiter
  <2>1. call \in [Requests -> [phase : Phases, gateway : Gateways, at : Times,
                               limiter : Requests \cup {NoLimiter}]]
    BY DEF CountInv, Types, LimiterTypeOK
  <2> PICK p : p = IF room THEN "passed" ELSE "throttled"
    OBVIOUS
  <2>2. p \in Phases
    BY DEF Phases
  <2>3. call' = [call EXCEPT ![r].phase = p, ![r].at = t]
    BY <1>1
  <2>4. \A q \in Requests : q # r => call'[q] = call[q]
    BY <2>1, <2>3
  <2>5. /\ call'[r].phase = p
        /\ call'[r].gateway = call[r].gateway /\ call'[r].limiter = call[r].limiter
    BY <2>1, <2>3
  <2>6. call' \in [Requests -> [phase : Phases, gateway : Gateways, at : Times,
                               limiter : Requests \cup {NoLimiter}]]
    BY ONLY <1>2, <2>1, <2>2, <2>3
  <2> QED
    BY <2>4, <2>5, <2>6
<1>10. Types'
  <2>1. counted' \subseteq [request : Requests, at : Times, by : Requests \cup {Redis}]
    BY <1>1, <1>2 DEF CountInv, Types, LimiterTypeOK
  <2>2. IsFiniteSet(counted')
    BY <1>1, FS_AddElement DEF CountInv, Types
  <2>3. \A q \in Requests : /\ memory'[q].requests \in Seq(Rs) /\ memory'[q].tokens \in Seq(Ts)
                            /\ Rpm > 0 => Len(memory'[q].requests) <= Rpm
    BY <1>7, <1>8 DEF CountInv, Types, LimiterTypeOK
  <2>4. UNCHANGED <<limiters, zsets, now>>
    BY <1>1
  <2> QED
    BY <1>8, <1>9, <2>1, <2>2, <2>3, <2>4 DEF CountInv, Types, LimiterTypeOK, Zset
<1>11. \A q, g : Owned(q, g) => Owned(q, g)'
  BY <1>9 DEF Owned, Handled
<1>12. \A g \in Gateways : Clock(g)' = Clock(g)
  BY <1>1 DEF Clock
<1>13. StampInv'
  <2>1. \A q \in Requests : In(q, "asking")' => In(q, "asking") /\ call'[q] = call[q]
    BY <1>9 DEF In
  <2>2. ASSUME NEW c \in counted, c.by # Redis
        PROVE  call'[c.request].phase = "passed" /\ (c.at <= Clock(call[c.by].gateway))'
    <3>1. call[c.request].phase = "passed" /\ c.at <= Clock(call[c.by].gateway)
      BY <2>2 DEF CountInv, StampInv
    <3>2. c.request # r
      BY <1>1, <3>1 DEF In
    <3>3. Owned(c.by, call[c.by].gateway)
      BY <2>2 DEF CountInv, OwnerInv
    <3> QED
      BY <1>1, <1>3, <1>9, <3>1, <3>2, <3>3 DEF Owned, Clock
  <2>3. ASSUME NEW c \in counted, c.by = Redis
        PROVE  call'[c.request].phase \notin {"new", "asking"} /\ c.at <= now' + MaxSkew
    BY <1>1, <1>3, <1>9, <2>3 DEF CountInv, StampInv
  <2>4. room => /\ call'[r].phase = "passed" /\ y.by # Redis /\ y.request = r
                /\ (y.at <= Clock(call[y.by].gateway))'
    <3>1. t = Clock(call[kl].gateway)
      BY <1>2 DEF Owned
    <3>2. y.by = kl /\ y.at = t /\ y.request = r
      OBVIOUS
    <3>3. Clock(call[kl].gateway)' = t
      BY <1>1, <1>2, <1>9, <3>1 DEF Clock
    <3>4. t <= t
      BY <1>2
    <3>5. (y.at <= Clock(call[y.by].gateway))'
      BY <3>2, <3>3, <3>4
    <3> QED
      BY <1>2, <1>9, <3>2, <3>5
  <2>5. \A q \in Requests : In(q, "asking")' =>
          (call[q].at <= Clock(call[q].gateway) /\ Clock(call[q].gateway) <= call[q].at + Lag)'
    BY <1>1, <2>1 DEF CountInv, StampInv, Clock
  <2> QED
    BY <1>1, <2>2, <2>3, <2>4, <2>5 DEF StampInv
<1>14. OwnerInv'
  <2>1. \A q \in Requests : In(q, "holding")' => Owned(call[q].limiter, call[q].gateway)'
    BY <1>9, <1>11 DEF CountInv, OwnerInv, In
  <2>2. \A c \in counted' : c.by # Redis => Owned(c.by, call[c.by].gateway)'
    <3>1. Owned(kl, call[kl].gateway)
      BY <1>2 DEF Owned
    <3>2. ASSUME NEW c \in counted', c.by # Redis PROVE Owned(c.by, call[c.by].gateway)
      BY <1>1, <3>1, <3>2 DEF CountInv, OwnerInv
    <3> QED
      BY <1>9, <1>11, <3>2 DEF Owned
  <2>3. \A q \in Requests : call'[q].phase \notin Handled => memory'[q] = EmptyLimiter
    <3>1. call'[r].phase \in Handled
      BY <1>9 DEF Handled
    <3>2. call[kl].phase \in Handled
      BY <1>2 DEF Owned
    <3>3. \A q \in Requests : call'[q].phase \notin Handled => q # kl /\ call[q].phase \notin Handled
      BY <1>9, <3>1, <3>2
    <3> QED
      BY <1>8, <3>3 DEF CountInv, OwnerInv
  <2> QED
    BY <1>1, <1>11, <2>1, <2>2, <2>3 DEF CountInv, OwnerInv
<1>15. RedisInv'
  <2>1. By(Redis)' = By(Redis)
    BY <1>1, <1>2 DEF By
  <2>2. UNCHANGED <<zsets, now>>
    BY <1>1
  <2> QED
    BY <2>1, <2>2 DEF CountInv, RedisInv, Stored
<1>16. ASSUME NEW q \in Requests, q # kl PROVE LimiterInv(q)'
  <2>1. \A u : Recent(q, u)' = Recent(q, u)
    BY <1>1, <1>16 DEF Recent, By
  <2>2. memory'[q] = memory[q] /\ Clock(call[q].gateway)' = Clock(call[q].gateway)
    BY <1>1, <1>8, <1>9, <1>16 DEF Clock
  <2>3. \A u : Matches(q, u)' = Matches(q, u)
    BY <2>1, <2>2 DEF Matches
  <2>4. LimiterInv(q)
    BY DEF CountInv, MemoryInv
  <2> QED
    BY <2>2, <2>3, <2>4 DEF LimiterInv, Ascending
<1>17. LimiterInv(kl)'
  <2>1. Clock(call[kl].gateway)' = t
    BY <1>1, <1>2, <1>9 DEF Owned, Clock
  <2>2. \A u : u \in (t - Window)..(MaxTime + MaxSkew) => u \in Int
    BY <1>3
  <2>3. t \in Int /\ \A e \in Rs : e.at \in Int
    <3> HIDE DEF Rs
    <3>1. \A e \in Rs : e.at \in Nat
      BY <1>2, RecordsType DEF CountInv, Rs
    <3> QED
      BY <1>2, <3>1
  <2>4. \A e \in Ts : e.at \in Int /\ e.n \in Nat
    <3> HIDE DEF Ts
    <3>1. \A e \in Ts : e.at \in Nat /\ e.n \in Nat
      BY <1>2, RecordsType DEF CountInv, Ts
    <3> QED
      BY <1>2, <3>1
  <2> HIDE DEF Rs, Ts
  <2>5. Ascending(new.requests, t) /\ Ascending(new.tokens, t)
    <3>1. Ascending(Append(kept.requests, [at |-> t]), t)
      BY <1>2, <1>6, <2>3, OneRecordMore
    <3>2. Tokens[r] > 0 => Ascending(Append(kept.tokens, [at |-> t, n |-> Tokens[r]]), t)
      <4>1. SUFFICES ASSUME Tokens[r] > 0
                     PROVE  Ascending(Append(kept.tokens, [at |-> t, n |-> Tokens[r]]), t)
        OBVIOUS
      <4>2. [at |-> t, n |-> Tokens[r]] \in Ts /\ [at |-> t, n |-> Tokens[r]].at = t
        BY <1>6, <4>1
      <4> QED
        BY <1>2, <2>3, <2>4, <4>2, OneRecordMore
    <3> QED
      BY <1>2, <1>5, <3>1, <3>2
  <2>6. ASSUME NEW u \in (t - Window)..(MaxTime + MaxSkew)
        PROVE  /\ Cardinality(After(new.requests, u)) = Cardinality(Recent(kl, u)')
               /\ SumOf(Amounts(new.tokens), After(new.tokens, u)) = TokensOf(Recent(kl, u)')
    <3>1. /\ Cardinality(After(kept.requests, u)) = Cardinality(Recent(kl, u))
          /\ SumOf(Amounts(kept.tokens), After(kept.tokens, u)) = TokensOf(Recent(kl, u))
      BY <1>2
    <3>2. CASE room
      <4>1. /\ Cardinality(Recent(kl, u)') = Cardinality(Recent(kl, u)) + IF t > u THEN 1 ELSE 0
            /\ TokensOf(Recent(kl, u)') = TokensOf(Recent(kl, u)) + IF t > u THEN Tokens[r] ELSE 0
            /\ TokensOf(Recent(kl, u)) \in Nat
        BY <1>1, <1>2, <3>2, RecentMore
      <4>2. Cardinality(After(Append(kept.requests, [at |-> t]), u)) =
              Cardinality(After(kept.requests, u)) + IF t > u THEN 1 ELSE 0
        BY <1>2, <1>6, <2>2, <2>3, OneRecordMore
      <4>3. CASE Tokens[r] > 0
        <5> PICK e : e = [at |-> t, n |-> Tokens[r]]
          OBVIOUS
        <5>1. e \in Ts /\ e.at = t /\ e.n = Tokens[r]
          BY <1>6, <4>3
        <5> PICK kq : kq = kept.tokens
          OBVIOUS
        <5>2. /\ kq \in Seq(Ts) /\ Ascending(kq, t) /\ u \in Int /\ t \in Int
              /\ e \in Ts /\ e.at = t
              /\ \A x \in Ts : x.at \in Int
              /\ \A x \in Ts : x.n \in Nat
          BY <1>2, <2>2, <2>3, <2>4, <5>1
        <5>3. SumOf(Amounts(Append(kq, e)), After(Append(kq, e), u)) =
                SumOf(Amounts(kq), After(kq, u)) + IF e.at > u THEN e.n ELSE 0
          BY ONLY <5>2, OneRecordMore, ZenonT(60)
        <5>4. new.tokens = Append(kq, e) /\ new.requests = Append(kept.requests, [at |-> t])
          BY <1>5, <3>2, <4>3
        <5> QED
          BY <3>1, <4>1, <4>2, <5>1, <5>3, <5>4
      <4>4. CASE Tokens[r] = 0
        <5>1. new.tokens = kept.tokens /\ new.requests = Append(kept.requests, [at |-> t])
          <6>1. ~(room /\ Tokens[r] > 0)
            BY <4>4
          <6> QED
            BY ONLY <1>5, <3>2, <6>1
        <5>2. TokensOf(Recent(kl, u)') = TokensOf(Recent(kl, u))
          BY <4>1, <4>4
        <5> QED
          BY <3>1, <4>1, <4>2, <5>1, <5>2
      <4> QED
        BY <1>3, <4>3, <4>4
    <3>3. CASE ~room
      <4>1. Recent(kl, u)' = Recent(kl, u)
        BY <1>1, <3>3 DEF Recent, By
      <4> QED
        BY <1>5, <3>1, <3>3, <4>1
    <3> QED
      BY <3>2, <3>3
  <2>7. memory'[kl].requests = new.requests /\ memory'[kl].tokens = new.tokens
    BY <1>8
  <2> QED
    BY <2>1, <2>5, <2>6, <2>7 DEF LimiterInv, Matches
<1> QED
  BY <1>10, <1>13, <1>14, <1>15, <1>16, <1>17 DEF CountInv, MemoryInv

(* No step breaks the invariant.                                           *)
LEMMA CountInvNext == CountInv /\ [LimiterNext]_limiterVars => CountInv'
<1> SUFFICES ASSUME CountInv, [LimiterNext]_limiterVars PROVE CountInv'
  OBVIOUS
<1>1. ASSUME NEW r \in Requests, NEW g \in Gateways, GetLimiter(r, g) PROVE CountInv'
  BY <1>1, GetLimiterStep
<1>2. ASSUME NEW r \in Requests, NEW g \in Gateways, AskRedis(r, g) PROVE CountInv'
  BY <1>2, AskRedisStep
<1>3. ASSUME NEW r \in Requests, CheckMemory(r) PROVE CountInv'
  BY <1>3, CheckMemoryStep
<1>4. ASSUME NEW r \in Requests, RunScript(r) PROVE CountInv'
  BY <1>4, RunScriptStep
<1>5. ASSUME NEW r \in Requests, RedisFails(r) PROVE CountInv'
  BY <1>5, RedisFailsStep
<1>6. ASSUME NEW g \in Gateways, Sweep(g) PROVE CountInv'
  BY <1>6, SweepStep
<1>7. CASE Tick
  BY <1>7, TickStep
<1>8. CASE UNCHANGED limiterVars
  <2>1. Types' /\ StampInv' /\ OwnerInv'
    BY <1>8 DEF limiterVars, CountInv, Types, LimiterTypeOK, Zset, StampInv, OwnerInv, Owned,
               In, Clock
  <2>2. RedisInv'
    BY <1>8, RedisFrame DEF limiterVars
  <2>3. \A kl \in Requests : LimiterInv(kl)' = LimiterInv(kl)
    BY <1>8 DEF limiterVars, LimiterInv, Ascending, Matches, Recent, By, Clock
  <2> QED
    BY <2>1, <2>2, <2>3 DEF CountInv, MemoryInv
<1> QED
  BY <1>1, <1>2, <1>3, <1>4, <1>5, <1>6, <1>7, <1>8 DEF LimiterNext

(* The sorted sets and the KeyLimiters hold what was counted and may still *)
(* have to be counted, for any requests, gateways, clocks and limits.      *)
THEOREM LimiterCounts == LimiterSpec => []CountInv
BY InitCountInv, CountInvNext, PTL DEF LimiterSpec

(* The type invariant.                                                     *)
THEOREM LimiterTypes == LimiterSpec => []LimiterTypeOK
<1>1. CountInv => LimiterTypeOK
  BY DEF CountInv, Types
<1> QED
  BY <1>1, LimiterCounts, PTL

-----------------------------------------------------------------------------
(* What a limiter lets through *)

(* What was counted is finite, and so are its tokens.                      *)
LEMMA TokensType ==
  ASSUME CountInv, NEW set \in SUBSET counted
  PROVE  IsFiniteSet(set) /\ Cardinality(set) \in Nat /\ TokensOf(set) \in Nat
<1>1. IsFiniteSet(set)
  BY FS_Subset DEF CountInv, Types
<1> DEFINE f == [x \in set |-> Tokens[x.request]]
<1>2. \A x \in set : f[x] \in Nat
  BY Numbers DEF CountInv
<1>3. SumOf(f, set) \in Nat
  <2> HIDE DEF f
  <2> QED
    BY <1>1, <1>2, SumType
<1> QED
  BY <1>1, <1>3, FS_CardinalityType DEF TokensOf

(* Fewer requests ask for fewer tokens.                                    *)
LEMMA TokensMono ==
  ASSUME CountInv, NEW set \in SUBSET counted, NEW part \in SUBSET set
  PROVE  Cardinality(part) <= Cardinality(set) /\ TokensOf(part) <= TokensOf(set)
<1>1. IsFiniteSet(set)
  BY TokensType
<1> DEFINE f == [x \in set |-> Tokens[x.request]]
           g == [x \in part |-> Tokens[x.request]]
<1>2. /\ \A x \in set : f[x] \in Nat
      /\ \A x \in part : g[x] \in Nat /\ g[x] <= f[x]
  <2>1. \A x \in set : Tokens[x.request] \in Nat
    BY Numbers DEF CountInv
  <2> QED
    BY <2>1
<1>3. SumOf(g, part) <= SumOf(f, set)
  <2> HIDE DEF f, g
  <2> QED
    BY <1>1, <1>2, SumMono
<1> QED
  BY <1>1, <1>3, FS_Subset DEF TokensOf

(* The sum over the members of a sorted set.                               *)
LEMMA MembersAreCounted ==
  ASSUME CountInv, NEW t \in Int, t <= now + MaxSkew
  PROVE  LET rpm == Live(zsets.rpm, t)
             tpm == Live(zsets.tpm, t) IN
         /\ IsFiniteSet(DOMAIN rpm) /\ IsFiniteSet(DOMAIN tpm)
         /\ \A m \in DOMAIN rpm : \E c \in By(Redis) : m = Member(c) /\ c.at > t - Window
         /\ \A m \in DOMAIN tpm : \E c \in By(Redis) : m = TokenMember(c) /\ c.at > t - Window
         /\ \A c \in By(Redis) : c.at > now + MaxSkew - Window =>
              /\ Member(c) \in DOMAIN rpm
              /\ Tokens[c.request] > 0 => TokenMember(c) \in DOMAIN tpm
<1> DEFINE rpm == Live(zsets.rpm, t)
           tpm == Live(zsets.tpm, t)
<1>1. Zset(zsets.rpm) /\ Zset(zsets.tpm) /\ RedisInv
  BY DEF CountInv, Types
<1>2. /\ DOMAIN rpm \subseteq DOMAIN zsets.rpm.scores /\ IsFiniteSet(DOMAIN rpm)
      /\ \A m \in DOMAIN rpm : zsets.rpm.scores[m] > t - Window
      /\ \A m : \A c \in counted :
           /\ c.at > now + MaxSkew - Window /\ c.at <= zsets.rpm.touched + MaxSkew
           /\ Stored(zsets.rpm.scores, c, m)
           => Stored(rpm, c, m)
  BY <1>1, LiveKeeps
<1>3. /\ DOMAIN tpm \subseteq DOMAIN zsets.tpm.scores /\ IsFiniteSet(DOMAIN tpm)
      /\ \A m \in DOMAIN tpm : zsets.tpm.scores[m] > t - Window
      /\ \A m : \A c \in counted :
           /\ c.at > now + MaxSkew - Window /\ c.at <= zsets.tpm.touched + MaxSkew
           /\ Stored(zsets.tpm.scores, c, m)
           => Stored(tpm, c, m)
  BY <1>1, LiveKeeps
<1> HIDE DEF rpm, tpm
<1>4. \A m \in DOMAIN rpm : \E c \in By(Redis) : m = Member(c) /\ c.at > t - Window
  BY <1>1, <1>2 DEF RedisInv
<1>5. \A m \in DOMAIN tpm : \E c \in By(Redis) : m = TokenMember(c) /\ c.at > t - Window
  BY <1>1, <1>3 DEF RedisInv
<1>6. ASSUME NEW c \in By(Redis), c.at > now + MaxSkew - Window
      PROVE  /\ Member(c) \in DOMAIN rpm
             /\ Tokens[c.request] > 0 => TokenMember(c) \in DOMAIN tpm
  <2>1. c \in counted
    BY DEF By
  <2>2. /\ Stored(zsets.rpm.scores, c, Member(c)) /\ c.at <= zsets.rpm.touched + MaxSkew
        /\ Tokens[c.request] > 0 =>
             Stored(zsets.tpm.scores, c, TokenMember(c)) /\ c.at <= zsets.tpm.touched + MaxSkew
    BY <1>1, <1>6 DEF RedisInv
  <2> QED
    BY <1>2, <1>3, <1>6, <2>1, <2>2 DEF Stored
<1> QED
  BY <1>2, <1>3, <1>4, <1>5, <1>6 DEF rpm, tpm

(* What a script finds is no less than what Redis counted since the        *)
(* instant every clock has reached.                                        *)
LEMMA ScriptFindsTheRecent ==
  ASSUME CountInv, StampsDiffer, NEW t \in Int, t <= now + MaxSkew,
         NEW Z \in SUBSET By(Redis), \A c \in Z : c.at > now + MaxSkew - Window
  PROVE  /\ Cardinality(Z) <= Cardinality(DOMAIN Live(zsets.rpm, t))
         /\ Cardinality(DOMAIN Live(zsets.rpm, t)) \in Nat
         /\ TokensOf(Z) <= MemberSum(Live(zsets.tpm, t))
         /\ MemberSum(Live(zsets.tpm, t)) \in Nat
<1> PICK R, T : R = DOMAIN Live(zsets.rpm, t) /\ T = DOMAIN Live(zsets.tpm, t)
  OBVIOUS
<1>1. /\ IsFiniteSet(R) /\ IsFiniteSet(T)
      /\ \A m \in T : \E c \in By(Redis) : m = TokenMember(c)
      /\ \A c \in Z : /\ Member(c) \in R
                      /\ Tokens[c.request] > 0 => TokenMember(c) \in T
  BY MembersAreCounted
<1>2. \A c \in By(Redis) : c.request \in Requests /\ Tokens[c.request] \in Nat
  BY Numbers DEF CountInv, By
<1>3. ASSUME NEW c \in Z, NEW d \in Z, Member(c) = Member(d) PROVE c = d
  BY <1>3 DEF StampsDiffer
<1>4. Cardinality(Z) <= Cardinality(R) /\ Cardinality(R) \in Nat
  <2> DEFINE h == [c \in Z |-> Member(c)]
  <2>1. ASSUME NEW c \in Z, NEW d \in Z, h[c] = h[d] PROVE c = d
    BY <1>3, <2>1
  <2>2. h \in Injection(Z, R)
    <3>1. h \in [Z -> R]
      BY <1>1
    <3> HIDE DEF h
    <3> QED
      BY <2>1, <3>1 DEF Injection, IsInjective
  <2> HIDE DEF h
  <2> QED
    BY <1>1, <2>2, FS_Injection, FS_CardinalityType
<1>5. TokensOf(Z) <= MemberSum(Live(zsets.tpm, t)) /\ MemberSum(Live(zsets.tpm, t)) \in Nat
  <2> DEFINE f == [x \in Z |-> Tokens[x.request]]
             g == [m \in T |-> m[3]]
             h == [x \in Z |-> TokenMember(x)]
  <2>1. \A m \in T : g[m] \in Nat
    BY <1>1, <1>2 DEF TokenMember
  <2>2. \A x \in Z : f[x] \in Nat
    BY <1>2
  <2>3. \A x \in Z : f[x] > 0 => h[x] \in T /\ f[x] <= g[h[x]]
    <3>1. \A x \in Z : f[x] > 0 => TokenMember(x) \in T
      BY <1>1
    <3>2. \A x \in Z : TokenMember(x)[3] = Tokens[x.request]
      BY DEF TokenMember
    <3> QED
      BY <1>2, <3>1, <3>2
  <2>4. \A x, y \in Z : f[x] > 0 /\ f[y] > 0 /\ h[x] = h[y] => x = y
    <3> SUFFICES ASSUME NEW x \in Z, NEW y \in Z, TokenMember(x) = TokenMember(y) PROVE x = y
      OBVIOUS
    <3>1. Member(x) = Member(y)
      BY DEF Member, TokenMember
    <3> QED
      BY <1>3, <3>1
  <2>5. SumOf(f, Z) <= SumOf(g, T) /\ SumOf(g, T) \in Nat
    <3> HIDE DEF f, g, h
    <3> QED
      BY <1>1, <2>1, <2>2, <2>3, <2>4, SumInto, SumType
  <2> QED
    BY <2>5 DEF TokensOf, MemberSum
<1> QED
  BY <1>4, <1>5

(* A step that counts a request found room for it beside what its limiter  *)
(* counted within the minute.                                              *)
LEMMA RoomForTheNext ==
  ASSUME CountInv, StampsDiffer, [LimiterNext]_limiterVars, counted' # counted
  PROVE  \E y \in counted' :
           /\ counted' = counted \cup {y} /\ y \notin counted
           /\ y.request \in Requests /\ y.at \in Nat /\ y.by \in Requests \cup {Redis}
           /\ \A Z \in SUBSET By(y.by) :
                (\A c \in Z : c.at > y.at - Window + Slack(y.by)) =>
                  /\ Rpm > 0 => Cardinality(Z) < Rpm
                  /\ Tpm > 0 => TokensOf(Z) + Tokens[y.request] <= Tpm
<1>1. PICK r \in Requests : RunScript(r) \/ CheckMemory(r)
  BY DEF LimiterNext, limiterVars, GetLimiter, AskRedis, RedisFails, Sweep, Tick
<1>2. {Lag, MaxSkew, Window, Rpm, Tpm, now} \subseteq Nat /\ Tokens[r] \in Nat
  BY Numbers DEF CountInv
<1>3. CASE RunScript(r)
  <2> PICK t : t = call[r].at
    OBVIOUS
  <2> DEFINE y == [request |-> r, at |-> t, by |-> Redis]
  <2>1. ~Full(r) /\ counted' = counted \cup {y} /\ In(r, "asking")
    BY <1>3 DEF RunScript, Full, Count
  <2>2. /\ t \in Nat /\ t <= now + MaxSkew /\ now <= t + Lag
    <3>1. /\ call[r].gateway \in Gateways /\ t \in Nat
      BY Numbers DEF CountInv
    <3>2. t <= Clock(call[r].gateway) /\ Clock(call[r].gateway) <= t + Lag
      BY <2>1 DEF CountInv, StampInv
    <3>3. Skew[call[r].gateway] \in Nat /\ Skew[call[r].gateway] <= MaxSkew
      BY <3>1, Numbers DEF CountInv
    <3> QED
      BY <1>2, <3>1, <3>2, <3>3 DEF Clock
  <2>3. y \notin counted
    BY <2>1 DEF CountInv, StampInv, In
  <2>4. ASSUME NEW Z \in SUBSET By(Redis), \A c \in Z : c.at > t - Window + Slack(Redis)
        PROVE  /\ Rpm > 0 => Cardinality(Z) < Rpm
               /\ Tpm > 0 => TokensOf(Z) + Tokens[r] <= Tpm
    <3>1. \A c \in Z : c.at > now + MaxSkew - Window
      <4>1. \A c \in Z : c.at \in Nat
        BY Numbers DEF CountInv, By
      <4>2. t - Window + Slack(Redis) >= now + MaxSkew - Window /\ Slack(Redis) \in Nat
        BY <1>2, <2>2 DEF Slack
      <4> QED
        BY <1>2, <2>2, <2>4, <4>1, <4>2
    <3>2. /\ Cardinality(Z) <= Cardinality(DOMAIN Live(zsets.rpm, t))
          /\ Cardinality(DOMAIN Live(zsets.rpm, t)) \in Nat
          /\ TokensOf(Z) <= MemberSum(Live(zsets.tpm, t))
          /\ MemberSum(Live(zsets.tpm, t)) \in Nat
      <4>1. t \in Int /\ t <= now + MaxSkew /\ Z \in SUBSET By(Redis)
        BY <2>2
      <4> QED
        BY <3>1, <4>1, ScriptFindsTheRecent
    <3>3. Cardinality(Z) \in Nat /\ TokensOf(Z) \in Nat
      <4>1. Z \in SUBSET counted
        BY DEF By
      <4> QED
        BY <4>1, TokensType
    <3>4. /\ Rpm > 0 => ~(Cardinality(DOMAIN Live(zsets.rpm, t)) >= Rpm)
          /\ Tpm > 0 => ~(MemberSum(Live(zsets.tpm, t)) + Tokens[r] > Tpm)
      BY <2>1 DEF Full, Exceeds
    <3> QED
      BY <1>2, <3>2, <3>3, <3>4
  <2>5. y.request = r /\ y.at = t /\ y.by = Redis
    OBVIOUS
  <2> HIDE DEF y
  <2> QED
    BY <2>1, <2>2, <2>3, <2>4, <2>5
<1>4. CASE CheckMemory(r)
  <2> PICK kl, t : kl = call[r].limiter /\ t = Clock(call[r].gateway)
    OBVIOUS
  <2> PICK kept : kept = Pruned(kl, t)
    OBVIOUS
  <2> DEFINE y == [request |-> r, at |-> t, by |-> kl]
             recent == Recent(kl, t - Window)
  <2>1. /\ ~Exceeds(Len(kept.requests), TokenSum(kept.tokens), r)
        /\ counted' = counted \cup {y} /\ In(r, "holding")
    BY <1>4 DEF CheckMemory, Count
  <2>2. /\ kl \in Requests /\ kl # Redis /\ t \in Nat /\ t - Window \in Int
        /\ Len(kept.requests) = Cardinality(recent) /\ TokenSum(kept.tokens) = TokensOf(recent)
    BY <2>1, HeldLimiter
  <2>3. y \notin counted
    BY <2>1 DEF CountInv, StampInv, In
  <2>4. ASSUME NEW Z \in SUBSET By(kl), \A c \in Z : c.at > t - Window + Slack(kl)
        PROVE  /\ Rpm > 0 => Cardinality(Z) < Rpm
               /\ Tpm > 0 => TokensOf(Z) + Tokens[r] <= Tpm
    <3>1. t - Window + Slack(kl) = t - Window
      BY <2>2 DEF Slack
    <3>2. Z \in SUBSET recent /\ recent \in SUBSET counted
      BY <2>4, <3>1 DEF Recent, By
    <3>3. Cardinality(Z) <= Cardinality(recent) /\ TokensOf(Z) <= TokensOf(recent)
      BY <3>2, TokensMono
    <3>4. /\ Cardinality(Z) \in Nat /\ TokensOf(Z) \in Nat
          /\ Cardinality(recent) \in Nat /\ TokensOf(recent) \in Nat
      BY <3>2, TokensType
    <3>5. /\ Rpm > 0 => ~(Cardinality(recent) >= Rpm)
          /\ Tpm > 0 => ~(TokensOf(recent) + Tokens[r] > Tpm)
      BY <2>1, <2>2 DEF Exceeds
    <3> HIDE DEF recent
    <3> QED
      BY <1>2, <3>3, <3>4, <3>5
  <2>5. y.request = r /\ y.at = t /\ y.by = kl
    OBVIOUS
  <2> HIDE DEF y
  <2> QED
    BY <2>1, <2>2, <2>3, <2>4, <2>5
<1> QED
  BY <1>1, <1>3, <1>4

(* The windows of a limiter hold what the plan allows after every step.    *)
LEMMA LimiterHoldsNext ==
  ASSUME CountInv, EachLimiterHolds, StampsDiffer, [LimiterNext]_limiterVars
  PROVE  EachLimiterHolds'
<1>1. CASE counted' = counted
  BY <1>1 DEF EachLimiterHolds, Within, Between, By, TokensOf
<1>2. CASE counted' # counted
  <2>1. PICK y \in counted' :
          /\ counted' = counted \cup {y} /\ y \notin counted
          /\ y.request \in Requests /\ y.at \in Nat /\ y.by \in Requests \cup {Redis}
          /\ \A Z \in SUBSET By(y.by) :
               (\A c \in Z : c.at > y.at - Window + Slack(y.by)) =>
                 /\ Rpm > 0 => Cardinality(Z) < Rpm
                 /\ Tpm > 0 => TokensOf(Z) + Tokens[y.request] <= Tpm
    BY <1>2, RoomForTheNext
  <2>2. /\ {Lag, MaxSkew, Window, Rpm, Tpm} \subseteq Nat /\ \A b : Slack(b) \in Nat
        /\ \A q \in Requests : Tokens[q] \in Nat
        /\ \A c \in counted : c.at \in Nat /\ c.request \in Requests
    <3>1. /\ {Lag, MaxSkew, Window, Rpm, Tpm} \subseteq Nat
          /\ \A q \in Requests : Tokens[q] \in Nat
          /\ \A c \in counted : c.at \in Nat /\ c.request \in Requests
      BY Numbers DEF CountInv
    <3> QED
      BY <3>1 DEF Slack
  <2>3. ASSUME NEW x \in counted'
        PROVE  Within(Between(By(x.by), x.at - (Window - Slack(x.by)) + 1, x.at)')
    <3> PICK b, w : b = x.by /\ w = x.at - (Window - Slack(b)) + 1
      OBVIOUS
    <3> DEFINE now1 == {c \in counted' : c.by = b /\ c.at \in w..x.at}
               old == {c \in counted : c.by = b /\ c.at \in w..x.at}
    <3>1. /\ Between(By(x.by), x.at - (Window - Slack(x.by)) + 1, x.at)' = now1
          /\ Between(By(b), w, x.at) = old
      BY DEF Between, By, Slack
    <3>2. w \in Int /\ x.at \in Nat
      BY <2>1, <2>2
    <3>3. IsFiniteSet(old) /\ (\A c \in old : Tokens[c.request] \in Nat) /\ y \notin old
          /\ Cardinality(old) \in Nat /\ TokensOf(old) \in Nat
      <4>1. old \in SUBSET counted
        OBVIOUS
      <4> HIDE DEF old
      <4> QED
        BY <2>1, <2>2, <4>1, TokensType
    <3>4. CASE y \in now1
      <4>1. now1 = old \cup {y} /\ y.by = b /\ y.at \in w..x.at
        BY <2>1, <3>4
      <4>2. old \in SUBSET By(b) /\ \A c \in old : c.at > y.at - Window + Slack(b)
        <5>1. \A c \in old : c.at >= w
          BY <3>2
        <5>2. w > y.at - Window + Slack(b)
          BY <2>1, <2>2, <3>2, <4>1
        <5>3. \A c \in old : c.at \in Nat
          BY <2>2
        <5>4. old \in SUBSET By(b)
          BY DEF By
        <5> HIDE DEF old
        <5> QED
          BY <2>1, <2>2, <3>2, <5>1, <5>2, <5>3, <5>4
      <4> HIDE DEF old, now1
      <4>3. /\ Rpm > 0 => Cardinality(old) < Rpm
            /\ Tpm > 0 => TokensOf(old) + Tokens[y.request] <= Tpm
        BY <2>1, <4>1, <4>2
      <4>4. /\ Cardinality(now1) = Cardinality(old) + 1
            /\ TokensOf(now1) = TokensOf(old) + Tokens[y.request]
        BY <2>1, <2>2, <3>3, <4>1, FS_AddElement, TokensOfMore
      <4> QED
        BY <2>2, <3>1, <3>3, <4>3, <4>4 DEF Within
    <3>5. CASE y \notin now1
      <4>1. now1 = old
        BY <2>1, <3>5
      <4>2. CASE x \in counted
        <5>1. Within(old)
          BY <3>1, <4>2 DEF EachLimiterHolds
        <5> QED
          BY <3>1, <4>1, <5>1
      <4>3. CASE x \notin counted
        <5>1. x = y /\ ~(y.at \in w..x.at)
          BY <2>1, <3>5, <4>3
        <5>2. old = {}
          BY <2>1, <3>2, <5>1
        <5>3. Cardinality({}) = 0 /\ TokensOf({}) = 0
          BY NothingRecorded
        <5>4. Within({})
          BY <2>2, <5>3 DEF Within
        <5> HIDE DEF old, now1
        <5> QED
          BY <3>1, <4>1, <5>2, <5>4
      <4> QED
        BY <4>2, <4>3
    <3> QED
      BY <3>4, <3>5
  <2> QED
    BY <2>3 DEF EachLimiterHolds, Within, TokensOf
<1> QED
  BY <1>1, <1>2

(* A burst gets no more than the limits, from Redis or from a KeyLimiter,  *)
(* for any requests, gateways, clocks and limits: checkRedisLimits and     *)
(* checkInMemoryLimits.  The members of the sorted sets are nanosecond     *)
(* stamps, so Redis must not be shown one stamp twice.                     *)
THEOREM LimitersHold == LimiterSpec /\ []StampsDiffer => []EachLimiterHolds
<1>1. LimiterInit => EachLimiterHolds
  BY DEF LimiterInit, EachLimiterHolds
<1>2. CountInv /\ StampsDiffer /\ EachLimiterHolds /\ [LimiterNext]_limiterVars
        => EachLimiterHolds'
  BY LimiterHoldsNext
<1> QED
  BY <1>1, <1>2, LimiterCounts, PTL DEF LimiterSpec

(* Requests whose nanoseconds differ have stamps that differ.              *)
COROLLARY LimitersHoldOfOwnStamps ==
  ASSUME \A q, r \in Requests : Nano[q] = Nano[r] => q = r
  PROVE  LimiterSpec => []EachLimiterHolds
<1>1. ASSUME CountInv PROVE StampsDiffer
  <2> SUFFICES ASSUME NEW c \in By(Redis), NEW d \in By(Redis), Member(c) = Member(d)
               PROVE  c = d
    BY DEF StampsDiffer
  <2>1. c \in [request : Requests, at : Times, by : Requests \cup {Redis}] /\ c.by = Redis
    BY <1>1 DEF By, CountInv, Types, LimiterTypeOK
  <2>2. d \in [request : Requests, at : Times, by : Requests \cup {Redis}] /\ d.by = Redis
    BY <1>1 DEF By, CountInv, Types, LimiterTypeOK
  <2>3. c.at = d.at /\ Nano[c.request] = Nano[d.request]
    BY DEF Member
  <2> QED
    BY <2>1, <2>2, <2>3
<1>2. CountInv => StampsDiffer
  BY <1>1
<1> QED
  BY <1>2, LimiterCounts, LimitersHold, PTL

-----------------------------------------------------------------------------
(* What a limiter throttles *)

(* More requests, with more tokens, leave no more room.                    *)
LEMMA ExceedsMore ==
  ASSUME NEW n \in Nat, NEW m \in Nat, NEW k \in Nat, NEW l \in Nat, n <= m, k <= l,
         NEW r \in Requests, Exceeds(n, k, r)
  PROVE  Exceeds(m, l, r)
BY RateLimiterAssumption DEF Exceeds

(* What a script finds, Redis has counted.                                 *)
LEMMA ScriptFindsNoMore ==
  ASSUME CountInv, NEW t \in Int, t <= now + MaxSkew, NEW Z \in SUBSET By(Redis),
         \A c \in By(Redis) : c.at > t - Window => c \in Z
  PROVE  /\ Cardinality(DOMAIN Live(zsets.rpm, t)) <= Cardinality(Z)
         /\ Cardinality(DOMAIN Live(zsets.rpm, t)) \in Nat
         /\ MemberSum(Live(zsets.tpm, t)) <= TokensOf(Z)
         /\ MemberSum(Live(zsets.tpm, t)) \in Nat
<1> PICK R, T : R = DOMAIN Live(zsets.rpm, t) /\ T = DOMAIN Live(zsets.tpm, t)
  OBVIOUS
<1>1. /\ IsFiniteSet(R) /\ IsFiniteSet(T)
      /\ \A m \in R : \E c \in By(Redis) : m = Member(c) /\ c.at > t - Window
      /\ \A m \in T : \E c \in By(Redis) : m = TokenMember(c) /\ c.at > t - Window
  BY MembersAreCounted
<1>2. IsFiniteSet(Z)
  <2>1. Z \in SUBSET counted
    BY DEF By
  <2> QED
    BY <2>1, TokensType
<1>3. \A c \in Z : Tokens[c.request] \in Nat
  BY Numbers DEF CountInv, By
<1>4. Cardinality(R) <= Cardinality(Z) /\ Cardinality(R) \in Nat
  <2> DEFINE h == [m \in R |-> CHOOSE c \in Z : m = Member(c)]
  <2>1. ASSUME NEW m \in R PROVE h[m] \in Z /\ m = Member(h[m])
    <3>1. \E c \in Z : m = Member(c)
      BY <1>1
    <3> QED
      BY <3>1
  <2>2. h \in Injection(R, Z)
    <3>1. h \in [R -> Z]
      BY <2>1
    <3> HIDE DEF h
    <3> QED
      BY <2>1, <3>1 DEF Injection, IsInjective
  <2> HIDE DEF h
  <2> QED
    BY <1>1, <1>2, <2>2, FS_Injection, FS_CardinalityType
<1>5. MemberSum(Live(zsets.tpm, t)) <= TokensOf(Z) /\ MemberSum(Live(zsets.tpm, t)) \in Nat
  <2> DEFINE f == [m \in T |-> m[3]]
             g == [x \in Z |-> Tokens[x.request]]
             h == [m \in T |-> CHOOSE c \in Z : m = TokenMember(c)]
  <2>1. ASSUME NEW m \in T PROVE h[m] \in Z /\ m = TokenMember(h[m])
    <3>1. \E c \in Z : m = TokenMember(c)
      BY <1>1
    <3> QED
      BY <3>1
  <2> HIDE DEF h
  <2>2. \A m \in T : f[m] \in Nat /\ h[m] \in Z /\ f[m] = g[h[m]]
    <3>1. \A m \in T : m[3] = Tokens[h[m].request]
      BY <2>1 DEF TokenMember
    <3> QED
      BY <1>3, <2>1, <3>1
  <2>3. \A x \in Z : g[x] \in Nat
    BY <1>3
  <2>4. SumOf(f, T) <= SumOf(g, Z) /\ SumOf(f, T) \in Nat
    <3> HIDE DEF f, g
    <3>1. \A x \in T : f[x] > 0 => h[x] \in Z /\ f[x] <= g[h[x]]
      BY <2>2
    <3>2. \A x, y \in T : f[x] > 0 /\ f[y] > 0 /\ h[x] = h[y] => x = y
      BY <2>1
    <3> QED
      BY <1>1, <1>2, <2>2, <2>3, <3>1, <3>2, SumInto, SumType
  <2> QED
    BY <2>4 DEF TokensOf, MemberSum
<1> QED
  BY <1>4, <1>5

(* Only a check throttles.                                                 *)
LEMMA ThrottledStep ==
  ASSUME CountInv, [LimiterNext]_limiterVars, NEW r \in Requests,
         In(r, "asking") \/ In(r, "holding"), call'[r].phase = "throttled"
  PROVE  RunScript(r) \/ CheckMemory(r)
<1>1. call \in [Requests -> [phase : Phases, gateway : Gateways, at : Times,
                            limiter : Requests \cup {NoLimiter}]]
  BY DEF CountInv, Types, LimiterTypeOK
<1>2. call'[r] # call[r]
  BY DEF In
<1>3. ASSUME NEW q \in Requests, q # r,
             \/ \E g \in Gateways : GetLimiter(q, g) \/ AskRedis(q, g)
             \/ CheckMemory(q) \/ RunScript(q) \/ RedisFails(q)
      PROVE  FALSE
  BY <1>1, <1>2, <1>3 DEF GetLimiter, AskRedis, CheckMemory, RunScript, RedisFails,
                          Become, Unavailable
<1>4. ASSUME \/ \E g \in Gateways : GetLimiter(r, g) \/ AskRedis(r, g)
             \/ RedisFails(r)
      PROVE  FALSE
  BY <1>1, <1>4 DEF GetLimiter, AskRedis, RedisFails, Become, Unavailable, In
<1> QED
  BY <1>2, <1>3, <1>4 DEF LimiterNext, limiterVars, Sweep, Tick

(* A check throttles only if what its limiter counted leaves no room.      *)
LEMMA ThrottledForCause ==
  ASSUME CountInv, [LimiterNext]_limiterVars, NEW r \in Requests,
         In(r, "asking") \/ In(r, "holding"), call'[r].phase = "throttled"
  PROVE  LET by == IF In(r, "asking") THEN Redis ELSE call[r].limiter
             recent == Between(By(by), call'[r].at - Window + 1, call'[r].at + Slack(by))
         IN  Exceeds(Cardinality(recent), TokensOf(recent), r)
<1>0. call \in [Requests -> [phase : Phases, gateway : Gateways, at : Times,
                            limiter : Requests \cup {NoLimiter}]]
  BY DEF CountInv, Types, LimiterTypeOK
<1>1. RunScript(r) \/ CheckMemory(r)
  BY ThrottledStep
<1>2. {Lag, MaxSkew, Window, now} \subseteq Nat /\ \A c \in counted : c.at \in Nat
  BY Numbers DEF CountInv
<1>3. CASE RunScript(r)
  <2> PICK t : t = call[r].at
    OBVIOUS
  <2> DEFINE recent == Between(By(Redis), t - Window + 1, t + Slack(Redis))
  <2>1. In(r, "asking") /\ call'[r].at = t
    BY <1>0, <1>3 DEF RunScript, Become, Unavailable
  <2>2. Full(r)
    BY <1>0, <1>3 DEF RunScript, Full, Become, Unavailable
  <2>3. /\ t \in Nat /\ t <= now + MaxSkew /\ now <= t + Lag
    <3>1. /\ call[r].gateway \in Gateways /\ t \in Nat
      BY Numbers DEF CountInv
    <3>2. t <= Clock(call[r].gateway) /\ Clock(call[r].gateway) <= t + Lag
      BY <2>1 DEF CountInv, StampInv
    <3>3. Skew[call[r].gateway] \in Nat /\ Skew[call[r].gateway] <= MaxSkew
      BY <3>1, Numbers DEF CountInv
    <3> QED
      BY <1>2, <3>1, <3>2, <3>3 DEF Clock
  <2>4. ASSUME NEW c \in By(Redis), c.at > t - Window PROVE c \in recent
    <3>1. c \in counted /\ c.by = Redis
      BY DEF By
    <3>2. c.at <= now + MaxSkew /\ c.at \in Nat
      BY <1>2, <3>1 DEF CountInv, StampInv
    <3>3. c.at \in (t - Window + 1)..(t + Slack(Redis))
      BY <1>2, <2>3, <2>4, <3>2 DEF Slack
    <3> QED
      BY <3>3 DEF Between
  <2>5. recent \in SUBSET By(Redis) /\ recent \in SUBSET counted
    BY DEF Between, By
  <2> HIDE DEF recent
  <2>6. t \in Int
    BY <2>3
  <2>7. /\ Cardinality(DOMAIN Live(zsets.rpm, t)) <= Cardinality(recent)
        /\ Cardinality(DOMAIN Live(zsets.rpm, t)) \in Nat
        /\ MemberSum(Live(zsets.tpm, t)) <= TokensOf(recent)
        /\ MemberSum(Live(zsets.tpm, t)) \in Nat
    BY <2>3, <2>4, <2>5, <2>6, ScriptFindsNoMore
  <2>8. Cardinality(recent) \in Nat /\ TokensOf(recent) \in Nat
    BY <2>5, TokensType
  <2>9. Exceeds(Cardinality(recent), TokensOf(recent), r)
    BY <2>2, <2>7, <2>8, ExceedsMore DEF Full
  <2> QED
    BY <2>1, <2>9 DEF recent
<1>4. CASE CheckMemory(r)
  <2> PICK kl, t : kl = call[r].limiter /\ t = Clock(call[r].gateway)
    OBVIOUS
  <2> PICK kept : kept = Pruned(kl, t)
    OBVIOUS
  <2>1. In(r, "holding") /\ ~In(r, "asking") /\ call'[r].at = t
    BY <1>0, <1>4 DEF CheckMemory, In
  <2>2. Exceeds(Len(kept.requests), TokenSum(kept.tokens), r)
    BY <1>0, <1>4 DEF CheckMemory
  <2>3. /\ kl \in Requests /\ kl # Redis /\ t \in Nat
        /\ Owned(kl, call[r].gateway)
        /\ Len(kept.requests) = Cardinality(Recent(kl, t - Window))
        /\ TokenSum(kept.tokens) = TokensOf(Recent(kl, t - Window))
    BY <2>1, HeldLimiter
  <2>4. Between(By(kl), t - Window + 1, t + Slack(kl)) = Recent(kl, t - Window)
    <3>1. \A c \in By(kl) : c.at \in Nat /\ c.at <= t
      BY <1>2, <2>3 DEF By, CountInv, StampInv, Owned
    <3>2. \A c \in By(kl) : c.at \in (t - Window + 1)..(t + Slack(kl)) <=> c.at > t - Window
      BY <1>2, <2>3, <3>1 DEF Slack
    <3> QED
      BY <3>2 DEF Between, Recent
  <2> QED
    BY <2>1, <2>2, <2>3, <2>4
<1> QED
  BY <1>1, <1>3, <1>4

(* The script and checkInMemoryLimits refuse a request only if what their  *)
(* limiter counted within the minute leaves no room for it.                *)
THEOREM LimitersThrottleForCause == LimiterSpec => ThrottlingIsJustified
<1>1. CountInv /\ [LimiterNext]_limiterVars =>
        [\A r \in Requests : In(r, "asking") \/ In(r, "holding") =>
           (call'[r].phase = "throttled" =>
              LET by == IF In(r, "asking") THEN Redis ELSE call[r].limiter
                  recent == Between(By(by), call'[r].at - Window + 1, call'[r].at + Slack(by))
              IN Exceeds(Cardinality(recent), TokensOf(recent), r))]_limiterVars
  BY ThrottledForCause
<1> QED
  BY <1>1, LimiterCounts, PTL DEF LimiterSpec, ThrottlingIsJustified

=============================================================================
