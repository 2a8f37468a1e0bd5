--------------------------- MODULE BudgetTheorems ---------------------------
(***************************************************************************)
(* The laws of SumOf and of the arithmetic of plan windows that the other  *)
(* proofs cite, and what the quote of an admission promises to its         *)
(* settlement, for every set of windows, every spending and every top-up   *)
(* balance.                                                                *)
(***************************************************************************)
EXTENDS Budget, FiniteSetTheorems, WellFoundedInduction, TLAPS

-----------------------------------------------------------------------------
(* Sums *)

(* The units of a single element are as many as its amount.                *)
LEMMA UnitsOfOne ==
  ASSUME NEW x, NEW n \in Nat
  PROVE  IsFiniteSet({x} \X (1..n)) /\ Cardinality({x} \X (1..n)) = n
<1> DEFINE X == {x}
           T == 1..n
<1>1. IsFiniteSet(X) /\ Cardinality(X) = 1
  BY FS_Singleton
<1>2. IsFiniteSet(T) /\ Cardinality(T) = n
  BY FS_Interval
<1> HIDE DEF X, T
<1>3. IsFiniteSet(X \X T) /\ Cardinality(X \X T) = Cardinality(X) * Cardinality(T)
  BY <1>1, <1>2, FS_Product
<1>4. Cardinality(X \X T) = n
  BY <1>1, <1>2, <1>3
<1> QED
  BY <1>3, <1>4 DEF X, T

(* The units of a finite set with natural amounts are finitely many.       *)
LEMMA UnitsFinite ==
  ASSUME NEW S, IsFiniteSet(S), NEW f, \A x \in S : f[x] \in Nat
  PROVE  IsFiniteSet(Units(f, S))
<1> DEFINE T == {{x} \X (1..f[x]) : x \in S}
           g == [x \in S |-> {x} \X (1..f[x])]
<1>1. g \in Surjection(S, T)
  BY DEF Surjection
<1>2. IsFiniteSet(T)
  BY <1>1, FS_Surjection
<1>3. ASSUME NEW t \in T PROVE IsFiniteSet(t)
  <2>1. PICK x \in S : t = {x} \X (1..f[x])
    OBVIOUS
  <2>2. f[x] \in Nat
    OBVIOUS
  <2> QED
    BY <2>1, <2>2, UnitsOfOne
<1> HIDE DEF T
<1>4. IsFiniteSet(UNION T)
  BY <1>2, <1>3, FS_UNION
<1> QED
  BY <1>4 DEF T, Units

(* SUM over finitely many natural amounts is a natural number.             *)
LEMMA SumType ==
  ASSUME NEW S, IsFiniteSet(S), NEW f, \A x \in S : f[x] \in Nat
  PROVE  SumOf(f, S) \in Nat
BY UnitsFinite, FS_CardinalityType DEF SumOf

(* SUM over no row is 0.                                                   *)
LEMMA SumEmpty == ASSUME NEW f PROVE SumOf(f, {}) = 0
<1>1. Units(f, {}) = {}
  BY DEF Units
<1> QED
  BY <1>1, FS_EmptySet DEF SumOf

(* SUM depends on the amounts of the rows it ranges over and on no other.  *)
LEMMA SumAgree ==
  ASSUME NEW S, NEW f, NEW g, \A x \in S : f[x] = g[x]
  PROVE  SumOf(f, S) = SumOf(g, S)
<1>1. Units(f, S) = Units(g, S)
  BY DEF Units
<1> QED
  BY <1>1 DEF SumOf

(* A row more adds its amount.                                             *)
LEMMA SumAdd ==
  ASSUME NEW S, IsFiniteSet(S), NEW x, x \notin S, NEW f,
         \A y \in S \cup {x} : f[y] \in Nat
  PROVE  SumOf(f, S \cup {x}) = SumOf(f, S) + f[x]
<1> DEFINE U == Units(f, S)
           V == {x} \X (1..f[x])
<1>1. Units(f, S \cup {x}) = U \cup V
  BY DEF Units
<1>2. U \cap V = {}
  BY DEF Units
<1>3. IsFiniteSet(U)
  BY UnitsFinite
<1>4. IsFiniteSet(V) /\ Cardinality(V) = f[x]
  BY UnitsOfOne
<1>5. Cardinality(U) \in Nat
  BY <1>3, FS_CardinalityType
<1> HIDE DEF U, V
<1>6. Cardinality(U \cup V) = Cardinality(U) + Cardinality(V) - Cardinality(U \cap V)
  BY <1>3, <1>4, FS_Union
<1>7. Cardinality(U \cap V) = 0
  BY <1>2, FS_EmptySet
<1>8. Cardinality(U \cup V) = Cardinality(U) + f[x]
  BY <1>4, <1>5, <1>6, <1>7
<1> QED
  BY <1>1, <1>8 DEF SumOf, U

(* Over fewer rows, or smaller amounts, SUM is no larger.                  *)
LEMMA SumMono ==
  ASSUME NEW S, IsFiniteSet(S), NEW T, T \subseteq S, NEW f, NEW g,
         \A x \in S : f[x] \in Nat, \A x \in T : g[x] \in Nat /\ g[x] <= f[x]
  PROVE  SumOf(g, T) <= SumOf(f, S)
<1>1. IsFiniteSet(Units(f, S))
  BY UnitsFinite
<1>2. Units(g, T) \subseteq Units(f, S)
  <2> SUFFICES ASSUME NEW x \in T, NEW u \in {x} \X (1..g[x])
               PROVE  u \in {x} \X (1..f[x])
    BY DEF Units
  <2>1. 1..g[x] \subseteq 1..f[x]
    OBVIOUS
  <2> QED
    BY <2>1
<1> QED
  BY <1>1, <1>2, FS_Subset DEF SumOf

(* Adding d to the amount of one row adds d to the sum.                    *)
LEMMA SumRaise ==
  ASSUME NEW S, IsFiniteSet(S), NEW f, NEW g, NEW x \in S, NEW d \in Int,
         \A y \in S : f[y] \in Nat /\ g[y] \in Nat,
         \A y \in S \ {x} : g[y] = f[y],
         g[x] = f[x] + d
  PROVE  SumOf(g, S) = SumOf(f, S) + d
<1> DEFINE R == S \ {x}
<1>1. S = R \cup {x} /\ x \notin R
  OBVIOUS
<1>2. IsFiniteSet(R)
  BY FS_Subset
<1> HIDE DEF R
<1>3. SumOf(f, S) = SumOf(f, R) + f[x]
  BY <1>1, <1>2, SumAdd
<1>4. SumOf(g, S) = SumOf(g, R) + g[x]
  BY <1>1, <1>2, SumAdd
<1>5. SumOf(f, R) = SumOf(g, R)
  BY <1>1, SumAgree
<1>6. SumOf(f, R) \in Nat
  BY <1>1, <1>2, SumType
<1> QED
  BY <1>3, <1>4, <1>5, <1>6

(* The sum of pointwise sums.                                              *)
LEMMA SumPlus ==
  ASSUME NEW S, IsFiniteSet(S), NEW f, NEW g, NEW h,
         \A x \in S : f[x] \in Nat /\ g[x] \in Nat /\ h[x] = f[x] + g[x]
  PROVE  SumOf(h, S) = SumOf(f, S) + SumOf(g, S)
<1> DEFINE U == Units(f, S)
           V == Units(g, S)
           W == UNION {{x} \X ((f[x] + 1)..h[x]) : x \in S}
           b == [v \in V |-> <<v[1], f[v[1]] + v[2]>>]
<1>1. \A x \in S : 1..h[x] = (1..f[x]) \cup ((f[x] + 1)..h[x])
  OBVIOUS
<1>2. Units(h, S) = U \cup W
  BY <1>1 DEF Units
<1>3. U \cap W = {}
  BY DEF Units
<1>4. \A v : v \in V <=> \E x \in S : \E i \in 1..g[x] : v = <<x, i>>
  BY DEF Units
<1>5. \A w : w \in W <=> \E x \in S : \E i \in (f[x] + 1)..h[x] : w = <<x, i>>
  OBVIOUS
<1> HIDE DEF V, W
<1>6. b \in Bijection(V, W)
  <2>1. ASSUME NEW v \in V PROVE b[v] \in W
    <3>0. PICK x \in S : \E i \in 1..g[x] : v = <<x, i>>
      BY <1>4
    <3>1. PICK i \in 1..g[x] : v = <<x, i>>
      BY <3>0
    <3>2. b[v] = <<x, f[x] + i>>
      BY <3>1
    <3>3. f[x] + i \in (f[x] + 1)..h[x]
      OBVIOUS
    <3> QED
      BY <1>5, <3>2, <3>3
  <2>2. ASSUME NEW v \in V, NEW w \in V, b[v] = b[w] PROVE v = w
    <3>0. PICK x \in S, y \in S : /\ \E i \in 1..g[x] : v = <<x, i>>
                                 /\ \E j \in 1..g[y] : w = <<y, j>>
      BY <1>4
    <3>1. PICK i \in 1..g[x] : v = <<x, i>>
      BY <3>0
    <3>2. PICK j \in 1..g[y] : w = <<y, j>>
      BY <3>0
    <3>3. <<x, f[x] + i>> = <<y, f[y] + j>>
      BY <2>2, <3>1, <3>2
    <3>4. x = y /\ i = j
      BY <3>3
    <3> QED
      BY <3>1, <3>2, <3>4
  <2>3. ASSUME NEW w \in W PROVE \E v \in V : b[v] = w
    <3>0. PICK x \in S : \E i \in (f[x] + 1)..h[x] : w = <<x, i>>
      BY <1>5
    <3>1. PICK i \in (f[x] + 1)..h[x] : w = <<x, i>>
      BY <3>0
    <3>2. i - f[x] \in 1..g[x]
      OBVIOUS
    <3>3. <<x, i - f[x]>> \in V
      BY <1>4, <3>2
    <3>4. b[<<x, i - f[x]>>] = <<x, f[x] + (i - f[x])>>
      BY <3>3
    <3>5. f[x] + (i - f[x]) = i
      OBVIOUS
    <3> QED
      BY <3>1, <3>3, <3>4, <3>5
  <2> QED
    BY <2>1, <2>2, <2>3 DEF Bijection, Injection, Surjection, IsInjective
<1>7. IsFiniteSet(U) /\ IsFiniteSet(V)
  BY UnitsFinite DEF V
<1>8. IsFiniteSet(W) /\ Cardinality(W) = Cardinality(V)
  BY <1>6, <1>7, FS_Bijection DEF ExistsBijection
<1> HIDE DEF U
<1>9. Cardinality(U \cup W) = Cardinality(U) + Cardinality(W) - Cardinality(U \cap W)
  BY <1>7, <1>8, FS_Union
<1>10. Cardinality(U \cap W) = 0 /\ Cardinality(U) \in Nat /\ Cardinality(V) \in Nat
  BY <1>3, <1>7, FS_EmptySet, FS_CardinalityType
<1>11. Cardinality(U \cup W) = Cardinality(U) + Cardinality(V)
  BY <1>8, <1>9, <1>10
<1> QED
  BY <1>2, <1>11 DEF SumOf, U, V

(* No amounts, no sum.                                                     *)
LEMMA SumZero ==
  ASSUME NEW S, NEW f, \A x \in S : f[x] = 0
  PROVE  SumOf(f, S) = 0
<1>1. Units(f, S) = {}
  BY DEF Units
<1> QED
  BY <1>1, FS_EmptySet DEF SumOf

(* Elements without an amount do not count.                                *)
LEMMA SumSupport ==
  ASSUME NEW T, NEW S \in SUBSET T, NEW f, \A x \in T \ S : f[x] = 0
  PROVE  SumOf(f, S) = SumOf(f, T)
<1>1. Units(f, S) = Units(f, T)
  BY DEF Units
<1> QED
  BY <1>1 DEF SumOf

-----------------------------------------------------------------------------
(* Least and greatest amounts, periods and overages *)

(* Every nonempty set of naturals has a least element.                     *)
LEMMA MinOfNaturals ==
  ASSUME NEW S \in SUBSET Nat, S # {}
  PROVE  Min(S) \in S /\ \A x \in S : Min(S) <= x
<1>1. PICK m \in S : \A y \in S : <<y, m>> \notin OpToRel(<, Nat)
  BY NatLessThanWellFounded, WFMin
<1>2. OpToRel(<, Nat) = {ss \in Nat \X Nat : ss[1] < ss[2]}
  BY Zenon DEF OpToRel
<1>3. ASSUME NEW y \in S PROVE m <= y
  <2>1. ~(y < m)
    BY <1>1, <1>2
  <2> QED
    BY <2>1
<1> QED
  BY <1>3 DEF Min

(* Every bounded nonempty set of naturals has a greatest element.          *)
LEMMA MaxOfNaturals ==
  ASSUME NEW S \in SUBSET Nat, S # {}, NEW b \in Nat, \A x \in S : x <= b
  PROVE  Max(S) \in S /\ \A x \in S : Max(S) >= x
<1> DEFINE T == {b - x : x \in S}
<1>0. \A x \in S : x \in Nat /\ b - x \in Nat
  OBVIOUS
<1>1. T \in SUBSET Nat /\ T # {}
  <2>1. \A y \in T : y \in Nat
    BY <1>0
  <2>2. PICK e \in S : TRUE
    OBVIOUS
  <2>3. b - e \in T
    OBVIOUS
  <2> HIDE DEF T
  <2> QED
    BY <2>1, <2>3
<1> HIDE DEF T
<1>2. Min(T) \in T /\ \A y \in T : Min(T) <= y
  BY <1>1, MinOfNaturals
<1>3. PICK m \in S : Min(T) = b - m
  BY <1>2 DEF T
<1>4. ASSUME NEW x \in S PROVE m >= x
  <2>1. b - x \in T
    BY DEF T
  <2>2. b - m <= b - x
    BY <1>2, <1>3, <2>1
  <2> QED
    BY <2>2
<1> QED
  BY <1>4 DEF Max

LEMMA MaxOfTwo ==
  ASSUME NEW a \in Nat, NEW b \in Nat
  PROVE  Max({a, b}) = IF a < b THEN b ELSE a
<1>1. \A x \in {a, b} : x <= a + b
  OBVIOUS
<1>2. Max({a, b}) \in {a, b} /\ \A x \in {a, b} : Max({a, b}) >= x
  BY <1>1, MaxOfNaturals
<1> QED
  BY <1>2

(* A period does not start after the instants it holds, nor later than a   *)
(* later one.                                                              *)
LEMMA PeriodStarts ==
  ASSUME NEW a \in Nat, NEW d \in Nat, NEW t \in Nat, NEW u \in Nat, t <= u
  PROVE  /\ WindowPeriodStart(a, d, t) \in Nat
         /\ WindowPeriodStart(a, d, t) <= WindowPeriodStart(a, d, u)
         /\ a <= WindowPeriodStart(a, d, t)
         /\ a <= t => WindowPeriodStart(a, d, t) <= t
<1>1. ASSUME NEW x \in Nat, NEW e \in Nat \ {0}
      PROVE  /\ (x \div e) \in Nat /\ (x \div e) * e \in Nat
             /\ (x \div e) * e <= x /\ x < ((x \div e) + 1) * e
  OBVIOUS
<1>2. ASSUME NEW x \in Nat, NEW y \in Nat, x <= y, NEW e \in Nat \ {0}
      PROVE  (x \div e) * e <= (y \div e) * e
  <2> DEFINE q == x \div e
             p == y \div e
  <2>1. /\ q \in Nat /\ p \in Nat /\ q * e <= x /\ y < (p + 1) * e
    BY <1>1
  <2> HIDE DEF q, p
  <2>2. q <= p
    <3> SUFFICES ASSUME p + 1 <= q PROVE FALSE
      BY <2>1
    <3>1. (p + 1) * e <= q * e
      BY <2>1
    <3> QED
      BY <1>2, <2>1, <3>1
  <2>3. q * e <= p * e
    BY <2>1, <2>2
  <2> QED
    BY <2>3 DEF q, p
<1>3. ASSUME NEW x \in Nat
      PROVE  /\ WindowPeriodStart(a, d, x) \in Nat
             /\ a <= WindowPeriodStart(a, d, x)
             /\ a <= x => WindowPeriodStart(a, d, x) <= x
  <2>1. CASE d = 0 \/ x < a
    BY <2>1 DEF WindowPeriodStart
  <2>2. CASE d # 0 /\ x >= a
    <3>1. x - a \in Nat /\ d \in Nat \ {0}
      BY <2>2
    <3>2. ((x - a) \div d) * d \in Nat /\ ((x - a) \div d) * d <= x - a
      BY <1>1, <3>1
    <3>3. WindowPeriodStart(a, d, x) = a + ((x - a) \div d) * d
      BY <2>2 DEF WindowPeriodStart
    <3> DEFINE m == ((x - a) \div d) * d
    <3> HIDE DEF m
    <3> QED
      BY <2>2, <3>2, <3>3 DEF m
  <2> QED
    BY <2>1, <2>2
<1>4. WindowPeriodStart(a, d, t) <= WindowPeriodStart(a, d, u)
  <2>1. CASE d = 0 \/ t < a
    <3>1. WindowPeriodStart(a, d, t) = a
      BY <2>1 DEF WindowPeriodStart
    <3> QED
      BY <1>3, <3>1
  <2>2. CASE d # 0 /\ t >= a
    <3>1. t - a \in Nat /\ u - a \in Nat /\ t - a <= u - a /\ d \in Nat \ {0}
      BY <2>2
    <3>2. ((t - a) \div d) * d <= ((u - a) \div d) * d
      BY <1>2, <3>1
    <3>3. /\ WindowPeriodStart(a, d, t) = a + ((t - a) \div d) * d
          /\ WindowPeriodStart(a, d, u) = a + ((u - a) \div d) * d
      BY <2>2 DEF WindowPeriodStart
    <3>4. ((t - a) \div d) * d \in Nat /\ ((u - a) \div d) * d \in Nat
      BY <1>1, <3>1
    <3> DEFINE m == ((t - a) \div d) * d
               n == ((u - a) \div d) * d
    <3> HIDE DEF m, n
    <3>5. a + m <= a + n
      BY <3>2, <3>4 DEF m, n
    <3> QED
      BY <3>3, <3>5 DEF m, n
  <2> QED
    BY <2>1, <2>2
<1> QED
  BY <1>3, <1>4

(* The rise of a window's overage lies between 0 and the cost.             *)
LEMMA OverageRise ==
  ASSUME NEW w, w.budget \in Nat, NEW s \in Nat, NEW c \in Nat
  PROVE  /\ MarginalOverage(w, s, c) \in Nat
         /\ MarginalOverage(w, s, c) <= c
         /\ MarginalOverage(w, s, c) <= Positive(s + c - w.budget)
BY DEF MarginalOverage, Overage, Positive

(* A settlement takes no more from the top-ups than the request cost, and  *)
(* the charge is the rise of one of the windows (or 0).                    *)
LEMMA MarginalChargeBounds ==
  ASSUME NEW limits, NEW spent, NEW cost \in Nat,
         \A w \in limits : w.budget \in Nat /\ spent[w] \in Nat
  PROVE  LET charge == MarginalTopupCharge(limits, spent, cost)
         IN  /\ charge \in Nat
             /\ charge <= cost
             /\ charge = 0 \/ \E w \in limits : /\ charge <= Positive(spent[w] + cost - w.budget)
                                                /\ spent[w] + cost > w.budget
<1> DEFINE rise(w) == MarginalOverage(w, spent[w], cost)
           S == {0} \cup {rise(w) : w \in limits}
<1>1. \A w \in limits : rise(w) \in Nat /\ rise(w) <= cost /\ rise(w) <= Positive(spent[w] + cost - w.budget)
  BY OverageRise
<1>2. S \in SUBSET Nat /\ S # {} /\ \A x \in S : x <= cost
  BY <1>1
<1>3. MarginalTopupCharge(limits, spent, cost) = Max(S)
  BY DEF MarginalTopupCharge
<1> HIDE DEF S
<1>4. Max(S) \in S
  BY <1>2, MaxOfNaturals
<1>5. CASE Max(S) = 0
  BY <1>3, <1>5
<1>6. CASE Max(S) # 0
  <2>1. PICK w \in limits : Max(S) = rise(w)
    BY <1>4, <1>6 DEF S
  <2>2. spent[w] + cost > w.budget
    BY <1>1, <1>6, <2>1 DEF Positive
  <2> QED
    BY <1>1, <1>2, <1>3, <1>4, <2>1, <2>2
<1> QED
  BY <1>5, <1>6

(* A generation whose cost stays within the available budget it was quoted *)
(* is paid in full: when the same balances are still there at settlement,  *)
(* the top-ups hold at least what the settlement charges to them.  This is *)
(* what "the exact amount one generation may consume" has to guarantee.    *)
THEOREM QuotedCostIsCovered ==
  ASSUME NEW limits, limits # {}, NEW spent, NEW remaining \in Nat, NEW cost \in Nat,
         \A w \in limits : w.budget \in Nat /\ spent[w] \in Nat,
         cost <= AvailableBudget(limits, spent, remaining)
  PROVE  MarginalTopupCharge(limits, spent, cost) <= remaining
<1> DEFINE room(w) == Positive(w.budget - spent[w] + remaining)
           A == {room(w) : w \in limits}
<1>1. A \in SUBSET Nat /\ A # {}
  BY DEF Positive
<1>2. AvailableBudget(limits, spent, remaining) = Min(A)
  BY DEF AvailableBudget
<1>3. ASSUME NEW w \in limits PROVE Min(A) <= room(w) /\ Min(A) \in Nat
  <2>1. room(w) \in A
    OBVIOUS
  <2> HIDE DEF A
  <2> QED
    BY <1>1, <2>1, MinOfNaturals
<1> HIDE DEF A
<1>4. ASSUME NEW w \in limits, spent[w] + cost > w.budget, cost > 0
      PROVE  Positive(spent[w] + cost - w.budget) <= remaining
  <2>1. cost <= Positive(w.budget - spent[w] + remaining)
    <3>1. Positive(w.budget - spent[w] + remaining) \in Nat
      BY DEF Positive
    <3> QED
      BY <1>2, <1>3, <3>1
  <2> QED
    BY <1>4, <2>1 DEF Positive
<1>5. CASE MarginalTopupCharge(limits, spent, cost) = 0
  BY <1>5
<1>6. CASE MarginalTopupCharge(limits, spent, cost) # 0
  <2>1. MarginalTopupCharge(limits, spent, cost) \in Nat /\ cost > 0
    BY <1>6, MarginalChargeBounds
  <2>2. PICK w \in limits :
          /\ MarginalTopupCharge(limits, spent, cost) <= Positive(spent[w] + cost - w.budget)
          /\ spent[w] + cost > w.budget
    BY <1>6, MarginalChargeBounds
  <2>3. Positive(spent[w] + cost - w.budget) \in Nat
    BY DEF Positive
  <2> QED
    BY <1>4, <2>1, <2>2, <2>3
<1> QED
  BY <1>5, <1>6

=============================================================================
