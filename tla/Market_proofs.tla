---------------------------- MODULE Market_proofs ----------------------------
(***************************************************************************)
(* The safety of the connector's Alpaca sessions for any subscriptions,    *)
(* orders and prices, however many trades happen, sessions start and       *)
(* connections drop: one section for the rotation of the orders, one for   *)
(* the gap replay, one for the price sessions, and one for what they       *)
(* promise together (FencedCursor_proofs has the cursor's).                *)
(***************************************************************************)
EXTENDS MCMarketData, FencedCursor_proofs, FunctionTheorems, FiniteSetTheorems,
        WellFoundedInduction, TLAPS

-----------------------------------------------------------------------------
(* Numbers and sorted sequences                                             *)

(* A set of numbers has a smallest one. *)
LEMMA SmallestPlace ==
  ASSUME NEW S \in SUBSET Nat, S # {}
  PROVE  \E m \in S : \A n \in S : m <= n
  <1>1. \E m \in S : \A n \in S : ~ (n < m)
    <2>1. IsWellFoundedOn(OpToRel(<, Nat), Nat)
      BY NatLessThanWellFounded
    <2>2. PICK m \in S : \A y \in S : ~ (<<y, m>> \in OpToRel(<, Nat))
      BY <2>1, WFMin
    <2>3. \A y \in S : <<y, m>> \in OpToRel(<, Nat) <=> y < m
      BY <2>2 DEF OpToRel
    <2>4. \A y \in S : ~ (y < m)
      BY <2>2, <2>3, Zenon
    <2> QED BY ONLY <2>4, m \in S
  <1>2. PICK m \in S : \A n \in S : ~ (n < m)
    BY ONLY <1>1
  <1> QED BY ONLY <1>2, S \in SUBSET Nat

(* A bounded set of numbers has a largest one. *)
LEMMA LargestPlace ==
  ASSUME NEW S \in SUBSET Nat, S # {}, NEW b \in Nat, \A x \in S : x <= b
  PROVE  \E m \in S : \A x \in S : m >= x
  <1> DEFINE T == {k \in Nat : b - k \in S}
  <1>1. PICK x \in S : TRUE
    OBVIOUS
  <1>2. x \in Nat /\ x <= b
    BY S \in SUBSET Nat
  <1>3. b - x \in Nat /\ b - (b - x) = x
    BY <1>2
  <1>4. b - x \in T
    BY <1>3
  <1>5. PICK m \in T : \A n \in T : m <= n
    <2> HIDE DEF T
    <2>1. T \in SUBSET Nat
      BY DEF T
    <2> QED BY <1>4, <2>1, SmallestPlace
  <1>6. b - m \in S /\ m \in Nat
    OBVIOUS
  <1>7. ASSUME NEW y \in S PROVE b - m >= y
    <2>1. y \in Nat /\ y <= b /\ b - y \in Nat /\ b - (b - y) = y
      BY S \in SUBSET Nat
    <2>2. b - y \in T
      BY <2>1
    <2>3. m <= b - y
      BY <1>5, <2>2
    <2> QED BY <1>6, <2>1, <2>3
  <1> QED BY <1>6, <1>7

(* The numbers from 0 on, one after the other, are all of them. *)
LEMMA CountingUp ==
  ASSUME NEW S \in SUBSET Nat, 0 \in S, \A n \in S : n + 1 \in S
  PROVE  \A n \in Nat : n \in S
  <1> SUFFICES ASSUME Nat \ S # {} PROVE FALSE
    OBVIOUS
  <1>1. PICK m \in Nat \ S : \A n \in Nat \ S : m <= n
    BY SmallestPlace
  <1>2. m # 0
    BY <1>1
  <1>3. m - 1 \in Nat /\ ~ (m <= m - 1) /\ (m - 1) + 1 = m
    BY <1>1, <1>2
  <1>4. m - 1 \in S
    BY <1>1, <1>3
  <1> QED BY <1>1, <1>3, <1>4

(* What counts up from at least a to at most b, without room to spare. *)
LEMMA TightlyIncreasing ==
  ASSUME NEW m \in Nat, NEW a \in Nat, NEW g \in [1..m -> a..(a + m - 1)],
         \A i, j \in 1..m : i < j => g[i] < g[j]
  PROVE  \A q \in 1..m : g[q] = a + q - 1
  <1> DEFINE Low == {q \in Nat : q + 1 \in 1..m => g[q + 1] >= a + q}
             High == {q \in Nat : m - q \in 1..m => g[m - q] <= a + m - 1 - q}
  <1>1. \A q \in Nat : q \in Low
    <2>1. 0 \in Low
      OBVIOUS
    <2>2. ASSUME NEW q \in Low PROVE q + 1 \in Low
      <3> SUFFICES ASSUME q + 2 \in 1..m PROVE g[q + 2] >= a + q + 1
        OBVIOUS
      <3>1. q + 1 \in 1..m /\ q + 1 < q + 2
        OBVIOUS
      <3>2. g[q + 1] < g[q + 2] /\ g[q + 1] >= a + q
        BY <3>1
      <3>3. g[q + 1] \in Int /\ g[q + 2] \in Int
        BY <3>1
      <3> QED BY <3>2, <3>3
    <2> HIDE DEF Low
    <2>3. Low \in SUBSET Nat
      BY DEF Low
    <2> QED BY <2>1, <2>2, <2>3, CountingUp
  <1>2. \A q \in Nat : q \in High
    <2>1. 0 \in High
      OBVIOUS
    <2>2. ASSUME NEW q \in High PROVE q + 1 \in High
      <3> SUFFICES ASSUME m - (q + 1) \in 1..m PROVE g[m - (q + 1)] <= a + m - 1 - (q + 1)
        OBVIOUS
      <3>1. m - q \in 1..m /\ m - (q + 1) < m - q
        OBVIOUS
      <3>2. g[m - (q + 1)] < g[m - q] /\ g[m - q] <= a + m - 1 - q
        BY <3>1
      <3>3. g[m - (q + 1)] \in Int /\ g[m - q] \in Int
        BY <3>1
      <3> QED BY <3>2, <3>3
    <2> HIDE DEF High
    <2>3. High \in SUBSET Nat
      BY DEF High
    <2> QED BY <2>1, <2>2, <2>3, CountingUp
  <1>3. ASSUME NEW q \in 1..m PROVE g[q] = a + q - 1
    <2>0. q - 1 \in Nat /\ (q - 1) + 1 = q /\ m - q \in Nat /\ m - (m - q) = q
      OBVIOUS
    <2>1. q - 1 \in Low
      BY <2>0, <1>1
    <2>2. m - q \in High
      BY <2>0, <1>2
    <2>3. g[q] >= a + (q - 1)
      BY <2>0, <2>1
    <2>4. g[q] <= a + m - 1 - (m - q)
      BY <2>0, <2>2
    <2>5. g[q] \in Int
      OBVIOUS
    <2> HIDE DEF Low, High
    <2> QED BY <2>3, <2>4, <2>5
  <1> QED BY <1>3

(* A finite set of numbers can be listed in increasing order. *)
LEMMA IncreasingExists ==
  ASSUME NEW S \in SUBSET Nat, IsFiniteSet(S)
  PROVE  /\ Cardinality(S) \in Nat
         /\ Increasing(S) \in [1..Cardinality(S) -> S]
         /\ \A i, j \in 1..Cardinality(S) : i < j => Increasing(S)[i] < Increasing(S)[j]
  <1> DEFINE places == 1..Cardinality(S)
             upTo(x) == {y \in S : y <= x}
             rank == [x \in S |-> Cardinality(upTo(x))]
  <1>1. Cardinality(S) \in Nat
    BY FS_CardinalityType
  <1>2. ASSUME NEW x \in S
        PROVE  /\ IsFiniteSet(upTo(x)) /\ Cardinality(upTo(x)) \in places
    <2>1. IsFiniteSet(upTo(x)) /\ Cardinality(upTo(x)) <= Cardinality(S)
      BY FS_Subset, upTo(x) \in SUBSET S
    <2>2. Cardinality(upTo(x)) \in Nat /\ Cardinality(upTo(x)) # 0
      BY <2>1, FS_CardinalityType, FS_EmptySet, x \in upTo(x)
    <2> QED BY <2>1, <2>2, <1>1
  <1>3. ASSUME NEW x \in S, NEW y \in S, x < y
        PROVE  rank[x] < rank[y]
    <2>1. upTo(x) \in SUBSET upTo(y) /\ y \in upTo(y) /\ y \notin upTo(x)
      <3>1. x \in Nat /\ y \in Nat /\ \A z \in S : z \in Nat
        BY S \in SUBSET Nat
      <3>2. \A z \in S : z <= x => z <= y
        BY <3>1, <1>3
      <3>3. y <= y /\ ~ (y <= x)
        BY <3>1, <1>3
      <3> QED BY <3>2, <3>3
    <2>2. Cardinality(upTo(x)) <= Cardinality(upTo(y))
          /\ Cardinality(upTo(x)) # Cardinality(upTo(y))
      BY ONLY <2>1, <1>2, FS_Subset
    <2>3. Cardinality(upTo(x)) \in Nat /\ Cardinality(upTo(y)) \in Nat
      BY <1>1, <1>2
    <2> HIDE DEF upTo
    <2> QED BY <2>2, <2>3
  <1>4. rank \in [S -> places]
    BY <1>2
  <1>5. \A x, y \in S : rank[x] = rank[y] => x = y
    <2> SUFFICES ASSUME NEW x \in S, NEW y \in S, rank[x] = rank[y], x # y PROVE FALSE
      OBVIOUS
    <2>1. x < y \/ y < x
      BY S \in SUBSET Nat
    <2>2. rank[x] < rank[y] \/ rank[y] < rank[x]
      BY <2>1, <1>3
    <2>3. rank[x] \in Nat
      BY <1>4, <1>1
    <2> HIDE DEF rank
    <2> QED BY <2>2, <2>3
  <1>6. \A k \in places : \E x \in S : rank[x] = k
    <2>1. IsFiniteSet(places) /\ Cardinality(places) = Cardinality(S)
      BY <1>1, FS_Interval
    <2> HIDE DEF rank, places
    <2>2. rank \in Injection(S, places)
      BY <1>4, <1>5 DEF Injection, IsInjective
    <2>3. rank \in Surjection(S, places)
      BY <2>1, <2>2, FS_Injection
    <2> QED BY <2>3 DEF Surjection
  <1> DEFINE f == [k \in places |-> CHOOSE x \in S : rank[x] = k]
  <1>7. \A k \in places : f[k] \in S /\ rank[f[k]] = k
    BY <1>6
  <1>8. f \in [places -> S]
    BY <1>7
  <1>9. ASSUME NEW i \in places, NEW j \in places, i < j PROVE f[i] < f[j]
    <2>1. f[i] \in S /\ f[j] \in S /\ rank[f[i]] = i /\ rank[f[j]] = j
      BY <1>7
    <2> HIDE DEF f, rank
    <2>2. ~ (f[j] < f[i])
      <3>1. f[j] < f[i] => j < i
        BY <2>1, <1>3
      <3> QED BY <3>1, <1>9, <1>1
    <2>3. f[i] # f[j]
      BY <2>1, <1>9, <1>1
    <2>4. f[i] \in Nat /\ f[j] \in Nat
      BY <2>1, S \in SUBSET Nat
    <2> QED BY <2>2, <2>3, <2>4
  <1> HIDE DEF f, rank, upTo
  <1>10. \E g \in [places -> S] : \A i, j \in places : i < j => g[i] < g[j]
    BY <1>8, <1>9
  <1> QED BY <1>1, <1>10 DEF Increasing

-----------------------------------------------------------------------------
(* The rotation of the orders                                               *)

(* filter keeps elements, in their order and each at most once. *)
LEMMA DesiredIsPart ==
  ASSUME OrderReconciliationAssumption
  PROVE  /\ DesiredOrders \in Seq(OrderSubs) /\ Len(DesiredOrders) <= Cardinality(OrderSubs)
         /\ \A i, j \in DOMAIN DesiredOrders : DesiredOrders[i] = DesiredOrders[j] => i = j
  <1> DEFINE N == Cardinality(OrderSubs)
             kept == {i \in DOMAIN Index : OrderArmed(Index[i])}
             at == Increasing(kept)
  <1>1. N \in Nat /\ Index \in [1..N -> OrderSubs]
        /\ \A a, b \in 1..N : Index[a] = Index[b] => a = b
    <2>1. N \in Nat
      BY FS_CardinalityType DEF OrderReconciliationAssumption
    <2> QED BY <2>1 DEF OrderReconciliationAssumption, IsInjective
  <1>2. /\ kept \in SUBSET (1..N) /\ kept \in SUBSET Nat
        /\ IsFiniteSet(kept) /\ Cardinality(kept) <= N
    <2>1. kept \in SUBSET (1..N)
      BY <1>1
    <2>2. IsFiniteSet(1..N)
      BY <1>1, FS_Interval
    <2> HIDE DEF kept
    <2>3. IsFiniteSet(kept) /\ Cardinality(kept) <= Cardinality(1..N)
      BY <2>1, <2>2, FS_Subset
    <2>4. Cardinality(1..N) = N
      BY <1>1, FS_Interval
    <2>5. kept \in SUBSET Nat
      BY <2>1, <1>1
    <2> QED BY ONLY <2>1, <2>3, <2>4, <2>5
  <1> HIDE DEF N
  <1>3. DesiredOrders = [k \in 1..Cardinality(kept) |-> Index[at[k]]]
    BY DEF DesiredOrders, Filtered
  <1>4. /\ Cardinality(kept) \in Nat
        /\ at \in [1..Cardinality(kept) -> kept]
        /\ \A i, j \in 1..Cardinality(kept) : i < j => at[i] < at[j]
    BY <1>2, IncreasingExists
  <1> HIDE DEF kept, at
  <1>5. \A k \in 1..Cardinality(kept) : at[k] \in 1..N
    BY <1>2, <1>4
  <1>6. DesiredOrders \in Seq(OrderSubs) /\ Len(DesiredOrders) <= N
    <2>1. \A k \in 1..Cardinality(kept) : Index[at[k]] \in OrderSubs
      BY <1>1, <1>5
    <2> QED BY <1>2, <1>3, <1>4, <2>1
  <1>7. ASSUME NEW i \in DOMAIN DesiredOrders, NEW j \in DOMAIN DesiredOrders,
               DesiredOrders[i] = DesiredOrders[j]
        PROVE  i = j
    <2>1. i \in 1..Cardinality(kept) /\ j \in 1..Cardinality(kept) /\ Index[at[i]] = Index[at[j]]
      BY <1>3, <1>7
    <2>2. at[i] = at[j]
      BY <2>1, <1>5, <1>1
    <2>3. ~ (i < j) /\ ~ (j < i)
      BY <2>1, <2>2, <1>4, <1>5, <1>1
    <2> QED BY <2>1, <2>3, <1>4
  <1> QED BY <1>6, <1>7 DEF N

(* The constants' types. *)
LEMMA OrdersConstants ==
  ASSUME OrderReconciliationAssumption
  PROVE  /\ Cardinality(OrderSubs) \in Nat \ {0} /\ BatchSize \in Nat \ {0}
         /\ Most \in Nat \ {0} /\ SessionTicks \in Nat /\ MaxCrashes \in Nat
  <1>1. Cardinality(OrderSubs) \in Nat /\ Cardinality(OrderSubs) # 0
    BY FS_CardinalityType, FS_EmptySet DEF OrderReconciliationAssumption
  <1>2. BatchSize \in Nat \ {0} /\ SessionTicks \in Nat /\ MaxCrashes \in Nat
    BY DEF OrderReconciliationAssumption
  <1>3. Most \in Nat \ {0}
    BY <1>1, <1>2 DEF Most, Ceiling
  <1> QED BY <1>1, <1>2, <1>3

(* As many batches as Ceiling counts hold the whole list, and fewer do not. *)
LEMMA CeilingCovers ==
  ASSUME OrderReconciliationAssumption, NEW n \in Nat, NEW k \in Nat
  PROVE  /\ Ceiling(n) \in Nat
         /\ k >= Ceiling(n) => k * BatchSize >= n
  <1>1. BatchSize \in Nat \ {0}
    BY OrdersConstants
  <1>2. Ceiling(n) \in Nat /\ Ceiling(n) * BatchSize >= n
    BY <1>1 DEF Ceiling
  <1>3. ASSUME k >= Ceiling(n) PROVE k * BatchSize >= Ceiling(n) * BatchSize
    <2>1. \E d \in Nat : k = Ceiling(n) + d
      BY <1>2, <1>3, k - Ceiling(n) \in Nat
    <2>2. PICK d \in Nat : k = Ceiling(n) + d
      BY <2>1
    <2>3. (Ceiling(n) + d) * BatchSize = Ceiling(n) * BatchSize + d * BatchSize
      BY <1>1, <1>2
    <2>4. d * BatchSize >= 0
      BY <1>1
    <2> QED BY <1>1, <1>2, <2>2, <2>3, <2>4
  <1> QED BY <1>1, <1>2, <1>3

(* The batch is a part of the list that starts at the offset. *)
LEMMA BatchIsPart ==
  ASSUME OrderReconciliationAssumption,
         NEW items \in Seq(OrderSubs), items # <<>>, NEW from \in Nat
  PROVE  LET n == Len(items)
             size == IF BatchSize < n THEN BatchSize ELSE n
             batch == takeReconciliationBatch(items, from)
         IN  /\ n \in Nat \ {0} /\ size \in 1..n /\ size <= BatchSize
             /\ batch \in Seq(OrderSubs) /\ Len(batch) = size
             /\ \A i \in 1..size : /\ ((from + i - 1) % n) + 1 \in 1..n
                                   /\ batch[i] = items[((from + i - 1) % n) + 1]
  <1> DEFINE n == Len(items)
             size == IF BatchSize < n THEN BatchSize ELSE n
             batch == takeReconciliationBatch(items, from)
  <1>1. n \in Nat \ {0} /\ size \in 1..n /\ size <= BatchSize
    BY OrdersConstants
  <1>2. batch = [i \in 1..size |-> items[((from + i - 1) % n) + 1]]
    BY DEF takeReconciliationBatch
  <1> HIDE DEF batch
  <1>3. ASSUME NEW i \in 1..size PROVE ((from + i - 1) % n) + 1 \in 1..n
    <2>1. from + i - 1 \in Nat
      BY <1>1
    <2>2. n \in Nat \ {0}
      BY <1>1
    <2> HIDE DEF n, size
    <2>3. (from + i - 1) % n \in 0..n - 1
      BY <2>1, <2>2
    <2> QED BY <2>2, <2>3
  <1>4. \A i \in 1..size : items[((from + i - 1) % n) + 1] \in OrderSubs
    BY <1>3
  <1>5. batch \in Seq(OrderSubs) /\ Len(batch) = size
    <2> HIDE DEF size, n
    <2> QED BY <1>1, <1>2, <1>4
  <1>6. \A i \in 1..size : batch[i] = items[((from + i - 1) % n) + 1]
    BY <1>2
  <1> HIDE DEF n, size
  <1> QED BY <1>1, <1>3, <1>5, <1>6 DEF n, size, batch

(* A number that is less than twice another one. *)
LEMMA Modulo ==
  ASSUME NEW n \in Nat \ {0}, NEW x \in Nat, x < 2 * n
  PROVE  x % n = IF x < n THEN x ELSE x - n
  OBVIOUS

(* What a step of the rotation does to the distance of a position. *)
Distance(from, n, i) == IF i - 1 >= from THEN i - 1 - from ELSE i - 1 - from + n

(* A batch that does not reach a position brings the next one closer to it. *)
LEMMA RotationApproaches ==
  ASSUME NEW n \in Nat \ {0}, NEW size \in 1..n, NEW from \in 0..n - 1, NEW i \in 1..n,
         Distance(from, n, i) >= size
  PROVE  Distance((from + size) % n, n, i) = Distance(from, n, i) - size
  <1>1. (from + size) % n = IF from + size < n THEN from + size ELSE from + size - n
    <2>1. from + size \in Nat /\ from + size < 2 * n
      OBVIOUS
    <2>2. PICK x \in Nat : x = from + size
      BY <2>1
    <2>3. x % n = IF x < n THEN x ELSE x - n
      BY <2>1, <2>2, Modulo
    <2> QED BY <2>2, <2>3
  <1> QED BY <1>1 DEF Distance

(* A batch within reach of a position holds it. *)
LEMMA RotationReaches ==
  ASSUME NEW n \in Nat \ {0}, NEW size \in 1..n, NEW from \in 0..n - 1, NEW i \in 1..n,
         Distance(from, n, i) < size
  PROVE  \E k \in 1..size : ((from + k - 1) % n) + 1 = i
  <1> DEFINE k == Distance(from, n, i) + 1
  <1>1. k \in 1..size /\ from + k - 1 \in Nat /\ from + k - 1 < 2 * n
    BY DEF Distance
  <1>2. (from + k - 1) % n = IF from + k - 1 < n THEN from + k - 1 ELSE from + k - 1 - n
    BY <1>1, Modulo
  <1>3. ((from + k - 1) % n) + 1 = i
    BY <1>2 DEF Distance
  <1> QED BY <1>1, <1>3

(* A distance is a number below the number of positions. *)
LEMMA DistanceType ==
  ASSUME NEW n \in Nat \ {0}, NEW from \in 0..n - 1, NEW i \in 1..n
  PROVE  Distance(from, n, i) \in 0..n - 1
  BY DEF Distance

(* No position is twice in a batch. *)
LEMMA BatchInjective ==
  ASSUME NEW n \in Nat \ {0}, NEW size \in 1..n, NEW from \in Nat,
         NEW i \in 1..size, NEW j \in 1..size, (from + i - 1) % n = (from + j - 1) % n
  PROVE  i = j
  <1> DEFINE a == from + i - 1
             b == from + j - 1
  <1>1. a \in Nat /\ b \in Nat /\ a - b = i - j
    OBVIOUS
  <1> HIDE DEF a, b
  <1>2. a - n * (a \div n) = a % n /\ a \div n \in Nat
    BY <1>1
  <1>3. b - n * (b \div n) = b % n /\ b \div n \in Nat
    BY <1>1
  <1>4. PICK u \in Nat, v \in Nat : u = a \div n /\ v = b \div n
    BY <1>2, <1>3
  <1> DEFINE q == u - v
  <1>5. q \in Int /\ i - j = n * q
    <2>1. a % n = b % n
      BY DEF a, b
    <2>2. a - n * u = b - n * v
      BY <2>1, <1>2, <1>3, <1>4
    <2>3. a - b = n * (u - v)
      BY <2>2, <1>1
    <2> QED BY <2>3, <1>1
  <1> HIDE DEF q
  <1>6. q = 0
    <2>1. q >= 1 => n * q >= n
      BY <1>5
    <2>2. q <= -1 => n * q <= - n
      BY <1>5
    <2> QED BY <1>5, <2>1, <2>2
  <1> QED BY <1>5, <1>6

-----------------------------------------------------------------------------
(* A watched order that is d places from the offset has been left out of as
   many batches as fit before it, or the list has not stood still for that
   long. *)
Coverage ==
  /\ listed \in Seq(OrderSubs)
  /\ listed # <<>> => offset < Len(listed)
  /\ \A i \in DOMAIN listed :
       LET d == Distance(offset, Len(listed), i)
       IN \/ passed[listed[i]] * BatchSize + d < Len(listed)
          \/ steady * BatchSize + d < Len(listed)

(* What is on its way, asked for or found concerns an order that has ended and
   goes to one who watches it. *)
Answers ==
  /\ sweep \in [at : {"idle", "asking"}, batch : Seq(OrderSubs),
                asked : SUBSET Orders, terminal : SUBSET Orders]
  /\ \A o \in sweep.asked \cup sweep.terminal :
       \E i \in DOMAIN sweep.batch : OrderOf[sweep.batch[i]] = o
  /\ \A o \in frames \cup sweep.terminal : order[o] = "terminal"
  /\ \A o \in Orders : route[o] # None => route[o] \in OrderSubs /\ OrderOf[route[o]] = o
  /\ NoFalseOrderWake

OrdersIInv == OrdersTypeOK /\ Coverage /\ Answers

(* The invariant says what CoveredWhileSteady asks. *)
LEMMA CoverageSuffices ==
  ASSUME OrderReconciliationAssumption, OrdersTypeOK, Coverage
  PROVE  CoveredWhileSteady
  <1> SUFFICES ASSUME NEW i \in DOMAIN listed, steady >= Ceiling(Len(listed)),
                      ~ (passed[listed[i]] < Ceiling(Len(listed)))
               PROVE  FALSE
    BY DEF CoveredWhileSteady, Range
  <1> DEFINE n == Len(listed)
             d == Distance(offset, n, i)
             p == passed[listed[i]]
  <1>1. n \in Nat \ {0} /\ i \in 1..n /\ listed[i] \in OrderSubs /\ offset \in 0..n - 1
    BY DEF Coverage, OrdersTypeOK
  <1>2. d \in 0..n - 1
    BY <1>1, DistanceType
  <1>3. p \in Nat /\ steady \in Nat
    BY <1>1, OrdersConstants DEF OrdersTypeOK
  <1>4. p * BatchSize + d < n \/ steady * BatchSize + d < n
    BY <1>1 DEF Coverage
  <1> HIDE DEF n, d, p
  <1>5. Ceiling(n) \in Nat /\ steady >= Ceiling(n) /\ p >= Ceiling(n)
    BY <1>1, <1>3, CeilingCovers DEF n, p
  <1>6. p * BatchSize >= n /\ steady * BatchSize >= n
    BY <1>1, <1>3, <1>5, CeilingCovers
  <1>7. p * BatchSize \in Int /\ steady * BatchSize \in Int
    BY <1>3, OrdersConstants
  <1> QED BY <1>1, <1>2, <1>4, <1>6, <1>7

-----------------------------------------------------------------------------
(* A saturated count is a count, and at most one more. *)
LEMMA SaturatedType ==
  ASSUME OrderReconciliationAssumption, NEW n \in 0..Most
  PROVE  Saturated(n) \in 0..Most /\ Saturated(n) <= n + 1
  <1>1. PICK m \in Nat \ {0} : m = Most
    BY OrdersConstants
  <1>2. n \in 0..m /\ Saturated(n) = IF n < m THEN n + 1 ELSE m
    BY <1>1 DEF Saturated
  <1>3. Saturated(n) \in 0..m /\ Saturated(n) <= n + 1
    BY <1>2
  <1> QED BY <1>1, <1>3

(* What a tick notes down. *)
LEMMA ObserveType ==
  ASSUME OrderReconciliationAssumption, OrdersTypeOK,
         NEW list \in Seq(OrderSubs), NEW batch, Observe(list, batch)
  PROVE  /\ listed' = list /\ Range(listed') \subseteq OrderSubs
         /\ steady' \in 0..Most /\ passed' \in [OrderSubs -> 0..Most]
  <1>1. listed' = list /\ Range(listed') \subseteq OrderSubs
    BY DEF Observe, Range
  <1>2. steady' \in 0..Most
    BY SaturatedType, OrdersConstants DEF Observe, OrdersTypeOK
  <1>3. \A s \in OrderSubs : Saturated(passed[s]) \in 0..Most /\ 0 \in 0..Most
    BY SaturatedType, OrdersConstants DEF OrdersTypeOK
  <1>4. passed' \in [OrderSubs -> 0..Most]
    BY <1>3 DEF Observe
  <1> QED BY <1>1, <1>2, <1>4

(* A tick keeps count of what it leaves out. *)
LEMMA TickCovers ==
  ASSUME OrderReconciliationAssumption, OrdersTypeOK, Coverage,
         NEW list \in Seq(OrderSubs), list # <<>>,
         offset' = Rotated(list, takeReconciliationBatch(list, offset)),
         Observe(list, takeReconciliationBatch(list, offset))
  PROVE  Coverage'
  <1> DEFINE n == Len(list)
             size == IF BatchSize < n THEN BatchSize ELSE n
             batch == takeReconciliationBatch(list, offset)
  <1>1. offset \in Nat /\ BatchSize \in Nat \ {0} /\ Most \in Nat
    BY OrdersConstants DEF OrdersTypeOK
  <1>2. /\ n \in Nat \ {0} /\ size \in 1..n /\ size <= BatchSize
        /\ batch \in Seq(OrderSubs) /\ Len(batch) = size
        /\ \A i \in 1..size : /\ ((offset + i - 1) % n) + 1 \in 1..n
                              /\ batch[i] = list[((offset + i - 1) % n) + 1]
    BY <1>1, BatchIsPart
  <1>3. offset' = (offset + size) % n
    BY <1>2 DEF Rotated
  <1>4. listed' = list /\ steady' \in 0..Most /\ passed' \in [OrderSubs -> 0..Most]
    BY ObserveType
  <1>5. offset' \in 0..n - 1
    <2> HIDE DEF n, size, batch
    <2>1. PICK x \in Nat : x = offset + size
      BY <1>1, <1>2
    <2> QED BY <1>2, <1>3, <2>1
  <1>6. ASSUME NEW i \in DOMAIN listed'
        PROVE  \/ passed'[listed'[i]] * BatchSize + Distance(offset', n, i) < n
               \/ steady' * BatchSize + Distance(offset', n, i) < n
    <2>1. i \in 1..n /\ list[i] \in OrderSubs /\ listed'[i] = list[i]
      BY <1>4
    <2>2. Distance(offset', n, i) \in 0..n - 1
      BY <1>2, <1>5, <2>1, DistanceType
    <2>3. CASE list # listed
      <3>1. steady' = 0
        BY <2>3 DEF Observe
      <3>2. steady' * BatchSize = 0
        BY <1>1, <3>1
      <3> HIDE DEF n
      <3>3. PICK d \in 0..n - 1 : d = Distance(offset', n, i)
        BY <2>2
      <3>4. steady' * BatchSize + d < n
        BY <1>2, <3>2, <3>3
      <3> QED BY <3>3, <3>4
    <2>4. CASE list[i] \in Range(batch)
      <3>1. passed'[list[i]] = 0
        BY <2>1, <2>4 DEF Observe
      <3>2. passed'[listed'[i]] * BatchSize = 0
        BY <1>1, <2>1, <3>1
      <3> HIDE DEF n
      <3>3. PICK d \in 0..n - 1 : d = Distance(offset', n, i)
        BY <2>2
      <3>4. passed'[listed'[i]] * BatchSize + d < n
        BY <1>2, <3>2, <3>3
      <3> QED BY <3>3, <3>4
    <2>5. CASE list = listed /\ list[i] \notin Range(batch)
      <3> DEFINE d == Distance(offset, n, i)
                 p == passed[list[i]]
      <3>1. offset \in 0..n - 1
        BY <1>1, <2>5 DEF Coverage, OrdersTypeOK
      <3>2. d \in 0..n - 1
        BY <1>2, <3>1, <2>1, DistanceType
      <3>3. d >= size
        <4> SUFFICES ASSUME d < size PROVE FALSE
          BY <1>2, <3>2
        <4> HIDE DEF n, size, batch
        <4>1. PICK k \in 1..size : ((offset + k - 1) % n) + 1 = i
          BY <1>2, <3>1, <2>1, RotationReaches DEF d
        <4>2. batch[k] = list[i] /\ k \in DOMAIN batch
          BY <1>2, <4>1
        <4> QED BY <4>2, <2>5 DEF Range
      <3>4. size = BatchSize
        BY <1>1, <1>2, <3>2, <3>3
      <3>5. Distance(offset', n, i) = d - BatchSize
        <4>1. Distance((offset + size) % n, n, i) = d - size
          BY <1>2, <3>1, <3>3, <2>1, RotationApproaches
        <4> QED BY <4>1, <1>3, <3>4
      <3>6. /\ p \in 0..Most /\ steady \in 0..Most
            /\ passed'[list[i]] = Saturated(p) /\ steady' = Saturated(steady)
        <4>1. list[i] \in Range(list)
          BY <2>1 DEF Range
        <4>2. passed'[list[i]] = Saturated(p)
          BY <2>1, <2>5, <4>1 DEF Observe
        <4>3. steady' = Saturated(steady)
          BY <2>5 DEF Observe
        <4>4. p \in 0..Most /\ steady \in 0..Most
          BY <2>1 DEF OrdersTypeOK
        <4> QED BY <4>2, <4>3, <4>4
      <3>7. p * BatchSize + d < n \/ steady * BatchSize + d < n
        BY <2>1, <2>5 DEF Coverage
      <3> HIDE DEF n, size, batch, d, p
      <3>8. ASSUME NEW k \in 0..Most, k * BatchSize + d < n
            PROVE  Saturated(k) * BatchSize + (d - BatchSize) < n
        <4>1. PICK m \in Nat : m = Saturated(k) /\ m <= k + 1
          BY SaturatedType, <1>1
        <4>2. m * BatchSize <= (k + 1) * BatchSize
          <5>1. PICK e \in Nat : k + 1 = m + e
            BY <4>1, <1>1, k + 1 - m \in Nat
          <5>2. (m + e) * BatchSize = m * BatchSize + e * BatchSize /\ e * BatchSize >= 0
            BY <1>1
          <5> QED BY <5>1, <5>2, <1>1
        <4>3. (k + 1) * BatchSize = k * BatchSize + BatchSize
          BY <1>1
        <4>4. m * BatchSize \in Int /\ k * BatchSize \in Int
          BY <1>1
        <4> QED BY <4>1, <4>2, <4>3, <4>4, <1>1, <1>2, <3>2, <3>8
      <3> QED BY <2>1, <3>5, <3>6, <3>7, <3>8
    <2> QED BY <2>3, <2>4, <2>5
  <1> QED BY <1>2, <1>4, <1>5, <1>6 DEF Coverage

(* The whole of a tick. *)
LEMMA ReconcileKeeps ==
  ASSUME OrderReconciliationAssumption, OrdersTypeOK, Coverage, Answers, Reconcile
  PROVE  /\ Coverage'
         /\ offset' \in 0..Cardinality(OrderSubs) - 1
         /\ Range(listed') \subseteq OrderSubs
         /\ steady' \in 0..Most /\ passed' \in [OrderSubs -> 0..Most]
         /\ sweep' = sweep \/ /\ sweep'.at = "asking" /\ sweep'.terminal = {}
                              /\ sweep'.asked = {OrderOf[s] : s \in Range(sweep'.batch)}
         /\ sweep' \in [at : {"idle", "asking"}, batch : Seq(OrderSubs),
                        asked : SUBSET Orders, terminal : SUBSET Orders]
         /\ Len(sweep'.batch) <= BatchSize /\ IsInjective(sweep'.batch)
  <1> DEFINE N == Cardinality(OrderSubs)
  <1>1. PICK list \in Seq(OrderSubs) :
          /\ list = DesiredOrders /\ Len(list) <= N
          /\ \A i, j \in DOMAIN list : list[i] = list[j] => i = j
    BY DesiredIsPart
  <1> DEFINE n == Len(list)
             size == IF BatchSize < n THEN BatchSize ELSE n
             batch == takeReconciliationBatch(list, offset)
  <1>2. offset \in Nat /\ BatchSize \in Nat \ {0} /\ N \in Nat \ {0}
    BY OrdersConstants DEF OrdersTypeOK
  <1>3. CASE list = <<>>
    <2>1. UNCHANGED <<offset, sweep>> /\ Observe(list, <<>>)
      BY <1>1, <1>3 DEF Reconcile
    <2>2. /\ listed' = list /\ Range(listed') \subseteq OrderSubs
          /\ steady' \in 0..Most /\ passed' \in [OrderSubs -> 0..Most]
      BY <2>1, ObserveType
    <2>3. Coverage'
      BY <2>2, <1>3 DEF Coverage
    <2> QED BY <2>1, <2>2, <2>3 DEF OrdersTypeOK, Answers
  <1>4. CASE list # <<>>
    <2>1. /\ offset' = Rotated(list, batch) /\ Observe(list, batch)
          /\ sweep' = [at |-> "asking", batch |-> batch,
                       asked |-> {OrderOf[s] : s \in Range(batch)}, terminal |-> {}]
      BY <1>1, <1>4 DEF Reconcile
    <2>2. Coverage'
      BY <1>4, <2>1, TickCovers
    <2>3. /\ n \in Nat \ {0} /\ size \in 1..n /\ size <= BatchSize
          /\ batch \in Seq(OrderSubs) /\ Len(batch) = size
          /\ \A i \in 1..size : /\ ((offset + i - 1) % n) + 1 \in 1..n
                                /\ batch[i] = list[((offset + i - 1) % n) + 1]
      BY <1>2, <1>4, BatchIsPart
    <2>4. /\ listed' = list /\ Range(listed') \subseteq OrderSubs
          /\ steady' \in 0..Most /\ passed' \in [OrderSubs -> 0..Most]
      BY <2>1, ObserveType
    <2>5. offset' \in 0..N - 1
      <3>1. offset' < Len(list) /\ offset' \in Nat
        <4>1. offset' = (offset + size) % n
          BY <2>1, <2>3 DEF Rotated
        <4> HIDE DEF n, size, batch
        <4>2. PICK x \in Nat : x = offset + size
          BY <1>2, <2>3
        <4>3. offset' = x % n
          BY <4>1, <4>2
        <4> QED BY <2>3, <4>3 DEF n
      <3> QED BY <1>1, <1>2, <2>3, <3>1
    <2>6. IsInjective(batch)
      <3> SUFFICES ASSUME NEW i \in 1..size, NEW j \in 1..size, batch[i] = batch[j]
                   PROVE  i = j
        <4>1. DOMAIN batch = 1..size
          BY <2>3
        <4> HIDE DEF batch, size
        <4> QED BY <4>1 DEF IsInjective
      <3> HIDE DEF n, size, batch
      <3>1. ((offset + i - 1) % n) + 1 = ((offset + j - 1) % n) + 1
        <4>1. batch[i] = list[((offset + i - 1) % n) + 1] /\
                batch[j] = list[((offset + j - 1) % n) + 1]
          BY <2>3
        <4>2. ((offset + i - 1) % n) + 1 \in DOMAIN list /\
                ((offset + j - 1) % n) + 1 \in DOMAIN list
          BY <2>3 DEF n
        <4> QED BY <1>1, <4>1, <4>2
      <3>2. PICK x \in Nat, y \in Nat : x = offset + i - 1 /\ y = offset + j - 1
        BY <1>2, <2>3
      <3>3. x % n = y % n
        <4>1. x % n \in Nat /\ y % n \in Nat
          BY <2>3
        <4> QED BY <3>1, <3>2, <4>1
      <3>4. (offset + i - 1) % n = (offset + j - 1) % n
        BY <3>2, <3>3
      <3> QED BY <1>2, <2>3, <3>4, BatchInjective
    <2>7. {OrderOf[s] : s \in Range(batch)} \subseteq Orders
      BY <2>3 DEF Range, OrderReconciliationAssumption
    <2> HIDE DEF batch, size
    <2> QED BY <2>1, <2>2, <2>3, <2>4, <2>5, <2>6, <2>7
  <1> QED BY <1>3, <1>4

-----------------------------------------------------------------------------
(* The invariant holds before the first session. *)
LEMMA OrdersInitInv ==
  ASSUME OrderReconciliationAssumption, OrdersInit
  PROVE  OrdersIInv
  <1>1. OrdersTypeOK
    <2>1. 0 \in 0..Cardinality(OrderSubs) - 1 /\ 0 \in 0..Most /\ 0 \in 0..MaxCrashes
          /\ 0 \in 0..SessionTicks + 1
      BY OrdersConstants
    <2>2. /\ Len(NoSweep.batch) <= BatchSize /\ IsInjective(NoSweep.batch)
          /\ Range(NoSweep.batch) = {}
      BY OrdersConstants DEF NoSweep, IsInjective, Range
    <2>3. Range(<<>>) \subseteq OrderSubs
      BY DEF Range
    <2> QED BY <2>1, <2>2, <2>3 DEF OrdersInit, OrdersTypeOK, NoSweep
  <1>2. Coverage
    BY DEF OrdersInit, Coverage
  <1>3. Answers
    <2>1. NoSweep \in [at : {"idle", "asking"}, batch : Seq(OrderSubs),
                       asked : SUBSET Orders, terminal : SUBSET Orders]
      BY DEF NoSweep
    <2> QED BY <2>1 DEF OrdersInit, Answers, NoSweep, NoFalseOrderWake
  <1> QED BY <1>1, <1>2, <1>3 DEF OrdersIInv

(* The first subscription of the batch to an order it asks about. *)
LEMMA FirstForWatches ==
  ASSUME OrderReconciliationAssumption, Answers, NEW o \in sweep.asked \cup sweep.terminal
  PROVE  FirstFor(o) \in OrderSubs /\ OrderOf[FirstFor(o)] = o
  <1> DEFINE places == {i \in DOMAIN sweep.batch : OrderOf[sweep.batch[i]] = o}
  <1>1. sweep.batch \in Seq(OrderSubs)
    BY DEF Answers
  <1>2. places \in SUBSET Nat /\ places # {}
    BY <1>1 DEF Answers
  <1> HIDE DEF places
  <1>3. \E x \in places : \A y \in places : x <= y
    BY <1>2, SmallestPlace
  <1>4. Min(places) \in places
    BY <1>3 DEF Min
  <1>5. FirstFor(o) = sweep.batch[Min(places)]
    BY DEF FirstFor, places
  <1>6. Min(places) \in DOMAIN sweep.batch /\ OrderOf[sweep.batch[Min(places)]] = o
    BY <1>4 DEF places
  <1>7. sweep.batch[Min(places)] \in OrderSubs
    BY <1>1, <1>6
  <1> QED BY <1>5, <1>6, <1>7

(* Routing sends an update to one who watches its order. *)
LEMMA RoutingWatches ==
  ASSUME OrderReconciliationAssumption, NEW o \in Orders
  PROVE  \/ Routing(DesiredOrders)[o] = None
         \/ /\ Routing(DesiredOrders)[o] \in OrderSubs
            /\ OrderOf[Routing(DesiredOrders)[o]] = o
  <1>1. PICK list \in Seq(OrderSubs) : list = DesiredOrders
    BY DesiredIsPart
  <1> DEFINE watching == {i \in DOMAIN list : OrderOf[list[i]] = o}
  <1>2. Routing(list)[o] = IF watching = {} THEN None ELSE list[Max(watching)]
    BY DEF Routing
  <1>3. ASSUME watching # {} PROVE Max(watching) \in watching
    <2>1. watching \in SUBSET Nat /\ \A i \in watching : i <= Len(list)
      BY <1>1
    <2>2. Len(list) \in Nat
      BY <1>1
    <2> HIDE DEF watching
    <2>3. \E x \in watching : \A y \in watching : x >= y
      BY <1>3, <2>1, <2>2, LargestPlace
    <2> QED BY <2>3 DEF Max
  <1>4. CASE watching = {}
    <2>1. Routing(list)[o] = None
      BY <1>2, <1>4
    <2>2. Routing(DesiredOrders) = Routing(list)
      BY <1>1
    <2>3. Routing(DesiredOrders)[o] = None
      BY ONLY <2>1, <2>2, Zenon
    <2> QED BY ONLY <2>3, Zenon
  <1>5. CASE watching # {}
    <2>1. Max(watching) \in DOMAIN list /\ OrderOf[list[Max(watching)]] = o
      BY <1>3, <1>5
    <2> HIDE DEF watching
    <2>2. list[Max(watching)] \in OrderSubs
      BY <1>1, <2>1
    <2> QED BY <1>1, <1>2, <1>5, <2>1, <2>2
  <1> QED BY <1>4, <1>5

(* Every action keeps the types. *)
LEMMA OrdersTypeStep ==
  ASSUME OrderReconciliationAssumption, OrdersIInv, OrdersNext
  PROVE  OrdersTypeOK'
  <1> USE DEF OrdersIInv, stream, history
  <1>1. ASSUME NEW s \in OrderSubs, ArmOrder(s) PROVE OrdersTypeOK'
    <2>1. 0 \in 0..Most
      BY OrdersConstants
    <2> QED BY <1>1, <2>1 DEF ArmOrder, OrdersTypeOK
  <1>2. ASSUME NEW s \in OrderSubs, OrderExpires(s) PROVE OrdersTypeOK'
    BY <1>2 DEF OrderExpires, OrdersTypeOK
  <1>3. ASSUME NEW o \in Orders, OrderEnds(o) PROVE OrdersTypeOK'
    BY <1>3 DEF OrderEnds, OrdersTypeOK
  <1>4. ASSUME NEW o \in Orders, handleLiveTradeUpdate(o) PROVE OrdersTypeOK'
    BY <1>4 DEF handleLiveTradeUpdate, DeliverOrders, OrdersTypeOK
  <1>5. ASSUME NEW o \in Orders, Lookup(o) PROVE OrdersTypeOK'
    <2>1. /\ sweep'.at = sweep.at /\ sweep'.batch = sweep.batch
          /\ sweep'.asked \subseteq Orders /\ sweep'.terminal \subseteq Orders
      BY <1>5 DEF Lookup, Answers
    <2> QED BY <1>5, <2>1 DEF Lookup, OrdersTypeOK
  <1>6. ASSUME NEW o \in Orders, LookupFails(o) PROVE OrdersTypeOK'
    <2>1. /\ sweep'.at = sweep.at /\ sweep'.batch = sweep.batch
          /\ sweep'.asked \subseteq Orders /\ sweep'.terminal \subseteq Orders
      BY <1>6 DEF LookupFails, Answers
    <2> QED BY <1>6, <2>1 DEF LookupFails, OrdersTypeOK
  <1>7. CASE TradingDrops
    BY <1>7 DEF TradingDrops, OrdersTypeOK
  <1>8. CASE TradingReconnects
    BY <1>8 DEF TradingReconnects, OrdersTypeOK
  <1>9. ASSUME Reconcile
        PROVE  /\ route' \in [Orders -> OrderSubs \cup {None}]
               /\ offset' \in 0..Cardinality(OrderSubs) - 1
               /\ sweep'.at \in {"idle", "asking"} /\ Len(sweep'.batch) <= BatchSize
               /\ Range(sweep'.batch) \subseteq OrderSubs /\ IsInjective(sweep'.batch)
               /\ sweep'.asked \subseteq Orders /\ sweep'.terminal \subseteq Orders
               /\ Range(listed') \subseteq OrderSubs
               /\ steady' \in 0..Most /\ passed' \in [OrderSubs -> 0..Most]
    <2>1. route' \in [Orders -> OrderSubs \cup {None}]
      <3>1. route' = Routing(DesiredOrders)
        BY <1>9 DEF Reconcile
      <3>2. \A o \in Orders : Routing(DesiredOrders)[o] \in OrderSubs \cup {None}
        BY RoutingWatches
      <3>3. Routing(DesiredOrders) = [o \in Orders |-> Routing(DesiredOrders)[o]]
        BY DEF Routing
      <3> QED BY <3>1, <3>2, <3>3
    <2>2. /\ offset' \in 0..Cardinality(OrderSubs) - 1
          /\ Range(listed') \subseteq OrderSubs
          /\ steady' \in 0..Most /\ passed' \in [OrderSubs -> 0..Most]
          /\ sweep' \in [at : {"idle", "asking"}, batch : Seq(OrderSubs),
                         asked : SUBSET Orders, terminal : SUBSET Orders]
          /\ Len(sweep'.batch) <= BatchSize /\ IsInjective(sweep'.batch)
      BY <1>9, ReconcileKeeps
    <2>3. /\ sweep'.at \in {"idle", "asking"} /\ sweep'.batch \in Seq(OrderSubs)
          /\ sweep'.asked \subseteq Orders /\ sweep'.terminal \subseteq Orders
      BY <2>2
    <2>4. Range(sweep'.batch) \subseteq OrderSubs
      BY <2>3 DEF Range
    <2> QED BY <2>1, <2>2, <2>3, <2>4
  <1>10. CASE StartOrders
    <2>1. 0 \in 0..SessionTicks + 1
      BY OrdersConstants
    <2>2. Reconcile
      BY <1>10 DEF StartOrders
    <2> QED BY <1>9, <1>10, <2>1, <2>2 DEF StartOrders, OrdersTypeOK
  <1>11. CASE recheckOrderMembership
    <2>1. ticks + 1 \in 0..SessionTicks + 1
      BY <1>11, OrdersConstants DEF recheckOrderMembership, OrdersTypeOK
    <2>2. Reconcile
      BY <1>11 DEF recheckOrderMembership
    <2> QED BY <1>9, <1>11, <2>1, <2>2 DEF recheckOrderMembership, OrdersTypeOK
  <1>12. /\ 0 \in 0..SessionTicks + 1 /\ 0 \in 0..Cardinality(OrderSubs) - 1 /\ 0 \in 0..Most
         /\ NoSweep.at = "idle" /\ Len(NoSweep.batch) <= BatchSize
         /\ Range(NoSweep.batch) \subseteq OrderSubs /\ IsInjective(NoSweep.batch)
         /\ NoSweep.asked \subseteq Orders /\ NoSweep.terminal \subseteq Orders
         /\ Range(<<>>) \subseteq OrderSubs
    BY OrdersConstants DEF NoSweep, IsInjective, Range
  <1>13. CASE DecideOrders
    BY <1>12, <1>13 DEF DecideOrders, DeliverOrders, OrdersTypeOK
  <1>14. CASE EndOrders
    BY <1>12, <1>14 DEF EndOrders, OrdersEnd, OrdersTypeOK
  <1>15. CASE CrashOrders
    <2>1. crashes + 1 \in 0..MaxCrashes
      BY <1>15, OrdersConstants DEF CrashOrders, OrdersTypeOK
    <2> QED BY <1>12, <1>15, <2>1 DEF CrashOrders, OrdersEnd, OrdersTypeOK
  <1> QED
    BY <1>1, <1>2, <1>3, <1>4, <1>5, <1>6, <1>7, <1>8, <1>10, <1>11, <1>13, <1>14, <1>15
    DEF OrdersNext

(* Every action keeps the count of the batches that leave an order out. *)
LEMMA CoverageStep ==
  ASSUME OrderReconciliationAssumption, OrdersIInv, OrdersNext
  PROVE  Coverage'
  <1> USE DEF OrdersIInv, stream, history
  <1>1. ASSUME NEW s \in OrderSubs, ArmOrder(s) PROVE Coverage'
    <2>1. ASSUME NEW i \in DOMAIN listed
          PROVE  LET d == Distance(offset, Len(listed), i)
                 IN \/ passed'[listed[i]] * BatchSize + d < Len(listed)
                    \/ steady * BatchSize + d < Len(listed)
      <3> DEFINE d == Distance(offset, Len(listed), i)
      <3>1. /\ Len(listed) \in Nat \ {0} /\ i \in 1..Len(listed) /\ listed[i] \in OrderSubs
            /\ offset \in 0..Len(listed) - 1
        BY DEF Coverage, OrdersTypeOK
      <3>2. d \in 0..Len(listed) - 1
        BY <3>1, DistanceType
      <3>3. CASE listed[i] = s
        <4>1. passed'[listed[i]] = 0
          BY <1>1, <3>1, <3>3 DEF ArmOrder, OrdersTypeOK
        <4>2. passed'[listed[i]] * BatchSize = 0
          BY <4>1, OrdersConstants
        <4> HIDE DEF d
        <4> QED BY <3>1, <3>2, <4>2 DEF d
      <3>4. CASE listed[i] # s
        <4>1. passed'[listed[i]] = passed[listed[i]]
          BY <1>1, <3>1, <3>4 DEF ArmOrder, OrdersTypeOK
        <4> QED BY <4>1 DEF Coverage
      <3> QED BY <3>3, <3>4
    <2> QED BY <1>1, <2>1 DEF ArmOrder, Coverage
  <1>2. ASSUME NEW s \in OrderSubs, OrderExpires(s) PROVE Coverage'
    BY <1>2 DEF OrderExpires, Coverage
  <1>3. ASSUME NEW o \in Orders, OrderEnds(o) PROVE Coverage'
    BY <1>3 DEF OrderEnds, Coverage
  <1>4. ASSUME NEW o \in Orders, handleLiveTradeUpdate(o) PROVE Coverage'
    BY <1>4 DEF handleLiveTradeUpdate, Coverage
  <1>5. ASSUME NEW o \in Orders, Lookup(o) PROVE Coverage'
    BY <1>5 DEF Lookup, Coverage
  <1>6. ASSUME NEW o \in Orders, LookupFails(o) PROVE Coverage'
    BY <1>6 DEF LookupFails, Coverage
  <1>7. CASE TradingDrops
    BY <1>7 DEF TradingDrops, Coverage
  <1>8. CASE TradingReconnects
    BY <1>8 DEF TradingReconnects, Coverage
  <1>9. CASE StartOrders
    BY <1>9, ReconcileKeeps DEF StartOrders
  <1>10. CASE recheckOrderMembership
    BY <1>10, ReconcileKeeps DEF recheckOrderMembership
  <1>11. CASE DecideOrders
    BY <1>11 DEF DecideOrders, Coverage
  <1>12. CASE EndOrders
    BY <1>12 DEF EndOrders, OrdersEnd, Coverage
  <1>13. CASE CrashOrders
    BY <1>13 DEF CrashOrders, OrdersEnd, Coverage
  <1> QED
    BY <1>1, <1>2, <1>3, <1>4, <1>5, <1>6, <1>7, <1>8, <1>9, <1>10, <1>11, <1>12, <1>13
    DEF OrdersNext

(* Deliveries wake only those whose order has ended. *)
LEMMA DeliveriesAreTrue ==
  ASSUME OrderReconciliationAssumption, OrdersTypeOK, NoFalseOrderWake, NEW targets,
         \A s \in targets \cap OrderSubs : order[OrderOf[s]] = "terminal",
         DeliverOrders(targets), UNCHANGED order
  PROVE  NoFalseOrderWake'
  BY DEF DeliverOrders, NoFalseOrderWake

(* Every action keeps what is known of orders that have ended. *)
LEMMA AnswersStep ==
  ASSUME OrderReconciliationAssumption, OrdersIInv, OrdersNext
  PROVE  Answers'
  <1> USE DEF OrdersIInv, stream, history
  <1>1. ASSUME NEW s \in OrderSubs, ArmOrder(s) PROVE Answers'
    BY <1>1 DEF ArmOrder, Answers, OrdersTypeOK, NoFalseOrderWake
  <1>2. ASSUME NEW s \in OrderSubs, OrderExpires(s) PROVE Answers'
    BY <1>2 DEF OrderExpires, Answers, OrdersTypeOK, NoFalseOrderWake
  <1>3. ASSUME NEW o \in Orders, OrderEnds(o) PROVE Answers'
    <2>1. \A x \in Orders : order'[x] = IF x = o THEN "terminal" ELSE order[x]
      BY <1>3 DEF OrderEnds, OrdersTypeOK
    <2>2. \A x \in frames' : x = o \/ x \in frames
      BY <1>3 DEF OrderEnds
    <2>3. \A s \in OrderSubs : OrderOf[s] \in Orders
      BY DEF OrderReconciliationAssumption
    <2>4. sweep.terminal \subseteq Orders /\ frames \subseteq Orders
      BY DEF OrdersTypeOK
    <2>5. NoFalseOrderWake'
      BY <1>3, <2>1, <2>3 DEF OrderEnds, Answers, NoFalseOrderWake
    <2>6. \A x \in frames' \cup sweep'.terminal : order'[x] = "terminal"
      BY <1>3, <2>1, <2>2, <2>4 DEF OrderEnds, Answers
    <2> QED BY <1>3, <2>5, <2>6 DEF OrderEnds, Answers
  <1>4. ASSUME NEW o \in Orders, handleLiveTradeUpdate(o) PROVE Answers'
    <2>1. order[o] = "terminal" /\ (route[o] # None => OrderOf[route[o]] = o)
      BY <1>4 DEF handleLiveTradeUpdate, Answers
    <2>2. \A s \in {route[o]} \cap OrderSubs : order[OrderOf[s]] = "terminal"
      BY <2>1 DEF OrderReconciliationAssumption
    <2>3. NoFalseOrderWake'
      <3>1. CASE DeliverOrders({route[o]})
        BY <1>4, <2>2, <3>1, DeliveriesAreTrue DEF handleLiveTradeUpdate, Answers
      <3>2. CASE UNCHANGED orderSub
        BY <1>4, <3>2 DEF handleLiveTradeUpdate, Answers, NoFalseOrderWake
      <3> QED BY <1>4, <3>1, <3>2 DEF handleLiveTradeUpdate
    <2> QED BY <1>4, <2>3 DEF handleLiveTradeUpdate, Answers
  <1>5. ASSUME NEW o \in Orders, Lookup(o) PROVE Answers'
    <2>1. /\ sweep' \in [at : {"idle", "asking"}, batch : Seq(OrderSubs),
                         asked : SUBSET Orders, terminal : SUBSET Orders]
          /\ sweep'.batch = sweep.batch /\ sweep'.asked = sweep.asked \ {o}
          /\ sweep'.terminal = IF IsTerminal(o) THEN sweep.terminal \cup {o} ELSE sweep.terminal
          /\ o \in sweep.asked
      BY <1>5 DEF Lookup, Answers
    <2>2. \A x \in sweep'.asked \cup sweep'.terminal : x \in sweep.asked \cup sweep.terminal
      BY <2>1
    <2>3. \A x \in frames \cup sweep'.terminal : order[x] = "terminal"
      BY <2>1 DEF Answers, IsTerminal
    <2> QED BY <1>5, <2>1, <2>2, <2>3 DEF Lookup, Answers, NoFalseOrderWake
  <1>6. ASSUME NEW o \in Orders, LookupFails(o) PROVE Answers'
    <2>1. /\ sweep' \in [at : {"idle", "asking"}, batch : Seq(OrderSubs),
                         asked : SUBSET Orders, terminal : SUBSET Orders]
          /\ sweep'.batch = sweep.batch /\ sweep'.asked = sweep.asked \ {o}
          /\ sweep'.terminal = sweep.terminal
      BY <1>6 DEF LookupFails, Answers
    <2> QED BY <1>6, <2>1 DEF LookupFails, Answers, NoFalseOrderWake
  <1>7. CASE TradingDrops
    BY <1>7 DEF TradingDrops, Answers, NoFalseOrderWake
  <1>8. CASE TradingReconnects
    BY <1>8 DEF TradingReconnects, Answers, NoFalseOrderWake
  <1>9. ASSUME Reconcile, UNCHANGED <<orderSub, order, frames>> PROVE Answers'
    <2>1. \A x \in Orders : route'[x] # None => route'[x] \in OrderSubs /\ OrderOf[route'[x]] = x
      BY <1>9, RoutingWatches DEF Reconcile
    <2>2. sweep' \in [at : {"idle", "asking"}, batch : Seq(OrderSubs),
                      asked : SUBSET Orders, terminal : SUBSET Orders]
      BY <1>9, ReconcileKeeps
    <2>3. \/ sweep' = sweep
          \/ sweep'.terminal = {} /\ sweep'.asked = {OrderOf[s] : s \in Range(sweep'.batch)}
      BY <1>9, ReconcileKeeps
    <2>4. NoFalseOrderWake'
      BY <1>9 DEF Answers, NoFalseOrderWake
    <2>5. CASE sweep' = sweep
      BY <1>9, <2>1, <2>4, <2>5 DEF Answers
    <2>6. CASE sweep'.terminal = {} /\ sweep'.asked = {OrderOf[s] : s \in Range(sweep'.batch)}
      <3>1. \A o \in sweep'.asked \cup sweep'.terminal :
              \E i \in DOMAIN sweep'.batch : OrderOf[sweep'.batch[i]] = o
        BY <2>6 DEF Range
      <3>2. \A o \in frames' \cup sweep'.terminal : order'[o] = "terminal"
        BY <1>9, <2>6 DEF Answers
      <3> QED BY <2>1, <2>2, <2>4, <3>1, <3>2 DEF Answers
    <2> QED BY <2>3, <2>5, <2>6
  <1>10. CASE StartOrders
    BY <1>9, <1>10 DEF StartOrders
  <1>11. CASE recheckOrderMembership
    BY <1>9, <1>11 DEF recheckOrderMembership
  <1>12. NoSweep \in [at : {"idle", "asking"}, batch : Seq(OrderSubs),
                      asked : SUBSET Orders, terminal : SUBSET Orders]
         /\ NoSweep.asked = {} /\ NoSweep.terminal = {}
    BY DEF NoSweep
  <1>13. CASE DecideOrders
    <2> DEFINE targets == {FirstFor(o) : o \in sweep.terminal}
    <2>1. \A s \in targets \cap OrderSubs : order[OrderOf[s]] = "terminal"
      BY FirstForWatches DEF Answers
    <2>2. DeliverOrders(targets) /\ UNCHANGED order
      BY <1>13 DEF DecideOrders
    <2> HIDE DEF targets
    <2>3. NoFalseOrderWake'
      BY <2>1, <2>2, DeliveriesAreTrue DEF Answers
    <2> QED BY <1>12, <1>13, <2>3 DEF DecideOrders, Answers
  <1>14. ASSUME OrdersEnd PROVE Answers'
    <2>1. \A x \in Orders : route'[x] = None
      BY <1>14 DEF OrdersEnd
    <2>2. NoFalseOrderWake'
      BY <1>14 DEF OrdersEnd, Answers, NoFalseOrderWake
    <2> QED BY <1>12, <1>14, <2>1, <2>2 DEF OrdersEnd, Answers
  <1>15. CASE EndOrders
    BY <1>14, <1>15 DEF EndOrders
  <1>16. CASE CrashOrders
    BY <1>14, <1>16 DEF CrashOrders
  <1> QED
    BY <1>1, <1>2, <1>3, <1>4, <1>5, <1>6, <1>7, <1>8, <1>10, <1>11, <1>13, <1>15, <1>16
    DEF OrdersNext

(* The invariant holds of every behaviour, from the constants' assumption. *)
LEMMA OrdersInductive ==
  ASSUME OrderReconciliationAssumption
  PROVE  OrdersSpec => []OrdersIInv
  <1>1. OrdersInit => OrdersIInv
    BY OrdersInitInv
  <1>2. OrdersIInv /\ [OrdersNext]_ordersVars => OrdersIInv'
    <2> SUFFICES ASSUME OrdersIInv, [OrdersNext]_ordersVars PROVE OrdersIInv'
      OBVIOUS
    <2>1. CASE OrdersNext
      BY <2>1, OrdersTypeStep, CoverageStep, AnswersStep DEF OrdersIInv
    <2>2. CASE UNCHANGED ordersVars
      BY <2>2 DEF ordersVars, stream, history, OrdersIInv, OrdersTypeOK, Coverage, Answers,
                  NoFalseOrderWake
    <2> QED BY <2>1, <2>2
  <1> QED BY <1>1, <1>2, PTL DEF OrdersSpec

-----------------------------------------------------------------------------
(* The gap replay                                                           *)

-----------------------------------------------------------------------------
(* What the order of trades is told by. *)
LEMMA CompareTransitive ==
  ASSUME NEW x, NEW y, NEW z,
         x.timestamp \in [ms : Nat, ns : Nat], y.timestamp \in [ms : Nat, ns : Nat],
         z.timestamp \in [ms : Nat, ns : Nat],
         x.exchange \in Nat, y.exchange \in Nat, z.exchange \in Nat,
         x.id \in Nat, y.id \in Nat, z.id \in Nat,
         compareReplayTrades(x, y), compareReplayTrades(y, z)
  PROVE  compareReplayTrades(x, z)
  BY DEF compareReplayTrades, Earlier

(* No trade is before itself. *)
LEMMA CompareIrreflexive ==
  ASSUME NEW x, x.timestamp \in [ms : Nat, ns : Nat], x.exchange \in Nat, x.id \in Nat
  PROVE  ~ compareReplayTrades(x, x)
  BY DEF compareReplayTrades, Earlier

(* Of two trades that differ in timestamp, exchange or id, one is before the other. *)
LEMMA CompareTotal ==
  ASSUME NEW x, NEW y,
         x.timestamp \in [ms : Nat, ns : Nat], y.timestamp \in [ms : Nat, ns : Nat],
         x.exchange \in Nat, y.exchange \in Nat, x.id \in Nat, y.id \in Nat,
         x.timestamp # y.timestamp \/ x.exchange # y.exchange \/ x.id # y.id
  PROVE  compareReplayTrades(x, y) \/ compareReplayTrades(y, x)
  BY DEF compareReplayTrades, Earlier

(* What trades are compared by are numbers. *)
LEMMA ReplayTradeNumbers ==
  ASSUME GapReplayAssumption, NEW x \in ReplayTrades
  PROVE  x.timestamp \in [ms : Nat, ns : Nat] /\ x.exchange \in Nat /\ x.id \in Nat
  <1>1. /\ \A n \in 1..MaxMs : n \in Nat
        /\ \A n \in 0..MaxNs : n \in Nat
        /\ \A n \in 1..MaxGapTrades : n \in Nat
        /\ \A n \in Exchange : n \in Nat
    BY DEF GapReplayAssumption
  <1>2. /\ x.timestamp \in [ms : 1..MaxMs, ns : 0..MaxNs]
        /\ x.exchange \in Exchange /\ x.id \in 1..MaxGapTrades
    BY DEF ReplayTrades
  <1> QED BY <1>1, <1>2

(* A finite set of trades that are told apart by their keys can be sorted. *)
LEMMA SortedExists ==
  ASSUME GapReplayAssumption, NEW S \in SUBSET ReplayTrades, IsFiniteSet(S),
         \A x, y \in S : \/ x = y
                         \/ x.timestamp # y.timestamp \/ x.exchange # y.exchange \/ x.id # y.id
  PROVE  /\ Cardinality(S) \in Nat
         /\ Sorted(S) \in [1..Cardinality(S) -> S]
         /\ \A i, j \in 1..Cardinality(S) : i < j =>
              compareReplayTrades(Sorted(S)[i], Sorted(S)[j])
  <1> DEFINE places == 1..Cardinality(S)
             upTo(x) == {y \in S : y = x \/ compareReplayTrades(y, x)}
             rank == [x \in S |-> Cardinality(upTo(x))]
  <1>1. Cardinality(S) \in Nat
    BY FS_CardinalityType
  <1>2. \A x \in S : /\ x.timestamp \in [ms : Nat, ns : Nat] /\ x.exchange \in Nat /\ x.id \in Nat
    BY ReplayTradeNumbers
  <1>3. ASSUME NEW x \in S
        PROVE  IsFiniteSet(upTo(x)) /\ Cardinality(upTo(x)) \in places
    <2>1. IsFiniteSet(upTo(x)) /\ Cardinality(upTo(x)) <= Cardinality(S)
      BY FS_Subset, upTo(x) \in SUBSET S
    <2>2. Cardinality(upTo(x)) \in Nat /\ Cardinality(upTo(x)) # 0
      BY <2>1, FS_CardinalityType, FS_EmptySet, x \in upTo(x)
    <2> QED BY <2>1, <2>2, <1>1
  <1>4. ASSUME NEW x \in S, NEW y \in S, compareReplayTrades(x, y)
        PROVE  rank[x] < rank[y]
    <2>1. ASSUME NEW z \in upTo(x) PROVE z \in upTo(y)
      <3>1. z \in S /\ (z = x \/ compareReplayTrades(z, x))
        OBVIOUS
      <3>2. compareReplayTrades(z, x) => compareReplayTrades(z, y)
        BY <3>1, <1>2, <1>4, CompareTransitive
      <3> QED BY <3>1, <3>2, <1>4
    <2>2. y \in upTo(y)
      OBVIOUS
    <2>3. y \notin upTo(x)
      <3>1. y # x /\ ~ compareReplayTrades(y, x)
        <4>1. ~ compareReplayTrades(y, y)
          BY <1>2, CompareIrreflexive
        <4>2. compareReplayTrades(y, x) => compareReplayTrades(y, y)
          BY <1>2, <1>4, CompareTransitive
        <4> QED BY <4>1, <4>2, <1>4
      <3> QED BY <3>1
    <2>4. upTo(x) \in SUBSET upTo(y)
      BY <2>1
    <2> HIDE DEF upTo
    <2>5. Cardinality(upTo(x)) <= Cardinality(upTo(y))
          /\ Cardinality(upTo(x)) # Cardinality(upTo(y))
      BY ONLY <2>2, <2>3, <2>4, <1>3, FS_Subset
    <2>6. Cardinality(upTo(x)) \in Nat /\ Cardinality(upTo(y)) \in Nat
      BY <1>1, <1>3
    <2> QED BY <2>5, <2>6
  <1>5. rank \in [S -> places]
    BY <1>3
  <1>6. \A x, y \in S : rank[x] = rank[y] => x = y
    <2> SUFFICES ASSUME NEW x \in S, NEW y \in S, rank[x] = rank[y], x # y PROVE FALSE
      OBVIOUS
    <2>1. compareReplayTrades(x, y) \/ compareReplayTrades(y, x)
      BY <1>2, CompareTotal
    <2>2. rank[x] < rank[y] \/ rank[y] < rank[x]
      BY <2>1, <1>4
    <2>3. rank[x] \in Nat
      BY <1>5, <1>1
    <2> HIDE DEF rank
    <2> QED BY <2>2, <2>3
  <1>7. \A k \in places : \E x \in S : rank[x] = k
    <2>1. IsFiniteSet(places) /\ Cardinality(places) = Cardinality(S)
      BY <1>1, FS_Interval
    <2> HIDE DEF rank, places
    <2>2. rank \in Injection(S, places)
      BY <1>5, <1>6 DEF Injection, IsInjective
    <2>3. rank \in Surjection(S, places)
      BY <2>1, <2>2, FS_Injection
    <2> QED BY <2>3 DEF Surjection
  <1> DEFINE f == [k \in places |-> CHOOSE x \in S : rank[x] = k]
  <1>8. \A k \in places : f[k] \in S /\ rank[f[k]] = k
    BY <1>7
  <1>9. f \in [places -> S]
    BY <1>8
  <1>10. ASSUME NEW i \in places, NEW j \in places, i < j
         PROVE  f[i] # f[j] /\ ~ compareReplayTrades(f[j], f[i])
    <2>1. f[i] \in S /\ f[j] \in S /\ rank[f[i]] = i /\ rank[f[j]] = j
      BY <1>8
    <2> HIDE DEF f, rank
    <2>2. compareReplayTrades(f[j], f[i]) => j < i
      BY <2>1, <1>4
    <2>3. f[i] = f[j] => i = j
      BY <2>1
    <2> QED BY <2>2, <2>3, <1>10, <1>1
  <1> HIDE DEF f, rank, upTo
  <1>11. \E g \in [places -> S] :
           \A i, j \in places : i < j => g[i] # g[j] /\ ~ compareReplayTrades(g[j], g[i])
    BY <1>9, <1>10
  <1> DEFINE list == Sorted(S)
  <1>12. /\ list \in [places -> S]
         /\ \A i, j \in places : i < j => list[i] # list[j] /\ ~ compareReplayTrades(list[j],
                 list[i])
    BY <1>11 DEF Sorted
  <1> HIDE DEF list
  <1>13. ASSUME NEW i \in places, NEW j \in places, i < j
         PROVE  compareReplayTrades(list[i], list[j])
    <2>1. list[i] \in S /\ list[j] \in S
      BY <1>12
    <2>2. list[i] # list[j] /\ ~ compareReplayTrades(list[j], list[i])
      BY <1>12, <1>13
    <2> QED BY <2>1, <2>2, <1>2, CompareTotal
  <1> QED BY <1>1, <1>12, <1>13 DEF list

-----------------------------------------------------------------------------
Prints == [ms : 1..MaxMs, ns : 0..MaxNs, exchange : Exchange, id : 1..MaxGapTrades,
           price : GapPrice]

(* The trades there were, in the order in which they happened. *)
TapeInOrder ==
  /\ tape \in Seq(Prints)
  /\ \A i \in 1..Len(tape) : tape[i].id = i /\ tape[i].exchange \in venues
  /\ \A i, j \in 1..Len(tape) : i < j => Follows(tape[j], tape[i])

(* What came since the subscription waits in the buffer. *)
BufferHolds ==
  IF gapConn = "seeding"
    THEN before \in 1..Len(tape) /\ gapBuffer = {toReplayTrade(tape[i]) :
                                                 i \in before + 1..Len(tape)}
    ELSE gapBuffer = {}

(* The image of a finite set is finite. *)
LEMMA ImageFinite ==
  ASSUME NEW I, IsFiniteSet(I), NEW T, NEW f \in [I -> T]
  PROVE  IsFiniteSet({f[i] : i \in I})
  <1>1. f \in Surjection(I, {f[i] : i \in I})
    BY DEF Surjection
  <1> QED BY <1>1, FS_Surjection

(* A trade as either source has it. *)
LEMMA ReplayTradeType ==
  ASSUME GapReplayAssumption, NEW t \in Prints, NEW raw \in BOOLEAN
  PROVE  /\ ReplayTrade(t, raw) \in ReplayTrades
         /\ ReplayTrade(t, raw).exchange = t.exchange /\ ReplayTrade(t, raw).id = t.id
         /\ ReplayTrade(t, raw).price = t.price /\ ReplayTrade(t, raw).timestamp.ms = t.ms
         /\ ReplayTrade(t, raw).timestamp = IF raw THEN [ms |-> t.ms, ns |-> t.ns]
                                                   ELSE [ms |-> t.ms, ns |-> 0]
  <1>1. 0 \in 0..MaxNs
    BY DEF GapReplayAssumption
  <1>2. /\ t.ms \in 1..MaxMs /\ t.ns \in 0..MaxNs /\ t.exchange \in Exchange
        /\ t.id \in 1..MaxGapTrades /\ t.price \in GapPrice
    BY DEF Prints
  <1>3. Timestamp(t, raw) = IF raw THEN [ms |-> t.ms, ns |-> t.ns] ELSE [ms |-> t.ms, ns |-> 0]
    BY DEF Timestamp, padTimestampToNanoseconds
  <1>4. Timestamp(t, raw) \in [ms : 1..MaxMs, ns : 0..MaxNs] /\ Timestamp(t, raw).ms = t.ms
    BY <1>1, <1>2, <1>3
  <1> QED BY <1>2, <1>3, <1>4 DEF ReplayTrade, ReplayTrades

(* The cursor of a trade is a cursor. *)
LEMMA CursorType ==
  ASSUME NEW trade \in ReplayTrades
  PROVE  cursorFromTrade(trade) \in Cursors
  BY DEF Cursors

(* The cursor of a trade is not the one of no trade. *)
LEMMA CursorIsNoTrade ==
  ASSUME GapReplayAssumption, NEW trade \in ReplayTrades
  PROVE  cursorFromTrade(trade) # NoTrade
  BY DEF cursorFromTrade, ReplayTrades, GapReplayAssumption

(* Whatever the sources give is sorted and filtered into a sequence. *)
LEMMA ReplayIsSequence ==
  ASSUME GapReplayAssumption, GapTypeOK, TapeInOrder, BufferHolds, gapConn = "seeding",
         NEW recent \in SUBSET (before + 1 .. Len(tape))
  PROVE  filterTradesAfterCursor(gapCursor,
           mergeGapTrades(getHistoricalTrades(recent), gapBuffer)) \in Seq(ReplayTrades)
  <1> DEFINE n == Len(tape)
             I == {j \in 1..before \cup recent : tape[j].ms >= gapCursor.timestamp.ms}
             J == before + 1..n
             f == [i \in I |-> ReplayTrade(tape[i], restRaw)]
             g == [i \in J |-> ReplayTrade(tape[i], liveRaw)]
             S == getHistoricalTrades(recent) \cup gapBuffer
  <1>1. n \in Nat /\ before \in 1..n /\ restRaw \in BOOLEAN /\ liveRaw \in BOOLEAN
        /\ \A i \in 1..n : tape[i] \in Prints /\ tape[i].id = i
    BY DEF TapeInOrder, BufferHolds, GapTypeOK
  <1>2. I \in SUBSET (1..n) /\ J \in SUBSET (1..n)
    <2>1. before + 1..n \in SUBSET (1..n) /\ 1..before \in SUBSET (1..n)
      BY <1>1
    <2> QED BY <2>1
  <1>3. IsFiniteSet(I) /\ IsFiniteSet(J)
    <2>1. IsFiniteSet(1..n)
      BY <1>1, FS_Interval
    <2> HIDE DEF I, J, n
    <2> QED BY <1>2, <2>1, FS_Subset
  <1>4. getHistoricalTrades(recent) = {f[i] : i \in I} /\ gapBuffer = {g[i] : i \in J}
    BY DEF getHistoricalTrades, BufferHolds, toReplayTrade
  <1>5. f \in [I -> ReplayTrades] /\ g \in [J -> ReplayTrades]
    <2> HIDE DEF I, J, n
    <2> QED BY <1>1, <1>2, ReplayTradeType
  <1>6. S \in SUBSET ReplayTrades /\ IsFiniteSet(S)
    <2>1. IsFiniteSet({f[i] : i \in I}) /\ IsFiniteSet({g[i] : i \in J})
      <3> HIDE DEF I, J, f, g
      <3> QED BY <1>3, <1>5, ImageFinite
    <2> HIDE DEF I, J, f, g
    <2> QED BY <1>4, <1>5, <2>1, FS_Union
  <1>7. \A x \in S : /\ x.id \in 1..n
                     /\ x.exchange = tape[x.id].exchange /\ x.price = tape[x.id].price
    <2>1. \A i \in I : /\ f[i].id = i /\ f[i].exchange = tape[i].exchange
                       /\ f[i].price = tape[i].price
      <3> HIDE DEF I, n
      <3> QED BY <1>1, <1>2, ReplayTradeType
    <2>2. \A i \in J : /\ g[i].id = i /\ g[i].exchange = tape[i].exchange
                       /\ g[i].price = tape[i].price
      <3> HIDE DEF J, n
      <3> QED BY <1>1, <1>2, ReplayTradeType
    <2> HIDE DEF I, J, f, g, n
    <2> QED BY <1>2, <1>4, <2>1, <2>2
  <1> HIDE DEF I, J, f, g, n, S
  <1>8. \A x, y \in S : \/ x = y
                        \/ x.timestamp # y.timestamp \/ x.exchange # y.exchange \/ x.id # y.id
    BY <1>6, <1>7 DEF ReplayTrades
  <1> DEFINE list == mergeGapTrades(getHistoricalTrades(recent), gapBuffer)
             kept == {i \in DOMAIN list : compareReplayTrades(gapCursor, list[i])}
             at == Increasing(kept)
             trades == filterTradesAfterCursor(gapCursor, list)
  <1>9. Cardinality(S) \in Nat /\ list \in [1..Cardinality(S) -> S]
    BY <1>6, <1>8, SortedExists DEF mergeGapTrades, S
  <1> HIDE DEF list
  <1>10. kept \in SUBSET (1..Cardinality(S)) /\ kept \in SUBSET Nat /\ IsFiniteSet(kept)
    <2>1. kept \in SUBSET (1..Cardinality(S))
      BY <1>9
    <2>2. IsFiniteSet(1..Cardinality(S))
      BY <1>9, FS_Interval
    <2> HIDE DEF kept
    <2>3. IsFiniteSet(kept)
      BY <2>1, <2>2, FS_Subset
    <2>4. kept \in SUBSET Nat
      BY <2>1, <1>9
    <2> QED BY <2>1, <2>3, <2>4
  <1>11. trades = [k \in 1..Cardinality(kept) |-> list[at[k]]]
    BY DEF filterTradesAfterCursor, Filtered
  <1>12. Cardinality(kept) \in Nat /\ at \in [1..Cardinality(kept) -> kept]
    BY <1>10, IncreasingExists
  <1> HIDE DEF kept, at, trades
  <1>13. \A k \in 1..Cardinality(kept) : list[at[k]] \in ReplayTrades
    BY <1>6, <1>9, <1>10, <1>12
  <1>14. trades \in Seq(ReplayTrades)
    BY <1>11, <1>12, <1>13
  <1> QED BY <1>14 DEF trades, list

(* The first crossing of a replay is one of its trades. *)
LEMMA FirstHit ==
  ASSUME NEW trades \in Seq(ReplayTrades), NEW prev, GapCrossings(prev, trades) # {}
  PROVE  /\ Min(GapCrossings(prev, trades)) \in GapCrossings(prev, trades)
         /\ \A i \in GapCrossings(prev, trades) : Min(GapCrossings(prev, trades)) <= i
  <1> DEFINE hits == GapCrossings(prev, trades)
  <1>1. hits \in SUBSET Nat
    BY DEF GapCrossings
  <1> HIDE DEF hits
  <1>2. \E x \in hits : \A y \in hits : x <= y
    BY <1>1, SmallestPlace DEF hits
  <1>3. Min(hits) \in hits /\ \A i \in hits : Min(hits) <= i
    BY <1>2 DEF Min
  <1> QED BY <1>3 DEF hits

(* What goes through the predicate leaves a price, a cursor and a trade. *)
LEMMA ProcessType ==
  ASSUME GapReplayAssumption, GapTypeOK, NEW trades \in Seq(ReplayTrades), Process(trades)
  PROVE  /\ gapCursor' \in Cursors /\ gapPrevious' \in GapPrice
         /\ fired' \in Cursors \cup {NoTrade} /\ decided' \in Nat
  <1>1. trades # <<>> => Last(trades) \in ReplayTrades
    BY DEF Last
  <1>2. gapPrevious' \in GapPrice
    <2>1. trades # <<>> => Last(trades).price \in GapPrice
      BY <1>1 DEF ReplayTrades
    <2> QED BY <2>1 DEF Process, replayThroughCrossingPredicate, GapTypeOK
  <1>3. gapCursor' \in Cursors
    BY <1>1, CursorType DEF Process, advanceCursor, GapTypeOK
  <1>4. fired' \in Cursors \cup {NoTrade}
    <2> DEFINE hits == GapCrossings(gapPrevious, trades)
    <2>1. hits # {} => cursorFromTrade(trades[Min(hits)]) \in Cursors
      <3>1. hits # {} => Min(hits) \in DOMAIN trades
        BY FirstHit DEF GapCrossings
      <3> HIDE DEF hits
      <3> QED BY <3>1, CursorType
    <2>2. fired' = IF fired = NoTrade
                     THEN IF hits = {} THEN NoTrade ELSE cursorFromTrade(trades[Min(hits)])
                     ELSE fired
      BY DEF Process, replayThroughCrossingPredicate
    <2> HIDE DEF hits
    <2> QED BY <2>1, <2>2 DEF GapTypeOK
  <1>5. decided' \in Nat
    BY DEF Process, GapTypeOK
  <1> QED BY <1>2, <1>3, <1>4, <1>5

-----------------------------------------------------------------------------
(* Of two trades the later one has the later timestamp, exchange or id, as
   sources that agree give them. *)
LEMMA FollowsCompares ==
  ASSUME GapReplayAssumption, NEW s \in Prints, NEW t \in Prints, NEW raw \in BOOLEAN,
         Follows(t, s), s.id < t.id, raw \/ s.exchange = t.exchange
  PROVE  compareReplayTrades(ReplayTrade(s, raw), ReplayTrade(t, raw))
  <1>1. /\ s.ms \in Nat /\ s.ns \in Nat /\ s.exchange \in Nat /\ s.id \in Nat
        /\ t.ms \in Nat /\ t.ns \in Nat /\ t.exchange \in Nat /\ t.id \in Nat
    <2>1. /\ \A n \in 1..MaxMs : n \in Nat
          /\ \A n \in 0..MaxNs : n \in Nat
          /\ \A n \in 1..MaxGapTrades : n \in Nat
          /\ \A n \in Exchange : n \in Nat
      BY DEF GapReplayAssumption
    <2> QED BY <2>1 DEF Prints
  <1>2. \/ s.ms < t.ms \/ (s.ms = t.ms /\ s.ns < t.ns)
        \/ s.ms = t.ms /\ s.ns = t.ns /\ s.exchange <= t.exchange
    BY DEF Follows, Earlier, Timestamp
  <1>3. /\ ReplayTrade(s, raw).exchange = s.exchange /\ ReplayTrade(s, raw).id = s.id
        /\ ReplayTrade(t, raw).exchange = t.exchange /\ ReplayTrade(t, raw).id = t.id
        /\ ReplayTrade(s, raw).timestamp = IF raw THEN [ms |-> s.ms, ns |-> s.ns]
                                                  ELSE [ms |-> s.ms, ns |-> 0]
        /\ ReplayTrade(t, raw).timestamp = IF raw THEN [ms |-> t.ms, ns |-> t.ns]
                                                  ELSE [ms |-> t.ms, ns |-> 0]
    BY ReplayTradeType
  <1>4. CASE raw
    BY <1>1, <1>2, <1>3, <1>4 DEF compareReplayTrades, Earlier
  <1>5. CASE ~ raw
    BY <1>1, <1>2, <1>3, <1>5 DEF compareReplayTrades, Earlier
  <1> QED BY <1>4, <1>5

(* The cursor compares like the trade it was taken from. *)
LEMMA CursorCompares ==
  ASSUME NEW x, NEW y
  PROVE  /\ compareReplayTrades(cursorFromTrade(x), y) <=> compareReplayTrades(x, y)
         /\ isCursorNewerThan(cursorFromTrade(y), cursorFromTrade(x)) <=> compareReplayTrades(x, y)
  BY DEF compareReplayTrades, cursorFromTrade, isCursorNewerThan

(* The trades of the tape compare like their numbers. *)
LEMMA TapeCompares ==
  ASSUME GapReplayAssumption, GapTypeOK, TapeInOrder, SourcesAgree,
         NEW i \in 1..Len(tape), NEW j \in 1..Len(tape)
  PROVE  compareReplayTrades(toReplayTrade(tape[i]), toReplayTrade(tape[j])) <=> i < j
  <1>1. /\ tape[i] \in Prints /\ tape[i].id = i /\ tape[i].exchange \in venues
        /\ tape[j] \in Prints /\ tape[j].id = j /\ tape[j].exchange \in venues
        /\ liveRaw \in BOOLEAN /\ i \in Nat /\ j \in Nat
    BY DEF TapeInOrder, GapTypeOK
  <1>2. liveRaw \/ tape[i].exchange = tape[j].exchange
    BY <1>1 DEF SourcesAgree
  <1> DEFINE x == toReplayTrade(tape[i])
             y == toReplayTrade(tape[j])
  <1>3. i < j => compareReplayTrades(x, y)
    BY <1>1, <1>2, FollowsCompares DEF TapeInOrder, toReplayTrade
  <1>4. j < i => compareReplayTrades(y, x)
    BY <1>1, <1>2, FollowsCompares DEF TapeInOrder, toReplayTrade
  <1>5. /\ x.timestamp \in [ms : Nat, ns : Nat] /\ x.exchange \in Nat /\ x.id \in Nat
        /\ y.timestamp \in [ms : Nat, ns : Nat] /\ y.exchange \in Nat /\ y.id \in Nat
    <2>1. x \in ReplayTrades /\ y \in ReplayTrades
      BY <1>1, ReplayTradeType DEF toReplayTrade
    <2> HIDE DEF x, y
    <2> QED BY <2>1, ReplayTradeNumbers
  <1> HIDE DEF x, y
  <1>6. ~ compareReplayTrades(x, x)
    BY <1>5, CompareIrreflexive
  <1>7. ~ (compareReplayTrades(x, y) /\ compareReplayTrades(y, x))
    BY <1>5, <1>6, CompareTransitive
  <1>8. i = j => x = y
    BY DEF x, y
  <1>9. compareReplayTrades(x, y) <=> i < j
    BY <1>1, <1>3, <1>4, <1>6, <1>7, <1>8
  <1> QED BY <1>9 DEF x, y

(* The replay of a gap is the trades that the watch has not seen, in order. *)
LEMMA ReplayIsTheRest ==
  ASSUME GapReplayAssumption, GapTypeOK, TapeInOrder, BufferHolds, gapConn = "seeding",
         SourcesAgree, NEW recent \in SUBSET (before + 1 .. Len(tape)),
         NEW k \in 1..before, gapCursor = cursorFromTrade(toReplayTrade(tape[k]))
  PROVE  LET trades == filterTradesAfterCursor(gapCursor,
                         mergeGapTrades(getHistoricalTrades(recent), gapBuffer))
         IN  /\ Len(trades) = Len(tape) - k
             /\ \A q \in 1..Len(tape) - k : trades[q] = toReplayTrade(tape[k + q])
  <1> DEFINE n == Len(tape)
             R == [i \in 1..n |-> toReplayTrade(tape[i])]
             U == {j \in 1..before \cup recent : tape[j].ms >= tape[k].ms} \cup (before + 1..n)
             S == getHistoricalTrades(recent) \cup gapBuffer
  <1>1. /\ n \in Nat /\ before \in 1..n /\ k \in 1..n /\ k <= before /\ restRaw = liveRaw
        /\ liveRaw \in BOOLEAN
        /\ \A i \in 1..n : tape[i] \in Prints /\ tape[i].id = i
    BY DEF TapeInOrder, BufferHolds, GapTypeOK, SourcesAgree
  <1>2. \A i \in 1..n : R[i] \in ReplayTrades /\ R[i].id = i
    <2> HIDE DEF n
    <2> QED BY <1>1, ReplayTradeType DEF toReplayTrade
  <1>3. \A i, j \in 1..n : i < j => tape[i].ms <= tape[j].ms
    <2> SUFFICES ASSUME NEW i \in 1..n, NEW j \in 1..n, i < j PROVE tape[i].ms <= tape[j].ms
      OBVIOUS
    <2>1. tape[i].ms \in Nat /\ tape[j].ms \in Nat
      <3>1. \A x \in 1..MaxMs : x \in Nat
        BY DEF GapReplayAssumption
      <3> QED BY <1>1, <3>1 DEF Prints
    <2>2. Follows(tape[j], tape[i])
      BY DEF TapeInOrder
    <2> QED BY <2>1, <2>2 DEF Follows, Earlier, Timestamp
  <1>4. S = {R[i] : i \in U}
    <2>1. gapCursor.timestamp.ms = tape[k].ms
      <3>1. gapCursor.timestamp = toReplayTrade(tape[k]).timestamp
        BY DEF cursorFromTrade
      <3>2. toReplayTrade(tape[k]).timestamp.ms = tape[k].ms
        BY <1>1, ReplayTradeType DEF toReplayTrade
      <3> QED BY <3>1, <3>2
    <2>2. getHistoricalTrades(recent)
            = {R[i] : i \in {j \in 1..before \cup recent : tape[j].ms >= tape[k].ms}}
      <3>1. ASSUME NEW x \in 1..before \cup recent PROVE x \in 1..n
        <4>1. x \in 1..before \/ x \in before + 1..n
          OBVIOUS
        <4> QED BY <1>1, <4>1
      <3>2. \A i \in 1..n : ReplayTrade(tape[i], restRaw) = R[i]
        BY <1>1 DEF toReplayTrade
      <3> HIDE DEF R, n
      <3> QED BY <2>1, <3>1, <3>2 DEF getHistoricalTrades
    <2>3. gapBuffer = {R[i] : i \in before + 1..n}
      <3>1. \A i \in before + 1..n : R[i] = toReplayTrade(tape[i])
        BY <1>1
      <3> HIDE DEF R
      <3> QED BY <3>1 DEF BufferHolds
    <2> HIDE DEF R, n
    <2> QED BY <2>2, <2>3
  <1>5. \E a \in 1..k : U = a..n
    <2>1. U \in SUBSET (1..n) /\ k \in U
      <3>1. ASSUME NEW x \in 1..before \cup recent \cup (before + 1..n) PROVE x \in 1..n
        <4>1. x \in 1..before \/ x \in before + 1..n
          OBVIOUS
        <4> QED BY <1>1, <4>1
      <3>2. tape[k].ms \in Nat
        <4>1. \A x \in 1..MaxMs : x \in Nat
          BY DEF GapReplayAssumption
        <4> QED BY <1>1, <4>1 DEF Prints
      <3>3. k \in 1..before \cup recent /\ tape[k].ms >= tape[k].ms
        BY <3>2
      <3> HIDE DEF n
      <3> QED BY <3>1, <3>3
    <2>2. ASSUME NEW i \in U, NEW j \in 1..n, i < j PROVE j \in U
      <3>1. CASE j > before
        BY <1>1, <3>1
      <3>2. CASE j <= before
        <4>1. i \in 1..before \cup recent /\ tape[i].ms >= tape[k].ms /\ i \in 1..n
          <5>1. ~ (i \in before + 1..n)
            BY <1>1, <2>2, <3>2
          <5> QED BY <2>1, <5>1
        <4>2. tape[i].ms \in Nat /\ tape[j].ms \in Nat /\ tape[k].ms \in Nat
          <5>1. \A x \in 1..MaxMs : x \in Nat
            BY DEF GapReplayAssumption
          <5> QED BY <1>1, <4>1, <5>1 DEF Prints
        <4>3. tape[i].ms <= tape[j].ms
          BY <1>3, <2>2, <4>1
        <4>4. tape[j].ms >= tape[k].ms
          BY <4>1, <4>2, <4>3
        <4>5. j \in 1..before
          BY <1>1, <3>2
        <4> QED BY <4>4, <4>5
      <3> QED BY <1>1, <3>1, <3>2
    <2> HIDE DEF U, n
    <2>3. U \in SUBSET Nat
      BY <1>1, <2>1
    <2>4. PICK a \in U : \A i \in U : a <= i
      BY <2>1, <2>3, SmallestPlace
    <2>5. a \in 1..k
      BY <1>1, <2>1, <2>4
    <2>6. U = a..n
      <3>1. \A i \in U : i \in a..n
        BY <1>1, <2>1, <2>3, <2>4
      <3>2. \A i \in a..n : i \in U
        <4> SUFFICES ASSUME NEW i \in a..n PROVE i \in U
          OBVIOUS
        <4>1. i \in 1..n /\ (i = a \/ a < i)
          BY <1>1, <2>5
        <4> QED BY <2>2, <2>4, <4>1
      <3> QED BY <3>1, <3>2
    <2> QED BY <2>5, <2>6
  <1>6. PICK a \in 1..k : U = a..n
    BY <1>5
  <1> HIDE DEF U
  <1> DEFINE m == n - a + 1
             list == mergeGapTrades(getHistoricalTrades(recent), gapBuffer)
  <1>7. a..n \in SUBSET (1..n) /\ m \in Nat /\ a \in Nat /\ n = a + m - 1
    BY <1>1
  <1>8. IsFiniteSet(S) /\ Cardinality(S) = m /\ S \in SUBSET ReplayTrades
    <2> DEFINE f == [i \in a..n |-> R[i]]
    <2>1. IsFiniteSet(a..n) /\ Cardinality(a..n) = m
      <3>1. a \in Int /\ n \in Int /\ ~ (a > n)
        BY <1>1
      <3> QED BY <3>1, FS_Interval
    <2> HIDE DEF R, m, S, n
    <2>2. f \in [a..n -> S] /\ S = {f[i] : i \in a..n}
      BY <1>4, <1>6
    <2>3. \A i, j \in a..n : f[i] = f[j] => i = j
      BY <1>2, <1>7
    <2> HIDE DEF f
    <2>4. f \in Surjection(a..n, S) /\ f \in Injection(a..n, S)
      BY <2>2, <2>3 DEF Surjection, Injection, IsInjective
    <2>5. S \in SUBSET ReplayTrades
      BY <1>2, <1>4, <1>6, <1>7
    <2> QED BY <2>1, <2>4, <2>5, FS_Surjection
  <1> HIDE DEF S
  <1>9. \A x \in S : x.id \in a..n /\ x = R[x.id]
    <2> HIDE DEF R, n
    <2> QED BY <1>2, <1>4, <1>6, <1>7
  <1>10. \A i, j \in 1..n : compareReplayTrades(R[i], R[j]) <=> i < j
    BY TapeCompares
  <1> HIDE DEF R
  <1>11. /\ list \in [1..m -> S]
         /\ \A i, j \in 1..m : i < j => compareReplayTrades(list[i], list[j])
    <2>1. \A x, y \in S : \/ x = y
                          \/ x.timestamp # y.timestamp \/ x.exchange # y.exchange
                          \/ x.id # y.id
      BY <1>9
    <2>2. list = Sorted(S)
      BY DEF mergeGapTrades, S
    <2> HIDE DEF list, m
    <2> QED BY <1>8, <2>1, <2>2, SortedExists
  <1> HIDE DEF list
  <1>12. \A q \in 1..m : list[q] = R[a + q - 1]
    <2> DEFINE g == [q \in 1..m |-> list[q].id]
    <2>1. g \in [1..m -> a..(a + m - 1)]
      <3> HIDE DEF m, n
      <3> QED BY <1>7, <1>9, <1>11
    <2>2. \A i, j \in 1..m : i < j => g[i] < g[j]
      <3> SUFFICES ASSUME NEW i \in 1..m, NEW j \in 1..m, i < j PROVE g[i] < g[j]
        OBVIOUS
      <3>1. compareReplayTrades(list[i], list[j])
        BY <1>11
      <3>2. /\ g[i] \in 1..n /\ list[i] = R[g[i]]
            /\ g[j] \in 1..n /\ list[j] = R[g[j]]
        <4> HIDE DEF m, n
        <4> QED BY <1>7, <1>9, <1>11
      <3> HIDE DEF g, m, n
      <3> QED BY <1>10, <3>1, <3>2
    <2>3. \A q \in 1..m : list[q] = R[g[q]]
      <3> HIDE DEF m
      <3> QED BY <1>9, <1>11
    <2> HIDE DEF g, m, n
    <2>4. \A q \in 1..m : g[q] = a + q - 1
      BY <1>7, <2>1, <2>2, TightlyIncreasing
    <2> QED BY <2>3, <2>4
  <1> DEFINE kept == {i \in DOMAIN list : compareReplayTrades(gapCursor, list[i])}
             at == Increasing(kept)
             b == k - a + 2
             r == n - k
             trades == filterTradesAfterCursor(gapCursor, list)
  <1>13. r \in Nat /\ b \in Nat /\ b + r - 1 = m /\ b >= 1 /\ k + 1 = a + b - 1
    BY <1>1, <1>7
  <1>14. kept = b..m
    <2>1. ASSUME NEW q \in 1..m PROVE compareReplayTrades(gapCursor, list[q]) <=> q >= b
      <3>1. a + q - 1 \in 1..n
        BY <1>1, <1>7
      <3>2. compareReplayTrades(gapCursor, list[q]) <=> compareReplayTrades(R[k], R[a + q - 1])
        BY <1>1, <1>12, CursorCompares DEF R
      <3>3. compareReplayTrades(R[k], R[a + q - 1]) <=> k < a + q - 1
        <4> HIDE DEF n
        <4> QED BY <1>1, <1>10, <3>1
      <3> QED BY <1>1, <1>7, <3>2, <3>3
    <2>2. DOMAIN list = 1..m
      BY <1>11
    <2>3. b..m \in SUBSET (1..m) /\ \A q \in 1..m : q >= b <=> q \in b..m
      BY <1>7, <1>13
    <2> HIDE DEF b, m
    <2> QED BY <2>1, <2>2, <2>3
  <1> HIDE DEF kept
  <1>15. IsFiniteSet(kept) /\ Cardinality(kept) = r /\ kept \in SUBSET Nat
    <2>1. b \in Int /\ m \in Int
      BY <1>7, <1>13
    <2>2. IsFiniteSet(b..m) /\ Cardinality(b..m) = IF b > m THEN 0 ELSE m - b + 1
      BY <2>1, FS_Interval
    <2>3. (IF b > m THEN 0 ELSE m - b + 1) = r
      <3> HIDE DEF b, m, r, n
      <3>1. m \in Nat
        BY <1>7
      <3> QED BY <1>13, <3>1
    <2>4. b..m \in SUBSET Nat
      BY <1>13
    <2> QED BY <1>14, <2>2, <2>3, <2>4
  <1> HIDE DEF b, m, r, n
  <1>16. /\ at \in [1..r -> b..b + r - 1]
         /\ \A i, j \in 1..r : i < j => at[i] < at[j]
    BY <1>13, <1>14, <1>15, IncreasingExists
  <1> HIDE DEF at
  <1>17. \A q \in 1..r : at[q] = b + q - 1
    BY <1>13, <1>16, TightlyIncreasing
  <1>18. trades = [q \in 1..r |-> list[at[q]]]
    BY <1>15 DEF filterTradesAfterCursor, Filtered, kept, at
  <1> HIDE DEF trades
  <1>19. Len(trades) = r
    BY <1>13, <1>18
  <1>20. ASSUME NEW q \in 1..r PROVE trades[q] = R[k + q]
    <2>1. at[q] = b + q - 1 /\ at[q] \in 1..m
      BY <1>13, <1>16, <1>17
    <2>2. trades[q] = list[at[q]] /\ list[at[q]] = R[a + at[q] - 1]
      BY <1>12, <1>18, <2>1
    <2>3. a + at[q] - 1 = k + q
      BY <1>7, <1>13, <2>1
    <2> QED BY <2>2, <2>3
  <1>21. \A q \in 1..r : k + q \in 1..n
    BY <1>1 DEF r
  <1>22. \A q \in 1..r : R[k + q] = toReplayTrade(tape[k + q])
    BY <1>21 DEF R
  <1> QED BY <1>19, <1>20, <1>22 DEF r, n, trades, list

-----------------------------------------------------------------------------
(* The watch after the first k trades, had it seen each as it happened. *)
PastIn(T, i) == IF direction = "below" THEN T[i].price < GapThreshold
                                       ELSE T[i].price > GapThreshold
EntriesIn(T, k) == {i \in 2..k : PastIn(T, i) /\ ~ PastIn(T, i - 1)}
FirstIn(T, k) == IF EntriesIn(T, k) = {} THEN NoTrade
                 ELSE cursorFromTrade(toReplayTrade(T[Min(EntriesIn(T, k))]))

WatchedTo(T, k) ==
  /\ gapCursor = cursorFromTrade(toReplayTrade(T[k])) /\ gapPrevious = T[k].price
  /\ fired = FirstIn(T, k) /\ decided = k

Watched ==
  /\ decided \in 1..Len(tape) /\ WatchedTo(tape, decided)
  /\ gapConn = "live" => decided = Len(tape)
  /\ gapConn = "seeding" => decided <= before

GapIInv == GapTypeOK /\ TapeInOrder /\ BufferHolds /\ (SourcesAgree => Watched)

(* What happens later does not change what has happened. *)
LEMMA FirstInExtends ==
  ASSUME NEW T, NEW V, NEW k \in Nat, \A i \in 1..k : T[i] = V[i]
  PROVE  FirstIn(T, k) = FirstIn(V, k)
  <1>1. \A i \in 2..k : i \in 1..k /\ i - 1 \in 1..k
    OBVIOUS
  <1>2. EntriesIn(T, k) = EntriesIn(V, k)
    BY <1>1 DEF EntriesIn, PastIn
  <1>3. ASSUME EntriesIn(T, k) # {} PROVE Min(EntriesIn(T, k)) \in 1..k
    <2> DEFINE hits == EntriesIn(T, k)
    <2>1. hits \in SUBSET Nat /\ hits \in SUBSET (1..k)
      BY <1>1 DEF EntriesIn
    <2> HIDE DEF hits
    <2>2. hits # {}
      BY <1>3 DEF hits
    <2>3. \E x \in hits : \A y \in hits : x <= y
      BY <2>1, <2>2, SmallestPlace
    <2>4. Min(hits) \in 1..k
      BY <2>1, <2>3 DEF Min
    <2> QED BY <2>4 DEF hits
  <1> QED BY <1>2, <1>3 DEF FirstIn

(* Trades that go through the predicate in one piece leave the watch where
   they would have left it one by one. *)
LEMMA ProcessAdvances ==
  ASSUME GapReplayAssumption, GapTypeOK, NEW T \in Seq(Prints), NEW k \in 1..Len(T), WatchedTo(T,
          k),
         NEW trades \in Seq(ReplayTrades), Len(trades) = Len(T) - k,
         \A q \in 1..Len(T) - k : trades[q] = toReplayTrade(T[k + q]),
         k < Len(T) => compareReplayTrades(toReplayTrade(T[k]), toReplayTrade(T[Len(T)])),
         Process(trades)
  PROVE  /\ gapCursor' = cursorFromTrade(toReplayTrade(T[Len(T)]))
         /\ gapPrevious' = T[Len(T)].price
         /\ fired' = FirstIn(T, Len(T)) /\ decided' = Len(T)
  <1> DEFINE n == Len(T)
  <1>1. n \in Nat /\ k \in 1..n /\ \A i \in 1..n : T[i] \in Prints
    OBVIOUS
  <1>2. trades # <<>> <=> k < n
    BY <1>1
  <1>3. k < n => Last(trades) = toReplayTrade(T[n])
    <2>1. k < n => n - k \in 1..n - k /\ k + (n - k) = n
      BY <1>1
    <2> QED BY <2>1 DEF Last
  <1>4. liveRaw \in BOOLEAN
    BY DEF GapTypeOK
  <1>5. \A i \in 1..n : toReplayTrade(T[i]) \in ReplayTrades /\
          toReplayTrade(T[i]).price = T[i].price
    <2> HIDE DEF n
    <2> QED BY <1>1, <1>4, ReplayTradeType DEF toReplayTrade
  <1>6. decided' = n
    <2>1. decided' = k + Len(trades)
      BY DEF Process, WatchedTo
    <2> QED BY <1>1, <2>1
  <1>7. gapPrevious' = T[n].price
    <2>1. gapPrevious' = IF trades = <<>> THEN gapPrevious ELSE Last(trades).price
      BY DEF Process, replayThroughCrossingPredicate
    <2>2. CASE k < n
      BY <1>1, <1>2, <1>3, <1>5, <2>1, <2>2
    <2>3. CASE k = n
      BY <1>1, <1>2, <2>1, <2>3 DEF WatchedTo
    <2> QED BY <1>1, <2>2, <2>3
  <1>8. gapCursor' = cursorFromTrade(toReplayTrade(T[n]))
    <2>1. gapCursor' = advanceCursor(gapCursor, trades)
      BY DEF Process
    <2>2. CASE k < n
      <3>1. isCursorNewerThan(cursorFromTrade(Last(trades)), gapCursor)
        BY <1>3, <2>2, CursorCompares DEF WatchedTo
      <3> QED BY <1>2, <1>3, <2>1, <2>2, <3>1 DEF advanceCursor
    <2>3. CASE k = n
      BY <1>1, <1>2, <2>1, <2>3 DEF advanceCursor, WatchedTo
    <2> QED BY <1>1, <2>2, <2>3
  <1> DEFINE hits == GapCrossings(gapPrevious, trades)
  <1>9. \A q \in 1..n - k : PriceBefore(gapPrevious, trades, q) = T[k + q - 1].price
                            /\ trades[q].price = T[k + q].price
    <2> SUFFICES ASSUME NEW q \in 1..n - k
                 PROVE  /\ PriceBefore(gapPrevious, trades, q) = T[k + q - 1].price
                        /\ trades[q].price = T[k + q].price
      OBVIOUS
    <2>1. k + q \in 1..n /\ k + q - 1 \in 1..n
      BY <1>1
    <2>2. trades[q].price = T[k + q].price
      BY <1>5, <2>1
    <2>3. CASE q = 1
      <3>1. k + q - 1 = k
        BY <1>1, <2>3
      <3> QED BY <2>2, <2>3, <3>1 DEF PriceBefore, WatchedTo
    <2>4. CASE q # 1
      <3>1. q - 1 \in 1..n - k /\ k + (q - 1) = k + q - 1
        BY <1>1, <2>4
      <3>2. trades[q - 1] = toReplayTrade(T[k + q - 1])
        BY <3>1
      <3> QED BY <1>5, <2>1, <2>2, <2>4, <3>2 DEF PriceBefore
    <2> QED BY <2>3, <2>4
  <1>10. ASSUME NEW q \in 1..n - k PROVE q \in hits <=> k + q \in EntriesIn(T, n)
    <2>1. k + q \in 2..n /\ k + q \in 1..n /\ k + q - 1 \in 1..n
      BY <1>1
    <2>2. T[k + q].price \in Nat /\ T[k + q - 1].price \in Nat /\ GapThreshold \in Nat
      <3>1. \A p \in GapPrice : p \in Nat
        BY DEF GapReplayAssumption
      <3> QED BY <1>1, <2>1, <3>1 DEF Prints, GapReplayAssumption
    <2>3. q \in DOMAIN trades
      OBVIOUS
    <2>4. q \in hits <=> gapCrosses(direction, T[k + q - 1].price, T[k + q].price)
      BY <1>9, <2>3 DEF GapCrossings
    <2>5. k + q \in EntriesIn(T, n) <=> PastIn(T, k + q) /\ ~ PastIn(T, k + q - 1)
      BY <2>1 DEF EntriesIn
    <2>6. gapCrosses(direction, T[k + q - 1].price, T[k + q].price)
            <=> PastIn(T, k + q) /\ ~ PastIn(T, k + q - 1)
      BY <2>2 DEF gapCrosses, PastIn
    <2> QED BY <2>4, <2>5, <2>6
  <1>11. \A i \in 2..k : i \in EntriesIn(T, k) <=> i \in EntriesIn(T, n)
    BY <1>1 DEF EntriesIn
  <1>12. /\ EntriesIn(T, k) \in SUBSET (2..k) /\ EntriesIn(T, n) \in SUBSET (2..n)
         /\ hits \in SUBSET (1..n - k)
    <2>1. DOMAIN trades = 1..n - k
      OBVIOUS
    <2> QED BY <2>1 DEF EntriesIn, GapCrossings
  <1>13. fired' = IF fired = NoTrade
                    THEN IF hits = {} THEN NoTrade ELSE cursorFromTrade(trades[Min(hits)])
                    ELSE fired
    BY DEF Process, replayThroughCrossingPredicate
  <1> HIDE DEF hits, n
  <1>14. ASSUME NEW E \in SUBSET Nat, E # {} PROVE Min(E) \in E /\ \A i \in E : Min(E) <= i
    <2>1. \E x \in E : \A y \in E : x <= y
      BY <1>14, SmallestPlace
    <2> QED BY <2>1 DEF Min
  <1>15. /\ EntriesIn(T, k) \in SUBSET Nat /\ EntriesIn(T, n) \in SUBSET Nat /\ hits \in SUBSET Nat
    BY <1>1, <1>12
  <1>16. ASSUME NEW E \in SUBSET Nat, NEW e \in E, \A i \in E : e <= i PROVE Min(E) = e
    <2>1. Min(E) \in E /\ Min(E) <= e
      BY <1>14
    <2>2. e <= Min(E) /\ e \in Nat /\ Min(E) \in Nat
      BY <1>16, <2>1
    <2> QED BY <2>1, <2>2
  <1>17. CASE EntriesIn(T, k) # {}
    <2> DEFINE e == Min(EntriesIn(T, k))
    <2>1. e \in EntriesIn(T, k) /\ \A i \in EntriesIn(T, k) : e <= i
      BY <1>14, <1>15, <1>17
    <2> HIDE DEF e
    <2>2. e \in EntriesIn(T, n) /\ e \in 2..k
      BY <1>11, <1>12, <2>1
    <2>3. ASSUME NEW i \in EntriesIn(T, n) PROVE e <= i
      <3>1. CASE i \in 2..k
        BY <1>11, <2>1, <3>1
      <3>2. CASE i \notin 2..k
        BY <1>1, <1>12, <2>2, <3>2
      <3> QED BY <3>1, <3>2
    <2>4. Min(EntriesIn(T, n)) = e
      BY <1>15, <1>16, <2>2, <2>3
    <2>5. fired = cursorFromTrade(toReplayTrade(T[e])) /\ FirstIn(T, n) = fired
      BY <1>17, <2>2, <2>4 DEF WatchedTo, FirstIn, e
    <2>6. fired # NoTrade
      <3>1. e \in 1..n
        BY <1>1, <2>2
      <3> QED BY <1>5, <2>5, <3>1, CursorIsNoTrade
    <2> QED BY <1>6, <1>7, <1>8, <1>13, <2>5, <2>6 DEF n
  <1>18. CASE EntriesIn(T, k) = {}
    <2>1. fired = NoTrade
      BY <1>18 DEF WatchedTo, FirstIn
    <2>2. ASSUME NEW i \in EntriesIn(T, n) PROVE i - k \in hits
      <3>1. i \in 2..n /\ i \notin 2..k
        BY <1>11, <1>12, <1>18
      <3>2. i - k \in 1..n - k /\ k + (i - k) = i
        BY <1>1, <3>1
      <3> QED BY <1>10, <3>2
    <2>3. CASE hits = {}
      <3>1. EntriesIn(T, n) = {}
        BY <2>2, <2>3
      <3>2. fired' = FirstIn(T, n)
        BY <1>13, <2>1, <2>3, <3>1 DEF FirstIn
      <3> QED BY <1>6, <1>7, <1>8, <3>2 DEF n
    <2>4. CASE hits # {}
      <3> DEFINE h == Min(hits)
      <3>1. h \in hits /\ \A i \in hits : h <= i
        BY <1>14, <1>15, <2>4
      <3> HIDE DEF h
      <3>2. h \in 1..n - k /\ k + h \in EntriesIn(T, n)
        BY <1>10, <1>12, <3>1
      <3>3. ASSUME NEW i \in EntriesIn(T, n) PROVE k + h <= i
        <4>1. h <= i - k /\ i \in Nat
          BY <1>15, <2>2, <3>1
        <4> QED BY <1>1, <3>2, <4>1
      <3>4. Min(EntriesIn(T, n)) = k + h
        BY <1>15, <1>16, <3>2, <3>3
      <3>5. fired' = cursorFromTrade(trades[h])
        BY <1>13, <2>1, <2>4 DEF h
      <3>6. trades[h] = toReplayTrade(T[k + h])
        BY <3>2 DEF n
      <3>7. fired' = FirstIn(T, n)
        BY <3>2, <3>4, <3>5, <3>6 DEF FirstIn
      <3> QED BY <1>6, <1>7, <1>8, <3>7 DEF n
    <2> QED BY <2>3, <2>4
  <1> QED BY <1>17, <1>18

-----------------------------------------------------------------------------
(* The invariant holds of a session that has just seeded. *)
LEMMA GapInitInv ==
  ASSUME GapReplayAssumption, GapInit
  PROVE  GapIInv
  <1>1. PICK t \in Trade : tape = <<Numbered(t, 1)>> /\ t.exchange \in venues
    BY DEF GapInit
  <1>2. 1 \in 1..MaxGapTrades /\ 0 \in 0..MaxGapTrades
    BY DEF GapReplayAssumption
  <1>3. Numbered(t, 1) \in Prints
    BY <1>2 DEF Numbered, Trade, Prints
  <1>4. /\ tape \in Seq(Prints) /\ Len(tape) = 1 /\ DOMAIN tape = 1..1
        /\ tape[1] = Numbered(t, 1)
    BY <1>1, <1>3
  <1>5. TapeInOrder
    <2>1. tape[1].id = 1 /\ tape[1].exchange \in venues
      BY <1>1, <1>4 DEF Numbered
    <2>2. \A i \in 1..1 : i = 1
      OBVIOUS
    <2> QED BY <1>4, <2>1, <2>2 DEF TapeInOrder
  <1>6. toReplayTrade(tape[1]) \in ReplayTrades
    BY <1>3, <1>4, ReplayTradeType DEF toReplayTrade, GapInit
  <1>7. GapTypeOK
    <2>1. gapCursor \in Cursors
      BY <1>6, CursorType DEF GapInit
    <2>2. gapPrevious \in GapPrice
      BY <1>3, <1>4 DEF GapInit, Prints
    <2>3. \A i \in DOMAIN tape : \E u \in Trade : tape[i] = Numbered(u, i)
      BY <1>1, <1>4
    <2>4. Len(tape) \in 1..MaxGapTrades
      BY <1>2, <1>4
    <2> QED BY <1>2, <2>1, <2>2, <2>3, <2>4 DEF GapInit, GapTypeOK
  <1>8. BufferHolds
    BY DEF GapInit, BufferHolds
  <1>9. Watched
    <2>1. EntriesIn(tape, 1) = {}
      BY DEF EntriesIn
    <2> QED BY <1>4, <2>1 DEF Watched, WatchedTo, FirstIn, GapInit
  <1> QED BY <1>5, <1>7, <1>8, <1>9 DEF GapIInv

(* One more trade happens. *)
LEMMA TapeGrows ==
  ASSUME GapReplayAssumption, GapTypeOK, TapeInOrder, NEW t \in Trade, Happens(t),
         UNCHANGED sources
  PROVE  /\ TapeInOrder'
         /\ Len(tape') = Len(tape) + 1 /\ Len(tape') \in 1..MaxGapTrades
         /\ \A i \in DOMAIN tape' : \E u \in Trade : tape'[i] = Numbered(u, i)
         /\ \A i \in 1..Len(tape) : tape'[i] = tape[i]
         /\ Last(tape') = tape'[Len(tape')]
  <1> DEFINE n == Len(tape)
             new == Numbered(t, n + 1)
  <1>1. n \in 1..MaxGapTrades /\ n + 1 \in 1..MaxGapTrades /\ n \in Nat /\ MaxGapTrades \in Nat
    BY DEF GapTypeOK, Happens, GapReplayAssumption
  <1>2. tape \in Seq(Prints)
    BY DEF TapeInOrder
  <1>3. new \in Prints /\ new.id = n + 1 /\ new.exchange = t.exchange
        /\ new.ms = t.ms /\ new.ns = t.ns
    BY <1>1 DEF Numbered, Trade, Prints
  <1>4. /\ tape' = Append(tape, new) /\ t.exchange \in venues /\ Follows(t, Last(tape))
    BY DEF Happens
  <1> HIDE DEF new
  <1>5. /\ tape' \in Seq(Prints) /\ Len(tape') = n + 1 /\ tape'[n + 1] = new
        /\ \A i \in 1..n : tape'[i] = tape[i]
    BY <1>2, <1>3, <1>4
  <1>6. \A i \in 1..n + 1 : i \in 1..n \/ i = n + 1
    BY <1>1
  <1>7. \A i \in DOMAIN tape' : \E u \in Trade : tape'[i] = Numbered(u, i)
    <2>1. DOMAIN tape' = 1..n + 1
      BY <1>5
    <2>2. \A i \in 1..n : \E u \in Trade : tape[i] = Numbered(u, i)
      BY <1>2 DEF GapTypeOK
    <2> HIDE DEF n
    <2> QED BY <1>5, <1>6, <2>1, <2>2 DEF new
  <1>8. TapeInOrder'
    <2>1. \A i \in 1..n + 1 : tape'[i].id = i /\ tape'[i].exchange \in venues
      BY <1>3, <1>4, <1>5, <1>6 DEF TapeInOrder
    <2>2. ASSUME NEW i \in 1..n + 1, NEW j \in 1..n + 1, i < j
          PROVE  Follows(tape'[j], tape'[i])
      <3>1. i \in 1..n
        BY <1>1, <2>2
      <3>2. CASE j \in 1..n
        BY <1>5, <2>2, <3>1, <3>2 DEF TapeInOrder
      <3>3. CASE j = n + 1
        <4>1. Follows(t, tape[n])
          BY <1>4 DEF Last
        <4>2. i = n \/ Follows(tape[n], tape[i])
          BY <1>1, <3>1 DEF TapeInOrder
        <4>3. /\ t.ms \in Nat /\ t.ns \in Nat /\ t.exchange \in Nat
              /\ \A x \in 1..n : /\ tape[x].ms \in Nat /\ tape[x].ns \in Nat
                                 /\ tape[x].exchange \in Nat
          <5>1. /\ \A x \in 1..MaxMs : x \in Nat
                /\ \A x \in 0..MaxNs : x \in Nat
                /\ \A x \in Exchange : x \in Nat
            BY DEF GapReplayAssumption
          <5>2. /\ t.ms \in 1..MaxMs /\ t.ns \in 0..MaxNs /\ t.exchange \in Exchange
            BY DEF Trade
          <5>3. ASSUME NEW x \in 1..n
                PROVE  /\ tape[x].ms \in 1..MaxMs /\ tape[x].ns \in 0..MaxNs
                       /\ tape[x].exchange \in Exchange
            <6>1. tape[x] \in Prints
              BY <1>2
            <6> QED BY <6>1 DEF Prints
          <5> QED BY <5>1, <5>2, <5>3
        <4>4. Follows(t, tape[i])
          BY <1>1, <3>1, <4>1, <4>2, <4>3 DEF Follows, Earlier, Timestamp
        <4>5. Follows(new, tape[i])
          BY <1>3, <4>4 DEF Follows, Earlier, Timestamp
        <4> QED BY <1>5, <3>1, <3>3, <4>5
      <3> QED BY <1>6, <3>2, <3>3
    <2>3. \A i, j \in 1..n + 1 : i < j => Follows(tape'[j], tape'[i])
      BY <2>2
    <2>4. \A i \in 1..Len(tape') : tape'[i].id = i /\ tape'[i].exchange \in venues'
      BY <1>5, <2>1 DEF sources
    <2>5. \A i, j \in 1..Len(tape') : i < j => Follows(tape'[j], tape'[i])
      BY <1>5, <2>3
    <2> QED BY <1>5, <2>4, <2>5 DEF TapeInOrder, Follows, Earlier, Timestamp
  <1> QED BY <1>1, <1>5, <1>7, <1>8 DEF Last

(* The watch is where the primed variables say. *)
LEMMA WatchedPrimed ==
  ASSUME NEW k, UNCHANGED sources,
         gapCursor' = cursorFromTrade(toReplayTrade(tape'[k])), gapPrevious' = tape'[k].price,
         fired' = FirstIn(tape', k), decided' = k
  PROVE  WatchedTo(tape, decided)'
  BY DEF sources, WatchedTo, FirstIn, EntriesIn, PastIn, cursorFromTrade, toReplayTrade,
         ReplayTrade, Timestamp, padTimestampToNanoseconds

(* Every step keeps the invariant. *)
LEMMA GapStep ==
  ASSUME GapReplayAssumption, GapIInv, GapNext
  PROVE  GapIInv'
  <1> USE DEF GapIInv
  <1>1. UNCHANGED sources
    BY DEF GapNext, TradeWhileLive, TradeWhileDown, TradeWhileSeeding, GapBegins, Subscribe,
           performGapReplay
  <1>2. SourcesAgree' <=> SourcesAgree
    BY <1>1 DEF sources, SourcesAgree
  <1>3. ASSUME NEW t \in Trade, TradeWhileLive(t) PROVE GapIInv'
    <2> DEFINE new == toReplayTrade(Last(tape'))
               n == Len(tape)
    <2>1. gapConn = "live" /\ Happens(t) /\ Process(<<new>>) /\ UNCHANGED gapConnection
      BY <1>3 DEF TradeWhileLive
    <2>2. /\ TapeInOrder'
          /\ Len(tape') = n + 1 /\ Len(tape') \in 1..MaxGapTrades
          /\ \A i \in DOMAIN tape' : \E u \in Trade : tape'[i] = Numbered(u, i)
          /\ \A i \in 1..n : tape'[i] = tape[i]
          /\ Last(tape') = tape'[Len(tape')]
      BY <1>1, <2>1, TapeGrows
    <2>3. n \in Nat \ {0} /\ tape' \in Seq(Prints) /\ tape'[n + 1] \in Prints
      <3>1. tape' \in Seq(Prints) /\ n \in Nat \ {0}
        BY <2>2 DEF TapeInOrder, GapTypeOK
      <3> HIDE DEF n
      <3> QED BY <2>2, <3>1
    <2>4. new \in ReplayTrades /\ new = toReplayTrade(tape'[n + 1])
      BY <2>2, <2>3, ReplayTradeType DEF toReplayTrade, GapTypeOK
    <2> HIDE DEF new
    <2>5. /\ gapCursor' \in Cursors /\ gapPrevious' \in GapPrice
          /\ fired' \in Cursors \cup {NoTrade} /\ decided' \in Nat
      <3>1. <<new>> \in Seq(ReplayTrades)
        BY <2>4
      <3> QED BY <2>1, <3>1, ProcessType
    <2>6. GapTypeOK'
      BY <1>1, <2>1, <2>2, <2>5 DEF GapTypeOK, sources, gapConnection
    <2>7. BufferHolds'
      BY <2>1 DEF BufferHolds, gapConnection
    <2>8. ASSUME SourcesAgree PROVE Watched'
      <3> HIDE DEF n
      <3>1. decided = n /\ WatchedTo(tape, n)
        BY <2>1, <2>8 DEF Watched, n
      <3>2. FirstIn(tape, n) = FirstIn(tape', n)
        BY <2>2, <2>3, FirstInExtends
      <3>3. WatchedTo(tape', n)
        BY <2>2, <2>3, <3>1, <3>2 DEF WatchedTo
      <3>4. compareReplayTrades(toReplayTrade(tape'[n]), toReplayTrade(tape'[n + 1]))
        <4>1. n \in 1..Len(tape') /\ n + 1 \in 1..Len(tape') /\ n < n + 1
          BY <2>2, <2>3
        <4>2. /\ tape'[n] \in Prints /\ tape'[n].id = n /\ tape'[n].exchange \in venues'
              /\ tape'[n + 1].id = n + 1 /\ tape'[n + 1].exchange \in venues'
              /\ Follows(tape'[n + 1], tape'[n])
          BY <2>2, <4>1 DEF TapeInOrder, Follows, Earlier, Timestamp
        <4>3. liveRaw \in BOOLEAN /\ (liveRaw \/ tape'[n].exchange = tape'[n + 1].exchange)
          BY <1>1, <2>8, <4>2 DEF SourcesAgree, sources, GapTypeOK
        <4>4. tape'[n].id < tape'[n + 1].id
          BY <4>1, <4>2
        <4> QED BY <2>3, <4>2, <4>3, <4>4, FollowsCompares DEF toReplayTrade
      <3> DEFINE T == tape'
                 trades == <<new>>
      <3>5. /\ T \in Seq(Prints) /\ Len(T) = n + 1 /\ n \in 1..Len(T) /\ WatchedTo(T, n)
            /\ trades \in Seq(ReplayTrades) /\ Len(trades) = Len(T) - n
            /\ \A q \in 1..Len(T) - n : trades[q] = toReplayTrade(T[n + q])
            /\ compareReplayTrades(toReplayTrade(T[n]), toReplayTrade(T[Len(T)]))
            /\ Process(trades)
        <4>1. Len(T) - n = 1 /\ n \in 1..Len(T) /\ Len(trades) = 1
          BY <2>2, <2>3
        <4>2. \A q \in 1..1 : trades[q] = toReplayTrade(T[n + q])
          BY <2>4
        <4> QED BY <2>1, <2>2, <2>3, <2>4, <3>3, <3>4, <4>1, <4>2
      <3> HIDE DEF T, trades
      <3>6. /\ gapCursor' = cursorFromTrade(toReplayTrade(T[Len(T)]))
            /\ gapPrevious' = T[Len(T)].price
            /\ fired' = FirstIn(T, Len(T)) /\ decided' = Len(T)
        BY <3>5, ProcessAdvances
      <3>7. WatchedTo(tape, decided)'
        BY <1>1, <3>6, WatchedPrimed DEF T
      <3>8. decided' \in 1..Len(tape') /\ decided' = Len(tape')
        BY <2>2, <2>3, <3>6 DEF T
      <3>9. gapConn' = "live"
        BY <2>1 DEF gapConnection
      <3> QED BY <3>7, <3>8, <3>9 DEF Watched
    <2> QED BY <1>2, <2>2, <2>6, <2>7, <2>8
  <1>4. ASSUME NEW t \in Trade, gapConn # "live", Happens(t), UNCHANGED <<gapConn, before,
          gapWatch>>,
               SourcesAgree
        PROVE  Watched'
    <2> DEFINE n == Len(tape)
    <2>1. /\ Len(tape') = n + 1
          /\ \A i \in 1..n : tape'[i] = tape[i]
      BY <1>1, <1>4, TapeGrows
    <2>2. /\ decided \in 1..n /\ n \in Nat /\ WatchedTo(tape, decided)
          /\ (gapConn = "seeding" => decided <= before)
      BY <1>4 DEF Watched, GapTypeOK
    <2> HIDE DEF n
    <2>3. FirstIn(tape, decided) = FirstIn(tape', decided)
      <3>1. decided \in Nat /\ \A i \in 1..decided : i \in 1..n
        BY <2>2
      <3> QED BY <2>1, <3>1, FirstInExtends
    <2>4. WatchedTo(tape, decided)'
      <3>1. /\ gapCursor' = cursorFromTrade(toReplayTrade(tape'[decided]))
            /\ gapPrevious' = tape'[decided].price
            /\ fired' = FirstIn(tape', decided) /\ decided' = decided
        BY <1>4, <2>1, <2>2, <2>3 DEF WatchedTo, gapWatch
      <3> QED BY <1>1, <3>1, WatchedPrimed
    <2>5. decided' \in 1..Len(tape')
      BY <1>4, <2>1, <2>2 DEF gapWatch
    <2> QED BY <1>4, <2>2, <2>4, <2>5 DEF Watched, gapWatch
  <1>5. ASSUME NEW t \in Trade, TradeWhileDown(t) PROVE GapIInv'
    <2>1. gapConn = "down" /\ Happens(t) /\ UNCHANGED <<gapConnection, gapWatch>>
      BY <1>5 DEF TradeWhileDown
    <2>2. /\ TapeInOrder' /\ Len(tape') \in 1..MaxGapTrades
          /\ \A i \in DOMAIN tape' : \E u \in Trade : tape'[i] = Numbered(u, i)
      BY <1>1, <2>1, TapeGrows
    <2>3. GapTypeOK'
      BY <1>1, <2>1, <2>2 DEF GapTypeOK, sources, gapConnection, gapWatch
    <2>4. BufferHolds'
      BY <2>1 DEF BufferHolds, gapConnection
    <2>5. SourcesAgree => Watched'
      BY <1>4, <2>1 DEF gapConnection
    <2> QED BY <1>2, <2>2, <2>3, <2>4, <2>5
  <1>6. ASSUME NEW t \in Trade, TradeWhileSeeding(t) PROVE GapIInv'
    <2> DEFINE n == Len(tape)
    <2>1. /\ gapConn = "seeding" /\ Happens(t) /\ UNCHANGED <<gapConn, before, gapWatch>>
          /\ gapBuffer' = gapBuffer \cup {toReplayTrade(Last(tape'))}
      BY <1>6 DEF TradeWhileSeeding
    <2>2. /\ TapeInOrder' /\ Len(tape') = n + 1 /\ Len(tape') \in 1..MaxGapTrades
          /\ \A i \in DOMAIN tape' : \E u \in Trade : tape'[i] = Numbered(u, i)
          /\ \A i \in 1..n : tape'[i] = tape[i]
          /\ Last(tape') = tape'[n + 1]
      BY <1>1, <2>1, TapeGrows
    <2>3. toReplayTrade(Last(tape')) \in ReplayTrades
      <3>1. tape'[n + 1] \in Prints
        <4>1. tape' \in Seq(Prints) /\ n + 1 \in 1..Len(tape')
          BY <2>2 DEF TapeInOrder, GapTypeOK
        <4> HIDE DEF n
        <4> QED BY <4>1
      <3> QED BY <2>2, <3>1, ReplayTradeType DEF toReplayTrade, GapTypeOK
    <2>4. GapTypeOK'
      BY <1>1, <2>1, <2>2, <2>3 DEF GapTypeOK, sources, gapWatch
    <2>5. BufferHolds'
      <3>1. before \in 1..n /\ n \in Nat
            /\ gapBuffer = {toReplayTrade(tape[i]) : i \in before + 1..n}
        BY <2>1 DEF BufferHolds, GapTypeOK
      <3> HIDE DEF n
      <3>2. \A i \in before + 1..n : tape'[i] = tape[i]
        BY <2>2, <3>1
      <3>3. before + 1..n + 1 = (before + 1..n) \cup {n + 1}
        BY <3>1
      <3>4. gapBuffer' = {toReplayTrade(tape'[i]) : i \in before + 1..n + 1}
        BY <2>1, <2>2, <3>1, <3>2, <3>3
      <3>5. \A i \in Nat : toReplayTrade(tape'[i]) = toReplayTrade(tape[i])'
        BY <1>1 DEF sources, toReplayTrade, ReplayTrade, Timestamp, padTimestampToNanoseconds
      <3>6. before' \in 1..Len(tape') /\ gapConn' = "seeding" /\ before' = before
        BY <2>1, <2>2, <3>1
      <3>7. before + 1..n + 1 \in SUBSET Nat
        BY <3>1
      <3>8. gapBuffer' = {toReplayTrade(tape[i])' : i \in before + 1..n + 1}
        BY <3>4, <3>5, <3>7
      <3> QED BY <2>2, <3>6, <3>8 DEF BufferHolds
    <2>6. SourcesAgree => Watched'
      BY <1>4, <2>1
    <2> QED BY <1>2, <2>2, <2>4, <2>5, <2>6
  <1>7. ASSUME UNCHANGED <<sources, tape>> PROVE TapeInOrder'
    BY <1>7 DEF sources, TapeInOrder, Follows, Earlier, Timestamp
  <1>8. ASSUME UNCHANGED <<sources, tape, gapWatch>>
        PROVE  WatchedTo(tape, decided) => WatchedTo(tape, decided)'
    BY <1>8 DEF sources, gapWatch, WatchedTo, FirstIn, EntriesIn, PastIn, cursorFromTrade,
                toReplayTrade, ReplayTrade, Timestamp, padTimestampToNanoseconds
  <1>9. CASE GapBegins
    <2>1. GapTypeOK'
      BY <1>9 DEF GapBegins, GapTypeOK, sources, gapWatch
    <2>2. BufferHolds'
      BY <1>9 DEF GapBegins, BufferHolds
    <2>3. Watched => Watched'
      BY <1>8, <1>9 DEF GapBegins, Watched, gapWatch
    <2> QED BY <1>2, <1>7, <1>9, <2>1, <2>2, <2>3 DEF GapBegins
  <1>10. CASE Subscribe
    <2>1. Len(tape) \in 1..MaxGapTrades /\ Len(tape) \in Nat
      BY DEF GapTypeOK, TapeInOrder
    <2>2. GapTypeOK'
      <3>1. Len(tape) \in 0..MaxGapTrades
        BY <2>1 DEF GapReplayAssumption
      <3> QED BY <1>10, <3>1 DEF Subscribe, GapTypeOK, sources, gapWatch
    <2>3. BufferHolds'
      <3>1. gapBuffer' = {} /\ before' = Len(tape') /\ gapConn' = "seeding" /\ tape' = tape
        BY <1>10 DEF Subscribe, BufferHolds
      <3>2. before' + 1..Len(tape') = {}
        BY <2>1, <3>1
      <3>3. before' \in 1..Len(tape')
        BY <2>1, <3>1
      <3> QED BY <3>1, <3>2, <3>3 DEF BufferHolds
    <2>4. Watched => Watched'
      <3>1. ASSUME Watched PROVE decided' <= before'
        BY <1>10, <2>1, <3>1 DEF Subscribe, Watched, gapWatch
      <3> QED BY <1>8, <1>10, <3>1 DEF Subscribe, Watched, gapWatch
    <2> QED BY <1>2, <1>7, <1>10, <2>2, <2>3, <2>4 DEF Subscribe
  <1>11. CASE performGapReplay
    <2>1. PICK recent \in SUBSET (before + 1 .. Len(tape)) :
            Process(filterTradesAfterCursor(gapCursor,
              mergeGapTrades(getHistoricalTrades(recent), gapBuffer)))
      BY <1>11 DEF performGapReplay
    <2> DEFINE trades == filterTradesAfterCursor(gapCursor,
                           mergeGapTrades(getHistoricalTrades(recent), gapBuffer))
    <2>2. /\ gapConn = "seeding" /\ gapConn' = "live" /\ gapBuffer' = {} /\ before' = 0
          /\ tape' = tape
      BY <1>11 DEF performGapReplay
    <2>3. trades \in Seq(ReplayTrades)
      BY <2>2, ReplayIsSequence
    <2>4. Process(trades)
      BY <2>1
    <2> HIDE DEF trades
    <2>5. /\ gapCursor' \in Cursors /\ gapPrevious' \in GapPrice
          /\ fired' \in Cursors \cup {NoTrade} /\ decided' \in Nat
      BY <2>3, <2>4, ProcessType
    <2>6. GapTypeOK'
      <3>1. 0 \in 0..MaxGapTrades
        BY DEF GapReplayAssumption
      <3> QED BY <1>1, <2>2, <2>5, <3>1 DEF GapTypeOK, sources
    <2>7. BufferHolds'
      BY <2>2 DEF BufferHolds
    <2>8. ASSUME SourcesAgree PROVE Watched'
      <3> DEFINE k == decided
                 n == Len(tape)
      <3>1. /\ WatchedTo(tape, k) /\ k \in 1..before /\ k \in 1..n /\ n \in Nat
            /\ tape \in Seq(Prints) /\ before \in 1..n
        BY <2>2, <2>8 DEF Watched, BufferHolds, GapTypeOK, TapeInOrder
      <3>2. gapCursor = cursorFromTrade(toReplayTrade(tape[k]))
        BY <3>1 DEF WatchedTo
      <3> HIDE DEF k
      <3>3. /\ Len(trades) = n - k
            /\ \A q \in 1..n - k : trades[q] = toReplayTrade(tape[k + q])
        BY <2>2, <2>8, <3>1, <3>2, ReplayIsTheRest DEF trades
      <3>4. k < n => compareReplayTrades(toReplayTrade(tape[k]), toReplayTrade(tape[n]))
        BY <2>8, <3>1, TapeCompares
      <3>5. /\ gapCursor' = cursorFromTrade(toReplayTrade(tape[n]))
            /\ gapPrevious' = tape[n].price
            /\ fired' = FirstIn(tape, n) /\ decided' = n
        BY <2>3, <2>4, <3>1, <3>3, <3>4, ProcessAdvances
      <3>6. WatchedTo(tape, decided)'
        <4> HIDE DEF n
        <4> QED BY <1>1, <2>2, <3>5, WatchedPrimed
      <3>7. decided' \in 1..Len(tape') /\ decided' = Len(tape')
        BY <2>2, <3>1, <3>5
      <3> QED BY <2>2, <3>6, <3>7 DEF Watched
    <2> QED BY <1>1, <1>2, <1>7, <2>2, <2>6, <2>7, <2>8
  <1> QED BY <1>3, <1>5, <1>6, <1>9, <1>10, <1>11 DEF GapNext

(* The invariant holds of every behaviour of the replay. *)
LEMMA GapInductive ==
  ASSUME GapReplayAssumption
  PROVE  GapSpec => []GapIInv
  <1>1. GapInit => GapIInv
    BY GapInitInv
  <1>2. GapIInv /\ [GapNext]_gapVars => GapIInv'
    <2> SUFFICES ASSUME GapIInv, [GapNext]_gapVars PROVE GapIInv'
      OBVIOUS
    <2>1. CASE GapNext
      BY <2>1, GapStep
    <2>2. CASE UNCHANGED gapVars
      BY <2>2 DEF gapVars, sources, gapConnection, gapWatch, GapIInv, GapTypeOK, TapeInOrder,
                  BufferHolds, SourcesAgree, Watched, WatchedTo, FirstIn, EntriesIn, PastIn,
                  cursorFromTrade, toReplayTrade, ReplayTrade, Timestamp,
                  padTimestampToNanoseconds, Follows, Earlier
    <2> QED BY <2>1, <2>2
  <1> QED BY <1>1, <1>2, PTL DEF GapSpec

(* What the invariant says of a live connection is that nothing interrupted it. *)
LEMMA WatchedSuffices ==
  ASSUME GapReplayAssumption, GapIInv
  PROVE  ReplayIsUninterrupted
  <1> SUFFICES ASSUME SourcesAgree, gapConn = "live"
               PROVE  /\ fired = IF Entries = {} THEN NoTrade ELSE Stream(Min(Entries))
                      /\ gapPrevious = Last(tape).price
                      /\ gapCursor = Stream(Len(tape))
                      /\ decided = Len(tape)
    BY DEF ReplayIsUninterrupted
  <1>1. decided = Len(tape) /\ WatchedTo(tape, Len(tape))
    BY DEF GapIInv, Watched
  <1>2. Entries = EntriesIn(tape, Len(tape))
    BY DEF Entries, EntriesIn, GapPast, PastIn
  <1>3. fired = IF Entries = {} THEN NoTrade ELSE Stream(Min(Entries))
    BY <1>1, <1>2 DEF WatchedTo, FirstIn, Stream
  <1> QED BY <1>1, <1>3 DEF WatchedTo, Stream, Last

-----------------------------------------------------------------------------
(* The price sessions                                                       *)

(* The largest of some trades is one of them, and none is later. *)
LEMMA LargestOf ==
  ASSUME NEW n \in Nat, NEW S \in SUBSET (0..n), S # {}
  PROVE  Max(S) \in S /\ \A x \in S : x <= Max(S)
  <1>1. S \in SUBSET Nat /\ \A x \in S : x <= n
    OBVIOUS
  <1>2. \E m \in S : \A x \in S : m >= x
    BY <1>1, LargestPlace
  <1> QED BY <1>1, <1>2 DEF Max

(* The least of some trades is one of them, and none is earlier. *)
LEMMA LeastOf ==
  ASSUME NEW n \in Nat, NEW S \in SUBSET (0..n), S # {}
  PROVE  Min(S) \in S /\ \A x \in S : Min(S) <= x
  <1>1. S \in SUBSET Nat
    OBVIOUS
  <1>2. \E m \in S : \A x \in S : m <= x
    BY <1>1, SmallestPlace
  <1> QED BY <1>1, <1>2 DEF Min

(* The larger of two numbers. *)
LEMMA LargerOf ==
  ASSUME NEW a \in Nat, NEW b \in Nat
  PROVE  Max({a, b}) = IF a >= b THEN a ELSE b
  <1>1. \A x, y \in {a, b} : x >= y /\ y >= x => x = y
    OBVIOUS
  <1> QED BY <1>1 DEF Max

-----------------------------------------------------------------------------
PricesShape ==
  /\ \A l \in Lanes : lane[l].at \in {"decide", "advance"} => lane[l].merged # {}
  /\ queued <= drops
  /\ priceSession = "off" => queued = 0 /\ \A l \in Lanes : lane[l].at = "idle"
  /\ priceSession # "off" /\ priceConn = "down" => queued < drops

PricesTyped == PricesTypeOK /\ PricesShape

(* The market is a sequence of prices that is not empty. *)
LEMMA MarketType ==
  ASSUME PricesTypeOK, AlpacaSessionAssumption
  PROVE  /\ Latest \in Nat /\ Latest > 0 /\ Latest <= MaxTrades /\ MaxTrades \in Nat
         /\ market \in Seq(Price) /\ market \in [1..Latest -> Price]
         /\ \A t \in 1..Latest : market[t] \in Nat
  <1>1. PICK n \in 1..MaxTrades : market \in [1..n -> Price]
    BY DEF PricesTypeOK
  <1>2. n \in Nat /\ n > 0 /\ n <= MaxTrades /\ MaxTrades \in Nat
    BY <1>1 DEF AlpacaSessionAssumption
  <1>3. market \in Seq(Price) /\ Len(market) = n
    BY <1>1, <1>2
  <1> QED BY <1>1, <1>2, <1>3 DEF Latest, AlpacaSessionAssumption

(* The variables have their types at first. *)
LEMMA PricesInitTyped ==
  ASSUME AlpacaSessionAssumption, PricesInit
  PROVE  PricesTyped
  <1>1. PICK p \in Price : market = <<p>>
    BY DEF PricesInit
  <1>2. Latest = 1 /\ market \in [1..1 -> Price] /\ 1 \in 1..MaxTrades
    BY <1>1 DEF Latest, AlpacaSessionAssumption
  <1>3. market \in UNION {[1..n -> Price] : n \in 1..MaxTrades}
    BY <1>2
  <1>4. Idle \in LaneState
    BY <1>2 DEF Idle, Task, LaneState
  <1>5. PricesTypeOK
    <2>1. priceSub \in [PriceSubs -> [status : {"new", "armed", "fired", "expired"},
                                      armedAt : 0..MaxTrades, trade : 0..MaxTrades]]
      BY DEF PricesInit, AlpacaSessionAssumption
    <2>2. sessions \in 0..MaxSessions /\ queued \in 0..MaxDrops /\ drops \in 0..MaxDrops
      BY DEF PricesInit, AlpacaSessionAssumption
    <2>3. lane \in [Lanes -> LaneState]
      BY <1>4 DEF PricesInit
    <2>4. circumstances \subseteq Circumstances
      BY DEF PricesInit
    <2>5. 0 \in 0..Latest
      BY <1>2
    <2>6. sending = {} /\ priceBuffer = {} /\ watch = {}
      BY DEF PricesInit
    <2>7. previous \in [PriceSubs -> 0..Latest] /\ since \in [PriceSubs -> 0..Latest]
      BY <2>5 DEF PricesInit
    <2>8. /\ persisted \in 0..Latest /\ pendingCursor \in 0..Latest
          /\ known \in 0..Latest /\ heard \in 0..Latest
          /\ priceSession \in {"off", "on", "closing"}
          /\ priceConn \in {"up", "down"}
          /\ streaming \in BOOLEAN /\ seeding \in BOOLEAN
          /\ priceBuffer \subseteq 1..Latest
          /\ watch \subseteq PriceSubs
      BY <2>5, <2>6 DEF PricesInit
    <2> QED BY <1>3, <2>1, <2>2, <2>3, <2>4, <2>6, <2>7, <2>8 DEF PricesTypeOK
  <1>6. PricesShape
    BY DEF PricesInit, PricesShape, Idle, Task
  <1> QED BY <1>5, <1>6 DEF PricesTyped

(* They keep them when the symbol trades. *)
LEMMA TradeTyped ==
  ASSUME AlpacaSessionAssumption, PricesTyped, NEW p \in Price, TradeHappens(p)
  PROVE  PricesTyped'
  <1>1. /\ Latest \in Nat /\ Latest > 0 /\ Latest < MaxTrades /\ MaxTrades \in Nat
        /\ market \in Seq(Price) /\ market \in [1..Latest -> Price]
    BY MarketType DEF PricesTyped, TradeHappens
  <1>2. Latest' = Latest + 1 /\ market' \in [1..Latest + 1 -> Price]
    <2>1. market' \in Seq(Price) /\ Len(market') = Len(market) + 1
      BY <1>1 DEF TradeHappens
    <2> QED BY <2>1 DEF Latest
  <1>3. market' \in UNION {[1..n -> Price] : n \in 1..MaxTrades}
    BY <1>1, <1>2
  <1>4. \A x \in LaneState : x \in LaneState'
    BY <1>1, <1>2 DEF LaneState
  <1>5. PricesTypeOK'
    BY <1>1, <1>2, <1>3, <1>4 DEF PricesTyped, PricesTypeOK, TradeHappens, run, connection, memory,
      tasks
  <1>6. PricesShape'
    BY DEF PricesTyped, PricesShape, TradeHappens, run, connection, memory, tasks
  <1> QED BY <1>5, <1>6 DEF PricesTyped

(* What is typed by the number of trades keeps its type while nobody trades. *)
LEMMA SameMarket ==
  ASSUME market' = market
  PROVE  Latest' = Latest /\ LaneState' = LaneState
  BY DEF Latest, LaneState

(* What the type invariant says without the market, whose length stands still. *)
PricesRest ==
  /\ circumstances \subseteq Circumstances
  /\ priceSub \in [PriceSubs -> [status : {"new", "armed", "fired", "expired"},
                                 armedAt : 0..MaxTrades, trade : 0..MaxTrades]]
  /\ persisted \in 0..Latest /\ pendingCursor \in 0..Latest
  /\ known \in 0..Latest /\ heard \in 0..Latest
  /\ priceSession \in {"off", "on", "closing"} /\ sessions \in 0..MaxSessions
  /\ priceConn \in {"up", "down"} /\ drops \in 0..MaxDrops
  /\ streaming \in BOOLEAN /\ seeding \in BOOLEAN
  /\ priceBuffer \subseteq 1..Latest
  /\ watch \subseteq PriceSubs
  /\ previous \in [PriceSubs -> 0..Latest] /\ since \in [PriceSubs -> 0..Latest]
  /\ sending \subseteq PriceSubs \X (1..Latest)
  /\ lane \in [Lanes -> LaneState]
  /\ queued \in 0..MaxDrops

(* While nobody trades, the rest of the type invariant is enough. *)
LEMMA MarketStands ==
  ASSUME PricesTypeOK, market' = market,
         Latest' = Latest /\ LaneState' = LaneState => PricesRest'
  PROVE  PricesTypeOK'
  BY SameMarket DEF PricesRest, PricesTypeOK

(* What the type invariant says, with the bounds. *)
LEMMA Typing ==
  ASSUME PricesTyped, AlpacaSessionAssumption
  PROVE  /\ PricesRest /\ Latest \in Nat /\ Latest > 0 /\ Latest <= MaxTrades
         /\ MaxTrades \in Nat /\ MaxDrops \in Nat /\ MaxSessions \in Nat
  BY MarketType DEF PricesRest, PricesTypeOK, PricesTyped, AlpacaSessionAssumption

(* What it says of one task. *)
LEMMA LaneTyping ==
  ASSUME PricesRest, NEW l \in Lanes
  PROVE  /\ lane[l] \in LaneState /\ lane[l].ready \subseteq PriceSubs
         /\ lane[l].fresh \subseteq PriceSubs /\ lane[l].cur \in 0..Latest
         /\ lane[l].merged \subseteq 1..Latest /\ lane[l].recorded \in BOOLEAN
  BY DEF PricesRest, LaneState

(* What Goes does to the tasks. *)
LEMMA Going ==
  ASSUME PricesRest, NEW l \in Lanes, NEW task \in LaneState, Goes(l, task)
  PROVE  /\ lane' \in [Lanes -> LaneState] /\ lane'[l] = task
         /\ \A other \in Lanes : other # l => lane'[other] = lane[other]
  BY DEF PricesRest, Goes

(* An idle task is a task. *)
LEMMA IdleTyping ==
  ASSUME Latest \in Nat
  PROVE  Idle \in LaneState
  BY DEF Idle, Task, LaneState

(* A subscription that fires is a record of the registry. *)
LEMMA FiredType ==
  ASSUME PricesRest, Latest \in Nat, MaxTrades \in Nat, Latest <= MaxTrades,
         NEW s \in PriceSubs, NEW t \in 1..Latest
  PROVE  FiredAt(s, t) \in [status : {"new", "armed", "fired", "expired"},
                            armedAt : 0..MaxTrades, trade : 0..MaxTrades]
  <1>1. t \in 0..MaxTrades
    OBVIOUS
  <1>2. priceSub[s] \in [status : {"new", "armed", "fired", "expired"},
                         armedAt : 0..MaxTrades, trade : 0..MaxTrades]
    BY DEF PricesRest
  <1> HIDE DEF FiredAt
  <1> QED BY ONLY <1>1, <1>2 DEF FiredAt

(* The steps that only touch the registry, the connection or the session keep the types. *)
LEMMA SimpleTyped ==
  ASSUME AlpacaSessionAssumption, PricesTyped,
         \/ \E s \in PriceSubs : ArmPrice(s) \/ PriceExpires(s) \/ \E t \in 1..Latest :
                 DeliverPrice(s, t)
         \/ StockDrops \/ Start \/ BeginShutdown
         \/ UNCHANGED pricesVars
  PROVE  PricesTyped'
  <1>1. /\ PricesRest /\ PricesShape /\ PricesTypeOK /\ Latest \in Nat /\ Latest > 0
        /\ Latest <= MaxTrades /\ MaxTrades \in Nat /\ MaxDrops \in Nat /\ MaxSessions \in Nat
    BY Typing DEF PricesTyped
  <1> SUFFICES /\ market' = market
               /\ Latest' = Latest /\ LaneState' = LaneState => PricesRest' /\ PricesShape'
    BY <1>1, MarketStands, SameMarket DEF PricesTyped
  <1>2. ASSUME NEW s \in PriceSubs, ArmPrice(s)
        PROVE  /\ market' = market
               /\ Latest' = Latest /\ LaneState' = LaneState => PricesRest' /\ PricesShape'
    BY <1>1, <1>2 DEF ArmPrice, PricesRest, PricesShape, run, connection, memory, tasks
  <1>3. ASSUME NEW s \in PriceSubs, PriceExpires(s)
        PROVE  /\ market' = market
               /\ Latest' = Latest /\ LaneState' = LaneState => PricesRest' /\ PricesShape'
    BY <1>1, <1>3 DEF PriceExpires, PricesRest, PricesShape, run, connection, memory, tasks
  <1>4. ASSUME NEW s \in PriceSubs, NEW t \in 1..Latest, DeliverPrice(s, t)
        PROVE  /\ market' = market
               /\ Latest' = Latest /\ LaneState' = LaneState => PricesRest' /\ PricesShape'
    <2>1. FiredAt(s, t) \in [status : {"new", "armed", "fired", "expired"},
                             armedAt : 0..MaxTrades, trade : 0..MaxTrades]
      BY <1>1, FiredType
    <2> QED BY <1>1, <1>4, <2>1
         DEF DeliverPrice, PricesRest, PricesShape, run, connection, memory, tasks
  <1>5. ASSUME StockDrops
        PROVE  /\ market' = market
               /\ Latest' = Latest /\ LaneState' = LaneState => PricesRest' /\ PricesShape'
    BY <1>1, <1>5 DEF StockDrops, PricesRest, PricesShape, run, memory, tasks, world
  <1>6. ASSUME Start
        PROVE  /\ market' = market
               /\ Latest' = Latest /\ LaneState' = LaneState => PricesRest' /\ PricesShape'
    BY <1>1, <1>6 DEF Start, PricesRest, PricesShape, memory, tasks, world
  <1>7. ASSUME BeginShutdown
        PROVE  /\ market' = market
               /\ Latest' = Latest /\ LaneState' = LaneState => PricesRest' /\ PricesShape'
    BY <1>1, <1>7 DEF BeginShutdown, PricesRest, PricesShape, memory, tasks, world, connection
  <1>8. ASSUME UNCHANGED pricesVars
        PROVE  /\ market' = market
               /\ Latest' = Latest /\ LaneState' = LaneState => PricesRest' /\ PricesShape'
    BY <1>1, <1>8 DEF PricesRest, PricesShape, memory, tasks, world, connection, run, pricesVars
  <1> QED BY <1>2, <1>3, <1>4, <1>5, <1>6, <1>7, <1>8

(* The steps that end a session keep the types. *)
LEMMA ForgetfulTyped ==
  ASSUME AlpacaSessionAssumption, PricesTyped, EndShutdown \/ CrashSession
  PROVE  PricesTyped'
  <1>1. /\ PricesRest /\ PricesShape /\ PricesTypeOK /\ Latest \in Nat /\ Latest > 0
        /\ Latest <= MaxTrades /\ MaxTrades \in Nat /\ MaxDrops \in Nat /\ MaxSessions \in Nat
    BY Typing DEF PricesTyped
  <1> SUFFICES /\ market' = market
               /\ Latest' = Latest /\ LaneState' = LaneState => PricesRest' /\ PricesShape'
    BY <1>1, MarketStands, SameMarket DEF PricesTyped
  <1>2. [l \in Lanes |-> Idle] \in [Lanes -> LaneState]
    BY <1>1, IdleTyping
  <1>3. \A l \in Lanes : [m \in Lanes |-> Idle][l] = Idle
    OBVIOUS
  <1>4. flushPendingCursors \in 0..Latest
    BY <1>1, LargerOf DEF PricesRest, flushPendingCursors
  <1>5. Idle.at = "idle"
    BY DEF Idle, Task
  <1> DEFINE none == [s \in PriceSubs |-> 0]
             idle == [l \in Lanes |-> Idle]
  <1>6. none \in [PriceSubs -> 0..Latest]
    BY <1>1
  <1>7. ASSUME Latest' = Latest, LaneState' = LaneState, Forget, priceSession' = "off",
               market' = market, circumstances' = circumstances, priceSub' = priceSub,
               persisted' \in 0..Latest, sessions' = sessions, drops' = drops, since' = since
        PROVE  PricesRest' /\ PricesShape'
    <2>1. previous' = none /\ lane' = idle
      BY <1>7 DEF Forget
    <2>5. idle \in [Lanes -> LaneState] /\ priceBuffer' = {} /\ watch' = {} /\ sending' = {}
      BY <1>2, <1>7 DEF Forget
    <2>6. 0 \in 0..Latest /\ 0 \in 0..MaxDrops
      BY <1>1
    <2> HIDE DEF none, idle
    <2>2. PricesRest'
      BY <1>1, <1>6, <1>7, <2>1, <2>5, <2>6 DEF PricesRest, Forget
    <2>3. \A l \in Lanes : lane'[l].at = "idle"
      BY <1>3, <1>5, <2>1 DEF idle
    <2>4. PricesShape'
      BY <1>1, <1>7, <2>3 DEF PricesShape, PricesRest, Forget
    <2> QED BY <2>2, <2>4
  <1>8. CASE EndShutdown
    BY <1>1, <1>4, <1>7, <1>8 DEF EndShutdown, world
  <1>9. CASE CrashSession
    BY <1>1, <1>7, <1>9 DEF CrashSession, world, PricesRest
  <1> QED BY <1>8, <1>9

(* A new task is a task. *)
LEMMA TaskType ==
  ASSUME NEW a \in {"idle", "join", "ack", "read", "fetch", "decide", "advance", "drain", "fresh",
                    "snapshot"},
         NEW r \in SUBSET PriceSubs, NEW f \in SUBSET PriceSubs, NEW c \in 0..Latest
  PROVE  Task(a, r, f, c) \in LaneState
  BY DEF Task, LaneState

(* A task that moves on is a task. *)
LEMMA Moved ==
  ASSUME NEW x \in LaneState, NEW a \in {"idle", "join", "ack", "read", "fetch", "decide",
                                         "advance", "drain", "fresh", "snapshot"},
         NEW c \in 0..Latest, NEW f \in SUBSET PriceSubs, NEW m \in SUBSET (1..Latest),
         NEW r \in BOOLEAN
  PROVE  /\ [x EXCEPT !.at = a, !.merged = m] \in LaneState
         /\ [x EXCEPT !.at = a, !.recorded = r] \in LaneState
         /\ [x EXCEPT !.at = a, !.cur = c, !.merged = m] \in LaneState
         /\ [x EXCEPT !.at = a, !.fresh = f, !.merged = m] \in LaneState
  BY DEF LaneState

(* The replay a reconnect starts is a task. *)
LEMMA ReplayTyping ==
  ASSUME PricesRest, Latest \in Nat
  PROVE  NextReplay \in LaneState /\ NextReplay.at = "read" /\ Idle.at = "idle"
  <1>1. Idle \in LaneState /\ Idle.at = "idle"
    BY IdleTyping DEF Idle, Task
  <1>2. watch \in SUBSET PriceSubs
    BY DEF PricesRest
  <1>3. NextReplay = [at |-> "read", ready |-> watch, fresh |-> {}, cur |-> 0, merged |-> {},
                      recorded |-> TRUE]
    BY DEF NextReplay, Task
  <1>4. NextReplay \in LaneState
    BY <1>2, <1>3 DEF LaneState
  <1> QED BY <1>1, <1>3, <1>4

(* A reconnect keeps the types, and one more replay is queued at most. *)
LEMMA ReconnectTyped ==
  ASSUME AlpacaSessionAssumption, PricesTyped, StockReconnects
  PROVE  PricesTyped'
  <1>1. /\ PricesRest /\ PricesShape /\ PricesTypeOK /\ Latest \in Nat /\ Latest > 0
        /\ Latest <= MaxTrades /\ MaxTrades \in Nat /\ MaxDrops \in Nat /\ MaxSessions \in Nat
    BY Typing DEF PricesTyped
  <1> SUFFICES /\ market' = market
               /\ Latest' = Latest /\ LaneState' = LaneState => PricesRest' /\ PricesShape'
    BY <1>1, MarketStands, SameMarket DEF PricesTyped
  <1>2. NextReplay \in LaneState /\ NextReplay.at = "read" /\ Idle.at = "idle" /\ Idle \in LaneState
    BY <1>1, ReplayTyping, IdleTyping
  <1>3. "replay" \in Lanes
    BY DEF Lanes
  <1> SUFFICES ASSUME Latest' = Latest, LaneState' = LaneState PROVE PricesRest' /\ PricesShape'
    BY DEF StockReconnects, world
  <1>4. ASSUME UNCHANGED lane, UNCHANGED seeding, queued' = queued \/ queued' = queued + 1
        PROVE  PricesRest' /\ PricesShape'
    BY <1>1, <1>4 DEF StockReconnects, PricesRest, PricesShape, world, run
  <1>5. ASSUME NEW task \in LaneState, task.at \in {"read", "idle"}, Goes("replay", task),
               seeding' \in BOOLEAN, UNCHANGED queued
        PROVE  PricesRest' /\ PricesShape'
    <2>1. /\ lane' \in [Lanes -> LaneState] /\ lane'["replay"] = task
          /\ \A other \in Lanes : other # "replay" => lane'[other] = lane[other]
      BY <1>1, <1>3, <1>5, Going
    <2>2. PricesRest'
      BY <1>1, <1>5, <2>1 DEF StockReconnects, PricesRest, world, run
    <2>3. PricesShape'
      BY <1>1, <1>5, <2>1 DEF StockReconnects, PricesRest, PricesShape, world, run
    <2> QED BY <2>2, <2>3
  <1>6. CASE priceSession = "on" /\ lane["replay"].at = "idle"
    <2>1. seeding' = (seeding \/ watch # {}) /\ UNCHANGED queued
      BY <1>6 DEF StockReconnects, onReconnected
    <2>2. \/ Goes("replay", NextReplay)
          \/ Goes("replay", Idle)
      BY <1>6 DEF StockReconnects, onReconnected
    <2>3. seeding' \in BOOLEAN
      BY <1>1, <2>1 DEF PricesRest
    <2> QED BY <1>2, <1>5, <2>1, <2>2, <2>3
  <1>7. CASE ~ (priceSession = "on" /\ lane["replay"].at = "idle")
    <2>1. UNCHANGED lane /\ UNCHANGED seeding /\ (queued' = queued \/ queued' = queued + 1)
      BY <1>7 DEF StockReconnects, onReconnected
    <2> QED BY <1>4, <2>1
  <1> QED BY <1>6, <1>7

(* A live trade keeps the types. *)
LEMMA LiveTradeTyped ==
  ASSUME AlpacaSessionAssumption, PricesTyped, handleLiveTrade
  PROVE  PricesTyped'
  <1>1. /\ PricesRest /\ PricesShape /\ PricesTypeOK /\ Latest \in Nat /\ Latest > 0
        /\ Latest <= MaxTrades /\ MaxTrades \in Nat /\ MaxDrops \in Nat /\ MaxSessions \in Nat
    BY Typing DEF PricesTyped
  <1> SUFFICES /\ market' = market
               /\ Latest' = Latest /\ LaneState' = LaneState => PricesRest' /\ PricesShape'
    BY <1>1, MarketStands, SameMarket DEF PricesTyped
  <1> SUFFICES ASSUME Latest' = Latest, LaneState' = LaneState PROVE PricesRest' /\ PricesShape'
    BY DEF handleLiveTrade, world
  <1>2. heard + 1 \in 1..Latest /\ heard' = heard + 1 /\ heard + 1 \in 0..Latest
    BY <1>1 DEF handleLiveTrade, PricesRest
  <1>3. PricesShape'
    BY <1>1 DEF handleLiveTrade, PricesShape, world, run, tasks
  <1>4. CASE priceSession = "closing"
    <2>1. UNCHANGED <<circumstances, market, priceSub, persisted, priceSession, sessions, priceConn,
                      drops, streaming, seeding, priceBuffer, known, pendingCursor, watch, previous,
                      sending, lane, queued, since>>
      BY <1>4 DEF handleLiveTrade, world, run, tasks, memory
    <2> QED BY <1>1, <1>2, <1>3, <2>1 DEF PricesRest
  <1>5. CASE priceSession # "closing" /\ seeding
    <2>1. /\ UNCHANGED <<circumstances, market, priceSub, persisted, priceSession, sessions,
                         priceConn, drops, streaming, seeding, pendingCursor, watch, previous,
                         sending, lane, queued, since>>
          /\ known' = heard + 1 /\ priceBuffer' = priceBuffer \cup {heard + 1}
      BY <1>5 DEF handleLiveTrade, world, run, tasks, Buffered
    <2> QED BY <1>1, <1>2, <1>3, <2>1 DEF PricesRest
  <1>6. CASE priceSession # "closing" /\ ~ seeding
    <2> DEFINE hits == {<<s, heard + 1>> : s \in {w \in watch : previous[w] # 0
                                                  /\ crosses(w, previous[w], heard + 1)}}
    <2>1. hits \subseteq PriceSubs \X (1..Latest)
      BY <1>1, <1>2 DEF PricesRest
    <2> HIDE DEF hits
    <2>2. PICK stored \in BOOLEAN : TradeDecides(heard + 1, stored)
      BY <1>6 DEF handleLiveTrade
    <2>3. Max({persisted, heard + 1}) \in 0..Latest
      <3>1. persisted \in 0..Latest /\ persisted \in Nat /\ heard + 1 \in Nat
        BY <1>1, <1>2 DEF PricesRest
      <3> QED BY <1>2, <3>1, LargerOf
    <2>4. sending' = sending \cup hits
      BY <2>2 DEF TradeDecides, hits
    <2>5. previous' = [s \in PriceSubs |-> IF s \in watch THEN heard + 1 ELSE previous[s]]
          /\ pendingCursor' = heard + 1
      BY <2>2 DEF TradeDecides
    <2>6. previous' \in [PriceSubs -> 0..Latest]
      BY <1>1, <1>2, <2>5 DEF PricesRest
    <2>7. persisted' \in 0..Latest
      BY <1>1, <2>2, <2>3 DEF TradeDecides, PricesRest
    <2>8. sending' \subseteq PriceSubs \X (1..Latest)
      BY <1>1, <2>1, <2>4 DEF PricesRest
    <2>9. /\ UNCHANGED <<circumstances, market, priceSub, priceSession, sessions, priceConn, drops,
                         streaming, seeding, watch, lane, queued, since, priceBuffer>>
          /\ known' = heard + 1
      BY <1>6 DEF handleLiveTrade, world, run, tasks
    <2> HIDE DEF hits
    <2> QED BY <1>1, <1>2, <1>3, <2>5, <2>6, <2>7, <2>8, <2>9 DEF PricesRest
  <1> QED BY <1>3, <1>4, <1>5, <1>6

(* A task runs in a session only. *)
LEMMA TaskRuns ==
  ASSUME PricesTyped, NEW l \in Lanes, Seeding(l) \/ SeedingFails(l)
  PROVE  priceSession # "off"
  BY DEF PricesTyped, PricesShape, Seeding, SeedingFails, ReadSeedCursor, Fetch, Decide, Advance,
         Drain, FreshSeed, Snapshot, Seeded

(* A step that moves one task and leaves the connection and the session alone. *)
LEMMA TaskTyped ==
  ASSUME PricesTyped, AlpacaSessionAssumption, NEW l \in Lanes, NEW task \in LaneState,
         Goes(l, task), task.at \in {"decide", "advance"} => task.merged # {},
         circumstances' = circumstances, market' = market, Latest' = Latest,
         priceSub' \in [PriceSubs -> [status : {"new", "armed", "fired", "expired"},
                                     armedAt : 0..MaxTrades, trade : 0..MaxTrades]],
         persisted' \in 0..Latest, pendingCursor' \in 0..Latest, heard' \in 0..Latest,
         UNCHANGED <<known, sessions, priceConn, drops, sending>>,
         priceSession' \in {priceSession, "closing"}, priceSession # "off",
         streaming' \in BOOLEAN, seeding' \in BOOLEAN,
         priceBuffer' \subseteq 1..Latest, watch' \subseteq PriceSubs,
         previous' \in [PriceSubs -> 0..Latest], since' \in [PriceSubs -> 0..Latest],
         queued' \in 0..queued
  PROVE  PricesTyped'
  <1>1. /\ PricesRest /\ PricesShape /\ PricesTypeOK /\ Latest \in Nat /\ Latest > 0
        /\ Latest <= MaxTrades /\ MaxTrades \in Nat /\ MaxDrops \in Nat /\ MaxSessions \in Nat
    BY Typing DEF PricesTyped
  <1> SUFFICES /\ market' = market
               /\ Latest' = Latest /\ LaneState' = LaneState => PricesRest' /\ PricesShape'
    BY <1>1, MarketStands, SameMarket DEF PricesTyped
  <1> SUFFICES ASSUME Latest' = Latest, LaneState' = LaneState PROVE PricesRest' /\ PricesShape'
    OBVIOUS
  <1>2. /\ lane' \in [Lanes -> LaneState] /\ lane'[l] = task
        /\ \A other \in Lanes : other # l => lane'[other] = lane[other]
    BY <1>1, Going
  <1>3. queued \in Nat /\ queued' \in Nat /\ queued' <= queued /\ queued' \in 0..MaxDrops
    BY <1>1 DEF PricesRest
  <1>4. PricesRest'
    BY <1>1, <1>2, <1>3 DEF PricesRest
  <1>5. PricesShape'
    BY <1>1, <1>2, <1>3 DEF PricesRest, PricesShape
  <1> QED BY <1>4, <1>5

(* Reading the cursor keeps the types. *)
LEMMA CursorReadTyped ==
  ASSUME AlpacaSessionAssumption, PricesTyped, NEW l \in Lanes, ReadSeedCursor(l)
  PROVE  PricesTyped'
  <1>0. priceSession # "off"
    BY TaskRuns DEF Seeding
  <1>1. PricesRest /\ Latest \in Nat
    BY Typing
  <1> DEFINE ready == {s \in lane[l].ready : Ready(s, persisted)}
             task == Task(IF ready = {} THEN "fresh" ELSE "fetch", ready, lane[l].ready \ ready,
                           persisted)
  <1>2. Goes(l, task)
    BY DEF ReadSeedCursor
  <1>4. ready \subseteq PriceSubs /\ lane[l].ready \ ready \subseteq PriceSubs
    BY <1>1, LaneTyping
  <1>5. persisted \in 0..Latest
    BY <1>1 DEF PricesRest
  <1>6. since' = [s \in PriceSubs |-> IF s \in ready /\ since[s] = 0 THEN persisted ELSE since[s]]
    BY DEF ReadSeedCursor
  <1> HIDE DEF ready
  <1>7. task \in LaneState
    BY <1>4, <1>5, TaskType
  <1>8. task.at \notin {"decide", "advance"}
    BY DEF Task
  <1>9. since' \in [PriceSubs -> 0..Latest]
    BY <1>1, <1>5, <1>6 DEF PricesRest
  <1> HIDE DEF task
  <1>10. market' = market /\ Latest' = Latest
    BY SameMarket DEF ReadSeedCursor, world
  <1> QED BY <1>0, <1>1, <1>2, <1>7, <1>8, <1>9, <1>10, TaskTyped
          DEF ReadSeedCursor, PricesRest, world, run, connection, memory

(* A task that only changes its place is a task. *)
LEMMA MovedOn ==
  ASSUME NEW x \in LaneState, NEW a \in {"idle", "join", "ack", "read", "fetch", "decide",
                                         "advance", "drain", "fresh", "snapshot"}
  PROVE  [x EXCEPT !.at = a] \in LaneState
  BY DEF LaneState

(* Merging what was fetched and buffered keeps the types. *)
LEMMA MergeMoves ==
  ASSUME AlpacaSessionAssumption, PricesTyped, NEW l \in Lanes, NEW trades \in SUBSET (0..Latest),
         priceSession # "off", Merge(l, trades), UNCHANGED <<world, persisted, run, connection,
                 seeding, known,
                                       pendingCursor, watch, previous, sending, queued, since>>
  PROVE  PricesTyped'
  <1>1. PricesRest /\ PricesShape /\ Latest \in Nat /\ Latest > 0
    BY Typing DEF PricesTyped
  <1> DEFINE merged == {t \in trades : t > lane[l].cur}
             task == [lane[l] EXCEPT !.at = IF merged = {} THEN "drain" ELSE "decide",
                                      !.merged = merged]
  <1>2. Goes(l, task) /\ priceBuffer' = {}
    BY DEF Merge
  <1>3. lane[l] \in LaneState /\ lane[l].cur \in 0..Latest
    BY <1>1, LaneTyping
  <1>4. merged \in SUBSET (1..Latest)
    <2>1. ASSUME NEW t \in merged PROVE t \in 1..Latest
      <3>1. t \in 0..Latest /\ t > lane[l].cur
        BY <2>1
      <3> QED BY <1>1, <1>3, <3>1
    <2> QED BY <2>1
  <1> HIDE DEF merged
  <1>5. task \in LaneState
    BY <1>3, <1>4, Moved
  <1>6. task.at \in {"decide", "advance"} => task.merged # {}
    BY <1>3 DEF LaneState
  <1> HIDE DEF task
  <1>7. market' = market /\ Latest' = Latest
    BY SameMarket DEF world
  <1>8. PricesTyped /\ AlpacaSessionAssumption /\ priceSession # "off"
    OBVIOUS
  <1>9. queued' \in 0..queued
    BY <1>1 DEF PricesRest
  <1>10. priceBuffer' \subseteq 1..Latest
    BY <1>2
  <1> QED BY <1>1, <1>2, <1>5, <1>6, <1>7, <1>8, <1>9, <1>10, TaskTyped
          DEF PricesRest, world, run, connection

(* Fetching the history keeps the types. *)
LEMMA FetchTyped ==
  ASSUME AlpacaSessionAssumption, PricesTyped, NEW l \in Lanes, Fetch(l)
  PROVE  PricesTyped'
  <1>0. priceSession # "off"
    BY TaskRuns DEF Seeding
  <1>1. PricesRest /\ PricesShape /\ Latest \in Nat /\ Latest > 0
    BY Typing DEF PricesTyped
  <1>2. PICK end \in heard..Latest : Merge(l, (lane[l].cur .. end) \cup priceBuffer)
    BY DEF Fetch
  <1>3. lane[l].cur \in 0..Latest /\ heard \in 0..Latest /\ priceBuffer \subseteq 1..Latest
    BY <1>1, LaneTyping DEF PricesRest
  <1>4. (lane[l].cur .. end) \cup priceBuffer \in SUBSET (0..Latest)
    <2>1. ASSUME NEW t \in lane[l].cur .. end PROVE t \in 0..Latest
      BY <1>1, <1>2, <1>3
    <2>2. ASSUME NEW t \in priceBuffer PROVE t \in 0..Latest
      BY <1>1, <1>3
    <2> QED BY <2>1, <2>2
  <1> QED BY <1>0, <1>2, <1>4, MergeMoves DEF Fetch

(* Draining the buffer keeps the types. *)
LEMMA DrainTyped ==
  ASSUME AlpacaSessionAssumption, PricesTyped, NEW l \in Lanes, Drain(l)
  PROVE  PricesTyped'
  <1>0. priceSession # "off"
    BY TaskRuns DEF Seeding
  <1>1. PricesRest /\ PricesShape /\ Latest \in Nat /\ Latest > 0
    BY Typing DEF PricesTyped
  <1>2. priceBuffer \in SUBSET (0..Latest)
    BY <1>1 DEF PricesRest
  <1>3. CASE priceBuffer # {}
    BY <1>0, <1>2, <1>3, MergeMoves DEF Drain
  <1>4. CASE priceBuffer = {}
    <2> DEFINE task == [lane[l] EXCEPT !.at = "fresh"]
    <2>1. Goes(l, task) /\ UNCHANGED priceBuffer
      BY <1>4 DEF Drain
    <2>2. lane[l] \in LaneState
      BY <1>1, LaneTyping
    <2>3. task \in LaneState /\ task.at \notin {"decide", "advance"}
      <3>1. task \in LaneState
        BY <2>2, MovedOn
      <3> QED BY <2>2, <3>1 DEF LaneState
    <2> HIDE DEF task
    <2>4. market' = market /\ Latest' = Latest
      BY SameMarket DEF world, Drain
    <2>5. queued' \in 0..queued
      BY <1>1 DEF PricesRest, Drain
    <2> QED BY <1>0, <1>1, <2>1, <2>3, <2>4, <2>5, TaskTyped
            DEF PricesRest, Drain, world, run, connection
  <1> QED BY <1>3, <1>4

(* Deciding on the merged trades keeps the types. *)
LEMMA DecideTyped ==
  ASSUME AlpacaSessionAssumption, PricesTyped, NEW l \in Lanes, Decide(l)
  PROVE  PricesTyped'
  <1>0. priceSession # "off"
    BY TaskRuns DEF Seeding
  <1>1. PricesRest /\ PricesShape /\ Latest \in Nat /\ Latest > 0
    BY Typing DEF PricesTyped
  <1> DEFINE L == lane[l]
             hits(s) == Crossings(s, lane[l].cur, lane[l].merged)
             firing == {s \in lane[l].ready : hits(s) # {}}
             task(failed) == [lane[l] EXCEPT !.at = "advance", !.recorded = failed = {}]
  <1>2. PICK failed \in SUBSET firing :
           /\ priceSub' = [s \in PriceSubs |-> IF s \in firing \ failed THEN FiredAt(s,
                   Min(hits(s)))
                                                                      ELSE priceSub[s]]
           /\ Goes(l, task(failed))
    BY DEF Decide
  <1>3. /\ L \in LaneState /\ L.cur \in 0..Latest /\ L.merged \subseteq 1..Latest
        /\ L.ready \subseteq PriceSubs
    BY <1>1, LaneTyping
  <1>4. L.merged # {}
    BY <1>1 DEF Decide, PricesShape
  <1>5. Max(L.merged) \in 1..Latest
    <2>1. L.merged \in SUBSET (0..Latest)
      BY <1>1, <1>3
    <2> QED BY <1>1, <1>3, <1>4, <2>1, LargestOf
  <1>6. \A s \in firing : Min(hits(s)) \in 1..Latest
    <2> SUFFICES ASSUME NEW s \in firing PROVE Min(hits(s)) \in 1..Latest
      OBVIOUS
    <2>1. hits(s) \subseteq 1..Latest /\ hits(s) # {}
      BY <1>3 DEF Crossings
    <2>2. hits(s) \in SUBSET (0..Latest)
      BY <1>1, <2>1
    <2> QED BY <1>1, <2>1, <2>2, LeastOf
  <1>7. firing \subseteq PriceSubs
    BY <1>3
  <1>8. \A s \in firing : FiredAt(s, Min(hits(s))) \in
            [status : {"new", "armed", "fired", "expired"}, armedAt : 0..MaxTrades, trade :
             0..MaxTrades]
    BY <1>1, <1>6, <1>7, FiredType, Typing
  <1> HIDE DEF hits, firing
  <1>9. priceSub' \in [PriceSubs -> [status : {"new", "armed", "fired", "expired"},
                                     armedAt : 0..MaxTrades, trade : 0..MaxTrades]]
    BY <1>1, <1>2, <1>8 DEF PricesRest
  <1>10. task(failed) \in LaneState /\ task(failed).merged = L.merged
    <2>1. task(failed) \in LaneState
      BY <1>3, Moved
    <2> QED BY <1>3, <2>1 DEF LaneState
  <1>11. previous' \in [PriceSubs -> 0..Latest]
    <2>1. previous' = [s \in PriceSubs |-> IF s \in L.ready THEN Max(L.merged) ELSE previous[s]]
      BY DEF Decide
    <2> HIDE DEF L
    <2> QED BY <1>1, <1>5, <2>1 DEF PricesRest
  <1> HIDE DEF task
  <1>12. market' = market /\ Latest' = Latest
    BY SameMarket DEF Decide
  <1>13. queued' \in 0..queued
    BY <1>1 DEF PricesRest, Decide
  <1>14. /\ UNCHANGED <<circumstances, persisted, seeding, priceBuffer, known, pendingCursor, watch,
                        sending, since>>
         /\ UNCHANGED <<priceSession, sessions, priceConn, drops, streaming, heard>>
    BY DEF Decide, run, connection
  <1>15. Goes(l, task(failed)) /\ (task(failed).at \in {"decide", "advance"} =>
                                   task(failed).merged # {})
    BY <1>2, <1>4, <1>10
  <1> QED BY <1>0, <1>1, <1>9, <1>10, <1>11, <1>12, <1>13, <1>14, <1>15, TaskTyped
          DEF PricesRest

(* Advancing the cursor keeps the types. *)
LEMMA AdvanceTyped ==
  ASSUME AlpacaSessionAssumption, PricesTyped, NEW l \in Lanes, Advance(l)
  PROVE  PricesTyped'
  <1>0. priceSession # "off"
    BY TaskRuns DEF Seeding
  <1>1. PricesRest /\ PricesShape /\ Latest \in Nat /\ Latest > 0
    BY Typing DEF PricesTyped
  <1>2. /\ lane[l] \in LaneState /\ lane[l].merged \subseteq 1..Latest
        /\ persisted \in 0..Latest /\ pendingCursor \in 0..Latest /\ queued \in Nat
    BY <1>1, LaneTyping DEF PricesRest
  <1>3. lane[l].merged # {}
    BY <1>1 DEF Advance, PricesShape
  <1>4. NextCursor(l) \in 1..Latest
    <2>1. lane[l].merged \in SUBSET (0..Latest)
      BY <1>1, <1>2
    <2> QED BY <1>1, <1>2, <1>3, <2>1, LargestOf DEF NextCursor
  <1>5. Max({persisted, NextCursor(l)}) \in 0..Latest
    BY <1>1, <1>2, <1>4, LargerOf
  <1> DEFINE far == [lane[l] EXCEPT !.at = "drain", !.cur = NextCursor(l), !.merged = {}]
             near == [lane[l] EXCEPT !.at = "drain", !.merged = {}]
  <1>6. far \in LaneState /\ near \in LaneState
    <2>1. NextCursor(l) \in 0..Latest /\ {} \in SUBSET PriceSubs /\ {} \in SUBSET (1..Latest)
      BY <1>1, <1>4
    <2> QED BY <1>2, <2>1, Moved
  <1>7. far.at \notin {"decide", "advance"} /\ near.at \notin {"decide", "advance"}
    BY <1>2 DEF LaneState
  <1>8. Goes(l, far) \/ Goes(l, near)
    BY DEF Advance
  <1>9. persisted' \in 0..Latest /\ pendingCursor' \in 0..Latest
    BY <1>1, <1>2, <1>4, <1>5 DEF Advance
  <1> HIDE DEF far, near
  <1>10. market' = market /\ Latest' = Latest
    BY SameMarket DEF world, Advance
  <1>11. PICK task \in LaneState : Goes(l, task) /\ task.at \notin {"decide", "advance"}
    BY <1>6, <1>7, <1>8
  <1>12. /\ UNCHANGED <<circumstances, priceSub, seeding, priceBuffer, known, watch, previous,
                        sending, since, queued>>
         /\ UNCHANGED <<priceSession, sessions, priceConn, drops, streaming, heard>>
    BY DEF Advance, run, connection, world
  <1>13. queued' \in 0..queued
    BY <1>2, <1>12
  <1> QED BY <1>0, <1>1, <1>9, <1>10, <1>11, <1>12, <1>13, TaskTyped DEF PricesRest

(* Seeding afresh keeps the types. *)
LEMMA FreshTyped ==
  ASSUME AlpacaSessionAssumption, PricesTyped, NEW l \in Lanes, FreshSeed(l) \/ Snapshot(l)
  PROVE  PricesTyped'
  <1>0. priceSession # "off"
    BY TaskRuns DEF Seeding
  <1>1. PricesRest /\ PricesShape /\ Latest \in Nat /\ Latest > 0
    BY Typing DEF PricesTyped
  <1>2. /\ lane[l] \in LaneState /\ lane[l].merged \subseteq 1..Latest
        /\ lane[l].fresh \subseteq PriceSubs /\ known \in 0..Latest /\ queued \in Nat
    BY <1>1, LaneTyping DEF PricesRest
  <1>3. /\ UNCHANGED <<circumstances, market, priceSub, seeding, priceBuffer, known, watch, sending,
                       queued, pendingCursor, persisted>>
        /\ UNCHANGED <<priceSession, sessions, priceConn, drops, streaming, heard>>
    BY DEF FreshSeed, Snapshot, run, connection, world
  <1>4. Latest' = Latest /\ queued' \in 0..queued
    BY <1>2, <1>3, SameMarket
  <1>5. ASSUME NEW s \in PriceSubs, NEW t \in 0..Latest, SeededFrom(l, s, t)
        PROVE  PricesTyped'
    <2> DEFINE task == [lane[l] EXCEPT !.at = "fresh", !.fresh = @ \ {s}, !.merged = {}]
    <2>1. Goes(l, task)
      BY <1>5 DEF SeededFrom
    <2>2. task \in LaneState
      <3>1. lane[l].fresh \ {s} \in SUBSET PriceSubs /\ {} \in SUBSET (1..Latest)
        BY <1>2
      <3> QED BY <1>2, <3>1, Moved
    <2>3. task.at \notin {"decide", "advance"}
      BY <1>2 DEF LaneState
    <2>4. previous' = [previous EXCEPT ![s] = t] /\
            since' = [since EXCEPT ![s] = IF @ = 0 THEN t ELSE @]
      BY <1>5 DEF SeededFrom, Seed
    <2>5. previous' \in [PriceSubs -> 0..Latest] /\ since' \in [PriceSubs -> 0..Latest]
      BY <1>1, <2>4 DEF PricesRest
    <2> HIDE DEF task
    <2> QED BY <1>0, <1>1, <1>3, <1>4, <2>1, <2>2, <2>3, <2>5, TaskTyped DEF PricesRest
  <1>6. CASE Snapshot(l)
    <2>1. PICK s \in lane[l].fresh, t \in lane[l].merged : SeededFrom(l, s, t)
      BY <1>6 DEF Snapshot
    <2>2. s \in PriceSubs /\ t \in 0..Latest
      BY <1>1, <1>2
    <2> QED BY <1>5, <2>1, <2>2
  <1>7. CASE FreshSeed(l) /\ known # 0
    <2>1. PICK s \in lane[l].fresh : SeededFrom(l, s, known)
      BY <1>7 DEF FreshSeed
    <2> QED BY <1>2, <1>5, <2>1
  <1>8. CASE FreshSeed(l) /\ known = 0
    <2> DEFINE task == [lane[l] EXCEPT !.at = "snapshot", !.merged = {Latest}]
    <2>1. Goes(l, task) /\ UNCHANGED <<previous, since>>
      BY <1>8 DEF FreshSeed
    <2>2. task \in LaneState
      <3>1. {Latest} \in SUBSET (1..Latest)
        BY <1>1
      <3> QED BY <1>1, <1>2, <3>1, Moved
    <2>3. task.at \notin {"decide", "advance"}
      BY <1>2 DEF LaneState
    <2> HIDE DEF task
    <2> QED BY <1>0, <1>1, <1>3, <1>4, <2>1, <2>2, <2>3, TaskTyped DEF PricesRest
  <1> QED BY <1>6, <1>7, <1>8

(* The end of a seeding keeps the types. *)
LEMMA SeededTyped ==
  ASSUME AlpacaSessionAssumption, PricesTyped, NEW l \in Lanes, Seeded(l) \/ SeedingFails(l)
  PROVE  PricesTyped'
  <1>0. priceSession # "off"
    BY TaskRuns DEF Seeding
  <1>1. PricesRest /\ PricesShape /\ Latest \in Nat /\ Latest > 0
    BY Typing DEF PricesTyped
  <1>2. NextReplay \in LaneState /\ NextReplay.at = "read" /\ Idle.at = "idle" /\ Idle \in LaneState
    BY <1>1, ReplayTyping, IdleTyping
  <1>3. PICK task \in {Idle, NextReplay} : Goes(l, task)
    BY DEF Seeded, SeedingFails
  <1>4. queued' \in 0..queued
    BY <1>1 DEF Seeded, SeedingFails, PricesRest
  <1>5. seeding' \in BOOLEAN
    <2>1. Requeues(l) \in BOOLEAN
      BY DEF Requeues
    <2>2. seeding' = Requeues(l) \/ seeding' = seeding
      BY DEF Seeded, SeedingFails, StillSeeding
    <2> QED BY <1>1, <2>1, <2>2 DEF PricesRest
  <1>6. /\ UNCHANGED <<circumstances, market, priceSub, priceBuffer, known, watch, sending,
                       pendingCursor, persisted, previous, since>>
        /\ UNCHANGED <<sessions, priceConn, drops, streaming, heard>>
    BY DEF Seeded, SeedingFails, run, connection, world
  <1>7. priceSession' \in {priceSession, "closing"}
    BY DEF Seeded, SeedingFails, run
  <1>8. Latest' = Latest
    BY <1>6, SameMarket
  <1> QED BY <1>0, <1>1, <1>2, <1>3, <1>4, <1>5, <1>6, <1>7, <1>8, TaskTyped DEF PricesRest

(* The membership recheck and what follows it keep the types. *)
LEMMA MembershipTyped ==
  ASSUME AlpacaSessionAssumption, PricesTyped, recheckPriceMembership \/ Join \/ Ack
  PROVE  PricesTyped'
  <1>1. PricesRest /\ PricesShape /\ Latest \in Nat /\ Latest > 0
    BY Typing DEF PricesTyped
  <1>2. "main" \in Lanes
    BY DEF Lanes
  <1>3. priceSession # "off"
    BY <1>1, <1>2 DEF PricesShape, recheckPriceMembership, Join, Ack
  <1>4. market' = market /\ Latest' = Latest /\ UNCHANGED priceSub /\ UNCHANGED circumstances
    BY SameMarket DEF recheckPriceMembership, Join, Ack, world
  <1>5. CASE recheckPriceMembership
    <2> DEFINE new == Desired \ (watch \cap Desired)
    <2>1. new \in SUBSET PriceSubs /\ {} \in SUBSET PriceSubs /\ 0 \in 0..Latest
      BY <1>1 DEF Desired
    <2>2. /\ UNCHANGED <<persisted, sessions, priceSession, priceConn, drops, streaming, heard,
                         priceBuffer, known, pendingCursor, previous, sending, queued, since>>
          /\ watch' = watch \cap Desired
      BY <1>5 DEF recheckPriceMembership, world, run, connection
    <2>3. /\ Task("join", {}, new, 0) \in LaneState /\ Task("join", {}, new, 0).at = "join"
          /\ Task("ack", {}, new, 0) \in LaneState /\ Task("ack", {}, new, 0).at = "ack"
      <3>1. Task("join", {}, new, 0).at = "join" /\ Task("ack", {}, new, 0).at = "ack"
        BY DEF Task
      <3> HIDE DEF new
      <3> QED BY <2>1, <3>1, TaskType
    <2>4. /\ UNCHANGED lane \/ Goes("main", Task("join", {}, new, 0)) \/ Goes("main", Task("ack",
                {}, new, 0))
          /\ seeding' = seeding \/ seeding' = TRUE
      BY <1>5 DEF recheckPriceMembership
    <2>5. queued \in Nat /\ queued' \in 0..queued /\ watch' \subseteq PriceSubs
      BY <1>1, <2>2 DEF PricesRest
    <2>6. seeding' \in BOOLEAN
      BY <1>1, <2>4 DEF PricesRest
    <2>7. CASE UNCHANGED lane
      <3>1. lane["main"] \in LaneState
        BY <1>1, <1>2, LaneTyping
      <3>2. Goes("main", lane["main"])
        BY <1>1, <2>7 DEF Goes, PricesRest
      <3>3. lane["main"].at = "idle"
        BY <1>5 DEF recheckPriceMembership
      <3> QED BY <1>1, <1>2, <1>3, <1>4, <2>2, <2>5, <2>6, <3>1, <3>2, <3>3,
              TaskTyped DEF PricesRest
    <2>8. CASE ~ UNCHANGED lane
      <3> HIDE DEF new
      <3>1. PICK task \in LaneState : Goes("main", task) /\ task.at \in {"join", "ack"}
        BY <2>3, <2>4, <2>8
      <3> QED BY <1>1, <1>2, <1>3, <1>4, <2>2, <2>5, <2>6, <3>1, TaskTyped DEF PricesRest
    <2> QED BY <2>7, <2>8
  <1>6. CASE Join
    <2> DEFINE price == IF known # 0 THEN known ELSE Latest
    <2>1. price \in 0..Latest /\ lane["main"].fresh \subseteq PriceSubs
      BY <1>1, <1>2, LaneTyping DEF PricesRest
    <2>2. /\ previous' = [s \in PriceSubs |-> IF s \in lane["main"].fresh THEN price
                                                                      ELSE previous[s]]
          /\ since' = [s \in PriceSubs |-> IF s \in lane["main"].fresh /\ since[s] = 0 THEN price
                                                                                 ELSE since[s]]
          /\ watch' = watch \cup lane["main"].fresh
          /\ Goes("main", Idle)
          /\ UNCHANGED <<persisted, sessions, priceSession, priceConn, drops, streaming, heard,
                         priceBuffer, known, pendingCursor, sending, queued, seeding>>
      BY <1>6 DEF Join, world, run, connection
    <2> HIDE DEF price
    <2>3. previous' \in [PriceSubs -> 0..Latest] /\ since' \in [PriceSubs -> 0..Latest]
      BY <1>1, <2>1, <2>2 DEF PricesRest
    <2>4. Idle \in LaneState /\ Idle.at = "idle"
      BY <1>1, IdleTyping, ReplayTyping
    <2>5. queued \in Nat /\ queued' \in 0..queued /\ watch' \subseteq PriceSubs
      BY <1>1, <2>1, <2>2 DEF PricesRest
    <2> QED BY <1>1, <1>2, <1>3, <1>4, <2>2, <2>3, <2>4, <2>5, TaskTyped DEF PricesRest
  <1>7. CASE Ack
    <2> DEFINE task == Task("read", lane["main"].fresh, {}, 0)
    <2>1. lane["main"].fresh \in SUBSET PriceSubs /\ {} \in SUBSET PriceSubs /\ 0 \in 0..Latest
      BY <1>1, <1>2, LaneTyping
    <2>2. /\ watch' = watch \cup lane["main"].fresh
          /\ Goes("main", task) /\ streaming' = TRUE /\ heard' \in {heard, Latest}
          /\ UNCHANGED <<persisted, sessions, priceSession, priceConn, drops, previous, since,
                         priceBuffer, known, pendingCursor, sending, queued, seeding>>
      BY <1>7 DEF Ack, world, run
    <2>3. task \in LaneState /\ task.at = "read"
      <3>1. task.at = "read"
        BY DEF Task
      <3> QED BY <2>1, <3>1, TaskType
    <2> HIDE DEF task
    <2>4. heard' \in 0..Latest
      BY <1>1, <2>2 DEF PricesRest
    <2>5. queued \in Nat /\ queued' \in 0..queued /\ watch' \subseteq PriceSubs
      BY <1>1, <2>1, <2>2 DEF PricesRest
    <2> QED BY <1>1, <1>2, <1>3, <1>4, <2>2, <2>3, <2>4, <2>5, TaskTyped DEF PricesRest
  <1> QED BY <1>5, <1>6, <1>7

(* Every step keeps the types. *)
LEMMA PricesStayTyped ==
  ASSUME AlpacaSessionAssumption, PricesTyped, [PricesNext]_pricesVars
  PROVE  PricesTyped'
  <1>1. CASE \E p \in Price : TradeHappens(p)
    BY <1>1, TradeTyped
  <1>2. CASE handleLiveTrade
    BY <1>2, LiveTradeTyped
  <1>3. CASE \E l \in Lanes : Seeding(l) \/ SeedingFails(l)
    BY <1>3, CursorReadTyped, FetchTyped, DecideTyped, AdvanceTyped, DrainTyped, FreshTyped,
       SeededTyped DEF Seeding
  <1>4. CASE recheckPriceMembership \/ Join \/ Ack
    BY <1>4, MembershipTyped
  <1>5. CASE StockReconnects
    BY <1>5, ReconnectTyped
  <1>6. CASE EndShutdown \/ CrashSession
    BY <1>6, ForgetfulTyped
  <1>7. CASE \/ \E s \in PriceSubs :
                  ArmPrice(s) \/ PriceExpires(s) \/ \E t \in 1..Latest : DeliverPrice(s, t)
             \/ StockDrops \/ Start \/ BeginShutdown
             \/ UNCHANGED pricesVars
    BY <1>7, SimpleTyped
  <1> QED BY <1>1, <1>2, <1>3, <1>4, <1>5, <1>6, <1>7 DEF PricesNext

-----------------------------------------------------------------------------
(* Effects of the tasks *)

Becomes(l, a, r, f, c, m, d) ==
  /\ lane'[l].at = a /\ lane'[l].ready = r /\ lane'[l].fresh = f /\ lane'[l].cur = c
  /\ lane'[l].merged = m /\ lane'[l].recorded = d
  /\ \A other \in Lanes : other # l => lane'[other] = lane[other]

(* A task that goes to a new one. *)
LEMMA TaskBecomes ==
  ASSUME PricesRest, NEW l \in Lanes, NEW a, NEW r, NEW f, NEW c, Goes(l, Task(a, r, f, c))
  PROVE  Becomes(l, a, r, f, c, {}, TRUE)
  BY DEF PricesRest, Goes, Task, Becomes

(* A task that goes idle. *)
LEMMA IdleBecomes ==
  ASSUME PricesRest, NEW l \in Lanes, Goes(l, Idle)
  PROVE  Becomes(l, "idle", {}, {}, 0, {}, TRUE)
  BY TaskBecomes DEF Idle

(* A task that goes to the next replay. *)
LEMMA ReplayBecomes ==
  ASSUME PricesRest, NEW l \in Lanes, Goes(l, NextReplay)
  PROVE  Becomes(l, "read", watch, {}, 0, {}, TRUE)
  BY TaskBecomes DEF NextReplay

(* The task after the cursor was read. *)
LEMMA CursorReadBecomes ==
  ASSUME PricesRest, NEW l \in Lanes, ReadSeedCursor(l)
  PROVE  \E ready \in SUBSET lane[l].ready :
           /\ ready = {s \in lane[l].ready : Ready(s, persisted)}
           /\ Becomes(l, IF ready = {} THEN "fresh" ELSE "fetch", ready, lane[l].ready \ ready,
                      persisted, {}, TRUE)
           /\ since' = [s \in PriceSubs |-> IF s \in ready /\
                        since[s] = 0 THEN persisted ELSE since[s]]
  <1> DEFINE ready == {s \in lane[l].ready : Ready(s, persisted)}
  <1>1. Goes(l, Task(IF ready = {} THEN "fresh" ELSE "fetch", ready, lane[l].ready \ ready,
                     persisted))
    BY DEF ReadSeedCursor
  <1>2. since' = [s \in PriceSubs |-> IF s \in ready /\ since[s] = 0 THEN persisted ELSE since[s]]
    BY DEF ReadSeedCursor
  <1>3. ready \in SUBSET lane[l].ready
    OBVIOUS
  <1> DEFINE stage == IF ready = {} THEN "fresh" ELSE "fetch"
             rest == lane[l].ready \ ready
  <1>4. Goes(l, Task(stage, ready, rest, persisted))
    BY <1>1
  <1> HIDE DEF stage, rest
  <1>5. Becomes(l, stage, ready, rest, persisted, {}, TRUE)
    BY <1>4, TaskBecomes
  <1> QED BY <1>2, <1>3, <1>5 DEF stage, rest

(* The task after a merge. *)
LEMMA MergeBecomes ==
  ASSUME PricesRest, NEW l \in Lanes, NEW trades, Merge(l, trades)
  PROVE  \E merged \in SUBSET trades :
           /\ merged = {t \in trades : t > lane[l].cur}
           /\ Becomes(l, IF merged = {} THEN "drain" ELSE "decide", lane[l].ready, lane[l].fresh,
                      lane[l].cur, merged, lane[l].recorded)
  <1> DEFINE merged == {t \in trades : t > lane[l].cur}
             stage == IF merged = {} THEN "drain" ELSE "decide"
  <1>1. Goes(l, [lane[l] EXCEPT !.at = stage, !.merged = merged])
    BY DEF Merge
  <1>2. lane[l] \in LaneState
    BY LaneTyping
  <1>3. merged \in SUBSET trades
    OBVIOUS
  <1> HIDE DEF merged, stage
  <1>4. Becomes(l, stage, lane[l].ready, lane[l].fresh, lane[l].cur, merged, lane[l].recorded)
    BY <1>1, <1>2 DEF Becomes, Goes, PricesRest, LaneState
  <1> QED BY <1>3, <1>4 DEF merged, stage

(* The task after the last drain. *)
LEMMA DrainBecomes ==
  ASSUME PricesRest, NEW l \in Lanes, Drain(l), priceBuffer = {}
  PROVE  Becomes(l, "fresh", lane[l].ready, lane[l].fresh, lane[l].cur, lane[l].merged,
                 lane[l].recorded)
  <1>1. Goes(l, [lane[l] EXCEPT !.at = "fresh"])
    BY DEF Drain
  <1>2. lane[l] \in LaneState
    BY LaneTyping
  <1> QED BY <1>1, <1>2 DEF Becomes, Goes, PricesRest, LaneState

(* The task after the decisions, and the registry. *)
LEMMA DecideBecomes ==
  ASSUME PricesRest, NEW l \in Lanes, Decide(l)
  PROVE  LET hits(s) == Crossings(s, lane[l].cur, lane[l].merged)
             firing == {s \in lane[l].ready : hits(s) # {}}
         IN  \E failed \in SUBSET firing :
               /\ "failure" \notin circumstances => failed = {}
               /\ priceSub' = [s \in PriceSubs |-> IF s \in firing \ failed
                                                    THEN FiredAt(s, Min(hits(s))) ELSE priceSub[s]]
               /\ Becomes(l, "advance", lane[l].ready, lane[l].fresh, lane[l].cur, lane[l].merged,
                          failed = {})
  <1> DEFINE hits(s) == Crossings(s, lane[l].cur, lane[l].merged)
             firing == {s \in lane[l].ready : hits(s) # {}}
  <1>1. PICK failed \in IF "failure" \in circumstances THEN SUBSET firing ELSE {{}} :
          /\ priceSub' = [s \in PriceSubs |-> IF s \in firing \ failed THEN FiredAt(s, Min(hits(s)))
                                                                     ELSE priceSub[s]]
          /\ Goes(l, [lane[l] EXCEPT !.at = "advance", !.recorded = failed = {}])
    BY DEF Decide
  <1>2. failed \in SUBSET firing /\ ("failure" \notin circumstances => failed = {})
    BY <1>1
  <1>3. lane[l] \in LaneState
    BY LaneTyping
  <1>4. Becomes(l, "advance", lane[l].ready, lane[l].fresh, lane[l].cur, lane[l].merged,
                failed = {})
    BY <1>1, <1>3 DEF Becomes, Goes, PricesRest, LaneState
  <1> QED BY <1>1, <1>2, <1>4

(* The task after the cursor advanced. *)
LEMMA AdvanceBecomes ==
  ASSUME PricesRest, NEW l \in Lanes, Advance(l)
  PROVE  Becomes(l, "drain", lane[l].ready, lane[l].fresh,
                 IF lane[l].recorded THEN NextCursor(l) ELSE lane[l].cur, {}, lane[l].recorded)
  <1>1. lane[l] \in LaneState
    BY LaneTyping
  <1>2. CASE lane[l].recorded
    <2>1. Goes(l, [lane[l] EXCEPT !.at = "drain", !.cur = NextCursor(l), !.merged = {}])
      BY <1>2 DEF Advance
    <2> QED BY <1>1, <1>2, <2>1 DEF Becomes, Goes, PricesRest, LaneState
  <1>3. CASE ~ lane[l].recorded
    <2>1. Goes(l, [lane[l] EXCEPT !.at = "drain", !.merged = {}])
      BY <1>3 DEF Advance
    <2> QED BY <1>1, <1>3, <2>1 DEF Becomes, Goes, PricesRest, LaneState
  <1> QED BY <1>2, <1>3

(* The task after a subscription was seeded afresh. *)
LEMMA SeedBecomes ==
  ASSUME PricesRest, NEW l \in Lanes, NEW s, NEW t, SeededFrom(l, s, t)
  PROVE  Becomes(l, "fresh", lane[l].ready, lane[l].fresh \ {s}, lane[l].cur, {}, lane[l].recorded)
  <1>1. Goes(l, [lane[l] EXCEPT !.at = "fresh", !.fresh = @ \ {s}, !.merged = {}])
    BY DEF SeededFrom
  <1>2. lane[l] \in LaneState
    BY LaneTyping
  <1> QED BY <1>1, <1>2 DEF Becomes, Goes, PricesRest, LaneState

(* The task that waits for a snapshot. *)
LEMMA SnapshotBecomes ==
  ASSUME PricesRest, NEW l \in Lanes,
         Goes(l, [lane[l] EXCEPT !.at = "snapshot", !.merged = {Latest}])
  PROVE  Becomes(l, "snapshot", lane[l].ready, lane[l].fresh, lane[l].cur, {Latest},
                 lane[l].recorded)
  <1>1. lane[l] \in LaneState
    BY LaneTyping
  <1> QED BY <1>1 DEF Becomes, Goes, PricesRest, LaneState

-----------------------------------------------------------------------------
(* A subscription that is not armed yet, and a session that is over *)

Unseen(s) ==
  /\ s \notin watch /\ since[s] = 0 /\ previous[s] = 0
  /\ \A l \in Lanes : s \notin lane[l].ready /\ s \notin lane[l].fresh
  /\ \A late \in sending : late[1] # s

NewIsUnseen == \A s \in PriceSubs : priceSub[s].status = "new" => Unseen(s)

(* A seeding leaves a subscription alone that is not in its lists. *)
LEMMA SeedingKeepsUnseen ==
  ASSUME PricesTyped, AlpacaSessionAssumption, NewIsUnseen, NEW l \in Lanes, NEW s \in PriceSubs,
         Seeding(l) \/ SeedingFails(l), priceSub'[s].status = "new"
  PROVE  Unseen(s)'
  <1>1. PricesRest
    BY Typing
  <1>2. CASE Decide(l)
    <2> DEFINE hits(r) == Crossings(r, lane[l].cur, lane[l].merged)
               firing == {r \in lane[l].ready : hits(r) # {}}
    <2>1. PICK failed \in SUBSET firing :
            /\ priceSub' = [r \in PriceSubs |-> IF r \in firing \ failed THEN FiredAt(r,
                    Min(hits(r)))
                                                                     ELSE priceSub[r]]
            /\ Becomes(l, "advance", lane[l].ready, lane[l].fresh, lane[l].cur, lane[l].merged,
                       failed = {})
      BY <1>1, <1>2, DecideBecomes
    <2> HIDE DEF hits, firing
    <2>2. priceSub[s].status = "new"
      BY <1>1, <2>1 DEF FiredAt, PricesRest, IsArmed
    <2>3. Unseen(s)
      BY <2>2 DEF NewIsUnseen
    <2>4. previous'[s] = previous[s]
      BY <1>2, <2>3 DEF Decide, Unseen
    <2>5. UNCHANGED <<watch, since, sending>>
      BY <1>2 DEF Decide
    <2> QED BY <2>1, <2>3, <2>4, <2>5 DEF Unseen, Becomes
  <1>3. CASE ~ Decide(l)
    <2>1. priceSub' = priceSub /\ UNCHANGED <<watch, sending>>
      BY <1>3 DEF Seeding, SeedingFails, ReadSeedCursor, Fetch, Advance, Drain, FreshSeed, Snapshot,
        Seeded, world, memory
    <2>2. Unseen(s)
      BY <2>1 DEF NewIsUnseen
    <2>3. CASE ReadSeedCursor(l)
      <3>1. PICK ready \in SUBSET lane[l].ready :
               /\ Becomes(l, IF ready = {} THEN "fresh" ELSE "fetch", ready, lane[l].ready \ ready,
                          persisted, {}, TRUE)
               /\ since' = [r \in PriceSubs |-> IF r \in ready /\ since[r] = 0 THEN persisted
                                                                          ELSE since[r]]
        BY <1>1, <2>3, CursorReadBecomes
      <3>2. previous' = previous /\ since'[s] = since[s]
        BY <2>2, <2>3, <3>1 DEF ReadSeedCursor, memory, Unseen
      <3> QED BY <2>1, <2>2, <3>1, <3>2 DEF Unseen, Becomes
    <2>4. ASSUME UNCHANGED <<previous, since>>, NEW a, NEW c, NEW m, NEW d,
                 Becomes(l, a, lane[l].ready, lane[l].fresh, c, m, d)
          PROVE  Unseen(s)'
      BY <2>1, <2>2, <2>4 DEF Unseen, Becomes
    <2>5. ASSUME NEW trades, Merge(l, trades), UNCHANGED <<previous, since>>
          PROVE  Unseen(s)'
      <3>1. PICK merged \in SUBSET trades :
              Becomes(l, IF merged = {} THEN "drain" ELSE "decide", lane[l].ready, lane[l].fresh,
                      lane[l].cur, merged, lane[l].recorded)
        BY <1>1, <2>5, MergeBecomes
      <3> QED BY <2>4, <2>5, <3>1
    <2>6. CASE Fetch(l)
      <3>1. PICK end \in heard..Latest : Merge(l, (lane[l].cur .. end) \cup priceBuffer)
        BY <2>6 DEF Fetch
      <3> QED BY <2>5, <2>6, <3>1 DEF Fetch
    <2>7. CASE Advance(l)
      BY <1>1, <2>4, <2>7, AdvanceBecomes DEF Advance
    <2>8. CASE Drain(l)
      <3>1. CASE priceBuffer = {}
        BY <1>1, <2>4, <2>8, <3>1, DrainBecomes DEF Drain
      <3>2. CASE priceBuffer # {}
        BY <2>5, <2>8, <3>2 DEF Drain
      <3> QED BY <3>1, <3>2
    <2>9. ASSUME NEW r \in lane[l].fresh, NEW t, SeededFrom(l, r, t)
          PROVE  Unseen(s)'
      <3>1. r # s
        BY <2>2 DEF Unseen
      <3>2. previous'[s] = previous[s] /\ since'[s] = since[s]
        BY <1>1, <2>9, <3>1 DEF SeededFrom, Seed, PricesRest
      <3>3. Becomes(l, "fresh", lane[l].ready, lane[l].fresh \ {r}, lane[l].cur, {},
                    lane[l].recorded)
        BY <1>1, <2>9, SeedBecomes
      <3> QED BY <2>1, <2>2, <3>2, <3>3 DEF Unseen, Becomes
    <2>10. CASE FreshSeed(l) /\ known # 0
      BY <2>9, <2>10 DEF FreshSeed
    <2>11. CASE FreshSeed(l) /\ known = 0
      <3>1. Goes(l, [lane[l] EXCEPT !.at = "snapshot", !.merged = {Latest}])
            /\ UNCHANGED <<previous, since>>
        BY <2>11 DEF FreshSeed
      <3> QED BY <1>1, <2>4, <3>1, SnapshotBecomes
    <2>12. CASE Snapshot(l)
      BY <2>9, <2>12 DEF Snapshot
    <2>13. CASE Seeded(l) \/ SeedingFails(l)
      <3>1. UNCHANGED <<previous, since>> /\ (Goes(l, Idle) \/ Goes(l, NextReplay))
        BY <2>13 DEF Seeded, SeedingFails
      <3>2. CASE Goes(l, Idle)
        BY <1>1, <2>1, <2>2, <3>1, <3>2, IdleBecomes DEF Unseen, Becomes
      <3>3. CASE Goes(l, NextReplay)
        BY <1>1, <2>1, <2>2, <3>1, <3>3, ReplayBecomes DEF Unseen, Becomes
      <3> QED BY <3>1, <3>2, <3>3
    <2> QED BY <1>3, <2>3, <2>6, <2>7, <2>8, <2>10, <2>11, <2>12, <2>13 DEF Seeding
  <1> QED BY <1>2, <1>3

(* A subscription that is not armed yet is nowhere in the session. *)
LEMMA UnseenStays ==
  ASSUME PricesTyped, AlpacaSessionAssumption, NewIsUnseen, [PricesNext]_pricesVars
  PROVE  NewIsUnseen'
  <1> SUFFICES ASSUME NEW s \in PriceSubs, priceSub'[s].status = "new" PROVE Unseen(s)'
    BY DEF NewIsUnseen
  <1>1. PricesRest /\ "main" \in Lanes /\ "replay" \in Lanes
    BY Typing DEF Lanes
  <1> DEFINE keeps == UNCHANGED <<watch, since, previous, lane, sending>>
  <1>2. ASSUME keeps, priceSub[s].status = "new" PROVE Unseen(s)'
    BY <1>2 DEF NewIsUnseen, Unseen
  <1>3. ASSUME priceSub' = priceSub PROVE Unseen(s)
    BY <1>3 DEF NewIsUnseen
  <1>4. CASE \E l \in Lanes : Seeding(l) \/ SeedingFails(l)
    BY <1>4, SeedingKeepsUnseen
  <1>5. CASE \E p \in Price : TradeHappens(p)
    BY <1>2, <1>5 DEF TradeHappens, memory, tasks
  <1>6. CASE handleLiveTrade
    <2>1. Unseen(s)
      BY <1>3, <1>6 DEF handleLiveTrade, world
    <2>2. UNCHANGED <<watch, since, lane>>
      BY <1>6 DEF handleLiveTrade, memory, tasks
    <2>3. CASE priceSession = "closing" \/ seeding
      <3>1. UNCHANGED <<previous, sending>>
        BY <1>6, <2>3 DEF handleLiveTrade, memory
      <3> QED BY <2>1, <2>2, <3>1 DEF Unseen
    <2>4. CASE ~ (priceSession = "closing" \/ seeding)
      <3>1. PICK stored \in BOOLEAN : TradeDecides(heard + 1, stored)
        BY <1>6, <2>4 DEF handleLiveTrade
      <3>2. \A late \in sending' : late \in sending \/ late[1] \in watch
        BY <3>1 DEF TradeDecides
      <3>3. previous'[s] = previous[s]
        BY <2>1, <3>1 DEF TradeDecides, Unseen
      <3> QED BY <2>1, <2>2, <3>2, <3>3 DEF Unseen
    <2> QED BY <2>3, <2>4
  <1>7. CASE \E r \in PriceSubs : ArmPrice(r) \/ PriceExpires(r)
    <2>1. keeps
      BY <1>7 DEF ArmPrice, PriceExpires, memory, tasks
    <2>2. priceSub[s].status = "new"
      BY <1>1, <1>7 DEF ArmPrice, PriceExpires, PricesRest
    <2> QED BY <1>2, <2>1, <2>2
  <1>8. CASE \E r \in PriceSubs : \E t \in 1..Latest : DeliverPrice(r, t)
    <2>1. priceSub[s].status = "new"
      <3>1. PICK r \in PriceSubs, t \in 1..Latest : DeliverPrice(r, t)
        BY <1>8
      <3>2. CASE priceSub' = priceSub
        BY <3>2
      <3>3. CASE priceSub' = [priceSub EXCEPT ![r] = FiredAt(r, t)]
        <4>1. FiredAt(r, t) = priceSub[r] \/ FiredAt(r, t).status = "fired"
          BY <1>1 DEF FiredAt, PricesRest
        <4> QED BY <1>1, <3>3, <4>1 DEF PricesRest
      <3> QED BY <3>1, <3>2, <3>3 DEF DeliverPrice
    <2>2. Unseen(s)
      BY <2>1 DEF NewIsUnseen
    <2>3. UNCHANGED <<watch, since, previous, lane>> /\ sending' \subseteq sending
      BY <1>8 DEF DeliverPrice, memory, tasks
    <2> QED BY <2>2, <2>3 DEF Unseen
  <1>9. CASE StockDrops \/ Start \/ BeginShutdown \/ UNCHANGED pricesVars
    <2>1. keeps /\ priceSub' = priceSub
      BY <1>9 DEF StockDrops, Start, BeginShutdown, pricesVars, memory, tasks, world
    <2> QED BY <1>2, <2>1
  <1>10. CASE StockReconnects
    <2>1. Unseen(s) /\ UNCHANGED <<watch, since, previous, sending>>
      BY <1>3, <1>10 DEF StockReconnects, world
    <2>2. UNCHANGED lane \/ Goes("replay", Idle) \/ Goes("replay", NextReplay)
      BY <1>10 DEF StockReconnects, onReconnected
    <2>3. CASE Goes("replay", Idle)
      BY <1>1, <2>1, <2>3, IdleBecomes DEF Unseen, Becomes
    <2>4. CASE Goes("replay", NextReplay)
      <3>1. Becomes("replay", "read", watch, {}, 0, {}, TRUE)
        BY <1>1, <2>4, ReplayBecomes
      <3> QED BY <1>1, <2>1, <3>1 DEF Unseen, Becomes
    <2> QED BY <2>1, <2>2, <2>3, <2>4 DEF Unseen
  <1>11. CASE recheckPriceMembership
    <2> DEFINE new == Desired \ (watch \cap Desired)
    <2>1. Unseen(s) /\ UNCHANGED <<since, previous, sending, priceSub>>
      BY <1>3, <1>11 DEF recheckPriceMembership, world
    <2>2. s \notin new
      BY <2>1 DEF Desired, IsArmed
    <2>3. s \notin watch'
      BY <1>11, <2>1 DEF recheckPriceMembership, Unseen
    <2>4. UNCHANGED lane \/ Goes("main", Task("join", {}, new, 0)) \/ Goes("main", Task("ack", {},
            new, 0))
      BY <1>11 DEF recheckPriceMembership
    <2> HIDE DEF new
    <2>5. CASE UNCHANGED lane
      BY <2>1, <2>3, <2>5 DEF Unseen
    <2>6. CASE \E a : Goes("main", Task(a, {}, new, 0))
      <3>1. PICK a : Becomes("main", a, {}, new, 0, {}, TRUE)
        BY <1>1, <2>6, TaskBecomes
      <3> QED BY <2>1, <2>2, <2>3, <3>1 DEF Unseen, Becomes
    <2> QED BY <2>4, <2>5, <2>6
  <1>12. CASE Join
    <2>1. Unseen(s) /\ UNCHANGED <<sending, priceSub>>
      BY <1>3, <1>12 DEF Join, world
    <2>2. previous'[s] = previous[s] /\ since'[s] = since[s] /\ s \notin watch' /\ Goes("main",
            Idle)
      BY <1>1, <1>12, <2>1 DEF Join, Unseen
    <2> QED BY <1>1, <2>1, <2>2, IdleBecomes DEF Unseen, Becomes
  <1>13. CASE Ack
    <2>1. Unseen(s) /\ UNCHANGED <<sending, priceSub, previous, since>>
      BY <1>3, <1>13 DEF Ack, world
    <2>2. s \notin watch' /\ Goes("main", Task("read", lane["main"].fresh, {}, 0))
      BY <1>1, <1>13, <2>1 DEF Ack, Unseen
    <2>3. Becomes("main", "read", lane["main"].fresh, {}, 0, {}, TRUE)
      BY <1>1, <2>2, TaskBecomes
    <2> QED BY <1>1, <2>1, <2>2, <2>3 DEF Unseen, Becomes
  <1>14. CASE EndShutdown \/ CrashSession
    <2>1. Unseen(s) /\ since' = since /\ Forget
      BY <1>3, <1>14 DEF EndShutdown, CrashSession, world
    <2>2. \A l \in Lanes : lane'[l].ready = {} /\ lane'[l].fresh = {}
      BY <2>1 DEF Forget, Idle, Task
    <2> QED BY <2>1, <2>2 DEF Forget, Unseen
  <1> QED BY <1>4, <1>5, <1>6, <1>7, <1>8, <1>9, <1>10, <1>11, <1>12, <1>13, <1>14 DEF PricesNext

(* Nothing is left of a session that is over. *)
Blank ==
  /\ priceConn = "down" /\ ~ streaming /\ ~ seeding /\ known = 0 /\ pendingCursor = 0
  /\ watch = {} /\ sending = {} /\ \A s \in PriceSubs : previous[s] = 0

OffIsBlank == priceSession = "off" => Blank

(* A session that is over has left nothing behind. *)
LEMMA OffStaysBlank ==
  ASSUME PricesTyped, AlpacaSessionAssumption, OffIsBlank, [PricesNext]_pricesVars
  PROVE  OffIsBlank'
  <1>1. PricesRest /\ "main" \in Lanes
    BY Typing DEF Lanes
  <1>2. CASE EndShutdown \/ CrashSession
    BY <1>2 DEF EndShutdown, CrashSession, Forget, OffIsBlank, Blank
  <1>3. CASE priceSession' # "off"
    BY <1>3 DEF OffIsBlank
  <1>4. CASE \E p \in Price : TradeHappens(p)
    BY <1>4 DEF TradeHappens, run, connection, memory, OffIsBlank, Blank
  <1>5. CASE \E r \in PriceSubs : ArmPrice(r) \/ PriceExpires(r)
    BY <1>5 DEF ArmPrice, PriceExpires, run, connection, memory, OffIsBlank, Blank
  <1>6. CASE \E r \in PriceSubs : \E t \in 1..Latest : DeliverPrice(r, t)
    BY <1>6 DEF DeliverPrice, run, connection, memory, OffIsBlank, Blank
  <1>7. CASE \E l \in Lanes : Seeding(l) \/ SeedingFails(l)
    <2>1. PICK l \in Lanes : Seeding(l) \/ SeedingFails(l)
      BY <1>7
    <2>2. priceSession # "off"
      BY <2>1, TaskRuns
    <2>3. priceSession' \in {priceSession, "closing"}
      BY <2>1 DEF Seeding, SeedingFails, ReadSeedCursor, Fetch, Decide, Advance, Drain, FreshSeed,
        Snapshot, Seeded, run
    <2> QED BY <1>3, <2>2, <2>3
  <1>8. CASE recheckPriceMembership \/ Join \/ Ack
    <2>1. priceSession # "off" /\ priceSession' = priceSession
      BY <1>1, <1>8 DEF recheckPriceMembership, Join, Ack, run, PricesTyped, PricesShape
    <2> QED BY <1>3, <2>1
  <1>9. CASE handleLiveTrade \/ StockDrops \/ StockReconnects \/ Start \/ BeginShutdown
    <2>1. priceSession' # "off"
      BY <1>9 DEF handleLiveTrade, StockDrops, StockReconnects, Start, BeginShutdown, run
    <2> QED BY <1>3, <2>1
  <1>10. CASE UNCHANGED pricesVars
    BY <1>10 DEF pricesVars, run, connection, memory, OffIsBlank, Blank
  <1> QED BY <1>2, <1>4, <1>5, <1>6, <1>7, <1>8, <1>9, <1>10 DEF PricesNext

-----------------------------------------------------------------------------
(* What may happen without a false wake *)

Mild == circumstances \subseteq {"quiet", "young", "failure", "flap"}

(* Trades are added to the market, and none is changed. *)
LEMMA MarketGrows ==
  ASSUME PricesTyped, AlpacaSessionAssumption, [PricesNext]_pricesVars
  PROVE  /\ circumstances' = circumstances
         /\ Latest \in Nat /\ Latest' \in Nat /\ Latest <= Latest'
         /\ \A t \in 1..Latest : market'[t] = market[t]
  <1>1. Latest \in Nat /\ market \in Seq(Price)
    BY MarketType DEF PricesTyped
  <1>2. CASE market' = market /\ circumstances' = circumstances
    BY <1>1, <1>2 DEF Latest
  <1>3. CASE \E p \in Price : TradeHappens(p)
    <2>1. PICK p \in Price : market' = Append(market, p) /\ circumstances' = circumstances
      BY <1>3 DEF TradeHappens
    <2> QED BY <1>1, <2>1 DEF Latest
  <1>4. CASE ~ \E p \in Price : TradeHappens(p)
    <2>1. CASE handleLiveTrade \/ StockDrops \/ StockReconnects \/ Start \/ BeginShutdown
               \/ EndShutdown \/ CrashSession \/ recheckPriceMembership \/ Join \/ Ack
               \/ UNCHANGED pricesVars
      <3>1. UNCHANGED world
        BY <2>1 DEF handleLiveTrade, StockDrops, StockReconnects, Start, BeginShutdown, EndShutdown,
          CrashSession, recheckPriceMembership, Join, Ack, pricesVars
      <3> QED BY <1>2, <3>1 DEF world
    <2>2. CASE \E s \in PriceSubs : ArmPrice(s) \/ PriceExpires(s) \/ \E t \in 1..Latest :
            DeliverPrice(s, t)
      BY <1>2, <2>2 DEF ArmPrice, PriceExpires, DeliverPrice
    <2>3. CASE \E l \in Lanes : Seeding(l) \/ SeedingFails(l)
      <3>1. UNCHANGED <<circumstances, market>>
        BY <2>3 DEF Seeding, SeedingFails, ReadSeedCursor, Fetch, Decide, Advance, Drain, FreshSeed,
          Snapshot, Seeded, world
      <3> QED BY <1>2, <3>1
    <2> QED BY <1>4, <2>1, <2>2, <2>3 DEF PricesNext
  <1> QED BY <1>3, <1>4

(* So a crossing stays a crossing. *)
LEMMA EntryStands ==
  ASSUME PricesTyped, AlpacaSessionAssumption, [PricesNext]_pricesVars,
         NEW s \in PriceSubs, NEW t \in 1..Latest
  PROVE  Entry(s, t)' <=> Entry(s, t)
  <1>1. Latest \in Nat /\ market'[t] = market[t] /\ (t > 1 => market'[t - 1] = market[t - 1])
    BY MarketGrows
  <1> QED BY <1>1 DEF Entry, Past

(* The main task runs alone: not beside a replay nor while the stream is    *)
(* down.                                                                    *)
TasksAlone ==
  lane["main"].at # "idle" =>
    priceSession = "on" /\ priceConn = "up" /\ lane["replay"].at = "idle"

(* The main task runs while the connection is up and no replay runs. *)
LEMMA TasksStayAlone ==
  ASSUME PricesTyped, AlpacaSessionAssumption, Mild, TasksAlone, [PricesNext]_pricesVars
  PROVE  TasksAlone'
  <1>1. PricesRest /\ "main" \in Lanes /\ "replay" \in Lanes
    BY Typing DEF Lanes
  <1>2. "overlap" \notin circumstances
    BY DEF Mild
  <1>3. CASE EndShutdown \/ CrashSession
    BY <1>1, <1>3 DEF EndShutdown, CrashSession, Forget, TasksAlone, Idle, Task
  <1>4. CASE UNCHANGED <<lane, priceSession, priceConn>>
    BY <1>4 DEF TasksAlone
  <1>5. CASE \/ \E p \in Price : TradeHappens(p)
             \/ handleLiveTrade \/ UNCHANGED pricesVars
             \/ \E s \in PriceSubs : ArmPrice(s) \/ PriceExpires(s) \/ \E t \in 1..Latest :
                     DeliverPrice(s, t)
    BY <1>4, <1>5 DEF TradeHappens, handleLiveTrade, ArmPrice, PriceExpires, DeliverPrice, run,
      connection, tasks, pricesVars
  <1>6. CASE StockDrops \/ BeginShutdown \/ Start
    <2>1. lane["main"].at = "idle" /\ lane' = lane
      BY <1>1, <1>2, <1>6 DEF StockDrops, BeginShutdown, Start, tasks, PricesTyped, PricesShape
    <2> QED BY <2>1 DEF TasksAlone
  <1>7. CASE StockReconnects
    <2>1. lane["main"].at = "idle"
      BY <1>7 DEF StockReconnects, TasksAlone
    <2>2. UNCHANGED lane \/ Goes("replay", Idle) \/ Goes("replay", NextReplay)
      BY <1>7 DEF StockReconnects, onReconnected
    <2>3. lane'["main"] = lane["main"]
      BY <1>1, <2>2 DEF Goes, PricesRest
    <2> QED BY <2>1, <2>3 DEF TasksAlone
  <1>8. CASE recheckPriceMembership
    <2>1. priceConn = "up" /\ lane["replay"].at = "idle" /\ priceSession = "on"
          /\ UNCHANGED <<priceConn, priceSession>>
      BY <1>2, <1>8 DEF recheckPriceMembership, Undisturbed, run, connection
    <2>2. lane'["replay"] = lane["replay"]
      BY <1>1, <1>8 DEF recheckPriceMembership, Goes, PricesRest
    <2> QED BY <2>1, <2>2 DEF TasksAlone
  <1>9. CASE Join \/ Ack
    <2>1. UNCHANGED <<priceConn, priceSession>> /\ lane["main"].at # "idle"
      BY <1>9 DEF Join, Ack, run, connection
    <2>2. lane'["replay"] = lane["replay"]
      BY <1>1, <1>9 DEF Join, Ack, Goes, PricesRest
    <2> QED BY <2>1, <2>2 DEF TasksAlone
  <1>10. CASE \E l \in Lanes : Seeding(l) \/ SeedingFails(l)
    <2>1. PICK l \in Lanes : Seeding(l) \/ SeedingFails(l)
      BY <1>10
    <2>2. lane[l].at # "idle" /\ \E task : Goes(l, task)
      BY <2>1 DEF Seeding, SeedingFails, ReadSeedCursor, Fetch, Decide, Advance, Drain, FreshSeed,
        Snapshot, Seeded, Merge, SeededFrom
    <2>3. \A other \in Lanes : other # l => lane'[other] = lane[other]
      BY <1>1, <2>2 DEF Goes, PricesRest
    <2>4. priceConn' = priceConn
      BY <2>1 DEF Seeding, SeedingFails, ReadSeedCursor, Fetch, Decide, Advance, Drain, FreshSeed,
        Snapshot, Seeded, connection
    <2>5. CASE l = "replay"
      <3>1. lane["main"].at = "idle"
        BY <2>2, <2>5 DEF TasksAlone
      <3> QED BY <1>1, <2>3, <2>5, <3>1 DEF TasksAlone
    <2>6. CASE l = "main"
      <3>1. lane["main"].at # "idle" /\ lane'["replay"] = lane["replay"]
        BY <1>1, <2>2, <2>3, <2>6
      <3>2. CASE SeedingFails("main")
        <4>1. Goes("main", Idle)
          BY <3>2 DEF SeedingFails
        <4>2. lane'["main"].at = "idle"
          BY <1>1, <4>1, IdleBecomes DEF Becomes
        <4> QED BY <4>2 DEF TasksAlone
      <3>3. CASE Seeding("main")
        <4>1. priceSession' = priceSession
          BY <3>3 DEF Seeding, ReadSeedCursor, Fetch, Decide, Advance, Drain, FreshSeed,
            Snapshot, Seeded, run
        <4> QED BY <2>4, <3>1, <4>1 DEF TasksAlone
      <3> QED BY <2>1, <2>6, <3>2, <3>3
    <2> QED BY <2>5, <2>6 DEF Lanes
  <1> QED BY <1>3, <1>5, <1>6, <1>7, <1>8, <1>9, <1>10 DEF PricesNext

(* A task decides on trades after its cursor. *)
DecidesLater ==
  \A l \in Lanes : lane[l].at \in {"decide", "advance"} => \A t \in lane[l].merged : lane[l].cur < t

(* The trades a task decides on are after its cursor. *)
LEMMA StillDecidesLater ==
  ASSUME PricesTyped, AlpacaSessionAssumption, DecidesLater, [PricesNext]_pricesVars
  PROVE  DecidesLater'
  <1>1. PricesRest /\ "main" \in Lanes /\ "replay" \in Lanes
    BY Typing DEF Lanes
  <1>2. ASSUME lane' = lane PROVE DecidesLater'
    BY <1>2 DEF DecidesLater
  <1>3. ASSUME NEW l \in Lanes, NEW a, NEW r, NEW f, NEW c, NEW m, NEW d, Becomes(l, a, r, f, c,
          m, d),
               a \in {"decide", "advance"} => \A t \in m : c < t
        PROVE  DecidesLater'
    BY <1>3 DEF DecidesLater, Becomes
  <1>4. ASSUME NEW l \in Lanes, Goes(l, Idle) \/ Goes(l, NextReplay) PROVE DecidesLater'
    BY <1>1, <1>3, <1>4, IdleBecomes, ReplayBecomes
  <1>5. ASSUME NEW l \in Lanes, NEW a \in {"join", "ack", "read"}, NEW r, NEW f, NEW c,
               Goes(l, Task(a, r, f, c))
        PROVE  DecidesLater'
    <2>1. Becomes(l, a, r, f, c, {}, TRUE)
      BY <1>1, <1>5, TaskBecomes
    <2> QED BY <1>3, <2>1
  <1>6. CASE EndShutdown \/ CrashSession
    BY <1>6 DEF EndShutdown, CrashSession, Forget, DecidesLater, Idle, Task
  <1>7. CASE \/ \E p \in Price : TradeHappens(p)
             \/ handleLiveTrade \/ UNCHANGED pricesVars \/ StockDrops \/ BeginShutdown \/ Start
             \/ \E s \in PriceSubs : ArmPrice(s) \/ PriceExpires(s) \/ \E t \in 1..Latest :
                     DeliverPrice(s, t)
    BY <1>2, <1>7 DEF TradeHappens, handleLiveTrade, ArmPrice, PriceExpires, DeliverPrice, run,
      connection, tasks, pricesVars, StockDrops, BeginShutdown, Start
  <1>8. CASE StockReconnects
    BY <1>1, <1>2, <1>4, <1>8 DEF StockReconnects, onReconnected
  <1>9. CASE recheckPriceMembership
    BY <1>1, <1>2, <1>5, <1>9 DEF recheckPriceMembership
  <1>10. CASE Join
    BY <1>1, <1>4, <1>10 DEF Join
  <1>11. CASE Ack
    BY <1>1, <1>5, <1>11 DEF Ack
  <1>12. ASSUME NEW l \in Lanes, Seeding(l) \/ SeedingFails(l) PROVE DecidesLater'
    <2>1. ASSUME NEW trades, Merge(l, trades) PROVE DecidesLater'
      <3>1. PICK merged \in SUBSET trades :
              /\ merged = {t \in trades : t > lane[l].cur}
              /\ Becomes(l, IF merged = {} THEN "drain" ELSE "decide", lane[l].ready, lane[l].fresh,
                         lane[l].cur, merged, lane[l].recorded)
        BY <1>1, <2>1, MergeBecomes
      <3> DEFINE a == IF merged = {} THEN "drain" ELSE "decide"
      <3>2. Becomes(l, a, lane[l].ready, lane[l].fresh, lane[l].cur, merged, lane[l].recorded)
        BY <3>1
      <3>3. \A t \in merged : lane[l].cur < t
        BY <3>1
      <3> HIDE DEF a
      <3> QED BY <1>3, <3>2, <3>3
    <2>2. CASE Fetch(l)
      BY <2>1, <2>2 DEF Fetch
    <2>3. CASE Drain(l)
      <3>1. CASE priceBuffer = {}
        BY <1>1, <1>3, <2>3, <3>1, DrainBecomes
      <3> QED BY <2>1, <2>3, <3>1 DEF Drain
    <2>4. CASE ReadSeedCursor(l)
      <3>1. PICK ready \in SUBSET lane[l].ready :
               Becomes(l, IF ready = {} THEN "fresh" ELSE "fetch", ready, lane[l].ready \ ready,
                       persisted, {}, TRUE)
        BY <1>1, <2>4, CursorReadBecomes
      <3> DEFINE a == IF ready = {} THEN "fresh" ELSE "fetch"
      <3>2. Becomes(l, a, ready, lane[l].ready \ ready, persisted, {}, TRUE)
        BY <3>1
      <3>3. a \notin {"decide", "advance"}
        OBVIOUS
      <3> HIDE DEF a
      <3> QED BY <1>3, <3>2, <3>3
    <2>5. CASE Decide(l)
      <3>1. PICK d : Becomes(l, "advance", lane[l].ready, lane[l].fresh, lane[l].cur,
                             lane[l].merged, d)
        BY <1>1, <2>5, DecideBecomes
      <3>2. \A t \in lane[l].merged : lane[l].cur < t
        BY <2>5 DEF Decide, DecidesLater
      <3> QED BY <1>3, <3>1, <3>2
    <2>6. CASE Advance(l)
      <3>1. PICK c : Becomes(l, "drain", lane[l].ready, lane[l].fresh, c, {}, lane[l].recorded)
        BY <1>1, <2>6, AdvanceBecomes
      <3> QED BY <1>3, <3>1
    <2>7. ASSUME NEW s, NEW t, SeededFrom(l, s, t) PROVE DecidesLater'
      BY <1>1, <1>3, <2>7, SeedBecomes
    <2>8. CASE FreshSeed(l)
      <3>1. CASE Goes(l, [lane[l] EXCEPT !.at = "snapshot", !.merged = {Latest}])
        BY <1>1, <1>3, <3>1, SnapshotBecomes
      <3> QED BY <2>7, <2>8, <3>1 DEF FreshSeed
    <2>9. CASE Snapshot(l)
      BY <2>7, <2>9 DEF Snapshot
    <2>10. CASE Seeded(l) \/ SeedingFails(l)
      BY <1>4, <2>10 DEF Seeded, SeedingFails
    <2> QED BY <1>12, <2>2, <2>3, <2>4, <2>5, <2>6, <2>8, <2>9, <2>10 DEF Seeding
  <1> QED BY <1>6, <1>7, <1>8, <1>9, <1>10, <1>11, <1>12 DEF PricesNext

(* While the connection is live the session has heard of every trade but    *)
(* perhaps the last, and has read nothing from beyond.                      *)
LaneUpToHeard(l) ==
  /\ lane[l].cur <= heard /\ \A t \in lane[l].merged : t <= heard
  /\ lane[l].at \in {"fresh", "snapshot"} => heard = Latest

UpToHeard == priceConn = "up" /\ streaming =>
  /\ Latest <= heard + 1
  /\ known <= heard /\ persisted <= heard /\ pendingCursor <= heard
  /\ \A t \in priceBuffer : t <= heard
  /\ \A s \in PriceSubs : previous[s] <= heard
  /\ \A l \in Lanes : LaneUpToHeard(l)

(* When the connection has carried every trade, nothing is later. *)
LEMMA AllHeard ==
  ASSUME PricesTyped, AlpacaSessionAssumption, heard = Latest
  PROVE  /\ known <= heard /\ persisted <= heard /\ pendingCursor <= heard /\ Latest <= heard + 1
         /\ \A t \in priceBuffer : t <= heard
         /\ \A s \in PriceSubs : previous[s] <= heard
         /\ \A l \in Lanes : LaneUpToHeard(l)
  <1>1. PricesRest /\ Latest \in Nat
    BY Typing
  <1>2. ASSUME NEW l \in Lanes PROVE LaneUpToHeard(l)
    BY <1>1, LaneTyping DEF LaneUpToHeard
  <1>3. \A s \in PriceSubs : previous[s] <= heard
    BY <1>1 DEF PricesRest
  <1>4. \A t \in priceBuffer : t <= heard
    BY <1>1 DEF PricesRest
  <1> QED BY <1>1, <1>2, <1>3, <1>4 DEF PricesRest

(* A seeding gets no further than the live stream. *)
LEMMA SeedingUpToHeard ==
  ASSUME PricesTyped, AlpacaSessionAssumption, Mild, UpToHeard, NEW l \in Lanes,
         Seeding(l) \/ SeedingFails(l), PricesTyped', priceConn' = "up", streaming'
  PROVE  UpToHeard'
  <1>1. /\ PricesRest /\ PricesShape /\ Latest \in Nat /\ Latest > 0 /\ "lag" \notin circumstances
        /\ heard \in Nat /\ persisted \in Nat /\ known \in Nat
    BY Typing DEF Mild, PricesTyped, PricesRest
  <1>2. /\ UNCHANGED <<market, heard, priceConn, streaming, known>>
        /\ priceBuffer' = priceBuffer \/ priceBuffer' = {}
    BY DEF Seeding, SeedingFails, ReadSeedCursor, Fetch, Decide, Advance, Drain, FreshSeed,
       Snapshot, Seeded, Merge, connection, memory, world
  <1>3. /\ Latest <= heard + 1 /\ known <= heard /\ persisted <= heard /\ pendingCursor <= heard
        /\ \A t \in priceBuffer : t <= heard
        /\ \A s \in PriceSubs : previous[s] <= heard
        /\ \A o \in Lanes : LaneUpToHeard(o)
    BY <1>2 DEF UpToHeard
  <1>4. Latest' = Latest
    BY <1>2, SameMarket
  <1>5. ASSUME NEW a, NEW r, NEW f, NEW c, NEW m, NEW d, Becomes(l, a, r, f, c, m, d),
               c <= heard, \A t \in m : t <= heard, a \in {"fresh", "snapshot"} => heard = Latest,
               persisted' <= heard, pendingCursor' <= heard,
               \A s \in PriceSubs : previous'[s] <= heard
        PROVE  UpToHeard'
    <2>1. ASSUME NEW o \in Lanes PROVE LaneUpToHeard(o)'
      <3>1. CASE o = l
        BY <1>2, <1>4, <1>5, <3>1 DEF Becomes, LaneUpToHeard
      <3>2. CASE o # l
        BY <1>2, <1>3, <1>4, <1>5, <3>2 DEF Becomes, LaneUpToHeard
      <3> QED BY <3>1, <3>2
    <2> QED BY <1>2, <1>3, <1>4, <1>5, <2>1 DEF UpToHeard
  <1>6. Prompt => heard = Latest
    BY <1>1, <1>2 DEF Prompt
  <1>7. lane[l].cur <= heard /\ \A t \in lane[l].merged : t <= heard
    BY <1>3 DEF LaneUpToHeard
  <1>8. lane[l].at \in {"fresh", "snapshot"} => heard = Latest
    BY <1>3 DEF LaneUpToHeard
  <1>9. ASSUME NEW trades, Merge(l, trades), UNCHANGED <<persisted, pendingCursor, previous>>,
               \A t \in trades : t <= heard
        PROVE  UpToHeard'
    <2>1. PICK merged \in SUBSET trades :
             Becomes(l, IF merged = {} THEN "drain" ELSE "decide", lane[l].ready, lane[l].fresh,
                     lane[l].cur, merged, lane[l].recorded)
      BY <1>1, <1>9, MergeBecomes
    <2> DEFINE a == IF merged = {} THEN "drain" ELSE "decide"
    <2>2. Becomes(l, a, lane[l].ready, lane[l].fresh, lane[l].cur, merged, lane[l].recorded)
      BY <2>1
    <2>3. a \notin {"fresh", "snapshot"}
      OBVIOUS
    <2> HIDE DEF a
    <2>4. \A t \in merged : t <= heard
      BY <1>9
    <2> QED BY <1>3, <1>5, <1>7, <1>9, <2>2, <2>3, <2>4
  <1>10. CASE Fetch(l)
    <2>1. PICK end \in heard..Latest : Merge(l, (lane[l].cur .. end) \cup priceBuffer)
      BY <1>10 DEF Fetch
    <2>2. heard = Latest
      BY <1>6, <1>10 DEF Fetch
    <2>3. \A t \in (lane[l].cur .. end) \cup priceBuffer : t <= heard
      <3>1. lane[l].cur \in Nat /\ end \in Nat /\ end <= heard
        BY <1>1, <2>2, LaneTyping
      <3> QED BY <1>1, <1>3, <3>1
    <2> QED BY <1>9, <1>10, <2>1, <2>3 DEF Fetch
  <1>11. CASE Drain(l)
    <2>1. CASE priceBuffer # {}
      BY <1>3, <1>9, <1>11, <2>1 DEF Drain
    <2>2. CASE priceBuffer = {}
      <3>1. Becomes(l, "fresh", lane[l].ready, lane[l].fresh, lane[l].cur, lane[l].merged,
                    lane[l].recorded)
        BY <1>1, <1>11, <2>2, DrainBecomes
      <3>2. heard = Latest
        BY <1>6, <1>11 DEF Drain
      <3>3. UNCHANGED <<persisted, pendingCursor, previous>>
        BY <1>11 DEF Drain
      <3> QED BY <1>3, <1>5, <1>7, <3>1, <3>2, <3>3
    <2> QED BY <2>1, <2>2
  <1>12. CASE ReadSeedCursor(l)
    <2>1. PICK ready \in SUBSET lane[l].ready :
             Becomes(l, IF ready = {} THEN "fresh" ELSE "fetch", ready, lane[l].ready \ ready,
                     persisted, {}, TRUE)
      BY <1>1, <1>12, CursorReadBecomes
    <2> DEFINE a == IF ready = {} THEN "fresh" ELSE "fetch"
    <2>2. PICK m, d : m = {} /\ Becomes(l, a, ready, lane[l].ready \ ready, persisted, m, d)
      BY <2>1
    <2> HIDE DEF a
    <2>3. heard = Latest /\ UNCHANGED <<persisted, pendingCursor, previous>>
      BY <1>6, <1>12 DEF ReadSeedCursor, memory
    <2>4. /\ \A t \in m : t <= heard
          /\ persisted' <= heard /\ pendingCursor' <= heard
          /\ \A s \in PriceSubs : previous'[s] <= heard
      BY <1>3, <2>2, <2>3
    <2> QED BY <1>3, <1>5, <2>2, <2>3, <2>4
  <1>13. CASE Decide(l)
    <2>1. PICK d : Becomes(l, "advance", lane[l].ready, lane[l].fresh, lane[l].cur,
                           lane[l].merged, d)
      BY <1>1, <1>13, DecideBecomes
    <2>2. Max(lane[l].merged) <= heard
      <3>1. lane[l].merged \in SUBSET (0..Latest) /\ lane[l].merged # {}
        <4>1. lane[l].merged \subseteq 1..Latest
          BY <1>1, LaneTyping
        <4> QED BY <1>1, <1>13, <4>1 DEF Decide, PricesShape
      <3> QED BY <1>1, <1>7, <3>1, LargestOf
    <2>3. \A s \in PriceSubs : previous'[s] <= heard
      BY <1>3, <1>13, <2>2 DEF Decide
    <2>4. UNCHANGED <<persisted, pendingCursor>>
      BY <1>13 DEF Decide
    <2> QED BY <1>3, <1>5, <1>7, <2>1, <2>3, <2>4
  <1>14. CASE Advance(l)
    <2> DEFINE c == IF lane[l].recorded THEN NextCursor(l) ELSE lane[l].cur
    <2>1. Becomes(l, "drain", lane[l].ready, lane[l].fresh, c, {}, lane[l].recorded)
      BY <1>1, <1>14, AdvanceBecomes
    <2>2. NextCursor(l) <= heard /\ NextCursor(l) \in Nat
      <3>1. lane[l].merged \in SUBSET (0..Latest) /\ lane[l].merged # {}
        <4>1. lane[l].merged \subseteq 1..Latest
          BY <1>1, LaneTyping
        <4> QED BY <1>1, <1>14, <4>1 DEF Advance, PricesShape
      <3>2. Max(lane[l].merged) \in lane[l].merged
        BY <1>1, <3>1, LargestOf
      <3> QED BY <1>1, <1>7, <3>1, <3>2 DEF NextCursor
    <2>3. c <= heard
      BY <1>7, <2>2
    <2> HIDE DEF c
    <2>4. Max({persisted, NextCursor(l)}) <= heard
      BY <1>1, <1>3, <2>2, LargerOf
    <2>5. persisted' <= heard /\ pendingCursor' <= heard /\ previous' = previous
      BY <1>3, <1>14, <2>2, <2>4 DEF Advance
    <2> QED BY <1>3, <1>5, <2>1, <2>3, <2>5
  <1>15. ASSUME NEW s \in PriceSubs, NEW t, SeededFrom(l, s, t), t <= heard,
                UNCHANGED <<persisted, pendingCursor>>, lane[l].at \in {"fresh", "snapshot"}
         PROVE  UpToHeard'
    <2>1. Becomes(l, "fresh", lane[l].ready, lane[l].fresh \ {s}, lane[l].cur, {}, lane[l].recorded)
      BY <1>1, <1>15, SeedBecomes
    <2>2. \A r \in PriceSubs : previous'[r] <= heard
      BY <1>1, <1>3, <1>15 DEF SeededFrom, PricesRest
    <2> QED BY <1>3, <1>5, <1>7, <1>8, <1>15, <2>1, <2>2
  <1>16. CASE Snapshot(l)
    <2>1. PICK s \in lane[l].fresh, t \in lane[l].merged : SeededFrom(l, s, t)
      BY <1>16 DEF Snapshot
    <2>2. s \in PriceSubs
      BY <1>1, LaneTyping
    <2> QED BY <1>7, <1>15, <1>16, <2>1, <2>2 DEF Snapshot
  <1>17. CASE FreshSeed(l)
    <2>1. ASSUME NEW s \in lane[l].fresh, SeededFrom(l, s, known) PROVE UpToHeard'
      <3>1. s \in PriceSubs
        BY <1>1, LaneTyping
      <3> QED BY <1>3, <1>15, <1>17, <2>1, <3>1 DEF FreshSeed
    <2>2. ASSUME Goes(l, [lane[l] EXCEPT !.at = "snapshot", !.merged = {Latest}]),
                 UNCHANGED <<previous, since>>
          PROVE  UpToHeard'
      <3>1. Becomes(l, "snapshot", lane[l].ready, lane[l].fresh, lane[l].cur, {Latest},
                    lane[l].recorded)
        BY <1>1, <2>2, SnapshotBecomes
      <3>2. heard = Latest /\ UNCHANGED <<persisted, pendingCursor>>
        BY <1>8, <1>17 DEF FreshSeed
      <3> QED BY <1>1, <1>3, <1>5, <1>7, <2>2, <3>1, <3>2
    <2> QED BY <1>17, <2>1, <2>2 DEF FreshSeed
  <1>18. CASE Seeded(l) \/ SeedingFails(l)
    <2>1. UNCHANGED <<persisted, pendingCursor, previous>> /\ (Goes(l, Idle) \/ Goes(l, NextReplay))
      BY <1>18 DEF Seeded, SeedingFails
    <2>2. 0 <= heard
      BY <1>1
    <2>3. PICK a, r, m, d : a \in {"idle", "read"} /\ m = {} /\ Becomes(l, a, r, {}, 0, m, d)
      BY <1>1, <2>1, IdleBecomes, ReplayBecomes
    <2>4. /\ \A t \in m : t <= heard
          /\ persisted' <= heard /\ pendingCursor' <= heard
          /\ \A s \in PriceSubs : previous'[s] <= heard
          /\ a \notin {"fresh", "snapshot"}
      BY <1>3, <2>1, <2>3
    <2> QED BY <1>5, <2>2, <2>3, <2>4
  <1> QED BY <1>10, <1>11, <1>12, <1>13, <1>14, <1>16, <1>17, <1>18 DEF Seeding

(* Nothing in the session is later than the last trade the connection carried. *)
LEMMA StaysUpToHeard ==
  ASSUME PricesTyped, AlpacaSessionAssumption, Mild, UpToHeard, OffIsBlank,
         [PricesNext]_pricesVars
  PROVE  UpToHeard'
  <1> SUFFICES ASSUME priceConn' = "up", streaming' PROVE UpToHeard'
    BY DEF UpToHeard
  <1>1. /\ PricesRest /\ PricesShape /\ Latest \in Nat /\ Latest > 0 /\ heard \in Nat
        /\ "lag" \notin circumstances /\ "snapshot" \notin circumstances
        /\ "main" \in Lanes /\ "replay" \in Lanes
    BY Typing DEF Mild, PricesTyped, PricesRest, Lanes
  <1>2. PricesTyped'
    BY PricesStayTyped
  <1>3. PricesRest' /\ Latest' \in Nat
    BY <1>1, <1>2, MarketGrows DEF PricesTyped, PricesRest, PricesTypeOK
  <1>4. priceConn = "up" /\ streaming =>
          /\ Latest <= heard + 1 /\ known <= heard /\ persisted <= heard /\ pendingCursor <= heard
          /\ \A t \in priceBuffer : t <= heard
          /\ \A s \in PriceSubs : previous[s] <= heard
          /\ \A l \in Lanes : LaneUpToHeard(l)
    BY DEF UpToHeard
  <1>5. ASSUME UNCHANGED <<market, persisted, connection, memory, lane>> PROVE UpToHeard'
    <2>1. Latest' = Latest
      BY <1>5, SameMarket
    <2> QED BY <1>5, <2>1 DEF UpToHeard, LaneUpToHeard, connection, memory
  (* Every trade is heard of: nothing that is read lies beyond. *)
  <1>6. ASSUME heard' = Latest' PROVE UpToHeard'
    <2>1. /\ known' <= heard' /\ persisted' <= heard' /\ pendingCursor' <= heard'
          /\ Latest' <= heard' + 1
      <3>1. known' \in 0..Latest' /\ persisted' \in 0..Latest' /\ pendingCursor' \in 0..Latest'
        BY <1>3 DEF PricesRest
      <3>2. heard' \in Nat
        BY <1>3, <1>6
      <3>3. Latest' <= heard' + 1
        <4>1. \A n \in Nat : n <= n + 1
          OBVIOUS
        <4> QED BY <1>6, <3>2, <4>1
      <3>4. known' <= heard' /\ persisted' <= heard' /\ pendingCursor' <= heard'
        BY <1>6, <3>1, <3>2
      <3> QED BY <3>3, <3>4
    <2>3. \A t \in priceBuffer' : t <= heard'
      <3>1. priceBuffer' \subseteq 1..Latest'
        BY <1>3 DEF PricesRest
      <3> QED BY <1>3, <1>6, <3>1
    <2>4. \A s \in PriceSubs : previous'[s] <= heard'
      <3>1. previous' \in [PriceSubs -> 0..Latest']
        BY <1>3 DEF PricesRest
      <3> QED BY <1>3, <1>6, <3>1
    <2>2. ASSUME NEW l \in Lanes PROVE LaneUpToHeard(l)'
      <3>1. lane'[l].cur \in 0..Latest' /\ lane'[l].merged \subseteq 1..Latest'
        BY <1>3 DEF PricesRest, LaneState
      <3> QED BY <1>3, <1>6, <3>1 DEF LaneUpToHeard
    <2> QED BY <2>1, <2>2, <2>3, <2>4 DEF UpToHeard
  <1>7. CASE \E p \in Price : TradeHappens(p)
    <2>1. PICK p \in Price : TradeHappens(p)
      BY <1>7
    <2>2. /\ UNCHANGED <<persisted, priceConn, drops, streaming, heard, seeding, priceBuffer, known,
                         pendingCursor, watch, previous, lane>>
          /\ heard = Latest /\ \A l \in Lanes : lane[l].at \notin {"fresh", "snapshot"}
          /\ market' = Append(market, p)
      BY <1>1, <2>1 DEF TradeHappens, connection, memory, tasks, Prompt
    <2>3. Latest' = Latest + 1
      BY <2>2, MarketType DEF Latest, PricesTyped
    <2>4. ASSUME NEW l \in Lanes PROVE LaneUpToHeard(l)'
      BY <1>4, <2>2, <2>4 DEF LaneUpToHeard
    <2>5. priceConn = "up" /\ streaming
      BY <2>2
    <2>6. Latest' <= heard' + 1
      BY <1>1, <2>2, <2>3
    <2> QED BY <1>4, <2>2, <2>4, <2>5, <2>6 DEF UpToHeard
  <1>8. CASE handleLiveTrade
    <2>1. /\ heard < Latest /\ priceConn = "up" /\ streaming /\ heard' = heard + 1
          /\ market' = market
      BY <1>8 DEF handleLiveTrade, world
    <2>2. Latest' = Latest /\ heard' = Latest'
      BY <1>1, <1>4, <2>1, SameMarket
    <2> QED BY <1>6, <2>2
  <1>9. CASE \/ \E s \in PriceSubs : ArmPrice(s) \/ PriceExpires(s) \/ \E t \in 1..Latest :
                   DeliverPrice(s, t)
             \/ BeginShutdown \/ UNCHANGED pricesVars
    BY <1>5, <1>9 DEF ArmPrice, PriceExpires, DeliverPrice, BeginShutdown, pricesVars, tasks, world
  <1>10. CASE \E l \in Lanes : Seeding(l) \/ SeedingFails(l)
    BY <1>2, <1>10, SeedingUpToHeard
  <1>11. CASE StockDrops \/ EndShutdown \/ CrashSession
    BY <1>11 DEF StockDrops, EndShutdown, CrashSession, Forget
  <1>12. CASE Start
    BY <1>12 DEF Start, OffIsBlank, Blank
  <1>13. CASE StockReconnects
    <2>1. heard' = Latest'
      BY <1>13, SameMarket DEF StockReconnects, world
    <2> QED BY <1>6, <2>1
  <1>14. CASE recheckPriceMembership
    <2>1. UNCHANGED <<market, persisted, connection, priceBuffer, known, pendingCursor, previous>>
      BY <1>14 DEF recheckPriceMembership, world
    <2>2. Latest' = Latest
      BY <2>1, SameMarket
    <2> DEFINE new == Desired \ (watch \cap Desired)
    <2>3. UNCHANGED lane \/ \E a \in {"join", "ack"} : Goes("main", Task(a, {}, new, 0))
      BY <1>14 DEF recheckPriceMembership
    <2> HIDE DEF new
    <2>4. ASSUME NEW l \in Lanes PROVE LaneUpToHeard(l)'
      <3>1. LaneUpToHeard(l)
        BY <1>4, <2>1 DEF connection
      <3>2. CASE UNCHANGED lane
        BY <2>1, <2>2, <3>1, <3>2 DEF LaneUpToHeard, connection
      <3>3. ASSUME NEW a \in {"join", "ack"}, Becomes("main", a, {}, new, 0, {}, TRUE)
            PROVE  LaneUpToHeard(l)'
        <4>1. CASE l = "main"
          BY <1>1, <2>1, <3>3, <4>1 DEF LaneUpToHeard, connection, Becomes
        <4>2. CASE l # "main"
          BY <1>1, <2>1, <2>2, <3>1, <3>3, <4>2 DEF LaneUpToHeard, connection, Becomes
        <4> QED BY <4>1, <4>2
      <3> QED BY <1>1, <2>3, <3>2, <3>3, TaskBecomes
    <2> QED BY <1>4, <2>1, <2>2, <2>4 DEF UpToHeard, connection
  <1>15. CASE Join
    <2>1. heard = Latest /\ UNCHANGED <<market, connection>>
      BY <1>1, <1>15 DEF Join, Prompt, connection, world
    <2> QED BY <1>6, <2>1, SameMarket DEF connection
  <1>16. CASE Ack
    <2>1. priceConn = "up" /\ UNCHANGED <<market, persisted, priceBuffer, known, pendingCursor,
            previous>>
      BY <1>16 DEF Ack, world
    <2>2. Latest' = Latest
      BY <2>1, SameMarket
    <2>3. CASE ~ streaming
      <3>1. heard' = Latest'
        BY <1>16, <2>2, <2>3 DEF Ack
      <3> QED BY <1>6, <3>1
    <2>4. CASE streaming
      <3>1. heard' = heard /\ Becomes("main", "read", lane["main"].fresh, {}, 0, {}, TRUE)
        BY <1>1, <1>16, <2>4, TaskBecomes DEF Ack
      <3>2. ASSUME NEW l \in Lanes PROVE LaneUpToHeard(l)'
        <4>1. CASE l = "main"
          BY <1>1, <3>1, <4>1 DEF LaneUpToHeard, Becomes
        <4>2. CASE l # "main"
          BY <1>1, <1>4, <2>1, <2>2, <2>4, <3>1, <4>2 DEF LaneUpToHeard, Becomes
        <4> QED BY <4>1, <4>2
      <3> QED BY <1>4, <2>1, <2>2, <2>4, <3>1, <3>2 DEF UpToHeard
    <2> QED BY <2>3, <2>4
  <1> QED BY <1>7, <1>8, <1>9, <1>10, <1>11, <1>12, <1>13, <1>14, <1>15, <1>16 DEF PricesNext

-----------------------------------------------------------------------------
(* No false wake *)

(* The predicate in terms of which trades are past the threshold. *)
LEMMA CrossesIsPast ==
  ASSUME PricesTyped, AlpacaSessionAssumption, NEW s \in PriceSubs,
         NEW i \in 1..Latest, NEW j \in 1..Latest
  PROVE  crosses(s, i, j) <=> ~ Past(s, i) /\ Past(s, j)
  <1>1. market[i] \in Nat /\ market[j] \in Nat /\ Threshold \in Nat
    BY MarketType DEF PricesTyped, AlpacaSessionAssumption
  <1> QED BY <1>1 DEF crosses, Past

(* Between two prices the predicate fires on, the market itself crossed. *)
LEMMA EntryBetween ==
  ASSUME PricesTyped, AlpacaSessionAssumption, NEW s \in PriceSubs,
         NEW i \in 1..Latest, NEW j \in 1..Latest, i < j, crosses(s, i, j)
  PROVE  \E t \in 1..j : t > i /\ Entry(s, t)
  <1> DEFINE after == {t \in 1..j : t > i /\ Past(s, t)}
  <1>1. Latest \in Nat
    BY Typing
  <1>2. j \in after /\ after \in SUBSET Nat /\ ~ Past(s, i)
    BY <1>1, CrossesIsPast
  <1>3. PICK m \in after : \A n \in after : m <= n
    BY <1>2, SmallestPlace
  <1>4. m \in 1..j /\ m > i /\ Past(s, m) /\ m - 1 \in 1..j
    BY <1>1, <1>3
  <1>5. ~ Past(s, m - 1)
    <2>1. CASE m - 1 = i
      BY <1>2, <2>1
    <2>2. CASE m - 1 # i
      <3>1. m - 1 > i /\ ~ (m <= m - 1)
        BY <1>1, <1>4, <2>2
      <3> QED BY <1>3, <1>4, <3>1
    <2> QED BY <2>1, <2>2
  <1>6. m > 1
    BY <1>1, <1>4
  <1> QED BY <1>4, <1>5, <1>6 DEF Entry

Crossed(s, t) == \E u \in 1..t : u > priceSub[s].armedAt /\ Entry(s, u)

LaneAfterArm(l, s) ==
  /\ s \in lane[l].ready /\ lane[l].at \in {"fetch", "decide", "advance", "drain"} =>
       priceSub[s].armedAt < lane[l].cur
  /\ s \in lane[l].fresh /\ lane[l].at = "snapshot" =>
       \A t \in lane[l].merged : priceSub[s].armedAt <= t

(* An armed subscription has been given no price from before it was armed. *)
AfterArm(s) ==
  /\ known # 0 => priceSub[s].armedAt <= known
  /\ previous[s] # 0 => priceSub[s].armedAt <= previous[s]
  /\ \A l \in Lanes : LaneAfterArm(l, s)
  /\ \A late \in sending : late[1] = s => Crossed(s, late[2])

Truthful(s) ==
  /\ priceSub[s].armedAt <= Latest /\ priceSub[s].trade <= Latest
  /\ priceSub[s].status = "fired" => Crossed(s, priceSub[s].trade)
  /\ IsArmed(s) => AfterArm(s)

(* What the type invariant says of one subscription. *)
LEMMA SubTyping ==
  ASSUME PricesRest, NEW s \in PriceSubs, MaxTrades \in Nat
  PROVE  /\ priceSub[s].status \in {"new", "armed", "fired", "expired"}
         /\ priceSub[s].armedAt \in Nat /\ priceSub[s].trade \in Nat
         /\ previous[s] \in 0..Latest /\ since[s] \in 0..Latest
  BY DEF PricesRest

(* A crossing after the arming stays one. *)
LEMMA CrossedStands ==
  ASSUME PricesTyped, AlpacaSessionAssumption, [PricesNext]_pricesVars, NEW s \in PriceSubs,
         priceSub'[s].armedAt = priceSub[s].armedAt, NEW t \in 0..Latest, Crossed(s, t)
  PROVE  Crossed(s, t)'
  <1>1. PICK u \in 1..t : u > priceSub[s].armedAt /\ Entry(s, u)
    BY DEF Crossed
  <1>2. u \in 1..Latest
    BY Typing
  <1>3. Entry(s, u)'
    BY <1>1, <1>2, EntryStands
  <1> QED BY <1>1, <1>3 DEF Crossed

(* A subscription the step leaves alone stays truthful if what it has been  *)
(* given does.                                                              *)
LEMMA TruthStands ==
  ASSUME PricesTyped, AlpacaSessionAssumption, [PricesNext]_pricesVars, NEW s \in PriceSubs,
         Truthful(s), priceSub'[s] = priceSub[s], IsArmed(s) => AfterArm(s)'
  PROVE  Truthful(s)'
  <1>1. /\ PricesRest /\ Latest \in Nat /\ Latest' \in Nat /\ Latest <= Latest' /\ MaxTrades \in Nat
    BY Typing, MarketGrows
  <1>2. priceSub[s].armedAt \in Nat /\ priceSub[s].trade \in Nat
    BY <1>1, SubTyping
  <1>3. priceSub'[s].armedAt <= Latest' /\ priceSub'[s].trade <= Latest'
    BY <1>1, <1>2 DEF Truthful
  <1>4. priceSub'[s].status = "fired" => Crossed(s, priceSub[s].trade)'
    <2>1. priceSub[s].trade \in 0..Latest
      BY <1>1, <1>2 DEF Truthful
    <2> QED BY <2>1, CrossedStands DEF Truthful
  <1>5. Crossed(s, priceSub[s].trade)' => \E u \in 1..priceSub'[s].trade :
          u > priceSub'[s].armedAt /\ Entry(s, u)'
    BY DEF Crossed
  <1> QED BY <1>3, <1>4, <1>5 DEF Truthful, Crossed, IsArmed

(* What is being delivered stays true. *)
LEMMA SendingStands ==
  ASSUME PricesTyped, AlpacaSessionAssumption, [PricesNext]_pricesVars, NEW s \in PriceSubs,
         AfterArm(s), priceSub'[s] = priceSub[s], NEW late \in sending, late[1] = s
  PROVE  Crossed(s, late[2])'
  <1>1. late[2] \in 0..Latest
    BY Typing DEF PricesRest
  <1> QED BY <1>1, CrossedStands DEF AfterArm

(* A crossing in a replay is after its cursor, so after the arming. *)
LEMMA CrossingIsAfter ==
  ASSUME PricesTyped, AlpacaSessionAssumption, NEW s \in PriceSubs,
         NEW cur \in 0..Latest, NEW merged \in SUBSET (1..Latest), \A t \in merged : cur < t,
         priceSub[s].armedAt < cur, NEW t \in Crossings(s, cur, merged)
  PROVE  Crossed(s, t)
  <1> DEFINE seen == {cur} \cup {i \in merged : i < t}
             p == Max(seen)
  <1>1. Latest \in Nat /\ priceSub[s].armedAt \in Nat
    BY Typing, SubTyping
  <1>2. t \in merged /\ t \in 1..Latest /\ crosses(s, p, t) /\ cur < t
    BY DEF Crossings
  <1>3. seen \in SUBSET (0..Latest) /\ seen # {}
    <2>1. ASSUME NEW x \in seen PROVE x \in 0..Latest
      <3>1. x = cur \/ x \in 1..Latest
        OBVIOUS
      <3> QED BY <1>1, <3>1
    <2>2. cur \in seen
      OBVIOUS
    <2> HIDE DEF seen
    <2> QED BY <2>1, <2>2
  <1>4. p \in seen /\ cur <= p
    <2>1. cur \in seen
      OBVIOUS
    <2> QED BY <1>1, <1>3, <2>1, LargestOf
  <1>5. p \in 1..Latest /\ p < t
    BY <1>1, <1>2, <1>3, <1>4
  <1> HIDE DEF p, seen
  <1>6. PICK u \in 1..t : u > p /\ Entry(s, u)
    BY <1>2, <1>5, EntryBetween
  <1>7. u > priceSub[s].armedAt
    BY <1>1, <1>2, <1>4, <1>5, <1>6
  <1> QED BY <1>6, <1>7 DEF Crossed

(* No step of a seeding makes a false wake possible. *)
LEMMA SeedingTruthful ==
  ASSUME PricesTyped, AlpacaSessionAssumption, [PricesNext]_pricesVars, DecidesLater,
         NEW l \in Lanes, Seeding(l) \/ SeedingFails(l), NEW s \in PriceSubs, Truthful(s)
  PROVE  Truthful(s)'
  <1>1. /\ PricesRest /\ PricesShape /\ Latest \in Nat /\ Latest > 0 /\ MaxTrades \in Nat
        /\ priceSub[s].armedAt \in Nat /\ previous[s] \in Nat /\ since[s] \in Nat
        /\ persisted \in Nat /\ known \in Nat
    BY Typing, SubTyping DEF PricesTyped, PricesRest
  <1>2. UNCHANGED <<known, sending>>
    BY DEF Seeding, SeedingFails, ReadSeedCursor, Fetch, Decide, Advance, Drain, FreshSeed,
      Snapshot, Seeded, Merge, memory
  <1>3. /\ lane[l].cur \in 0..Latest /\ lane[l].merged \in SUBSET (1..Latest)
        /\ lane[l].ready \subseteq PriceSubs /\ lane[l].fresh \subseteq PriceSubs
    BY <1>1, LaneTyping
  <1>4. ASSUME priceSub'[s] = priceSub[s],
               NEW a, NEW r, NEW f, NEW c, NEW m, NEW d, Becomes(l, a, r, f, c, m, d),
               IsArmed(s) =>
                 /\ s \in r /\ a \in {"fetch", "decide", "advance", "drain"} =>
                         priceSub[s].armedAt < c
                 /\ s \in f /\ a = "snapshot" => \A t \in m : priceSub[s].armedAt <= t
                 /\ previous'[s] # 0 => priceSub[s].armedAt <= previous'[s]
        PROVE  Truthful(s)'
    <2>1. ASSUME IsArmed(s) PROVE AfterArm(s)'
      <3>1. AfterArm(s)
        BY <2>1 DEF Truthful
      <3>2. \A late \in sending : late[1] = s => Crossed(s, late[2])'
        BY <1>4, <3>1, SendingStands
      <3>3. ASSUME NEW o \in Lanes PROVE LaneAfterArm(o, s)'
        <4>1. CASE o = l
          BY <1>4, <2>1, <4>1 DEF LaneAfterArm, Becomes
        <4>2. CASE o # l
          BY <1>4, <3>1, <4>2 DEF LaneAfterArm, Becomes, AfterArm
        <4> QED BY <4>1, <4>2
      <3>4. known' # 0 => priceSub'[s].armedAt <= known'
        BY <1>2, <1>4, <3>1 DEF AfterArm
      <3>5. previous'[s] # 0 => priceSub'[s].armedAt <= previous'[s]
        BY <1>4, <2>1
      <3> QED BY <1>2, <3>2, <3>3, <3>4, <3>5 DEF AfterArm
    <2> QED BY <1>4, <2>1, TruthStands
  <1>5. IsArmed(s) =>
          /\ LaneAfterArm(l, s) /\ (known # 0 => priceSub[s].armedAt <= known)
          /\ previous[s] # 0 => priceSub[s].armedAt <= previous[s]
    BY DEF Truthful, AfterArm
  <1>6. CASE Decide(l)
    <2> DEFINE hits(q) == Crossings(q, lane[l].cur, lane[l].merged)
               firing == {q \in lane[l].ready : hits(q) # {}}
    <2>1. PICK failed \in SUBSET firing :
            /\ priceSub' = [q \in PriceSubs |-> IF q \in firing \ failed THEN FiredAt(q,
                    Min(hits(q)))
                                                                     ELSE priceSub[q]]
            /\ Becomes(l, "advance", lane[l].ready, lane[l].fresh, lane[l].cur, lane[l].merged,
                       failed = {})
      BY <1>1, <1>6, DecideBecomes
    <2>2. /\ previous' = [q \in PriceSubs |-> IF q \in lane[l].ready THEN Max(lane[l].merged)
                                                              ELSE previous[q]]
          /\ lane[l].at = "decide"
      BY <1>6 DEF Decide
    <2>3. \A t \in lane[l].merged : lane[l].cur < t
      BY <2>2 DEF DecidesLater
    <2>4. Max(lane[l].merged) \in lane[l].merged
      <3>1. lane[l].merged \in SUBSET (0..Latest) /\ lane[l].merged # {}
        BY <1>1, <1>3, <2>2 DEF PricesShape
      <3> QED BY <1>1, <3>1, LargestOf
    <2>5. firing \subseteq lane[l].ready /\ \A q \in firing : hits(q) # {}
      OBVIOUS
    <2>6. CASE s \in firing \ failed /\ IsArmed(s)
      <3>1. hits(s) \in SUBSET (0..Latest) /\ hits(s) # {}
        <4>1. ASSUME NEW x \in hits(s) PROVE x \in 0..Latest
          <5>1. x \in 1..Latest
            BY <1>3 DEF Crossings
          <5> QED BY <1>1, <5>1
        <4>2. hits(s) # {}
          BY <2>6
        <4> HIDE DEF hits
        <4> QED BY <4>1, <4>2
      <3>2. PICK t \in hits(s) : t = Min(hits(s))
        BY <1>1, <3>1, LeastOf
      <3>3. priceSub[s].armedAt < lane[l].cur
        BY <1>5, <2>2, <2>5, <2>6 DEF LaneAfterArm
      <3>4. Crossed(s, t)
        BY <1>3, <2>3, <3>2, <3>3, CrossingIsAfter
      <3>5. priceSub'[s] = [priceSub[s] EXCEPT !.status = "fired", !.trade = t]
        BY <2>1, <2>6, <3>2 DEF FiredAt
      <3>6. priceSub'[s].status = "fired" /\ priceSub'[s].trade = t
            /\ priceSub'[s].armedAt = priceSub[s].armedAt
        BY <1>1, <3>5 DEF PricesRest
      <3>7. t \in 0..Latest
        BY <3>1, <3>2
      <3>8. Crossed(s, t)'
        BY <3>4, <3>6, <3>7, CrossedStands
      <3>9. Latest' = Latest
        BY <1>6, SameMarket DEF Decide
      <3>10. priceSub'[s].armedAt <= Latest' /\ priceSub'[s].trade <= Latest'
        BY <1>1, <3>6, <3>7, <3>9 DEF Truthful
      <3>11. \E u \in 1..t : u > priceSub'[s].armedAt /\ Entry(s, u)'
        BY <3>8 DEF Crossed
      <3>12. \E u \in 1..priceSub'[s].trade : u > priceSub'[s].armedAt /\ Entry(s, u)'
        BY <3>6, <3>11
      <3> QED BY <3>6, <3>10, <3>12 DEF Truthful, IsArmed, Crossed
    <2>7. CASE ~ (s \in firing \ failed /\ IsArmed(s))
      <3>1. priceSub'[s] = priceSub[s]
        BY <2>1, <2>7 DEF FiredAt
      <3>2. IsArmed(s) => (previous'[s] # 0 => priceSub[s].armedAt <= previous'[s])
        <4>1. CASE s \in lane[l].ready
          <5>1. IsArmed(s) => priceSub[s].armedAt < lane[l].cur
            BY <1>5, <2>2, <4>1 DEF LaneAfterArm
          <5> QED BY <1>1, <1>3, <2>2, <2>3, <2>4, <4>1, <5>1
        <4>2. CASE s \notin lane[l].ready
          BY <1>5, <2>2, <4>2
        <4> QED BY <4>1, <4>2
      <3>3. PICK d : Becomes(l, "advance", lane[l].ready, lane[l].fresh, lane[l].cur,
                             lane[l].merged, d)
        BY <2>1
      <3>4. IsArmed(s) => (s \in lane[l].ready => priceSub[s].armedAt < lane[l].cur)
        BY <1>5, <2>2 DEF LaneAfterArm
      <3> HIDE DEF firing, hits
      <3> QED BY <1>4, <3>1, <3>2, <3>3, <3>4
    <2> QED BY <2>6, <2>7
  <1>7. CASE ~ Decide(l)
    <2>1. priceSub'[s] = priceSub[s]
      BY <1>7 DEF Seeding, SeedingFails, ReadSeedCursor, Fetch, Advance, Drain, FreshSeed, Snapshot,
        Seeded, world
    <2>2. ASSUME NEW trades, Merge(l, trades), previous' = previous, lane[l].at \in {"fetch",
            "drain"}
          PROVE  Truthful(s)'
      <3>1. PICK merged \in SUBSET trades :
               Becomes(l, IF merged = {} THEN "drain" ELSE "decide", lane[l].ready, lane[l].fresh,
                       lane[l].cur, merged, lane[l].recorded)
        BY <1>1, <2>2, MergeBecomes
      <3> DEFINE a == IF merged = {} THEN "drain" ELSE "decide"
      <3>2. Becomes(l, a, lane[l].ready, lane[l].fresh, lane[l].cur, merged, lane[l].recorded)
        BY <3>1
      <3>3. a # "snapshot"
        OBVIOUS
      <3> HIDE DEF a
      <3> QED BY <1>4, <1>5, <2>1, <2>2, <3>2, <3>3 DEF LaneAfterArm
    <2>3. CASE Fetch(l)
      BY <2>2, <2>3 DEF Fetch
    <2>4. CASE Drain(l)
      <3>1. CASE priceBuffer # {}
        BY <2>2, <2>4, <3>1 DEF Drain
      <3>2. CASE priceBuffer = {}
        <4>1. Becomes(l, "fresh", lane[l].ready, lane[l].fresh, lane[l].cur, lane[l].merged,
                      lane[l].recorded)
          BY <1>1, <2>4, <3>2, DrainBecomes
        <4> QED BY <1>4, <1>5, <2>1, <2>4, <4>1 DEF Drain
      <3> QED BY <3>1, <3>2
    <2>5. CASE ReadSeedCursor(l)
      <3>1. PICK ready \in SUBSET lane[l].ready :
               /\ ready = {q \in lane[l].ready : Ready(q, persisted)}
               /\ Becomes(l, IF ready = {} THEN "fresh" ELSE "fetch", ready, lane[l].ready \ ready,
                          persisted, {}, TRUE)
        BY <1>1, <2>5, CursorReadBecomes
      <3> DEFINE a == IF ready = {} THEN "fresh" ELSE "fetch"
      <3>2. PICK m, d : Becomes(l, a, ready, lane[l].ready \ ready, persisted, m, d)
        BY <3>1
      <3>3. a # "snapshot" /\ (s \in ready => priceSub[s].armedAt < persisted)
        BY <1>1, <3>1 DEF Ready
      <3>4. previous' = previous
        BY <2>5 DEF ReadSeedCursor, memory
      <3> HIDE DEF a
      <3> QED BY <1>4, <1>5, <2>1, <3>2, <3>3, <3>4
    <2>6. CASE Advance(l)
      <3> DEFINE c == IF lane[l].recorded THEN NextCursor(l) ELSE lane[l].cur
      <3>1. Becomes(l, "drain", lane[l].ready, lane[l].fresh, c, {}, lane[l].recorded)
        BY <1>1, <2>6, AdvanceBecomes
      <3>2. lane[l].at = "advance" /\ previous' = previous
        BY <2>6 DEF Advance
      <3>3. lane[l].cur < NextCursor(l) /\ NextCursor(l) \in Nat
        <4>1. lane[l].merged \in SUBSET (0..Latest) /\ lane[l].merged # {}
          BY <1>1, <1>3, <3>2 DEF PricesShape
        <4>2. NextCursor(l) \in lane[l].merged
          BY <1>1, <4>1, LargestOf DEF NextCursor
        <4> QED BY <1>1, <1>3, <3>2, <4>2 DEF DecidesLater
      <3>4. IsArmed(s) => (s \in lane[l].ready => priceSub[s].armedAt < c)
        BY <1>1, <1>3, <1>5, <3>2, <3>3 DEF LaneAfterArm
      <3> HIDE DEF c
      <3>5. PICK m, d : Becomes(l, "drain", lane[l].ready, lane[l].fresh, c, m, d)
        BY <3>1
      <3> QED BY <1>4, <1>5, <2>1, <3>2, <3>4, <3>5
    <2>7. ASSUME NEW q \in lane[l].fresh, NEW t, SeededFrom(l, q, t),
                 IsArmed(s) /\ q = s => priceSub[s].armedAt <= t
          PROVE  Truthful(s)'
      <3>1. PICK m, d : Becomes(l, "fresh", lane[l].ready, lane[l].fresh \ {q}, lane[l].cur, m, d)
        BY <1>1, <2>7, SeedBecomes
      <3>2. previous' = [previous EXCEPT ![q] = t]
        BY <2>7 DEF SeededFrom
      <3>3. IsArmed(s) => (previous'[s] # 0 => priceSub[s].armedAt <= previous'[s])
        BY <1>1, <1>5, <2>7, <3>2 DEF PricesRest
      <3> QED BY <1>4, <2>1, <3>1, <3>3
    <2>8. CASE Snapshot(l)
      <3>1. PICK q \in lane[l].fresh, t \in lane[l].merged : SeededFrom(l, q, t)
        BY <2>8 DEF Snapshot
      <3>2. IsArmed(s) /\ q = s => priceSub[s].armedAt <= t
        BY <1>5, <2>8, <3>1 DEF Snapshot, LaneAfterArm
      <3> QED BY <2>7, <3>1, <3>2
    <2>9. CASE FreshSeed(l)
      <3>1. ASSUME known # 0, NEW q \in lane[l].fresh, SeededFrom(l, q, known)
            PROVE  Truthful(s)'
        BY <1>5, <2>7, <3>1
      <3>2. ASSUME Goes(l, [lane[l] EXCEPT !.at = "snapshot", !.merged = {Latest}]),
                   UNCHANGED <<previous, since>>
            PROVE  Truthful(s)'
        <4>1. Becomes(l, "snapshot", lane[l].ready, lane[l].fresh, lane[l].cur, {Latest},
                      lane[l].recorded)
          BY <1>1, <3>2, SnapshotBecomes
        <4>2. \A t \in {Latest} : priceSub[s].armedAt <= t
          BY DEF Truthful
        <4> QED BY <1>4, <1>5, <2>1, <3>2, <4>1, <4>2
      <3> QED BY <2>9, <3>1, <3>2 DEF FreshSeed
    <2>10. CASE Seeded(l) \/ SeedingFails(l)
      <3>1. UNCHANGED previous /\ (Goes(l, Idle) \/ Goes(l, NextReplay))
        BY <2>10 DEF Seeded, SeedingFails
      <3>3. PICK a \in {"idle", "read"} : \E r, f, c, m, d : Becomes(l, a, r, f, c, m, d)
        BY <1>1, <3>1, IdleBecomes, ReplayBecomes
      <3>2. PICK r, f, c, m, d : Becomes(l, a, r, f, c, m, d)
        BY <3>3
      <3> QED BY <1>4, <1>5, <2>1, <3>1, <3>2
    <2> QED BY <1>7, <2>3, <2>4, <2>5, <2>6, <2>8, <2>9, <2>10 DEF Seeding
  <1> QED BY <1>6, <1>7

(* Nor does a step that only forgets prices, deliveries and tasks. *)
LEMMA ForgettingTruthful ==
  ASSUME PricesTyped, AlpacaSessionAssumption, [PricesNext]_pricesVars, NEW s \in PriceSubs,
         Truthful(s), priceSub'[s] = priceSub[s], sending' \subseteq sending,
         known' = known \/ known' = 0, previous'[s] = previous[s] \/ previous'[s] = 0,
         \A l \in Lanes : lane'[l] = lane[l] \/ lane'[l].at \in {"idle", "join", "ack", "read"}
  PROVE  Truthful(s)'
  <1>1. ASSUME IsArmed(s) PROVE AfterArm(s)'
    <2>1. AfterArm(s)
      BY <1>1 DEF Truthful
    <2>2. \A late \in sending : late[1] = s => Crossed(s, late[2])'
      BY <2>1, SendingStands
    <2>3. ASSUME NEW l \in Lanes PROVE LaneAfterArm(l, s)'
      BY <2>1 DEF LaneAfterArm, AfterArm
    <2>4. known' # 0 => priceSub'[s].armedAt <= known'
      BY <2>1 DEF AfterArm
    <2>5. previous'[s] # 0 => priceSub'[s].armedAt <= previous'[s]
      BY <2>1 DEF AfterArm
    <2> QED BY <2>2, <2>3, <2>4, <2>5 DEF AfterArm
  <1> QED BY <1>1, TruthStands

(* A live trade is judged against a price from after the arming. *)
LEMMA LiveTradeTruthful ==
  ASSUME PricesTyped, AlpacaSessionAssumption, [PricesNext]_pricesVars, UpToHeard,
         handleLiveTrade, NEW s \in PriceSubs, Truthful(s)
  PROVE  Truthful(s)'
  <1>1. /\ PricesRest /\ Latest \in Nat /\ Latest > 0 /\ MaxTrades \in Nat
        /\ priceSub[s].armedAt \in Nat /\ previous[s] \in 0..Latest /\ heard \in Nat
    BY Typing, SubTyping DEF PricesRest
  <1>21. PICK t \in 1..Latest : t = heard + 1
    BY <1>1 DEF handleLiveTrade
  <1>2. /\ t \in 1..Latest /\ priceSub' = priceSub /\ lane' = lane
        /\ Latest <= t /\ previous[s] < t
    BY <1>1, <1>21 DEF handleLiveTrade, world, tasks, UpToHeard
  <1>3. priceSub[s].armedAt <= t
    BY <1>1, <1>2 DEF Truthful
  <1>4. /\ known' = known \/ known' = t
        /\ previous'[s] = previous[s] \/ previous'[s] = t
        /\ \A late \in sending' : late \in sending
             \/ (late[2] = t /\ previous[late[1]] # 0 /\ crosses(late[1], previous[late[1]], t))
    <2>1. CASE priceSession = "closing"
      BY <2>1 DEF handleLiveTrade, memory
    <2>2. CASE priceSession # "closing" /\ seeding
      BY <1>21, <2>2 DEF handleLiveTrade
    <2>3. CASE priceSession # "closing" /\ ~ seeding
      <3>1. known' = t /\ \E stored \in BOOLEAN : TradeDecides(t, stored)
        BY <1>21, <2>3 DEF handleLiveTrade
      <3>2. previous'[s] = previous[s] \/ previous'[s] = t
        BY <3>1 DEF TradeDecides
      <3>3. ASSUME NEW late \in sending', late \notin sending
            PROVE  late[2] = t /\ previous[late[1]] # 0 /\ crosses(late[1], previous[late[1]], t)
        <4>1. late \in {<<q, t>> : q \in {w \in watch : previous[w] # 0 /\ crosses(w, previous[w],
                t)}}
          BY <3>1, <3>3 DEF TradeDecides
        <4>2. PICK q \in watch : late = <<q, t>> /\ previous[q] # 0 /\ crosses(q, previous[q], t)
          BY <4>1
        <4> QED BY <4>2
      <3> QED BY <3>1, <3>2, <3>3
    <2> QED BY <2>1, <2>2, <2>3
  <1>5. ASSUME IsArmed(s) PROVE AfterArm(s)'
    <2>1. AfterArm(s)
      BY <1>5 DEF Truthful
    <2>2. ASSUME NEW late \in sending', late[1] = s PROVE Crossed(s, late[2])'
      <3>1. CASE late \in sending
        BY <1>2, <2>1, <2>2, <3>1, SendingStands
      <3>2. CASE late \notin sending
        <4>1. late[2] = t /\ previous[s] # 0 /\ crosses(s, previous[s], t)
          BY <1>4, <2>2, <3>2
        <4>2. previous[s] \in 1..Latest
          BY <1>1, <4>1
        <4>3. PICK u \in 1..t : u > previous[s] /\ Entry(s, u)
          BY <1>2, <4>1, <4>2, EntryBetween
        <4>4. u > priceSub[s].armedAt
          BY <1>1, <1>2, <2>1, <4>1, <4>3 DEF AfterArm
        <4>5. Crossed(s, t)
          BY <4>3, <4>4 DEF Crossed
        <4>6. Crossed(s, t)'
          <5>1. t \in 0..Latest
            BY <1>1, <1>2
          <5>2. priceSub'[s].armedAt = priceSub[s].armedAt
            BY <1>2
          <5> QED BY <4>5, <5>1, <5>2, CrossedStands
        <4> QED BY <4>1, <4>6 DEF Crossed
      <3> QED BY <3>1, <3>2
    <2>3. ASSUME NEW l \in Lanes PROVE LaneAfterArm(l, s)'
      BY <1>2, <2>1 DEF LaneAfterArm, AfterArm
    <2>4. known' # 0 => priceSub'[s].armedAt <= known'
      BY <1>2, <1>3, <1>4, <2>1 DEF AfterArm
    <2>5. previous'[s] # 0 => priceSub'[s].armedAt <= previous'[s]
      BY <1>2, <1>3, <1>4, <2>1 DEF AfterArm
    <2> QED BY <2>2, <2>3, <2>4, <2>5 DEF AfterArm
  <1> QED BY <1>2, <1>5, TruthStands

(* A subscription starts with no price, or with one that is current. *)
LEMMA ArmTruthful ==
  ASSUME PricesTyped, AlpacaSessionAssumption, [PricesNext]_pricesVars, Mild, NewIsUnseen,
         NEW q \in PriceSubs, ArmPrice(q), NEW s \in PriceSubs, Truthful(s)
  PROVE  Truthful(s)'
  <1>1. PricesRest /\ Latest \in Nat /\ MaxTrades \in Nat /\ priceSub[s].trade \in Nat
    BY Typing, SubTyping
  <1>2. UNCHANGED <<known, previous, lane, sending>> /\ Latest' = Latest
    BY SameMarket DEF ArmPrice, memory, tasks
  <1>3. CASE s # q
    <2>1. priceSub'[s] = priceSub[s]
      BY <1>1, <1>3 DEF ArmPrice, PricesRest
    <2> QED BY <1>2, <2>1, ForgettingTruthful
  <1>4. CASE s = q
    <2>1. /\ priceSub'[s].status = "armed" /\ priceSub'[s].armedAt = Latest
          /\ priceSub'[s].trade = priceSub[s].trade /\ Unseen(s)
      BY <1>1, <1>4 DEF ArmPrice, PricesRest, NewIsUnseen
    <2>2. known = 0 \/ known = Latest
      BY DEF ArmPrice, Mild
    <2>3. \A l \in Lanes : s \notin lane[l].ready /\ s \notin lane[l].fresh
      BY <2>1 DEF Unseen
    <2>4. previous[s] = 0 /\ \A late \in sending : late[1] # s
      BY <2>1 DEF Unseen
    <2>5. \A l \in Lanes : LaneAfterArm(l, s)'
      BY <1>2, <2>3 DEF LaneAfterArm
    <2>6. known' # 0 => priceSub'[s].armedAt <= known'
      BY <1>1, <1>2, <2>1, <2>2
    <2>7. AfterArm(s)'
      BY <1>2, <2>4, <2>5, <2>6 DEF AfterArm
    <2>8. priceSub'[s].armedAt <= Latest' /\ priceSub'[s].trade <= Latest'
      BY <1>1, <1>2, <2>1 DEF Truthful
    <2> QED BY <2>1, <2>7, <2>8 DEF Truthful
  <1> QED BY <1>3, <1>4

(* A delivery is for a crossing after the arming. *)
LEMMA DeliveryTruthful ==
  ASSUME PricesTyped, AlpacaSessionAssumption, [PricesNext]_pricesVars,
         NEW q \in PriceSubs, NEW t \in 1..Latest, DeliverPrice(q, t),
         NEW s \in PriceSubs, Truthful(s)
  PROVE  Truthful(s)'
  <1>1. PricesRest /\ Latest \in Nat /\ MaxTrades \in Nat /\ priceSub[s].armedAt \in Nat
    BY Typing, SubTyping
  <1>2. /\ UNCHANGED <<known, previous, lane>> /\ Latest' = Latest
        /\ sending' \subseteq sending /\ <<q, t>> \in sending
    BY SameMarket DEF DeliverPrice, memory, tasks
  <1>3. CASE priceSub'[s] = priceSub[s]
    BY <1>2, <1>3, ForgettingTruthful
  <1>4. CASE priceSub'[s] # priceSub[s]
    <2>1. s = q /\ IsArmed(s) /\ priceSub'[s] = [priceSub[s] EXCEPT !.status = "fired", !.trade = t]
      <3>1. priceSub' = [priceSub EXCEPT ![q] = FiredAt(q, t)]
        BY <1>4 DEF DeliverPrice
      <3>2. s = q /\ priceSub'[s] = FiredAt(s, t)
        BY <1>1, <1>4, <3>1 DEF PricesRest
      <3> QED BY <1>4, <3>2 DEF FiredAt
    <2>2. /\ priceSub'[s].status = "fired" /\ priceSub'[s].trade = t
          /\ priceSub'[s].armedAt = priceSub[s].armedAt
      BY <1>1, <2>1 DEF PricesRest
    <2>3. Crossed(s, t)
      <3>1. \A late \in sending : late[1] = s => Crossed(s, late[2])
        BY <2>1 DEF Truthful, AfterArm
      <3>2. <<q, t>>[1] = s /\ <<q, t>>[2] = t
        BY <2>1
      <3>3. PICK late \in sending : late[1] = s /\ late[2] = t
        BY <1>2, <3>2
      <3> QED BY <3>1, <3>3
    <2>4. t \in 0..Latest
      BY <1>1
    <2>5. Crossed(s, t)'
      BY <2>2, <2>3, <2>4, CrossedStands
    <2>6. \E u \in 1..t : u > priceSub'[s].armedAt /\ Entry(s, u)'
      BY <2>5 DEF Crossed
    <2>7. \E u \in 1..priceSub'[s].trade : u > priceSub'[s].armedAt /\ Entry(s, u)'
      BY <2>2, <2>6
    <2>8. priceSub'[s].armedAt <= Latest' /\ priceSub'[s].trade <= Latest'
      BY <1>1, <1>2, <2>2 DEF Truthful
    <2> QED BY <2>2, <2>7, <2>8 DEF Truthful, IsArmed, Crossed
  <1> QED BY <1>3, <1>4

(* A watch that joins gets a price that is current. *)
LEMMA JoinTruthful ==
  ASSUME PricesTyped, AlpacaSessionAssumption, [PricesNext]_pricesVars, Join,
         NEW s \in PriceSubs, Truthful(s)
  PROVE  Truthful(s)'
  <1>1. PricesRest /\ Latest \in Nat /\ "main" \in Lanes
    BY Typing DEF Lanes
  <1>2. UNCHANGED <<known, sending>> /\ priceSub' = priceSub
    BY DEF Join, world
  <1>3. previous'[s] \in {previous[s], IF known # 0 THEN known ELSE Latest}
    BY DEF Join
  <1>4. /\ lane'["main"].at = "idle"
        /\ \A other \in Lanes : other # "main" => lane'[other] = lane[other]
    BY <1>1 DEF Join, Goes, Idle, Task, PricesRest
  <1>5. ASSUME IsArmed(s) PROVE AfterArm(s)'
    <2>1. AfterArm(s) /\ priceSub[s].armedAt <= Latest
      BY <1>5 DEF Truthful
    <2>2. \A late \in sending : late[1] = s => Crossed(s, late[2])'
      BY <1>2, <2>1, SendingStands
    <2>3. ASSUME NEW l \in Lanes PROVE LaneAfterArm(l, s)'
      BY <1>2, <1>4, <2>1 DEF LaneAfterArm, AfterArm
    <2>4. known' # 0 => priceSub'[s].armedAt <= known'
      BY <1>2, <2>1 DEF AfterArm
    <2>5. previous'[s] # 0 => priceSub'[s].armedAt <= previous'[s]
      BY <1>2, <1>3, <2>1 DEF AfterArm
    <2> QED BY <1>2, <2>2, <2>3, <2>4, <2>5 DEF AfterArm
  <1> QED BY <1>2, <1>5, TruthStands

(* No step wakes a subscription for what was before it. *)
LEMMA TruthfulStays ==
  ASSUME PricesTyped, AlpacaSessionAssumption, Mild, UpToHeard, NewIsUnseen, DecidesLater,
         [PricesNext]_pricesVars, NEW s \in PriceSubs, Truthful(s)
  PROVE  Truthful(s)'
  <1>1. PricesRest /\ "main" \in Lanes /\ "replay" \in Lanes /\ Latest \in Nat
    BY Typing DEF Lanes
  <1>2. CASE \E p \in Price : TradeHappens(p)
    BY <1>2, ForgettingTruthful DEF TradeHappens, memory, tasks
  <1>3. CASE handleLiveTrade
    BY <1>3, LiveTradeTruthful
  <1>4. CASE \E q \in PriceSubs : ArmPrice(q)
    BY <1>4, ArmTruthful
  <1>5. CASE \E q \in PriceSubs : PriceExpires(q)
    <2>1. PICK q \in PriceSubs : PriceExpires(q)
      BY <1>5
    <2>2. UNCHANGED <<known, previous, lane, sending>> /\ Latest' = Latest
      BY <2>1, SameMarket DEF PriceExpires, memory, tasks
    <2>3. CASE s # q
      <3>1. priceSub'[s] = priceSub[s]
        BY <1>1, <2>1, <2>3 DEF PriceExpires, PricesRest
      <3> QED BY <2>2, <3>1, ForgettingTruthful
    <2>4. CASE s = q
      <3>1. /\ priceSub'[s].status = "expired" /\ priceSub'[s].armedAt = priceSub[s].armedAt
            /\ priceSub'[s].trade = priceSub[s].trade
        BY <1>1, <2>1, <2>4 DEF PriceExpires, PricesRest
      <3> QED BY <2>2, <3>1 DEF Truthful, IsArmed
    <2> QED BY <2>3, <2>4
  <1>6. CASE \E q \in PriceSubs : \E t \in 1..Latest : DeliverPrice(q, t)
    BY <1>6, DeliveryTruthful
  <1>7. CASE \E l \in Lanes : Seeding(l) \/ SeedingFails(l)
    BY <1>7, SeedingTruthful
  <1>8. CASE StockDrops \/ Start \/ BeginShutdown \/ UNCHANGED pricesVars
    BY <1>8, ForgettingTruthful
      DEF StockDrops, Start, BeginShutdown, pricesVars, world, memory, tasks
  <1>9. CASE StockReconnects
    <2>1. UNCHANGED <<priceSub, known, previous, sending>>
      BY <1>9 DEF StockReconnects, world
    <2>2. \A l \in Lanes : lane'[l] = lane[l] \/ lane'[l].at \in {"idle", "read"}
      BY <1>1, <1>9 DEF StockReconnects, onReconnected, Goes, NextReplay, Idle, Task, PricesRest
    <2> QED BY <2>1, <2>2, ForgettingTruthful
  <1>10. CASE recheckPriceMembership
    <2>1. UNCHANGED <<priceSub, known, previous, sending>>
      BY <1>10 DEF recheckPriceMembership, world
    <2>2. \A l \in Lanes : lane'[l] = lane[l] \/ lane'[l].at \in {"join", "ack"}
      BY <1>1, <1>10 DEF recheckPriceMembership, Goes, Task, PricesRest
    <2> QED BY <2>1, <2>2, ForgettingTruthful
  <1>11. CASE Join
    BY <1>11, JoinTruthful
  <1>12. CASE Ack
    <2>1. UNCHANGED <<priceSub, known, previous, sending>>
      BY <1>12 DEF Ack, world
    <2>2. \A l \in Lanes : lane'[l] = lane[l] \/ lane'[l].at \in {"read"}
      BY <1>1, <1>12 DEF Ack, Goes, Task, PricesRest
    <2> QED BY <2>1, <2>2, ForgettingTruthful
  <1>13. CASE EndShutdown \/ CrashSession
    <2>1. priceSub' = priceSub /\ Forget
      BY <1>13 DEF EndShutdown, CrashSession, world
    <2>2. \A l \in Lanes : lane'[l].at = "idle"
      BY <2>1 DEF Forget, Idle, Task
    <2> QED BY <2>1, <2>2, ForgettingTruthful DEF Forget
  <1> QED BY <1>2, <1>3, <1>4, <1>5, <1>6, <1>7, <1>8, <1>9, <1>10, <1>11, <1>12, <1>13
          DEF PricesNext

(* What a session has of subscriptions and trades, in every circumstance    *)
(* and in those without a stale subscription, a late snapshot, a lagging    *)
(* stream or a recheck beside a reconnect.                                  *)
PricesIInv ==
  /\ PricesTyped /\ OffIsBlank /\ NewIsUnseen /\ DecidesLater
  /\ Mild => TasksAlone /\ UpToHeard /\ \A s \in PriceSubs : Truthful(s)

(* It holds before the first session. *)
LEMMA PricesInitInv ==
  ASSUME AlpacaSessionAssumption, PricesInit
  PROVE  PricesIInv
  <1>1. PricesTyped
    BY PricesInitTyped
  <1>2. PricesRest /\ Latest \in Nat
    BY <1>1, Typing
  <1>3. \A s \in PriceSubs : priceSub[s].status = "new" /\ priceSub[s].armedAt = 0
                             /\ priceSub[s].trade = 0
    BY DEF PricesInit
  <1>4. \A l \in Lanes : /\ lane[l].at = "idle" /\ lane[l].ready = {} /\ lane[l].fresh = {}
    BY DEF PricesInit, Idle, Task
  <1>5. OffIsBlank /\ NewIsUnseen
    BY <1>4 DEF PricesInit, OffIsBlank, Blank, NewIsUnseen, Unseen
  <1>6. DecidesLater /\ TasksAlone
    BY <1>4 DEF DecidesLater, TasksAlone, Lanes
  <1>7. UpToHeard
    BY DEF PricesInit, UpToHeard
  <1>8. \A s \in PriceSubs : Truthful(s)
    BY <1>2, <1>3 DEF Truthful, IsArmed
  <1> QED BY <1>1, <1>5, <1>6, <1>7, <1>8 DEF PricesIInv

(* It holds of every behaviour of the sessions. *)
LEMMA PricesInductive ==
  ASSUME AlpacaSessionAssumption
  PROVE  PricesSpec => []PricesIInv
  <1>1. PricesIInv /\ [PricesNext]_pricesVars => PricesIInv'
    <2> SUFFICES ASSUME PricesIInv, [PricesNext]_pricesVars PROVE PricesIInv'
      OBVIOUS
    <2>1. PricesTyped /\ OffIsBlank /\ NewIsUnseen /\ DecidesLater
      BY DEF PricesIInv
    <2>2. PricesTyped' /\ OffIsBlank' /\ NewIsUnseen' /\ DecidesLater'
      BY <2>1, PricesStayTyped, OffStaysBlank, UnseenStays, StillDecidesLater
    <2>3. ASSUME Mild'
          PROVE  TasksAlone' /\ UpToHeard' /\ \A s \in PriceSubs : Truthful(s)'
      <3>1. Mild
        BY <2>1, <2>3, MarketGrows DEF Mild
      <3>2. TasksAlone /\ UpToHeard /\ \A s \in PriceSubs : Truthful(s)
        BY <3>1 DEF PricesIInv
      <3> QED BY <2>1, <3>1, <3>2, TasksStayAlone, StaysUpToHeard, TruthfulStays
    <2> QED BY <2>2, <2>3 DEF PricesIInv
  <1> QED BY <1>1, PricesInitInv, PTL DEF PricesSpec

(* No wake is for what was before the subscription.                         *)
LEMMA TruthSuffices ==
  ASSUME PricesIInv, Mild
  PROVE  NoFalsePriceWake
  BY DEF PricesIInv, Truthful, Crossed, NoFalsePriceWake

-----------------------------------------------------------------------------
(* No crossing is lost                                                      *)

(* How far the main task and the replay task are.                           *)
MainAt == lane["main"].at
ReplayAt == lane["replay"].at
Deciding == {"fetch", "decide", "advance", "drain"}
Ending == {"fresh", "snapshot"}
Busy == MainAt \notin {"idle", "join"} \/ ReplayAt # "idle"

(* The symbol is seeding while a task is on its way to an end; what a       *)
(* session remembers comes from a stream it subscribed.                     *)
Orderly ==
  /\ queued = 0
  /\ ReplayAt # "idle" => priceConn = "up" /\ ReplayAt \notin {"join", "ack"}
  /\ seeding <=> Busy
  /\ \/ watch # {} \/ known # 0 \/ pendingCursor # 0
     \/ MainAt \notin {"idle", "ack"} \/ ReplayAt # "idle"
     => streaming
  /\ MainAt = "ack" => watch = {}
  /\ MainAt \in {"join", "ack"} => lane["main"].fresh \cap watch = {}
  /\ MainAt # "idle" => known = 0 \/ known = heard

(* What is merged, and then what is buffered, follows on from the cursor    *)
(* without a hole, up to the last trade that was heard.                     *)
Contiguous(l) ==
  /\ lane[l].at \in {"decide", "advance"} =>
       \E m \in 1..Latest, k \in 0..Latest :
         /\ m <= k /\ pendingCursor <= m /\ (priceSession = "on" => heard = k)
         /\ lane[l].merged = lane[l].cur + 1 .. m /\ priceBuffer = m + 1 .. k
  /\ lane[l].at = "drain" =>
       \E k \in 0..Latest :
         /\ lane[l].cur <= k /\ pendingCursor <= lane[l].cur
         /\ (priceSession = "on" => heard = k)
         /\ priceBuffer = lane[l].cur + 1 .. k

LaneHolds(l) ==
  /\ lane[l].recorded
  /\ lane[l].at = "read" => lane[l].fresh = {} /\ lane[l].ready = watch
  /\ lane[l].at \in Deciding => lane[l].ready \cup lane[l].fresh = watch /\ lane[l].cur = persisted
  /\ lane[l].at \in Ending => lane[l].fresh \subseteq watch
  /\ lane[l].at = "snapshot" => lane[l].merged = {Latest} /\ known = 0
  /\ Contiguous(l)

(* The cursor covers an armed subscription whenever it will have to.        *)
Early(s) == persisted > priceSub[s].armedAt

Kept(s) ==
  /\ s \notin watch => previous[s] = 0
  /\ s \in watch /\ (priceConn = "down" \/ ReplayAt # "idle") => Early(s)
  /\ s \in watch /\ priceSession = "closing" => Early(s) \/ pendingCursor > priceSub[s].armedAt
  /\ since[s] # 0 /\ s \notin watch =>
       Early(s) /\ ~ streaming /\ (MainAt = "ack" => s \in lane["main"].fresh)
  /\ since[s] # 0 /\ s \in watch /\ MainAt = "read" => Early(s)
  /\ MainAt \in Deciding \cup Ending /\ s \in lane["main"].fresh => since[s] = 0 /\ previous[s] = 0
  /\ s \notin lane["replay"].fresh
  /\ priceSession = "on" /\ s \notin watch => known = 0 \/ (priceConn = "up" /\ known = heard)

(* Every crossing up to trade k is being delivered. *)
Sent(s, k) == \A t \in 1..k : t > since[s] /\ Entry(s, t) => <<s, t>> \in sending
HasPrice(s) == previous[s] # 0 /\ since[s] # 0

(* Up to the cursor and up to the price a trade is judged against, every    *)
(* crossing is being delivered.                                             *)
Delivered(s) ==
  /\ \A late \in sending : late[1] = s => Entry(s, late[2])
  /\ since[s] # 0 => Sent(s, persisted)
  /\ since[s] # 0 /\ s \in watch => Sent(s, previous[s])

(* The price a trade is judged against is the one of the trade before it. *)
Judged(s) ==
  /\ s \in watch /\ ~ Busy => HasPrice(s) /\ (priceSession = "on" => previous[s] = heard)
  /\ s \in watch /\ ReplayAt # "idle" => HasPrice(s)
  /\ s \in watch /\ MainAt \in {"read", "fetch"} => previous[s] = 0
  /\ s \in watch /\ previous[s] # 0 => pendingCursor <= previous[s] /\ persisted <= previous[s]

(* The same, of the trades a task has decided on. *)
Seeds(l, s) ==
  /\ s \in lane[l].ready /\ lane[l].at \in Deciding => since[s] # 0
  /\ s \in lane[l].ready /\ lane[l].at = "advance" =>
       /\ previous[s] \in lane[l].merged
       /\ \A t \in lane[l].merged : t <= previous[s] /\ ~ Entry(s, t)
  /\ s \in lane[l].ready /\ lane[l].at = "drain" => previous[s] = lane[l].cur
  /\ s \in watch /\ lane[l].at \in Ending =>
       s \in lane[l].fresh \/ (HasPrice(s) /\ (priceSession = "on" => previous[s] = heard))

Sound(s) ==
  /\ IsArmed(s) => Kept(s) /\ Delivered(s) /\ Judged(s) /\ \A l \in Lanes : Seeds(l, s)
  /\ priceSub[s].status = "fired" => Entry(s, priceSub[s].trade)

CalmInv == Orderly /\ (\A l \in Lanes : LaneHolds(l)) /\ \A s \in PriceSubs : Sound(s)

(* What holds in every mild circumstance, in the calmest. *)
Steady ==
  /\ circumstances = {} /\ PricesTyped /\ OffIsBlank /\ NewIsUnseen /\ DecidesLater
  /\ TasksAlone /\ UpToHeard /\ \A s \in PriceSubs : Truthful(s)

(* The types, in the form the arithmetic below needs. *)
LEMMA Numbers ==
  ASSUME PricesTyped, AlpacaSessionAssumption
  PROVE  /\ PricesRest /\ PricesShape /\ "main" \in Lanes /\ "replay" \in Lanes
         /\ Latest \in Nat /\ Latest > 0 /\ persisted \in Nat /\ pendingCursor \in Nat
         /\ known \in Nat /\ heard \in Nat
         /\ persisted <= Latest /\ pendingCursor <= Latest /\ known <= Latest /\ heard <= Latest
  BY Typing DEF PricesRest, PricesTyped, Lanes

(* While a task runs the other is idle. *)
LEMMA OneAtATime ==
  ASSUME TasksAlone, NEW l \in Lanes, lane[l].at # "idle"
  PROVE  \A o \in Lanes : o # l => lane[o].at = "idle"
  BY DEF TasksAlone, Lanes

(* A task on its way to an end runs while the stream does, and holds the    *)
(* trades back.                                                             *)
LEMMA TaskIsLive ==
  ASSUME Steady, AlpacaSessionAssumption, Orderly, NEW l \in Lanes,
         lane[l].at \notin {"idle", "join", "ack"}
  PROVE  /\ priceConn = "up" /\ streaming /\ seeding
         /\ Prompt => heard = Latest
         /\ lane[l].at \in Ending => heard = Latest
  <1>1. priceConn = "up" /\ streaming /\ seeding
    BY DEF Steady, TasksAlone, Orderly, Lanes, Busy, MainAt, ReplayAt
  <1>2. lane[l].at \in Ending => heard = Latest
    BY <1>1 DEF Steady, UpToHeard, LaneUpToHeard, Ending
  <1> QED BY <1>1, <1>2 DEF Prompt, Steady

(* A crossing in a market stays one when the symbol trades. *)
LEMMA SentStands ==
  ASSUME PricesTyped, AlpacaSessionAssumption, [PricesNext]_pricesVars,
         NEW s \in PriceSubs, NEW k \in 0..Latest, Sent(s, k), since'[s] = since[s],
         \A late \in sending : late[1] = s /\ late[2] <= k => late \in sending'
  PROVE  Sent(s, k)'
  <1>1. Latest \in Nat
    BY Typing
  <1>2. ASSUME NEW t \in 1..k, t > since'[s], Entry(s, t)' PROVE <<s, t>> \in sending'
    <2>1. t \in 1..Latest /\ t <= k
      BY <1>1
    <2>2. Entry(s, t)
      BY <1>2, <2>1, EntryStands
    <2>3. <<s, t>> \in sending
      BY <1>2, <2>2 DEF Sent
    <2>4. <<s, t>>[1] = s /\ <<s, t>>[2] = t
      OBVIOUS
    <2> QED BY <2>1, <2>3, <2>4
  <1> QED BY <1>2 DEF Sent

(* Up to its first price a subscription is owed nothing. *)
LEMMA SentSince ==
  ASSUME NEW s \in PriceSubs, NEW k \in Nat, NEW b \in Nat, since[s] = b, k <= b
  PROVE  Sent(s, k)
  BY DEF Sent

(* What is being delivered still is when the step sends nothing else. *)
LEMMA DeliveredStands ==
  ASSUME PricesTyped, AlpacaSessionAssumption, [PricesNext]_pricesVars, NEW s \in PriceSubs,
         Delivered(s), since'[s] = since[s], s \in watch' => s \in watch,
         persisted' = persisted, previous'[s] = previous[s],
         \A late \in sending \cup sending' : late[1] = s => late \in sending /\ late \in sending'
  PROVE  Delivered(s)'
  <1>1. PICK k \in 0..Latest, p \in 0..Latest : k = persisted /\ p = previous[s]
    BY Typing, SubTyping DEF PricesRest
  <1>2. ASSUME NEW late \in sending', late[1] = s PROVE Entry(s, late[2])'
    <2>1. Entry(s, late[2]) /\ late[2] \in 1..Latest
      BY <1>2, Typing DEF Delivered, PricesRest
    <2> QED BY <2>1, EntryStands
  <1>3. since'[s] # 0 => Sent(s, k)'
    BY <1>1, SentStands DEF Delivered
  <1>4. since'[s] # 0 /\ s \in watch' => Sent(s, p)'
    BY <1>1, SentStands DEF Delivered
  <1>5. (since[s] # 0)' => Sent(s, persisted)'
    BY <1>1, <1>3 DEF Sent
  <1>6. (since[s] # 0 /\ s \in watch)' => Sent(s, previous[s])'
    BY <1>1, <1>4 DEF Sent
  <1> QED BY <1>2, <1>5, <1>6 DEF Delivered

(* A subscription the step neither arms nor fires is sound if what the      *)
(* session has of it is.                                                    *)
LEMMA SoundStands ==
  ASSUME PricesTyped, AlpacaSessionAssumption, [PricesNext]_pricesVars, NEW s \in PriceSubs,
         Truthful(s), Sound(s), priceSub'[s] = priceSub[s],
         IsArmed(s) => Kept(s)' /\ Delivered(s)' /\ Judged(s)' /\ \A l \in Lanes : Seeds(l, s)'
  PROVE  Sound(s)'
  <1>1. PICK t : t = priceSub[s].trade
    OBVIOUS
  <1>2. priceSub[s].status = "fired" => t \in 1..Latest /\ Entry(s, t)
    <2>1. t \in Nat /\ Latest \in Nat /\ t <= Latest
      BY <1>1, Typing, SubTyping DEF Truthful
    <2> QED BY <1>1, <2>1 DEF Sound, Entry
  <1>3. priceSub[s].status = "fired" => Entry(s, t)'
    BY <1>2, EntryStands
  <1>4. priceSub'[s].trade = t
    BY <1>1
  <1>5. (priceSub[s].status = "fired" => Entry(s, priceSub[s].trade))'
    <2>1. (Entry(s, priceSub[s].trade) <=> Entry(s, t))'
      BY <1>4 DEF Entry, Past
    <2> QED BY <1>3, <2>1
  <1>6. (IsArmed(s) => Kept(s) /\ Delivered(s) /\ Judged(s) /\ \A l \in Lanes : Seeds(l, s))'
    BY DEF IsArmed
  <1> QED BY <1>5, <1>6 DEF Sound

(* What a task decides on and what it has decided stays what it is. *)
LEMMA SeedsStand ==
  ASSUME PricesTyped, AlpacaSessionAssumption, [PricesNext]_pricesVars, NEW s \in PriceSubs,
         NEW l \in Lanes, Seeds(l, s), lane'[l] = lane[l], since'[s] = since[s],
         previous'[s] = previous[s],
         s \in watch' /\ lane[l].at \in Ending =>
           s \in watch /\ (priceSession' = "on" => priceSession = "on" /\ heard' = heard)
  PROVE  Seeds(l, s)'
  <1>1. lane[l].merged \subseteq 1..Latest
    BY Typing, LaneTyping
  <1>2. \A t \in lane[l].merged : Entry(s, t)' <=> Entry(s, t)
    BY <1>1, EntryStands
  <1> QED BY <1>2 DEF Seeds, HasPrice

(* A trade happens. *)
LEMMA TradeCalm ==
  ASSUME Steady, AlpacaSessionAssumption, CalmInv, [PricesNext]_pricesVars,
         NEW p \in Price, TradeHappens(p)
  PROVE  CalmInv'
  <1>1. /\ PricesTyped /\ PricesRest /\ Latest \in Nat /\ Latest \in 1..Latest'
        /\ "main" \in Lanes /\ "replay" \in Lanes
    BY Numbers, MarketGrows DEF Steady
  <1>2. /\ UNCHANGED <<circumstances, priceSub, persisted, priceSession, sessions, priceConn, drops,
                       streaming, heard, seeding, priceBuffer, known, pendingCursor, watch,
                               previous,
                       sending, lane, queued, since>>
        /\ \A l \in Lanes : lane[l].at \notin Ending
    BY DEF TradeHappens, run, connection, memory, tasks, Steady, Ending
  <1>3. Orderly'
    BY <1>2 DEF CalmInv, Orderly, Busy, MainAt, ReplayAt
  <1>4. ASSUME NEW l \in Lanes PROVE LaneHolds(l)'
    <2>1. 1..Latest \subseteq 1..Latest' /\ 0..Latest \subseteq 0..Latest'
      BY MarketGrows DEF Steady
    <2>2. LaneHolds(l) /\ lane[l].at \notin Ending
      BY <1>2 DEF CalmInv
    <2>3. Contiguous(l)'
      BY <1>2, <2>1, <2>2 DEF LaneHolds, Contiguous
    <2> QED BY <1>2, <2>2, <2>3 DEF LaneHolds, Ending
  <1>5. ASSUME NEW s \in PriceSubs PROVE Sound(s)'
    <2>1. Sound(s) /\ Truthful(s)
      BY DEF CalmInv, Steady
    <2>2. ASSUME IsArmed(s)
          PROVE  Kept(s)' /\ Delivered(s)' /\ Judged(s)' /\ \A l \in Lanes : Seeds(l, s)'
      <3>1. Kept(s) /\ Delivered(s) /\ Judged(s) /\ \A l \in Lanes : Seeds(l, s)
        BY <2>1, <2>2 DEF Sound
      <3>2. Kept(s)'
        BY <1>2, <3>1 DEF Kept, Early, MainAt, ReplayAt
      <3>3. Delivered(s)'
        BY <1>1, <1>2, <3>1, DeliveredStands
      <3>4. Judged(s)'
        BY <1>2, <3>1 DEF Judged, Busy, MainAt, ReplayAt, HasPrice
      <3>5. \A l \in Lanes : Seeds(l, s)'
        BY <1>1, <1>2, <3>1, SeedsStand
      <3> QED BY <3>2, <3>3, <3>4, <3>5
    <2> QED BY <1>1, <1>2, <2>1, <2>2, SoundStands
  <1> QED BY <1>3, <1>4, <1>5 DEF CalmInv

(* A task that rests keeps what it holds. *)
LEMMA LaneStands ==
  ASSUME Steady, AlpacaSessionAssumption, NEW l \in Lanes, LaneHolds(l),
         UNCHANGED <<market, persisted, priceBuffer, known, pendingCursor, watch>>,
         lane'[l] = lane[l],
         priceSession' = "on" => priceSession = "on" /\ heard' = heard
  PROVE  LaneHolds(l)'
  <1>1. Latest' = Latest
    BY SameMarket
  <1>2. Contiguous(l)'
    BY <1>1 DEF LaneHolds, Contiguous
  <1> QED BY <1>1, <1>2 DEF LaneHolds

(* A step that only moves a subscription on or the connection. *)
LEMMA QuietStep ==
  ASSUME Steady, AlpacaSessionAssumption, CalmInv, [PricesNext]_pricesVars,
         UNCHANGED <<market, persisted, memory, tasks, since>>,
         priceSession' = "on" => priceSession = "on" /\ heard' = heard,
         Orderly',
         \A s \in PriceSubs :
           \/ /\ priceSub'[s] = priceSub[s]
              /\ IsArmed(s) =>
                   /\ Kept(s)' /\ Judged(s)'
                   /\ \A late \in sending \cup sending' :
                        late[1] = s => late \in sending /\ late \in sending'
           \/ Sound(s)'
  PROVE  CalmInv'
  <1>1. PricesTyped /\ \A s \in PriceSubs : Truthful(s)
    BY DEF Steady
  <1>2. UNCHANGED <<market, persisted, seeding, priceBuffer, known, pendingCursor, watch, previous,
                    lane, since>>
    BY DEF memory, tasks
  <1>3. \A l \in Lanes : LaneHolds(l)'
    BY <1>2, LaneStands DEF CalmInv
  <1>4. ASSUME NEW s \in PriceSubs PROVE Sound(s)'
    <2>1. CASE Sound(s)'
      BY <2>1
    <2>2. CASE ~ Sound(s)'
      <3>1. ASSUME IsArmed(s) PROVE Delivered(s)' /\ \A l \in Lanes : Seeds(l, s)'
        <4>1. Delivered(s) /\ \A l \in Lanes : Seeds(l, s)
          BY <3>1 DEF CalmInv, Sound
        <4>2. \A late \in sending \cup sending' :
                late[1] = s => late \in sending /\ late \in sending'
          BY <2>2, <3>1
        <4>3. Delivered(s)'
          BY <1>1, <1>2, <4>1, <4>2, DeliveredStands
        <4>4. \A l \in Lanes : Seeds(l, s)'
          BY <1>1, <1>2, <4>1, SeedsStand
        <4> QED BY <4>3, <4>4
      <3> QED BY <1>1, <2>2, <3>1, SoundStands DEF CalmInv
    <2> QED BY <2>1, <2>2
  <1> QED BY <1>3, <1>4 DEF CalmInv

(* A new subscription is armed with a current price, or none; or one expires. *)
LEMMA ArmCalm ==
  ASSUME Steady, AlpacaSessionAssumption, CalmInv, [PricesNext]_pricesVars,
         NEW q \in PriceSubs, ArmPrice(q) \/ PriceExpires(q)
  PROVE  CalmInv'
  <1>1. /\ PricesTyped /\ PricesRest /\ Latest \in Nat /\ persisted \in Nat
        /\ "main" \in Lanes /\ "replay" \in Lanes
    BY Numbers DEF Steady
  <1>2. /\ UNCHANGED <<market, persisted, memory, tasks, since, priceSession, heard, streaming,
                       priceConn, sending>>
        /\ UNCHANGED <<seeding, priceBuffer, known, pendingCursor, watch, previous, lane, queued>>
    BY DEF ArmPrice, PriceExpires, run, connection, memory, tasks
  <1>3. Orderly'
    BY <1>2 DEF CalmInv, Orderly, Busy, MainAt, ReplayAt
  <1>4. ASSUME NEW s \in PriceSubs, s # q PROVE priceSub'[s] = priceSub[s]
    BY <1>1, <1>4 DEF ArmPrice, PriceExpires, PricesRest
  <1>5. ASSUME NEW s \in PriceSubs, s # q, IsArmed(s) PROVE Kept(s)' /\ Judged(s)'
    <2>1. Kept(s) /\ Judged(s)
      BY <1>5 DEF CalmInv, Sound
    <2>2. priceSub'[s] = priceSub[s]
      BY <1>4, <1>5
    <2>3. Kept(s)'
      BY <1>2, <2>1, <2>2 DEF Kept, Early, MainAt, ReplayAt
    <2> QED BY <1>2, <2>1, <2>3 DEF Judged, Busy, MainAt, ReplayAt, HasPrice
  <1>6. CASE PriceExpires(q)
    <2>1. priceSub'[q].status = "expired"
      BY <1>1, <1>6 DEF PriceExpires, PricesRest
    <2>2. Sound(q)'
      BY <2>1 DEF Sound, IsArmed
    <2> QED BY <1>2, <1>3, <1>4, <1>5, <2>2, QuietStep
  <1>7. CASE ArmPrice(q)
    <2>1. priceSub[q].status = "new" /\ priceSub'[q].status = "armed"
      BY <1>1, <1>7 DEF ArmPrice, PricesRest
    <2>2. Unseen(q)
      BY <2>1 DEF Steady, NewIsUnseen
    <2>3. known = 0 \/ (priceConn = "up" /\ known = heard)
      <3>1. known = 0 \/ (priceConn = "up" /\ known = Latest)
        BY <1>7 DEF ArmPrice, Steady
      <3>2. known # 0 => streaming
        BY DEF CalmInv, Orderly
      <3>3. priceConn = "up" /\ streaming => known <= heard /\ heard <= Latest /\ heard \in Nat
        BY Numbers DEF Steady, UpToHeard
      <3> QED BY <1>1, <3>1, <3>2, <3>3
    <2>4. Kept(q)'
      BY <1>1, <1>2, <2>2, <2>3 DEF Kept, Early, Unseen, MainAt, ReplayAt
    <2>5. Delivered(q)' /\ Judged(q)'
      BY <1>2, <2>2 DEF Delivered, Judged, Unseen
    <2>6. \A l \in Lanes : Seeds(l, q)'
      BY <1>2, <2>2 DEF Seeds, Unseen
    <2>7. Sound(q)'
      BY <2>1, <2>4, <2>5, <2>6 DEF Sound
    <2> QED BY <1>2, <1>3, <1>4, <1>5, <2>7, QuietStep
  <1> QED BY <1>6, <1>7

(* A delivery fires for the trade that crossed. *)
LEMMA DeliveryCalm ==
  ASSUME Steady, AlpacaSessionAssumption, CalmInv, [PricesNext]_pricesVars,
         NEW q \in PriceSubs, NEW t \in 1..Latest, DeliverPrice(q, t)
  PROVE  CalmInv'
  <1>1. /\ PricesTyped /\ PricesRest /\ Latest \in Nat /\ persisted \in Nat
        /\ "main" \in Lanes /\ "replay" \in Lanes
    BY Numbers DEF Steady
  <1>2. /\ UNCHANGED <<market, persisted, memory, tasks, since, priceSession, heard, streaming,
                       priceConn>>
        /\ UNCHANGED <<seeding, priceBuffer, known, pendingCursor, watch, previous, lane, queued>>
    BY DEF DeliverPrice, run, connection, memory, tasks
  <1>3. Orderly'
    BY <1>2 DEF CalmInv, Orderly, Busy, MainAt, ReplayAt
  <1>4. <<q, t>> \in sending /\ sending' = sending \ {<<q, t>>}
        /\ priceSub' = [priceSub EXCEPT ![q] = FiredAt(q, t)]
    BY DEF DeliverPrice, Steady
  <1>5. ASSUME NEW s \in PriceSubs, s # q \/ ~ IsArmed(q)
        PROVE  priceSub'[s] = priceSub[s]
    BY <1>1, <1>4, <1>5 DEF FiredAt, PricesRest
  <1>6. ASSUME NEW s \in PriceSubs, s # q, IsArmed(s)
        PROVE  /\ Kept(s)' /\ Judged(s)'
               /\ \A late \in sending \cup sending' :
                    late[1] = s => late \in sending /\ late \in sending'
    <2>1. Kept(s) /\ Judged(s)
      BY <1>6 DEF CalmInv, Sound
    <2>2. priceSub'[s] = priceSub[s]
      BY <1>5, <1>6
    <2>3. Kept(s)'
      BY <1>2, <2>1, <2>2 DEF Kept, Early, MainAt, ReplayAt
    <2>4. <<q, t>>[1] = q
      OBVIOUS
    <2> QED BY <1>2, <1>4, <1>6, <2>1, <2>3, <2>4 DEF Judged, Busy, MainAt, ReplayAt, HasPrice
  <1>7. IsArmed(q) => Sound(q)'
    <2> SUFFICES ASSUME IsArmed(q) PROVE Sound(q)'
      OBVIOUS
    <2>1. priceSub'[q].status = "fired" /\ priceSub'[q].trade = t
      BY <1>1, <1>4 DEF FiredAt, PricesRest
    <2>2. Entry(q, t)
      <3>1. \A late \in sending : late[1] = q => Entry(q, late[2])
        BY DEF CalmInv, Sound, Delivered
      <3>2. <<q, t>>[1] = q /\ <<q, t>>[2] = t
        OBVIOUS
      <3>3. PICK late \in sending : late[1] = q /\ late[2] = t
        BY <1>4, <3>2
      <3> QED BY <3>1, <3>3
    <2>3. Entry(q, t)'
      BY <1>1, <2>2, EntryStands
    <2>4. (Entry(q, priceSub[q].trade) <=> Entry(q, t))'
      BY <2>1 DEF Entry, Past
    <2> QED BY <2>1, <2>3, <2>4 DEF Sound, IsArmed
  <1>8. \A s \in PriceSubs : IsArmed(s) => s # q \/ Sound(s)'
    BY <1>7
  <1>9. ~ IsArmed(q) => priceSub'[q] = priceSub[q]
    BY <1>5
  <1> QED BY <1>2, <1>3, <1>5, <1>6, <1>7, <1>9, QuietStep

(* The connection drops, or a session starts or begins to close. *)
LEMMA ConnectionCalm ==
  ASSUME Steady, AlpacaSessionAssumption, CalmInv, [PricesNext]_pricesVars,
         StockDrops \/ BeginShutdown \/ Start \/ UNCHANGED pricesVars
  PROVE  CalmInv'
  <1>1. /\ PricesTyped /\ PricesRest /\ PricesShape /\ Latest \in Nat /\ persisted \in Nat
        /\ pendingCursor \in Nat /\ "main" \in Lanes /\ "replay" \in Lanes
    BY Numbers DEF Steady
  <1>2. /\ UNCHANGED <<market, persisted, memory, tasks, since, streaming, sending, priceSub>>
        /\ UNCHANGED <<seeding, priceBuffer, known, pendingCursor, watch, previous, lane, queued>>
    BY DEF StockDrops, BeginShutdown, Start, pricesVars, run, connection, memory, tasks, world
  <1>3. /\ priceSession' = "on" => (priceSession = "on" /\ heard' = heard) \/ Start
        /\ heard' = heard \/ Start
    BY DEF StockDrops, BeginShutdown, Start, pricesVars, run, connection
  <1>4. CASE StockDrops
    <2>1. /\ priceSession' = priceSession /\ heard' = heard /\ priceConn = "up" /\
                priceConn' = "down"
          /\ MainAt = "idle" /\ ReplayAt = "idle"
          /\ \A s \in watch : IsArmed(s) => Early(s)
          /\ \A s \in PriceSubs : IsArmed(s) => s \in watch
      BY <1>4 DEF StockDrops, Steady, MainAt, ReplayAt, Covered, Early, run
    <2>2. Orderly'
      BY <1>2, <2>1 DEF CalmInv, Orderly, Busy, MainAt, ReplayAt
    <2>3. ASSUME NEW s \in PriceSubs, IsArmed(s) PROVE Kept(s)' /\ Judged(s)'
      <3>1. Kept(s) /\ Judged(s) /\ s \in watch /\ Early(s)
        BY <2>1, <2>3 DEF CalmInv, Sound
      <3>2. Early(s)'
        BY <1>2, <3>1 DEF Early
      <3>3. Kept(s)'
        BY <1>2, <2>1, <3>1, <3>2 DEF Kept, MainAt, ReplayAt
      <3> QED BY <1>2, <2>1, <3>1, <3>3 DEF Judged, Busy, MainAt, ReplayAt, HasPrice
    <2> QED BY <1>2, <2>1, <2>2, <2>3, QuietStep
  <1>5. CASE BeginShutdown
    <2>1. /\ priceSession = "on" /\ priceSession' = "closing" /\ heard' = heard
          /\ priceConn' = priceConn /\ MainAt = "idle"
          /\ \A s \in watch : IsArmed(s) => Early(s) \/ pendingCursor > priceSub[s].armedAt
      <3>1. Max({persisted, pendingCursor}) \in {persisted, pendingCursor}
        BY <1>1, LargerOf
      <3> QED BY <1>5, <3>1 DEF BeginShutdown, Steady, MainAt, Covered, Early, connection
    <2>2. Orderly'
      BY <1>2, <2>1 DEF CalmInv, Orderly, Busy, MainAt, ReplayAt
    <2>3. ASSUME NEW s \in PriceSubs, IsArmed(s) PROVE Kept(s)' /\ Judged(s)'
      <3>1. Kept(s) /\ Judged(s)
        BY <2>3 DEF CalmInv, Sound
      <3>2. Kept(s)'
        BY <1>2, <2>1, <2>3, <3>1 DEF Kept, MainAt, ReplayAt, Early
      <3> QED BY <1>2, <2>1, <3>1, <3>2 DEF Judged, Busy, MainAt, ReplayAt, HasPrice
    <2> QED BY <1>2, <2>1, <2>2, <2>3, QuietStep
  <1>6. CASE Start
    <2>1. /\ priceSession = "off" /\ priceSession' = "on" /\ priceConn' = "up"
          /\ watch = {} /\ known = 0 /\ pendingCursor = 0 /\ sending = {} /\ ~ seeding
          /\ \A s \in PriceSubs : previous[s] = 0
          /\ \A l \in Lanes : lane[l].at = "idle"
      BY <1>1, <1>6 DEF Start, Steady, OffIsBlank, Blank, PricesShape
    <2>2. Orderly'
      BY <1>1, <1>2, <2>1 DEF CalmInv, Orderly, Busy, MainAt, ReplayAt
    <2>3. \A l \in Lanes : LaneHolds(l)'
      BY <1>2, <2>1 DEF CalmInv, LaneHolds, Contiguous, Deciding, Ending
    <2>4. ASSUME NEW s \in PriceSubs PROVE Sound(s)'
      <3>1. ASSUME IsArmed(s)
            PROVE  Kept(s)' /\ Delivered(s)' /\ Judged(s)' /\ \A l \in Lanes : Seeds(l, s)'
        <4>1. Kept(s) /\ Delivered(s) /\ Judged(s)
          BY <3>1 DEF CalmInv, Sound
        <4>2. Kept(s)'
          BY <1>1, <1>2, <2>1, <4>1 DEF Kept, MainAt, ReplayAt, Early, Deciding, Ending
        <4>3. Delivered(s)'
          BY <1>1, <1>2, <4>1, DeliveredStands
        <4>4. Judged(s)'
          BY <1>1, <1>2, <2>1 DEF Judged
        <4>5. \A l \in Lanes : Seeds(l, s)'
          BY <1>2, <2>1 DEF Seeds, Deciding, Ending
        <4> QED BY <4>2, <4>3, <4>4, <4>5
      <3> QED BY <1>1, <1>2, <3>1, SoundStands DEF CalmInv, Steady
    <2> QED BY <2>2, <2>3, <2>4 DEF CalmInv
  <1>7. CASE UNCHANGED pricesVars
    <2>1. UNCHANGED <<priceSession, priceConn, heard>>
      BY <1>7 DEF pricesVars, run, connection
    <2>2. Orderly'
      BY <1>2, <2>1 DEF CalmInv, Orderly, Busy, MainAt, ReplayAt
    <2>3. ASSUME NEW s \in PriceSubs, IsArmed(s) PROVE Kept(s)' /\ Judged(s)'
      <3>1. Kept(s) /\ Judged(s)
        BY <2>3 DEF CalmInv, Sound
      <3>2. Kept(s)'
        BY <1>2, <2>1, <3>1 DEF Kept, MainAt, ReplayAt, Early
      <3> QED BY <1>2, <2>1, <3>1, <3>2 DEF Judged, Busy, MainAt, ReplayAt, HasPrice
    <2> QED BY <1>2, <2>1, <2>2, <2>3, QuietStep
  <1> QED BY <1>4, <1>5, <1>6, <1>7

(* A reconnect: every watch has a cursor to be replayed from. *)
LEMMA ReconnectCalm ==
  ASSUME Steady, AlpacaSessionAssumption, CalmInv, [PricesNext]_pricesVars, StockReconnects
  PROVE  CalmInv'
  <1>1. /\ PricesTyped /\ PricesRest /\ PricesShape /\ Latest \in Nat /\ persisted \in Nat
        /\ pendingCursor \in Nat /\ "main" \in Lanes /\ "replay" \in Lanes
    BY Numbers DEF Steady
  <1>2. /\ UNCHANGED <<market, priceSub, persisted, priceSession, streaming, priceBuffer, known,
                       pendingCursor, watch, previous, sending, since>>
        /\ priceSession # "off" /\ priceConn = "down" /\ priceConn' = "up" /\ heard' = Latest
    BY DEF StockReconnects, world, run
  <1>3. /\ MainAt = "idle" /\ ReplayAt = "idle" /\ ~ seeding /\ ~ Busy
        /\ \A l \in Lanes : lane[l].at = "idle"
    BY <1>2 DEF Steady, TasksAlone, CalmInv, Orderly, Busy, MainAt, ReplayAt, Lanes
  <1>4. \/ lane' = lane /\ seeding' = seeding /\ (priceSession = "closing" \/ watch = {})
        \/ /\ priceSession = "on" /\ watch # {} /\ seeding' = TRUE
           /\ Becomes("replay", "read", watch, {}, 0, {}, TRUE)
        \/ /\ watch = {} /\ seeding' = seeding
           /\ Becomes("replay", "idle", {}, {}, 0, {}, TRUE)
    <2>1. CASE priceSession = "on"
      <3>1. /\ seeding' = (seeding \/ watch # {})
            /\ Goes("replay", IF watch # {} THEN NextReplay ELSE Idle)
        BY <1>3, <2>1 DEF StockReconnects, onReconnected, ReplayAt
      <3>2. CASE watch # {}
        <4>1. Goes("replay", NextReplay) /\ seeding' = TRUE
          BY <3>1, <3>2
        <4> QED BY <1>1, <2>1, <3>2, <4>1, ReplayBecomes
      <3>3. CASE watch = {}
        <4>1. Goes("replay", Idle) /\ seeding' = seeding
          BY <1>1, <3>1, <3>3 DEF PricesRest
        <4> QED BY <1>1, <3>3, <4>1, IdleBecomes
      <3> QED BY <3>2, <3>3
    <2>2. CASE priceSession # "on"
      BY <1>1, <1>2, <2>2 DEF StockReconnects, PricesRest
    <2> QED BY <2>1, <2>2
  <1>5. queued' = queued
    BY <1>3 DEF StockReconnects, onReconnected, ReplayAt
  <1>6. Orderly'
    BY <1>1, <1>2, <1>3, <1>4, <1>5
      DEF CalmInv, Orderly, Busy, MainAt, ReplayAt, Becomes
  <1>7. ASSUME NEW l \in Lanes PROVE LaneHolds(l)'
    <2>1. lane'[l].at \notin Deciding \cup Ending /\ LaneHolds(l)
      BY <1>3, <1>4 DEF Becomes, Deciding, Ending, CalmInv
    <2>2. Contiguous(l)'
      BY <2>1 DEF Contiguous, Deciding
    <2> QED BY <1>2, <1>3, <1>4, <2>1, <2>2 DEF LaneHolds, Becomes, Ending
  <1>8. ASSUME NEW s \in PriceSubs PROVE Sound(s)'
    <2>1. ASSUME IsArmed(s)
          PROVE  Kept(s)' /\ Delivered(s)' /\ Judged(s)' /\ \A l \in Lanes : Seeds(l, s)'
      <3>1. Kept(s) /\ Delivered(s) /\ Judged(s)
        BY <2>1 DEF CalmInv, Sound
      <3>2. Kept(s)'
        BY <1>1, <1>2, <1>3, <1>4, <3>1
          DEF Kept, MainAt, ReplayAt, Early, Deciding, Ending, Becomes
      <3>3. Delivered(s)'
        BY <1>1, <1>2, <3>1, DeliveredStands
      <3>4. Judged(s)'
        BY <1>1, <1>2, <1>3, <1>4, <3>1
          DEF Judged, HasPrice, Busy, MainAt, ReplayAt, Becomes
      <3>5. \A l \in Lanes : Seeds(l, s)'
        BY <1>3, <1>4 DEF Seeds, Deciding, Ending, Becomes
      <3> QED BY <3>2, <3>3, <3>4, <3>5
    <2> QED BY <1>1, <1>2, <2>1, SoundStands DEF CalmInv, Steady
  <1> QED BY <1>6, <1>7, <1>8 DEF CalmInv

(* The recheck: a watch that is new has not been seeded, or the cursor covers it. *)
LEMMA MembershipCalm ==
  ASSUME Steady, AlpacaSessionAssumption, CalmInv, [PricesNext]_pricesVars,
         recheckPriceMembership
  PROVE  CalmInv'
  <1>1. /\ PricesTyped /\ PricesRest /\ PricesShape /\ Latest \in Nat /\ persisted \in Nat
        /\ pendingCursor \in Nat /\ "main" \in Lanes /\ "replay" \in Lanes
    BY Numbers DEF Steady
  <1>2. /\ UNCHANGED <<market, priceSub, persisted, priceSession, priceConn, heard, streaming,
                       priceBuffer, known, pendingCursor, previous, sending, queued, since>>
        /\ priceSession = "on" /\ priceConn = "up" /\ watch' = watch \cap Desired
    BY DEF recheckPriceMembership, Undisturbed, Steady, world, run, connection
  <1>3. /\ MainAt = "idle" /\ ReplayAt = "idle" /\ ~ seeding /\ ~ Busy
        /\ \A l \in Lanes : lane[l].at = "idle"
    BY DEF recheckPriceMembership, Undisturbed, Steady, CalmInv, Orderly, Busy, MainAt, ReplayAt,
      Lanes
  <1> DEFINE new == Desired \ (watch \cap Desired)
  <1>4. \/ lane' = lane /\ seeding' = seeding
        \/ /\ new # {} /\ watch' # {} /\ seeding' = seeding
           /\ Becomes("main", "join", {}, new, 0, {}, TRUE)
        \/ /\ new # {} /\ watch' = {} /\ seeding' = TRUE
           /\ Becomes("main", "ack", {}, new, 0, {}, TRUE)
    BY <1>1, <1>2, TaskBecomes DEF recheckPriceMembership
  <1>5. new = {s \in PriceSubs : IsArmed(s) /\ s \notin watch} /\ new \cap watch' = {}
    BY <1>2 DEF Desired
  <1>6. new # {} => known = 0 \/ known = heard
    BY <1>2, <1>5 DEF CalmInv, Sound, Kept
  <1> HIDE DEF new
  <1>7. Orderly'
    BY <1>1, <1>2, <1>3, <1>4, <1>5, <1>6
      DEF CalmInv, Orderly, Busy, MainAt, ReplayAt, Becomes
  <1>8. ASSUME NEW l \in Lanes PROVE LaneHolds(l)'
    <2>1. lane'[l].at \notin Deciding \cup Ending \cup {"read"} /\ LaneHolds(l)
      BY <1>3, <1>4 DEF Becomes, Deciding, Ending, CalmInv
    <2>2. Contiguous(l)'
      BY <2>1 DEF Contiguous, Deciding
    <2> QED BY <1>2, <1>3, <1>4, <2>1, <2>2 DEF LaneHolds, Becomes, Ending
  <1>9. ASSUME NEW s \in PriceSubs PROVE Sound(s)'
    <2>1. ASSUME IsArmed(s)
          PROVE  Kept(s)' /\ Delivered(s)' /\ Judged(s)' /\ \A l \in Lanes : Seeds(l, s)'
      <3>1. Kept(s) /\ Delivered(s) /\ Judged(s)
        BY <2>1 DEF CalmInv, Sound
      <3>2. (s \in watch' <=> s \in watch) /\ (s \in new <=> s \notin watch)
        BY <1>2, <1>5, <2>1 DEF Desired
      <3>3. Kept(s)'
        BY <1>1, <1>2, <1>3, <1>4, <3>1, <3>2
          DEF Kept, MainAt, ReplayAt, Early, Deciding, Ending, Becomes
      <3>4. Delivered(s)'
        BY <1>1, <1>2, <3>1, <3>2, DeliveredStands
      <3>5. Judged(s)'
        BY <1>1, <1>2, <1>3, <1>4, <3>1, <3>2
          DEF Judged, HasPrice, Busy, MainAt, ReplayAt, Becomes
      <3>6. \A l \in Lanes : Seeds(l, s)'
        BY <1>3, <1>4 DEF Seeds, Deciding, Ending, Becomes
      <3> QED BY <3>3, <3>4, <3>5, <3>6
    <2> QED BY <1>1, <1>2, <2>1, SoundStands DEF CalmInv, Steady
  <1> QED BY <1>7, <1>8, <1>9 DEF CalmInv

(* A watch that joins starts from the last trade. *)
LEMMA JoinCalm ==
  ASSUME Steady, AlpacaSessionAssumption, CalmInv, [PricesNext]_pricesVars, Join
  PROVE  CalmInv'
  <1>1. /\ PricesTyped /\ PricesRest /\ PricesShape /\ Latest \in Nat /\ Latest > 0
        /\ persisted \in 0..Latest /\ pendingCursor \in 0..Latest
        /\ "main" \in Lanes /\ "replay" \in Lanes
    BY Numbers DEF Steady, PricesRest
  <1>2. /\ UNCHANGED <<market, priceSub, persisted, priceSession, priceConn, heard, streaming,
                       seeding, priceBuffer, known, pendingCursor, sending, queued>>
        /\ MainAt = "join" /\ Prompt /\ Goes("main", Idle)
    BY DEF Join, world, run, connection, MainAt
  <1>3. /\ priceSession = "on" /\ priceConn = "up" /\ ReplayAt = "idle" /\ ~ Busy /\ streaming
        /\ known = 0 \/ known = heard
        /\ lane["main"].fresh \cap watch = {}
        /\ \A l \in Lanes : lane[l].at \in {"idle", "join"}
    BY <1>2 DEF Steady, TasksAlone, CalmInv, Orderly, Busy, MainAt, ReplayAt, Lanes
  <1>4. heard = Latest
    BY <1>2, <1>3 DEF Prompt, Steady
  <1>5. Becomes("main", "idle", {}, {}, 0, {}, TRUE)
    BY <1>1, <1>2, IdleBecomes
  <1> DEFINE new == lane["main"].fresh
  <1>6. /\ previous' = [s \in PriceSubs |-> IF s \in new THEN Latest ELSE previous[s]]
        /\ since' = [s \in PriceSubs |-> IF s \in new /\ since[s] = 0 THEN Latest ELSE since[s]]
        /\ watch' = watch \cup new
    BY <1>3, <1>4 DEF Join
  <1>7. new \cap watch = {}
    BY <1>3
  <1> HIDE DEF new
  <1>8. Orderly'
    BY <1>1, <1>2, <1>3, <1>5 DEF CalmInv, Orderly, Busy, MainAt, ReplayAt, Becomes
  <1>9. ASSUME NEW l \in Lanes PROVE LaneHolds(l)'
    <2>1. lane'[l].at \notin Deciding \cup Ending \cup {"read"} /\ LaneHolds(l)
      BY <1>3, <1>5 DEF Becomes, Deciding, Ending, CalmInv
    <2>2. Contiguous(l)'
      BY <2>1 DEF Contiguous, Deciding
    <2> QED BY <1>2, <1>5, <2>1, <2>2 DEF LaneHolds, Becomes, Ending
  <1>10. ASSUME NEW s \in PriceSubs PROVE Sound(s)'
    <2>1. ASSUME IsArmed(s)
          PROVE  Kept(s)' /\ Delivered(s)' /\ Judged(s)' /\ \A l \in Lanes : Seeds(l, s)'
      <3>1. Kept(s) /\ Delivered(s) /\ Judged(s)
        BY <2>1 DEF CalmInv, Sound
      <3>2. \A l \in Lanes : Seeds(l, s)'
        BY <1>3, <1>5 DEF Seeds, Deciding, Ending, Becomes
      <3>3. Kept(s)'
        BY <1>1, <1>2, <1>3, <1>5, <1>6, <3>1
          DEF Kept, MainAt, ReplayAt, Early, Deciding, Ending, Becomes
      <3>4. CASE s \in new
        <4>1. since[s] = 0
          BY <1>1, <1>3, <1>7, <3>1, <3>4 DEF Kept
        <4>2. since'[s] = Latest /\ previous'[s] = Latest
          BY <1>6, <3>4, <4>1
        <4>3. Judged(s)'
          BY <1>1, <1>2, <1>3, <1>4, <1>5, <4>2
            DEF Judged, HasPrice, Busy, MainAt, ReplayAt, Becomes
        <4>4. ASSUME NEW late \in sending', late[1] = s PROVE Entry(s, late[2])'
          <5>1. late \in sending /\ late[2] \in 1..Latest
            BY <1>1, <1>2, <4>4 DEF PricesRest
          <5>2. Entry(s, late[2])
            BY <3>1, <4>4, <5>1 DEF Delivered
          <5> QED BY <1>1, <5>1, <5>2, EntryStands
        <4>5. Sent(s, persisted)' /\ Sent(s, previous[s])'
          BY <1>1, <1>2, <4>2 DEF Sent
        <4> QED BY <3>2, <3>3, <4>3, <4>4, <4>5 DEF Delivered
      <3>5. CASE s \notin new
        <4>1. /\ since'[s] = since[s] /\ previous'[s] = previous[s]
              /\ s \in watch' <=> s \in watch
          BY <1>6, <3>5
        <4>2. Judged(s)'
          BY <1>1, <1>2, <1>3, <1>5, <3>1, <4>1
            DEF Judged, HasPrice, Busy, MainAt, ReplayAt, Becomes
        <4>3. Delivered(s)'
          BY <1>1, <1>2, <3>1, <4>1, DeliveredStands
        <4> QED BY <3>2, <3>3, <4>2, <4>3
      <3> QED BY <3>4, <3>5
    <2> QED BY <1>1, <1>2, <2>1, SoundStands DEF CalmInv, Steady
  <1> QED BY <1>8, <1>9, <1>10 DEF CalmInv

(* A watch whose symbol was subscribed is to be seeded. *)
LEMMA AckCalm ==
  ASSUME Steady, AlpacaSessionAssumption, CalmInv, [PricesNext]_pricesVars, Ack
  PROVE  CalmInv'
  <1>1. /\ PricesTyped /\ PricesRest /\ PricesShape /\ Latest \in Nat /\ Latest > 0
        /\ persisted \in Nat /\ pendingCursor \in Nat
        /\ "main" \in Lanes /\ "replay" \in Lanes
    BY Numbers DEF Steady
  <1> DEFINE new == lane["main"].fresh
  <1>2. /\ UNCHANGED <<market, priceSub, persisted, priceSession, priceConn, seeding, priceBuffer,
                       known, pendingCursor, previous, sending, queued, since>>
        /\ MainAt = "ack" /\ streaming' = TRUE /\ heard' = IF streaming THEN heard ELSE Latest
        /\ watch' = watch \cup new /\ Goes("main", Task("read", new, {}, 0))
    BY DEF Ack, world, run, MainAt
  <1>3. /\ priceSession = "on" /\ priceConn = "up" /\ ReplayAt = "idle" /\ Busy /\ watch = {}
        /\ known = 0 \/ (known = heard /\ streaming)
        /\ \A l \in Lanes : lane[l].at \in {"idle", "ack"}
    BY <1>2 DEF Steady, TasksAlone, CalmInv, Orderly, Busy, MainAt, ReplayAt, Lanes
  <1> HIDE DEF new
  <1>4. Becomes("main", "read", new, {}, 0, {}, TRUE) /\ watch' = new
    BY <1>1, <1>2, <1>3, TaskBecomes
  <1>5. known = 0 \/ known = heard'
    BY <1>2, <1>3
  <1>6. Orderly'
    BY <1>1, <1>2, <1>3, <1>4, <1>5 DEF CalmInv, Orderly, Busy, MainAt, ReplayAt, Becomes
  <1>7. ASSUME NEW l \in Lanes PROVE LaneHolds(l)'
    <2>1. lane'[l].at \notin Deciding \cup Ending /\ LaneHolds(l)
      BY <1>3, <1>4 DEF Becomes, Deciding, Ending, CalmInv
    <2>2. Contiguous(l)'
      BY <2>1 DEF Contiguous, Deciding
    <2>3. l # "main" => lane'[l].at = "idle"
      BY <1>3, <1>4 DEF Becomes, ReplayAt, Lanes
    <2> QED BY <1>2, <1>4, <2>1, <2>2, <2>3 DEF LaneHolds, Becomes, Ending
  <1>8. ASSUME NEW s \in PriceSubs PROVE Sound(s)'
    <2>1. ASSUME IsArmed(s)
          PROVE  Kept(s)' /\ Delivered(s)' /\ Judged(s)' /\ \A l \in Lanes : Seeds(l, s)'
      <3>1. Kept(s) /\ Delivered(s) /\ Judged(s)
        BY <2>1 DEF CalmInv, Sound
      <3>2. \A l \in Lanes : Seeds(l, s)'
        BY <1>3, <1>4 DEF Seeds, Deciding, Ending, Becomes
      <3>3. s \notin watch /\ previous[s] = 0 /\ (since[s] # 0 => Early(s) /\ s \in watch')
        BY <1>2, <1>3, <1>4, <3>1 DEF Kept, new
      <3>4. Kept(s)'
        BY <1>1, <1>2, <1>3, <1>4, <1>5, <3>1, <3>3
          DEF Kept, MainAt, ReplayAt, Early, Deciding, Ending, Becomes
      <3>5. Judged(s)'
        BY <1>1, <1>2, <1>3, <1>4, <3>3
          DEF Judged, HasPrice, Busy, MainAt, ReplayAt, Becomes
      <3>6. Delivered(s)'
        <4>1. ASSUME NEW late \in sending', late[1] = s PROVE Entry(s, late[2])'
          <5>1. late \in sending /\ late[2] \in 1..Latest
            BY <1>1, <1>2, <4>1 DEF PricesRest
          <5>2. Entry(s, late[2])
            BY <3>1, <4>1, <5>1 DEF Delivered
          <5> QED BY <1>1, <5>1, <5>2, EntryStands
        <4>2. PICK k \in 0..Latest : k = persisted
          BY <1>1 DEF PricesRest
        <4>3. since[s] # 0 => Sent(s, k)'
          BY <1>1, <1>2, <3>1, <4>2, SentStands DEF Delivered
        <4>4. (since[s] # 0 => Sent(s, persisted))'
          BY <1>2, <4>2, <4>3 DEF Sent
        <4>5. Sent(s, previous[s])'
          BY <1>2, <3>3 DEF Sent
        <4> QED BY <4>1, <4>4, <4>5 DEF Delivered
      <3> QED BY <3>2, <3>4, <3>5, <3>6
    <2> QED BY <1>1, <1>2, <2>1, SoundStands DEF CalmInv, Steady
  <1> QED BY <1>6, <1>7, <1>8 DEF CalmInv

(* A session that is over leaves nothing behind but the cursor; it covers   *)
(* every subscription and every crossing up to it has woken.                *)
LEMMA ForgettingCalm ==
  ASSUME Steady, AlpacaSessionAssumption, CalmInv, [PricesNext]_pricesVars,
         EndShutdown \/ CrashSession
  PROVE  CalmInv'
  <1>1. /\ PricesTyped /\ PricesRest /\ PricesShape /\ Latest \in Nat /\ Latest > 0
        /\ persisted \in 0..Latest /\ pendingCursor \in 0..Latest
        /\ "main" \in Lanes /\ "replay" \in Lanes
    BY Numbers DEF Steady, PricesRest
  <1>2. /\ UNCHANGED <<market, priceSub, since>> /\ priceSession' = "off"
        /\ priceConn' = "down" /\ streaming' = FALSE /\ heard' = 0 /\ seeding' = FALSE
        /\ priceBuffer' = {} /\ known' = 0 /\ pendingCursor' = 0 /\ watch' = {} /\ sending' = {}
        /\ queued' = 0 /\ \A s \in PriceSubs : previous'[s] = 0
        /\ \A l \in Lanes : lane'[l].at = "idle" /\ lane'[l].fresh = {} /\ lane'[l].recorded
    BY DEF EndShutdown, CrashSession, Forget, world, Idle, Task
  <1>3. Orderly'
    BY <1>1, <1>2 DEF Orderly, Busy, MainAt, ReplayAt
  <1>4. \A l \in Lanes : LaneHolds(l)'
    BY <1>2 DEF LaneHolds, Contiguous, Deciding, Ending
  <1>5. persisted' \in {persisted, pendingCursor} /\ persisted' >= persisted
        /\ (EndShutdown => persisted' >= pendingCursor)
        /\ (CrashSession => persisted' = persisted)
    <2>1. Max({persisted, pendingCursor}) = IF persisted >= pendingCursor THEN persisted
                                                                         ELSE pendingCursor
      BY <1>1, LargerOf
    <2> QED BY <1>1, <2>1 DEF EndShutdown, CrashSession, flushPendingCursors
  <1>6. ASSUME NEW s \in PriceSubs, IsArmed(s), since[s] # 0
        PROVE  persisted' > priceSub[s].armedAt /\ \A t \in 1..persisted' : t > since[s] =>
                ~ Entry(s, t)
    <2>1. Kept(s) /\ Delivered(s) /\ Judged(s)
      BY <1>6 DEF CalmInv, Sound
    <2>2. priceSub[s].armedAt \in Nat /\ previous[s] \in 0..Latest
      BY <1>1, SubTyping, Typing
    <2>3. CASE EndShutdown
      <3>1. sending = {} /\ ~ Busy /\ priceSession = "closing"
        BY <1>1, <2>3 DEF EndShutdown, Busy, MainAt, ReplayAt
      <3>2. CASE s \in watch
        <4>1. persisted' > priceSub[s].armedAt
          BY <1>1, <1>5, <2>1, <2>2, <2>3, <3>1, <3>2 DEF Kept, Early
        <4>2. Sent(s, previous[s]) /\ persisted' <= previous[s]
          BY <1>1, <1>5, <1>6, <2>1, <3>1, <3>2 DEF Delivered, Judged, HasPrice
        <4>3. \A t \in 1..persisted' : t \in 1..previous[s]
          BY <1>1, <1>5, <2>2, <4>2
        <4> QED BY <3>1, <4>1, <4>2, <4>3 DEF Sent
      <3>3. CASE s \notin watch
        <4>1. ~ streaming /\ Early(s)
          BY <1>6, <2>1, <3>3 DEF Kept
        <4>2. pendingCursor = 0
          BY <4>1 DEF CalmInv, Orderly
        <4>3. persisted' = persisted
          BY <1>1, <1>5, <4>2
        <4> QED BY <1>6, <2>1, <3>1, <4>1, <4>3 DEF Early, Delivered, Sent
      <3> QED BY <3>2, <3>3
    <2>4. CASE CrashSession
      <3>1. /\ persisted' = persisted
            /\ \A late \in sending : late[2] > persisted
            /\ s \in watch => Early(s)
        BY <1>5, <1>6, <2>4 DEF CrashSession, Steady, Covered, Early
      <3>2. Early(s)
        BY <1>6, <2>1, <3>1 DEF Kept
      <3>3. ASSUME NEW t \in 1..persisted, t > since[s], Entry(s, t) PROVE FALSE
        <4>1. <<s, t>> \in sending
          BY <1>6, <2>1, <3>3 DEF Delivered, Sent
        <4>2. <<s, t>>[2] = t
          OBVIOUS
        <4>3. t > persisted /\ t \in Nat /\ t <= persisted
          BY <1>1, <3>1, <4>1, <4>2
        <4> QED BY <1>1, <4>3
      <3> QED BY <3>1, <3>2, <3>3 DEF Early
    <2> QED BY <2>3, <2>4
  <1>7. ASSUME NEW s \in PriceSubs PROVE Sound(s)'
    <2>1. ASSUME IsArmed(s)
          PROVE  Kept(s)' /\ Delivered(s)' /\ Judged(s)' /\ \A l \in Lanes : Seeds(l, s)'
      <3>1. Kept(s)'
        BY <1>1, <1>2, <1>6, <2>1 DEF Kept, Early, MainAt, ReplayAt, Deciding, Ending
      <3>2. Delivered(s)'
        <4>1. PICK k \in 0..Latest : k = persisted'
          BY <1>1, <1>5
        <4>2. ASSUME NEW t \in 1..k, t > since[s], since[s] # 0 PROVE ~ Entry(s, t)'
          <5>1. t \in 1..Latest /\ ~ Entry(s, t)
            BY <1>1, <1>6, <2>1, <4>1, <4>2
          <5> QED BY <1>1, <5>1, EntryStands
        <4>3. (since[s] # 0 => Sent(s, persisted))'
          BY <1>2, <4>1, <4>2 DEF Sent
        <4> QED BY <1>2, <4>3 DEF Delivered
      <3>3. Judged(s)'
        BY <1>1, <1>2 DEF Judged, ReplayAt
      <3>4. \A l \in Lanes : Seeds(l, s)'
        BY <1>2 DEF Seeds, Deciding, Ending
      <3> QED BY <3>1, <3>2, <3>3, <3>4
    <2> QED BY <1>1, <1>2, <2>1, SoundStands DEF CalmInv, Steady
  <1> QED BY <1>3, <1>4, <1>7 DEF CalmInv

(* Between two seedings a live trade is judged against the one before it.   *)
LEMMA LiveTradeDecides ==
  ASSUME Steady, AlpacaSessionAssumption, CalmInv, [PricesNext]_pricesVars, handleLiveTrade,
         priceSession = "on", ~ seeding, NEW t \in 1..Latest, t = heard + 1,
         NEW s \in PriceSubs, IsArmed(s), s \in watch
  PROVE  /\ previous[s] = heard /\ previous'[s] = t /\ since[s] # 0
         /\ Sent(s, t)' /\ \A late \in sending' : late[1] = s => Entry(s, late[2])'
  <1>1. /\ PricesTyped /\ PricesRest /\ Latest \in Nat /\ heard \in Nat
    BY Numbers DEF Steady
  <1>2. Kept(s) /\ Delivered(s) /\ Judged(s) /\ ~ Busy
    BY DEF CalmInv, Sound, Orderly
  <1>3. /\ since' = since
        /\ sending' = sending \cup
             {<<q, t>> : q \in {w \in watch : previous[w] # 0 /\ crosses(w, previous[w], t)}}
        /\ previous' = [q \in PriceSubs |-> IF q \in watch THEN t ELSE previous[q]]
    <2>1. since' = since /\ \E stored \in BOOLEAN : TradeDecides(t, stored)
      BY DEF handleLiveTrade
    <2> QED BY <2>1 DEF TradeDecides
  <1>4. previous[s] = heard /\ heard # 0 /\ since[s] # 0 /\ previous'[s] = t
    BY <1>2, <1>3 DEF Judged, HasPrice
  <1>5. crosses(s, heard, t) <=> Entry(s, t)
    <2>1. heard \in 1..Latest /\ t > 1 /\ t - 1 = heard
      BY <1>1, <1>4
    <2> QED BY <1>1, <2>1, CrossesIsPast DEF Entry
  <1>6. ASSUME NEW late \in sending', late[1] = s
        PROVE  late[2] \in 1..Latest /\ Entry(s, late[2])
    <2>1. CASE late \in sending
      BY <1>1, <1>2, <1>6, <2>1 DEF PricesRest, Delivered
    <2>2. CASE late \notin sending
      <3>1. PICK q \in watch : late = <<q, t>> /\ previous[q] # 0 /\ crosses(q, previous[q], t)
        BY <1>3, <2>2
      <3>2. q = s /\ late[2] = t
        BY <1>6, <3>1
      <3> QED BY <1>4, <1>5, <3>1, <3>2
    <2> QED BY <2>1, <2>2
  <1>7. Sent(s, t)'
    <2> SUFFICES ASSUME NEW u \in 1..t, u > since'[s], Entry(s, u)' PROVE <<s, u>> \in sending'
      BY DEF Sent
    <2>1. u \in 1..Latest /\ Entry(s, u) /\ u > since[s]
      <3>1. u \in 1..Latest
        BY <1>1
      <3> QED BY <1>1, <1>3, <3>1, EntryStands
    <2>2. CASE u <= heard
      <3>1. u \in 1..previous[s]
        BY <1>1, <1>4, <2>1, <2>2
      <3> QED BY <1>2, <1>3, <1>4, <2>1, <3>1 DEF Delivered, Sent
    <2>3. CASE ~ (u <= heard)
      <3>1. u = t
        BY <1>1, <2>3
      <3> QED BY <1>3, <1>4, <1>5, <2>1, <3>1
    <2> QED BY <2>2, <2>3
  <1>8. \A late \in sending' : late[1] = s => Entry(s, late[2])'
    BY <1>1, <1>6, EntryStands
  <1> QED BY <1>4, <1>7, <1>8

(* A live trade is decided, or held back for the task that seeds. *)
LEMMA LiveTradeCalm ==
  ASSUME Steady, AlpacaSessionAssumption, CalmInv, [PricesNext]_pricesVars, handleLiveTrade
  PROVE  CalmInv'
  <1>1. /\ PricesTyped /\ PricesRest /\ PricesShape /\ Latest \in Nat /\ Latest > 0
        /\ persisted \in 0..Latest /\ pendingCursor \in 0..Latest
        /\ heard \in Nat /\ "main" \in Lanes /\ "replay" \in Lanes
    BY Numbers DEF Steady, PricesRest
  <1>2. /\ UNCHANGED <<market, priceSub, priceSession, priceConn, streaming, seeding, watch, lane,
                       queued, since>>
        /\ priceConn = "up" /\ streaming /\ heard < Latest /\ heard' = heard + 1
    <2>1. UNCHANGED <<seeding, watch>>
      BY DEF handleLiveTrade, memory
    <2> QED BY <2>1 DEF handleLiveTrade, world, run, tasks
  <1>3. PICK t \in 1..Latest : t = heard + 1
    BY <1>1, <1>2
  <1>4. \A l \in Lanes : lane[l].at \notin Ending
    <2>1. ASSUME NEW l \in Lanes, lane[l].at \in Ending PROVE FALSE
      <3>1. heard = Latest
        BY <1>2, <2>1 DEF Steady, UpToHeard, LaneUpToHeard, Ending
      <3> QED BY <1>1, <1>2, <3>1
    <2> QED BY <2>1
  <1>5. persisted <= heard /\ pendingCursor <= heard
    BY <1>2 DEF Steady, UpToHeard
  <1>6. CASE priceSession # "on"
    <2>1. UNCHANGED <<persisted, memory, sending>> /\ MainAt = "idle"
      BY <1>1, <1>2, <1>6 DEF handleLiveTrade, PricesRest, Steady, TasksAlone, MainAt
    <2>2. UNCHANGED <<priceBuffer, known, pendingCursor, previous>>
      BY <2>1 DEF memory
    <2>3. Orderly'
      BY <1>2, <2>1, <2>2 DEF CalmInv, Orderly, Busy, MainAt, ReplayAt
    <2>4. ASSUME NEW s \in PriceSubs, IsArmed(s) PROVE Kept(s)' /\ Judged(s)'
      <3>1. Kept(s) /\ Judged(s)
        BY <2>4 DEF CalmInv, Sound
      <3>2. Kept(s)'
        BY <1>2, <1>6, <2>1, <2>2, <3>1 DEF Kept, MainAt, ReplayAt, Early
      <3> QED BY <1>2, <1>6, <2>1, <2>2, <3>1, <3>2 DEF Judged, Busy, MainAt, ReplayAt, HasPrice
    <2> QED BY <1>2, <1>6, <2>1, <2>3, <2>4, QuietStep DEF tasks
  <1>7. CASE priceSession = "on" /\ seeding
    <2>1. /\ priceBuffer' = priceBuffer \cup {t} /\ known' = t
          /\ UNCHANGED <<persisted, pendingCursor, previous, sending>>
      BY <1>3, <1>7 DEF handleLiveTrade, Buffered
    <2>2. Orderly'
      BY <1>1, <1>2, <1>3, <1>7, <2>1 DEF CalmInv, Orderly, Busy, MainAt, ReplayAt
    <2>3. ASSUME NEW l \in Lanes PROVE LaneHolds(l)'
      <3>1. LaneHolds(l) /\ lane[l].at \notin Ending
        BY <1>4 DEF CalmInv
      <3>2. \A k \in 0..Latest, m \in Nat : heard = k /\ m <= k /\ priceBuffer = m + 1 .. k
              => t \in 0..Latest /\ m <= t /\ priceBuffer' = m + 1 .. t
        BY <1>1, <1>3, <2>1
      <3>3. ASSUME lane[l].at \in {"decide", "advance"}
            PROVE  \E m \in 1..Latest, k \in 0..Latest :
                     /\ m <= k /\ pendingCursor' <= m /\ (priceSession' = "on" => heard' = k)
                     /\ lane'[l].merged = lane'[l].cur + 1 .. m /\ priceBuffer' = m + 1 .. k
        <4>1. PICK m \in 1..Latest, k \in 0..Latest :
                /\ m <= k /\ pendingCursor <= m /\ (priceSession = "on" => heard = k)
                /\ lane[l].merged = lane[l].cur + 1 .. m /\ priceBuffer = m + 1 .. k
          BY <3>1, <3>3 DEF LaneHolds, Contiguous
        <4>2. m \in Nat
          BY <1>1
        <4>3. t \in 0..Latest /\ m <= t /\ priceBuffer' = m + 1 .. t
          BY <1>7, <3>2, <4>1, <4>2
        <4> QED BY <1>2, <1>3, <2>1, <4>1, <4>3
      <3>4. ASSUME lane[l].at = "drain"
            PROVE  \E k \in 0..Latest :
                     /\ lane'[l].cur <= k /\ pendingCursor' <= lane'[l].cur
                     /\ (priceSession' = "on" => heard' = k)
                     /\ priceBuffer' = lane'[l].cur + 1 .. k
        <4>1. PICK k \in 0..Latest :
                /\ lane[l].cur <= k /\ pendingCursor <= lane[l].cur
                /\ (priceSession = "on" => heard = k)
                /\ priceBuffer = lane[l].cur + 1 .. k
          BY <3>1, <3>4 DEF LaneHolds, Contiguous
        <4>2. lane[l].cur \in Nat
          BY <1>1, LaneTyping
        <4>3. t \in 0..Latest /\ lane[l].cur <= t /\ priceBuffer' = lane[l].cur + 1 .. t
          BY <1>7, <3>2, <4>1, <4>2
        <4> QED BY <1>2, <1>3, <2>1, <4>1, <4>3
      <3>5. Latest' = Latest
        BY <1>2, SameMarket
      <3>6. Contiguous(l)'
        BY <1>2, <3>3, <3>4, <3>5 DEF Contiguous
      <3> QED BY <1>2, <2>1, <3>1, <3>6 DEF LaneHolds, Ending
    <2>4. ASSUME NEW s \in PriceSubs PROVE Sound(s)'
      <3>1. ASSUME IsArmed(s)
            PROVE  Kept(s)' /\ Delivered(s)' /\ Judged(s)' /\ \A l \in Lanes : Seeds(l, s)'
        <4>1. Kept(s) /\ Delivered(s) /\ Judged(s) /\ \A l \in Lanes : Seeds(l, s)
          BY <3>1 DEF CalmInv, Sound
        <4>2. Kept(s)'
          BY <1>2, <1>3, <1>7, <2>1, <4>1 DEF Kept, MainAt, ReplayAt, Early
        <4>3. Delivered(s)'
          BY <1>1, <1>2, <2>1, <4>1, DeliveredStands
        <4>4. Busy
          BY <1>7 DEF CalmInv, Orderly
        <4>5. Judged(s)'
          BY <1>2, <2>1, <4>1, <4>4 DEF Judged, Busy, MainAt, ReplayAt, HasPrice
        <4>6. \A l \in Lanes : Seeds(l, s)'
          BY <1>1, <1>2, <1>4, <2>1, <4>1, SeedsStand
        <4> QED BY <4>2, <4>3, <4>5, <4>6
      <3> QED BY <1>1, <1>2, <3>1, SoundStands DEF CalmInv, Steady
    <2> QED BY <2>2, <2>3, <2>4 DEF CalmInv
  <1>8. CASE priceSession = "on" /\ ~ seeding
    <2>1. /\ known' = t /\ pendingCursor' = t
          /\ persisted' \in {persisted, t}
          /\ previous' = [s \in PriceSubs |-> IF s \in watch THEN t ELSE previous[s]]
          /\ \A late \in sending' : late \in sending \/ late[1] \in watch
          /\ sending \subseteq sending'
      <3>1. known' = t /\ \E stored \in BOOLEAN : TradeDecides(t, stored)
        BY <1>3, <1>8 DEF handleLiveTrade
      <3>2. Max({persisted, t}) \in {persisted, t}
        BY <1>1, LargerOf
      <3>3. \A late \in sending' : late \in sending \/ late[1] \in watch
        BY <3>1 DEF TradeDecides
      <3> QED BY <3>1, <3>2, <3>3 DEF TradeDecides
    <2>2. ~ Busy /\ \A l \in Lanes : lane[l].at \in {"idle", "join"}
      BY <1>8 DEF CalmInv, Orderly, Busy, MainAt, ReplayAt, Lanes
    <2>3. Orderly'
      BY <1>1, <1>2, <1>3, <1>8, <2>1 DEF CalmInv, Orderly, Busy, MainAt, ReplayAt
    <2>4. ASSUME NEW l \in Lanes PROVE LaneHolds(l)'
      <3>1. LaneHolds(l) /\ lane[l].at \in {"idle", "join"}
        BY <2>2 DEF CalmInv
      <3> QED BY <1>2, <3>1 DEF LaneHolds, Contiguous, Deciding, Ending
    <2>5. ASSUME NEW s \in PriceSubs PROVE Sound(s)'
      <3>1. ASSUME IsArmed(s)
            PROVE  Kept(s)' /\ Delivered(s)' /\ Judged(s)' /\ \A l \in Lanes : Seeds(l, s)'
        <4>1. Kept(s) /\ Delivered(s) /\ Judged(s) /\ priceSub[s].armedAt \in Nat
          BY <1>1, <3>1, SubTyping, Typing DEF CalmInv, Sound
        <4>2. Kept(s)'
          BY <1>1, <1>2, <1>3, <1>5, <1>8, <2>1, <2>2, <4>1
            DEF Kept, MainAt, ReplayAt, Early, Deciding, Ending
        <4>3. \A l \in Lanes : Seeds(l, s)'
          BY <1>2, <2>2 DEF Seeds, Deciding, Ending
        <4>4. CASE s \in watch
          <5>1. /\ previous'[s] = t /\ since[s] # 0 /\ Sent(s, t)'
                /\ \A late \in sending' : late[1] = s => Entry(s, late[2])'
            BY <1>3, <1>8, <3>1, <4>4, LiveTradeDecides
          <5>2. Judged(s)'
            BY <1>1, <1>2, <1>3, <1>5, <2>1, <2>2, <5>1
              DEF Judged, HasPrice, Busy, MainAt, ReplayAt
          <5>3. PICK k \in 0..t : k = persisted'
            BY <1>1, <1>3, <1>5, <2>1
          <5>4. Sent(s, k)'
            BY <5>1, <5>3 DEF Sent
          <5>5. Sent(s, persisted)'
            BY <5>3, <5>4 DEF Sent
          <5>6. Sent(s, previous[s])'
            BY <5>1 DEF Sent
          <5> QED BY <4>2, <4>3, <5>1, <5>2, <5>5, <5>6 DEF Delivered
        <4>5. CASE s \notin watch
          <5>1. since'[s] = 0
            BY <1>2, <4>1, <4>5 DEF Kept
          <5>2. Judged(s)'
            BY <1>2, <4>5 DEF Judged
          <5>3. ASSUME NEW late \in sending', late[1] = s PROVE Entry(s, late[2])'
            <6>1. late \in sending /\ late[2] \in 1..Latest
              BY <1>1, <2>1, <4>5, <5>3 DEF PricesRest
            <6>2. Entry(s, late[2])
              BY <4>1, <5>3, <6>1 DEF Delivered
            <6> QED BY <1>1, <6>1, <6>2, EntryStands
          <5> QED BY <4>2, <4>3, <5>1, <5>2, <5>3 DEF Delivered
        <4> QED BY <4>4, <4>5
      <3> QED BY <1>1, <1>2, <3>1, SoundStands DEF CalmInv, Steady
    <2> QED BY <2>3, <2>4, <2>5 DEF CalmInv
  <1> QED BY <1>6, <1>7, <1>8

(* What a step of a task leaves to show. *)
LEMMA TaskStep ==
  ASSUME Steady, AlpacaSessionAssumption, CalmInv, [PricesNext]_pricesVars, NEW l \in Lanes,
         lane[l].at \notin {"idle", "join", "ack"},
         UNCHANGED <<market, priceSession, priceConn, heard, streaming, seeding, known, watch,
                     sending, queued>>,
         NEW a, NEW r, NEW f, NEW c, NEW m, NEW d, Becomes(l, a, r, f, c, m, d),
         a \notin {"idle", "join", "ack"}, LaneHolds(l)',
         \A s \in PriceSubs :
           \/ priceSub'[s] = priceSub[s]
              /\ (IsArmed(s) => Kept(s)' /\ Delivered(s)' /\ Judged(s)' /\ Seeds(l, s)')
           \/ Sound(s)'
  PROVE  CalmInv'
  <1>1. /\ PricesTyped /\ PricesRest /\ "main" \in Lanes /\ "replay" \in Lanes
        /\ priceConn = "up" /\ streaming /\ seeding
        /\ \A o \in Lanes : o # l => lane[o].at = "idle" /\ lane'[o] = lane[o]
    BY Numbers, TaskIsLive, OneAtATime DEF Steady, Becomes, CalmInv
  <1>2. lane'[l].at = a
    BY DEF Becomes
  <1>3. Orderly'
    <2>1. CASE l = "main"
      BY <1>1, <1>2, <2>1 DEF CalmInv, Orderly, Busy, MainAt, ReplayAt
    <2>2. CASE l = "replay"
      BY <1>1, <1>2, <2>2 DEF CalmInv, Orderly, Busy, MainAt, ReplayAt
    <2> QED BY <2>1, <2>2 DEF Lanes
  <1>4. ASSUME NEW o \in Lanes, o # l PROVE LaneHolds(o)'
    BY <1>1, <1>4 DEF LaneHolds, Contiguous, Deciding, Ending, CalmInv
  <1>5. ASSUME NEW s \in PriceSubs PROVE Sound(s)'
    <2>1. \A o \in Lanes : o # l => Seeds(o, s)'
      BY <1>1 DEF Seeds, Deciding, Ending
    <2>2. CASE Sound(s)'
      BY <2>2
    <2>3. CASE ~ Sound(s)'
      BY <1>1, <2>1, <2>3, SoundStands DEF CalmInv, Steady
    <2> QED BY <2>2, <2>3
  <1> QED BY <1>3, <1>4, <1>5 DEF CalmInv

(* The cursor parts the watches it covers from those to seed afresh. *)
LEMMA ReadCalm ==
  ASSUME Steady, AlpacaSessionAssumption, CalmInv, [PricesNext]_pricesVars,
         NEW l \in Lanes, ReadSeedCursor(l)
  PROVE  CalmInv'
  <1>1. /\ PricesTyped /\ PricesRest /\ Latest \in Nat /\ persisted \in 0..Latest
        /\ "main" \in Lanes /\ "replay" \in Lanes
    BY Numbers DEF Steady, PricesRest
  <1>2. /\ UNCHANGED <<market, priceSub, persisted, priceSession, priceConn, heard, streaming,
                       seeding, priceBuffer, known, pendingCursor, watch, previous, sending,
                       queued>>
        /\ lane[l].at = "read"
    BY DEF ReadSeedCursor, world, run, connection, memory
  <1>3. /\ LaneHolds(l) /\ lane[l].ready = watch
        /\ streaming /\ priceConn = "up"
        /\ \A o \in Lanes : o # l => lane[o].at = "idle"
    BY <1>2, TaskIsLive, OneAtATime DEF CalmInv, LaneHolds, Steady
  <1>4. PICK ready \in SUBSET lane[l].ready :
          /\ ready = {s \in lane[l].ready : Ready(s, persisted)}
          /\ Becomes(l, IF ready = {} THEN "fresh" ELSE "fetch", ready, lane[l].ready \ ready,
                     persisted, {}, TRUE)
          /\ since' = [s \in PriceSubs |-> IF s \in ready /\ since[s] = 0 THEN persisted
                                                                          ELSE since[s]]
    BY <1>1, CursorReadBecomes
  <1> DEFINE a == IF ready = {} THEN "fresh" ELSE "fetch"
             rest == watch \ ready
  <1>5. Becomes(l, a, ready, rest, persisted, {}, TRUE) /\ a \in {"fresh", "fetch"}
        /\ (a = "fresh" <=> ready = {})
    BY <1>3, <1>4
  <1>6. /\ ready \subseteq watch /\ rest \subseteq watch /\ ready \cup rest = watch
        /\ \A s \in watch : s \in rest <=> s \notin ready
        /\ \A s \in watch : s \in ready <=> Early(s)
    BY <1>3, <1>4 DEF Ready, Early
  <1> HIDE DEF a, rest
  <1>7. LaneHolds(l)'
    <2>1. Contiguous(l)'
      BY <1>5 DEF Contiguous, Becomes
    <2> QED BY <1>2, <1>5, <1>6, <2>1 DEF LaneHolds, Becomes, Deciding, Ending
  <1>8. ASSUME NEW s \in PriceSubs, IsArmed(s)
        PROVE  Kept(s)' /\ Delivered(s)' /\ Judged(s)' /\ Seeds(l, s)'
    <2>1. Kept(s) /\ Delivered(s) /\ Judged(s)
      BY <1>8 DEF CalmInv, Sound
    <2>2. since'[s] = IF s \in ready /\ since[s] = 0 THEN persisted ELSE since[s]
      BY <1>4
    <2>3. priceSub'[s] = priceSub[s] /\ (Early(s)' <=> Early(s)) /\ (s \in watch /\ Early(s) =>
            persisted # 0)
      <3>1. priceSub[s].armedAt \in Nat
        BY <1>1, SubTyping, Typing
      <3> QED BY <1>1, <1>2, <3>1 DEF Early
    <2>4. lane'[l].at = a /\ lane'[l].fresh = rest /\ lane'[l].ready = ready
          /\ \A o \in Lanes : o # l => lane'[o] = lane[o]
      BY <1>5 DEF Becomes
    <2>5. CASE l = "main"
      <3>1. MainAt = "read" /\ ReplayAt = "idle" /\ MainAt' = a /\ ReplayAt' = ReplayAt
        BY <1>1, <1>2, <1>3, <2>4, <2>5 DEF MainAt, ReplayAt
      <3>2. Kept(s)'
        BY <1>1, <1>2, <1>3, <1>5, <1>6, <2>1, <2>2, <2>3, <2>4, <2>5, <3>1
          DEF Kept, Deciding, Ending, Judged
      <3>3. s \in watch => previous[s] = 0
        BY <2>1, <3>1 DEF Judged
      <3>4. Judged(s)'
        BY <1>2, <1>5, <2>1, <3>1, <3>3 DEF Judged, Busy
      <3>5. Seeds(l, s)'
        BY <1>1, <1>2, <1>5, <1>6, <2>1, <2>2, <2>3, <2>4, <3>1 DEF Seeds, Deciding, Ending, Judged
      <3>6. Delivered(s)'
        <4>1. CASE since'[s] = since[s]
          BY <1>1, <1>2, <2>1, <4>1, DeliveredStands
        <4>2. CASE since'[s] # since[s]
          <5>1. since'[s] = persisted /\ s \in watch /\ previous'[s] = 0
            BY <1>2, <1>6, <2>2, <3>3, <4>2
          <5>2. ASSUME NEW late \in sending', late[1] = s PROVE Entry(s, late[2])'
            <6>1. late \in sending /\ late[2] \in 1..Latest
              BY <1>1, <1>2, <5>2 DEF PricesRest
            <6>2. Entry(s, late[2])
              BY <2>1, <5>2, <6>1 DEF Delivered
            <6> QED BY <1>1, <6>1, <6>2, EntryStands
          <5>3. Sent(s, persisted)' /\ Sent(s, previous[s])'
            BY <1>1, <1>2, <5>1 DEF Sent
          <5> QED BY <5>2, <5>3 DEF Delivered
        <4> QED BY <4>1, <4>2
      <3> QED BY <3>2, <3>4, <3>5, <3>6
    <2>6. CASE l = "replay"
      <3>1. ReplayAt = "read" /\ MainAt = "idle" /\ ReplayAt' = a /\ MainAt' = MainAt
        BY <1>1, <1>2, <1>3, <2>4, <2>6 DEF MainAt, ReplayAt
      <3>2. s \in watch => HasPrice(s) /\ Early(s) /\ s \in ready
        BY <1>6, <2>1, <3>1 DEF Judged, Kept
      <3>3. since'[s] = since[s]
        BY <1>6, <2>2, <3>2 DEF HasPrice
      <3>4. s \notin rest
        BY <1>6, <3>2
      <3>5. Kept(s)'
        BY <1>1, <1>2, <1>3, <1>5, <1>6, <2>1, <2>3, <2>4, <2>6, <3>1, <3>3, <3>4
          DEF Kept, Deciding, Ending
      <3>6. Judged(s)'
        BY <1>2, <1>5, <2>1, <3>1, <3>2, <3>3 DEF Judged, Busy, HasPrice
      <3>7. Seeds(l, s)'
        BY <1>1, <1>2, <1>5, <1>6, <2>4, <3>2, <3>3 DEF Seeds, Deciding, Ending, HasPrice
      <3>8. Delivered(s)'
        BY <1>1, <1>2, <2>1, <3>3, DeliveredStands
      <3> QED BY <3>5, <3>6, <3>7, <3>8
    <2> QED BY <2>5, <2>6 DEF Lanes
  <1> QED BY <1>2, <1>5, <1>7, <1>8, TaskStep

(* A task that only goes on leaves what the session has of a subscription.  *)
LEMMA GoingOn ==
  ASSUME Steady, AlpacaSessionAssumption, CalmInv, [PricesNext]_pricesVars,
         NEW l \in Lanes, lane[l].at \in Deciding,
         UNCHANGED <<market, priceSub, persisted, priceSession, priceConn, heard, streaming, known,
                     pendingCursor, watch, previous, sending, since>>,
         NEW a \in {"decide", "drain", "fresh"}, NEW c, NEW m, NEW d,
         Becomes(l, a, lane[l].ready, lane[l].fresh, c, m, d),
         NEW s \in PriceSubs, IsArmed(s)
  PROVE  Kept(s)' /\ Delivered(s)' /\ Judged(s)'
  <1>1. /\ PricesTyped /\ "main" \in Lanes /\ "replay" \in Lanes
        /\ \A o \in Lanes : o # l => lane[o].at = "idle" /\ lane'[o] = lane[o]
    BY Numbers, OneAtATime DEF Steady, Deciding, Becomes
  <1>2. lane'[l].at = a /\ lane'[l].fresh = lane[l].fresh
    BY DEF Becomes
  <1>3. Kept(s) /\ Delivered(s) /\ Judged(s)
    BY DEF CalmInv, Sound
  <1>4. Delivered(s)'
    BY <1>1, <1>3, DeliveredStands
  <1>5. CASE l = "main"
    BY <1>1, <1>2, <1>3, <1>4, <1>5
      DEF Kept, Judged, Busy, HasPrice, Early, MainAt, ReplayAt, Deciding, Ending
  <1>6. CASE l = "replay"
    BY <1>1, <1>2, <1>3, <1>4, <1>6
      DEF Kept, Judged, Busy, HasPrice, Early, MainAt, ReplayAt, Deciding, Ending
  <1> QED BY <1>5, <1>6 DEF Lanes

(* History and buffer together leave no hole after the cursor. *)
LEMMA FetchCalm ==
  ASSUME Steady, AlpacaSessionAssumption, CalmInv, [PricesNext]_pricesVars,
         NEW l \in Lanes, Fetch(l)
  PROVE  CalmInv'
  <1>1. /\ PricesTyped /\ PricesRest /\ Latest \in Nat /\ persisted \in 0..Latest
        /\ pendingCursor \in 0..Latest /\ lane[l].cur \in 0..Latest /\ Latest' = Latest
    BY Numbers, LaneTyping, SameMarket DEF Steady, PricesRest, Fetch, world
  <1>2. /\ UNCHANGED <<market, priceSub, persisted, priceSession, priceConn, heard, streaming,
                       seeding, known, pendingCursor, watch, previous, sending, queued, since>>
        /\ lane[l].at = "fetch" /\ priceBuffer' = {}
    BY DEF Fetch, Merge, world, run, connection
  <1>3. /\ LaneHolds(l) /\ lane[l].ready \cup lane[l].fresh = watch /\ lane[l].cur = persisted
        /\ heard = Latest
    BY <1>2, TaskIsLive DEF CalmInv, LaneHolds, Deciding, Fetch
  <1>4. PICK end \in heard..Latest :
          /\ Merge(l, (lane[l].cur .. end) \cup priceBuffer)
          /\ Primed(l) \/ ~ Quiet(l, 1..end)
    BY DEF Fetch, Steady
  <1>5. end = Latest
    BY <1>1, <1>3, <1>4
  <1> DEFINE trades == (lane[l].cur .. Latest) \cup priceBuffer
  <1>6. PICK merged \in SUBSET trades :
           /\ merged = {t \in trades : t > lane[l].cur}
           /\ Becomes(l, IF merged = {} THEN "drain" ELSE "decide", lane[l].ready, lane[l].fresh,
                      lane[l].cur, merged, lane[l].recorded)
    <2>1. (lane[l].cur .. end) \cup priceBuffer = trades
      BY <1>5
    <2>2. Merge(l, trades)
      BY <1>4, <2>1
    <2> HIDE DEF trades
    <2> QED BY <1>1, <2>2, MergeBecomes
  <1>7. merged = lane[l].cur + 1 .. Latest
    <2>1. PICK c \in 0..Latest : c = lane[l].cur
      BY <1>1
    <2>2. priceBuffer \subseteq 1..Latest
      BY <1>1 DEF PricesRest
    <2>3. merged = {t \in (c .. Latest) \cup priceBuffer : t > c}
      BY <1>6, <2>1
    <2>4. ASSUME NEW t \in merged PROVE t \in c + 1 .. Latest
      <3>1. t \in c .. Latest \/ t \in 1..Latest
        BY <2>2, <2>3
      <3>2. t > c
        BY <2>3
      <3> QED BY <1>1, <3>1, <3>2
    <2>5. ASSUME NEW t \in c + 1 .. Latest PROVE t \in merged
      BY <1>1, <2>3
    <2>6. merged = c + 1 .. Latest
      BY <2>4, <2>5
    <2> QED BY <2>1, <2>6
  <1>8. merged = {} => lane[l].cur = Latest /\ \A s \in lane[l].ready : previous[s] # 0
    <2>1. lane[l].cur < Latest => lane[l].cur + 1 \in merged
      BY <1>1, <1>7
    <2>2. lane[l].cur = Latest => Quiet(l, 1..end)
      BY <1>1, <1>5 DEF Quiet
    <2> QED BY <1>1, <1>4, <2>1, <2>2 DEF Primed
  <1> HIDE DEF trades
  <1> DEFINE a == IF merged = {} THEN "drain" ELSE "decide"
  <1>9. /\ Becomes(l, a, lane[l].ready, lane[l].fresh, lane[l].cur, merged, lane[l].recorded)
        /\ a \in {"decide", "drain"} /\ (a = "drain" <=> merged = {})
    BY <1>6
  <1> HIDE DEF a
  <1>10. LaneHolds(l)'
    <2>1. a = "decide" => Latest \in 1..Latest
      BY <1>1, <1>7, <1>9
    <2>2. priceBuffer' = Latest + 1 .. Latest
      BY <1>1, <1>2
    <2>3. Contiguous(l)'
      <3>1. CASE a = "decide"
        BY <1>1, <1>2, <1>3, <1>7, <1>9, <2>1, <2>2, <3>1 DEF Contiguous, Becomes
      <3>2. CASE a = "drain"
        <4>1. lane[l].cur = Latest /\ priceBuffer' = lane[l].cur + 1 .. Latest
          BY <1>8, <1>9, <2>2, <3>2
        <4> QED BY <1>1, <1>2, <1>3, <1>9, <3>2, <4>1 DEF Contiguous, Becomes
      <3> QED BY <1>9, <3>1, <3>2
    <2> QED BY <1>2, <1>3, <1>9, <2>3 DEF LaneHolds, Becomes, Deciding, Ending
  <1>11. ASSUME NEW s \in PriceSubs, IsArmed(s) PROVE Seeds(l, s)'
    <2>1. Judged(s) /\ Seeds(l, s)
      BY <1>11 DEF CalmInv, Sound
    <2>2. s \in lane[l].ready => since[s] # 0
      BY <1>2, <2>1 DEF Seeds, Deciding
    <2>3. s \in lane[l].ready /\ a = "drain" => previous[s] = lane[l].cur
      <3>1. previous[s] \in 0..Latest
        BY <1>1, SubTyping, Typing
      <3> QED BY <1>1, <1>3, <1>8, <1>9, <2>1, <3>1 DEF Judged
    <2> QED BY <1>2, <1>9, <2>2, <2>3 DEF Seeds, Becomes, Deciding, Ending
  <1>12. ASSUME NEW s \in PriceSubs, IsArmed(s) PROVE Kept(s)' /\ Delivered(s)' /\ Judged(s)'
    BY <1>2, <1>9, <1>12, GoingOn DEF Deciding
  <1>13. PICK c, m, d : c = lane[l].cur /\ m = merged /\ d = lane[l].recorded
    OBVIOUS
  <1>14. Becomes(l, a, lane[l].ready, lane[l].fresh, c, m, d)
    BY <1>9, <1>13
  <1> QED BY <1>2, <1>9, <1>10, <1>11, <1>12, <1>14, TaskStep

(* What is drained leaves no hole either, and nothing behind at the end. *)
LEMMA DrainCalm ==
  ASSUME Steady, AlpacaSessionAssumption, CalmInv, [PricesNext]_pricesVars,
         NEW l \in Lanes, Drain(l)
  PROVE  CalmInv'
  <1>1. /\ PricesTyped /\ PricesRest /\ Latest \in Nat /\ persisted \in 0..Latest
        /\ pendingCursor \in 0..Latest /\ lane[l].cur \in 0..Latest /\ Latest' = Latest
    BY Numbers, LaneTyping, SameMarket DEF Steady, PricesRest, Drain, world
  <1>2. /\ UNCHANGED <<market, priceSub, persisted, priceSession, priceConn, heard, streaming,
                       seeding, known, pendingCursor, watch, previous, sending, queued, since>>
        /\ lane[l].at = "drain" /\ priceBuffer' = {}
    BY DEF Drain, Merge, world, run, connection
  <1>3. LaneHolds(l) /\ lane[l].ready \cup lane[l].fresh = watch /\ lane[l].cur = persisted
    BY <1>2 DEF CalmInv, LaneHolds, Deciding
  <1>4. PICK k \in 0..Latest :
          /\ lane[l].cur <= k /\ pendingCursor <= lane[l].cur
          /\ (priceSession = "on" => heard = k)
          /\ priceBuffer = lane[l].cur + 1 .. k
    BY <1>2, <1>3 DEF LaneHolds, Contiguous
  <1>5. ASSUME NEW s \in PriceSubs, IsArmed(s)
        PROVE  /\ s \in lane[l].ready => since[s] # 0 /\ previous[s] = lane[l].cur
               /\ s \in lane[l].ready => lane[l].cur # 0
    <2>1. Seeds(l, s) /\ Truthful(s) /\ priceSub[s].armedAt \in Nat
      BY <1>1, <1>5, SubTyping, Typing DEF CalmInv, Sound, Steady
    <2>2. s \in lane[l].ready => priceSub[s].armedAt < lane[l].cur
      BY <1>2, <1>5, <2>1 DEF Truthful, AfterArm, LaneAfterArm
    <2> QED BY <1>1, <1>2, <2>1, <2>2 DEF Seeds, Deciding
  <1>6. CASE priceBuffer # {}
    <2>1. Merge(l, priceBuffer)
      BY <1>6 DEF Drain
    <2>2. PICK merged \in SUBSET priceBuffer :
             /\ merged = {t \in priceBuffer : t > lane[l].cur}
             /\ Becomes(l, IF merged = {} THEN "drain" ELSE "decide", lane[l].ready, lane[l].fresh,
                        lane[l].cur, merged, lane[l].recorded)
      BY <1>1, <2>1, MergeBecomes
    <2>3. merged = priceBuffer
      BY <1>1, <1>4, <2>2
    <2>4. Becomes(l, "decide", lane[l].ready, lane[l].fresh, lane[l].cur, merged, lane[l].recorded)
      BY <1>6, <2>2, <2>3
    <2>5. LaneHolds(l)'
      <3>1. k \in 1..Latest /\ {} = k + 1 .. k
        BY <1>1, <1>4, <1>6
      <3>2. merged = lane[l].cur + 1 .. k /\ pendingCursor <= k
        BY <1>1, <1>4, <2>3
      <3>3. Contiguous(l)'
        BY <1>1, <1>2, <1>4, <2>4, <3>1, <3>2 DEF Contiguous, Becomes
      <3> QED BY <1>2, <1>3, <2>4, <3>3 DEF LaneHolds, Becomes, Deciding, Ending
    <2>6. ASSUME NEW s \in PriceSubs, IsArmed(s) PROVE Seeds(l, s)'
      BY <1>2, <1>5, <2>4, <2>6 DEF Seeds, Becomes, Deciding, Ending
    <2>7. PICK c, m, d : c = lane[l].cur /\ m = merged /\ d = lane[l].recorded
      OBVIOUS
    <2>8. Becomes(l, "decide", lane[l].ready, lane[l].fresh, c, m, d)
      BY <2>4, <2>7
    <2>9. ASSUME NEW s \in PriceSubs, IsArmed(s) PROVE Kept(s)' /\ Delivered(s)' /\ Judged(s)'
      BY <1>2, <2>8, <2>9, GoingOn DEF Deciding
    <2> QED BY <1>2, <2>5, <2>6, <2>8, <2>9, TaskStep
  <1>7. CASE priceBuffer = {}
    <2>1. PICK c, m, d : Becomes(l, "fresh", lane[l].ready, lane[l].fresh, c, m, d)
                         /\ d = lane[l].recorded
      BY <1>1, <1>7, DrainBecomes
    <2>2. k = lane[l].cur
      <3>1. lane[l].cur < k => k \in priceBuffer
        BY <1>1, <1>4
      <3> QED BY <1>1, <1>4, <1>7, <3>1
    <2>3. LaneHolds(l)'
      <3>1. Contiguous(l)'
        BY <2>1 DEF Contiguous, Becomes
      <3> QED BY <1>2, <1>3, <2>1, <3>1 DEF LaneHolds, Becomes, Deciding, Ending
    <2>4. ASSUME NEW s \in PriceSubs, IsArmed(s) PROVE Seeds(l, s)'
      <3>1. s \in watch => s \in lane[l].fresh \/ s \in lane[l].ready
        BY <1>3
      <3> QED BY <1>2, <1>4, <1>5, <2>1, <2>2, <2>4, <3>1
              DEF Seeds, Becomes, Deciding, Ending, HasPrice
    <2>5. ASSUME NEW s \in PriceSubs, IsArmed(s) PROVE Kept(s)' /\ Delivered(s)' /\ Judged(s)'
      BY <1>2, <2>1, <2>5, GoingOn DEF Deciding
    <2> QED BY <1>2, <2>1, <2>3, <2>4, <2>5, TaskStep
  <1> QED BY <1>6, <1>7

(* When nothing is missing from what is merged, a trade crosses against the *)
(* one before it.                                                           *)
LEMMA CrossingIsEntry ==
  ASSUME PricesTyped, AlpacaSessionAssumption, NEW s \in PriceSubs,
         NEW cur \in 1..Latest, NEW m \in 1..Latest, NEW t \in cur + 1 .. m
  PROVE  t \in Crossings(s, cur, cur + 1 .. m) <=> Entry(s, t)
  <1> DEFINE seen == {cur} \cup {i \in cur + 1 .. m : i < t}
             p == Max(seen)
  <1>1. Latest \in Nat
    BY Typing
  <1>2. t \in 1..Latest /\ t - 1 \in 1..Latest /\ t > 1 /\ t \in Nat
    BY <1>1
  <1>3. t - 1 \in seen /\ \A x \in seen : x \in 0..Latest /\ x <= t - 1
    BY <1>1, <1>2
  <1>4. seen \in SUBSET (0..Latest) /\ seen # {}
    BY <1>3
  <1>5. p = t - 1
    <2>1. p \in seen /\ \A x \in seen : x <= p
      <3> HIDE DEF seen
      <3> QED BY <1>1, <1>4, LargestOf
    <2>2. t - 1 <= p /\ p <= t - 1 /\ p \in 0..Latest
      BY <1>3, <2>1
    <2> HIDE DEF p, seen
    <2> QED BY <1>1, <1>2, <2>2
  <1>6. t \in Crossings(s, cur, cur + 1 .. m) <=> crosses(s, p, t)
    BY DEF Crossings
  <1> HIDE DEF p, seen
  <1> QED BY <1>2, <1>5, <1>6, CrossesIsPast DEF Entry

(* The trades of a replay fire each watch that one of them crosses. *)
LEMMA DecideCalm ==
  ASSUME Steady, AlpacaSessionAssumption, CalmInv, [PricesNext]_pricesVars,
         NEW l \in Lanes, Decide(l)
  PROVE  CalmInv'
  <1>1. /\ PricesTyped /\ PricesRest /\ PricesShape /\ Latest \in Nat /\ persisted \in 0..Latest
        /\ pendingCursor \in 0..Latest /\ lane[l].cur \in 0..Latest /\ Latest' = Latest
        /\ "main" \in Lanes /\ "replay" \in Lanes
    BY Numbers, LaneTyping, SameMarket DEF Steady, PricesRest, Decide
  <1>2. /\ UNCHANGED <<market, persisted, priceSession, priceConn, heard, streaming, priceBuffer,
                       seeding, known, pendingCursor, watch, sending, queued, since>>
        /\ lane[l].at = "decide"
    BY DEF Decide, run, connection
  <1>3. /\ LaneHolds(l) /\ lane[l].ready \cup lane[l].fresh = watch /\ lane[l].cur = persisted
        /\ streaming /\ priceConn = "up"
        /\ \A o \in Lanes : o # l => lane[o].at = "idle"
    BY <1>2, TaskIsLive, OneAtATime DEF CalmInv, LaneHolds, Deciding, Steady
  <1>4. PICK c \in 0..Latest, m \in 1..Latest : 
          /\ c = lane[l].cur /\ lane[l].merged = c + 1 .. m /\ pendingCursor <= m
    BY <1>1, <1>2, <1>3 DEF LaneHolds, Contiguous
  <1>5. c < m /\ m \in lane[l].merged
    <2>1. lane[l].merged # {}
      BY <1>1, <1>2 DEF PricesShape
    <2> QED BY <1>1, <1>4, <2>1
  <1>6. Max(lane[l].merged) = m
    <2>1. lane[l].merged \in SUBSET (0..Latest) /\ lane[l].merged # {}
      BY <1>1, <1>4, <1>5
    <2>2. Max(lane[l].merged) \in lane[l].merged /\ m <= Max(lane[l].merged)
      BY <1>1, <1>5, <2>1, LargestOf
    <2> QED BY <1>1, <1>4, <2>2
  <1> DEFINE hits(s) == Crossings(s, lane[l].cur, lane[l].merged)
             firing == {s \in lane[l].ready : hits(s) # {}}
  <1>7. /\ priceSub' = [s \in PriceSubs |-> IF s \in firing THEN FiredAt(s, Min(hits(s)))
                                                           ELSE priceSub[s]]
        /\ Becomes(l, "advance", lane[l].ready, lane[l].fresh, lane[l].cur, lane[l].merged, TRUE)
        /\ previous' = [s \in PriceSubs |-> IF s \in lane[l].ready THEN m ELSE previous[s]]
    <2>1. PICK failed \in SUBSET firing :
            /\ "failure" \notin circumstances => failed = {}
            /\ priceSub' = [s \in PriceSubs |-> IF s \in firing \ failed
                                                 THEN FiredAt(s, Min(hits(s))) ELSE priceSub[s]]
            /\ Becomes(l, "advance", lane[l].ready, lane[l].fresh, lane[l].cur, lane[l].merged,
                       failed = {})
      BY <1>1, DecideBecomes
    <2>2. failed = {}
      BY <2>1 DEF Steady
    <2> HIDE DEF firing, hits
    <2>3. firing \ failed = firing /\ (failed = {}) = TRUE
      BY <2>2
    <2>4. Becomes(l, "advance", lane[l].ready, lane[l].fresh, lane[l].cur, lane[l].merged, TRUE)
      BY <2>1, <2>2 DEF Becomes
    <2>5. previous' = [s \in PriceSubs |-> IF s \in lane[l].ready THEN m ELSE previous[s]]
      BY <1>6 DEF Decide
    <2> QED BY <2>1, <2>3, <2>4, <2>5
  <1>8. LaneHolds(l)'
    <2>1. Contiguous(l)'
      BY <1>1, <1>2, <1>3, <1>7 DEF LaneHolds, Contiguous, Becomes
    <2> QED BY <1>2, <1>3, <1>7, <2>1 DEF LaneHolds, Becomes, Deciding, Ending
  <1>9. ASSUME NEW s \in PriceSubs, IsArmed(s), s \in lane[l].ready
        PROVE  /\ c \in 1..Latest
               /\ \A t \in lane[l].merged : t \in hits(s) <=> Entry(s, t)
    <2>1. Truthful(s) /\ priceSub[s].armedAt \in Nat
      BY <1>1, SubTyping, Typing DEF Steady
    <2>2. priceSub[s].armedAt < lane[l].cur
      BY <1>2, <1>9, <2>1 DEF Truthful, AfterArm, LaneAfterArm
    <2>3. c \in 1..Latest
      BY <1>1, <1>4, <2>1, <2>2
    <2>4. ASSUME NEW t \in c + 1 .. m PROVE t \in Crossings(s, c, c + 1 .. m) <=> Entry(s, t)
      BY <1>1, <2>3, <2>4, CrossingIsEntry
    <2> QED BY <1>4, <2>3, <2>4
  <1>10. ASSUME NEW s \in PriceSubs PROVE hits(s) \subseteq lane[l].merged
    BY DEF Crossings
  <1> HIDE DEF hits
  <1>11. ASSUME NEW s \in firing, IsArmed(s) PROVE Sound(s)'
    <2>1. s \in PriceSubs /\ s \in lane[l].ready /\ hits(s) # {}
      BY <1>1, LaneTyping
    <2>2. hits(s) \in SUBSET (0..Latest)
      BY <1>1, <1>4, <1>10, <2>1
    <2>3. PICK t \in hits(s) : t = Min(hits(s))
      BY <1>1, <2>1, <2>2, LeastOf
    <2>4. t \in lane[l].merged /\ t \in 1..Latest
      BY <1>1, <1>4, <1>10, <2>1
    <2>5. Entry(s, t)'
      BY <1>1, <1>9, <1>11, <2>1, <2>4, EntryStands
    <2>6. priceSub'[s] = [priceSub[s] EXCEPT !.status = "fired", !.trade = t]
      BY <1>7, <1>11, <2>1, <2>3 DEF FiredAt
    <2>7. priceSub'[s].status = "fired" /\ priceSub'[s].trade = t
      BY <1>1, <2>1, <2>6 DEF PricesRest
    <2>8. (Entry(s, priceSub[s].trade) <=> Entry(s, t))'
      BY <2>7 DEF Entry, Past
    <2> QED BY <2>5, <2>7, <2>8 DEF Sound, IsArmed
  <1>12. ASSUME NEW s \in PriceSubs, s \notin firing \/ ~ IsArmed(s)
         PROVE  priceSub'[s] = priceSub[s]
    BY <1>7, <1>12 DEF FiredAt
  <1>13. ASSUME NEW s \in PriceSubs, s \notin firing, IsArmed(s)
         PROVE  Kept(s)' /\ Delivered(s)' /\ Judged(s)' /\ Seeds(l, s)'
    <2>1. /\ Kept(s) /\ Delivered(s) /\ Judged(s) /\ Seeds(l, s) /\ priceSub'[s] = priceSub[s]
          /\ priceSub[s].armedAt \in Nat
      BY <1>1, <1>12, <1>13, SubTyping, Typing DEF CalmInv, Sound
    <2>2. lane'[l].at = "advance" /\ lane'[l].fresh = lane[l].fresh /\
            lane'[l].ready = lane[l].ready
          /\ lane'[l].merged = lane[l].merged
          /\ \A o \in Lanes : o # l => lane'[o] = lane[o]
      BY <1>7 DEF Becomes
    <2>3. CASE s \in lane[l].ready
      <3>1. hits(s) = {} /\ previous'[s] = m
        BY <1>7, <1>13, <2>3
      <3>2. since[s] # 0 /\ s \in watch
        BY <1>2, <1>3, <2>1, <2>3 DEF Seeds, Deciding
      <3>3. \A t \in lane[l].merged : ~ Entry(s, t)
        BY <1>9, <1>13, <2>3, <3>1
      <3>4. \A t \in lane[l].merged : ~ Entry(s, t)'
        BY <1>1, <1>4, <3>3, EntryStands
      <3>5. Sent(s, m)'
        <4> SUFFICES ASSUME NEW t \in 1..m, t > since'[s], Entry(s, t)' PROVE <<s, t>> \in sending'
          BY DEF Sent
        <4>1. t \notin lane[l].merged
          BY <3>4
        <4>2. t \in 1..persisted /\ t \in 1..Latest
          BY <1>1, <1>3, <1>4, <4>1
        <4>3. Entry(s, t) /\ t > since[s]
          BY <1>1, <1>2, <4>2, EntryStands
        <4> QED BY <1>2, <2>1, <3>2, <4>2, <4>3 DEF Delivered, Sent
      <3>6. Sent(s, persisted)'
        <4>1. PICK k \in 0..m : k = persisted
          BY <1>1, <1>3, <1>4, <1>5
        <4>2. Sent(s, k)'
          BY <3>5, <4>1 DEF Sent
        <4> QED BY <1>2, <4>1, <4>2 DEF Sent
      <3>7. ASSUME NEW late \in sending', late[1] = s PROVE Entry(s, late[2])'
        <4>1. late \in sending /\ late[2] \in 1..Latest
          BY <1>1, <1>2, <3>7 DEF PricesRest
        <4>2. Entry(s, late[2])
          BY <2>1, <3>7, <4>1 DEF Delivered
        <4> QED BY <1>1, <4>1, <4>2, EntryStands
      <3>8. Delivered(s)'
        <4>1. Sent(s, previous[s])'
          BY <3>1, <3>5 DEF Sent
        <4> QED BY <3>6, <3>7, <4>1 DEF Delivered
      <3>9. Seeds(l, s)'
        BY <1>1, <1>2, <1>4, <1>5, <2>2, <3>1, <3>2, <3>4 DEF Seeds, Deciding, Ending
      <3>10. CASE l = "main"
        <4>1. s \notin lane["main"].fresh
          BY <1>2, <2>1, <3>2, <3>10 DEF Kept, MainAt, Deciding
        <4>2. Kept(s)'
          BY <1>1, <1>2, <1>3, <2>1, <2>2, <3>2, <3>10, <4>1
            DEF Kept, Early, MainAt, ReplayAt, Deciding, Ending
        <4>3. Judged(s)'
          BY <1>1, <1>2, <1>3, <1>4, <1>5, <2>1, <2>2, <3>1, <3>2, <3>10
            DEF Judged, Busy, HasPrice, MainAt, ReplayAt
        <4> QED BY <3>8, <3>9, <4>2, <4>3
      <3>11. CASE l = "replay"
        <4>1. Kept(s)'
          BY <1>1, <1>2, <1>3, <2>1, <2>2, <3>2, <3>11
            DEF Kept, Early, MainAt, ReplayAt, Deciding, Ending
        <4>2. Judged(s)'
          BY <1>1, <1>2, <1>3, <1>4, <1>5, <2>1, <2>2, <3>1, <3>2, <3>11
            DEF Judged, Busy, HasPrice, MainAt, ReplayAt
        <4> QED BY <3>8, <3>9, <4>1, <4>2
      <3> QED BY <3>10, <3>11 DEF Lanes
    <2>4. CASE s \notin lane[l].ready
      <3>1. previous'[s] = previous[s]
        BY <1>7, <2>4
      <3>2. Seeds(l, s)'
        BY <2>2, <2>4 DEF Seeds, Deciding, Ending
      <3>3. Delivered(s)'
        BY <1>1, <1>2, <2>1, <3>1, DeliveredStands
      <3>4. CASE l = "main"
        BY <1>1, <1>2, <1>3, <2>1, <2>2, <3>1, <3>2, <3>3, <3>4
          DEF Kept, Early, Judged, Busy, HasPrice, MainAt, ReplayAt, Deciding, Ending
      <3>5. CASE l = "replay"
        BY <1>1, <1>2, <1>3, <2>1, <2>2, <3>1, <3>2, <3>3, <3>5
          DEF Kept, Early, Judged, Busy, HasPrice, MainAt, ReplayAt, Deciding, Ending
      <3> QED BY <3>4, <3>5 DEF Lanes
    <2> QED BY <2>3, <2>4
  <1> HIDE DEF firing
  <1>14. PICK x, y, z : Becomes(l, "advance", lane[l].ready, lane[l].fresh, x, y, z)
    BY <1>7
  <1> QED BY <1>2, <1>8, <1>11, <1>12, <1>13, <1>14, TaskStep

(* The cursor moves to the last trade that was decided on. *)
LEMMA AdvanceCalm ==
  ASSUME Steady, AlpacaSessionAssumption, CalmInv, [PricesNext]_pricesVars,
         NEW l \in Lanes, Advance(l)
  PROVE  CalmInv'
  <1>1. /\ PricesTyped /\ PricesRest /\ PricesShape /\ Latest \in Nat /\ persisted \in 0..Latest
        /\ pendingCursor \in 0..Latest /\ lane[l].cur \in 0..Latest /\ Latest' = Latest
        /\ "main" \in Lanes /\ "replay" \in Lanes
    BY Numbers, LaneTyping, SameMarket DEF Steady, PricesRest, Advance, world
  <1>2. /\ UNCHANGED <<market, priceSub, priceSession, priceConn, heard, streaming, priceBuffer,
                       seeding, known, watch, previous, sending, queued, since>>
        /\ lane[l].at = "advance"
    BY DEF Advance, run, connection, world
  <1>3. /\ LaneHolds(l) /\ lane[l].ready \cup lane[l].fresh = watch /\ lane[l].cur = persisted
        /\ lane[l].recorded /\ streaming /\ priceConn = "up"
        /\ \A o \in Lanes : o # l => lane[o].at = "idle"
    BY <1>2, TaskIsLive, OneAtATime DEF CalmInv, LaneHolds, Deciding, Steady
  <1>4. PICK c \in 0..Latest, m \in 1..Latest, k \in 0..Latest :
          /\ c = lane[l].cur /\ lane[l].merged = c + 1 .. m /\ pendingCursor <= m
          /\ m <= k /\ (priceSession = "on" => heard = k) /\ priceBuffer = m + 1 .. k
    BY <1>1, <1>2, <1>3 DEF LaneHolds, Contiguous
  <1>5. c < m /\ m \in lane[l].merged
    <2>1. lane[l].merged # {}
      BY <1>1, <1>2 DEF PricesShape
    <2> QED BY <1>1, <1>4, <2>1
  <1>6. NextCursor(l) = m
    <2>1. lane[l].merged \in SUBSET (0..Latest) /\ lane[l].merged # {}
      BY <1>1, <1>4, <1>5
    <2>2. NextCursor(l) \in lane[l].merged /\ m <= NextCursor(l)
      BY <1>1, <1>5, <2>1, LargestOf DEF NextCursor
    <2> QED BY <1>1, <1>4, <2>2
  <1>7. /\ persisted' = m /\ pendingCursor' = m
        /\ Becomes(l, "drain", lane[l].ready, lane[l].fresh, m, {}, lane[l].recorded)
    <2>1. Max({persisted, m}) = m
      BY <1>1, <1>3, <1>4, <1>5, LargerOf
    <2>2. persisted' = m /\ pendingCursor' = m
      BY <1>1, <1>3, <1>4, <1>5, <1>6, <2>1 DEF Advance
    <2> QED BY <1>1, <1>3, <1>6, <2>2, AdvanceBecomes
  <1>8. LaneHolds(l)'
    <2>1. Contiguous(l)'
      BY <1>1, <1>2, <1>4, <1>7 DEF Contiguous, Becomes
    <2> QED BY <1>2, <1>3, <1>7, <2>1 DEF LaneHolds, Becomes, Deciding, Ending
  <1>9. ASSUME NEW s \in PriceSubs, IsArmed(s)
        PROVE  Kept(s)' /\ Delivered(s)' /\ Judged(s)' /\ Seeds(l, s)'
    <2>1. /\ Kept(s) /\ Delivered(s) /\ Judged(s) /\ Seeds(l, s) /\ priceSub'[s] = priceSub[s]
          /\ priceSub[s].armedAt \in Nat /\ previous[s] \in 0..Latest
      BY <1>1, <1>2, <1>9, SubTyping, Typing DEF CalmInv, Sound
    <2>2. lane'[l].at = "drain" /\ lane'[l].fresh = lane[l].fresh /\ lane'[l].ready = lane[l].ready
          /\ lane'[l].cur = m /\ \A o \in Lanes : o # l => lane'[o] = lane[o]
      BY <1>7 DEF Becomes
    <2>3. s \in lane[l].ready => previous[s] = m /\ since[s] # 0
      BY <1>1, <1>2, <1>4, <1>5, <2>1 DEF Seeds, Deciding
    <2>4. s \notin lane[l].ready => since[s] = 0 \/ (s \notin lane[l].fresh /\ s \notin watch)
      BY <1>2, <1>3, <2>1 DEF Kept, MainAt, Deciding, Lanes
    <2>5. since[s] # 0 => s \in lane[l].ready
      BY <1>3, <2>1, <2>4 DEF Kept
    <2>6. Seeds(l, s)'
      BY <1>2, <2>2, <2>3 DEF Seeds, Deciding, Ending
    <2>7. Delivered(s)'
      <3>1. PICK p \in 0..Latest : p = previous[s]
        BY <2>1
      <3>2. since[s] # 0 /\ s \in watch => Sent(s, p)'
        BY <1>1, <1>2, <2>1, <3>1, SentStands DEF Delivered
      <3>3. (since[s] # 0 /\ s \in watch => Sent(s, previous[s]))'
        BY <1>2, <3>1, <3>2 DEF Sent
      <3>4. since[s] # 0 => s \in watch /\ p = m
        BY <1>3, <2>3, <2>5, <3>1
      <3>5. (since[s] # 0 => Sent(s, persisted))'
        BY <1>2, <1>7, <3>2, <3>4 DEF Sent
      <3>6. ASSUME NEW late \in sending', late[1] = s PROVE Entry(s, late[2])'
        <4>1. late \in sending /\ late[2] \in 1..Latest
          BY <1>1, <1>2, <3>6 DEF PricesRest
        <4>2. Entry(s, late[2])
          BY <2>1, <3>6, <4>1 DEF Delivered
        <4> QED BY <1>1, <4>1, <4>2, EntryStands
      <3> QED BY <3>3, <3>5, <3>6 DEF Delivered
    <2>8. s \in watch /\ previous[s] # 0 => previous[s] = m
      BY <1>2, <1>3, <2>1, <2>3 DEF Kept, MainAt, Deciding, Lanes
    <2>9. CASE l = "main"
      <3>1. Kept(s)'
        BY <1>1, <1>2, <1>3, <1>4, <1>5, <1>7, <2>1, <2>2, <2>9
          DEF Kept, Early, MainAt, ReplayAt, Deciding, Ending
      <3>2. Judged(s)'
        BY <1>1, <1>2, <1>3, <1>7, <2>1, <2>2, <2>8, <2>9
          DEF Judged, Busy, HasPrice, MainAt, ReplayAt
      <3> QED BY <2>6, <2>7, <3>1, <3>2
    <2>10. CASE l = "replay"
      <3>1. Kept(s)'
        BY <1>1, <1>2, <1>3, <1>4, <1>5, <1>7, <2>1, <2>2, <2>10
          DEF Kept, Early, MainAt, ReplayAt, Deciding, Ending
      <3>2. Judged(s)'
        BY <1>1, <1>2, <1>3, <1>7, <2>1, <2>2, <2>8, <2>10
          DEF Judged, Busy, HasPrice, MainAt, ReplayAt
      <3> QED BY <2>6, <2>7, <3>1, <3>2
    <2> QED BY <2>9, <2>10 DEF Lanes
  <1>10. PICK x, y, z : Becomes(l, "drain", lane[l].ready, lane[l].fresh, x, y, z)
    BY <1>7
  <1> QED BY <1>2, <1>8, <1>9, <1>10, TaskStep

(* A watch seeded afresh starts from the last trade. *)
LEMMA SeedCalm ==
  ASSUME Steady, AlpacaSessionAssumption, CalmInv, [PricesNext]_pricesVars,
         NEW l \in Lanes, FreshSeed(l) \/ Snapshot(l)
  PROVE  CalmInv'
  <1>1. /\ PricesTyped /\ PricesRest /\ Latest \in Nat /\ Latest > 0 /\ persisted \in 0..Latest
        /\ pendingCursor \in 0..Latest /\ Latest' = Latest
        /\ "main" \in Lanes /\ "replay" \in Lanes
    BY Numbers, SameMarket DEF Steady, PricesRest, FreshSeed, Snapshot, world
  <1>2. /\ UNCHANGED <<market, priceSub, persisted, priceSession, priceConn, heard, streaming,
                       priceBuffer, pendingCursor, seeding, known, watch, sending, queued>>
        /\ lane[l].at \in Ending
    BY DEF FreshSeed, Snapshot, run, connection, world, Ending
  <1>3. /\ LaneHolds(l) /\ lane[l].fresh \subseteq watch /\ lane[l].recorded
        /\ streaming /\ priceConn = "up" /\ heard = Latest
        /\ \A o \in Lanes : o # l => lane[o].at = "idle"
    BY <1>2, TaskIsLive, OneAtATime DEF CalmInv, LaneHolds, Ending, Steady
  <1>4. ASSUME known = 0,
               Goes(l, [lane[l] EXCEPT !.at = "snapshot", !.merged = {Latest}]),
               UNCHANGED <<previous, since>>
        PROVE  CalmInv'
    <2>1. Becomes(l, "snapshot", lane[l].ready, lane[l].fresh, lane[l].cur, {Latest},
                  lane[l].recorded)
      BY <1>1, <1>4, SnapshotBecomes
    <2>2. LaneHolds(l)'
      <3>1. Contiguous(l)'
        BY <2>1 DEF Contiguous, Becomes
      <3> QED BY <1>1, <1>2, <1>3, <1>4, <2>1, <3>1 DEF LaneHolds, Becomes, Deciding, Ending
    <2>3. ASSUME NEW s \in PriceSubs, IsArmed(s)
          PROVE  Kept(s)' /\ Delivered(s)' /\ Judged(s)' /\ Seeds(l, s)'
      <3>1. Kept(s) /\ Delivered(s) /\ Judged(s) /\ Seeds(l, s) /\ priceSub'[s] = priceSub[s]
        BY <1>2, <2>3 DEF CalmInv, Sound
      <3>2. lane'[l].at = "snapshot" /\ lane'[l].fresh = lane[l].fresh
            /\ \A o \in Lanes : o # l => lane'[o] = lane[o]
        BY <2>1 DEF Becomes
      <3>3. Delivered(s)'
        BY <1>1, <1>2, <1>4, <3>1, DeliveredStands
      <3>4. Seeds(l, s)'
        BY <1>2, <1>4, <3>1, <3>2 DEF Seeds, HasPrice, Deciding, Ending
      <3>5. CASE l = "main"
        BY <1>1, <1>2, <1>3, <1>4, <3>1, <3>2, <3>3, <3>4, <3>5
          DEF Kept, Early, Judged, Busy, HasPrice, MainAt, ReplayAt, Deciding, Ending
      <3>6. CASE l = "replay"
        BY <1>1, <1>2, <1>3, <1>4, <3>1, <3>2, <3>3, <3>4, <3>6
          DEF Kept, Early, Judged, Busy, HasPrice, MainAt, ReplayAt, Deciding, Ending
      <3> QED BY <3>5, <3>6 DEF Lanes
    <2>4. PICK x, y, z : Becomes(l, "snapshot", lane[l].ready, lane[l].fresh, x, y, z)
      BY <2>1
    <2> QED BY <1>2, <2>2, <2>3, <2>4, TaskStep DEF Ending
  <1>5. ASSUME NEW q \in lane[l].fresh, NEW t, SeededFrom(l, q, t), l = "main" => t = Latest
        PROVE  CalmInv'
    <2>1. Becomes(l, "fresh", lane[l].ready, lane[l].fresh \ {q}, lane[l].cur, {}, lane[l].recorded)
      BY <1>1, <1>5, SeedBecomes
    <2>2. LaneHolds(l)'
      <3>1. Contiguous(l)'
        BY <2>1 DEF Contiguous, Becomes
      <3> QED BY <1>1, <1>2, <1>3, <2>1, <3>1 DEF LaneHolds, Becomes, Deciding, Ending
    <2>3. ASSUME NEW s \in PriceSubs, IsArmed(s)
          PROVE  Kept(s)' /\ Delivered(s)' /\ Judged(s)' /\ Seeds(l, s)'
      <3>1. Kept(s) /\ Delivered(s) /\ Judged(s) /\ Seeds(l, s) /\ priceSub'[s] = priceSub[s]
        BY <1>2, <2>3 DEF CalmInv, Sound
      <3>2. lane'[l].at = "fresh" /\ lane'[l].fresh = lane[l].fresh \ {q}
            /\ \A o \in Lanes : o # l => lane'[o] = lane[o]
        BY <2>1 DEF Becomes
      <3>3. CASE s # q
        <4>1. previous'[s] = previous[s] /\ since'[s] = since[s]
          BY <1>1, <1>5, <3>3 DEF SeededFrom, Seed, PricesRest
        <4>2. Delivered(s)'
          BY <1>1, <1>2, <3>1, <4>1, DeliveredStands
        <4>3. Seeds(l, s)'
          BY <1>2, <3>1, <3>2, <3>3, <4>1 DEF Seeds, HasPrice, Deciding, Ending
        <4>4. CASE l = "main"
          BY <1>1, <1>2, <1>3, <3>1, <3>2, <3>3, <4>1, <4>2, <4>3, <4>4
            DEF Kept, Early, Judged, Busy, HasPrice, MainAt, ReplayAt, Deciding, Ending
        <4>5. CASE l = "replay"
          BY <1>1, <1>2, <1>3, <3>1, <3>2, <3>3, <4>1, <4>2, <4>3, <4>5
            DEF Kept, Early, Judged, Busy, HasPrice, MainAt, ReplayAt, Deciding, Ending
        <4> QED BY <4>4, <4>5 DEF Lanes
      <3>4. CASE s = q
        <4>1. l = "main" /\ s \in watch
          BY <1>3, <3>1, <3>4 DEF Kept, Lanes
        <4>2. since[s] = 0
          BY <1>2, <3>1, <3>4, <4>1 DEF Kept, MainAt
        <4>3. previous'[s] = Latest /\ since'[s] = Latest
          BY <1>1, <1>5, <3>4, <4>1, <4>2 DEF SeededFrom, Seed, PricesRest
        <4>4. Delivered(s)'
          <5>1. ASSUME NEW late \in sending', late[1] = s PROVE Entry(s, late[2])'
            <6>1. late \in sending /\ late[2] \in 1..Latest
              BY <1>1, <1>2, <5>1 DEF PricesRest
            <6>2. Entry(s, late[2])
              BY <3>1, <5>1, <6>1 DEF Delivered
            <6> QED BY <1>1, <6>1, <6>2, EntryStands
          <5>2. Sent(s, persisted)' /\ Sent(s, previous[s])'
            BY <1>1, <1>2, <4>3 DEF Sent
          <5> QED BY <5>1, <5>2 DEF Delivered
        <4>5. Seeds(l, s)'
          BY <1>1, <1>2, <1>3, <3>2, <4>3 DEF Seeds, HasPrice, Deciding, Ending
        <4>6. Kept(s)'
          BY <1>1, <1>2, <1>3, <3>1, <3>2, <3>4, <4>1
            DEF Kept, Early, MainAt, ReplayAt, Deciding, Ending
        <4>7. Judged(s)'
          BY <1>1, <1>2, <1>3, <3>1, <3>2, <4>1, <4>3
            DEF Judged, Busy, HasPrice, MainAt, ReplayAt
        <4> QED BY <4>4, <4>5, <4>6, <4>7
      <3> QED BY <3>3, <3>4
    <2>4. PICK r, f, x, y, z : Becomes(l, "fresh", r, f, x, y, z)
      BY <2>1
    <2> QED BY <1>2, <2>2, <2>3, <2>4, TaskStep DEF Ending
  <1>6. CASE Snapshot(l)
    <2>1. PICK q \in lane[l].fresh, t \in lane[l].merged : SeededFrom(l, q, t)
      BY <1>6 DEF Snapshot
    <2>2. t = Latest
      BY <1>3, <1>6, <2>1 DEF Snapshot, LaneHolds
    <2> QED BY <1>5, <2>1, <2>2
  <1>7. CASE FreshSeed(l)
    <2>1. ASSUME known # 0, NEW q \in lane[l].fresh, SeededFrom(l, q, known)
          PROVE  CalmInv'
      <3>1. l = "main" => known = Latest
        BY <1>2, <1>3, <2>1 DEF CalmInv, Orderly, MainAt, Ending
      <3> QED BY <1>5, <2>1, <3>1
    <2> QED BY <1>4, <1>7, <2>1 DEF FreshSeed
  <1> QED BY <1>6, <1>7

(* A seeding that ends has given every watch the last price. *)
LEMMA SeededCalm ==
  ASSUME Steady, AlpacaSessionAssumption, CalmInv, [PricesNext]_pricesVars,
         NEW l \in Lanes, Seeded(l)
  PROVE  CalmInv'
  <1>1. /\ PricesTyped /\ PricesRest /\ Latest \in Nat /\ "main" \in Lanes /\ "replay" \in Lanes
    BY Numbers DEF Steady
  <1>2. /\ UNCHANGED <<market, priceSub, persisted, priceSession, priceConn, heard, streaming,
                       priceBuffer, pendingCursor, known, watch, previous, sending, since>>
        /\ lane[l].at = "fresh" /\ lane[l].fresh = {}
    BY DEF Seeded, run, connection, world
  <1>3. /\ LaneHolds(l) /\ streaming /\ priceConn = "up" /\ heard = Latest /\ queued = 0
        /\ \A o \in Lanes : o # l => lane[o].at = "idle"
    BY <1>2, TaskIsLive, OneAtATime DEF CalmInv, Orderly, Ending, Steady
  <1>4. /\ seeding' = FALSE /\ queued' = 0
        /\ Becomes(l, "idle", {}, {}, 0, {}, TRUE)
    <2>1. ~ Requeues(l)
      BY <1>3 DEF Requeues
    <2>2. seeding' = FALSE /\ queued' = 0 /\ Goes(l, Idle)
      BY <1>3, <2>1 DEF Seeded, StillSeeding
    <2> QED BY <1>1, <2>2, IdleBecomes
  <1>5. /\ MainAt' = "idle" /\ ReplayAt' = "idle" /\ \A o \in Lanes : lane'[o].at = "idle"
    BY <1>1, <1>3, <1>4 DEF MainAt, ReplayAt, Becomes
  <1>6. Orderly'
    BY <1>1, <1>2, <1>3, <1>4, <1>5 DEF Orderly, Busy
  <1>7. ASSUME NEW o \in Lanes PROVE LaneHolds(o)'
    <2>1. lane'[o].recorded
      BY <1>3, <1>4 DEF Becomes, LaneHolds, CalmInv
    <2> QED BY <1>5, <2>1 DEF LaneHolds, Contiguous, Deciding, Ending
  <1>8. ASSUME NEW s \in PriceSubs PROVE Sound(s)'
    <2>1. ASSUME IsArmed(s)
          PROVE  Kept(s)' /\ Delivered(s)' /\ Judged(s)' /\ \A o \in Lanes : Seeds(o, s)'
      <3>1. Kept(s) /\ Delivered(s) /\ Judged(s) /\ Seeds(l, s)
        BY <2>1 DEF CalmInv, Sound
      <3>2. \A o \in Lanes : Seeds(o, s)'
        BY <1>5 DEF Seeds, Deciding, Ending
      <3>3. Delivered(s)'
        BY <1>1, <1>2, <3>1, DeliveredStands
      <3>4. s \in watch => HasPrice(s) /\ (priceSession = "on" => previous[s] = heard)
        BY <1>2, <3>1 DEF Seeds, Ending
      <3>5. s \notin lane'["replay"].fresh
        BY <1>1, <1>3, <1>4, <3>1 DEF Becomes, Kept, Lanes
      <3>6. Kept(s)'
        BY <1>1, <1>2, <1>3, <1>5, <3>1, <3>5 DEF Kept, Early, Deciding, Ending
      <3>7. Judged(s)'
        BY <1>1, <1>2, <1>3, <1>5, <3>1, <3>4 DEF Judged, Busy, HasPrice
      <3> QED BY <3>2, <3>3, <3>6, <3>7
    <2> QED BY <1>1, <1>2, <2>1, SoundStands DEF CalmInv, Steady
  <1> QED BY <1>6, <1>7, <1>8 DEF CalmInv

(* Every step keeps the invariant. *)
LEMMA CalmStays ==
  ASSUME Steady, AlpacaSessionAssumption, CalmInv, [PricesNext]_pricesVars
  PROVE  CalmInv'
  <1>1. ASSUME NEW l \in Lanes PROVE ~ SeedingFails(l)
    BY DEF SeedingFails, Steady
  <1>2. ASSUME NEW l \in Lanes, Seeding(l) PROVE CalmInv'
    BY <1>2, ReadCalm, FetchCalm, DecideCalm, AdvanceCalm, DrainCalm, SeedCalm, SeededCalm
      DEF Seeding
  <1> QED BY <1>1, <1>2, TradeCalm, LiveTradeCalm, ArmCalm, DeliveryCalm, ConnectionCalm,
             ReconnectCalm, MembershipCalm, JoinCalm, AckCalm, ForgettingCalm
          DEF PricesNext

(* The invariant holds before the first session. *)
LEMMA CalmInit ==
  ASSUME AlpacaSessionAssumption, PricesInit
  PROVE  CalmInv
  <1>1. PricesTyped /\ PricesRest
    BY PricesInitTyped, Typing
  <1>2. /\ persisted = 0 /\ ~ streaming /\ ~ seeding /\ known = 0 /\ pendingCursor = 0
        /\ watch = {} /\ sending = {} /\ queued = 0
        /\ \A s \in PriceSubs : since[s] = 0 /\ previous[s] = 0 /\ priceSub[s].status = "new"
        /\ \A l \in Lanes : lane[l].at = "idle" /\ lane[l].recorded
    BY DEF PricesInit, Idle, Task
  <1>3. Orderly
    BY <1>2 DEF Orderly, Busy, MainAt, ReplayAt, Lanes
  <1>4. \A l \in Lanes : LaneHolds(l)
    BY <1>2 DEF LaneHolds, Contiguous, Deciding, Ending
  <1>5. \A s \in PriceSubs : Sound(s)
    BY <1>2 DEF Sound, IsArmed
  <1> QED BY <1>3, <1>4, <1>5 DEF CalmInv

(* In the calm, the invariant holds of every behaviour of the sessions.     *)
LEMMA CalmInductive ==
  ASSUME AlpacaSessionAssumption
  PROVE  PricesSpec => [](circumstances = {} => CalmInv)
  <1>1. /\ PricesIInv /\ (circumstances = {} => CalmInv) /\ [PricesNext]_pricesVars
        => (circumstances = {} => CalmInv)'
    <2> SUFFICES ASSUME PricesIInv, circumstances = {} => CalmInv, [PricesNext]_pricesVars,
                        circumstances' = {}
                 PROVE  CalmInv'
      OBVIOUS
    <2>1. circumstances = {}
      BY MarketGrows DEF PricesIInv
    <2>2. Steady
      BY <2>1 DEF PricesIInv, Mild, Steady
    <2> QED BY <2>1, <2>2, CalmStays
  <1>2. PricesInit => (circumstances = {} => CalmInv)
    BY CalmInit
  <1> QED BY <1>1, <1>2, PricesInductive, PTL DEF PricesSpec

(* At rest every crossing has woken, and prices are current.                *)
LEMMA CalmSuffices ==
  ASSUME AlpacaSessionAssumption, PricesIInv, CalmInv
  PROVE  WakesAtCrossing /\ NothingMissed /\ PreviousIsCurrent
  <1>1. WakesAtCrossing
    BY DEF CalmInv, Sound, WakesAtCrossing
  <1>2. ASSUME AtRest, NEW s \in watch, IsArmed(s)
        PROVE  previous[s] = Latest /\ \A t \in 1..Latest : t > since[s] => ~ Entry(s, t)
    <2>1. s \in PriceSubs
      BY Typing DEF PricesRest, PricesIInv
    <2>2. Delivered(s) /\ Judged(s) /\ ~ Busy /\ sending = {} /\ heard = Latest
          /\ priceSession = "on"
      BY <1>2, <2>1 DEF CalmInv, Sound, AtRest, Busy, MainAt, ReplayAt, Lanes
    <2>3. previous[s] = Latest /\ since[s] # 0
      BY <1>2, <2>2 DEF Judged, HasPrice
    <2>4. Sent(s, Latest)
      BY <1>2, <2>2, <2>3 DEF Delivered
    <2> QED BY <2>2, <2>3, <2>4 DEF Sent
  <1>3. NothingMissed
    BY <1>2 DEF NothingMissed
  <1>4. PreviousIsCurrent
    BY <1>2 DEF PreviousIsCurrent
  <1> QED BY <1>1, <1>3, <1>4

-----------------------------------------------------------------------------
(* The components share nothing                                             *)

(* What the runs explore of each component is a behaviour of it.            *)
LEMMA MarketIsApart == MarketSpec => Spec /\ PricesSpec /\ GapSpec /\ OrdersSpec
  <1>1. MarketInit => Init /\ PricesInit /\ GapInit /\ OrdersInit
    BY DEF MarketInit
  <1>2. [MarketNext]_marketVars => /\ [Next]_vars /\ [PricesNext]_pricesVars
                                   /\ [GapNext]_gapVars /\ [OrdersNext]_ordersVars
    BY DEF MarketNext, marketVars
  <1> QED
    BY <1>1, <1>2, PTL DEF MarketSpec, Spec, PricesSpec, GapSpec, OrdersSpec

(* Every variable keeps its type: nothing refers to a trade that did not    *)
(* happen, no more replays are queued than there were interruptions, an     *)
(* order's history only holds what happened to it.                          *)
THEOREM MarketTypes == MarketSpec => []Types
  <1>1. IInv /\ PricesIInv /\ GapIInv /\ OrdersIInv => Types
    BY DEF IInv, FenceInv, PricesIInv, PricesTyped, GapIInv, OrdersIInv, Types
  <1> QED
    BY MarketAssumption, MarketIsApart, Invariance, PricesInductive, GapInductive,
       OrdersInductive, <1>1, PTL DEF MarketAssumption

(* "every live order subscription is covered" within the rounds that the    *)
(* number of orders and the size of a batch give, while no order is added   *)
(* or ends: the rotation skips none (alpaca-session.ts, reconcileOrders).   *)
THEOREM RotationCovers == MarketSpec => []CoveredWhileSteady
  <1>1. OrdersIInv => CoveredWhileSteady
    BY MarketAssumption, CoverageSuffices DEF MarketAssumption, OrdersIInv
  <1> QED
    BY MarketAssumption, MarketIsApart, OrdersInductive, <1>1, PTL DEF MarketAssumption

(* Where the two sources give a trade the same key, a replay leaves the     *)
(* subscription, its price and its cursor as a stream that nothing          *)
(* interrupted would have, whatever the buffer and the history overlap in   *)
(* and in whatever order they come                                          *)
(* (src/catalog/providers/gap-replay.ts).                                   *)
THEOREM ReplayLosesNothing == MarketSpec => []ReplayIsUninterrupted
  <1>1. GapIInv => ReplayIsUninterrupted
    BY MarketAssumption, WatchedSuffices DEF MarketAssumption
  <1> QED
    BY MarketAssumption, MarketIsApart, GapInductive, <1>1, PTL DEF MarketAssumption

(* No subscription is woken by what happened before it, in the milder       *)
(* circumstances and whatever happens to an order; in the calm, each        *)
(* crossing after the price a subscription was first seeded with wakes it,  *)
(* across any number of interruptions and sessions, and a live trade is     *)
(* judged against the one before it (src/connector/lib/alpaca-session.ts).  *)
THEOREM WakesHold == MarketSpec => []WakesAreTrue
  <1>1. PricesIInv /\ (circumstances = {} => CalmInv) /\ OrdersIInv => WakesAreTrue
    <2> SUFFICES ASSUME PricesIInv, circumstances = {} => CalmInv, OrdersIInv
                 PROVE  WakesAreTrue
      OBVIOUS
    <2>1. circumstances \subseteq {"quiet", "young", "failure", "flap"} => NoFalsePriceWake
      BY TruthSuffices DEF Mild
    <2>2. circumstances = {} => WakesAtCrossing /\ NothingMissed /\ PreviousIsCurrent
      BY MarketAssumption, CalmSuffices DEF MarketAssumption
    <2>3. NoFalseOrderWake
      BY DEF OrdersIInv, Answers, NoFalseOrderWake
    <2> QED BY <2>1, <2>2, <2>3 DEF WakesAreTrue
  <1> QED
    BY MarketAssumption, MarketIsApart, PricesInductive, CalmInductive, OrdersInductive, <1>1, PTL
       DEF MarketAssumption
================================================================================
