------------------------- MODULE TripSelectionProofs -------------------------
(***************************************************************************)
(* Theorems about the choice of flights and hotel, for every request,      *)
(* catalogue and bound that the assumptions of TripSelection allow.  The   *)
(* lemmas about sorted lists, rounding and finite sets come first, then    *)
(* what the plan, the scores, the ranking and the combination make of a    *)
(* request; the induction is over the steps of the nodes (IInv).           *)
(***************************************************************************)
EXTENDS TripSelection, SequenceTheorems, FiniteSetTheorems, WellFoundedInduction, TLAPS

-----------------------------------------------------------------------------
(* Sorted lists. *)

(* A set of numbers has a least one. *)
LEMMA LeastNumber ==
  ASSUME NEW S, S \subseteq Nat, S # {}
  PROVE  \E m \in S : \A k \in S : m <= k
  <1> DEFINE less == OpToRel(<, Nat)
  <1>1. IsWellFoundedOn(less, Nat)
    BY NatLessThanWellFounded
  <1>2. PICK m \in S : \A k \in S : <<k, m>> \notin less
    <2> HIDE DEF less
    <2> QED BY <1>1, WFMin
  <1>3. ASSUME NEW k \in S PROVE m <= k
    <2>1. m \in Nat /\ k \in Nat
      OBVIOUS
    <2>2. ~(k < m)
      BY <1>2, <2>1 DEF OpToRel
    <2> QED BY <2>1, <2>2
  <1> QED BY <1>3

(* Tuples of numbers of one length are in a strict and total order. *)
LEMMA TuplesInOrder ==
  ASSUME NEW n \in Nat
  PROVE  /\ \A a \in [1 .. n -> Int] : ~Precedes(a, a)
         /\ \A a, b, c \in [1 .. n -> Int] : Precedes(a, b) /\ Precedes(b, c) => Precedes(a, c)
         /\ \A a, b \in [1 .. n -> Int] : a # b => Precedes(a, b) \/ Precedes(b, a)
  <1>1. ASSUME NEW a \in [1 .. n -> Int] PROVE ~Precedes(a, a)
    BY DEF Precedes
  <1>2. ASSUME NEW a \in [1 .. n -> Int], NEW b \in [1 .. n -> Int], NEW c \in [1 .. n -> Int],
               Precedes(a, b), Precedes(b, c)
        PROVE  Precedes(a, c)
    <2>1. PICK i \in 1 .. n : a[i] < b[i] /\ \A j \in 1 .. i - 1 : a[j] = b[j]
      BY <1>2 DEF Precedes
    <2>2. PICK k \in 1 .. n : b[k] < c[k] /\ \A j \in 1 .. k - 1 : b[j] = c[j]
      BY <1>2 DEF Precedes
    <2>3. CASE i <= k
      <3>1. a[i] < c[i]
        BY <2>1, <2>2, <2>3
      <3>2. \A j \in 1 .. i - 1 : a[j] = c[j]
        BY <2>1, <2>2, <2>3
      <3> QED BY <3>1, <3>2 DEF Precedes
    <2>4. CASE k < i
      <3>1. a[k] < c[k]
        BY <2>1, <2>2, <2>4
      <3>2. \A j \in 1 .. k - 1 : a[j] = c[j]
        BY <2>1, <2>2, <2>4
      <3> QED BY <3>1, <3>2 DEF Precedes
    <2> QED BY <2>3, <2>4
  <1>3. ASSUME NEW a \in [1 .. n -> Int], NEW b \in [1 .. n -> Int], a # b
        PROVE  Precedes(a, b) \/ Precedes(b, a)
    <2> DEFINE differ == {i \in 1 .. n : a[i] # b[i]}
    <2>1. differ \subseteq Nat /\ differ # {}
      BY <1>3
    <2>2. PICK i \in differ : \A k \in differ : i <= k
      <3> HIDE DEF differ
      <3> QED BY <2>1, LeastNumber
    <2>3. \A j \in 1 .. i - 1 : a[j] = b[j]
      BY <2>2
    <2>4. a[i] < b[i] \/ b[i] < a[i]
      BY <2>2
    <2> QED BY <2>2, <2>3, <2>4 DEF Precedes
  <1> QED BY <1>1, <1>2, <1>3

(* What can be sorted: finitely many records with different keys of one length. *)
Sortable(S) ==
  /\ IsFiniteSet(S)
  /\ \E n \in Nat : \A r \in S : r.key \in [1 .. n -> Int]
  /\ \A r, o \in S : r.key = o.key => r = o

(* Sorting lists each record once, in the order of the keys. *)
LEMMA SortedLists ==
  ASSUME NEW S, Sortable(S)
  PROVE  LET list == Sorted(S)
         IN  /\ Cardinality(S) \in Nat /\ DOMAIN list = 1 .. Cardinality(S)
             /\ Len(list) = Cardinality(S)
             /\ \A i \in DOMAIN list : list[i] \in S
             /\ \A r \in S : \E i \in DOMAIN list : list[i] = r
             /\ \A i, j \in DOMAIN list : i < j <=> Precedes(list[i].key, list[j].key)
  <1> DEFINE Before(r) == {o \in S : Precedes(o.key, r.key)}
             n == Cardinality(S)
             place == [r \in S |-> 1 + Cardinality(Before(r))]
             list == Sorted(S)
  <1>1. IsFiniteSet(S) /\ n \in Nat
    BY FS_CardinalityType DEF Sortable
  <1>2. /\ \A r \in S : ~Precedes(r.key, r.key)
        /\ \A r, o, q \in S : Precedes(r.key, o.key) /\ Precedes(o.key, q.key)
                                => Precedes(r.key, q.key)
        /\ \A r, o \in S : r # o => Precedes(r.key, o.key) \/ Precedes(o.key, r.key)
    <2>1. PICK m \in Nat : \A r \in S : r.key \in [1 .. m -> Int]
      BY DEF Sortable
    <2>2. \A r, o \in S : r # o => r.key # o.key
      BY DEF Sortable
    <2> QED BY <2>1, <2>2, TuplesInOrder
  <1>3. ASSUME NEW r \in S PROVE IsFiniteSet(Before(r)) /\ place[r] \in 1 .. n
    <2>1. Before(r) \in SUBSET S /\ r \notin Before(r)
      BY <1>2
    <2>2. IsFiniteSet(Before(r)) /\ Cardinality(Before(r)) <= n /\ Cardinality(Before(r)) # n
      BY <1>1, <2>1, FS_Subset
    <2>3. Cardinality(Before(r)) \in Nat
      BY <2>2, FS_CardinalityType
    <2>4. place[r] = 1 + Cardinality(Before(r))
      OBVIOUS
    <2> HIDE DEF n, Before, place
    <2> QED BY <1>1, <2>2, <2>3, <2>4
  <1>4. ASSUME NEW r \in S, NEW o \in S, Precedes(r.key, o.key) PROVE place[r] < place[o]
    <2>1. Before(r) \in SUBSET Before(o) /\ r \in Before(o) /\ r \notin Before(r)
      BY <1>2, <1>4
    <2>2. IsFiniteSet(Before(o)) /\ IsFiniteSet(Before(r))
      BY <1>3
    <2>3. Cardinality(Before(r)) # Cardinality(Before(o)) /\ Cardinality(Before(r)) <= Cardinality(Before(o))
      <3> HIDE DEF Before
      <3> QED BY <2>1, <2>2, FS_Subset
    <2>4. Cardinality(Before(r)) \in Nat /\ Cardinality(Before(o)) \in Nat
      BY <2>2, FS_CardinalityType
    <2>5. place[r] = 1 + Cardinality(Before(r)) /\ place[o] = 1 + Cardinality(Before(o))
      OBVIOUS
    <2> HIDE DEF Before, place
    <2> QED BY <2>3, <2>4, <2>5
  <1>5. \A r, o \in S : place[r] = place[o] => r = o
    <2> SUFFICES ASSUME NEW r \in S, NEW o \in S, place[r] = place[o], r # o PROVE FALSE
      OBVIOUS
    <2>1. Precedes(r.key, o.key) \/ Precedes(o.key, r.key)
      BY <1>2
    <2>2. place[r] \in Int /\ place[o] \in Int
      BY <1>3
    <2> HIDE DEF place
    <2> QED BY <1>4, <2>1, <2>2
  <1>6. IsFiniteSet(1 .. n) /\ Cardinality(1 .. n) = n
    BY <1>1, FS_Interval
  <1>7. place \in Injection(S, 1 .. n)
    <2>1. place \in [S -> 1 .. n]
      <3>1. \A r \in S : place[r] \in 1 .. n
        BY <1>3
      <3>2. place = [r \in S |-> place[r]]
        OBVIOUS
      <3> HIDE DEF place, n
      <3> QED BY <3>1, <3>2
    <2> HIDE DEF place, n
    <2> QED BY <1>5, <2>1 DEF Injection, IsInjective
  <1>8. place \in Surjection(S, 1 .. n)
    <2> HIDE DEF place
    <2> QED BY <1>1, <1>6, <1>7, FS_Injection
  <1>9. list = [i \in 1 .. n |-> CHOOSE r \in S : place[r] = i]
    BY DEF Sorted
  <1> HIDE DEF list, place
  <1>10. DOMAIN list = 1 .. n
    BY <1>9
  <1>11. ASSUME NEW i \in 1 .. n PROVE list[i] \in S /\ place[list[i]] = i
    <2>1. PICK r \in S : place[r] = i
      BY <1>8 DEF Surjection
    <2>2. list[i] = CHOOSE o \in S : place[o] = i
      BY <1>9
    <2> QED BY <2>1, <2>2
  <1>12. ASSUME NEW r \in S PROVE \E i \in 1 .. n : list[i] = r
    <2>1. place[r] \in 1 .. n
      BY <1>3
    <2>2. list[place[r]] = r
      BY <1>5, <1>11, <2>1
    <2> QED BY <2>1, <2>2
  <1>13. ASSUME NEW i \in 1 .. n, NEW j \in 1 .. n PROVE i < j <=> Precedes(list[i].key, list[j].key)
    <2>1. /\ list[i] \in S /\ list[j] \in S
          /\ place[list[i]] = i /\ place[list[j]] = j
      BY <1>11
    <2>2. Precedes(list[i].key, list[j].key) => i < j
      BY <1>4, <2>1
    <2>3. ASSUME i < j PROVE Precedes(list[i].key, list[j].key)
      <3>1. list[i] # list[j]
        BY <2>1, <2>3
      <3>2. Precedes(list[i].key, list[j].key) \/ Precedes(list[j].key, list[i].key)
        BY <1>2, <2>1, <3>1
      <3>3. Precedes(list[j].key, list[i].key) => j < i
        BY <1>4, <2>1
      <3> QED BY <2>3, <3>2, <3>3
    <2> QED BY <2>2, <2>3
  <1>14. Len(list) = n
    <2>1. list \in Seq(S)
      <3>1. list = [i \in 1 .. n |-> list[i]]
        BY <1>9
      <3> QED BY <1>1, <1>11, <3>1
    <2> QED BY <1>1, <1>10, <2>1, LenProperties
  <1> QED BY <1>1, <1>10, <1>11, <1>12, <1>13, <1>14 DEF list

-----------------------------------------------------------------------------
(* Arithmetic. *)

(* Products, and quotients by what is more than nothing, grow with their first factor. *)
LEMMA ProductsGrow ==
  ASSUME NEW a \in Nat, NEW x \in Int, NEW y \in Int, x <= y
  PROVE  a * x \in Int /\ a * y \in Int /\ a * x <= a * y
  OBVIOUS

(* A common factor can be left out. *)
LEMMA FactorsCancel ==
  ASSUME NEW d \in Nat \ {0}, NEW x \in Int, NEW y \in Int
  PROVE  /\ d * x <= d * y => x <= y
         /\ d * x < d * y => x < y
  <1>1. ASSUME x > y PROVE d * x > d * y
    <2>1. d * x - d * y = d * (x - y)
      OBVIOUS
    <2>2. d * (x - y) > 0
      BY <1>1
    <2>3. d * x \in Int /\ d * y \in Int
      OBVIOUS
    <2> QED BY <2>1, <2>2, <2>3
  <1>2. d * x \in Int /\ d * y \in Int
    OBVIOUS
  <1>3. x = y => d * x = d * y
    OBVIOUS
  <1> QED BY <1>1, <1>2, <1>3

(* The quotient of whole numbers. *)
LEMMA Quotients ==
  ASSUME NEW x \in Int, NEW d \in Nat \ {0}
  PROVE  x \div d \in Int /\ d * (x \div d) <= x /\ x < d * (x \div d) + d
  OBVIOUS

(* Division keeps the order of what is divided. *)
LEMMA QuotientsGrow ==
  ASSUME NEW x \in Int, NEW y \in Int, x <= y, NEW d \in Nat \ {0}
  PROVE  x \div d \in Int /\ y \div d \in Int /\ x \div d <= y \div d
  <1> DEFINE p == x \div d
             q == y \div d
  <1>1. p \in Int /\ d * p <= x
    BY Quotients
  <1>2. q \in Int /\ y < d * q + d
    BY Quotients
  <1> HIDE DEF p, q
  <1>3. d * p < d * (q + 1)
    <2>1. d * (q + 1) = d * q + d
      BY <1>2
    <2>2. d * p \in Int /\ d * q \in Int
      BY <1>1, <1>2
    <2> QED BY <1>1, <1>2, <2>1, <2>2
  <1>4. p < q + 1
    BY <1>1, <1>2, <1>3, FactorsCancel
  <1> QED BY <1>1, <1>2, <1>4 DEF p, q

(* Division by more gives no more. *)
LEMMA QuotientsFall ==
  ASSUME NEW a \in Nat, NEW x \in Nat \ {0}, NEW y \in Nat \ {0}, x <= y
  PROVE  a \div x \in Nat /\ a \div y \in Nat /\ a \div y <= a \div x
  <1> DEFINE p == a \div x
             q == a \div y
  <1>1. p \in Nat /\ a < x * (p + 1)
    OBVIOUS
  <1>2. q \in Nat /\ y * q <= a
    OBVIOUS
  <1> HIDE DEF p, q
  <1>3. ASSUME p < q PROVE FALSE
    <2>1. p + 1 <= q
      BY <1>1, <1>2, <1>3
    <2>2. x * (p + 1) <= x * q
      BY <1>1, <1>2, <2>1
    <2>3. x * q <= y * q
      BY <1>2
    <2>4. x * (p + 1) \in Int /\ x * q \in Int /\ y * q \in Int
      BY <1>1, <1>2
    <2> QED BY <1>1, <1>2, <2>2, <2>3, <2>4
  <1> QED BY <1>1, <1>2, <1>3 DEF p, q

(* Rounding is to the nearest whole number. *)
LEMMA RoundedNear ==
  ASSUME NEW a \in Int, NEW b \in Nat \ {0}
  PROVE  LET r == Rounded(a, b)
         IN  r \in Int /\ 2 * (b * r) <= 2 * a + b /\ 2 * a < 2 * (b * r) + b
  <1> DEFINE d == 2 * b
             x == 2 * a + b
             r == x \div d
  <1>1. x \in Int /\ d \in Nat \ {0}
    OBVIOUS
  <1>2. r \in Int /\ d * r <= x /\ x < d * r + d
    <2> HIDE DEF x, d
    <2> QED BY <1>1, Quotients
  <1>3. Rounded(a, b) = r
    BY DEF Rounded
  <1> HIDE DEF r
  <1>4. d * r = 2 * (b * r) /\ b * r \in Int
    BY <1>2
  <1> QED BY <1>2, <1>3, <1>4

(* Least, Most, Clamp and Clamp01 of the program. *)
LEMMA Bounds ==
  ASSUME NEW a \in Int, NEW b \in Int
  PROVE  /\ Least(a, b) \in Int /\ Least(a, b) <= a /\ Least(a, b) <= b
         /\ Most(a, b) \in Int /\ a <= Most(a, b) /\ b <= Most(a, b)
         /\ Least(a, b) = a \/ Least(a, b) = b
         /\ Most(a, b) = a \/ Most(a, b) = b
  BY DEF Least, Most

(* What is clamped lies within the bounds, and the order is kept. *)
LEMMA Clamped ==
  ASSUME NEW x \in Int, NEW y \in Int, x <= y
  PROVE  Clamp01(x) \in 0 .. Scale /\ Clamp01(x) <= Clamp01(y)
  BY DEF Clamp01, Clamp, Least, Most, Scale

(* A weighted mean of three parts is a score, and grows with its parts. *)
LEMMA WeightedGrows ==
  ASSUME NEW u \in Nat, NEW v \in Nat, NEW w \in Nat, u + v + w > 0,
         NEW a \in Int, NEW b \in Int, NEW c \in Int,
         NEW x \in Int, NEW y \in Int, NEW z \in Int, a <= x, b <= y, c <= z
  PROVE  /\ Weighted(<<a, b, c>>, <<u, v, w>>) \in 0 .. Scale
         /\ Weighted(<<a, b, c>>, <<u, v, w>>) <= Weighted(<<x, y, z>>, <<u, v, w>>)
  <1> DEFINE s == u * a + v * b + w * c
             t == u * x + v * y + w * z
             d == u + v + w
  <1>1. s \in Int /\ t \in Int /\ s <= t
    <2>1. u * a \in Int /\ u * x \in Int /\ u * a <= u * x
      BY ProductsGrow
    <2>2. v * b \in Int /\ v * y \in Int /\ v * b <= v * y
      BY ProductsGrow
    <2>3. w * c \in Int /\ w * z \in Int /\ w * c <= w * z
      BY ProductsGrow
    <2> QED BY <2>1, <2>2, <2>3
  <1>2. d \in Nat \ {0}
    OBVIOUS
  <1>3. s \div d \in Int /\ t \div d \in Int /\ s \div d <= t \div d
    <2> HIDE DEF s, t, d
    <2> QED BY <1>1, <1>2, QuotientsGrow
  <1>4. /\ Weighted(<<a, b, c>>, <<u, v, w>>) = Clamp01(s \div d)
        /\ Weighted(<<x, y, z>>, <<u, v, w>>) = Clamp01(t \div d)
    BY DEF Weighted
  <1> HIDE DEF s, t, d
  <1> QED BY <1>3, <1>4, Clamped

(* However many wishes there are, together they count as one at most in either direction. *)
LEMMA SignalsBounded ==
  ASSUME NEW spend, ValidSpend(spend), NEW category
  PROVE  NetSignal(spend, category) \in -Scale .. Scale
  <1> DEFINE n == Len(spend)
             Step(x, i) == IF spend[i].category = category
                           THEN Clamp(x + spend[i].signed, -Scale, Scale) ELSE x
             Run(f, m) == f = [i \in 0 .. m |-> IF i = 0 THEN 0 ELSE Step(f[i - 1], i)]
             Sound(f, m) == Run(f, m) /\ \A i \in 0 .. m : f[i] \in -Scale .. Scale
             none == {m \in 0 .. n : ~\E f : Sound(f, m)}
  <1>1. n \in Nat
    BY DEF ValidSpend
  <1>2. ASSUME NEW x \in -Scale .. Scale, NEW i \in 1 .. n PROVE Step(x, i) \in -Scale .. Scale
    <2> DEFINE w == spend[i].signed
    <2>1. \A j \in 1 .. n : spend[j].signed \in -Scale .. Scale
      BY DEF ValidSpend
    <2>2. w \in -Scale .. Scale
      BY SMT, <2>1
    <2> HIDE DEF w
    <2>3. Clamp(x + w, -Scale, Scale) \in -Scale .. Scale
      BY <2>2 DEF Clamp, Least, Most, Scale
    <2> QED BY <2>3 DEF w
  <1> HIDE DEF n, Step
  <1>3. 0 \notin none
    <2> DEFINE f == [i \in 0 .. 0 |-> 0]
    <2>1. \A i \in 0 .. 0 : i = 0 /\ f[i] = 0
      OBVIOUS
    <2>2. f = [i \in 0 .. 0 |-> IF i = 0 THEN 0 ELSE Step(f[i - 1], i)]
      BY <2>1
    <2>3. 0 \in -Scale .. Scale
      BY DEF Scale
    <2> HIDE DEF f
    <2>4. Sound(f, 0)
      BY <2>1, <2>2, <2>3
    <2> QED BY <2>4
  <1>4. ASSUME NEW m \in 0 .. n, m # 0, m - 1 \notin none PROVE m \notin none
    <2>1. m - 1 \in 0 .. n
      BY <1>1, <1>4
    <2>2. PICK f : Sound(f, m - 1)
      BY <1>4, <2>1
    <2> DEFINE g == [i \in 0 .. m |-> IF i = m THEN Step(f[m - 1], m) ELSE f[i]]
    <2>3. \A i \in 0 .. m - 1 : f[i] \in -Scale .. Scale
                                /\ f[i] = IF i = 0 THEN 0 ELSE Step(f[i - 1], i)
      BY <2>2
    <2>4. \A i \in 0 .. m : g[i] = IF i = 0 THEN 0 ELSE Step(g[i - 1], i)
      <3>1. g[m] = Step(f[m - 1], m) /\ \A i \in 0 .. m - 1 : g[i] = f[i]
        BY <1>1
      <3>2. m \in Nat /\ m - 1 \in 0 .. m - 1
        BY <1>1, <1>4
      <3> HIDE DEF g
      <3>3. g[m] = Step(g[m - 1], m)
        BY <3>1, <3>2
      <3>4. ASSUME NEW i \in 0 .. m - 1 PROVE g[i] = IF i = 0 THEN 0 ELSE Step(g[i - 1], i)
        <4>1. g[i] = f[i] /\ f[i] = IF i = 0 THEN 0 ELSE Step(f[i - 1], i)
          BY <2>3, <3>1
        <4>2. i # 0 => i - 1 \in 0 .. m - 1
          BY <3>2
        <4>3. i # 0 => g[i - 1] = f[i - 1]
          BY <3>1, <4>2
        <4> QED BY <4>1, <4>3
      <3>5. \A i \in 0 .. m : i = m \/ i \in 0 .. m - 1
        BY <3>2
      <3> QED BY <1>4, <3>3, <3>4, <3>5
    <2>5. \A i \in 0 .. m : g[i] \in -Scale .. Scale
      <3>1. m \in 1 .. n /\ m - 1 \in 0 .. m - 1
        BY <1>1, <1>4
      <3>2. Step(f[m - 1], m) \in -Scale .. Scale
        BY <1>2, <2>3, <3>1
      <3>3. \A i \in 0 .. m : i = m \/ i \in 0 .. m - 1
        BY <1>1
      <3> QED BY <2>3, <3>2, <3>3
    <2>6. g = [i \in 0 .. m |-> IF i = 0 THEN 0 ELSE Step(g[i - 1], i)]
      <3>1. g = [i \in 0 .. m |-> g[i]]
        OBVIOUS
      <3> HIDE DEF g
      <3> QED BY <2>4, <3>1
    <2> HIDE DEF g
    <2>7. Sound(g, m)
      BY <2>5, <2>6
    <2> QED BY <2>7
  <1>5. none = {}
    <2> SUFFICES ASSUME none # {} PROVE FALSE
      OBVIOUS
    <2>1. none \subseteq 0 .. n
      OBVIOUS
    <2> HIDE DEF none
    <2>2. none \subseteq Nat
      BY <1>1, <2>1
    <2>3. PICK m \in none : \A k \in none : m <= k
      BY <2>2, LeastNumber
    <2>4. m \in 0 .. n /\ m # 0
      BY <1>3, <2>1, <2>3
    <2>5. m - 1 \notin none
      BY <1>1, <2>3, <2>4
    <2> QED BY <1>4, <2>3, <2>4, <2>5
  <1>6. \E f : Run(f, n)
    <2>1. n \notin none /\ n \in 0 .. n
      BY <1>1, <1>5
    <2> QED BY <2>1
  <1> DEFINE net == CHOOSE f : Run(f, n)
  <1>7. Run(net, n)
    <2> HIDE DEF Run
    <2> QED BY <1>6
  <1>8. \A i \in 0 .. n : net[i] = IF i = 0 THEN 0 ELSE Step(net[i - 1], i)
    <2> HIDE DEF net
    <2> QED BY <1>7
  <1>9. net[n] \in -Scale .. Scale
    <2> DEFINE bad == {i \in 0 .. n : net[i] \notin -Scale .. Scale}
    <2> HIDE DEF net
    <2>1. bad \subseteq Nat /\ bad \subseteq 0 .. n
      BY <1>1
    <2>2. ASSUME bad # {} PROVE FALSE
      <3>1. PICK m \in bad : \A k \in bad : m <= k
        <4> HIDE DEF bad
        <4> QED BY <2>1, <2>2, LeastNumber
      <3>2. m # 0
        <4>1. ASSUME m = 0 PROVE FALSE
          <5>1. net[m] = 0
            BY <1>8, <3>1, <4>1
          <5>2. 0 \in -Scale .. Scale
            BY DEF Scale
          <5> QED BY <3>1, <5>1, <5>2
        <4> QED BY <4>1
      <3>3. m - 1 \in 0 .. n /\ m \in 1 .. n /\ m \in 0 .. n
        BY <1>1, <3>1, <3>2
      <3>4. m - 1 \notin bad
        <4> HIDE DEF bad
        <4> QED BY <3>1, <3>3
      <3>5. net[m] = Step(net[m - 1], m) /\ net[m - 1] \in -Scale .. Scale
        BY <1>8, <3>2, <3>3, <3>4
      <3>6. net[m] \in -Scale .. Scale
        BY <1>2, <3>3, <3>5
      <3> QED BY <3>1, <3>6
    <2> QED BY <1>1, <2>2
  <1>10. NetSignal(spend, category) = net[n]
    BY DEF NetSignal, n, Step
  <1> QED BY <1>9, <1>10

-----------------------------------------------------------------------------
(* The budget plan. *)

(* A share of what is divided, rounded to the nearest whole number, is not negative. *)
LEMMA SharesAreNumbers ==
  ASSUME NEW a \in Nat, NEW b \in Nat \ {0}
  PROVE  Rounded(a, b) \in Nat /\ (b < 2 * a => Rounded(a, b) > 0)
  <1> DEFINE r == Rounded(a, b)
  <1>1. r \in Int /\ 2 * a < 2 * (b * r) + b
    BY RoundedNear
  <1> HIDE DEF r
  <1>2. ASSUME r < 0 PROVE FALSE
    <2>1. b * r <= b * (-1)
      BY <1>1, <1>2, ProductsGrow
    <2>2. b * r \in Int /\ b * (-1) = -b
      BY <1>1
    <2> QED BY <1>1, <2>1, <2>2
  <1>3. r = 0 => b * r = 0
    OBVIOUS
  <1> QED BY <1>1, <1>2, <1>3 DEF r

(* The ratios of the plan share everything, whatever the traveller wishes to spend on. *)
LEMMA RatiosShareEverything ==
  ASSUME NEW spend, ValidSpend(spend)
  PROVE  LET ratios == AdjustedRatios(spend)
         IN  /\ ratios.transport \in Nat \ {0} /\ ratios.hotel \in Nat \ {0}
             /\ ratios.food_activity \in Nat
             /\ ratios.transport + ratios.hotel + ratios.food_activity = Scale
             /\ DOMAIN ratios = SpendCategory
  <1> DEFINE Raw(c) == BaseRatio[c] * (Scale + (MaxSpendAdjustment * NetSignal(spend, c)) \div Scale)
             x == Raw("transport")
             y == Raw("hotel")
             z == Raw("food_activity")
             t == x + y + z
             rx == Rounded(Scale * x, t)
             ry == Rounded(Scale * y, t)
             rz == Rounded(Scale * z, t)
  <1>1. ASSUME NEW c, BaseRatio[c] \in 300 .. 350
        PROVE  Raw(c) \in Int /\ 300 * 650 <= Raw(c) /\ Raw(c) <= 350 * 1350
    <2> DEFINE s == NetSignal(spend, c)
               q == (350 * s) \div 1000
               base == BaseRatio[c]
               raw == Raw(c)
    <2>1. s \in -1000 .. 1000
      BY SMT, SignalsBounded DEF Scale
    <2>2. raw = base * (1000 + q)
      BY SMT DEF Scale, MaxSpendAdjustment
    <2>3. base \in Nat /\ 300 <= base /\ base <= 350
      BY SMT, <1>1
    <2> HIDE DEF s, base, raw
    <2>4. q \in Int /\ 650 <= 1000 + q /\ 1000 + q <= 1350
      BY SMT, <2>1
    <2> HIDE DEF q
    <2> DEFINE k == 1000 + q
    <2>5. k \in Int /\ 650 <= k /\ k <= 1350
      BY SMT, <2>4
    <2> HIDE DEF k
    <2>6. base * 650 <= base * k /\ base * k <= base * 1350 /\ base * k \in Int
      BY SMT, <2>3, <2>5, ProductsGrow
    <2>7. 300 * 650 <= base * 650 /\ base * 1350 <= 350 * 1350
      BY SMT, <2>3
    <2>8. raw \in Int /\ 300 * 650 <= raw /\ raw <= 350 * 1350
      BY SMT, <2>2, <2>3, <2>6, <2>7 DEF k
    <2> QED BY <2>8 DEF raw
  <1>2. /\ BaseRatio["transport"] \in 300 .. 350 /\ BaseRatio["hotel"] \in 300 .. 350
        /\ BaseRatio["food_activity"] \in 300 .. 350
    BY SMT DEF BaseRatio
  <1> HIDE DEF Raw
  <1>3. /\ x \in Int /\ 300 * 650 <= x /\ x <= 350 * 1350
        /\ y \in Int /\ 300 * 650 <= y /\ y <= 350 * 1350
        /\ z \in Int /\ 300 * 650 <= z /\ z <= 350 * 1350
    BY SMT, <1>1, <1>2
  <1>4. x \in Nat /\ y \in Nat /\ z \in Nat /\ x > 0 /\ y > 0 /\ z > 0
    BY SMT, <1>3
  <1>5. AdjustedRatios(spend) = [transport |-> rx, hotel |-> ry,
                                 food_activity |-> rz + (Scale - (rx + ry + rz))]
    BY SMT DEF AdjustedRatios, Raw
  <1> HIDE DEF x, y, z
  <1>6. t \in Nat \ {0} /\ t <= 1050 * 1350
    BY SMT, <1>3, <1>4
  <1> DEFINE u == Scale * x
             v == Scale * y
             w == Scale * z
  <1>7. u \in Nat /\ v \in Nat /\ w \in Nat /\ t < 2 * u /\ t < 2 * v
    BY SMT, <1>3, <1>4 DEF Scale
  <1>8. t = x + y + z
    BY SMT
  <1> HIDE DEF t
  <1> HIDE DEF u, v, w
  <1>9. rx \in Nat \ {0} /\ ry \in Nat \ {0} /\ rz \in Nat
    <2>1. rx = Rounded(u, t) /\ ry = Rounded(v, t) /\ rz = Rounded(w, t)
      BY DEF u, v, w
    <2> HIDE DEF rx, ry, rz
    <2> QED BY <1>6, <1>7, <2>1, SharesAreNumbers
  <1>10. 2 * (t * rx) <= 2 * u + t /\ 2 * (t * ry) <= 2 * v + t
    <2>1. rx = Rounded(u, t) /\ ry = Rounded(v, t)
      BY DEF u, v
    <2> HIDE DEF rx, ry
    <2> QED BY <1>6, <1>7, <2>1, RoundedNear
  <1> HIDE DEF rx, ry, rz
  <1>11. Scale - (rx + ry) > -1
    <2> DEFINE k == Scale - (rx + ry)
    <2>1. k \in Int
      BY SMT, <1>9 DEF Scale
    <2>2. t * k = t * Scale - (t * rx + t * ry)
      BY SMT, <1>6, <1>9 DEF Scale
    <2>3. t * Scale = u + v + w
      BY SMT, <1>3, <1>4, <1>8 DEF Scale, u, v, w
    <2>4. t * rx \in Int /\ t * ry \in Int
      BY SMT, <1>6, <1>9
    <2>5. w > 0
      BY SMT, <1>4 DEF Scale, w
    <2> HIDE DEF k
    <2>6. t * (-1) < t * k
      BY SMT, <1>6, <1>7, <1>10, <2>1, <2>2, <2>3, <2>4, <2>5
    <2>7. -1 < k
      BY SMT, <1>6, <2>1, <2>6, FactorsCancel
    <2> QED BY SMT, <2>7 DEF k
  <1>12. rz + (Scale - (rx + ry + rz)) = Scale - (rx + ry)
    BY SMT, <1>9 DEF Scale
  <1> QED BY SMT, <1>5, <1>9, <1>11, <1>12 DEF Scale, SpendCategory

(* Shares of a budget by ratios that share everything differ from it by a cent at most. *)
LEMMA SharesAddUp ==
  ASSUME NEW n \in Nat, NEW a \in Nat, NEW b \in Nat, NEW c \in Nat, a + b + c = Scale
  PROVE  LET x == Rounded(n * a, Scale)
             y == Rounded(n * b, Scale)
             z == Rounded(n * c, Scale)
         IN  x \in Nat /\ y \in Nat /\ z \in Nat /\ x + y + z - n \in -1 .. 1
  <1> DEFINE x == Rounded(n * a, Scale)
             y == Rounded(n * b, Scale)
             z == Rounded(n * c, Scale)
  <1>1. n * a \in Nat /\ n * b \in Nat /\ n * c \in Nat /\ Scale \in Nat \ {0}
    BY DEF Scale
  <1>2. x \in Nat /\ y \in Nat /\ z \in Nat
    BY <1>1, SharesAreNumbers
  <1>3. /\ 2 * (Scale * x) <= 2 * (n * a) + Scale /\ 2 * (n * a) < 2 * (Scale * x) + Scale
        /\ 2 * (Scale * y) <= 2 * (n * b) + Scale /\ 2 * (n * b) < 2 * (Scale * y) + Scale
        /\ 2 * (Scale * z) <= 2 * (n * c) + Scale /\ 2 * (n * c) < 2 * (Scale * z) + Scale
    BY <1>1, RoundedNear
  <1>4. n * a + n * b + n * c = n * Scale
    <2>1. n * (a + b + c) = n * a + n * b + n * c
      OBVIOUS
    <2> QED BY <2>1
  <1> HIDE DEF x, y, z
  <1> DEFINE p == n * a
             q == n * b
             r == n * c
  <1>5. p \in Nat /\ q \in Nat /\ r \in Nat /\ p + q + r = n * 1000
    BY <1>1, <1>4 DEF Scale
  <1>6. /\ 2000 * x <= 2 * p + 1000 /\ 2 * p < 2000 * x + 1000
        /\ 2000 * y <= 2 * q + 1000 /\ 2 * q < 2000 * y + 1000
        /\ 2000 * z <= 2 * r + 1000 /\ 2 * r < 2000 * z + 1000
    BY <1>2, <1>3 DEF Scale
  <1> HIDE DEF p, q, r
  <1>7. x + y + z - n \in -1 .. 1
    BY <1>2, <1>5, <1>6
  <1> QED BY <1>2, <1>7 DEF x, y, z

-----------------------------------------------------------------------------
(* Finite sets and requests. *)

(* What a function makes of finitely many arguments is finite. *)
LEMMA Image ==
  ASSUME NEW S, IsFiniteSet(S), NEW f
  PROVE  IsFiniteSet({f[x] : x \in S})
  <1> DEFINE T == {f[x] : x \in S}
             g == [x \in S |-> f[x]]
  <1>1. g \in Surjection(S, T)
    BY DEF Surjection
  <1> HIDE DEF g, T
  <1>2. IsFiniteSet(T)
    BY <1>1, FS_Surjection
  <1> QED BY <1>2 DEF T

(* A finite set of numbers has a least and a largest one. *)
LEMMA Smallest ==
  ASSUME NEW S, S \subseteq Int, S # {}, IsFiniteSet(S)
  PROVE  Min(S) \in S /\ \A x \in S : Min(S) <= x
  <1> DEFINE Under(x) == {y \in S : y < x}
             N == {Cardinality(Under(x)) : x \in S}
  <1>1. \A x \in S : IsFiniteSet(Under(x)) /\ Cardinality(Under(x)) \in Nat
    <2> TAKE x \in S
    <2>1. IsFiniteSet(Under(x))
      BY FS_Subset
    <2> QED BY <2>1, FS_CardinalityType
  <1>2. N \subseteq Nat /\ N # {}
    <2> HIDE DEF Under
    <2> QED BY <1>1
  <1>3. PICK n \in N : \A k \in N : n <= k
    <2> HIDE DEF N
    <2> QED BY <1>2, LeastNumber
  <1>4. PICK x \in S : n = Cardinality(Under(x))
    OBVIOUS
  <1>5. ASSUME NEW y \in S, y < x PROVE FALSE
    <2>1. Under(y) \in SUBSET Under(x) /\ Under(y) # Under(x)
      <3>1. y \in Under(x) /\ y \notin Under(y)
        BY <1>5
      <3>2. \A z \in Under(y) : z \in Under(x)
        BY <1>5
      <3> HIDE DEF Under
      <3> QED BY <3>1, <3>2
    <2>2. IsFiniteSet(Under(x)) /\ IsFiniteSet(Under(y))
      BY <1>1
    <2> HIDE DEF Under
    <2>3. Cardinality(Under(y)) <= Cardinality(Under(x)) /\ Cardinality(Under(y)) # Cardinality(Under(x))
      BY <2>1, <2>2, FS_Subset
    <2>4. Cardinality(Under(x)) <= Cardinality(Under(y))
      BY <1>3, <1>4
    <2>5. Cardinality(Under(x)) \in Nat /\ Cardinality(Under(y)) \in Nat
      BY <2>2, FS_CardinalityType
    <2> QED BY <2>3, <2>4, <2>5
  <1>6. \A y \in S : x <= y
    BY <1>5
  <1>7. Min(S) \in S /\ \A y \in S : Min(S) =< y
    BY <1>6 DEF Min
  <1> QED BY <1>7

(* The same for the largest. *)
LEMMA Greatest ==
  ASSUME NEW S, S \subseteq Int, S # {}, IsFiniteSet(S)
  PROVE  Max(S) \in S /\ \A x \in S : x <= Max(S)
  <1> DEFINE T == {0 - x : x \in S}
  <1>1. T \subseteq Int /\ T # {}
    <2>1. PICK x \in S : TRUE
      OBVIOUS
    <2>2. 0 - x \in T
      OBVIOUS
    <2>3. \A y \in T : y \in Int
      OBVIOUS
    <2> HIDE DEF T
    <2> QED BY <2>2, <2>3
  <1>2. IsFiniteSet(T)
    <2> DEFINE f == [x \in S |-> 0 - x]
    <2>1. IsFiniteSet({f[x] : x \in S})
      <3> HIDE DEF f
      <3> QED BY Image
    <2>2. {f[x] : x \in S} = T
      OBVIOUS
    <2> QED BY <2>1, <2>2
  <1>3. Min(T) \in T /\ \A y \in T : Min(T) <= y
    <2> HIDE DEF T
    <2> QED BY <1>1, <1>2, Smallest
  <1> DEFINE m == Min(T)
  <1> HIDE DEF m
  <1>4. m \in T /\ \A y \in T : m <= y
    BY <1>3 DEF m
  <1>5. PICK x \in S : m = 0 - x
    BY <1>4
  <1>6. \A y \in S : x >= y
    <2> TAKE y \in S
    <2>1. 0 - y \in T /\ x \in Int /\ y \in Int
      OBVIOUS
    <2> HIDE DEF T
    <2> QED BY <1>4, <1>5, <2>1
  <1>7. Max(S) \in S /\ \A y \in S : Max(S) >= y
    BY <1>6 DEF Max
  <1>8. Max(S) \in Int
    BY <1>7
  <1> QED BY <1>7, <1>8

(* The parts of a valid request. *)
LEMMA AmountsAsked ==
  ASSUME NEW r, ValidRequest(r)
  PROVE  /\ r.total \in Nat \cup {NoAmount} /\ r.savedHotelPrice \in Nat \cup {NoAmount}
         /\ r.people \in Nat \ {0} /\ r.rooms \in Nat /\ r.nights \in Nat
  <1>1. r \in [total : Nat \cup {NoAmount}, people : Nat \ {0}, rooms : Nat, nights : Nat,
               flightLimits : {r.flightLimits}, hotelLimits : {r.hotelLimits},
               namedFlights : {r.namedFlights}, namedHotels : {r.namedHotels},
               flightWeights : {r.flightWeights}, hotelWeights : {r.hotelWeights},
               spend : {r.spend}, savedHotelPrice : Nat \cup {NoAmount}]
    BY Zenon DEF ValidRequest
  <1> QED BY <1>1

(* The limits of a valid request. *)
LEMMA LimitsAsked ==
  ASSUME NEW r, ValidRequest(r)
  PROVE  /\ IsFiniteSet(r.flightLimits)
         /\ \A limit \in r.flightLimits : limit.field = "price" => limit.operator = "<=" /\ limit.value \in Nat
  <1>1. ValidLimits(r.flightLimits)
    BY Zenon DEF ValidRequest
  <1> QED BY <1>1 DEF ValidLimits

(* Its wishes about flights. *)
LEMMA FlightWishesAsked ==
  ASSUME NEW r, ValidRequest(r)
  PROVE  /\ r.flightWeights.avoid_early_flight \in 0 .. Scale
         /\ r.flightWeights.avoid_late_arrival \in 0 .. Scale
         /\ r.flightWeights.prefer_direct \in 0 .. Scale
         /\ r.flightWeights.price_sensitive \in 0 .. Scale
  <1> DEFINE w == r.flightWeights
  <1>1. ValidWeights(w, {"avoid_early_flight", "avoid_late_arrival", "prefer_direct", "price_sensitive"})
    BY Zenon DEF ValidRequest
  <1> HIDE DEF w
  <1>2. w.avoid_early_flight \in 0 .. Scale
    BY <1>1 DEF ValidWeights
  <1>3. w.avoid_late_arrival \in 0 .. Scale
    BY <1>1 DEF ValidWeights
  <1>4. w.prefer_direct \in 0 .. Scale
    BY <1>1 DEF ValidWeights
  <1>5. w.price_sensitive \in 0 .. Scale
    BY <1>1 DEF ValidWeights
  <1> QED BY <1>2, <1>3, <1>4, <1>5 DEF w

(* Its wishes about hotels. *)
LEMMA HotelWishesAsked ==
  ASSUME NEW r, ValidRequest(r)
  PROVE  /\ r.hotelWeights.quiet \in 0 .. Scale
         /\ r.hotelWeights.cleanliness \in 0 .. Scale
         /\ r.hotelWeights.near_subway \in 0 .. Scale
         /\ r.hotelWeights.high_rating \in 0 .. Scale
         /\ r.hotelWeights.budget_friendly \in 0 .. Scale
  <1> DEFINE w == r.hotelWeights
  <1>1. ValidWeights(w, {"quiet", "cleanliness", "near_subway", "high_rating", "budget_friendly"})
    BY Zenon DEF ValidRequest
  <1> HIDE DEF w
  <1>2. w.quiet \in 0 .. Scale
    BY <1>1 DEF ValidWeights
  <1>3. w.cleanliness \in 0 .. Scale
    BY <1>1 DEF ValidWeights
  <1>4. w.near_subway \in 0 .. Scale
    BY <1>1 DEF ValidWeights
  <1>5. w.high_rating \in 0 .. Scale
    BY <1>1 DEF ValidWeights
  <1>6. w.budget_friendly \in 0 .. Scale
    BY <1>1 DEF ValidWeights
  <1> QED BY <1>2, <1>3, <1>4, <1>5, <1>6 DEF w

(* Its wishes about spending. *)
LEMMA SpendAsked ==
  ASSUME NEW r, ValidRequest(r)
  PROVE  ValidSpend(r.spend)
  BY Zenon DEF ValidRequest

(* The strictest of the limits on the price of a flight is one that all of them allow. *)
LEMMA PriceBound ==
  ASSUME NEW r, ValidRequest(r)
  PROVE  LET bound == UpperBound(r.flightLimits, "price")
         IN  /\ bound \in Nat \cup {NoAmount}
             /\ \A limit \in r.flightLimits : limit.field = "price" =>
                  bound # NoAmount /\ limit.value \in Nat /\ bound <= limit.value
  <1> DEFINE limits == {c \in r.flightLimits : c.field = "price" /\ c.operator \in {"<=", "<"}}
             values == {c.value : c \in limits}
  <1>1. UpperBound(r.flightLimits, "price") = IF values = {} THEN NoAmount ELSE Min(values)
    BY DEF UpperBound
  <1>2. values \subseteq Nat
    BY LimitsAsked
  <1>3. \A limit \in r.flightLimits : limit.field = "price" => limit.value \in values
    BY LimitsAsked
  <1>4. IsFiniteSet(values)
    <2> DEFINE f == [c \in limits |-> c.value]
    <2>1. IsFiniteSet(limits)
      BY FS_Subset, LimitsAsked
    <2>2. IsFiniteSet({f[c] : c \in limits})
      <3> HIDE DEF f, limits
      <3> QED BY <2>1, Image
    <2>3. {f[c] : c \in limits} = values
      <3> HIDE DEF limits
      <3> QED OBVIOUS
    <2> QED BY <2>2, <2>3
  <1> HIDE DEF values
  <1>5. CASE values = {}
    BY <1>1, <1>3, <1>5 DEF NoAmount
  <1>6. CASE values # {}
    <2> DEFINE bound == Min(values)
    <2>1. values \subseteq Int
      BY <1>2
    <2>2. bound \in values /\ \A v \in values : bound <= v
      BY <1>4, <1>6, <2>1, Smallest
    <2> HIDE DEF bound
    <2>3. bound \in Nat /\ bound # NoAmount
      BY <1>2, <2>2 DEF NoAmount
    <2>4. UpperBound(r.flightLimits, "price") = bound
      BY <1>1, <1>6 DEF bound
    <2> QED BY <1>2, <1>3, <2>2, <2>3, <2>4
  <1> QED BY <1>5, <1>6

(* The target for the price of a night is an amount. *)
LEMMA NightsHavePrices ==
  ASSUME NEW r, ValidRequest(r), NEW budget \in Nat \cup {NoAmount}
  PROVE  HotelPriceTarget(r, budget) \in Nat \cup {NoAmount}
  <1> DEFINE nights == r.rooms * r.nights
             fair == IF nights > 0 /\ budget # NoAmount THEN {Rounded(budget, nights)} ELSE {}
             values == {r.savedHotelPrice} \cup fair
             amounts == values \ {NoAmount}
  <1>1. HotelPriceTarget(r, budget) = IF values = {NoAmount} THEN NoAmount ELSE Min(amounts)
    BY DEF HotelPriceTarget
  <1>2. nights \in Nat
    BY AmountsAsked
  <1>3. fair \subseteq Nat /\ IsFiniteSet(fair)
    <2>1. CASE nights > 0 /\ budget # NoAmount
      <3>1. budget \in Nat /\ nights \in Nat \ {0}
        BY <1>2, <2>1
      <3> HIDE DEF nights
      <3>2. Rounded(budget, nights) \in Nat
        BY <3>1, SharesAreNumbers
      <3> QED BY <2>1, <3>2, FS_Singleton
    <2>2. CASE ~(nights > 0 /\ budget # NoAmount)
      BY <2>2, FS_EmptySet
    <2> QED BY <2>1, <2>2
  <1> HIDE DEF fair
  <1>4. IsFiniteSet(amounts) /\ amounts \subseteq Nat
    <2>1. IsFiniteSet(values)
      BY <1>3, FS_Singleton, FS_Union
    <2>2. IsFiniteSet(amounts)
      BY <2>1, FS_Subset
    <2>3. r.savedHotelPrice \in Nat \cup {NoAmount}
      BY AmountsAsked
    <2> QED BY <1>3, <2>2, <2>3
  <1>5. CASE values = {NoAmount}
    BY <1>1, <1>5
  <1>6. CASE values # {NoAmount}
    <2>1. amounts # {}
      BY <1>6
    <2>2. amounts \subseteq Int
      BY <1>4
    <2> HIDE DEF amounts, values
    <2>3. Min(amounts) \in amounts
      BY <1>4, <2>1, <2>2, Smallest
    <2> QED BY <1>1, <1>4, <1>6, <2>3
  <1> QED BY <1>5, <1>6

-----------------------------------------------------------------------------
(* Fits and scores. *)

(* The budget plan of a sound request. *)
SoundPlan(r, p) ==
  /\ p.mode = IF r.total = NoAmount THEN "no_budget_limit" ELSE "budget_limited"
  /\ p.total = r.total /\ p.maxTransport = UpperBound(r.flightLimits, "price")
  /\ p.ratios.transport \in Nat \ {0} /\ p.ratios.hotel \in Nat \ {0}
  /\ p.ratios.food_activity \in Nat
  /\ \A c \in SpendCategory : p.targets[c] \in Nat \cup {NoAmount}
  /\ r.total # NoAmount =>
       /\ \A c \in SpendCategory : p.targets[c] \in Nat
       /\ p.targets.transport + p.targets.hotel + p.targets.food_activity - r.total \in -1 .. 1
  /\ p.hotelPrice \in Nat \cup {NoAmount}

(* A valid request has a sound plan: positive weights, and targets that share the budget. *)
LEMMA PlansAreSound ==
  ASSUME NEW r, ValidRequest(r)
  PROVE  SoundPlan(r, BudgetPlan(r))
  <1> DEFINE ratios == AdjustedRatios(r.spend)
             a == ratios.transport
             b == ratios.hotel
             c == ratios.food_activity
             x == IF r.total = NoAmount THEN NoAmount ELSE Rounded(r.total * a, Scale)
             y == IF r.total = NoAmount THEN NoAmount ELSE Rounded(r.total * b, Scale)
             z == IF r.total = NoAmount THEN NoAmount ELSE Rounded(r.total * c, Scale)
             night == HotelPriceTarget(r, y)
             bound == UpperBound(r.flightLimits, "price")
             p == BudgetPlan(r)
  <1>1. ValidSpend(r.spend) /\ r.total \in Nat \cup {NoAmount}
    BY SpendAsked, AmountsAsked
  <1>2. a \in Nat \ {0} /\ b \in Nat \ {0} /\ c \in Nat /\ a + b + c = Scale
    <2> HIDE DEF a, b, c
    <2> QED BY <1>1, RatiosShareEverything DEF a, b, c
  <1>3. p = [mode |-> IF r.total = NoAmount THEN "no_budget_limit" ELSE "budget_limited",
             total |-> r.total, maxTransport |-> bound, ratios |-> ratios,
             targets |-> [transport |-> x, hotel |-> y, food_activity |-> z],
             hotelPrice |-> night]
    <2> HIDE DEF ratios, bound
    <2> QED BY DEF BudgetPlan, ratios, bound
  <1> HIDE DEF ratios, a, b, c, bound
  <1>4. ASSUME r.total # NoAmount
        PROVE  x \in Nat /\ y \in Nat /\ z \in Nat /\ x + y + z - r.total \in -1 .. 1
    <2> DEFINE n == r.total
    <2>1. n \in Nat
      BY <1>1, <1>4
    <2>2. x = Rounded(n * a, Scale) /\ y = Rounded(n * b, Scale) /\ z = Rounded(n * c, Scale)
      BY <1>4
    <2> HIDE DEF n, x, y, z
    <2>3. x \in Nat /\ y \in Nat /\ z \in Nat /\ x + y + z - n \in -1 .. 1
      BY <1>2, <2>1, <2>2, SharesAddUp
    <2> QED BY <2>3 DEF n
  <1>5. r.total = NoAmount => x = NoAmount /\ y = NoAmount /\ z = NoAmount
    OBVIOUS
  <1> HIDE DEF x, y, z
  <1>6. y \in Nat \cup {NoAmount}
    BY <1>4, <1>5
  <1>7. night \in Nat \cup {NoAmount}
    BY <1>6, NightsHavePrices
  <1> HIDE DEF night, p
  <1>8. /\ p.mode = IF r.total = NoAmount THEN "no_budget_limit" ELSE "budget_limited"
        /\ p.total = r.total /\ p.maxTransport = bound /\ p.hotelPrice = night
        /\ p.ratios = ratios
        /\ p.targets = [transport |-> x, hotel |-> y, food_activity |-> z]
    BY <1>3
  <1>9. /\ p.targets.transport = x /\ p.targets.hotel = y /\ p.targets.food_activity = z
    BY <1>8
  <1>10. p.ratios.transport = a /\ p.ratios.hotel = b /\ p.ratios.food_activity = c
    BY <1>8 DEF a, b, c
  <1>11. \A k \in SpendCategory : k = "transport" \/ k = "hotel" \/ k = "food_activity"
    BY DEF SpendCategory
  <1>12. \A k \in SpendCategory : p.targets[k] \in Nat \cup {NoAmount}
    BY <1>4, <1>5, <1>9, <1>11
  <1>13. r.total # NoAmount =>
           /\ \A k \in SpendCategory : p.targets[k] \in Nat
           /\ p.targets.transport + p.targets.hotel + p.targets.food_activity - r.total \in -1 .. 1
    BY <1>4, <1>9, <1>11
  <1>14. SoundPlan(r, p)
    BY <1>2, <1>7, <1>8, <1>10, <1>12, <1>13 DEF SoundPlan, bound
  <1> QED BY <1>14 DEF p

(* The fits of times and prices are scores. *)
LEMMA LinearFits ==
  ASSUME NEW v \in Int, NEW bad \in Int, NEW good \in Int, bad < good
  PROVE  LinearFit(v, bad, good) \in 0 .. Scale
  <1> DEFINE d == good - bad
             n == Scale * (v - bad)
             q == n \div d
  <1>1. d \in Nat \ {0} /\ n \in Int
    BY DEF Scale
  <1>2. LinearFit(v, bad, good) = Clamp01(q)
    BY DEF LinearFit
  <1> HIDE DEF d, n
  <1>3. q \in Int
    BY <1>1, Quotients
  <1> HIDE DEF q
  <1> QED BY <1>2, <1>3, Clamped

(* The fit of a time of departure or arrival is a score. *)
LEMMA TimesFit ==
  ASSUME NEW t \in Int
  PROVE  EarlyDepartureFit(t) \in 0 .. Scale /\ LateArrivalFit(t) \in 0 .. Scale
  <1>1. Scale \div 2 \in 0 .. Scale
    BY DEF Scale
  <1>2. LinearFit(t, 360, 540) \in 0 .. Scale
    BY LinearFits
  <1> DEFINE u == -(IF t <= 240 THEN t + 1440 ELSE t)
  <1>3. u \in Int
    OBVIOUS
  <1>4. LinearFit(u, -1440, -1200) \in 0 .. Scale
    <2> HIDE DEF u
    <2>1. -1440 \in Int /\ -1200 \in Int /\ -1440 < -1200
      OBVIOUS
    <2> QED BY <1>3, <2>1, LinearFits
  <1> QED BY <1>1, <1>2, <1>4 DEF EarlyDepartureFit, LateArrivalFit

(* A higher price fits no better, whatever it is compared with. *)
LEMMA PricesFit ==
  ASSUME NEW a \in Nat, NEW b \in Nat, a <= b, NEW target \in Nat \cup {NoAmount},
         NEW range, range = <<>> \/ (range[1] \in Int /\ range[2] \in Int), NEW sensitive
  PROVE  /\ PriceFit(a, target, range, sensitive) \in 0 .. Scale
         /\ PriceFit(b, target, range, sensitive) <= PriceFit(a, target, range, sensitive)
  <1> DEFINE Fit(price) == PriceFit(price, target, range, sensitive)
  <1>1. CASE target = 0
    <2>1. Fit(a) = (IF a = 0 THEN Scale ELSE 0) /\ Fit(b) = IF b = 0 THEN Scale ELSE 0
      BY <1>1 DEF PriceFit, NoAmount
    <2> HIDE DEF Fit
    <2>2. Fit(a) \in 0 .. Scale /\ Fit(b) <= Fit(a)
      BY <2>1 DEF Scale
    <2> QED BY <2>2 DEF Fit
  <1>2. CASE target > 0
    <2> DEFINE Over(price) == (Scale * target) \div (target + 2 * (price - target))
    <2>1. target \in Nat \ {0}
      BY <1>2 DEF NoAmount
    <2>2. \A price \in Nat : Fit(price) = IF price <= target THEN Scale ELSE Clamp01(Over(price))
      BY <1>2, <2>1 DEF PriceFit, NoAmount
    <2> HIDE DEF Fit
    <2>3. Scale \in 0 .. Scale /\ Scale \in Int
      BY DEF Scale
    <2>4. ASSUME NEW m \in Nat, NEW n \in Nat, m <= n, target < m
          PROVE  Over(m) \in Int /\ Over(n) \in Int /\ Over(n) <= Over(m)
      <3> DEFINE u == Scale * target
                 x == target + 2 * (m - target)
                 y == target + 2 * (n - target)
      <3>1. u \in Nat
        BY <2>1 DEF Scale
      <3>2. x \in Nat \ {0} /\ y \in Nat \ {0} /\ x <= y
        BY <2>1, <2>4
      <3> HIDE DEF u, x, y
      <3>3. u \div x \in Nat /\ u \div y \in Nat /\ u \div y <= u \div x
        BY <3>1, <3>2, QuotientsFall
      <3> QED BY <3>3 DEF u, x, y
    <2> HIDE DEF Over
    <2>5. CASE a <= target
      <3>1. Fit(a) = Scale
        BY <2>2, <2>5
      <3>2. CASE b <= target
        <4>1. Fit(b) = Scale
          BY <2>2, <3>2
        <4> QED BY <2>3, <3>1, <4>1 DEF Fit
      <3>3. CASE target < b
        <4>1. Fit(b) = Clamp01(Over(b))
          BY <2>1, <2>2, <3>3
        <4>2. Over(b) \in Int
          BY <2>4, <3>3
        <4>3. Clamp01(Over(b)) \in 0 .. Scale
          BY <4>2, Clamped
        <4>4. Fit(a) \in 0 .. Scale /\ Fit(b) <= Fit(a)
          BY <2>3, <3>1, <4>1, <4>3
        <4> QED BY <4>4 DEF Fit
      <3> QED BY <2>1, <3>2, <3>3
    <2>6. CASE target < a
      <3>1. Fit(a) = Clamp01(Over(a)) /\ Fit(b) = Clamp01(Over(b))
        BY <2>1, <2>2, <2>6
      <3>2. Over(a) \in Int /\ Over(b) \in Int /\ Over(b) <= Over(a)
        BY <2>4, <2>6
      <3>3. Fit(a) \in 0 .. Scale /\ Fit(b) <= Fit(a)
        BY <3>1, <3>2, Clamped
      <3> QED BY <3>3 DEF Fit
    <2> QED BY <2>1, <2>5, <2>6
  <1>3. CASE target = NoAmount /\ (sensitive /\ range # <<>>)
    <2> DEFINE low == range[1]
               high == range[2]
    <2>1. low \in Int /\ high \in Int
      BY <1>3
    <2>2. \A price \in Nat : Fit(price) =
            IF high <= low THEN Scale ELSE Clamp01((Scale * (high - price)) \div (high - low))
      BY <1>3 DEF PriceFit, NoAmount
    <2> HIDE DEF Fit, low, high
    <2>3. CASE high <= low
      <3>1. Fit(a) = Scale /\ Fit(b) = Scale
        BY <2>2, <2>3
      <3>2. Fit(a) \in 0 .. Scale /\ Fit(b) <= Fit(a)
        BY <3>1 DEF Scale
      <3> QED BY <3>2 DEF Fit
    <2>4. CASE low < high
      <3> DEFINE x == Scale * (high - a)
                 y == Scale * (high - b)
                 d == high - low
      <3>1. x \in Int /\ y \in Int /\ y <= x
        BY <2>1 DEF Scale
      <3>2. d \in Nat \ {0}
        BY <2>1, <2>4
      <3>3. ~(high <= low)
        BY <2>1, <2>4
      <3>4. Fit(a) = Clamp01(x \div d) /\ Fit(b) = Clamp01(y \div d)
        BY <2>2, <3>3
      <3> HIDE DEF x, y, d
      <3>5. x \div d \in Int /\ y \div d \in Int /\ y \div d <= x \div d
        BY <3>1, <3>2, QuotientsGrow
      <3>6. Fit(a) \in 0 .. Scale /\ Fit(b) <= Fit(a)
        BY <3>4, <3>5, Clamped
      <3> QED BY <3>6 DEF Fit
    <2> QED BY <2>1, <2>3, <2>4
  <1>4. CASE target = NoAmount /\ ~(sensitive /\ range # <<>>)
    <2>1. Fit(a) = Scale \div 2 /\ Fit(b) = Scale \div 2
      BY <1>4 DEF PriceFit, NoAmount
    <2> HIDE DEF Fit
    <2>2. Fit(a) \in 0 .. Scale /\ Fit(b) <= Fit(a)
      BY <2>1 DEF Scale
    <2> QED BY <2>2 DEF Fit
  <1>5. target = 0 \/ target > 0 \/ target = NoAmount
    OBVIOUS
  <1> QED BY <1>1, <1>2, <1>3, <1>4, <1>5

(* The range of prices is no range or one of numbers. *)
LEMMA RangesOfPrices ==
  ASSUME NEW S, S \subseteq Int, IsFiniteSet(S), NEW k \in Int
  PROVE  LET range == PriceRange(S)
             wide == ScaleRange(range, k)
         IN  /\ range = <<>> \/ (range[1] \in Int /\ range[2] \in Int)
             /\ wide = <<>> \/ (wide[1] \in Int /\ wide[2] \in Int)
  <1> DEFINE low == Min(S)
             high == Max(S)
  <1>1. CASE S = {}
    <2>1. PriceRange(S) = <<>>
      BY <1>1 DEF PriceRange
    <2>2. ScaleRange(<<>>, k) = <<>>
      <3>1. DOMAIN <<>> = {}
        OBVIOUS
      <3>2. <<>> = [i \in {} |-> <<>>[i] * k]
        OBVIOUS
      <3>3. ScaleRange(<<>>, k) = [i \in DOMAIN <<>> |-> <<>>[i] * k]
        BY DEF ScaleRange
      <3>4. ScaleRange(<<>>, k) = [i \in {} |-> <<>>[i] * k]
        BY <3>1, <3>3
      <3> QED BY <3>2, <3>4
    <2>3. ScaleRange(PriceRange(S), k) = <<>>
      BY <2>1, <2>2
    <2> QED BY <2>1, <2>3
  <1>2. CASE S # {}
    <2>1. low \in Int /\ high \in Int
      BY <1>2, Smallest, Greatest
    <2>2. PriceRange(S) = <<low, high>>
      BY <1>2 DEF PriceRange
    <2> HIDE DEF low, high
    <2> DEFINE wide == ScaleRange(<<low, high>>, k)
    <2>3. wide[1] = low * k /\ wide[2] = high * k
      BY <2>1 DEF ScaleRange
    <2> HIDE DEF wide
    <2>4. low * k \in Int /\ high * k \in Int
      BY <2>1
    <2>5. wide[1] \in Int /\ wide[2] \in Int
      BY <2>3, <2>4
    <2>6. ScaleRange(PriceRange(S), k) = wide
      BY <2>2 DEF wide
    <2>7. PriceRange(S)[1] \in Int /\ PriceRange(S)[2] \in Int
      BY <2>1, <2>2
    <2> QED BY <2>5, <2>6, <2>7
  <1> QED BY <1>1, <1>2

(* The mean of features and of the name is a score, and grows with each of them. *)
LEMMA PreferencesMatch ==
  ASSUME NEW u \in Nat, NEW v \in Nat, NEW w \in Nat,
         NEW a \in Int, NEW b \in Int, NEW c \in Int,
         NEW x \in Int, NEW y \in Int, NEW z \in Int, a <= x, b <= y, c <= z,
         NEW m, NEW n, m.weight \in Nat, n.weight = m.weight,
         m.score \in Int, n.score \in Int, m.score <= n.score
  PROVE  /\ PreferenceMatch(<<a, b, c>>, <<u, v, w>>, m) \in 0 .. Scale
         /\ PreferenceMatch(<<a, b, c>>, <<u, v, w>>, m)
              <= PreferenceMatch(<<x, y, z>>, <<u, v, w>>, n)
  <1> DEFINE k == m.weight
             i == m.score
             j == n.score
             s == u * a + v * b + w * c + k * i
             t == u * x + v * y + w * z + k * j
             d == u + v + w + k
  <1>1. k \in Nat /\ i \in Int /\ j \in Int /\ i <= j /\ n.weight = k
    OBVIOUS
  <1>2. /\ PreferenceMatch(<<a, b, c>>, <<u, v, w>>, m) =
             IF d = 0 THEN Scale \div 2 ELSE Clamp01(s \div d)
        /\ PreferenceMatch(<<x, y, z>>, <<u, v, w>>, n) =
             IF d = 0 THEN Scale \div 2 ELSE Clamp01(t \div d)
    BY DEF PreferenceMatch
  <1> HIDE DEF k, i, j
  <1>3. s \in Int /\ t \in Int /\ s <= t
    <2>1. u * a \in Int /\ u * x \in Int /\ u * a <= u * x
      BY ProductsGrow
    <2>2. v * b \in Int /\ v * y \in Int /\ v * b <= v * y
      BY ProductsGrow
    <2>3. w * c \in Int /\ w * z \in Int /\ w * c <= w * z
      BY ProductsGrow
    <2>4. k * i \in Int /\ k * j \in Int /\ k * i <= k * j
      BY <1>1, ProductsGrow
    <2> QED BY <2>1, <2>2, <2>3, <2>4
  <1>4. d \in Nat
    BY <1>1
  <1> HIDE DEF s, t, d
  <1> DEFINE p == PreferenceMatch(<<a, b, c>>, <<u, v, w>>, m)
             q == PreferenceMatch(<<x, y, z>>, <<u, v, w>>, n)
  <1>5. /\ p = IF d = 0 THEN Scale \div 2 ELSE Clamp01(s \div d)
        /\ q = IF d = 0 THEN Scale \div 2 ELSE Clamp01(t \div d)
    BY <1>2
  <1> HIDE DEF p, q
  <1>6. CASE d = 0
    <2>1. p \in 0 .. Scale /\ p <= q
      BY <1>5, <1>6 DEF Scale
    <2> QED BY <2>1 DEF p, q
  <1>7. CASE d # 0
    <2>1. s \div d \in Int /\ t \div d \in Int /\ s \div d <= t \div d
      BY <1>3, <1>4, <1>7, QuotientsGrow
    <2>2. p \in 0 .. Scale /\ p <= q
      BY <1>5, <1>7, <2>1, Clamped
    <2> QED BY <2>2 DEF p, q
  <1> QED BY <1>6, <1>7

(* A preferred name counts for whoever bears it. *)
LEMMA NamesCount ==
  ASSUME NEW f, NEW g, NEW named
  PROVE  LET m == NamedPreference(f, named)
             n == NamedPreference(g, named)
         IN  /\ m.weight \in Nat /\ n.weight = m.weight
             /\ m.score \in 0 .. Scale /\ n.score \in 0 .. Scale
             /\ f.names \cap NamesIn(named, "preferred") = {} => m.score <= n.score
  BY DEF NamedPreference, Scale

(* Offers with the features the scores read. *)
SoundFlight(f) ==
  /\ f.id \in Int /\ f.price \in Nat /\ f.depart_time \in Int /\ f.arrive_time \in Int
  /\ f.is_direct \in 0 .. 1 /\ f.refundable \in 0 .. 1 /\ f.changeable \in 0 .. 1

SoundHotel(h) ==
  /\ h.id \in Int /\ h.price_per_night \in Nat /\ h.near_subway \in 0 .. 1
  /\ h.rating \in 0 .. Scale /\ h.quiet \in 0 .. Scale /\ h.cleanliness \in 0 .. Scale

(* As good in everything a traveller can have a wish about, and no dearer. *)
AsGood(r, g, f) ==
  /\ g.price <= f.price /\ g.is_direct >= f.is_direct
  /\ g.refundable >= f.refundable /\ g.changeable >= f.changeable
  /\ EarlyDepartureFit(g.depart_time) >= EarlyDepartureFit(f.depart_time)
  /\ LateArrivalFit(g.arrive_time) >= LateArrivalFit(f.arrive_time)
  /\ f.names \cap NamesIn(r.namedFlights, "preferred") = {}

(* A scored flight has a number as every part of its key, and is ranked no lower than one *)
(* it is as good as.                                                                      *)
LEMMA FlightScores ==
  ASSUME NEW r, ValidRequest(r), NEW target \in Nat \cup {NoAmount},
         NEW offered, IsFiniteSet(offered), \A o \in offered : SoundFlight(o),
         NEW f, SoundFlight(f), NEW g, SoundFlight(g)
  PROVE  LET s == ScoreFlight(r, target, offered, f)
             t == ScoreFlight(r, target, offered, g)
         IN  /\ s.id = f.id /\ s.cost = f.price * r.people /\ s.cost \in Nat
             /\ s.score \in 0 .. Scale
             /\ s.key \in [1 .. 4 -> Int] /\ s.key[1] = -s.score /\ s.key[2] = s.cost /\ s.key[4] = f.id
             /\ AsGood(r, g, f) => s.score <= t.score
  <1> DEFINE weights == r.flightWeights
             early == weights.avoid_early_flight
             late == weights.avoid_late_arrival
             direct == weights.prefer_direct
             careful == weights.price_sensitive
             prices == {o.price : o \in offered}
             range == ScaleRange(PriceRange(prices), 2 * r.people)
             Cost(x) == x.price * r.people
             Match(x) == PreferenceMatch(
               <<EarlyDepartureFit(x.depart_time), LateArrivalFit(x.arrive_time), Scale * x.is_direct>>,
               <<early, late, direct>>, NamedPreference(x, r.namedFlights))
             Price(x) == PriceFit(2 * Cost(x), target, range, careful > 0)
             heavy == 350 + (150 * careful) \div Scale
             Score(x) == Weighted(<<Match(x), Price(x), FlexibilityFit(x)>>, <<500, heavy, 150>>)
             Depart(x) == IF x.depart_time = NoTime THEN 1000000000 ELSE x.depart_time
  <1>1. \A x : ScoreFlight(r, target, offered, x) =
                 [id |-> x.id, cost |-> Cost(x), score |-> Score(x),
                  key |-> <<-Score(x), Cost(x), Depart(x), x.id>>]
    BY DEF ScoreFlight
  <1>2. /\ early \in Nat /\ late \in Nat /\ direct \in Nat /\ careful \in 0 .. Scale
        /\ r.people \in Nat \ {0}
    <2>1. early \in 0 .. Scale
      BY FlightWishesAsked
    <2>2. late \in 0 .. Scale
      BY FlightWishesAsked
    <2>3. direct \in 0 .. Scale
      BY FlightWishesAsked
    <2>4. careful \in 0 .. Scale
      BY FlightWishesAsked
    <2>5. r.people \in Nat \ {0}
      BY AmountsAsked
    <2> HIDE DEF early, late, direct, careful
    <2> QED BY <2>1, <2>2, <2>3, <2>4, <2>5
  <1>3. range = <<>> \/ (range[1] \in Int /\ range[2] \in Int)
    <2> DEFINE price == [o \in offered |-> o.price]
    <2>1. IsFiniteSet({price[o] : o \in offered})
      <3> HIDE DEF price
      <3> QED BY Image
    <2>2. {price[o] : o \in offered} = prices
      OBVIOUS
    <2>3. prices \subseteq Int /\ IsFiniteSet(prices)
      <3>1. \A o \in offered : o.price \in Int
        BY DEF SoundFlight
      <3> QED BY <2>1, <2>2, <3>1
    <2>4. 2 * r.people \in Int
      BY <1>2
    <2> HIDE DEF prices
    <2> QED BY <2>3, <2>4, RangesOfPrices
  <1> HIDE DEF early, late, direct, careful, range
  <1>4. heavy \in Nat
    <2>1. (150 * careful) \div 1000 \in Nat
      BY <1>2
    <2> QED BY <2>1 DEF Scale
  <1>5. ASSUME NEW x, SoundFlight(x)
        PROVE  /\ Cost(x) \in Nat /\ Match(x) \in 0 .. Scale /\ Price(x) \in 0 .. Scale
               /\ FlexibilityFit(x) \in 0 .. Scale
               /\ EarlyDepartureFit(x.depart_time) \in 0 .. Scale
               /\ LateArrivalFit(x.arrive_time) \in 0 .. Scale
               /\ Scale * x.is_direct \in Int
    <2>1. Cost(x) \in Nat
      BY <1>2, <1>5 DEF SoundFlight
    <2>2. EarlyDepartureFit(x.depart_time) \in 0 .. Scale /\ LateArrivalFit(x.arrive_time) \in 0 .. Scale
      BY <1>5, TimesFit DEF SoundFlight
    <2>3. Scale * x.is_direct \in Int
      BY <1>5 DEF SoundFlight, Scale
    <2>4. Match(x) \in 0 .. Scale
      <3> DEFINE m == NamedPreference(x, r.namedFlights)
                 a == EarlyDepartureFit(x.depart_time)
                 b == LateArrivalFit(x.arrive_time)
                 c == Scale * x.is_direct
      <3>1. m.weight \in Nat /\ m.score \in 0 .. Scale
        BY NamesCount
      <3>2. a \in Int /\ b \in Int /\ c \in Int /\ m.score \in Int
        BY <2>2, <2>3, <3>1
      <3> HIDE DEF m, a, b, c
      <3>3. a <= a /\ b <= b /\ c <= c /\ m.score <= m.score
        BY <3>2
      <3>4. PreferenceMatch(<<a, b, c>>, <<early, late, direct>>, m) \in 0 .. Scale
        BY <1>2, <3>1, <3>2, <3>3, PreferencesMatch
      <3> QED BY <3>4 DEF m, a, b, c
    <2>5. Price(x) \in 0 .. Scale
      <3> DEFINE k == 2 * Cost(x)
      <3>1. k \in Nat /\ k <= k
        BY <2>1
      <3> HIDE DEF k
      <3>2. PriceFit(k, target, range, careful > 0) \in 0 .. Scale
        BY <1>3, <3>1, PricesFit
      <3> QED BY <3>2 DEF k
    <2>6. FlexibilityFit(x) \in 0 .. Scale
      <3>1. x.refundable + x.changeable \in 0 .. 2
        BY <1>5 DEF SoundFlight
      <3> QED BY <3>1 DEF FlexibilityFit, Scale
    <2> QED BY <2>1, <2>2, <2>3, <2>4, <2>5, <2>6
  <1>6. ASSUME AsGood(r, g, f)
        PROVE  /\ Match(f) <= Match(g) /\ Price(f) <= Price(g)
               /\ FlexibilityFit(f) <= FlexibilityFit(g)
    <2>1. Match(f) <= Match(g)
      <3> DEFINE m == NamedPreference(f, r.namedFlights)
                 n == NamedPreference(g, r.namedFlights)
                 a == EarlyDepartureFit(f.depart_time)
                 b == LateArrivalFit(f.arrive_time)
                 c == Scale * f.is_direct
                 x == EarlyDepartureFit(g.depart_time)
                 y == LateArrivalFit(g.arrive_time)
                 z == Scale * g.is_direct
      <3>1. /\ m.weight \in Nat /\ n.weight = m.weight /\ m.score \in 0 .. Scale /\ n.score \in 0 .. Scale
            /\ m.score <= n.score
        BY <1>6, NamesCount DEF AsGood
      <3>2. /\ a \in 0 .. Scale /\ b \in 0 .. Scale /\ c \in Int
            /\ x \in 0 .. Scale /\ y \in 0 .. Scale /\ z \in Int
        BY <1>5
      <3>3. a <= x /\ b <= y /\ c <= z
        <4>1. a <= x /\ b <= y
          <5>1. x >= a /\ y >= b
            BY <1>6 DEF AsGood
          <5> HIDE DEF a, b, x, y
          <5> QED BY <3>2, <5>1
        <4>2. g.is_direct >= f.is_direct /\ g.is_direct \in Int /\ f.is_direct \in Int
          BY <1>6 DEF AsGood, SoundFlight
        <4>3. c <= z
          BY <4>2 DEF Scale
        <4> QED BY <4>1, <4>3
      <3> HIDE DEF m, n, a, b, c, x, y, z
      <3>4. a \in Int /\ b \in Int /\ x \in Int /\ y \in Int /\ m.score \in Int /\ n.score \in Int
        BY <3>1, <3>2
      <3>5. PreferenceMatch(<<a, b, c>>, <<early, late, direct>>, m)
              <= PreferenceMatch(<<x, y, z>>, <<early, late, direct>>, n)
        BY <1>2, <3>1, <3>2, <3>3, <3>4, PreferencesMatch
      <3> QED BY <3>5 DEF m, n, a, b, c, x, y, z
    <2>2. Price(f) <= Price(g)
      <3> DEFINE a == 2 * Cost(g)
                 b == 2 * Cost(f)
      <3>1. g.price \in Nat /\ f.price \in Nat /\ g.price <= f.price
        BY <1>6 DEF AsGood, SoundFlight
      <3>2. r.people * g.price <= r.people * f.price
        BY <1>2, <3>1, ProductsGrow
      <3>3. a \in Nat /\ b \in Nat /\ a <= b
        BY <1>2, <1>5, <3>1, <3>2
      <3> HIDE DEF a, b
      <3>4. PriceFit(b, target, range, careful > 0) <= PriceFit(a, target, range, careful > 0)
        BY <1>3, <3>3, PricesFit
      <3> QED BY <3>4 DEF a, b
    <2>3. FlexibilityFit(f) <= FlexibilityFit(g)
      <3> DEFINE x == Scale * (f.refundable + f.changeable)
                 y == Scale * (g.refundable + g.changeable)
      <3>1. /\ f.refundable \in 0 .. 1 /\ f.changeable \in 0 .. 1 /\ g.refundable \in 0 .. 1
            /\ g.changeable \in 0 .. 1
            /\ g.refundable >= f.refundable /\ g.changeable >= f.changeable
        BY <1>6 DEF AsGood, SoundFlight
      <3>2. x \in Int /\ y \in Int /\ x <= y
        <4> DEFINE a == f.refundable
                   b == f.changeable
                   c == g.refundable
                   d == g.changeable
        <4>1. a \in 0 .. 1 /\ b \in 0 .. 1 /\ c \in 0 .. 1 /\ d \in 0 .. 1 /\ c >= a /\ d >= b
          BY <3>1
        <4> HIDE DEF a, b, c, d
        <4>2. 1000 * (a + b) \in Int /\ 1000 * (c + d) \in Int /\ 1000 * (a + b) <= 1000 * (c + d)
          BY <4>1
        <4> QED BY <4>2 DEF Scale, a, b, c, d
      <3> HIDE DEF x, y
      <3>3. x \div 2 <= y \div 2
        BY <3>2, QuotientsGrow
      <3> QED BY <3>3 DEF FlexibilityFit, x, y
    <2> QED BY <2>1, <2>2, <2>3
  <1> HIDE DEF Match, Price, heavy
  <1>7. \A x : SoundFlight(x) => Score(x) \in 0 .. Scale
    <2> SUFFICES ASSUME NEW x, SoundFlight(x) PROVE Score(x) \in 0 .. Scale
      OBVIOUS
    <2> DEFINE a == Match(x)
               b == Price(x)
               c == FlexibilityFit(x)
    <2>1. a \in 0 .. Scale /\ b \in 0 .. Scale /\ c \in 0 .. Scale
      BY <1>5
    <2> HIDE DEF a, b, c
    <2>2. a \in Int /\ b \in Int /\ c \in Int /\ a <= a /\ b <= b /\ c <= c
      BY <2>1
    <2>3. 500 \in Nat /\ 150 \in Nat /\ 500 + heavy + 150 > 0
      BY <1>4
    <2>4. Weighted(<<a, b, c>>, <<500, heavy, 150>>) \in 0 .. Scale
      BY <1>4, <2>2, <2>3, WeightedGrows
    <2> QED BY <2>4 DEF a, b, c
  <1>8. AsGood(r, g, f) => Score(f) <= Score(g)
    <2> SUFFICES ASSUME AsGood(r, g, f) PROVE Score(f) <= Score(g)
      OBVIOUS
    <2> DEFINE a == Match(f)
               b == Price(f)
               c == FlexibilityFit(f)
               x == Match(g)
               y == Price(g)
               z == FlexibilityFit(g)
    <2>1. a \in 0 .. Scale /\ b \in 0 .. Scale /\ c \in 0 .. Scale
          /\ x \in 0 .. Scale /\ y \in 0 .. Scale /\ z \in 0 .. Scale
      BY <1>5
    <2>2. a <= x /\ b <= y /\ c <= z
      BY <1>6
    <2> HIDE DEF a, b, c, x, y, z
    <2>3. a \in Int /\ b \in Int /\ c \in Int /\ x \in Int /\ y \in Int /\ z \in Int
      BY <2>1
    <2>4. 500 \in Nat /\ 150 \in Nat /\ 500 + heavy + 150 > 0
      BY <1>4
    <2>5. Weighted(<<a, b, c>>, <<500, heavy, 150>>) <= Weighted(<<x, y, z>>, <<500, heavy, 150>>)
      BY <1>4, <2>2, <2>3, <2>4, WeightedGrows
    <2> QED BY <2>5 DEF a, b, c, x, y, z
  <1> DEFINE s == ScoreFlight(r, target, offered, f)
             t == ScoreFlight(r, target, offered, g)
             sf == Score(f)
             sg == Score(g)
             cf == Cost(f)
             df == Depart(f)
  <1>9. sf \in 0 .. Scale /\ sg \in 0 .. Scale /\ cf \in Nat /\ df \in Int /\ f.id \in Int
    <2>1. sf \in 0 .. Scale /\ sg \in 0 .. Scale
      BY <1>7
    <2>2. cf \in Nat
      BY <1>5
    <2>3. f.depart_time \in Int /\ f.id \in Int
      BY DEF SoundFlight
    <2>4. df \in Int
      BY SMT, <2>3
    <2> QED BY <2>1, <2>2, <2>3, <2>4
  <1>10. s = [id |-> f.id, cost |-> cf, score |-> sf, key |-> <<-sf, cf, df, f.id>>]
    BY <1>1
  <1>11. t.score = sg
    BY <1>1
  <1> HIDE DEF s, t, sf, sg, cf, df
  <1>12. s.id = f.id /\ s.cost = cf /\ s.score = sf /\ s.key = <<-sf, cf, df, f.id>>
    BY <1>10
  <1>13. s.key \in [1 .. 4 -> Int] /\ s.key[1] = -sf /\ s.key[2] = cf /\ s.key[4] = f.id
    <2>1. -sf \in Int /\ cf \in Int
      BY <1>9
    <2> QED BY <1>9, <1>12, <2>1
  <1>14. AsGood(r, g, f) => sf <= sg
    BY <1>8 DEF sf, sg
  <1>15. cf = f.price * r.people
    BY DEF cf
  <1>16. /\ s.id = f.id /\ s.cost = f.price * r.people /\ s.cost \in Nat
         /\ s.score \in 0 .. Scale
         /\ s.key \in [1 .. 4 -> Int] /\ s.key[1] = -s.score /\ s.key[2] = s.cost /\ s.key[4] = f.id
         /\ AsGood(r, g, f) => s.score <= t.score
    BY <1>9, <1>11, <1>12, <1>13, <1>14, <1>15
  <1> QED BY <1>16 DEF s, t

-----------------------------------------------------------------------------
(* The ranking. *)

(* A scored hotel has a number as every part of its key. *)
LEMMA HotelScores ==
  ASSUME NEW r, ValidRequest(r), NEW target \in Nat \cup {NoAmount},
         NEW offered, IsFiniteSet(offered), \A o \in offered : SoundHotel(o),
         NEW h, SoundHotel(h)
  PROVE  LET s == ScoreHotel(r, target, offered, h)
         IN  /\ s.id = h.id /\ s.cost = h.price_per_night * r.nights * r.rooms /\ s.cost \in Nat
             /\ s.score \in 0 .. Scale
             /\ s.key \in [1 .. 4 -> Int] /\ s.key[4] = h.id
  <1> DEFINE weights == r.hotelWeights
             u == weights.quiet
             v == weights.cleanliness
             w == weights.near_subway
             x == weights.high_rating
             y == weights.budget_friendly
             prices == {o.price_per_night : o \in offered}
             range == PriceRange(prices)
             name == NamedPreference(h, r.namedHotels)
             direct == Scale * h.near_subway
             match == PreferenceMatch(<<h.quiet, h.cleanliness, direct>>, <<u, v, w>>, name)
             price == PriceFit(h.price_per_night, target, range, y > 0)
             cheap == 250 + (100 * y) \div Scale
             high == 200 + (100 * x) \div Scale
             score == Weighted(<<match, price, h.rating>>, <<550, cheap, high>>)
             cost == h.price_per_night * r.nights * r.rooms
             s == ScoreHotel(r, target, offered, h)
  <1>1. s = [id |-> h.id, cost |-> cost, score |-> score,
             key |-> <<-score, h.price_per_night, -h.rating, h.id>>]
    BY DEF ScoreHotel
  <1>2. /\ u \in Nat /\ v \in Nat /\ w \in Nat /\ x \in 0 .. Scale /\ y \in 0 .. Scale
    <2>1. u \in 0 .. Scale
      BY HotelWishesAsked
    <2>2. v \in 0 .. Scale
      BY HotelWishesAsked
    <2>3. w \in 0 .. Scale
      BY HotelWishesAsked
    <2>4. x \in 0 .. Scale
      BY HotelWishesAsked
    <2>5. y \in 0 .. Scale
      BY HotelWishesAsked
    <2> HIDE DEF u, v, w, x, y
    <2> QED BY <2>1, <2>2, <2>3, <2>4, <2>5
  <1>3. range = <<>> \/ (range[1] \in Int /\ range[2] \in Int)
    <2> DEFINE f == [o \in offered |-> o.price_per_night]
    <2>1. IsFiniteSet({f[o] : o \in offered})
      <3> HIDE DEF f
      <3> QED BY Image
    <2>2. {f[o] : o \in offered} = prices
      OBVIOUS
    <2>3. prices \subseteq Int /\ IsFiniteSet(prices)
      <3>1. \A o \in offered : o.price_per_night \in Int
        BY DEF SoundHotel
      <3> QED BY <2>1, <2>2, <3>1
    <2> HIDE DEF prices
    <2>4. 1 \in Int
      OBVIOUS
    <2> QED BY <2>3, <2>4, RangesOfPrices
  <1>4. /\ h.id \in Int /\ h.price_per_night \in Nat /\ h.rating \in Nat
        /\ h.quiet \in Int /\ h.cleanliness \in Int /\ direct \in Int
    <2> DEFINE a == h.near_subway
               b == h.rating
               c == h.quiet
               d == h.cleanliness
    <2>1. /\ h.id \in Int /\ h.price_per_night \in Nat /\ a \in 0 .. 1
          /\ b \in 0 .. Scale /\ c \in 0 .. Scale /\ d \in 0 .. Scale
      BY DEF SoundHotel
    <2> HIDE DEF a, b, c, d
    <2>2. Scale * a \in Int /\ b \in Nat /\ c \in Int /\ d \in Int
      BY <2>1 DEF Scale
    <2> QED BY <2>1, <2>2 DEF a, b, c, d
  <1>5. r.nights \in Nat /\ r.rooms \in Nat
    BY AmountsAsked
  <1>6. cost \in Nat
    BY <1>4, <1>5
  <1> HIDE DEF u, v, w, x, y, range, direct
  <1>7. match \in 0 .. Scale
    <2> DEFINE a == h.quiet
               b == h.cleanliness
    <2>1. name.weight \in Nat /\ name.score \in 0 .. Scale
      BY NamesCount
    <2> HIDE DEF name
    <2>2. name.score \in Int
      BY <2>1
    <2>3. a \in Int /\ b \in Int
      BY <1>4
    <2> HIDE DEF a, b
    <2>4. a <= a /\ b <= b /\ direct <= direct /\ name.score <= name.score
      BY <1>4, <2>2, <2>3
    <2>5. PreferenceMatch(<<a, b, direct>>, <<u, v, w>>, name) \in 0 .. Scale
      BY <1>2, <1>4, <2>1, <2>2, <2>3, <2>4, PreferencesMatch
    <2> QED BY <2>5 DEF a, b
  <1>8. price \in 0 .. Scale
    <2> DEFINE k == h.price_per_night
    <2>1. k \in Nat /\ k <= k
      BY <1>4
    <2> HIDE DEF k
    <2>2. PriceFit(k, target, range, y > 0) \in 0 .. Scale
      BY <1>3, <2>1, PricesFit
    <2> QED BY <2>2 DEF k
  <1>9. cheap \in Nat /\ high \in Nat
    <2>1. (100 * y) \div 1000 \in Nat /\ (100 * x) \div 1000 \in Nat
      BY <1>2
    <2> QED BY <2>1 DEF Scale
  <1> HIDE DEF match, price, cheap, high
  <1>10. score \in 0 .. Scale
    <2> DEFINE c == h.rating
    <2>1. c \in Int
      BY <1>4
    <2> HIDE DEF c
    <2>2. match \in Int /\ price \in Int /\ match <= match /\ price <= price /\ c <= c
      BY <1>7, <1>8, <2>1
    <2>3. 550 \in Nat /\ 550 + cheap + high > 0
      BY <1>9
    <2>4. Weighted(<<match, price, c>>, <<550, cheap, high>>) \in 0 .. Scale
      BY <1>9, <2>1, <2>2, <2>3, WeightedGrows
    <2> QED BY <2>4 DEF c
  <1> HIDE DEF score, cost, s
  <1>11. s.id = h.id /\ s.cost = cost /\ s.score = score
         /\ s.key = <<-score, h.price_per_night, -h.rating, h.id>>
    BY <1>1
  <1>12. s.key \in [1 .. 4 -> Int] /\ s.key[4] = h.id
    <2> DEFINE a == h.rating
    <2>1. a \in Nat
      BY <1>4
    <2> HIDE DEF a
    <2>2. -score \in Int /\ -a \in Int
      BY <1>10, <2>1
    <2>3. -score \in Int /\ h.price_per_night \in Int /\ -h.rating \in Int
      BY <1>4, <2>2 DEF a
    <2> QED BY <1>4, <1>11, <2>3
  <1> QED BY <1>6, <1>10, <1>11, <1>12 DEF s, cost

(* Offers with numbers of their own, sorted by keys that end in these numbers. *)
LEMMA Ranking ==
  ASSUME NEW P, IsFiniteSet(P), NEW sc,
         NEW S, \A o \in P : sc[o] \in S, \A s \in S : \E o \in P : s = sc[o],
         \A o \in P : sc[o].id = o.id /\ sc[o].key \in [1 .. 4 -> Int] /\ sc[o].key[4] = o.id,
         \A o, q \in P : o.id = q.id => o = q
  PROVE  LET list == Sorted(S)
         IN  /\ Len(list) \in Nat /\ DOMAIN list = 1 .. Len(list)
             /\ \A i \in DOMAIN list : \E o \in P : list[i] = sc[o]
             /\ \A o \in P : \E i \in DOMAIN list : list[i] = sc[o]
             /\ \A i, j \in DOMAIN list : list[i].id = list[j].id => i = j
             /\ Sortable(S)
  <1> DEFINE list == Sorted(S)
  <1>1. Sortable(S)
    <2>1. IsFiniteSet(S)
      <3>1. IsFiniteSet({sc[o] : o \in P})
        BY Image
      <3>2. S = {sc[o] : o \in P}
        OBVIOUS
      <3> QED BY <3>1, <3>2
    <2>2. 4 \in Nat /\ \A s \in S : s.key \in [1 .. 4 -> Int]
      OBVIOUS
    <2>3. \A s, t \in S : s.key = t.key => s = t
      <3> SUFFICES ASSUME NEW o \in P, NEW q \in P, sc[o].key = sc[q].key PROVE sc[o] = sc[q]
        OBVIOUS
      <3>1. o.id = q.id
        OBVIOUS
      <3> QED BY <3>1
    <2> QED BY <2>1, <2>2, <2>3 DEF Sortable
  <1>2. /\ Cardinality(S) \in Nat /\ DOMAIN list = 1 .. Cardinality(S)
        /\ Len(list) = Cardinality(S)
        /\ \A i \in DOMAIN list : list[i] \in S
        /\ \A s \in S : \E i \in DOMAIN list : list[i] = s
        /\ \A i, j \in DOMAIN list : i < j <=> Precedes(list[i].key, list[j].key)
    BY <1>1, SortedLists
  <1> HIDE DEF list
  <1>3. \A i \in DOMAIN list : \E o \in P : list[i] = sc[o]
    BY <1>2
  <1>4. \A o \in P : \E i \in DOMAIN list : list[i] = sc[o]
    BY <1>2
  <1>5. ASSUME NEW i \in DOMAIN list, NEW j \in DOMAIN list, list[i].id = list[j].id PROVE i = j
    <2>1. PICK o \in P : list[i] = sc[o]
      BY <1>3
    <2>2. PICK q \in P : list[j] = sc[q]
      BY <1>3
    <2>3. o = q
      BY <1>5, <2>1, <2>2
    <2>4. list[i].key = list[j].key /\ list[i].key \in [1 .. 4 -> Int] /\ 4 \in Nat
      BY <2>1, <2>2, <2>3
    <2>5. ~Precedes(list[i].key, list[j].key) /\ ~Precedes(list[j].key, list[i].key)
      BY <2>4, TuplesInOrder
    <2>6. ~(i < j) /\ ~(j < i) /\ i \in Int /\ j \in Int
      BY <1>2, <2>5
    <2> QED BY <2>6
  <1>6. /\ Len(list) \in Nat /\ DOMAIN list = 1 .. Len(list)
        /\ \A i \in DOMAIN list : \E o \in P : list[i] = sc[o]
        /\ \A o \in P : \E i \in DOMAIN list : list[i] = sc[o]
        /\ \A i, j \in DOMAIN list : list[i].id = list[j].id => i = j
        /\ Sortable(S)
    BY <1>1, <1>2, <1>3, <1>4, <1>5
  <1> QED BY <1>6 DEF list

(* Offers of a group. *)
SoundOffers(g, offered) ==
  /\ IsFiniteSet(offered)
  /\ \A o \in offered : IF g = "hotel" THEN SoundHotel(o) ELSE SoundFlight(o)
  /\ \A o, p \in offered : o.id = p.id => o = p

(* The offers that pass the filters. *)
Passing(r, g, offered) == IF g = "hotel" THEN PassingHotels(r, offered) ELSE PassingFlights(r, offered)

(* What an offer costs the travellers. *)
CostOf(r, g, o) ==
  IF g = "hotel" THEN o.price_per_night * r.nights * r.rooms ELSE o.price * r.people

(* The candidates of a group are the offers that pass, each once. *)
SoundRanking(r, g, offered, list) ==
  /\ Len(list) \in Nat /\ DOMAIN list = 1 .. Len(list)
  /\ \A i \in DOMAIN list :
       /\ list[i].score \in 0 .. Scale /\ list[i].id \in Int /\ list[i].cost \in Nat
       /\ \E o \in Passing(r, g, offered) : list[i].id = o.id /\ list[i].cost = CostOf(r, g, o)
  /\ \A o \in Passing(r, g, offered) :
       \E i \in DOMAIN list : list[i].id = o.id /\ list[i].cost = CostOf(r, g, o)
  /\ \A i, j \in DOMAIN list : list[i].id = list[j].id => i = j

(* The candidates of a group are the offers that pass its filters, each once, with a score. *)
LEMMA RankedGroups ==
  ASSUME NEW r, ValidRequest(r), NEW p, SoundPlan(r, p), NEW g \in Groups,
         NEW offered, SoundOffers(g, offered)
  PROVE  SoundRanking(r, g, offered, RankGroup(r, p, offered, g))
  <1> DEFINE P == Passing(r, g, offered)
  <1>1. P \subseteq offered
    BY DEF Passing, PassingHotels, PassingFlights
  <1>2. IsFiniteSet(P) /\ \A o, q \in P : o.id = q.id => o = q
    <2>1. IsFiniteSet(offered) /\ \A o, q \in offered : o.id = q.id => o = q
      BY DEF SoundOffers
    <2> HIDE DEF P
    <2> QED BY <1>1, <2>1, FS_Subset
  <1>3. CASE g = "hotel"
    <2> DEFINE target == p.hotelPrice
               sc == [h \in P |-> ScoreHotel(r, target, offered, h)]
               S == {ScoreHotel(r, target, offered, h) : h \in PassingHotels(r, offered)}
               list == RankGroup(r, p, offered, g)
    <2>1. P = PassingHotels(r, offered)
      BY <1>3 DEF Passing
    <2>2. /\ \A o \in P : sc[o] \in S
          /\ \A s \in S : \E o \in P : s = sc[o]
      BY <2>1
    <2>3. target \in Nat \cup {NoAmount}
      BY DEF SoundPlan
    <2>4. \A o \in offered : SoundHotel(o)
      BY <1>3 DEF SoundOffers
    <2>5. IsFiniteSet(offered)
      BY DEF SoundOffers
    <2>6. \A o \in P : /\ sc[o].id = o.id /\ sc[o].id \in Int /\ sc[o].cost = CostOf(r, g, o)
                       /\ sc[o].cost \in Nat /\ sc[o].score \in 0 .. Scale
                       /\ sc[o].key \in [1 .. 4 -> Int] /\ sc[o].key[4] = o.id
      <3> SUFFICES ASSUME NEW o \in P
          PROVE  /\ sc[o].id = o.id /\ sc[o].id \in Int /\ sc[o].cost = CostOf(r, g, o)
                 /\ sc[o].cost \in Nat /\ sc[o].score \in 0 .. Scale
                 /\ sc[o].key \in [1 .. 4 -> Int] /\ sc[o].key[4] = o.id
        OBVIOUS
      <3> DEFINE s == ScoreHotel(r, target, offered, o)
      <3>1. SoundHotel(o)
        BY <1>1, <2>4
      <3> HIDE DEF target
      <3>2. /\ s.id = o.id /\ s.cost = o.price_per_night * r.nights * r.rooms /\ s.cost \in Nat
            /\ s.score \in 0 .. Scale
            /\ s.key \in [1 .. 4 -> Int] /\ s.key[4] = o.id
        <4> HIDE DEF s, sc, S, list, P
        <4>1. \A h : SoundHotel(h) =>
                LET t == ScoreHotel(r, target, offered, h)
                IN  /\ t.id = h.id /\ t.cost = h.price_per_night * r.nights * r.rooms /\ t.cost \in Nat
                    /\ t.score \in 0 .. Scale
                    /\ t.key \in [1 .. 4 -> Int] /\ t.key[4] = h.id
          BY ONLY ValidRequest(r), <2>3, <2>4, <2>5, HotelScores
        <4> QED BY <3>1, <4>1 DEF s
      <3>3. sc[o] = s
        OBVIOUS
      <3>4. o.id \in Int
        BY <3>1 DEF SoundHotel
      <3>5. CostOf(r, g, o) = o.price_per_night * r.nights * r.rooms
        BY <1>3 DEF CostOf
      <3> HIDE DEF s, sc
      <3> QED BY <3>2, <3>3, <3>4, <3>5
    <2>7. list = Sorted(S)
      BY <1>3 DEF RankGroup, Legs
    <2> HIDE DEF S, sc, list, P
    <2>8. /\ Len(list) \in Nat /\ DOMAIN list = 1 .. Len(list)
          /\ \A i \in DOMAIN list : \E o \in P : list[i] = sc[o]
          /\ \A o \in P : \E i \in DOMAIN list : list[i] = sc[o]
          /\ \A i, j \in DOMAIN list : list[i].id = list[j].id => i = j
          /\ Sortable(S)
      BY SMTT(30), <1>2, <2>2, <2>6, <2>7, Ranking
    <2>9. ASSUME NEW i \in DOMAIN list
          PROVE  /\ list[i].score \in 0 .. Scale /\ list[i].id \in Int /\ list[i].cost \in Nat
                 /\ \E o \in P : list[i].id = o.id /\ list[i].cost = CostOf(r, g, o)
      <3>1. PICK o \in P : list[i] = sc[o]
        BY <2>8
      <3> QED BY <2>6, <3>1
    <2>10. \A o \in P : \E i \in DOMAIN list : list[i].id = o.id /\ list[i].cost = CostOf(r, g, o)
      BY <2>6, <2>8
    <2>11. SoundRanking(r, g, offered, list)
      BY <2>8, <2>9, <2>10 DEF SoundRanking, P
    <2> QED BY <2>11 DEF list
  <1>4. CASE g # "hotel"
    <2> DEFINE target == p.targets.transport
               sc == [f \in P |-> ScoreFlight(r, target, offered, f)]
               S == {ScoreFlight(r, target, offered, f) : f \in PassingFlights(r, offered)}
               list == RankGroup(r, p, offered, g)
    <2>1. P = PassingFlights(r, offered)
      BY <1>4 DEF Passing
    <2>2. /\ \A o \in P : sc[o] \in S
          /\ \A s \in S : \E o \in P : s = sc[o]
      BY <2>1
    <2>3. target \in Nat \cup {NoAmount}
      BY DEF SoundPlan, SpendCategory
    <2>4. \A o \in offered : SoundFlight(o)
      BY <1>4 DEF SoundOffers
    <2>5. IsFiniteSet(offered)
      BY DEF SoundOffers
    <2>6. \A o \in P : /\ sc[o].id = o.id /\ sc[o].id \in Int /\ sc[o].cost = CostOf(r, g, o)
                       /\ sc[o].cost \in Nat /\ sc[o].score \in 0 .. Scale
                       /\ sc[o].key \in [1 .. 4 -> Int] /\ sc[o].key[4] = o.id
      <3> SUFFICES ASSUME NEW o \in P
          PROVE  /\ sc[o].id = o.id /\ sc[o].id \in Int /\ sc[o].cost = CostOf(r, g, o)
                 /\ sc[o].cost \in Nat /\ sc[o].score \in 0 .. Scale
                 /\ sc[o].key \in [1 .. 4 -> Int] /\ sc[o].key[4] = o.id
        OBVIOUS
      <3> DEFINE s == ScoreFlight(r, target, offered, o)
      <3>1. SoundFlight(o)
        BY <1>1, <2>4
      <3> HIDE DEF target
      <3>2. /\ s.id = o.id /\ s.cost = o.price * r.people /\ s.cost \in Nat
            /\ s.score \in 0 .. Scale
            /\ s.key \in [1 .. 4 -> Int] /\ s.key[4] = o.id
        BY <2>3, <2>4, <2>5, <3>1, FlightScores
      <3>3. sc[o] = s
        OBVIOUS
      <3>4. o.id \in Int
        BY <3>1 DEF SoundFlight
      <3>5. CostOf(r, g, o) = o.price * r.people
        BY <1>4 DEF CostOf
      <3> HIDE DEF s, sc
      <3> QED BY <3>2, <3>3, <3>4, <3>5
    <2>7. list = Sorted(S)
      BY <1>4 DEF RankGroup, Legs, Groups
    <2> HIDE DEF S, sc, list, P
    <2>8. /\ Len(list) \in Nat /\ DOMAIN list = 1 .. Len(list)
          /\ \A i \in DOMAIN list : \E o \in P : list[i] = sc[o]
          /\ \A o \in P : \E i \in DOMAIN list : list[i] = sc[o]
          /\ \A i, j \in DOMAIN list : list[i].id = list[j].id => i = j
          /\ Sortable(S)
      BY SMTT(30), <1>2, <2>2, <2>6, <2>7, Ranking
    <2>9. ASSUME NEW i \in DOMAIN list
          PROVE  /\ list[i].score \in 0 .. Scale /\ list[i].id \in Int /\ list[i].cost \in Nat
                 /\ \E o \in P : list[i].id = o.id /\ list[i].cost = CostOf(r, g, o)
      <3>1. PICK o \in P : list[i] = sc[o]
        BY <2>8
      <3> QED BY <2>6, <3>1
    <2>10. \A o \in P : \E i \in DOMAIN list : list[i].id = o.id /\ list[i].cost = CostOf(r, g, o)
      BY <2>6, <2>8
    <2>11. SoundRanking(r, g, offered, list)
      BY <2>8, <2>9, <2>10 DEF SoundRanking, P
    <2> QED BY <2>11 DEF list
  <1> QED BY <1>3, <1>4

(* Of two flights of a leg the one that is as good and cheaper is ranked first. *)
LEMMA FlightsInOrder ==
  ASSUME NEW r, ValidRequest(r), NEW p, SoundPlan(r, p), NEW leg \in Legs,
         NEW offered, SoundOffers(leg, offered)
  PROVE  LET list == RankGroup(r, p, offered, leg)
         IN  \A i, j \in DOMAIN list : \A f, g \in offered :
               /\ list[i].id = g.id /\ list[j].id = f.id
               /\ AsGood(r, g, f) /\ g.price < f.price
               => i < j
  <1> DEFINE P == PassingFlights(r, offered)
             target == p.targets.transport
             sc == [f \in P |-> ScoreFlight(r, target, offered, f)]
             S == {ScoreFlight(r, target, offered, f) : f \in P}
             list == RankGroup(r, p, offered, leg)
  <1>1. P \subseteq offered
    BY DEF PassingFlights
  <1>2. IsFiniteSet(offered) /\ \A o, q \in offered : o.id = q.id => o = q
    BY DEF SoundOffers
  <1>3. \A o \in offered : SoundFlight(o)
    BY DEF SoundOffers, Legs
  <1>4. target \in Nat \cup {NoAmount}
    BY DEF SoundPlan, SpendCategory
  <1>5. /\ \A o \in P : sc[o] \in S
        /\ \A s \in S : \E o \in P : s = sc[o]
    OBVIOUS
  <1>6. list = Sorted(S)
    BY DEF RankGroup, Legs
  <1> HIDE DEF target, P, S
  <1>7. IsFiniteSet(P) /\ \A o, q \in P : o.id = q.id => o = q
    BY <1>1, <1>2, FS_Subset
  <1>8. ASSUME NEW f \in P, NEW g \in P
        PROVE  /\ sc[f].id = f.id /\ sc[f].cost = f.price * r.people /\ sc[f].score \in 0 .. Scale
               /\ sc[f].key \in [1 .. 4 -> Int] /\ sc[f].key[1] = -sc[f].score
               /\ sc[f].key[2] = sc[f].cost /\ sc[f].key[4] = f.id
               /\ AsGood(r, g, f) => sc[f].score <= sc[g].score
    <2> DEFINE s == ScoreFlight(r, target, offered, f)
               t == ScoreFlight(r, target, offered, g)
    <2>1. SoundFlight(f) /\ SoundFlight(g)
      BY <1>1, <1>3
    <2>2. /\ s.id = f.id /\ s.cost = f.price * r.people /\ s.score \in 0 .. Scale
          /\ s.key \in [1 .. 4 -> Int] /\ s.key[1] = -s.score /\ s.key[2] = s.cost /\ s.key[4] = f.id
          /\ AsGood(r, g, f) => s.score <= t.score
      BY <1>2, <1>3, <1>4, <2>1, FlightScores
    <2>3. sc[f] = s /\ sc[g] = t
      OBVIOUS
    <2> HIDE DEF s, t, sc
    <2> QED BY <2>2, <2>3
  <1> HIDE DEF sc, list
  <1>9. /\ \A i \in DOMAIN list : \E o \in P : list[i] = sc[o]
        /\ \A i, j \in DOMAIN list : i < j <=> Precedes(list[i].key, list[j].key)
    <2>1. \A o \in P : sc[o].id = o.id /\ sc[o].key \in [1 .. 4 -> Int] /\ sc[o].key[4] = o.id
      BY <1>8
    <2>2. /\ Len(list) \in Nat /\ DOMAIN list = 1 .. Len(list)
          /\ \A i \in DOMAIN list : \E o \in P : list[i] = sc[o]
          /\ \A o \in P : \E i \in DOMAIN list : list[i] = sc[o]
          /\ \A i, j \in DOMAIN list : list[i].id = list[j].id => i = j
          /\ Sortable(S)
      BY <1>5, <1>6, <1>7, <2>1, Ranking
    <2>3. \A i, j \in DOMAIN list : i < j <=> Precedes(list[i].key, list[j].key)
      BY <1>6, <2>2, SortedLists
    <2> QED BY <2>2, <2>3
  <1>10. ASSUME NEW i \in DOMAIN list, NEW j \in DOMAIN list, NEW f \in offered, NEW g \in offered,
                list[i].id = g.id, list[j].id = f.id, AsGood(r, g, f), g.price < f.price
         PROVE  i < j
    <2>1. list[i] = sc[g] /\ g \in P
      <3>1. PICK o \in P : list[i] = sc[o]
        BY <1>9
      <3>2. o = g
        BY <1>1, <1>2, <1>8, <1>10, <3>1
      <3> QED BY <3>1, <3>2
    <2>2. list[j] = sc[f] /\ f \in P
      <3>1. PICK o \in P : list[j] = sc[o]
        BY <1>9
      <3>2. o = f
        BY <1>1, <1>2, <1>8, <1>10, <3>1
      <3> QED BY <3>1, <3>2
    <2> DEFINE a == sc[g].key
               b == sc[f].key
               s == sc[g].score
               t == sc[f].score
               c == g.price * r.people
               d == f.price * r.people
    <2>3. /\ a \in [1 .. 4 -> Int] /\ a[1] = -s /\ a[2] = c
          /\ b \in [1 .. 4 -> Int] /\ b[1] = -t /\ b[2] = d
          /\ s \in 0 .. Scale /\ t \in 0 .. Scale /\ t <= s
      BY <1>8, <1>10, <2>1, <2>2
    <2>4. c < d /\ c \in Int /\ d \in Int
      <3>1. g.price \in Nat /\ f.price \in Nat /\ r.people \in Nat \ {0}
        <4>1. SoundFlight(f) /\ SoundFlight(g)
          BY <1>3
        <4>2. g.price \in Nat /\ f.price \in Nat
          BY <4>1 DEF SoundFlight
        <4>3. r.people \in Nat \ {0}
          BY AmountsAsked
        <4> QED BY <4>2, <4>3
      <3> DEFINE x == g.price
                 y == f.price
                 n == r.people
      <3>2. x \in Nat /\ y \in Nat /\ n \in Nat \ {0} /\ x < y
        BY <1>10, <3>1
      <3> HIDE DEF x, y, n
      <3>3. n * (x + 1) <= n * y
        BY <3>2, ProductsGrow
      <3>4. x * n < y * n /\ x * n \in Int /\ y * n \in Int
        BY <3>2, <3>3
      <3> QED BY <3>4 DEF x, y, n
    <2> HIDE DEF a, b, s, t, c, d
    <2>5. DOMAIN a = 1 .. 4 /\ s \in Int /\ t \in Int
      BY <2>3
    <2>6. CASE t < s
      <3>1. 1 \in DOMAIN a /\ a[1] < b[1]
        BY <2>3, <2>5, <2>6
      <3>2. \A k \in 1 .. 1 - 1 : a[k] = b[k]
        OBVIOUS
      <3> QED BY <1>9, <2>1, <2>2, <3>1, <3>2 DEF Precedes, a, b
    <2>7. CASE t = s
      <3>1. 2 \in DOMAIN a /\ a[2] < b[2]
        BY <2>3, <2>4, <2>5
      <3>2. \A k \in 1 .. 2 - 1 : a[k] = b[k]
        BY <2>3, <2>7
      <3>3. Precedes(a, b)
        BY <3>1, <3>2 DEF Precedes
      <3> QED BY <1>9, <2>1, <2>2, <3>3 DEF a, b
    <2> QED BY <2>3, <2>5, <2>6, <2>7
  <1> QED BY <1>10 DEF list

-----------------------------------------------------------------------------
(* Combinations. *)

(* The candidates of all groups. *)
SoundRankings(r, offered, candidates) ==
  \A g \in Groups : SoundRanking(r, g, offered[g], candidates[g])

(* The pool has candidates by their rank, each once, and all of them if they are few. *)
LEMMA PoolOf ==
  ASSUME NEW r, NEW g, NEW offered, NEW list, SoundRanking(r, g, offered, list)
  PROVE  LET limited == LimitCandidates(list)
         IN  /\ IsFiniteSet(limited)
             /\ \A c \in limited : c[1] \in DOMAIN list /\ c[2] = list[c[1]]
             /\ \A c, d \in limited : c[2].id = d[2].id => c = d
             /\ Len(list) <= MaxCandidates => \A i \in DOMAIN list : <<i, list[i]>> \in limited
  <1> DEFINE firsts == {i \in DOMAIN list : \A j \in DOMAIN list : j < i => list[j].id # list[i].id}
             few == {i \in firsts : Cardinality({j \in firsts : j < i}) < MaxCandidates}
             limited == LimitCandidates(list)
  <1>1. limited = {<<i, list[i]>> : i \in few}
    BY DEF LimitCandidates
  <1>2. /\ Len(list) \in Nat /\ DOMAIN list = 1 .. Len(list)
        /\ \A i, j \in DOMAIN list : list[i].id = list[j].id => i = j
    BY DEF SoundRanking
  <1>3. firsts = DOMAIN list
    BY <1>2
  <1>4. few \subseteq DOMAIN list
    OBVIOUS
  <1>5. Len(list) <= MaxCandidates => few = DOMAIN list
    <2> SUFFICES ASSUME Len(list) <= MaxCandidates, NEW i \in DOMAIN list PROVE i \in few
      BY <1>4
    <2> DEFINE before == {j \in firsts : j < i}
    <2>1. before = 1 .. i - 1
      <3>1. before = {j \in DOMAIN list : j < i}
        BY <1>3
      <3> HIDE DEF before
      <3> QED BY <1>2, <3>1
    <2>2. Cardinality(1 .. i - 1) = i - 1
      <3>1. 1 \in Int /\ i - 1 \in Int /\ i \in Nat /\ i >= 1
        BY <1>2
      <3>2. Cardinality(1 .. i - 1) = IF 1 > i - 1 THEN 0 ELSE i - 1 - 1 + 1
        BY <3>1, FS_Interval
      <3> QED BY <3>1, <3>2
    <2>3. Cardinality(before) < MaxCandidates
      <3>1. Cardinality(before) = i - 1
        BY <2>1, <2>2
      <3>2. i \in Int /\ i <= Len(list) /\ Len(list) \in Nat /\ MaxCandidates \in Nat
        BY <1>2, BoundsAreNumbers
      <3> HIDE DEF before
      <3> QED BY <3>1, <3>2
    <2>4. i \in firsts
      BY <1>3
    <2> QED BY <2>3, <2>4
  <1> HIDE DEF few, firsts, limited
  <1>6. IsFiniteSet(few)
    <2>1. IsFiniteSet(DOMAIN list)
      BY <1>2, FS_Interval
    <2> QED BY <1>4, <2>1, FS_Subset
  <1>7. IsFiniteSet(limited)
    <2> DEFINE f == [i \in few |-> <<i, list[i]>>]
    <2>1. IsFiniteSet({f[i] : i \in few})
      <3> HIDE DEF f
      <3> QED BY <1>6, Image
    <2>2. {f[i] : i \in few} = limited
      BY <1>1
    <2> QED BY <2>1, <2>2
  <1>8. \A c \in limited : c[1] \in DOMAIN list /\ c[2] = list[c[1]] /\ c = <<c[1], c[2]>>
    BY <1>1, <1>4
  <1>9. \A c, d \in limited : c[2].id = d[2].id => c = d
    <2> SUFFICES ASSUME NEW c \in limited, NEW d \in limited, c[2].id = d[2].id PROVE c = d
      OBVIOUS
    <2>1. c[1] = d[1]
      BY <1>2, <1>8
    <2> QED BY <1>8, <2>1
  <1>10. Len(list) <= MaxCandidates => \A i \in DOMAIN list : <<i, list[i]>> \in limited
    BY <1>1, <1>5
  <1> QED BY <1>7, <1>8, <1>9, <1>10 DEF limited

(* A combination is a candidate of every group, with the costs of an offer that passes. *)
LEMMA PartsOf ==
  ASSUME NEW r, NEW offered, NEW candidates, SoundRankings(r, offered, candidates),
         NEW c \in Combinations(Pool(candidates))
  PROVE  /\ c = [outbound |-> c.outbound, return |-> c.return, hotel |-> c.hotel]
         /\ \A g \in Groups :
              /\ c[g] \in LimitCandidates(candidates[g])
              /\ c[g][1] \in Nat /\ c[g][2].id \in Int /\ c[g][2].score \in 0 .. Scale
              /\ c[g][2].cost \in Nat
              /\ \E o \in Passing(r, g, offered[g]) : c[g][2].cost = CostOf(r, g, o)
         /\ KnownCosts(c) = [outbound |-> c.outbound[2].cost, return |-> c.return[2].cost,
                             hotel |-> c.hotel[2].cost,
                             transport |-> c.outbound[2].cost + c.return[2].cost,
                             subtotal |-> c.outbound[2].cost + c.return[2].cost + c.hotel[2].cost]
         /\ Subtotal(c) = c.outbound[2].cost + c.return[2].cost + c.hotel[2].cost
         /\ Subtotal(c) \in Nat
  <1> DEFINE pool == Pool(candidates)
  <1>1. c \in [outbound : pool.outbound, return : pool.return, hotel : pool.hotel]
    BY DEF Combinations
  <1>2. /\ c = [outbound |-> c.outbound, return |-> c.return, hotel |-> c.hotel]
        /\ c.outbound \in pool.outbound /\ c.return \in pool.return /\ c.hotel \in pool.hotel
    <2> HIDE DEF pool
    <2> QED BY <1>1
  <1>3. \A g \in Groups : pool[g] = LimitCandidates(candidates[g])
    BY DEF Pool
  <1>4. \A g \in Groups : g = "outbound" \/ g = "return" \/ g = "hotel"
    BY DEF Groups, Legs
  <1>5. "outbound" \in Groups /\ "return" \in Groups /\ "hotel" \in Groups
    BY DEF Groups, Legs
  <1> HIDE DEF pool
  <1>6. \A g \in Groups : c[g] \in LimitCandidates(candidates[g])
    BY <1>2, <1>3, <1>4
  <1>7. ASSUME NEW g \in Groups
        PROVE  /\ c[g] \in LimitCandidates(candidates[g])
               /\ c[g][1] \in Nat /\ c[g][2].id \in Int /\ c[g][2].score \in 0 .. Scale
               /\ c[g][2].cost \in Nat
               /\ \E o \in Passing(r, g, offered[g]) : c[g][2].cost = CostOf(r, g, o)
    <2> DEFINE list == candidates[g]
    <2>1. SoundRanking(r, g, offered[g], list)
      BY DEF SoundRankings
    <2> HIDE DEF list
    <2>2. \A d \in LimitCandidates(list) : d[1] \in DOMAIN list /\ d[2] = list[d[1]]
      BY <2>1, PoolOf
    <2>3. c[g] \in LimitCandidates(list)
      BY <1>6 DEF list
    <2> DEFINE i == c[g][1]
    <2>4. i \in DOMAIN list /\ c[g][2] = list[i]
      BY <2>2, <2>3
    <2> HIDE DEF i
    <2>5. /\ Len(list) \in Nat /\ DOMAIN list = 1 .. Len(list)
          /\ list[i].score \in 0 .. Scale /\ list[i].id \in Int /\ list[i].cost \in Nat
          /\ \E o \in Passing(r, g, offered[g]) : list[i].id = o.id /\ list[i].cost = CostOf(r, g, o)
      BY <2>1, <2>4 DEF SoundRanking
    <2>6. i \in Nat
      BY <2>4, <2>5
    <2>7. \E o \in Passing(r, g, offered[g]) : c[g][2].cost = CostOf(r, g, o)
      BY <2>4, <2>5
    <2>8. c[g] \in LimitCandidates(candidates[g]) /\ c[g][1] \in Nat
      BY <2>3, <2>6 DEF list, i
    <2> QED BY <2>4, <2>5, <2>7, <2>8
  <1>8. c.outbound[2].cost \in Nat /\ c.return[2].cost \in Nat /\ c.hotel[2].cost \in Nat
    BY <1>5, <1>7
  <1>9. KnownCosts(c) = [outbound |-> c.outbound[2].cost, return |-> c.return[2].cost,
                         hotel |-> c.hotel[2].cost,
                         transport |-> c.outbound[2].cost + c.return[2].cost,
                         subtotal |-> c.outbound[2].cost + c.return[2].cost + c.hotel[2].cost]
    BY DEF KnownCosts
  <1> DEFINE sum == c.outbound[2].cost + c.return[2].cost + c.hotel[2].cost
  <1>10. sum \in Nat
    BY <1>8
  <1>11. Subtotal(c) = sum
    BY <1>9 DEF Subtotal
  <1> QED BY <1>2, <1>7, <1>9, <1>10, <1>11

(* There are finitely many combinations. *)
LEMMA CombinationsFinite ==
  ASSUME NEW r, NEW offered, NEW candidates, SoundRankings(r, offered, candidates)
  PROVE  IsFiniteSet(Combinations(Pool(candidates)))
  <1> DEFINE pool == Pool(candidates)
             A == pool.outbound
             B == pool.return
             C == pool.hotel
             T == (A \X B) \X C
             f == [t \in T |-> [outbound |-> t[1][1], return |-> t[1][2], hotel |-> t[2]]]
  <1>1. IsFiniteSet(A) /\ IsFiniteSet(B) /\ IsFiniteSet(C)
    <2>1. \A g \in Groups : IsFiniteSet(LimitCandidates(candidates[g]))
      <3> SUFFICES ASSUME NEW g \in Groups PROVE IsFiniteSet(LimitCandidates(candidates[g]))
        OBVIOUS
      <3>1. SoundRanking(r, g, offered[g], candidates[g])
        BY DEF SoundRankings
      <3> QED BY <3>1, PoolOf
    <2>2. \A g \in Groups : pool[g] = LimitCandidates(candidates[g])
      BY DEF Pool
    <2>3. "outbound" \in Groups /\ "return" \in Groups /\ "hotel" \in Groups
      BY DEF Groups, Legs
    <2> HIDE DEF pool
    <2> QED BY <2>1, <2>2, <2>3
  <1> HIDE DEF A, B, C
  <1>2. IsFiniteSet(T)
    BY <1>1, FS_Product
  <1>3. IsFiniteSet({f[t] : t \in T})
    <2> HIDE DEF f, T
    <2> QED BY <1>2, Image
  <1>4. [outbound : A, return : B, hotel : C] \subseteq {f[t] : t \in T}
    <2> SUFFICES ASSUME NEW c \in [outbound : A, return : B, hotel : C] PROVE c \in {f[t] : t \in T}
      OBVIOUS
    <2> DEFINE t == <<<<c.outbound, c.return>>, c.hotel>>
    <2>1. t \in T
      OBVIOUS
    <2>2. f[t] = [outbound |-> c.outbound, return |-> c.return, hotel |-> c.hotel]
      BY <2>1
    <2>3. c = [outbound |-> c.outbound, return |-> c.return, hotel |-> c.hotel]
      OBVIOUS
    <2> HIDE DEF t, f, T
    <2>4. c = f[t]
      BY <2>2, <2>3
    <2> QED BY <2>1, <2>4
  <1>5. Combinations(pool) = [outbound : A, return : B, hotel : C]
    BY DEF Combinations, A, B, C
  <1> HIDE DEF f, T, pool
  <1>6. IsFiniteSet(Combinations(pool))
    BY <1>3, <1>4, <1>5, FS_Subset
  <1> QED BY <1>6 DEF pool

(* A combination that is as good in every part and costs no more has a score no lower. *)
LEMMA CombinationsScore ==
  ASSUME NEW r, ValidRequest(r), NEW p, SoundPlan(r, p),
         NEW offered, NEW candidates, SoundRankings(r, offered, candidates),
         NEW c \in Combinations(Pool(candidates)), NEW d \in Combinations(Pool(candidates)),
         \A g \in Groups : c[g][2].score <= d[g][2].score, Subtotal(d) <= Subtotal(c)
  PROVE  CombinationScore(p, c) \in 0 .. Scale /\ CombinationScore(p, c) <= CombinationScore(p, d)
  <1>1. "outbound" \in Groups /\ "return" \in Groups /\ "hotel" \in Groups
    BY DEF Groups, Legs
  <1>2. /\ c.outbound[2].score \in 0 .. Scale /\ c.return[2].score \in 0 .. Scale
        /\ c.hotel[2].score \in 0 .. Scale /\ Subtotal(c) \in Nat
    BY <1>1, PartsOf
  <1>3. /\ d.outbound[2].score \in 0 .. Scale /\ d.return[2].score \in 0 .. Scale
        /\ d.hotel[2].score \in 0 .. Scale /\ Subtotal(d) \in Nat
    BY <1>1, PartsOf
  <1>4. /\ c.outbound[2].score <= d.outbound[2].score /\ c.return[2].score <= d.return[2].score
        /\ c.hotel[2].score <= d.hotel[2].score
    BY <1>1
  <1> DEFINE a == TransportQuality(c)
             b == c.hotel[2].score
             x == TransportQuality(d)
             y == d.hotel[2].score
             limited == p.mode = "budget_limited"
             e == IF limited THEN ReserveFit(p, c) ELSE 0
             z == IF limited THEN ReserveFit(p, d) ELSE 0
             u == p.ratios.transport
             v == p.ratios.hotel
             w == IF limited THEN p.ratios.food_activity ELSE 0
  <1>5. CombinationScore(p, c) = Weighted(<<a, b, e>>, <<u, v, w>>)
        /\ CombinationScore(p, d) = Weighted(<<x, y, z>>, <<u, v, w>>)
    BY DEF CombinationScore
  <1>6. a \in Int /\ x \in Int /\ a <= x
    <2> DEFINE k == c.outbound[2].score
               l == c.return[2].score
               m == d.outbound[2].score
               n == d.return[2].score
    <2>1. k \in 0 .. Scale /\ l \in 0 .. Scale /\ m \in 0 .. Scale /\ n \in 0 .. Scale /\ k <= m /\ l <= n
      BY <1>2, <1>3, <1>4
    <2>2. a = (k + l) \div 2 /\ x = (m + n) \div 2
      BY DEF TransportQuality
    <2> HIDE DEF k, l, m, n, a, x
    <2> DEFINE f == k + l
               g == m + n
    <2>3. f \in Int /\ g \in Int /\ f <= g /\ 2 \in Nat \ {0}
      BY <2>1 DEF Scale
    <2>4. a = f \div 2 /\ x = g \div 2
      BY <2>2
    <2> HIDE DEF f, g
    <2> QED BY <2>3, <2>4, QuotientsGrow
  <1>7. b \in Int /\ y \in Int /\ b <= y
    <2>1. b \in 0 .. Scale /\ y \in 0 .. Scale /\ b <= y
      BY <1>2, <1>3, <1>4
    <2> HIDE DEF b, y
    <2> QED BY <2>1 DEF Scale
  <1>8. u \in Nat /\ v \in Nat /\ w \in Nat /\ u + v + w > 0
    <2>1. u \in Nat \ {0} /\ v \in Nat \ {0} /\ p.ratios.food_activity \in Nat
      BY DEF SoundPlan
    <2>2. w \in Nat
      BY <2>1
    <2> HIDE DEF u, v, w
    <2> QED BY <2>1, <2>2
  <1>9. e \in Int /\ z \in Int /\ e <= z
    <2>1. CASE ~limited
      BY <2>1
    <2>2. CASE limited
      <3> DEFINE t == p.targets.food_activity
                 m == p.total - Subtotal(c)
                 n == p.total - Subtotal(d)
      <3>1. r.total # NoAmount /\ p.total = r.total /\ r.total \in Nat
        <4>1. p.mode = (IF r.total = NoAmount THEN "no_budget_limit" ELSE "budget_limited")
              /\ p.total = r.total
          BY DEF SoundPlan
        <4>2. r.total \in Nat \cup {NoAmount}
          BY AmountsAsked
        <4>3. r.total # NoAmount
          BY <2>2, <4>1
        <4> QED BY <4>1, <4>2, <4>3
      <3>2. t \in Nat
        BY <3>1 DEF SoundPlan, SpendCategory
      <3>3. m \in Int /\ n \in Int /\ m <= n
        BY <1>2, <1>3, <3>1
      <3>4. Remaining(p, c) = m /\ Remaining(p, d) = n
        BY <3>1 DEF Remaining
      <3>5. /\ ReserveFit(p, c) = IF t <= 0 THEN Scale ELSE Clamp01((Scale * m) \div t)
            /\ ReserveFit(p, d) = IF t <= 0 THEN Scale ELSE Clamp01((Scale * n) \div t)
        BY <3>4 DEF ReserveFit
      <3>6. e = ReserveFit(p, c) /\ z = ReserveFit(p, d)
        BY <2>2
      <3> HIDE DEF t, m, n, e, z
      <3>7. CASE t <= 0
        BY <3>5, <3>6, <3>7 DEF Scale
      <3>8. CASE ~(t <= 0)
        <4> DEFINE i == Scale * m
                   j == Scale * n
        <4>1. i \in Int /\ j \in Int /\ i <= j /\ t \in Nat \ {0}
          BY <3>2, <3>3, <3>8 DEF Scale
        <4>2. e = Clamp01(i \div t) /\ z = Clamp01(j \div t)
          BY <3>5, <3>6, <3>8
        <4> HIDE DEF i, j
        <4>3. i \div t \in Int /\ j \div t \in Int /\ i \div t <= j \div t
          BY <4>1, QuotientsGrow
        <4>4. Clamp01(i \div t) \in 0 .. Scale /\ Clamp01(j \div t) \in 0 .. Scale
              /\ Clamp01(i \div t) <= Clamp01(j \div t)
          <5>1. j \div t <= j \div t
            BY <4>3
          <5> QED BY <4>3, <5>1, Clamped
        <4> QED BY <4>2, <4>4 DEF Scale
      <3> QED BY <3>7, <3>8
    <2> QED BY <2>1, <2>2
  <1> HIDE DEF a, b, e, x, y, z, u, v, w
  <1>10. /\ Weighted(<<a, b, e>>, <<u, v, w>>) \in 0 .. Scale
         /\ Weighted(<<a, b, e>>, <<u, v, w>>) <= Weighted(<<x, y, z>>, <<u, v, w>>)
    BY <1>6, <1>7, <1>8, <1>9, WeightedGrows
  <1> QED BY <1>5, <1>10

(* The plan's mode says whether there is a budget. *)
LEMMA ModeOf ==
  ASSUME NEW r, ValidRequest(r), NEW p, SoundPlan(r, p)
  PROVE  /\ p.total = r.total /\ r.total \in Nat \cup {NoAmount}
         /\ p.mode = "budget_limited" <=> r.total # NoAmount
         /\ p.mode = "budget_limited" <=> r.total \in Nat
         /\ p.maxTransport \in Nat \cup {NoAmount}
  <1>1. p.mode = (IF r.total = NoAmount THEN "no_budget_limit" ELSE "budget_limited")
        /\ p.total = r.total /\ p.maxTransport = UpperBound(r.flightLimits, "price")
    BY DEF SoundPlan
  <1>2. r.total \in Nat \cup {NoAmount}
    BY AmountsAsked
  <1>3. UpperBound(r.flightLimits, "price") \in Nat \cup {NoAmount}
    BY PriceBound
  <1>4. NoAmount \notin Nat
    BY DEF NoAmount
  <1> QED BY <1>1, <1>2, <1>3, <1>4

(* The best of the feasible combinations is one of them, and none that is as good in every *)
(* part costs less.                                                                        *)
LEMMA BestOf ==
  ASSUME NEW r, ValidRequest(r), NEW p, SoundPlan(r, p),
         NEW offered, NEW candidates, SoundRankings(r, offered, candidates),
         Feasible(p, Pool(candidates)) # {}
  PROVE  LET best == Selection(p, Feasible(p, Pool(candidates))).selected
         IN  /\ best \in Feasible(p, Pool(candidates))
             /\ \A c \in Feasible(p, Pool(candidates)) :
                  (\A g \in Groups : c[g][2].score >= best[g][2].score)
                    => Subtotal(c) >= Subtotal(best)
  <1> DEFINE F == Feasible(p, Pool(candidates))
             Key(c) == <<-CombinationScore(p, c), Subtotal(c),
                         c.outbound[1] + c.return[1] + c.hotel[1],
                         c.outbound[2].id, c.return[2].id, c.hotel[2].id>>
             Rec(c) == [key |-> Key(c), combination |-> c]
             S == {Rec(c) : c \in F}
             options == ByUtility(p, F)
             best == Selection(p, F).selected
  <1>1. F \subseteq Combinations(Pool(candidates))
    BY DEF Feasible
  <1>2. IsFiniteSet(F)
    <2> HIDE DEF F
    <2> QED BY <1>1, CombinationsFinite, FS_Subset
  <1>3. options = Sorted(S)
    <2> HIDE DEF F
    <2> QED BY DEF ByUtility
  <1>4. best = options[1].combination
    <2> HIDE DEF F, options
    <2> QED BY DEF Selection, options
  <1> HIDE DEF F, best
  <1>5. "outbound" \in Groups /\ "return" \in Groups /\ "hotel" \in Groups
    BY DEF Groups, Legs
  <1>6. ASSUME NEW c \in F
        PROVE  Key(c) \in [1 .. 6 -> Int]
    <2>1. c \in Combinations(Pool(candidates))
      BY <1>1
    <2>2. /\ c.outbound[1] \in Nat /\ c.return[1] \in Nat /\ c.hotel[1] \in Nat
          /\ c.outbound[2].id \in Int /\ c.return[2].id \in Int /\ c.hotel[2].id \in Int
          /\ Subtotal(c) \in Nat
          /\ \A g \in Groups : c[g][2].score \in 0 .. Scale
      BY <1>5, <2>1, PartsOf
    <2>3. \A g \in Groups : c[g][2].score <= c[g][2].score
      <3> SUFFICES ASSUME NEW g \in Groups PROVE c[g][2].score <= c[g][2].score
        OBVIOUS
      <3> DEFINE k == c[g][2].score
      <3>1. k \in 0 .. Scale
        BY <2>2
      <3> HIDE DEF k
      <3>2. k <= k
        BY <3>1
      <3> QED BY <3>2 DEF k
    <2>4. Subtotal(c) <= Subtotal(c)
      BY <2>2
    <2>5. CombinationScore(p, c) \in 0 .. Scale
      BY <2>1, <2>3, <2>4, CombinationsScore
    <2> DEFINE s == CombinationScore(p, c)
               i == c.outbound[1]
               j == c.return[1]
               k == c.hotel[1]
    <2>6. -s \in Int
      <3> HIDE DEF s
      <3> QED BY <2>5 DEF s
    <2>7. i + j + k \in Int
      BY <2>2
    <2> HIDE DEF s, i, j, k
    <2>8. <<-s, Subtotal(c), i + j + k, c.outbound[2].id, c.return[2].id, c.hotel[2].id>> \in [1 .. 6 -> Int]
      BY <2>2, <2>6, <2>7
    <2> QED BY <2>8 DEF s, i, j, k
  <1>7. ASSUME NEW c \in F, NEW d \in F, Key(c) = Key(d) PROVE c = d
    <2>1. c.outbound[2].id = d.outbound[2].id /\ c.return[2].id = d.return[2].id
          /\ c.hotel[2].id = d.hotel[2].id
      <3>1. Key(c)[4] = Key(d)[4] /\ Key(c)[5] = Key(d)[5] /\ Key(c)[6] = Key(d)[6]
        BY <1>7
      <3> QED BY <3>1
    <2>2. \A g \in Groups : c[g][2].id = d[g][2].id
      BY <2>1 DEF Groups, Legs
    <2>3. c \in Combinations(Pool(candidates)) /\ d \in Combinations(Pool(candidates))
      BY <1>1
    <2>4. ASSUME NEW g \in Groups PROVE c[g] = d[g]
      <3> DEFINE x == c[g]
                 y == d[g]
                 list == candidates[g]
      <3>1. x \in LimitCandidates(list) /\ y \in LimitCandidates(list)
        BY <2>3, PartsOf
      <3>2. SoundRanking(r, g, offered[g], list)
        BY DEF SoundRankings
      <3>3. x[2].id = y[2].id
        BY <2>2
      <3> HIDE DEF x, y, list
      <3>4. \A a, b \in LimitCandidates(list) : a[2].id = b[2].id => a = b
        BY <3>2, PoolOf
      <3>5. x = y
        BY <3>1, <3>3, <3>4
      <3> QED BY <3>5 DEF x, y
    <2>5. c = [outbound |-> c.outbound, return |-> c.return, hotel |-> c.hotel]
          /\ d = [outbound |-> d.outbound, return |-> d.return, hotel |-> d.hotel]
      BY <2>3, PartsOf
    <2>6. c.outbound = d.outbound /\ c.return = d.return /\ c.hotel = d.hotel
      BY <1>5, <2>4
    <2> QED BY <2>5, <2>6
  <1> HIDE DEF Key
  <1>8. Sortable(S)
    <2>1. IsFiniteSet(S)
      <3> DEFINE f == [c \in F |-> Rec(c)]
      <3>1. IsFiniteSet({f[c] : c \in F})
        <4> HIDE DEF f
        <4> QED BY <1>2, Image
      <3>2. {f[c] : c \in F} = S
        OBVIOUS
      <3> QED BY <3>1, <3>2
    <2>2. 6 \in Nat /\ \A s \in S : s.key \in [1 .. 6 -> Int]
      BY <1>6
    <2>3. \A s, t \in S : s.key = t.key => s = t
      <3> SUFFICES ASSUME NEW c \in F, NEW d \in F, Key(c) = Key(d) PROVE Rec(c) = Rec(d)
        OBVIOUS
      <3>1. c = d
        BY <1>7
      <3> QED BY <3>1
    <2> HIDE DEF S
    <2> QED BY <2>1, <2>2, <2>3 DEF Sortable
  <1>9. \A s \in S : s.combination \in F /\ s.key = Key(s.combination)
    OBVIOUS
  <1>10. \A c \in F : Rec(c) \in S /\ Rec(c).key = Key(c) /\ Rec(c).combination = c
    OBVIOUS
  <1> HIDE DEF S, Rec, options
  <1> DEFINE n == Cardinality(S)
  <1>11. /\ n \in Nat /\ DOMAIN options = 1 .. n
         /\ \A i \in DOMAIN options : options[i] \in S
         /\ \A s \in S : \E i \in DOMAIN options : options[i] = s
         /\ \A i, j \in DOMAIN options : i < j <=> Precedes(options[i].key, options[j].key)
    BY <1>3, <1>8, SortedLists
  <1> HIDE DEF n
  <1>12. 1 \in DOMAIN options
    <2>1. PICK c \in F : TRUE
      BY DEF F
    <2>2. PICK i \in DOMAIN options : options[i] = Rec(c)
      BY <1>10, <1>11
    <2> QED BY <1>11, <2>2
  <1>13. best \in F /\ options[1].key = Key(best)
    BY <1>4, <1>9, <1>11, <1>12
  <1>14. ASSUME NEW c \in F PROVE ~Precedes(Key(c), Key(best))
    <2>1. PICK i \in DOMAIN options : options[i] = Rec(c)
      BY <1>10, <1>11
    <2>2. options[i].key = Key(c)
      BY <1>10, <2>1
    <2>3. ~(i < 1)
      BY <1>11
    <2> QED BY <1>11, <1>12, <1>13, <2>2, <2>3
  <1>15. ASSUME NEW c \in F, \A g \in Groups : c[g][2].score >= best[g][2].score
         PROVE  Subtotal(c) >= Subtotal(best)
    <2> SUFFICES ASSUME ~(Subtotal(c) >= Subtotal(best)) PROVE FALSE
      OBVIOUS
    <2>1. c \in Combinations(Pool(candidates)) /\ best \in Combinations(Pool(candidates))
      BY <1>1, <1>13
    <2>2. Subtotal(c) \in Nat /\ Subtotal(best) \in Nat
      BY <2>1, PartsOf
    <2>3. Subtotal(c) < Subtotal(best) /\ Subtotal(c) <= Subtotal(best)
      BY <2>2
    <2>4. \A g \in Groups : best[g][2].score <= c[g][2].score
      <3> SUFFICES ASSUME NEW g \in Groups PROVE best[g][2].score <= c[g][2].score
        OBVIOUS
      <3> DEFINE x == best[g][2].score
                 y == c[g][2].score
      <3>1. x \in 0 .. Scale /\ y \in 0 .. Scale
        BY <2>1, PartsOf
      <3>2. y >= x
        BY <1>15
      <3> HIDE DEF x, y
      <3>3. x <= y
        BY <3>1, <3>2
      <3> QED BY <3>3 DEF x, y
    <2> DEFINE s == CombinationScore(p, best)
               t == CombinationScore(p, c)
    <2>5. s \in 0 .. Scale /\ s <= t
      BY <2>1, <2>3, <2>4, CombinationsScore
    <2>6. Key(c)[1] = -t /\ Key(best)[1] = -s /\ Key(c)[2] = Subtotal(c) /\ Key(best)[2] = Subtotal(best)
      BY DEF Key
    <2>7. Key(c) \in [1 .. 6 -> Int] /\ Key(best) \in [1 .. 6 -> Int]
      BY <1>6, <1>13
    <2> DEFINE a == Key(c)
               b == Key(best)
    <2> HIDE DEF s, t
    <2>8. -t \in Int /\ s \in Int
      BY <2>5, <2>6, <2>7 DEF Scale
    <2>9. a[1] \in Int /\ b[1] \in Int /\ a[2] < b[2] /\ DOMAIN a = 1 .. 6 /\ a[1] <= b[1]
      <3>1. a[1] \in Int /\ b[1] \in Int /\ DOMAIN a = 1 .. 6
        BY <2>7
      <3>2. t \in Int
        <4>1. t = CombinationScore(p, c)
          BY DEF t
        <4>2. \A g \in Groups : c[g][2].score <= c[g][2].score
          <5> SUFFICES ASSUME NEW g \in Groups PROVE c[g][2].score <= c[g][2].score
            OBVIOUS
          <5> DEFINE k == c[g][2].score
          <5>1. k \in 0 .. Scale
            BY <2>1, PartsOf
          <5> HIDE DEF k
          <5>2. k <= k
            BY <5>1
          <5> QED BY <5>2 DEF k
        <4>3. Subtotal(c) <= Subtotal(c)
          BY <2>2
        <4>4. CombinationScore(p, c) \in 0 .. Scale
          BY <2>1, <4>2, <4>3, CombinationsScore
        <4> QED BY <4>1, <4>4
      <3>3. -t <= -s
        BY <2>5, <2>8, <3>2
      <3> QED BY <2>3, <2>6, <3>1, <3>3
    <2> HIDE DEF a, b
    <2>10. CASE a[1] < b[1]
      <3>1. 1 \in DOMAIN a /\ \A k \in 1 .. 1 - 1 : a[k] = b[k]
        BY <2>9
      <3>2. Precedes(a, b)
        BY <2>10, <3>1 DEF Precedes
      <3> QED BY <1>14, <3>2 DEF a, b
    <2>11. CASE a[1] = b[1]
      <3>1. 2 \in DOMAIN a /\ \A k \in 1 .. 2 - 1 : a[k] = b[k]
        BY <2>9, <2>11
      <3>2. Precedes(a, b)
        BY <2>9, <3>1 DEF Precedes
      <3> QED BY <1>14, <3>2 DEF a, b
    <2> QED BY <2>9, <2>10, <2>11
  <1> QED BY <1>13, <1>15 DEF F, best

(* The advice is to raise the budget to what the cheapest combination within the limit on *)
(* transport costs.                                                                       *)
LEMMA AdviceOf ==
  ASSUME NEW r, ValidRequest(r), NEW p, SoundPlan(r, p),
         NEW offered, NEW candidates, SoundRankings(r, offered, candidates),
         Feasible(p, Pool(candidates)) = {}
  PROVE  LET combinations == Combinations(Pool(candidates))
             increase == NoFeasible(p, combinations).increase
         IN  /\ NoFeasible(p, combinations).status = "no_feasible_combination"
             /\ increase # NoAmount =>
                  /\ r.total \in Nat /\ increase \in Nat
                  /\ \E c \in combinations :
                       WithinTransport(p, c) /\ Subtotal(c) = r.total + increase
                  /\ \A c \in combinations :
                       WithinTransport(p, c) => Subtotal(c) >= r.total + increase
  <1> DEFINE combinations == Combinations(Pool(candidates))
             valid == {c \in combinations : WithinTransport(p, c)}
             cheapest == IF valid = {} THEN combinations ELSE valid
             costs == {Subtotal(c) : c \in cheapest}
             minimum == Min(costs)
             advised == IF p.total = NoAmount \/ valid = {} THEN NoAmount
                        ELSE Most(minimum - p.total, 0)
             increase == NoFeasible(p, combinations).increase
  <1>1. NoFeasible(p, combinations).status = "no_feasible_combination" /\ increase = advised
    <2> HIDE DEF combinations
    <2> QED BY DEF NoFeasible
  <1> HIDE DEF combinations, increase
  <1>2. ASSUME increase # NoAmount
        PROVE  /\ r.total \in Nat /\ increase \in Nat
               /\ \E c \in combinations : WithinTransport(p, c) /\ Subtotal(c) = r.total + increase
               /\ \A c \in combinations : WithinTransport(p, c) => Subtotal(c) >= r.total + increase
    <2>1. p.total # NoAmount /\ valid # {}
      BY <1>1, <1>2
    <2>2. p.total = r.total /\ r.total \in Nat /\ p.mode = "budget_limited"
      BY <2>1, ModeOf
    <2>3. cheapest = valid
      BY <2>1
    <2>4. \A c \in combinations : Subtotal(c) \in Nat
      BY PartsOf DEF combinations
    <2>5. \A c \in valid : ~(Subtotal(c) <= r.total)
      <3>1. \A c \in valid : c \notin Feasible(p, Pool(candidates))
        OBVIOUS
      <3>2. \A c \in valid : ~WithinTotal(p, c)
        BY <3>1 DEF Feasible, combinations
      <3> QED BY <2>2, <3>2 DEF WithinTotal
    <2>6. IsFiniteSet(costs) /\ costs # {} /\ costs \subseteq Int
      <3> DEFINE f == [c \in valid |-> Subtotal(c)]
      <3>1. IsFiniteSet(valid)
        <4>1. IsFiniteSet(combinations)
          BY CombinationsFinite DEF combinations
        <4> QED BY <4>1, FS_Subset
      <3>2. IsFiniteSet({f[c] : c \in valid})
        <4> HIDE DEF f, valid
        <4> QED BY <3>1, Image
      <3>3. {f[c] : c \in valid} = costs
        <4> HIDE DEF valid, cheapest
        <4> QED BY <2>3
      <3> QED BY <2>1, <2>3, <2>4, <3>2, <3>3
    <2> HIDE DEF costs
    <2>7. minimum \in costs /\ \A x \in costs : minimum <= x
      BY <2>6, Smallest
    <2> HIDE DEF minimum
    <2>8. PICK c \in valid : Subtotal(c) = minimum
      BY <2>3, <2>7 DEF costs
    <2>9. minimum \in Nat /\ r.total < minimum
      BY <2>2, <2>4, <2>5, <2>8
    <2>10. increase = minimum - r.total
      <3>1. increase = Most(minimum - r.total, 0)
        BY <1>1, <2>1, <2>2
      <3> QED BY <2>2, <2>9, <3>1 DEF Most
    <2>11. increase \in Nat /\ r.total + increase = minimum
      BY <2>2, <2>9, <2>10
    <2>12. \A d \in combinations : WithinTransport(p, d) => Subtotal(d) >= minimum
      <3> SUFFICES ASSUME NEW d \in combinations, WithinTransport(p, d) PROVE Subtotal(d) >= minimum
        OBVIOUS
      <3>1. Subtotal(d) \in costs
        BY <2>3 DEF costs
      <3> QED BY <2>4, <2>7, <2>9, <3>1
    <2> QED BY <2>2, <2>8, <2>11, <2>12
  <1> QED BY <1>1, <1>2 DEF combinations, increase

-----------------------------------------------------------------------------
(* The inductive invariant. *)

(* What the nodes make of a request. *)
OffersFor(r) ==
  [g \in Groups |-> IF g = "hotel" THEN AvailableHotels(Catalogue[g])
                    ELSE AvailableFlights(Catalogue[g], r.people)]

RankedFor(r) == [g \in Groups |-> RankGroup(r, BudgetPlan(r), OffersFor(r)[g], g)]

(* A request of the intake, or one whose budget the traveller has raised. *)
Asked(r) == \E q \in Requests : /\ r = [q EXCEPT !.total = r.total]
                                /\ r.total \in Nat \cup {NoAmount}

(* Offers that pass the filters of a request, keep its limit on transport and fit in its budget. *)
Affordable(r) ==
  \E o \in PassingFlights(r, OffersFor(r).outbound), b \in PassingFlights(r, OffersFor(r).return),
     h \in PassingHotels(r, OffersFor(r).hotel) :
    LET bound   == UpperBound(r.flightLimits, "price")
        tickets == CostOf(r, "outbound", o) + CostOf(r, "return", b)
    IN  /\ bound = NoAmount \/ tickets <= bound
        /\ tickets + CostOf(r, "hotel", h) <= r.total

(* The nodes that have not run yet. *)
Before(nodes) == phase \in nodes

(* The state is what the nodes that have run make of the request; a budget that was raised *)
(* as advised is enough.                                                                   *)
IInv ==
  /\ Asked(request) /\ phase \in Node /\ followed \in 0 .. MaxFollowed
  /\ plan = IF Before({"planning_context"}) THEN NoPlan ELSE BudgetPlan(request)
  /\ offers = IF Before({"planning_context", "tool_execute"}) THEN NoOffers ELSE OffersFor(request)
  /\ ranked = IF Before({"planning_context", "tool_execute", "candidate_rank"}) THEN NoCandidates
              ELSE RankedFor(request)
  /\ phase \in {"budget_optimize", "retrieval_plan"} => RankStatus(ranked) = "ok"
  /\ outcome = IF \/ phase = "retrieval_plan"
                  \/ phase = "final_response" /\ RankStatus(ranked) = "ok"
               THEN Optimized(plan, ranked) ELSE NoOutcome
  /\ phase = "retrieval_plan" => Feasible(plan, Pool(ranked)) # {}
  /\ phase = "final_response" /\ RankStatus(ranked) = "ok" => Feasible(plan, Pool(ranked)) = {}
  /\ followed > 0 => Affordable(request)

(* Whatever the traveller asks for is a valid request. *)
LEMMA AnotherBudget ==
  ASSUME NEW q, ValidRequest(q), NEW t \in Nat \cup {NoAmount}, NEW r, r = [q EXCEPT !.total = t]
  PROVE  /\ r.total = t /\ r.people = q.people /\ r.rooms = q.rooms /\ r.nights = q.nights
         /\ r.flightLimits = q.flightLimits /\ r.hotelLimits = q.hotelLimits
         /\ r.namedFlights = q.namedFlights /\ r.namedHotels = q.namedHotels
         /\ r.flightWeights = q.flightWeights /\ r.hotelWeights = q.hotelWeights
         /\ r.spend = q.spend /\ r.savedHotelPrice = q.savedHotelPrice
         /\ ValidRequest(r)
  <1>1. q \in [total : Nat \cup {NoAmount}, people : Nat \ {0}, rooms : Nat, nights : Nat,
               flightLimits : {q.flightLimits}, hotelLimits : {q.hotelLimits},
               namedFlights : {q.namedFlights}, namedHotels : {q.namedHotels},
               flightWeights : {q.flightWeights}, hotelWeights : {q.hotelWeights},
               spend : {q.spend}, savedHotelPrice : Nat \cup {NoAmount}]
    BY Zenon DEF ValidRequest
  <1>2. /\ r.total = t /\ r.people = q.people /\ r.rooms = q.rooms /\ r.nights = q.nights
        /\ r.flightLimits = q.flightLimits /\ r.hotelLimits = q.hotelLimits
        /\ r.namedFlights = q.namedFlights /\ r.namedHotels = q.namedHotels
        /\ r.flightWeights = q.flightWeights /\ r.hotelWeights = q.hotelWeights
        /\ r.spend = q.spend /\ r.savedHotelPrice = q.savedHotelPrice
    BY <1>1
  <1>3. r \in [total : Nat \cup {NoAmount}, people : Nat \ {0}, rooms : Nat, nights : Nat,
               flightLimits : {q.flightLimits}, hotelLimits : {q.hotelLimits},
               namedFlights : {q.namedFlights}, namedHotels : {q.namedHotels},
               flightWeights : {q.flightWeights}, hotelWeights : {q.hotelWeights},
               spend : {q.spend}, savedHotelPrice : Nat \cup {NoAmount}]
    BY <1>1
  <1>4. r \in [total : Nat \cup {NoAmount}, people : Nat \ {0}, rooms : Nat, nights : Nat,
               flightLimits : {r.flightLimits}, hotelLimits : {r.hotelLimits},
               namedFlights : {r.namedFlights}, namedHotels : {r.namedHotels},
               flightWeights : {r.flightWeights}, hotelWeights : {r.hotelWeights},
               spend : {r.spend}, savedHotelPrice : Nat \cup {NoAmount}]
    BY <1>2, <1>3
  <1>5. /\ ValidLimits(r.flightLimits) /\ ValidSpend(r.spend)
        /\ ValidWeights(r.flightWeights,
                         {"avoid_early_flight", "avoid_late_arrival", "prefer_direct", "price_sensitive"})
        /\ ValidWeights(r.hotelWeights,
                         {"quiet", "cleanliness", "near_subway", "high_rating", "budget_friendly"})
    <2>1. /\ ValidLimits(q.flightLimits) /\ ValidSpend(q.spend)
          /\ ValidWeights(q.flightWeights,
                          {"avoid_early_flight", "avoid_late_arrival", "prefer_direct", "price_sensitive"})
          /\ ValidWeights(q.hotelWeights,
                          {"quiet", "cleanliness", "near_subway", "high_rating", "budget_friendly"})
      BY Zenon DEF ValidRequest
    <2> QED BY <1>2, <2>1
  <1>7. ValidRequest(r)
    BY Zenon, <1>4, <1>5 DEF ValidRequest
  <1> QED BY <1>2, <1>7

(* A request whose budget was raised is valid too. *)
LEMMA AskedIsSound ==
  ASSUME NEW r, Asked(r)
  PROVE  ValidRequest(r)
  <1>1. PICK q \in Requests : r = [q EXCEPT !.total = r.total] /\ r.total \in Nat \cup {NoAmount}
    BY DEF Asked
  <1>2. ValidRequest(q)
    BY RequestsAreValid
  <1> QED BY <1>1, <1>2, AnotherBudget

(* A request with another budget asks for the same otherwise. *)
LEMMA OnlyTheBudget ==
  ASSUME NEW r, Asked(r), NEW t \in Nat, NEW s, s = [r EXCEPT !.total = t]
  PROVE  /\ Asked(s) /\ s.total = t /\ OffersFor(s) = OffersFor(r)
         /\ s.flightLimits = r.flightLimits
         /\ \A offered : PassingFlights(s, offered) = PassingFlights(r, offered)
         /\ \A offered : PassingHotels(s, offered) = PassingHotels(r, offered)
         /\ \A g, o : CostOf(s, g, o) = CostOf(r, g, o)
  <1>1. ValidRequest(r) /\ t \in Nat \cup {NoAmount}
    BY AskedIsSound
  <1>2. /\ s.total = t /\ s.people = r.people /\ s.rooms = r.rooms /\ s.nights = r.nights
        /\ s.flightLimits = r.flightLimits /\ s.hotelLimits = r.hotelLimits
        /\ s.namedFlights = r.namedFlights /\ s.namedHotels = r.namedHotels
    BY <1>1, AnotherBudget
  <1>3. Asked(s)
    <2>1. PICK q \in Requests : r = [q EXCEPT !.total = r.total]
      BY DEF Asked
    <2> DEFINE u == r.total
    <2> HIDE DEF u
    <2>2. r = [q EXCEPT !.total = u]
      BY <2>1 DEF u
    <2>3. [[q EXCEPT !.total = u] EXCEPT !.total = t] = [q EXCEPT !.total = t]
      OBVIOUS
    <2>4. s = [q EXCEPT !.total = t]
      BY ONLY <2>2, <2>3, s = [r EXCEPT !.total = t]
    <2>5. s = [q EXCEPT !.total = s.total]
      BY <1>2, <2>4
    <2> QED BY <1>2, <2>5 DEF Asked
  <1>4. OffersFor(s) = OffersFor(r)
    BY <1>2 DEF OffersFor
  <1>5. \A offered : PassingFlights(s, offered) = PassingFlights(r, offered)
    BY <1>2 DEF PassingFlights
  <1>6. \A offered : PassingHotels(s, offered) = PassingHotels(r, offered)
    BY <1>2 DEF PassingHotels
  <1>7. \A g, o : CostOf(s, g, o) = CostOf(r, g, o)
    BY <1>2 DEF CostOf
  <1> QED BY <1>2, <1>3, <1>4, <1>5, <1>6, <1>7

(* What the query finds. *)
LEMMA OffersAreSound ==
  ASSUME NEW r, Asked(r), NEW g \in Groups
  PROVE  SoundOffers(g, OffersFor(r)[g]) /\ OffersFor(r)[g] \subseteq Catalogue[g]
  <1> DEFINE offered == OffersFor(r)[g]
  <1>1. /\ IsFiniteSet(Catalogue[g]) /\ \A o \in Catalogue[g] : o.id \in Int
        /\ \A o, p \in Catalogue[g] : o.id = p.id => o = p
    BY CatalogueIsIndexed DEF Groups, Legs
  <1>2. offered = IF g = "hotel" THEN AvailableHotels(Catalogue[g])
                  ELSE AvailableFlights(Catalogue[g], r.people)
    BY DEF OffersFor
  <1>3. offered \subseteq Catalogue[g]
    BY <1>2 DEF AvailableHotels, AvailableFlights
  <1>4. IsFiniteSet(offered) /\ \A o, p \in offered : o.id = p.id => o = p
    <2> HIDE DEF offered
    <2> QED BY <1>1, <1>3, FS_Subset
  <1>5. CASE g = "hotel"
    <2>1. \A h \in offered : h.price_per_night >= 0 /\ h \in Catalogue.hotel
      BY <1>2, <1>5 DEF AvailableHotels
    <2>2. ASSUME NEW h \in offered PROVE SoundHotel(h)
      <3>1. h \in Catalogue.hotel
        BY <2>1
      <3>2. /\ h.price_per_night \in Int /\ h.near_subway \in {0, 1}
            /\ {h.rating, h.quiet, h.cleanliness} \subseteq 0 .. Scale
        BY <3>1, CatalogueIsIndexed
      <3>3. h.id \in Int
        BY <1>1, <1>3
      <3>4. h.rating \in 0 .. Scale /\ h.quiet \in 0 .. Scale /\ h.cleanliness \in 0 .. Scale
        BY <3>2
      <3>5. h.price_per_night \in Nat
        BY <2>1, <3>2
      <3>6. h.near_subway \in 0 .. 1
        BY <3>2
      <3> QED BY <3>3, <3>4, <3>5, <3>6 DEF SoundHotel
    <2> HIDE DEF offered
    <2>3. SoundOffers(g, offered)
      BY <1>4, <1>5, <2>2 DEF SoundOffers
    <2> QED BY <1>3, <2>3 DEF offered
  <1>6. CASE g # "hotel"
    <2>1. g \in {"outbound", "return"}
      BY <1>6 DEF Groups, Legs
    <2>2. \A f \in offered : f.price >= 0
      BY <1>2, <1>6 DEF AvailableFlights
    <2>3. ASSUME NEW f \in offered PROVE SoundFlight(f)
      <3>1. f \in Catalogue[g]
        BY <1>3
      <3>2. /\ {f.price, f.depart_time, f.arrive_time} \subseteq Int
            /\ {f.is_direct, f.refundable, f.changeable} \subseteq {0, 1}
        BY <2>1, <3>1, CatalogueIsIndexed
      <3>3. f.id \in Int
        BY <1>1, <1>3
      <3>4. f.price \in Int /\ f.depart_time \in Int /\ f.arrive_time \in Int
        BY <3>2
      <3>5. f.is_direct \in {0, 1} /\ f.refundable \in {0, 1} /\ f.changeable \in {0, 1}
        BY <3>2
      <3>6. f.price \in Nat
        BY <2>2, <3>4
      <3>7. f.is_direct \in 0 .. 1 /\ f.refundable \in 0 .. 1 /\ f.changeable \in 0 .. 1
        BY <3>5
      <3> QED BY <3>3, <3>4, <3>6, <3>7 DEF SoundFlight
    <2> HIDE DEF offered
    <2>4. SoundOffers(g, offered)
      BY <1>4, <1>6, <2>3 DEF SoundOffers
    <2> QED BY <1>3, <2>4 DEF offered
  <1> QED BY <1>5, <1>6

(* What the planning and the ranking make of a request. *)
LEMMA NodesAreSound ==
  ASSUME NEW r, Asked(r)
  PROVE  /\ ValidRequest(r) /\ SoundPlan(r, BudgetPlan(r))
         /\ SoundRankings(r, OffersFor(r), RankedFor(r))
  <1>1. ValidRequest(r)
    BY AskedIsSound
  <1>2. SoundPlan(r, BudgetPlan(r))
    BY <1>1, PlansAreSound
  <1>3. ASSUME NEW g \in Groups PROVE SoundRanking(r, g, OffersFor(r)[g], RankedFor(r)[g])
    <2> DEFINE offered == OffersFor(r)[g]
               p == BudgetPlan(r)
    <2>1. SoundOffers(g, offered)
      BY OffersAreSound
    <2>2. RankedFor(r)[g] = RankGroup(r, p, offered, g)
      BY DEF RankedFor
    <2>3. SoundPlan(r, p)
      BY <1>2
    <2> HIDE DEF offered, p
    <2>4. SoundRanking(r, g, offered, RankGroup(r, p, offered, g))
      BY <1>1, <2>1, <2>3, RankedGroups
    <2> QED BY <2>2, <2>4 DEF offered
  <1> QED BY <1>1, <1>2, <1>3 DEF SoundRankings

(* The costs of a combination are those of offers that pass. *)
LEMMA OffersOf ==
  ASSUME NEW r, Asked(r), NEW c \in Combinations(Pool(RankedFor(r)))
  PROVE  \E o \in PassingFlights(r, OffersFor(r).outbound),
            b \in PassingFlights(r, OffersFor(r).return),
            h \in PassingHotels(r, OffersFor(r).hotel) :
           /\ KnownCosts(c).transport = CostOf(r, "outbound", o) + CostOf(r, "return", b)
           /\ Subtotal(c) = CostOf(r, "outbound", o) + CostOf(r, "return", b) + CostOf(r, "hotel", h)
  <1>1. SoundRankings(r, OffersFor(r), RankedFor(r))
    BY NodesAreSound
  <1>2. "outbound" \in Groups /\ "return" \in Groups /\ "hotel" \in Groups
    BY DEF Groups, Legs
  <1>3. \A g \in Groups : \E o \in Passing(r, g, OffersFor(r)[g]) : c[g][2].cost = CostOf(r, g, o)
    BY <1>1, PartsOf
  <1>4. PICK o \in Passing(r, "outbound", OffersFor(r)["outbound"]) :
             c["outbound"][2].cost = CostOf(r, "outbound", o)
    BY <1>2, <1>3
  <1>5. PICK b \in Passing(r, "return", OffersFor(r)["return"]) :
             c["return"][2].cost = CostOf(r, "return", b)
    BY <1>2, <1>3
  <1>6. PICK h \in Passing(r, "hotel", OffersFor(r)["hotel"]) :
             c["hotel"][2].cost = CostOf(r, "hotel", h)
    BY <1>2, <1>3
  <1>7. /\ o \in PassingFlights(r, OffersFor(r).outbound) /\ b \in PassingFlights(r, OffersFor(r).return)
        /\ h \in PassingHotels(r, OffersFor(r).hotel)
    BY <1>4, <1>5, <1>6 DEF Passing
  <1>8. /\ KnownCosts(c) = [outbound |-> c.outbound[2].cost, return |-> c.return[2].cost,
                            hotel |-> c.hotel[2].cost,
                            transport |-> c.outbound[2].cost + c.return[2].cost,
                            subtotal |-> c.outbound[2].cost + c.return[2].cost + c.hotel[2].cost]
        /\ Subtotal(c) = c.outbound[2].cost + c.return[2].cost + c.hotel[2].cost
    BY <1>1, PartsOf
  <1>9. KnownCosts(c).transport = c.outbound[2].cost + c.return[2].cost
    BY <1>8
  <1>10. /\ KnownCosts(c).transport = CostOf(r, "outbound", o) + CostOf(r, "return", b)
         /\ Subtotal(c) = CostOf(r, "outbound", o) + CostOf(r, "return", b) + CostOf(r, "hotel", h)
    BY <1>4, <1>5, <1>6, <1>8, <1>9
  <1> QED BY <1>7, <1>10

(* As long as every candidate takes part, offers that pass make up a combination. *)
LEMMA EveryOfferTakesPart ==
  ASSUME NEW r, Asked(r), \A g \in Groups : Len(RankedFor(r)[g]) <= MaxCandidates,
         NEW o \in PassingFlights(r, OffersFor(r).outbound),
         NEW b \in PassingFlights(r, OffersFor(r).return),
         NEW h \in PassingHotels(r, OffersFor(r).hotel)
  PROVE  \E c \in Combinations(Pool(RankedFor(r))) :
           /\ KnownCosts(c).transport = CostOf(r, "outbound", o) + CostOf(r, "return", b)
           /\ Subtotal(c) = CostOf(r, "outbound", o) + CostOf(r, "return", b) + CostOf(r, "hotel", h)
  <1> DEFINE candidates == RankedFor(r)
             pool == Pool(candidates)
  <1>1. SoundRankings(r, OffersFor(r), candidates)
    BY NodesAreSound
  <1>2. "outbound" \in Groups /\ "return" \in Groups /\ "hotel" \in Groups
    BY DEF Groups, Legs
  <1>3. ASSUME NEW g \in Groups, NEW x \in Passing(r, g, OffersFor(r)[g])
        PROVE  \E y \in pool[g] : y[2].cost = CostOf(r, g, x)
    <2> DEFINE list == candidates[g]
    <2>1. SoundRanking(r, g, OffersFor(r)[g], list) /\ Len(list) <= MaxCandidates
      BY <1>1 DEF SoundRankings
    <2>2. pool[g] = LimitCandidates(list)
      BY DEF Pool
    <2> HIDE DEF list, pool
    <2>3. PICK i \in DOMAIN list : list[i].cost = CostOf(r, g, x)
      BY <2>1 DEF SoundRanking
    <2>4. <<i, list[i]>> \in LimitCandidates(list)
      BY <2>1, PoolOf
    <2> DEFINE y == <<i, list[i]>>
    <2>5. y[2] = list[i]
      OBVIOUS
    <2> HIDE DEF y
    <2> QED BY <2>2, <2>3, <2>4, <2>5 DEF y
  <1>4. PICK x \in pool["outbound"] : x[2].cost = CostOf(r, "outbound", o)
    <2>1. o \in Passing(r, "outbound", OffersFor(r)["outbound"])
      BY DEF Passing
    <2> QED BY <1>2, <1>3, <2>1
  <1>5. PICK y \in pool["return"] : y[2].cost = CostOf(r, "return", b)
    <2>1. b \in Passing(r, "return", OffersFor(r)["return"])
      BY DEF Passing
    <2> QED BY <1>2, <1>3, <2>1
  <1>6. PICK z \in pool["hotel"] : z[2].cost = CostOf(r, "hotel", h)
    <2>1. h \in Passing(r, "hotel", OffersFor(r)["hotel"])
      BY DEF Passing
    <2> QED BY <1>2, <1>3, <2>1
  <1> HIDE DEF pool
  <1> DEFINE c == [outbound |-> x, return |-> y, hotel |-> z]
  <1>7. c \in Combinations(pool)
    BY DEF Combinations
  <1>8. c.outbound = x /\ c.return = y /\ c.hotel = z
    OBVIOUS
  <1> HIDE DEF c
  <1>9. /\ KnownCosts(c) = [outbound |-> c.outbound[2].cost, return |-> c.return[2].cost,
                            hotel |-> c.hotel[2].cost,
                            transport |-> c.outbound[2].cost + c.return[2].cost,
                            subtotal |-> c.outbound[2].cost + c.return[2].cost + c.hotel[2].cost]
        /\ Subtotal(c) = c.outbound[2].cost + c.return[2].cost + c.hotel[2].cost
    BY <1>1, <1>7, PartsOf DEF pool
  <1>10. KnownCosts(c).transport = c.outbound[2].cost + c.return[2].cost
    BY <1>9
  <1>11. /\ KnownCosts(c).transport = CostOf(r, "outbound", o) + CostOf(r, "return", b)
         /\ Subtotal(c) = CostOf(r, "outbound", o) + CostOf(r, "return", b) + CostOf(r, "hotel", h)
    BY <1>4, <1>5, <1>6, <1>8, <1>9, <1>10
  <1> QED BY <1>7, <1>11 DEF pool

(* A budget that is raised as advised is enough for offers that pass. *)
LEMMA AdviceIsAffordable ==
  ASSUME NEW r, Asked(r), Feasible(BudgetPlan(r), Pool(RankedFor(r))) = {},
         NEW more, more = NoFeasible(BudgetPlan(r), Combinations(Pool(RankedFor(r)))).increase,
         more # NoAmount
  PROVE  r.total \in Nat /\ more \in Nat /\ Affordable([r EXCEPT !.total = r.total + more])
  <1> DEFINE p == BudgetPlan(r)
             combinations == Combinations(Pool(RankedFor(r)))
             t == r.total + more
  <1>1. ValidRequest(r) /\ SoundPlan(r, p) /\ SoundRankings(r, OffersFor(r), RankedFor(r))
    BY NodesAreSound
  <1>2. /\ r.total \in Nat /\ more \in Nat
        /\ \E c \in combinations : WithinTransport(p, c) /\ Subtotal(c) = r.total + more
    <2> HIDE DEF p
    <2> QED BY <1>1, AdviceOf DEF p
  <1>3. PICK c \in combinations : WithinTransport(p, c) /\ Subtotal(c) = t
    BY <1>2
  <1>4. PICK o \in PassingFlights(r, OffersFor(r).outbound),
             b \in PassingFlights(r, OffersFor(r).return),
             h \in PassingHotels(r, OffersFor(r).hotel) :
           /\ KnownCosts(c).transport = CostOf(r, "outbound", o) + CostOf(r, "return", b)
           /\ Subtotal(c) = CostOf(r, "outbound", o) + CostOf(r, "return", b) + CostOf(r, "hotel", h)
    BY OffersOf
  <1>5. t \in Nat
    BY <1>2
  <1> DEFINE bound == UpperBound(r.flightLimits, "price")
             s == [r EXCEPT !.total = t]
  <1>6. bound = NoAmount \/ KnownCosts(c).transport <= bound
    <2>1. p.maxTransport = bound
      BY <1>1 DEF SoundPlan
    <2> HIDE DEF p, bound
    <2> QED BY <1>3, <2>1 DEF WithinTransport
  <1> HIDE DEF t, s, bound
  <1>7. s = [r EXCEPT !.total = t]
    BY DEF s
  <1>8. /\ s.total = t /\ OffersFor(s) = OffersFor(r) /\ s.flightLimits = r.flightLimits
        /\ \A offered : PassingFlights(s, offered) = PassingFlights(r, offered)
        /\ \A offered : PassingHotels(s, offered) = PassingHotels(r, offered)
        /\ \A g, x : CostOf(s, g, x) = CostOf(r, g, x)
    BY <1>5, <1>7, OnlyTheBudget
  <1>9. /\ o \in PassingFlights(s, OffersFor(s).outbound) /\ b \in PassingFlights(s, OffersFor(s).return)
        /\ h \in PassingHotels(s, OffersFor(s).hotel)
    BY <1>4, <1>8
  <1> DEFINE tickets == CostOf(s, "outbound", o) + CostOf(s, "return", b)
  <1>10. tickets = KnownCosts(c).transport /\ tickets + CostOf(s, "hotel", h) = t
    BY <1>3, <1>4, <1>8
  <1>11. UpperBound(s.flightLimits, "price") = bound
    BY <1>8 DEF bound
  <1>12. bound = NoAmount \/ tickets <= bound
    BY <1>6, <1>10
  <1>13. tickets + CostOf(s, "hotel", h) <= s.total
    BY <1>5, <1>8, <1>10
  <1> HIDE DEF tickets
  <1>14. Affordable(s)
    BY <1>9, <1>11, <1>12, <1>13 DEF Affordable, tickets
  <1> QED BY <1>2, <1>14 DEF s, t

(* What is affordable is feasible, as long as every candidate takes part. *)
LEMMA AffordableIsFeasible ==
  ASSUME NEW r, Asked(r), Affordable(r), \A g \in Groups : Len(RankedFor(r)[g]) <= MaxCandidates
  PROVE  Feasible(BudgetPlan(r), Pool(RankedFor(r))) # {}
  <1> DEFINE p == BudgetPlan(r)
             pool == Pool(RankedFor(r))
             bound == UpperBound(r.flightLimits, "price")
  <1>1. ValidRequest(r) /\ SoundPlan(r, p)
    BY NodesAreSound
  <1>2. PICK o \in PassingFlights(r, OffersFor(r).outbound),
             b \in PassingFlights(r, OffersFor(r).return),
             h \in PassingHotels(r, OffersFor(r).hotel) :
           /\ bound = NoAmount \/ CostOf(r, "outbound", o) + CostOf(r, "return", b) <= bound
           /\ CostOf(r, "outbound", o) + CostOf(r, "return", b) + CostOf(r, "hotel", h) <= r.total
    BY DEF Affordable
  <1>3. PICK c \in Combinations(pool) :
           /\ KnownCosts(c).transport = CostOf(r, "outbound", o) + CostOf(r, "return", b)
           /\ Subtotal(c) = CostOf(r, "outbound", o) + CostOf(r, "return", b) + CostOf(r, "hotel", h)
    BY EveryOfferTakesPart
  <1>4. p.maxTransport = bound /\ p.total = r.total
    BY <1>1 DEF SoundPlan
  <1> HIDE DEF p, bound, pool
  <1>5. WithinTransport(p, c)
    BY <1>2, <1>3, <1>4 DEF WithinTransport
  <1>6. WithinTotal(p, c)
    BY <1>2, <1>3, <1>4 DEF WithinTotal
  <1>7. c \in Feasible(p, pool)
    BY <1>5, <1>6 DEF Feasible
  <1> QED BY <1>7 DEF p, pool

(* A request that is asked first is asked with its own budget. *)
LEMMA FirstAsked ==
  ASSUME NEW r \in Requests
  PROVE  Asked(r)
  <1>1. ValidRequest(r)
    BY RequestsAreValid
  <1>2. r \in [total : Nat \cup {NoAmount}, people : Nat \ {0}, rooms : Nat, nights : Nat,
               flightLimits : {r.flightLimits}, hotelLimits : {r.hotelLimits},
               namedFlights : {r.namedFlights}, namedHotels : {r.namedHotels},
               flightWeights : {r.flightWeights}, hotelWeights : {r.hotelWeights},
               spend : {r.spend}, savedHotelPrice : Nat \cup {NoAmount}]
    BY Zenon, <1>1 DEF ValidRequest
  <1>3. r = [r EXCEPT !.total = r.total]
    BY <1>2
  <1>4. r.total \in Nat \cup {NoAmount}
    BY <1>2
  <1> QED BY <1>3, <1>4 DEF Asked

(* The initial states satisfy the invariant. *)
LEMMA FirstState ==
  Init => IInv
  <1> SUFFICES ASSUME Init PROVE IInv
    OBVIOUS
  <1>1. Asked(request)
    BY FirstAsked DEF Init
  <1>2. followed \in 0 .. MaxFollowed
    BY BoundsAreNumbers DEF Init
  <1> QED BY <1>1, <1>2 DEF Init, IInv, Before, Node

(* Every step keeps it: a node makes of the request what the invariant says, and a budget
   raised as advised is enough. *)
LEMMA StepKeeps ==
  ASSUME IInv, [Next]_vars
  PROVE  IInv'
  <1>1. CASE PlanContext
    BY <1>1 DEF PlanContext, IInv, Before, Node
  <1>2. CASE Query
    <2>1. offers' = OffersFor(request)
      BY <1>2 DEF Query, OffersFor
    <2> QED BY <1>2, <2>1 DEF Query, IInv, Before, Node
  <1>3. CASE CandidateRank
    <2>1. plan = BudgetPlan(request) /\ offers = OffersFor(request) /\ phase = "candidate_rank"
      BY <1>3 DEF CandidateRank, IInv, Before
    <2>2. ranked' = RankedFor(request)
      BY <1>3, <2>1 DEF CandidateRank, RankedFor
    <2> DEFINE ok == RankStatus(ranked') = "ok"
    <2>3. phase' = IF ok THEN "budget_optimize" ELSE "final_response"
      BY <1>3 DEF CandidateRank
    <2>4. UNCHANGED <<request, plan, offers, outcome, followed>> /\ outcome = NoOutcome
      BY <1>3, <2>1 DEF CandidateRank, IInv
    <2>5. ok <=> RankStatus(ranked)' = "ok"
      OBVIOUS
    <2> HIDE DEF ok
    <2>6. CASE ok
      BY <2>1, <2>2, <2>3, <2>4, <2>5, <2>6 DEF IInv, Before, Node
    <2>7. CASE ~ok
      BY <2>1, <2>2, <2>3, <2>4, <2>5, <2>7 DEF IInv, Before, Node
    <2> QED BY <2>6, <2>7
  <1>4. CASE BudgetOptimize
    <2> DEFINE F == Feasible(plan, Pool(ranked))
    <2>1. /\ phase = "budget_optimize" /\ plan = BudgetPlan(request) /\ offers = OffersFor(request)
          /\ ranked = RankedFor(request) /\ RankStatus(ranked) = "ok" /\ Asked(request)
      BY <1>4 DEF BudgetOptimize, IInv, Before
    <2>2. UNCHANGED <<request, plan, offers, ranked, followed>> /\ outcome' = Optimized(plan, ranked)
      BY <1>4 DEF BudgetOptimize
    <2>3. outcome'.status = "feasible" <=> F # {}
      BY <2>2 DEF Optimized, NoFeasible, Selection
    <2>4. phase' = IF F # {} THEN "retrieval_plan" ELSE "final_response"
      BY <1>4, <2>3 DEF BudgetOptimize
    <2>5. F = Feasible(plan', Pool(ranked'))
      BY <2>2
    <2>6. RankStatus(ranked') = "ok" /\ outcome' = Optimized(plan', ranked')
      BY <2>1, <2>2
    <2> HIDE DEF F
    <2>7. CASE F # {}
      BY <2>1, <2>2, <2>4, <2>5, <2>6, <2>7 DEF IInv, Before, Node
    <2>8. CASE F = {}
      BY <2>1, <2>2, <2>4, <2>5, <2>6, <2>8 DEF IInv, Before, Node
    <2> QED BY <2>7, <2>8
  <1>5. CASE FollowAdvice
    <2>1. /\ phase = "final_response" /\ plan = BudgetPlan(request) /\ ranked = RankedFor(request)
          /\ Asked(request) /\ followed \in 0 .. MaxFollowed
      BY <1>5 DEF FollowAdvice, IInv, Before
    <2>2. RankStatus(ranked) = "ok"
      BY <1>5 DEF FollowAdvice, IInv, Before, NoOutcome
    <2>3. outcome = Optimized(plan, ranked) /\ Feasible(plan, Pool(ranked)) = {}
      BY <2>1, <2>2 DEF IInv
    <2> DEFINE more == NoFeasible(plan, Combinations(Pool(ranked))).increase
    <2>4. outcome.increase = more
      BY <2>3 DEF Optimized
    <2> HIDE DEF more
    <2>5. more # NoAmount
      BY <1>5, <2>4 DEF FollowAdvice, NoAmount
    <2> DEFINE t == request.total + more
    <2>6. request.total \in Nat /\ more \in Nat /\ Affordable([request EXCEPT !.total = t])
      BY <2>1, <2>3, <2>5, AdviceIsAffordable DEF more
    <2>7. request' = [request EXCEPT !.total = t]
      BY <1>5, <2>4 DEF FollowAdvice
    <2>8. t \in Nat
      BY <2>6
    <2> HIDE DEF t
    <2>9. Asked(request') /\ Affordable(request')
      BY <2>1, <2>6, <2>7, <2>8, OnlyTheBudget
    <2>10. followed' \in 0 .. MaxFollowed
      BY <1>5, <2>1, BoundsAreNumbers DEF FollowAdvice
    <2>11. /\ phase' = "planning_context" /\ plan' = NoPlan /\ offers' = NoOffers
           /\ ranked' = NoCandidates /\ outcome' = NoOutcome
      BY <1>5 DEF FollowAdvice
    <2>12. Asked(request)' /\ Affordable(request)'
      BY <2>9
    <2> QED BY <2>10, <2>11, <2>12 DEF IInv, Before, Node
  <1>6. CASE UNCHANGED vars
    BY <1>6 DEF vars, IInv, Before
  <1> QED BY <1>1, <1>2, <1>3, <1>4, <1>5, <1>6 DEF Next

(* In every state the plan, the offers, the ranking and the outcome are those of the request,
   and a request whose budget was raised as advised can be met.  This is the strengthening the
   theorems below rest on. *)
THEOREM Invariant == Spec => []IInv
  <1>1. Init => IInv
    BY FirstState
  <1>2. IInv /\ [Next]_vars => IInv'
    BY StepKeeps
  <1> QED BY <1>1, <1>2, PTL DEF Spec

-----------------------------------------------------------------------------
(* The selection. *)

(* What is selected. *)
LEMMA SelectionOf ==
  ASSUME IInv, Selected
  PROVE  LET best == outcome.selected
         IN  /\ Asked(request) /\ ValidRequest(request) /\ SoundPlan(request, plan)
             /\ SoundRankings(request, OffersFor(request), ranked)
             /\ outcome = Selection(plan, Feasible(plan, Pool(ranked)))
             /\ best \in Combinations(Pool(ranked)) /\ WithinTransport(plan, best)
             /\ WithinTotal(plan, best)
             /\ \A c \in Feasible(plan, Pool(ranked)) :
                  (\A g \in Groups : c[g][2].score >= best[g][2].score)
                    => Subtotal(c) >= Subtotal(best)
  <1> DEFINE F == Feasible(plan, Pool(ranked))
             best == Selection(plan, F).selected
  <1>1. /\ Asked(request) /\ plan = BudgetPlan(request) /\ ranked = RankedFor(request)
        /\ outcome = Optimized(plan, ranked) /\ F # {}
    BY DEF IInv, Selected, Before
  <1>2. outcome = Selection(plan, F)
    BY <1>1 DEF Optimized
  <1>3. /\ ValidRequest(request) /\ SoundPlan(request, plan)
        /\ SoundRankings(request, OffersFor(request), ranked)
    BY <1>1, NodesAreSound
  <1>4. /\ best \in F
        /\ \A c \in F : (\A g \in Groups : c[g][2].score >= best[g][2].score)
                          => Subtotal(c) >= Subtotal(best)
    BY <1>1, <1>3, BestOf
  <1> HIDE DEF best
  <1>5. best \in Combinations(Pool(ranked)) /\ WithinTransport(plan, best) /\ WithinTotal(plan, best)
    BY <1>4 DEF Feasible
  <1>6. outcome.selected = best
    BY <1>2 DEF best
  <1> QED BY <1>1, <1>2, <1>3, <1>4, <1>5, <1>6

(* What is given out of what is left over. *)
LEMMA AllocationOf ==
  ASSUME NEW remaining \in Nat, NEW target \in Nat
  PROVE  LET food == Least(Most(remaining, 0), target)
             buffer == Most(remaining, 0) - food
             shortfall == Most(target - food, 0)
         IN  /\ food \in Nat /\ buffer \in Nat /\ shortfall \in Nat
             /\ food + buffer = remaining /\ food + shortfall = target
             /\ shortfall = 0 <=> target <= remaining
             /\ buffer > 0 => shortfall = 0
  BY DEF Least, Most

(* The budget of the selection. *)
LEMMA BudgetOf ==
  ASSUME IInv, Selected
  PROVE  LET best == outcome.selected
             budget == outcome.budget
             target == plan.targets.food_activity
         IN  /\ \A g \in Groups : best[g][2].cost \in Nat /\ budget.costs[g] = best[g][2].cost
             /\ budget.costs.transport = best.outbound[2].cost + best.return[2].cost
             /\ budget.costs.subtotal = Subtotal(best)
             /\ Subtotal(best) = best.outbound[2].cost + best.return[2].cost + best.hotel[2].cost
             /\ Subtotal(best) \in Nat
             /\ KnownCosts(best).transport = best.outbound[2].cost + best.return[2].cost
             /\ budget.mode = plan.mode /\ budget.total = request.total /\ request.total \in Nat \cup {NoAmount}
             /\ plan.mode = "budget_limited" <=> request.total # NoAmount
             /\ request.total = NoAmount => budget.remaining = NoAmount
             /\ request.total # NoAmount =>
                  /\ budget.remaining \in Nat /\ budget.remaining = request.total - Subtotal(best)
                  /\ target \in Nat /\ budget.food \in Nat /\ budget.buffer \in Nat
                  /\ outcome.shortfall \in Nat
                  /\ budget.food + budget.buffer = budget.remaining
                  /\ budget.food + outcome.shortfall = target
                  /\ outcome.shortfall = 0 <=> target <= budget.remaining
                  /\ budget.buffer > 0 => outcome.shortfall = 0
  <1> DEFINE F == Feasible(plan, Pool(ranked))
             best == outcome.selected
             budget == outcome.budget
             target == plan.targets.food_activity
             total == request.total
             a == best.outbound[2].cost
             b == best.return[2].cost
             h == best.hotel[2].cost
  <1>1. /\ ValidRequest(request) /\ SoundPlan(request, plan)
        /\ SoundRankings(request, OffersFor(request), ranked)
        /\ outcome = Selection(plan, F) /\ best \in Combinations(Pool(ranked))
        /\ WithinTotal(plan, best)
    BY SelectionOf
  <1>2. /\ \A g \in Groups : best[g][2].cost \in Nat
        /\ KnownCosts(best) = [outbound |-> a, return |-> b, hotel |-> h, transport |-> a + b,
                               subtotal |-> a + b + h]
        /\ Subtotal(best) = a + b + h /\ Subtotal(best) \in Nat
    <2> HIDE DEF best
    <2> QED BY <1>1, PartsOf
  <1>3. /\ plan.total = total /\ total \in Nat \cup {NoAmount}
        /\ plan.mode = "budget_limited" <=> total # NoAmount
    BY <1>1, ModeOf
  <1>4. /\ budget = [mode |-> plan.mode, total |-> plan.total, costs |-> KnownCosts(best),
                     remaining |-> Remaining(plan, best), food |-> Allocation(plan, best).food,
                     buffer |-> Allocation(plan, best).buffer]
        /\ outcome.shortfall = Allocation(plan, best).shortfall
    <2> DEFINE x == ByUtility(plan, F)[1].combination
    <2>1. outcome.selected = x
      BY <1>1 DEF Selection
    <2>2. /\ outcome.budget = [mode |-> plan.mode, total |-> plan.total, costs |-> KnownCosts(x),
                     remaining |-> Remaining(plan, x), food |-> Allocation(plan, x).food,
                     buffer |-> Allocation(plan, x).buffer]
          /\ outcome.shortfall = Allocation(plan, x).shortfall
      BY <1>1 DEF Selection
    <2> HIDE DEF x
    <2> QED BY <2>1, <2>2
  <1> HIDE DEF best, budget, target, total
  <1>5. \A g \in Groups : budget.costs[g] = best[g][2].cost
    <2>1. /\ budget.costs.outbound = a /\ budget.costs.return = b /\ budget.costs.hotel = h
      BY <1>2, <1>4
    <2> QED BY <2>1 DEF Groups, Legs
  <1>6. /\ budget.costs.transport = a + b /\ budget.costs.subtotal = a + b + h
        /\ KnownCosts(best).transport = a + b
    BY <1>2, <1>4
  <1>7. budget.mode = plan.mode /\ budget.total = total /\ budget.remaining = Remaining(plan, best)
    BY <1>3, <1>4
  <1>8. total = NoAmount => budget.remaining = NoAmount
    BY <1>3, <1>7 DEF Remaining
  <1>9. ASSUME total # NoAmount
        PROVE  /\ budget.remaining \in Nat /\ budget.remaining = total - Subtotal(best)
               /\ target \in Nat /\ budget.food \in Nat /\ budget.buffer \in Nat
               /\ outcome.shortfall \in Nat
               /\ budget.food + budget.buffer = budget.remaining
               /\ budget.food + outcome.shortfall = target
               /\ outcome.shortfall = 0 <=> target <= budget.remaining
               /\ budget.buffer > 0 => outcome.shortfall = 0
    <2> DEFINE rest == Remaining(plan, best)
               food == Least(Most(rest, 0), target)
               buffer == Most(rest, 0) - food
               short == Most(target - food, 0)
    <2>1. rest = total - Subtotal(best) /\ total \in Nat
      BY <1>3, <1>9 DEF Remaining
    <2>2. Subtotal(best) <= total
      BY <1>1, <1>3, <1>9 DEF WithinTotal
    <2>3. target \in Nat
      BY <1>1, <1>9 DEF SoundPlan, SpendCategory, target, total
    <2>4. rest \in Nat /\ rest # NoAmount
      <3> HIDE DEF rest
      <3> QED BY <1>2, <2>1, <2>2 DEF NoAmount
    <2>5. Allocation(plan, best) = [food |-> food, buffer |-> buffer, shortfall |-> short]
      BY <2>4 DEF Allocation, target
    <2> HIDE DEF rest
    <2>6. /\ food \in Nat /\ buffer \in Nat /\ short \in Nat
          /\ food + buffer = rest /\ food + short = target
          /\ short = 0 <=> target <= rest
          /\ buffer > 0 => short = 0
      BY <2>3, <2>4, AllocationOf
    <2> HIDE DEF food, buffer, short
    <2>7. budget.food = food /\ budget.buffer = buffer /\ outcome.shortfall = short
      BY <1>4, <2>5
    <2>8. budget.remaining = rest
      BY <1>7 DEF rest
    <2> QED BY <2>1, <2>3, <2>4, <2>6, <2>7, <2>8
  <1> HIDE DEF a, b, h
  <1>10. /\ \A g \in Groups : best[g][2].cost \in Nat /\ budget.costs[g] = best[g][2].cost
         /\ budget.costs.transport = a + b /\ budget.costs.subtotal = Subtotal(best)
         /\ Subtotal(best) = a + b + h /\ Subtotal(best) \in Nat
         /\ KnownCosts(best).transport = a + b
    BY <1>2, <1>5, <1>6
  <1> QED BY <1>3, <1>7, <1>8, <1>9, <1>10 DEF best, budget, target, total, a, b, h

(* What the optimiser selects passes the verifier. *)
LEMMA SelectedPasses ==
  ASSUME IInv
  PROVE  SelectionPassesVerifier
  <1> SUFFICES ASSUME Selected
      PROVE  LET best == outcome.selected
             IN  /\ BudgetProblems(outcome.budget, [g \in Groups |-> [price |-> best[g][2].cost]],
                                   outcome.budget) = {}
                 /\ request.total # NoAmount => Subtotal(best) <= request.total
                 /\ \A limit \in request.flightLimits :
                      limit.field = "price" => KnownCosts(best).transport <= limit.value
    BY DEF SelectionPassesVerifier
  <1> DEFINE best == outcome.selected
             budget == outcome.budget
             costs == budget.costs
             facts == [g \in Groups |-> [price |-> best[g][2].cost]]
             total == request.total
             a == best.outbound[2].cost
             b == best.return[2].cost
             h == best.hotel[2].cost
  <1>1. /\ ValidRequest(request) /\ SoundPlan(request, plan)
        /\ WithinTransport(plan, best) /\ WithinTotal(plan, best)
    BY SelectionOf
  <1>2. /\ \A g \in Groups : best[g][2].cost \in Nat /\ costs[g] = best[g][2].cost
        /\ costs.transport = a + b /\ costs.subtotal = Subtotal(best)
        /\ Subtotal(best) = a + b + h /\ Subtotal(best) \in Nat
        /\ KnownCosts(best).transport = a + b
        /\ budget.mode = plan.mode /\ budget.total = total /\ total \in Nat \cup {NoAmount}
        /\ plan.mode = "budget_limited" <=> total # NoAmount
        /\ total = NoAmount => budget.remaining = NoAmount
        /\ total # NoAmount => /\ budget.remaining \in Nat /\ budget.remaining = total - Subtotal(best)
                               /\ budget.food \in Nat /\ budget.buffer \in Nat
                               /\ budget.food + budget.buffer = budget.remaining
    BY BudgetOf
  <1>3. total # NoAmount => total \in Nat /\ Subtotal(best) <= total
    <2>1. plan.total = total /\ total \in Nat \cup {NoAmount}
      BY <1>1, ModeOf
    <2> HIDE DEF best, total
    <2> QED BY <1>1, <1>2, <2>1 DEF WithinTotal
  <1>4. ASSUME NEW limit \in request.flightLimits, limit.field = "price"
        PROVE  KnownCosts(best).transport <= limit.value
    <2> DEFINE bound == UpperBound(request.flightLimits, "price")
    <2>1. bound # NoAmount /\ limit.value \in Nat /\ bound <= limit.value /\ bound \in Nat \cup {NoAmount}
      BY <1>1, <1>4, PriceBound
    <2>2. plan.maxTransport = bound
      BY <1>1 DEF SoundPlan
    <2>3. a \in Nat /\ b \in Nat
      BY <1>2 DEF Groups, Legs
    <2> HIDE DEF best, bound, a, b
    <2>4. KnownCosts(best).transport <= bound
      BY <1>1, <2>1, <2>2 DEF WithinTransport
    <2>5. bound \in Nat /\ KnownCosts(best).transport \in Nat
      BY <1>2, <2>1, <2>3
    <2> QED BY <2>1, <2>4, <2>5
  <1>5. costs.outbound = a /\ costs.return = b /\ costs.hotel = h /\ a \in Nat /\ b \in Nat /\ h \in Nat
    BY <1>2 DEF Groups, Legs
  <1>6. \A part \in DOMAIN facts : costs[part] = facts[part].price /\ costs[part] \in Nat
    BY <1>2
  <1> HIDE DEF best, budget, costs, facts, total, a, b, h
  <1>7. \A x \in Int : Close(x, x)
    BY ToleranceIsNumber DEF Close
  <1>8. /\ Close(costs.transport, costs.outbound + costs.return)
        /\ Close(costs.subtotal, costs.outbound + costs.return + costs.hotel)
    <2>1. a + b \in Int /\ a + b + h \in Int
      BY <1>5
    <2>2. Close(a + b, a + b) /\ Close(a + b + h, a + b + h)
      BY <1>7, <2>1
    <2> QED BY <1>2, <1>5, <2>2
  <1>9. \A part \in DOMAIN facts : Close(costs[part], facts[part].price)
    <2> TAKE part \in DOMAIN facts
    <2> DEFINE x == costs[part]
    <2>1. x \in Int /\ facts[part].price = x
      BY <1>6
    <2> HIDE DEF x
    <2> QED BY <1>7, <2>1 DEF x
  <1> DEFINE limited == budget.mode = "budget_limited"
             known == budget.total # NoAmount /\ budget.remaining # NoAmount
  <1>10. ASSUME limited
         PROVE  /\ known /\ ~(costs.subtotal - budget.total > Tolerance)
                /\ Close(budget.remaining, budget.total - costs.subtotal)
                /\ Close(budget.food + budget.buffer, budget.remaining)
    <2>1. total # NoAmount
      BY <1>2, <1>10
    <2>2. /\ budget.remaining \in Nat /\ budget.remaining = total - Subtotal(best)
          /\ budget.food + budget.buffer = budget.remaining
          /\ total \in Nat /\ Subtotal(best) <= total /\ Subtotal(best) \in Nat
      BY <1>2, <1>3, <2>1
    <2>3. known
      BY <1>2, <2>1, <2>2 DEF NoAmount
    <2>4. ~(costs.subtotal - budget.total > Tolerance)
      BY <1>2, <2>2, ToleranceIsNumber
    <2>5. Close(budget.remaining, budget.total - costs.subtotal)
      BY <1>2, <1>7, <2>2
    <2>6. Close(budget.food + budget.buffer, budget.remaining)
      BY <1>7, <2>2
    <2> QED BY <2>3, <2>4, <2>5, <2>6
  <1>11. CloseOrNone(budget.remaining, budget.remaining)
    <2>1. budget.remaining \in Int
      BY <1>2 DEF NoAmount
    <2> QED BY <1>7, <2>1 DEF CloseOrNone
  <1> HIDE DEF limited, known
  <1>12. BudgetProblems(budget, facts, budget)
           = Problem(~Close(costs.transport, costs.outbound + costs.return),
                     "transport_cost_arithmetic_error")
             \cup Problem(~Close(costs.subtotal, costs.outbound + costs.return + costs.hotel),
                          "known_subtotal_arithmetic_error")
             \cup Problem(\E part \in DOMAIN facts : ~Close(costs[part], facts[part].price),
                          "known_cost_fact_mismatch")
             \cup Problem(limited /\ ~known, "limited_budget_fields_missing")
             \cup Problem(limited /\ known /\ costs.subtotal - budget.total > Tolerance,
                          "total_budget_violation")
             \cup Problem(limited /\ known /\ ~Close(budget.remaining, budget.total - costs.subtotal),
                          "remaining_budget_mismatch")
             \cup Problem(limited /\ known /\ ~Close(budget.food + budget.buffer, budget.remaining),
                          "remaining_allocation_mismatch")
             \cup Problem(~CloseOrNone(budget.remaining, budget.remaining),
                          "selection_budget_mismatch")
    BY DEF BudgetProblems, costs, limited, known
  <1>13. BudgetProblems(budget, facts, budget) = {}
    <2>1. Problem(~Close(costs.transport, costs.outbound + costs.return),
                     "transport_cost_arithmetic_error") = {}
      BY <1>8 DEF Problem
    <2>2. Problem(~Close(costs.subtotal, costs.outbound + costs.return + costs.hotel),
                          "known_subtotal_arithmetic_error") = {}
      BY <1>8 DEF Problem
    <2>3. Problem(\E part \in DOMAIN facts : ~Close(costs[part], facts[part].price),
                          "known_cost_fact_mismatch") = {}
      BY <1>9 DEF Problem
    <2>4. Problem(limited /\ ~known, "limited_budget_fields_missing") = {}
      BY <1>10 DEF Problem
    <2>5. Problem(limited /\ known /\ costs.subtotal - budget.total > Tolerance,
                          "total_budget_violation") = {}
      BY <1>10 DEF Problem
    <2>6. Problem(limited /\ known /\ ~Close(budget.remaining, budget.total - costs.subtotal),
                          "remaining_budget_mismatch") = {}
      BY <1>10 DEF Problem
    <2>7. Problem(limited /\ known /\ ~Close(budget.food + budget.buffer, budget.remaining),
                          "remaining_allocation_mismatch") = {}
      BY <1>10 DEF Problem
    <2>8. Problem(~CloseOrNone(budget.remaining, budget.remaining),
                          "selection_budget_mismatch") = {}
      BY <1>11 DEF Problem
    <2> QED BY <1>12, <2>1, <2>2, <2>3, <2>4, <2>5, <2>6, <2>7, <2>8
  <1>14. total # NoAmount => Subtotal(best) <= total
    BY <1>3
  <1> QED BY <1>4, <1>13, <1>14 DEF best, budget, facts, total

(* The parts of the budget add up. *)
LEMMA BudgetsAddUp ==
  ASSUME IInv
  PROVE  BudgetAddsUp
  <1>1. TypeOK
    <2>1. request \in {[r EXCEPT !.total = request.total] : r \in Requests}
      BY DEF IInv, Asked
    <2>2. ASSUME NEW g \in Groups PROVE offers[g] \subseteq Catalogue[g]
      <3>1. CASE offers = NoOffers
        BY <3>1 DEF NoOffers
      <3>2. CASE offers = OffersFor(request)
        BY <3>2, OffersAreSound DEF IInv
      <3> QED BY <3>1, <3>2 DEF IInv
    <2>3. ASSUME NEW g \in Groups, NEW i \in DOMAIN ranked[g] PROVE ranked[g][i].score \in 0 .. Scale
      <3>1. CASE ranked = NoCandidates
        BY <3>1 DEF NoCandidates
      <3>2. CASE ranked = RankedFor(request)
        <4>1. SoundRankings(request, OffersFor(request), ranked)
          BY <3>2, NodesAreSound DEF IInv
        <4> QED BY <4>1 DEF SoundRankings, SoundRanking
      <3> QED BY <3>1, <3>2 DEF IInv
    <2>4. outcome.status \in {"none", "feasible", "no_feasible_combination"}
      <3>1. CASE outcome = NoOutcome
        BY <3>1 DEF NoOutcome
      <3>2. CASE outcome = Optimized(plan, ranked)
        BY <3>2 DEF Optimized, NoFeasible, Selection
      <3> QED BY <3>1, <3>2 DEF IInv
    <2>5. phase \in Node /\ followed \in 0 .. MaxFollowed
      BY DEF IInv
    <2> QED BY <2>1, <2>2, <2>3, <2>4, <2>5 DEF TypeOK
  <1>2. ReserveIsExact
    <2> SUFFICES ASSUME Selected, request.total # NoAmount
        PROVE  LET target == plan.targets.food_activity
                   cost   == Subtotal(outcome.selected)
               IN  /\ outcome.shortfall = 0 <=> cost + target <= request.total
                   /\ outcome.budget.buffer > 0 => outcome.shortfall = 0
                   /\ outcome.budget.food + outcome.shortfall = target
      BY DEF ReserveIsExact
    <2> DEFINE target == plan.targets.food_activity
               cost == Subtotal(outcome.selected)
               rest == outcome.budget.remaining
               total == request.total
               food == outcome.budget.food
               buffer == outcome.budget.buffer
               short == outcome.shortfall
    <2>1. /\ total \in Nat \cup {NoAmount} /\ cost \in Nat /\ rest \in Nat /\ rest = total - cost
          /\ target \in Nat /\ food + short = target
          /\ short = 0 <=> target <= rest
          /\ buffer > 0 => short = 0
      BY BudgetOf
    <2>2. total # NoAmount
      OBVIOUS
    <2> HIDE DEF target, cost, rest, total, food, buffer, short
    <2>3. short = 0 <=> cost + target <= total
      BY <2>1, <2>2
    <2> QED BY <2>1, <2>3 DEF target, cost, rest, total, food, buffer, short
  <1>3. TargetsShareTheBudget
    <2>1. CASE plan = NoPlan
      BY <2>1 DEF TargetsShareTheBudget, NoPlan
    <2>2. CASE plan = BudgetPlan(request)
      <3> SUFFICES ASSUME plan.mode = "budget_limited"
          PROVE  LET sum == plan.targets.transport + plan.targets.hotel + plan.targets.food_activity
                 IN  /\ sum - plan.total \in -2 .. 2
                     /\ \A c \in SpendCategory : plan.targets[c] >= 0
        BY DEF TargetsShareTheBudget
      <3>1. ValidRequest(request) /\ SoundPlan(request, plan)
        BY <2>2, NodesAreSound DEF IInv
      <3>2. plan.total = request.total /\ request.total # NoAmount
        BY <3>1, ModeOf
      <3>3. /\ \A c \in SpendCategory : plan.targets[c] \in Nat
            /\ plan.targets.transport + plan.targets.hotel + plan.targets.food_activity - request.total
                 \in -1 .. 1
        BY <3>1, <3>2 DEF SoundPlan
      <3> DEFINE d == (plan.targets.transport + plan.targets.hotel + plan.targets.food_activity) - plan.total
      <3>4. d \in -1 .. 1
        <4> DEFINE x == plan.targets.transport
                   y == plan.targets.hotel
                   z == plan.targets.food_activity
                   t == plan.total
        <4>1. x \in Nat /\ y \in Nat /\ z \in Nat
          BY <3>3 DEF SpendCategory
        <4>2. t \in Nat /\ x + y + z - t \in -1 .. 1
          BY <3>1, <3>2, <3>3, ModeOf
        <4> HIDE DEF x, y, z, t
        <4>3. (x + y + z) - t \in -1 .. 1
          BY <4>1, <4>2
        <4> QED BY <4>3 DEF d, x, y, z, t
      <3> HIDE DEF d
      <3>5. d \in -2 .. 2
        BY <3>4
      <3>6. \A c \in SpendCategory : plan.targets[c] >= 0
        BY <3>3
      <3>7. (plan.targets.transport + plan.targets.hotel + plan.targets.food_activity) - plan.total
              \in -2 .. 2
        BY Zenon, <3>5 DEF d
      <3> HIDE DEF d
      <3> QED BY Zenon, <3>6, <3>7
    <2> QED BY <2>1, <2>2 DEF IInv
  <1> QED BY <1>1, <1>2, <1>3 DEF BudgetAddsUp

-----------------------------------------------------------------------------
(* Preference, advice, and the theorems. *)

(* What is better and no dearer is preferred. *)
LEMMA BetterPreferred ==
  ASSUME IInv
  PROVE  BetterIsPreferred
  <1>1. NothingBetterIsCheaper
    BY SelectionOf DEF NothingBetterIsCheaper
  <1>2. BetterFlightRanksFirst
    <2> SUFFICES ASSUME NEW leg \in Legs, NEW i \in DOMAIN ranked[leg], NEW j \in DOMAIN ranked[leg]
        PROVE  LET At(k) == CHOOSE f \in offers[leg] : f.id = ranked[leg][k].id
                   a == At(i)
                   b == At(j)
               IN  /\ a.price < b.price /\ a.is_direct >= b.is_direct
                   /\ a.refundable >= b.refundable /\ a.changeable >= b.changeable
                   /\ EarlyDepartureFit(a.depart_time) >= EarlyDepartureFit(b.depart_time)
                   /\ LateArrivalFit(a.arrive_time) >= LateArrivalFit(b.arrive_time)
                   /\ b.names \cap NamesIn(request.namedFlights, "preferred") = {}
                   => i < j
      BY DEF BetterFlightRanksFirst
    <2> DEFINE list == ranked[leg]
               offered == offers[leg]
               At(k) == CHOOSE f \in offered : f.id = list[k].id
               a == At(i)
               b == At(j)
    <2>1. ranked # NoCandidates
      BY DEF NoCandidates, Groups
    <2>2. /\ Asked(request) /\ plan = BudgetPlan(request) /\ offers = OffersFor(request)
          /\ ranked = RankedFor(request)
      BY <2>1 DEF IInv, Before
    <2>3. leg \in Groups /\ leg # "hotel"
      BY DEF Groups, Legs
    <2>4. /\ ValidRequest(request) /\ SoundPlan(request, plan)
          /\ SoundRanking(request, leg, offered, list) /\ SoundOffers(leg, offered)
      BY <2>2, <2>3, NodesAreSound, OffersAreSound DEF SoundRankings
    <2>5. list = RankGroup(request, plan, offered, leg)
      BY <2>2, <2>3 DEF RankedFor
    <2> HIDE DEF list, offered
    <2>6. ASSUME NEW k \in DOMAIN list PROVE At(k) \in offered /\ list[k].id = At(k).id
      <3>1. PICK o \in Passing(request, leg, offered) : list[k].id = o.id
        BY <2>4 DEF SoundRanking
      <3>2. o \in offered
        BY <2>3 DEF Passing, PassingFlights
      <3> QED BY <3>1, <3>2
    <2>7. /\ i \in DOMAIN list /\ j \in DOMAIN list
      BY DEF list
    <2>8. a \in offered /\ b \in offered /\ list[i].id = a.id /\ list[j].id = b.id
      BY <2>6, <2>7
    <2> HIDE DEF At
    <2>9. ASSUME /\ a.price < b.price /\ a.is_direct >= b.is_direct
                 /\ a.refundable >= b.refundable /\ a.changeable >= b.changeable
                 /\ EarlyDepartureFit(a.depart_time) >= EarlyDepartureFit(b.depart_time)
                 /\ LateArrivalFit(a.arrive_time) >= LateArrivalFit(b.arrive_time)
                 /\ b.names \cap NamesIn(request.namedFlights, "preferred") = {}
          PROVE  i < j
      <3>1. SoundFlight(a) /\ SoundFlight(b)
        BY <2>3, <2>4, <2>8 DEF SoundOffers
      <3>2. a.price <= b.price
        <4>1. a.price \in Nat /\ b.price \in Nat
          BY <3>1 DEF SoundFlight
        <4> QED BY <2>9, <4>1
      <3>3. AsGood(request, a, b)
        BY <2>9, <3>2 DEF AsGood
      <3> HIDE DEF a, b
      <3>4. \A k, l \in DOMAIN list : \A f, g \in offered :
              /\ list[k].id = g.id /\ list[l].id = f.id
              /\ AsGood(request, g, f) /\ g.price < f.price
              => k < l
        BY <2>4, <2>5, FlightsInOrder
      <3>5. a.price < b.price
        BY <2>9
      <3> QED BY <2>7, <2>8, <3>3, <3>4, <3>5
    <2> QED BY <2>9 DEF At, list, offered
  <1> QED BY <1>1, <1>2 DEF BetterIsPreferred

(* An advice is the least that offers that pass cost, as long as every candidate takes part. *)
LEMMA AdviceExact ==
  ASSUME IInv
  PROVE  AdviceIsExact
  <1> SUFFICES ASSUME phase = "final_response", ranked # NoCandidates, RankStatus(ranked) = "ok",
                      ~Truncated
      PROVE  /\ followed = 0
             /\ outcome.increase # NoAmount =>
                  \A o \in PassingFlights(request, offers.outbound),
                     r \in PassingFlights(request, offers.return),
                     h \in PassingHotels(request, offers.hotel) :
                    LET tickets == (o.price + r.price) * request.people
                    IN  plan.maxTransport = NoAmount \/ tickets <= plan.maxTransport
                        => tickets + h.price_per_night * request.nights * request.rooms
                             >= request.total + outcome.increase
    BY DEF AdviceIsExact
  <1> DEFINE combinations == Combinations(Pool(ranked))
             more == NoFeasible(plan, combinations).increase
  <1>1. /\ Asked(request) /\ plan = BudgetPlan(request) /\ offers = OffersFor(request)
        /\ ranked = RankedFor(request) /\ outcome = Optimized(plan, ranked)
        /\ Feasible(plan, Pool(ranked)) = {} /\ followed \in 0 .. MaxFollowed
    BY DEF IInv, Before
  <1>2. outcome.increase = more
    BY <1>1 DEF Optimized
  <1>3. \A g \in Groups : Len(ranked[g]) <= MaxCandidates
    <2>1. SoundRankings(request, OffersFor(request), ranked)
      BY <1>1, NodesAreSound
    <2>2. \A g \in Groups : Len(ranked[g]) \in Nat /\ ~(Len(ranked[g]) > MaxCandidates)
      BY <2>1 DEF SoundRankings, SoundRanking, Truncated
    <2> QED BY <2>2, BoundsAreNumbers
  <1>4. followed = 0
    <2>1. ~Affordable(request)
      BY <1>1, <1>3, AffordableIsFeasible
    <2> QED BY <1>1, <2>1, BoundsAreNumbers DEF IInv
  <1>5. /\ ValidRequest(request) /\ SoundPlan(request, plan)
        /\ SoundRankings(request, OffersFor(request), ranked)
    BY <1>1, NodesAreSound
  <1>6. ASSUME outcome.increase # NoAmount,
               NEW o \in PassingFlights(request, offers.outbound),
               NEW r \in PassingFlights(request, offers.return),
               NEW h \in PassingHotels(request, offers.hotel),
               \/ plan.maxTransport = NoAmount
               \/ (o.price + r.price) * request.people <= plan.maxTransport
        PROVE  (o.price + r.price) * request.people + h.price_per_night * request.nights * request.rooms
                 >= request.total + outcome.increase
    <2> DEFINE x == CostOf(request, "outbound", o)
               y == CostOf(request, "return", r)
               z == CostOf(request, "hotel", h)
               tickets == (o.price + r.price) * request.people
    <2>1. PICK c \in combinations : KnownCosts(c).transport = x + y /\ Subtotal(c) = x + y + z
      BY <1>1, <1>3, EveryOfferTakesPart
    <2>2. \A d \in combinations : WithinTransport(plan, d) => Subtotal(d) >= request.total + more
      BY <1>1, <1>2, <1>5, <1>6, AdviceOf
    <2>3. o.price \in Nat /\ r.price \in Nat /\ request.people \in Nat
      <3>1. /\ SoundOffers("outbound", offers["outbound"]) /\ SoundOffers("return", offers["return"])
        BY <1>1, OffersAreSound DEF Groups, Legs
      <3>2. o \in offers["outbound"] /\ r \in offers["return"]
        BY DEF PassingFlights
      <3>3. SoundFlight(o) /\ SoundFlight(r)
        BY <3>1, <3>2 DEF SoundOffers
      <3>4. o.price \in Nat /\ r.price \in Nat
        BY <3>3 DEF SoundFlight
      <3> QED BY <1>5, <3>4, AmountsAsked
    <2>4. tickets = x + y
      <3>1. x = o.price * request.people /\ y = r.price * request.people
        BY DEF CostOf
      <3>2. \A p, q, n \in Nat : (p + q) * n = p * n + q * n
        OBVIOUS
      <3> DEFINE p == o.price
                 q == r.price
                 n == request.people
      <3>3. p \in Nat /\ q \in Nat /\ n \in Nat
        BY <2>3
      <3> HIDE DEF p, q, n
      <3>4. (p + q) * n = p * n + q * n
        BY <3>2, <3>3
      <3> QED BY <3>1, <3>4 DEF p, q, n
    <2>5. z = h.price_per_night * request.nights * request.rooms
      BY DEF CostOf
    <2> HIDE DEF x, y, z, tickets, combinations, more
    <2>6. WithinTransport(plan, c)
      <3>1. plan.maxTransport = NoAmount \/ tickets <= plan.maxTransport
        BY <1>6 DEF tickets
      <3> QED BY <2>1, <2>4, <3>1 DEF WithinTransport
    <2>7. Subtotal(c) >= request.total + more
      BY <2>2, <2>6
    <2>8. tickets + z >= request.total + outcome.increase
      BY <1>2, <2>1, <2>4, <2>7
    <2> QED BY <2>5, <2>8 DEF tickets
  <1> QED BY <1>4, <1>6

(* A selection passes the arithmetic of the verifier, keeps within the total budget and within
   every limit on the price of the tickets: for all requests, offers, wishes and bounds. *)
THEOREM VerifierPasses == Spec => []SelectionPassesVerifier
  BY Invariant, SelectedPasses, PTL

(* The targets share the budget but for a cent or two, the reserve is given out once, and its
   shortfall is nothing exactly when the target fits beside the tickets and the hotel. *)
THEOREM NoCentIsLost == Spec => []BudgetAddsUp
  BY Invariant, BudgetsAddUp, PTL

(* The ranking puts the better and cheaper of two flights first whatever the wishes, and the
   optimiser passes over no combination that is as good in every part and costs less. *)
THEOREM BetterComesFirst == Spec => []BetterIsPreferred
  BY Invariant, BetterPreferred, PTL

(* While no group has more candidates than take part, the advice to raise the budget is exact:
   nothing that passes costs less, and whoever follows it gets a selection. *)
THEOREM AdviceHolds == Spec => []AdviceIsExact
  BY Invariant, AdviceExact, PTL
===============================================================================
