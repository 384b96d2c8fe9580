-------------------------- MODULE TripRevisionProofs --------------------------
(***************************************************************************)
(* Whatever the models and the rules make of messages and change requests, *)
(* a revision does what was said, leaves what was not, its dates agree,    *)
(* and its report is complete.                                             *)
(***************************************************************************)
EXTENDS TripRevision, SequenceTheorems, FiniteSetTheorems, WellFoundedInduction, TLAPS

(* A set of numbers that is not empty has a least, and if it is bounded a greatest element. *)
LEMMA LeastNumber ==
  ASSUME NEW S, S \subseteq Nat, S # {}
  PROVE  \E m \in S : \A k \in S : m <= k
  <1> DEFINE less == OpToRel(<, Nat)
  <1>1. IsWellFoundedOn(less, Nat)
    BY NatLessThanWellFounded
  <1>2. PICK m \in S : \A k \in S : <<k, m>> \notin less
    <2> HIDE DEF less
    <2> QED BY <1>1, WFMin
  <1>3. ASSUME NEW k \in S PROVE m <= k
    <2>1. m \in Nat /\ k \in Nat
      OBVIOUS
    <2>2. ~(k < m)
      BY <1>2, <2>1 DEF OpToRel
    <2> QED BY <2>1, <2>2
  <1> QED BY <1>3

LEMMA GreatestNumber ==
  ASSUME NEW n \in Nat, NEW S, S \subseteq 1 .. n, S # {}
  PROVE  Max(S) \in S /\ \A k \in S : k <= Max(S)
  <1> DEFINE T == {n - k : k \in S}
  <1>1. T \subseteq Nat /\ T # {}
    <2>1. \A k \in S : n - k \in Nat
      OBVIOUS
    <2> QED BY <2>1
  <1>2. PICK t \in T : \A k \in T : t <= k
    <2> HIDE DEF T
    <2> QED BY <1>1, LeastNumber
  <1>3. PICK m \in S : t = n - m
    OBVIOUS
  <1>4. \A k \in S : m >= k
    <2> SUFFICES ASSUME NEW k \in S PROVE m >= k
      OBVIOUS
    <2>1. n - m <= n - k
      BY <1>2, <1>3
    <2> QED BY <2>1
  <1>5. Max(S) \in S /\ \A k \in S : Max(S) >= k
    BY <1>4 DEF Max
  <1> QED BY <1>5

(* The k-th of a finite set of numbers is the one with k - 1 before it, and each number is *)
(* the k-th for one k.                                                                     *)
LEMMA Counted ==
  ASSUME NEW S, S \subseteq Nat, IsFiniteSet(S)
  PROVE  /\ Cardinality(S) \in Nat
         /\ \A k \in 1 .. Cardinality(S) : NthOf(S, k) \in S
         /\ \A k, l \in 1 .. Cardinality(S) : NthOf(S, k) = NthOf(S, l) => k = l
         /\ \A i \in S : \E k \in 1 .. Cardinality(S) : NthOf(S, k) = i
  <1> DEFINE Before(i) == {j \in S : j < i}
             n == Cardinality(S)
             rank == [i \in S |-> Cardinality(Before(i))]
  <1>1. n \in Nat
    BY FS_CardinalityType
  <1>2. ASSUME NEW i \in S PROVE IsFiniteSet(Before(i)) /\ rank[i] \in 0 .. n - 1
    <2>1. Before(i) \in SUBSET S /\ i \notin Before(i)
      OBVIOUS
    <2>2. IsFiniteSet(Before(i)) /\ Cardinality(Before(i)) <= n /\ Cardinality(Before(i)) # n
      BY <2>1, FS_Subset
    <2>3. Cardinality(Before(i)) \in Nat
      BY <2>2, FS_CardinalityType
    <2>4. rank[i] = Cardinality(Before(i))
      OBVIOUS
    <2> HIDE DEF n, Before, rank
    <2> QED BY <1>1, <2>2, <2>3, <2>4
  <1>3. ASSUME NEW i \in S, NEW j \in S, i < j PROVE rank[i] # rank[j]
    <2>1. Before(i) \in SUBSET Before(j) /\ i \in Before(j) /\ i \notin Before(i)
      <3>1. i \in Nat /\ j \in Nat /\ ~(i < i)
        OBVIOUS
      <3>2. \A k \in S : k < i => k < j
        BY <1>3, <3>1
      <3> QED BY <1>3, <3>1, <3>2
    <2>2. IsFiniteSet(Before(j))
      BY <1>2
    <2>3. Cardinality(Before(i)) # Cardinality(Before(j))
      <3> HIDE DEF Before
      <3> QED BY <2>1, <2>2, FS_Subset
    <2> QED BY <2>3
  <1>4. \A i, j \in S : rank[i] = rank[j] => i = j
    <2> SUFFICES ASSUME NEW i \in S, NEW j \in S, rank[i] = rank[j], i # j PROVE FALSE
      OBVIOUS
    <2>1. i < j \/ j < i
      OBVIOUS
    <2> HIDE DEF rank
    <2> QED BY <1>3, <2>1
  <1>5. IsFiniteSet(0 .. n - 1) /\ Cardinality(0 .. n - 1) = n
    <2>1. 0 \in Int /\ n - 1 \in Int
      BY <1>1
    <2>2. IsFiniteSet(0 .. n - 1) /\ Cardinality(0 .. n - 1) = IF 0 > n - 1 THEN 0 ELSE n - 1 - 0 + 1
      <3> HIDE DEF n
      <3> QED BY <2>1, FS_Interval
    <2> HIDE DEF n
    <2> QED BY <1>1, <2>2
  <1>6. rank \in Injection(S, 0 .. n - 1)
    <2>1. rank \in [S -> 0 .. n - 1]
      <3>1. \A i \in S : rank[i] \in 0 .. n - 1
        BY <1>2
      <3>2. rank = [i \in S |-> rank[i]]
        OBVIOUS
      <3> HIDE DEF rank, n
      <3> QED BY <3>1, <3>2
    <2> HIDE DEF rank, n
    <2> QED BY <1>4, <2>1 DEF Injection, IsInjective
  <1>7. rank \in Surjection(S, 0 .. n - 1)
    <2> HIDE DEF rank
    <2> QED BY <1>5, <1>6, FS_Injection
  <1>8. ASSUME NEW k \in 1 .. n
        PROVE  NthOf(S, k) \in S /\ rank[NthOf(S, k)] = k - 1
    <2>1. k - 1 \in 0 .. n - 1
      BY <1>1
    <2>2. PICK i \in S : rank[i] = k - 1
      <3> HIDE DEF rank, n
      <3> QED BY <1>7, <2>1 DEF Surjection
    <2>3. \E x \in S : Cardinality(Before(x)) = k - 1
      BY <2>2
    <2>4. NthOf(S, k) = CHOOSE x \in S : Cardinality(Before(x)) = k - 1
      BY DEF NthOf
    <2>5. NthOf(S, k) \in S /\ Cardinality(Before(NthOf(S, k))) = k - 1
      <3> HIDE DEF Before
      <3> QED BY <2>3, <2>4
    <2> QED BY <2>5
  <1>9. ASSUME NEW i \in S PROVE \E k \in 1 .. n : NthOf(S, k) = i
    <2>1. rank[i] \in 0 .. n - 1
      BY <1>2
    <2>2. rank[i] + 1 \in 1 .. n /\ (rank[i] + 1) - 1 = rank[i]
      <3> HIDE DEF rank, n
      <3> QED BY <1>1, <2>1
    <2> HIDE DEF rank, n
    <2>3. NthOf(S, rank[i] + 1) \in S /\ rank[NthOf(S, rank[i] + 1)] = rank[i]
      BY <1>8, <2>2
    <2>4. NthOf(S, rank[i] + 1) = i
      BY <1>4, <2>3
    <2> QED BY <2>2, <2>4
  <1>10. ASSUME NEW k \in 1 .. n, NEW l \in 1 .. n, NthOf(S, k) = NthOf(S, l) PROVE k = l
    <2> HIDE DEF rank, n
    <2> QED BY <1>1, <1>8, <1>10
  <1> HIDE DEF rank
  <1> QED BY <1>1, <1>8, <1>9, <1>10
-----------------------------------------------------------------------------
(* Entries under keys. *)

(* A dict of items: the entries have different keys, each is one of the items that was      *)
(* chosen for its key, and no key of an item is missing.                                    *)
LEMMA OneOfEachKey ==
  ASSUME NEW items, NEW kept, kept \subseteq Nat, IsFiniteSet(kept), NEW chosen,
         \A i \in kept : chosen[i] \in SameKey(items, kept, i)
  PROVE  LET dict == OnePerKey(items, kept, chosen)
         IN  /\ dict \in Seq(ToSet(dict))
             /\ \A k, l \in DOMAIN dict : dict[k].key = dict[l].key => k = l
             /\ \A i \in kept : \E f \in SameKey(items, kept, i) : items[chosen[f]] \in ToSet(dict)
             /\ \A e \in ToSet(dict) : \E i \in kept : e = items[chosen[i]] /\ chosen[i] \in kept
  <1> DEFINE places == FirstPlaces(items, kept)
             n == Cardinality(places)
             dict == OnePerKey(items, kept, chosen)
  <1>1. places \subseteq kept /\ places \subseteq Nat
    BY DEF FirstPlaces
  <1>2. IsFiniteSet(places)
    BY <1>1, FS_Subset
  <1>3. /\ n \in Nat
        /\ \A k \in 1 .. n : NthOf(places, k) \in places
        /\ \A k, l \in 1 .. n : NthOf(places, k) = NthOf(places, l) => k = l
        /\ \A i \in places : \E k \in 1 .. n : NthOf(places, k) = i
    BY <1>1, <1>2, Counted
  <1>4. dict = [k \in 1 .. n |-> items[chosen[NthOf(places, k)]]]
    BY DEF OnePerKey
  <1>5. DOMAIN dict = 1 .. n /\ \A k \in 1 .. n : dict[k] = items[chosen[NthOf(places, k)]]
    BY <1>4
  <1> HIDE DEF dict, places
  <1>6. dict \in Seq(ToSet(dict))
    <2>1. \A k \in 1 .. n : dict[k] \in ToSet(dict)
      BY <1>5 DEF ToSet
    <2>2. dict = [k \in 1 .. n |-> dict[k]]
      BY <1>4
    <2> QED BY <1>3, <2>1, <2>2
  <1>7. \A i \in kept : chosen[i] \in kept /\ items[chosen[i]].key = items[i].key
    BY DEF SameKey
  <1>8. ASSUME NEW k \in DOMAIN dict, NEW l \in DOMAIN dict, dict[k].key = dict[l].key
        PROVE  k = l
    <2> DEFINE i == NthOf(places, k)
               j == NthOf(places, l)
    <2>1. i \in places /\ j \in places
      BY <1>3, <1>5
    <2>2. items[i].key = items[j].key
      <3>1. dict[k] = items[chosen[i]] /\ dict[l] = items[chosen[j]]
        BY <1>5
      <3> HIDE DEF i, j
      <3> QED BY <1>1, <1>7, <1>8, <2>1, <3>1
    <2>3. i \in SameKey(items, kept, j) /\ j \in SameKey(items, kept, i)
      <3> HIDE DEF i, j
      <3> QED BY <1>1, <2>1, <2>2 DEF SameKey
    <2>4. i <= j /\ j <= i /\ i \in Nat /\ j \in Nat
      <3> HIDE DEF i, j
      <3> QED BY <1>1, <2>1, <2>3 DEF FirstPlaces, places
    <2>5. i = j
      <3> HIDE DEF i, j
      <3> QED BY <2>4
    <2> QED BY <1>3, <1>5, <2>5
  <1>9. ASSUME NEW i \in kept
        PROVE  \E f \in SameKey(items, kept, i) : items[chosen[f]] \in ToSet(dict)
    <2> DEFINE same == SameKey(items, kept, i)
    <2>1. same \subseteq Nat /\ i \in same
      BY DEF SameKey
    <2>2. PICK f \in same : \A j \in same : f <= j
      <3> HIDE DEF same
      <3> QED BY <2>1, LeastNumber
    <2>3. SameKey(items, kept, f) = same /\ f \in kept
      BY <2>2 DEF SameKey
    <2>4. f \in places
      <3> HIDE DEF same
      <3> QED BY <2>2, <2>3 DEF places, FirstPlaces
    <2>5. PICK k \in 1 .. n : NthOf(places, k) = f
      BY <1>3, <2>4
    <2>6. dict[k] = items[chosen[f]] /\ k \in DOMAIN dict
      BY <1>5, <2>5
    <2> QED BY <2>6 DEF ToSet
  <1>10. ASSUME NEW e \in ToSet(dict)
         PROVE  \E i \in kept : e = items[chosen[i]] /\ chosen[i] \in kept
    <2>1. PICK k \in DOMAIN dict : e = dict[k]
      BY DEF ToSet
    <2>2. NthOf(places, k) \in kept /\ e = items[chosen[NthOf(places, k)]]
      BY <1>1, <1>3, <1>5, <2>1
    <2> QED BY <1>7, <2>2
  <1> QED BY <1>6, <1>8, <1>9, <1>10 DEF dict

(* Lists joined. *)
LEMMA Joined ==
  ASSUME NEW a, IsList(a), NEW b, IsList(b)
  PROVE  /\ Len(a) \in Nat /\ DOMAIN a = 1 .. Len(a)
         /\ Len(b) \in Nat /\ DOMAIN b = 1 .. Len(b)
         /\ DOMAIN (a \o b) = 1 .. Len(a) + Len(b)
         /\ \A i \in DOMAIN a : i \in DOMAIN (a \o b) /\ (a \o b)[i] = a[i]
         /\ \A i \in DOMAIN b : Len(a) + i \in DOMAIN (a \o b) /\ (a \o b)[Len(a) + i] = b[i]
         /\ \A i \in DOMAIN (a \o b) : i > Len(a) => i - Len(a) \in DOMAIN b /\ (a \o b)[i] = b[i - Len(a)]
  <1>1. a \in Seq(ToSet(a)) /\ b \in Seq(ToSet(b))
    BY DEF IsList
  <1>2. Len(a) \in Nat /\ DOMAIN a = 1 .. Len(a) /\ Len(b) \in Nat /\ DOMAIN b = 1 .. Len(b)
    BY <1>1
  <1>3. /\ DOMAIN (a \o b) = 1 .. Len(a) + Len(b)
        /\ \A i \in 1 .. Len(a) + Len(b) :
             (a \o b)[i] = IF i <= Len(a) THEN a[i] ELSE b[i - Len(a)]
    <2> DEFINE S == ToSet(a) \cup ToSet(b)
    <2>1. a \in Seq(S) /\ b \in Seq(S)
      <3>1. ToSet(a) \subseteq S /\ ToSet(b) \subseteq S
        OBVIOUS
      <3> QED BY <1>1, <3>1, SeqMonotonic
    <2>2. /\ a \o b \in Seq(S) /\ Len(a \o b) = Len(a) + Len(b)
          /\ \A i \in 1 .. Len(a) + Len(b) :
               (a \o b)[i] = IF i <= Len(a) THEN a[i] ELSE b[i - Len(a)]
      <3> HIDE DEF S
      <3> QED BY <2>1, ConcatProperties
    <2>3. DOMAIN (a \o b) = 1 .. Len(a) + Len(b)
      <3> HIDE DEF S
      <3> QED BY <2>2
    <2> QED BY <2>2, <2>3
  <1> DEFINE n == Len(a)
             m == Len(b)
             c == a \o b
  <1>4. n \in Nat /\ m \in Nat /\ DOMAIN a = 1 .. n /\ DOMAIN b = 1 .. m
    BY <1>2
  <1>5. DOMAIN c = 1 .. n + m
        /\ \A i \in 1 .. n + m : c[i] = IF i <= n THEN a[i] ELSE b[i - n]
    BY <1>3
  <1> HIDE DEF n, m, c
  <1>6. \A i \in 1 .. n : i \in 1 .. n + m /\ i <= n
    BY <1>4
  <1>7. \A i \in 1 .. m : n + i \in 1 .. n + m /\ ~(n + i <= n) /\ (n + i) - n = i
    BY <1>4
  <1>8. \A i \in 1 .. n + m : i > n => i - n \in 1 .. m /\ ~(i <= n)
    BY <1>4
  <1>9. \A i \in 1 .. m : n + i \in 1 .. n + m /\ c[n + i] = b[i]
    <2> SUFFICES ASSUME NEW i \in 1 .. m PROVE n + i \in 1 .. n + m /\ c[n + i] = b[i]
      OBVIOUS
    <2>1. n + i \in 1 .. n + m /\ ~(n + i <= n) /\ (n + i) - n = i
      BY <1>7
    <2> QED BY <1>5, <2>1
  <1>10. /\ n \in Nat /\ DOMAIN a = 1 .. n /\ m \in Nat /\ DOMAIN b = 1 .. m
         /\ DOMAIN c = 1 .. n + m
         /\ \A i \in DOMAIN a : i \in DOMAIN c /\ c[i] = a[i]
         /\ \A i \in DOMAIN b : n + i \in DOMAIN c /\ c[n + i] = b[i]
         /\ \A i \in DOMAIN c : i > n => i - n \in DOMAIN b /\ c[i] = b[i - n]
    BY <1>4, <1>5, <1>6, <1>8, <1>9
  <1> QED BY <1>10 DEF n, m, c

(* What a removal and an addition leave of a collection: each key once, of the additions    *)
(* the last of each key, nothing that was removed unless it was added, and what neither     *)
(* the removals nor the additions concern, if it was alone.                                 *)
LEMMA MergedEntries ==
  ASSUME NEW items, IsList(items), NEW upserts, IsList(upserts), NEW selectors
  PROVE  LET after == Merged(items, selectors, upserts)
             last(key) == Max({j \in 1 .. Len(upserts) : upserts[j].key = key})
         IN  /\ IsList(after)
             /\ \A k, l \in DOMAIN after : after[k].key = after[l].key => k = l
             /\ \A u \in ToSet(upserts) : upserts[last(u.key)] \in ToSet(after)
             /\ \A e \in ToSet(after) : Selects(selectors, e.key) => e \in ToSet(upserts)
             /\ \A e \in ToSet(items) :
                  (/\ Alone(items, e) /\ ~Selects(selectors, e.key)
                   /\ \A u \in ToSet(upserts) : u.key # e.key)
                  => e \in ToSet(after)
  <1> DEFINE after == Merged(items, selectors, upserts)
             last(key) == Max({j \in 1 .. Len(upserts) : upserts[j].key = key})
             all == items \o upserts
             n == Len(items)
             m == Len(upserts)
             kept == {i \in DOMAIN all : i > n \/ ~Selects(selectors, all[i].key)}
             chosen == [i \in kept |-> Max(SameKey(all, kept, i))]
  <1>1. /\ n \in Nat /\ DOMAIN items = 1 .. n
        /\ m \in Nat /\ DOMAIN upserts = 1 .. m
        /\ DOMAIN all = 1 .. n + m
        /\ \A i \in DOMAIN items : i \in DOMAIN all /\ all[i] = items[i]
        /\ \A i \in DOMAIN upserts : n + i \in DOMAIN all /\ all[n + i] = upserts[i]
        /\ \A i \in DOMAIN all : i > n => i - n \in DOMAIN upserts /\ all[i] = upserts[i - n]
    BY Joined
  <1>2. after = OnePerKey(all, kept, chosen)
    BY DEF Merged, ByKey
  <1> HIDE DEF after, all, n, m
  <1>3. kept \subseteq 1 .. n + m /\ kept \subseteq Nat /\ n + m \in Nat
    BY <1>1
  <1>4. IsFiniteSet(kept)
    <2>1. IsFiniteSet(1 .. n + m)
      BY <1>3, FS_Interval
    <2> QED BY <1>3, <2>1, FS_Subset
  <1>5. ASSUME NEW i \in kept
        PROVE  /\ chosen[i] \in SameKey(all, kept, i)
               /\ \A j \in SameKey(all, kept, i) : j <= chosen[i]
    <2> DEFINE same == SameKey(all, kept, i)
    <2>1. same \subseteq 1 .. n + m /\ i \in same
      BY <1>3 DEF SameKey
    <2>2. chosen[i] = Max(same)
      OBVIOUS
    <2> HIDE DEF same, chosen
    <2>3. chosen[i] \in same /\ \A j \in same : j <= chosen[i]
      BY <1>3, <2>1, <2>2, GreatestNumber
    <2> QED BY <2>3 DEF same
  <1>6. \A i \in kept : \A f \in SameKey(all, kept, i) : f \in kept /\ chosen[f] = chosen[i]
    BY DEF SameKey
  <1> HIDE DEF chosen
  <1> HIDE DEF kept
  <1>7. /\ IsList(after)
        /\ \A k, l \in DOMAIN after : after[k].key = after[l].key => k = l
        /\ \A i \in kept : \E f \in SameKey(all, kept, i) : all[chosen[f]] \in ToSet(after)
        /\ \A e \in ToSet(after) : \E i \in kept : e = all[chosen[i]] /\ chosen[i] \in kept
    BY ZenonT(30), <1>2, <1>3, <1>4, <1>5, OneOfEachKey DEF IsList
  <1>8. \A i \in kept : all[chosen[i]] \in ToSet(after)
    BY <1>6, <1>7
  <1>9. ASSUME NEW u \in ToSet(upserts) PROVE upserts[last(u.key)] \in ToSet(after)
    <2> DEFINE J == {j \in 1 .. m : upserts[j].key = u.key}
               l == Max(J)
    <2>1. J # {} /\ J \subseteq 1 .. m
      BY <1>1 DEF ToSet
    <2>2. last(u.key) = l
      BY DEF m
    <2>3. l \in J /\ \A j \in J : j <= l
      <3> HIDE DEF J
      <3> QED BY <1>1, <2>1, GreatestNumber
    <2> HIDE DEF l, last
    <2>4. l \in 1 .. m /\ upserts[l].key = u.key /\ n + l \in DOMAIN all /\ all[n + l] = upserts[l]
      BY <1>1, <2>3
    <2>5. n + l \in kept
      BY <1>1, <2>4 DEF kept
    <2>6. chosen[n + l] \in kept /\ all[chosen[n + l]].key = u.key /\ chosen[n + l] >= n + l
      <3>1. n + l \in SameKey(all, kept, n + l)
        BY <2>5 DEF SameKey
      <3> QED BY <1>5, <2>4, <2>5, <3>1 DEF SameKey
    <2> DEFINE c == chosen[n + l]
    <2>7. c > n /\ c \in Nat
      <3>1. l \in Nat /\ l >= 1
        BY <1>1, <2>4
      <3>2. c \in Nat /\ c >= n + l
        BY <1>3, <2>6
      <3> HIDE DEF c
      <3> QED BY <1>1, <3>1, <3>2
    <2>8. c - n \in 1 .. m /\ upserts[c - n].key = u.key /\ all[c] = upserts[c - n]
      BY <1>1, <2>6, <2>7 DEF kept
    <2>9. c - n = l
      <3>1. c - n <= l
        BY <2>3, <2>8
      <3> HIDE DEF c
      <3> QED BY <1>1, <2>3, <2>4, <2>6, <2>7, <3>1 DEF c
    <2> QED BY <1>8, <2>2, <2>5, <2>8, <2>9
  <1>10. ASSUME NEW e \in ToSet(after), Selects(selectors, e.key) PROVE e \in ToSet(upserts)
    <2>1. PICK i \in kept : e = all[chosen[i]] /\ chosen[i] \in kept
      BY <1>7
    <2>2. chosen[i] > n /\ chosen[i] \in DOMAIN all
      BY <1>10, <2>1 DEF kept
    <2> QED BY <1>1, <2>1, <2>2 DEF ToSet
  <1>11. ASSUME NEW e \in ToSet(items), Alone(items, e), ~Selects(selectors, e.key),
                \A u \in ToSet(upserts) : u.key # e.key
         PROVE  e \in ToSet(after)
    <2>1. PICK i \in DOMAIN items : e = items[i]
      BY DEF ToSet
    <2>2. i \in DOMAIN all /\ all[i] = e
      BY <1>1, <2>1
    <2>3. i \in kept
      BY <1>11, <2>2 DEF kept
    <2>4. chosen[i] \in kept /\ all[chosen[i]].key = e.key
      BY <1>5, <2>2, <2>3 DEF SameKey
    <2>5. ~(chosen[i] > n)
      <3> SUFFICES ASSUME chosen[i] > n PROVE FALSE
        OBVIOUS
      <3>1. chosen[i] - n \in DOMAIN upserts /\ all[chosen[i]] = upserts[chosen[i] - n]
        BY <1>1, <2>4 DEF kept
      <3>2. all[chosen[i]] \in ToSet(upserts)
        BY <3>1 DEF ToSet
      <3> QED BY <1>11, <2>4, <3>2
    <2>6. chosen[i] \in DOMAIN items
      <3> DEFINE c == chosen[i]
      <3>1. c \in 1 .. n + m /\ ~(c > n)
        BY <1>3, <2>4, <2>5
      <3> HIDE DEF c
      <3> QED BY <1>1, <3>1 DEF c
    <2>7. chosen[i] = i
      BY <1>1, <1>11, <2>1, <2>4, <2>6 DEF Alone
    <2> QED BY <1>8, <2>2, <2>3, <2>7
  <1>12. IsList(after)
         /\ \A k, l \in DOMAIN after : after[k].key = after[l].key => k = l
    BY <1>7
  <1> QED BY <1>9, <1>10, <1>11, <1>12 DEF after
-----------------------------------------------------------------------------
(* Types of the fields and collections. *)

(* One entry per key is a list, whatever the items are. *)
LEMMA OnePerKeyIsList ==
  ASSUME NEW items, NEW kept, kept \subseteq Nat, IsFiniteSet(kept), NEW chosen
  PROVE  IsList(OnePerKey(items, kept, chosen))
  <1> DEFINE n == Cardinality(FirstPlaces(items, kept))
             dict == OnePerKey(items, kept, chosen)
  <1>1. n \in Nat
    <2>1. FirstPlaces(items, kept) \in SUBSET kept
      BY DEF FirstPlaces
    <2> QED BY <2>1, FS_Subset, FS_CardinalityType
  <1>2. dict = [k \in 1 .. n |-> items[chosen[NthOf(FirstPlaces(items, kept), k)]]]
    BY DEF OnePerKey
  <1>3. DOMAIN dict = 1 .. n /\ dict = [k \in 1 .. n |-> dict[k]]
    BY <1>2
  <1>4. \A k \in 1 .. n : dict[k] \in ToSet(dict)
    BY <1>3 DEF ToSet
  <1> HIDE DEF n, dict
  <1>5. dict \in Seq(ToSet(dict))
    BY <1>1, <1>3, <1>4
  <1> QED BY <1>5 DEF IsList, dict

(* Of an amount as many whole units count as it has, and the rest is less than a unit. *)
LEMMA WholeUnits ==
  ASSUME NEW amount \in Int
  PROVE  /\ Whole(amount) \in Int
         /\ amount - Whole(amount) * Parts
              \in IF amount > 0 THEN 0 .. Parts - 1 ELSE 1 - Parts .. 0
  <1>1. Parts \in Nat \ {0}
    BY RevisionAssumption
  <1>2. ASSUME NEW a \in Nat
        PROVE  a \div Parts \in Nat /\ a - (a \div Parts) * Parts \in 0 .. Parts - 1
    <2> DEFINE q == a \div Parts
    <2>1. q \in Nat /\ Parts * q <= a /\ a < Parts * (q + 1)
      BY <1>1
    <2> HIDE DEF q
    <2>2. Parts * (q + 1) = q * Parts + Parts /\ Parts * q = q * Parts /\ q * Parts \in Int
      BY <1>1, <2>1
    <2>3. a - q * Parts \in 0 .. Parts - 1
      BY <1>1, <2>1, <2>2
    <2> QED BY <2>1, <2>3 DEF q
  <1>3. CASE amount >= 0
    <2> DEFINE w == amount \div Parts
    <2>1. w \in Nat /\ amount - w * Parts \in 0 .. Parts - 1
      BY <1>2, <1>3
    <2>2. Whole(amount) = w
      BY <1>3 DEF Whole
    <2> HIDE DEF w
    <2>3. amount = 0 => w = 0
      <3>1. w >= 1 => w * Parts >= 1 * Parts
        BY <1>1, <2>1
      <3> QED BY <1>1, <2>1, <3>1
    <2> QED BY <1>1, <1>3, <2>1, <2>2, <2>3
  <1>4. CASE amount < 0
    <2> DEFINE w == (-amount) \div Parts
    <2>1. w \in Nat /\ (-amount) - w * Parts \in 0 .. Parts - 1
      BY <1>2, <1>4
    <2>2. Whole(amount) = -w
      BY <1>4 DEF Whole
    <2> HIDE DEF w
    <2>3. (-w) * Parts = -(w * Parts) /\ w * Parts \in Int
      BY <1>1, <2>1
    <2> QED BY <1>1, <1>4, <2>1, <2>2, <2>3
  <1> QED BY <1>3, <1>4

(* Number fields stay numbers when the fields of a patch are written. *)
LEMMA OperatedTyped ==
  ASSUME NEW r, IsRequest(r), NEW p, IsPatch(p)
  PROVE  IsRequest(Operated(r, p))
  <1>1. DOMAIN Operated(r, p) = DOMAIN NoRequest
    BY DEF Operated, IsRequest
  <1>2. ASSUME NEW f \in Fields \ {"destination"} PROVE Operated(r, p)[f] \in Int
    <2>1. f \in DOMAIN r
      BY DEF IsRequest, Fields, NoRequest
    <2>2. CASE f \notin Touched(p)
      BY <2>1, <2>2 DEF Operated, IsRequest
    <2>3. CASE f \in Touched(p)
      <3> DEFINE op == CHOOSE op \in p.ops : op.field = f
      <3>1. op \in p.ops /\ op.field = f
        BY <2>3 DEF Touched
      <3>2. IsOperation(op)
        BY <3>1 DEF IsPatch
      <3>3. r[op.field] \in Int /\ op.value \in Int /\ Cleared(op.field) \in Int
        BY <3>1, <3>2 DEF IsRequest, IsOperation, Cleared, None
      <3>4. NewValue(r, op) \in Int
        <4>1. r.days \in Int /\ Whole(op.value) \in Int
          BY <3>3, WholeUnits DEF IsRequest, Fields
        <4> QED BY <3>2, <3>3, <4>1 DEF NewValue, IsOperation
      <3>5. Operated(r, p)[f] = NewValue(r, op)
        BY <2>1, <2>3 DEF Operated
      <3> QED BY <3>4, <3>5
    <2> QED BY <2>2, <2>3
  <1>3. ASSUME NEW c \in Collections PROVE Operated(r, p)[c] = r[c]
    <2>1. c \in DOMAIN r /\ c \notin Touched(p)
      BY DEF IsRequest, NoRequest, Collections, Touched, IsPatch, IsOperation, Fields
    <2> QED BY <2>1 DEF Operated
  <1> QED BY <1>1, <1>2, <1>3 DEF IsRequest

(* The dates of a request are derived from its other dates, and nothing else is touched. *)
LEMMA RedatedTyped ==
  ASSUME NEW r, IsRequest(r), NEW touched
  PROVE  /\ IsRequest(Redated(r, touched))
         /\ \A f \in DOMAIN r \ {"end", "days"} : Redated(r, touched)[f] = r[f]
  <1>1. {r.start, r.end, r.days, None} \subseteq Int
    BY DEF IsRequest, Fields, None
  <1>2. LastDay(r) \in Int /\ r.end - r.start + 1 \in Int
    BY <1>1 DEF LastDay
  <1>3. ASSUME NEW e \in Int
        PROVE  IsRequest([r EXCEPT !.end = e]) /\ IsRequest([r EXCEPT !.days = e])
    <2>1. DOMAIN [r EXCEPT !.end = e] = DOMAIN r /\ DOMAIN [r EXCEPT !.days = e] = DOMAIN r
      OBVIOUS
    <2>2. \A f \in DOMAIN r : /\ [r EXCEPT !.end = e][f] \in {e, r[f]}
                             /\ [r EXCEPT !.days = e][f] \in {e, r[f]}
      OBVIOUS
    <2>3. Fields \cup Collections \subseteq DOMAIN r /\ Collections \cap {"end", "days"} = {}
      BY DEF IsRequest, Fields, Collections, NoRequest
    <2>4. \A c \in Collections : [r EXCEPT !.end = e][c] = r[c] /\ [r EXCEPT !.days = e][c] = r[c]
      BY <2>3
    <2> QED BY <2>1, <2>2, <2>3, <2>4 DEF IsRequest
  <1>4. \/ Redated(r, touched) = r
        \/ \E e \in Int : Redated(r, touched) = [r EXCEPT !.end = e]
        \/ \E e \in Int : Redated(r, touched) = [r EXCEPT !.days = e]
    BY <1>1, <1>2 DEF Redated
  <1> QED BY <1>3, <1>4

(* The heart of the matter: without a clash the derived dates agree. *)
LEMMA RedatedAgrees ==
  ASSUME NEW r, IsRequest(r), NEW touched, ~DatesClash(r, touched),
         Redated(r, touched).days = None \/ Redated(r, touched).days >= 1
  PROVE  DateIssues(Redated(r, touched)) = {}
  <1> DEFINE d == Redated(r, touched)
  <1>1. r.start \in Int /\ r.end \in Int /\ r.days \in Int /\ None \in Int
    BY DEF IsRequest, Fields, None
  <1>2. {"start", "end", "days"} \subseteq DOMAIN r
    BY DEF IsRequest, NoRequest
  <1>3. d.start # None /\ d.end # None
        => d.end >= d.start /\ (d.days # None => d.end = LastDay(d))
    <2>1. CASE ~Datable(r)
      BY <2>1, <1>1, <1>2 DEF Redated
    <2>2. CASE Datable(r) /\ "end" \notin touched
      <3>1. d = [r EXCEPT !.end = LastDay(r)]
        BY <2>2 DEF Redated
      <3>2. d.start = r.start /\ d.days = r.days /\ d.end = r.start + r.days - 1
        BY <3>1, <1>2 DEF LastDay
      <3>3. r.days >= 1
        BY <2>2, <3>2 DEF Datable
      <3> QED BY <3>2, <3>3, <1>1 DEF LastDay
    <2>3. CASE Datable(r) /\ "end" \in touched
      <3>1. CASE r.end = None \/ "days" \in touched
        <4>1. d = r
          BY <2>3, <3>1 DEF Redated
        <4>2. r.end # None => r.end = LastDay(r)
          BY <2>3, <3>1 DEF DatesClash
        <4>3. r.days >= 1
          BY <4>1, <2>3 DEF Datable
        <4> QED BY <4>1, <4>2, <4>3, <1>1 DEF LastDay
      <3>2. CASE r.end # None /\ "days" \notin touched
        <4>1. d = [r EXCEPT !.days = r.end - r.start + 1]
          BY <2>3, <3>2 DEF Redated
        <4>2. ~(r.end < r.start)
          BY <2>3, <3>2 DEF DatesClash
        <4>3. d.start = r.start /\ d.end = r.end /\ d.days = r.end - r.start + 1
          BY <4>1, <1>2
        <4> QED BY <4>2, <4>3, <1>1 DEF LastDay
      <3> QED BY <3>1, <3>2
    <2> QED BY <2>1, <2>2, <2>3
  <1>4. d.start \in Int /\ d.end \in Int /\ d.days \in Int
    BY RedatedTyped DEF IsRequest, Fields
  <1> HIDE DEF d
  <1>5. DateIssues(d) = {}
    BY <1>3, <1>4, <1>1 DEF DateIssues, If
  <1> QED BY <1>5 DEF d
-----------------------------------------------------------------------------
(* What a revision leaves. *)

(* The other parts of a revised request. *)
LEMMA RevisedParts ==
  ASSUME NEW r, IsRequest(r), NEW p
  PROVE  /\ \A c \in Collections : Revised(r, p)[c] = Merged(r[c], p.removals[c], p.upserts[c])
         /\ {u.text : u \in r.unmapped} \subseteq {u.text : u \in Revised(r, p).unmapped}
  <1>1. /\ Collections \cup {"unmapped"} \subseteq DOMAIN r
        /\ Collections \cap (Fields \cup {"unmapped", "issues"}) = {}
        /\ "unmapped" \notin Fields \cup Collections \cup {"issues"}
    BY DEF IsRequest, Fields, Collections, NoRequest
  <1>2. ASSUME NEW c \in Collections
        PROVE  Revised(r, p)[c] = Merged(r[c], p.removals[c], p.upserts[c])
    <2>1. c \in DOMAIN r /\ c \notin Fields /\ c # "unmapped" /\ c # "issues"
      BY <1>1
    <2> QED BY <2>1 DEF Revised
  <1>3. Revised(r, p).unmapped = WithTexts(r.unmapped, p.unmapped)
    BY <1>1 DEF Revised
  <1>4. \A u \in r.unmapped : \E w \in WithTexts(r.unmapped, p.unmapped) : w.text = u.text
    BY DEF WithTexts
  <1> QED BY <1>2, <1>3, <1>4

(* A request after a revision that was not refused. *)
LEMMA RevisedAgrees ==
  ASSUME NEW r, IsRequest(r), NEW p, IsPatch(p), ~Fails(r, p)
  PROVE  IsRequest(Revised(r, p)) /\ DateIssues(Revised(r, p)) = {}
  <1> DEFINE o == Operated(r, p)
             d == Redated(o, Touched(p))
             v == Revised(r, p)
  <1>1. IsRequest(o) /\ IsRequest(d)
    BY OperatedTyped, RedatedTyped
  <1>2. Fields \subseteq DOMAIN r /\ Fields \cap (Collections \cup {"unmapped", "issues"}) = {}
    BY DEF IsRequest, Fields, Collections, NoRequest
  <1>3. DOMAIN v = DOMAIN r
    BY DEF Revised
  <1>4. ASSUME NEW f \in Fields PROVE v[f] = d[f]
    BY <1>2 DEF Revised
  <1>5. IsRequest(v)
    <2>1. ASSUME NEW c \in Collections PROVE IsList(v[c])
      <3>1. IsList(r[c]) /\ IsList(p.upserts[c])
        BY DEF IsRequest, IsPatch
      <3>2. v[c] = Merged(r[c], p.removals[c], p.upserts[c])
        BY RevisedParts
      <3> QED BY <3>1, <3>2, MergedEntries
    <2>2. \A f \in Fields \ {"destination"} : v[f] \in Int
      BY <1>1, <1>4 DEF IsRequest
    <2> HIDE DEF v
    <2> QED BY <1>3, <2>1, <2>2 DEF IsRequest
  <1>6. v.start = d.start /\ v.end = d.end /\ v.days = d.days
    BY <1>4 DEF Fields
  <1>7. d.days = None \/ d.days >= 1
    BY <1>6, RevisionAssumption DEF Fails, Acceptable
  <1>8. DateIssues(d) = {}
    BY <1>1, <1>7, RedatedAgrees DEF Fails
  <1>9. DateIssues(v) = DateIssues(d)
    BY <1>6 DEF DateIssues, LastDay
  <1> QED BY <1>5, <1>8, <1>9

(* The new value of a field is what a valid operation says of it. *)
LEMMA NewValueObeys ==
  ASSUME NEW r, IsRequest(r), NEW op, IsOperation(op), OperationValid(op)
  PROVE  Obeyed(op, r[op.field], NewValue(r, op))
  <1>1. CASE op.kind \in {"clear", "set"}
    BY <1>1 DEF NewValue, Obeyed
  <1>2. CASE op.kind = "increment" /\ op.field = "budget"
    BY <1>2 DEF NewValue, Obeyed
  <1>3. CASE op.kind = "increment" /\ op.field = "days"
    <2> DEFINE w == Whole(op.value)
    <2>1. op.value \in Int /\ r.days \in Int
      BY <1>3 DEF IsOperation, IsRequest, Fields
    <2>2. w \in Int /\ op.value - w * Parts
                      \in IF op.value > 0 THEN 0 .. Parts - 1 ELSE 1 - Parts .. 0
      BY <2>1, WholeUnits
    <2>3. NewValue(r, op) = r.days + w
      BY <1>3 DEF NewValue
    <2> HIDE DEF w
    <2>4. NewValue(r, op) - r.days = w
      BY <2>1, <2>2, <2>3
    <2> QED BY <1>3, <2>2, <2>4 DEF Obeyed
  <1> QED BY <1>1, <1>2, <1>3 DEF IsOperation, OperationValid

(* What the operations of a patch say is in the revised request. *)
LEMMA OperationsAreDone ==
  ASSUME NEW r, IsRequest(r), NEW p, IsPatch(p), PatchValid(p), NEW op \in p.ops
  PROVE  \/ Revised(r, p)[op.field] = NewValue(r, op)
         \/ op.field = "end" /\ ~Datable(Revised(r, p))
  <1> DEFINE o == Operated(r, p)
             touched == Touched(p)
             d == Redated(o, touched)
             v == Revised(r, p)
             f == op.field
  <1>1. f \in Fields /\ f \in touched
    BY DEF IsPatch, IsOperation, Touched
  <1>2. DOMAIN o = DOMAIN r /\ Fields \subseteq DOMAIN r
        /\ Fields \cap (Collections \cup {"unmapped", "issues"}) = {}
    BY DEF Operated, IsRequest, Fields, Collections, NoRequest
  <1>3. o[f] = NewValue(r, op)
    <2>1. (CHOOSE x \in p.ops : x.field = f) = op
      BY DEF PatchValid
    <2>2. f \in DOMAIN r
      BY <1>1, <1>2
    <2> HIDE DEF f
    <2> QED BY <1>1, <2>1, <2>2 DEF Operated
  <1>4. \A x \in Fields : v[x] = d[x]
    BY <1>2 DEF Revised
  <1>5. \A x \in DOMAIN o \ {"end", "days"} : d[x] = o[x]
    BY DEF Redated
  <1>6. {"start", "end", "days"} \subseteq DOMAIN o
    BY <1>2 DEF Fields
  <1> HIDE DEF f, touched, o, d, v
  <1>7. CASE f \notin {"end", "days"}
    <2>1. v[f] = d[f] /\ d[f] = o[f]
      BY <1>1, <1>2, <1>4, <1>5, <1>7
    <2> QED BY <1>3, <2>1 DEF v, f
  <1>8. CASE f = "days"
    <2>1. d.days = o.days
      BY <1>1, <1>6, <1>8 DEF d, Redated
    <2>2. v.days = o.days
      BY <1>1, <1>4, <1>8, <2>1
    <2> QED BY <1>3, <1>8, <2>2 DEF v, f
  <1>9. CASE f = "end"
    <2>1. CASE Datable(o)
      <3>1. d.end = o.end
        BY <1>1, <1>6, <1>9, <2>1 DEF d, Redated
      <3>2. v.end = o.end
        BY <1>1, <1>4, <1>9, <3>1
      <3> QED BY <1>3, <1>9, <3>2 DEF v, f
    <2>2. CASE ~Datable(o)
      <3>1. d.start = o.start /\ d.days = o.days
        BY <1>6, <2>2 DEF d, Redated
      <3>2. v.start = d.start /\ v.days = d.days
        BY <1>4 DEF Fields
      <3>3. ~Datable(v)
        BY <2>2, <3>1, <3>2 DEF Datable
      <3> QED BY <1>9, <3>3 DEF v, f
    <2> QED BY <2>1, <2>2
  <1> QED BY <1>7, <1>8, <1>9

(* What no operation says stays, but for the date or the number of days that follows. *)
LEMMA FieldsStay ==
  ASSUME NEW r, IsRequest(r), Datable(r), DateIssues(r) = {}, NEW p, IsPatch(p),
         NEW f \in Fields \ Touched(p),
         f = "days" => "end" \notin Touched(p),
         f = "end" => Touched(p) \cap {"start", "days"} = {} /\ r.end # None
  PROVE  Revised(r, p)[f] = r[f]
  <1> DEFINE o == Operated(r, p)
             touched == Touched(p)
             d == Redated(o, touched)
             v == Revised(r, p)
  <1>1. DOMAIN o = DOMAIN r /\ Fields \subseteq DOMAIN r
        /\ Fields \cap (Collections \cup {"unmapped", "issues"}) = {}
    BY DEF Operated, IsRequest, Fields, Collections, NoRequest
  <1>2. \A x \in Fields : v[x] = d[x]
    BY <1>1 DEF Revised
  <1>3. \A x \in Fields \ touched : o[x] = r[x]
    BY <1>1 DEF Operated
  <1>4. \A x \in DOMAIN o \ {"end", "days"} : d[x] = o[x]
    BY DEF Redated
  <1>5. {"start", "end", "days"} \subseteq DOMAIN o /\ {"start", "end", "days"} \subseteq Fields
    BY <1>1 DEF Fields
  <1> HIDE DEF touched, o, d, v
  <1>6. CASE f \notin {"end", "days"}
    BY <1>1, <1>2, <1>3, <1>4, <1>6 DEF touched, v
  <1>7. CASE f = "days"
    <2>1. "end" \notin touched
      BY <1>7 DEF touched
    <2>2. d.days = o.days
      BY <1>5, <2>1 DEF d, Redated
    <2> QED BY <1>2, <1>3, <1>5, <1>7, <2>2 DEF touched, v
  <1>8. CASE f = "end"
    <2>1. "end" \notin touched /\ "start" \notin touched /\ "days" \notin touched /\ r.end # None
      BY <1>8 DEF touched
    <2>2. o.start = r.start /\ o.days = r.days
      BY <1>3, <1>5, <2>1
    <2>3. Datable(o) /\ LastDay(o) = LastDay(r)
      BY <2>2 DEF Datable, LastDay
    <2>4. d.end = LastDay(r)
      BY <1>5, <2>1, <2>3 DEF d, Redated
    <2>5. r.end = LastDay(r)
      BY <2>1 DEF DateIssues, If, Datable
    <2> QED BY <1>2, <1>5, <1>8, <2>4, <2>5 DEF v
  <1> QED BY <1>6, <1>7, <1>8

(* The report names whatever has changed. *)
LEMMA ChangesAreReported ==
  ASSUME NEW r, IsRequest(r), NEW p, IsPatch(p),
         NEW f \in DOMAIN NoRequest \ {"issues"}, Revised(r, p)[f] # r[f]
  PROVE  f \in ChangedFields(r, p)
  <1> DEFINE o == Operated(r, p)
             d == Redated(o, Touched(p))
  <1>1. CASE f \in Collections \cup {"unmapped"}
    BY <1>1 DEF ChangedFields
  <1>2. CASE f \in Touched(p)
    BY <1>2 DEF ChangedFields
  <1>3. CASE f \in Fields \ Touched(p)
    <2>1. f \in DOMAIN r /\ f \notin Collections \cup {"unmapped", "issues"}
      BY <1>3 DEF IsRequest, Fields, Collections
    <2>2. Revised(r, p)[f] = d[f]
      BY <2>1, <1>3 DEF Revised
    <2>3. o[f] = r[f] /\ f \in DOMAIN o
      BY <2>1, <1>3 DEF Operated
    <2>4. f \in {"end", "days"}
      BY <2>2, <2>3, OperatedTyped, RedatedTyped
    <2> QED BY <2>2, <2>3, <2>4 DEF ChangedFields
  <1> QED BY <1>1, <1>2, <1>3 DEF Fields, Collections, NoRequest

LEMMA ReportIsTyped ==
  ASSUME NEW r, NEW p, IsPatch(p)
  PROVE  ChangedFields(r, p) \subseteq DOMAIN NoRequest
  BY DEF ChangedFields, Touched, IsPatch, IsOperation, Fields, Collections, NoRequest, If
-----------------------------------------------------------------------------
(* What extraction yields. *)

LEMMA CompletedTyped ==
  ASSUME NEW r, IsRequest(r)
  PROVE  IsRequest(WithDefaults(Completed(r)))
  <1> DEFINE c == Completed(r)
             w == WithDefaults(c)
  <1>1. Fields \subseteq DOMAIN r /\ None \in Int
    BY DEF IsRequest, Fields, NoRequest, None
  <1>2. r.start \in Int /\ r.end \in Int /\ r.days \in Int
    BY DEF IsRequest, Fields
  <1>3. \E n \in Int : \E e \in Int : \E b \in Int :
          c = [r EXCEPT !.start = b, !.end = e, !.days = n]
    <2> DEFINE n == IF /\ r.days = None /\ r.start # None /\ r.end # None /\ r.end >= r.start
                    THEN r.end - r.start + 1 ELSE r.days
               e == IF r.start # None /\ n # None /\ r.end = None THEN r.start + n - 1 ELSE r.end
               b == IF e # None /\ n # None /\ r.start = None THEN e - n + 1 ELSE r.start
    <2>1. n \in Int
      BY <1>2
    <2>2. e \in Int
      <3> HIDE DEF n
      <3> QED BY <1>2, <2>1
    <2>3. b \in Int
      <3> HIDE DEF n, e
      <3> QED BY <1>2, <2>1, <2>2
    <2>4. c = [r EXCEPT !.start = b, !.end = e, !.days = n]
      BY DEF Completed
    <2> HIDE DEF n, e, b
    <2> QED BY <2>1, <2>2, <2>3, <2>4
  <1>4. IsRequest(c)
    <2> PICK n \in Int, e \in Int, b \in Int : c = [r EXCEPT !.start = b, !.end = e, !.days = n]
      BY <1>3
    <2> HIDE DEF c
    <2>1. DOMAIN c = DOMAIN r /\ \A f \in DOMAIN r : c[f] \in {n, e, b, r[f]}
      OBVIOUS
    <2>2. \A f \in Fields \ {"destination"} : c[f] \in Int
      BY <1>1, <2>1 DEF IsRequest
    <2>3. \A x \in Collections : x \in DOMAIN r /\ x # "start" /\ x # "end" /\ x # "days"
      BY DEF IsRequest, Collections, NoRequest
    <2>4. \A x \in Collections : c[x] = r[x]
      BY <2>3
    <2> QED BY <2>1, <2>2, <2>4 DEF IsRequest
  <1>5. c.people \in Int /\ c.rooms \in Int
    BY <1>4 DEF IsRequest, Fields
  <1> HIDE DEF c
  <1>6. \E n \in Int : \E m \in Int : w = [c EXCEPT !.people = n, !.rooms = m]
    <2> DEFINE n == IF c.people = None THEN 1 ELSE c.people
               m == IF c.rooms = None /\ n = 1 THEN 1 ELSE c.rooms
    <2>1. n \in Int /\ m \in Int
      BY <1>5
    <2>2. w = [c EXCEPT !.people = n, !.rooms = m]
      BY DEF WithDefaults
    <2> HIDE DEF n, m
    <2> QED BY <2>1, <2>2
  <1>7. IsRequest(w)
    <2> PICK n \in Int, m \in Int : w = [c EXCEPT !.people = n, !.rooms = m]
      BY <1>6
    <2> HIDE DEF w
    <2>1. DOMAIN w = DOMAIN c /\ \A f \in DOMAIN c : w[f] \in {n, m, c[f]}
      OBVIOUS
    <2>2. Fields \subseteq DOMAIN c
      BY <1>4 DEF IsRequest, Fields, NoRequest
    <2>3. \A f \in Fields \ {"destination"} : w[f] \in Int
      BY <1>4, <2>1, <2>2 DEF IsRequest
    <2>4. \A x \in Collections : x \in DOMAIN c /\ x # "people" /\ x # "rooms"
      BY <1>4 DEF IsRequest, Collections, NoRequest
    <2>5. \A x \in Collections : w[x] = c[x]
      BY <2>4
    <2> QED BY <1>4, <2>1, <2>3, <2>5 DEF IsRequest
  <1> QED BY <1>7 DEF c

(* Of the signals with one key one stays. *)
LEMMA StrongestTyped ==
  ASSUME NEW signals, IsList(signals)
  PROVE  IsList(Strongest(signals))
  <1>1. signals \in Seq(ToSet(signals))
    BY DEF IsList
  <1>2. Len(signals) \in Nat /\ DOMAIN signals = 1 .. Len(signals)
    BY <1>1
  <1>3. IsFiniteSet(1 .. Len(signals))
    BY <1>2, FS_Interval
  <1>4. DOMAIN signals \subseteq Nat /\ IsFiniteSet(DOMAIN signals)
    BY <1>2, <1>3
  <1> QED BY <1>4, OnePerKeyIsList DEF Strongest

LEMMA DraftTyped ==
  ASSUME NEW d \in Drafts
  PROVE  IsRequest(FromDraft(d))
  <1>1. IsRequest(WithDefaults(Completed(d)))
    BY CompletedTyped, InputAssumption
  <1> DEFINE r == WithDefaults(Completed(d))
  <1>2. FromDraft(d) = [r EXCEPT !.preference_signals = Strongest(@)]
    BY DEF FromDraft
  <1> HIDE DEF r
  <1>3. DOMAIN FromDraft(d) = DOMAIN r /\ \A f \in Fields : FromDraft(d)[f] = r[f]
    BY <1>1, <1>2 DEF r, Fields, IsRequest, NoRequest
  <1>4. ASSUME NEW c \in Collections PROVE IsList(FromDraft(d)[c])
    <2>1. IsList(r[c]) /\ c \in DOMAIN r
      BY <1>1 DEF r, IsRequest, Collections, NoRequest
    <2>2. CASE c = "preference_signals"
      <3>1. FromDraft(d)[c] = Strongest(r[c])
        BY <1>2, <2>1, <2>2
      <3> QED BY <2>1, <3>1, StrongestTyped
    <2>3. CASE c # "preference_signals"
      <3>1. FromDraft(d)[c] = r[c]
        BY <1>2, <2>1, <2>3
      <3> QED BY <2>1, <3>1
    <2> QED BY <2>2, <2>3
  <1> QED BY <1>1, <1>3, <1>4 DEF r, IsRequest

LEMMA TextTyped ==
  ASSUME NEW t \in Texts
  PROVE  IsRequest(FromText(t))
  <1> DEFINE found == [t.found EXCEPT !.start = DatesOf(t)[1], !.end = DatesOf(t)[2]]
  <1>1. IsText(t)
    BY InputAssumption
  <1>2. t.departure \in Int /\ t.return \in Int /\ t.single \in Int /\ t.relative \in Int
        /\ t.found.days \in Int /\ None \in Int
    BY <1>1 DEF IsText, IsRequest, Fields, None
  <1>3. t.range # <<>> => t.range[1] \in Int /\ t.range[2] \in Int
    BY <1>1 DEF IsText
  <1>4. DatesOf(t)[1] \in Int /\ DatesOf(t)[2] \in Int
    <2>1. CASE t.range # <<>>
      BY <1>2, <1>3, <2>1 DEF DatesOf
    <2>2. CASE t.range = <<>> /\ t.departure # None
      BY <1>2, <2>2 DEF DatesOf
    <2>3. CASE t.range = <<>> /\ t.departure = None /\ t.return # None
      BY <1>2, <2>3 DEF DatesOf
    <2>4. CASE t.range = <<>> /\ t.departure = None /\ t.return = None
      BY <1>2, <2>4 DEF DatesOf
    <2> QED BY <2>1, <2>2, <2>3, <2>4
  <1>5. DOMAIN found = DOMAIN t.found
        /\ \A f \in Fields : found[f] \in {t.found[f], DatesOf(t)[1], DatesOf(t)[2]}
    BY <1>1 DEF IsText, IsRequest, Fields, NoRequest
  <1>6. IsRequest(found)
    <2>1. \A f \in Fields \ {"destination"} : found[f] \in Int
      BY <1>1, <1>4, <1>5 DEF IsText, IsRequest
    <2>2. \A c \in Collections : c \in DOMAIN t.found /\ c # "start" /\ c # "end"
      BY <1>1 DEF IsText, IsRequest, Collections, NoRequest
    <2>3. \A c \in Collections : found[c] = t.found[c]
      BY <2>2
    <2> HIDE DEF found
    <2> QED BY <1>1, <1>5, <2>1, <2>3 DEF IsText, IsRequest
  <1> QED BY <1>6, CompletedTyped DEF FromText
-----------------------------------------------------------------------------
(* The inductive invariant. A version is free until the next proposal is made; a request   *)
(* that is planned has passed the check, and so has the one a plan was made from; a        *)
(* revision was applied only after the extraction, and it was that of the plan.            *)

Shape == IsRequest(request) /\ IsPatch(plan.patch)

VersionIsFree ==
  phase \in {"input_extract", "missing_info_check", "safety_check", "revision_analyze",
             "apply_revision"} => version < MaxVersion

Checked ==
  phase \in {"safety_check", "decision_gate", "revision_analyze", "apply_revision"}
    => CanContinue(request)

PlanIsValid ==
  /\ plan.status = "ready" => PatchValid(plan.patch)
  /\ phase = "apply_revision" => plan.status = "ready"

AppliedIsPlan ==
  Applied => /\ IsRequest(plan.base) /\ CanContinue(plan.base) /\ PatchValid(plan.patch)
             /\ request = Revised(plan.base, plan.patch)

IInv ==
  /\ TypeOK /\ Shape /\ VersionIsFree /\ Checked /\ PlanIsValid /\ AppliedIsPlan
  /\ phase = "input_extract" => ~Applied
  /\ Applied => DateIssues(request) = {}
  /\ ReportIsComplete

(* What is there before anything has been said. *)
LEMMA EmptyInputs == IsRequest(NoRequest) /\ Acceptable(NoRequest) /\ IsPatch(NoPatch)
  <1>1. IsList(<<>>)
    BY EmptySeq DEF IsList
  <1>2. \A c \in Collections : NoRequest[c] = <<>> /\ NoPatch.upserts[c] = <<>>
    BY DEF Collections, NoRequest, NoPatch, NoItems
  <1>3. \A f \in Fields \ {"destination"} : NoRequest[f] \in Int
    BY DEF Fields, NoRequest, None
  <1>4. IsRequest(NoRequest)
    BY <1>1, <1>2, <1>3 DEF IsRequest
  <1>5. IsPatch(NoPatch)
    BY <1>1, <1>2 DEF IsPatch, NoPatch
  <1> QED BY <1>4, <1>5, RevisionAssumption DEF NoRequest, None, Acceptable

LEMMA InitInv == Init => IInv
  <1> SUFFICES ASSUME Init PROVE IInv
    OBVIOUS
  <1>1. IsRequest(NoRequest) /\ Acceptable(NoRequest) /\ IsPatch(NoPatch)
    BY EmptyInputs
  <1> QED
    BY <1>1, RevisionAssumption
    DEF Init, IInv, TypeOK, Shape, VersionIsFree, Applied, ReportIsComplete, NoPlan, NoReport,
        NodeName, Checked, PlanIsValid, AppliedIsPlan

(* The steps that leave the request and its report alone. *)
LEMMA QuietStep ==
  ASSUME IInv, UNCHANGED <<request, plan, report>>, phase' # "input_extract",
         phase' \in NodeName, version' \in 0 .. MaxVersion, attempt' \in 0 .. MaxAttempts,
         VersionIsFree', Checked', phase' # "apply_revision"
  PROVE  IInv'
  <1>1. AppliedIsPlan' /\ PlanIsValid'
    BY DEF IInv, AppliedIsPlan, PlanIsValid, Applied
  <1> QED BY <1>1 DEF IInv, TypeOK, Shape, Applied, ReportIsComplete, DateIssues, LastDay

(* The steps after which no revision counts as applied. *)
LEMMA UnappliedStep ==
  ASSUME IInv, UNCHANGED <<request, version>>, phase' \in NodeName, phase' # "input_extract",
         attempt' \in 0 .. MaxAttempts, IsPatch(plan'.patch),
         plan'.status \in {"none", "ready", "clarification_required", "failed"},
         report'.status \in {"analyzed", "failed"}, report'.changed = {}, VersionIsFree',
         Checked', PlanIsValid'
  PROVE  IInv'
  BY DEF IInv, TypeOK, Shape, Applied, AppliedIsPlan, ReportIsComplete, NoRequest

LEMMA ExtractedStep ==
  ASSUME IInv, NEW r, IsRequest(r), Acceptable(r), NEW said, Extracted(r, said)
  PROVE  IInv'
  <1>1. request' = r /\ phase' = "missing_info_check" /\ ~Applied'
    BY DEF Extracted, IInv, Applied
  <1>2. TypeOK' /\ Shape' /\ VersionIsFree'
    BY <1>1 DEF Extracted, IInv, TypeOK, Shape, VersionIsFree, NodeName, IsRequest
  <1>3. Checked' /\ PlanIsValid' /\ AppliedIsPlan'
    BY <1>1 DEF Extracted, IInv, Checked, PlanIsValid, AppliedIsPlan
  <1> QED
    BY <1>1, <1>2, <1>3 DEF IInv, ReportIsComplete

LEMMA AppliedStep ==
  ASSUME IInv, ApplyRevision, ~Outdated, ~Fails(request, plan.patch)
  PROVE  IInv'
  <1> DEFINE p == plan.patch
  <1>1. /\ request' = Revised(request, p) /\ phase' = "missing_info_check"
        /\ report' = [status |-> "applied", changed |-> ChangedFields(request, p)]
        /\ UNCHANGED <<version, attempt, plan>> /\ plan.base = request
        /\ phase = "apply_revision"
    BY DEF ApplyRevision, RevisionApplies, Outdated
  <1>2. IsRequest(request) /\ IsPatch(p)
    BY DEF IInv, Shape
  <1>3. IsRequest(request') /\ DateIssues(request') = {}
    BY <1>1, <1>2, RevisedAgrees
  <1>4. Acceptable(request')
    BY <1>1 DEF Fails
  <1>5. report'.changed \subseteq DOMAIN NoRequest
    BY <1>1, <1>2, ReportIsTyped
  <1>6. TypeOK' /\ Shape' /\ VersionIsFree'
    BY <1>1, <1>2, <1>3, <1>4, <1>5
    DEF IInv, TypeOK, Shape, VersionIsFree, NodeName, IsRequest
  <1>7. DOMAIN request' = DOMAIN NoRequest
    BY <1>3 DEF IsRequest
  <1>8. ReportIsComplete'
    BY <1>1, <1>2, <1>7, ChangesAreReported DEF ReportIsComplete
  <1>9. (DateIssues(request) = {})'
    BY <1>3 DEF DateIssues, LastDay
  <1>10. CanContinue(request) /\ PatchValid(p)
    BY <1>1 DEF IInv, Checked, PlanIsValid
  <1>11. Checked' /\ PlanIsValid' /\ AppliedIsPlan'
    BY <1>1, <1>2, <1>10 DEF Checked, PlanIsValid, AppliedIsPlan
  <1> QED BY <1>1, <1>6, <1>8, <1>9, <1>11 DEF IInv

LEMMA NextInv == IInv /\ [Next]_vars => IInv'
  <1> SUFFICES ASSUME IInv, [Next]_vars PROVE IInv'
    OBVIOUS
  <1> USE DEF NodeName
  <1>0. /\ phase \in NodeName /\ version \in 0 .. MaxVersion /\ attempt \in 0 .. MaxAttempts
        /\ MaxVersion \in Nat /\ MaxAttempts \in Nat
        /\ plan.status \in {"none", "ready", "clarification_required", "failed"}
    BY RevisionAssumption DEF IInv, TypeOK
  <1>1. ASSUME NEW d \in Drafts, ExtractByModel(d) PROVE IInv'
    BY <1>1, DraftTyped, ExtractedStep DEF ExtractByModel
  <1>2. ASSUME NEW t \in Texts, ExtractByRules(t) PROVE IInv'
    BY <1>2, TextTyped, ExtractedStep DEF ExtractByRules
  <1>3. CASE ExtractFails
    <2>1. IsRequest(NoRequest) /\ Acceptable(NoRequest)
      BY EmptyInputs
    <2> QED BY <1>3, <2>1, ExtractedStep DEF ExtractFails
  <1>4. CASE MissingInfoCheck
    BY <1>0, <1>4, QuietStep DEF MissingInfoCheck, IInv, VersionIsFree, Checked
  <1>5. CASE PlanTrip
    BY <1>0, <1>5, QuietStep DEF PlanTrip, IInv, VersionIsFree, Checked
  <1>6. CASE RequestChanges
    BY <1>0, <1>6, QuietStep DEF RequestChanges, IInv, VersionIsFree, Checked
  <1>7. ASSUME NEW p \in Patches, AnalyzeByModel(p) PROVE IInv'
    <2>1. IsPatch(p)
      BY InputAssumption
    <2>2. PlanIsValid' /\ Checked'
      BY <1>7 DEF AnalyzeByModel, Usable, Analyzed, PlanIsValid, Checked, IInv
    <2> QED
      BY <1>0, <1>7, <2>1, <2>2, UnappliedStep DEF AnalyzeByModel, Analyzed, IInv, VersionIsFree
  <1>8. CASE ModelFails
    BY <1>0, <1>8, QuietStep DEF ModelFails, IInv, VersionIsFree, Checked
  <1>9. ASSUME NEW p \in RulePatches, AnalyzeByRules(p) PROVE IInv'
    <2>1. IsPatch(p) /\ IsPatch(NoPatch)
      BY InputAssumption, EmptyInputs
    <2>2. CASE PatchValid(p)
      <3>1. PlanIsValid' /\ Checked'
        BY <1>9, <2>2 DEF AnalyzeByRules, Analyzed, PlanIsValid, Checked, IInv
      <3> QED BY <1>0, <1>9, <2>1, <2>2, <3>1, UnappliedStep
              DEF AnalyzeByRules, Analyzed, IInv, VersionIsFree
    <2>3. CASE ~PatchValid(p)
      <3>1. PlanIsValid' /\ Checked'
        BY <1>9, <2>3 DEF AnalyzeByRules, AnalysisFails, NoPlan, PlanIsValid, Checked, IInv
      <3> QED BY <1>0, <1>9, <2>1, <2>3, <3>1, UnappliedStep
      DEF AnalyzeByRules, AnalysisFails, NoPlan, IInv, VersionIsFree
    <2> QED BY <2>2, <2>3
  <1>10. CASE ApplyRevision
    <2>1. CASE Outdated \/ Fails(request, plan.patch)
      BY <1>0, <1>10, <2>1, UnappliedStep
      DEF ApplyRevision, RevisionFails, IInv, Shape, VersionIsFree, Checked, PlanIsValid
    <2> QED BY <1>10, <2>1, AppliedStep
  <1>11. CASE UNCHANGED vars
    BY <1>11 DEF vars, IInv, TypeOK, Shape, VersionIsFree, Applied, ReportIsComplete, DateIssues,
                 LastDay, Checked, PlanIsValid, AppliedIsPlan
  <1> QED
    BY <1>1, <1>2, <1>3, <1>4, <1>5, <1>6, <1>7, <1>8, <1>9, <1>10, <1>11 DEF Next
-----------------------------------------------------------------------------
(* For any drafts, texts and patches, IInv holds in every reachable state. *)
THEOREM Invariant == Spec => []IInv
  <1>1. Init => IInv
    BY InitInv
  <1>2. IInv /\ [Next]_vars => IInv'
    BY NextInv
  <1> QED BY <1>1, <1>2, PTL DEF Spec

(* After any revision that is not refused, start, end and days agree, and the request is    *)
(* within the limits of its schema (_normalize_revised_dates).                              *)
THEOREM RevisionsKeepDates == Spec => []RevisionKeepsDates
  <1>1. IInv => RevisionKeepsDates
    BY DEF IInv, RevisionKeepsDates
  <1> QED BY <1>1, Invariant, PTL

(* The changed_fields of a revision name every part of the request that differs from the    *)
(* request the traveller was shown.                                                         *)
THEOREM ReportsAreComplete == Spec => []ReportIsComplete
  <1>1. IInv => ReportIsComplete
    BY DEF IInv
  <1> QED BY <1>1, Invariant, PTL

(* Everything the traveller has said in a change request is in the request afterwards: the  *)
(* operations on the fields (_apply_field_operations), a relative change of days but for a  *)
(* fraction of a day, removals and additions of the collections (_merge_preferences and the *)
(* like).                                                                                   *)
THEOREM SaidIsAlwaysDone == Spec => []SaidIsDone
  <1>1. ASSUME IInv, Applied PROVE SaidIsDone
    <2> DEFINE p == plan.patch
               b == plan.base
    <2>1. IsRequest(b) /\ IsPatch(p) /\ PatchValid(p) /\ request = Revised(b, p)
      BY <1>1 DEF IInv, Shape, AppliedIsPlan
    <2>2. \A op \in p.ops : \/ Obeyed(op, b[op.field], request[op.field])
                            \/ op.field = "end" /\ ~Datable(request)
      <3>1. \A op \in p.ops : \/ request[op.field] = NewValue(b, op)
                              \/ op.field = "end" /\ ~Datable(request)
        BY <2>1, OperationsAreDone
      <3>2. \A op \in p.ops : Obeyed(op, b[op.field], NewValue(b, op))
        BY <2>1, NewValueObeys DEF IsPatch, PatchValid
      <3> HIDE DEF p, b
      <3> QED BY <3>1, <3>2
    <2>3. \A c \in Collections : /\ request[c] = Merged(b[c], p.removals[c], p.upserts[c])
                                 /\ IsList(b[c]) /\ IsList(p.upserts[c])
      <3>1. \A c \in Collections : request[c] = Merged(b[c], p.removals[c], p.upserts[c])
        BY <2>1, RevisedParts
      <3>2. \A c \in Collections : IsList(b[c]) /\ IsList(p.upserts[c])
        BY <2>1 DEF IsRequest, IsPatch
      <3> QED BY <3>1, <3>2
    <2> HIDE DEF p, b
    <2>4. ASSUME NEW c \in Collections
          PROVE  /\ \A i, j \in DOMAIN request[c] : request[c][i].key = request[c][j].key => i = j
                 /\ \A u \in ToSet(p.upserts[c]) :
                      p.upserts[c][SelectLastInSeq(p.upserts[c], LAMBDA i : i.key = u.key)]
                        \in ToSet(request[c])
                 /\ \A i \in ToSet(request[c]) :
                      Selects(p.removals[c], i.key) => i \in ToSet(p.upserts[c])
      <3> DEFINE items == b[c]
                 upserts == p.upserts[c]
                 selectors == p.removals[c]
      <3>1. request[c] = Merged(items, selectors, upserts) /\ IsList(items) /\ IsList(upserts)
        BY <2>3
      <3> HIDE DEF items, upserts, selectors
      <3>2. /\ \A k, l \in DOMAIN request[c] : request[c][k].key = request[c][l].key => k = l
            /\ \A u \in ToSet(upserts) :
                 upserts[Max({j \in 1 .. Len(upserts) : upserts[j].key = u.key})]
                   \in ToSet(request[c])
            /\ \A e \in ToSet(request[c]) : Selects(selectors, e.key) => e \in ToSet(upserts)
        BY <3>1, MergedEntries
      <3>3. ASSUME NEW u \in ToSet(upserts)
            PROVE  SelectLastInSeq(upserts, LAMBDA i : i.key = u.key)
                     = Max({j \in 1 .. Len(upserts) : upserts[j].key = u.key})
        <4>1. upserts \in Seq(ToSet(upserts))
          BY <3>1 DEF IsList
        <4>2. DOMAIN upserts = 1 .. Len(upserts)
          BY <4>1
        <4>3. {j \in 1 .. Len(upserts) : upserts[j].key = u.key} # {}
          BY <4>2 DEF ToSet
        <4> QED BY <4>3 DEF SelectLastInSeq
      <3>4. \A u \in ToSet(upserts) :
              upserts[SelectLastInSeq(upserts, LAMBDA i : i.key = u.key)] \in ToSet(request[c])
        BY <3>2, <3>3
      <3> QED BY <3>2, <3>4 DEF upserts, selectors
    <2> QED BY <2>2, <2>4 DEF SaidIsDone, p, b
  <1>2. IInv => SaidIsDone
    BY <1>1 DEF SaidIsDone
  <1> QED BY <1>2, Invariant, PTL

(* Nothing goes or changes in a revision that was not spoken of, but for the date or the    *)
(* number of days that follows from what was changed (_normalize_revised_dates).            *)
THEOREM UnsaidAlwaysStays == Spec => []UnsaidStays
  <1>1. ASSUME IInv, Applied PROVE UnsaidStays
    <2> DEFINE p == plan.patch
               b == plan.base
               follows == If("end" \in Touched(p), "days")
                          \cup If(Touched(p) \cap {"start", "days"} # {} \/ b.end = None, "end")
    <2>1. IsRequest(b) /\ IsPatch(p) /\ CanContinue(b) /\ request = Revised(b, p)
      BY <1>1 DEF IInv, Shape, AppliedIsPlan
    <2>2. Datable(b) /\ DateIssues(b) = {}
      BY <2>1 DEF CanContinue, MissingFields, BlockingIssues, If, Datable
    <2>3. ASSUME NEW f \in Fields \ (Touched(p) \cup follows) PROVE request[f] = b[f]
      <3>1. f = "days" => "end" \notin Touched(p)
        BY DEF If
      <3>2. f = "end" => Touched(p) \cap {"start", "days"} = {} /\ b.end # None
        BY DEF If
      <3>3. f \in Fields \ Touched(p)
        OBVIOUS
      <3> HIDE DEF p, b, follows
      <3> QED BY <2>1, <2>2, <3>1, <3>2, <3>3, FieldsStay
    <2>4. \A c \in Collections : /\ request[c] = Merged(b[c], p.removals[c], p.upserts[c])
                                 /\ IsList(b[c]) /\ IsList(p.upserts[c])
      <3>1. \A c \in Collections : request[c] = Merged(b[c], p.removals[c], p.upserts[c])
        BY <2>1, RevisedParts
      <3>2. \A c \in Collections : IsList(b[c]) /\ IsList(p.upserts[c])
        BY <2>1 DEF IsRequest, IsPatch
      <3> QED BY <3>1, <3>2
    <2>5. {u.text : u \in b.unmapped} \subseteq {u.text : u \in request.unmapped}
      BY <2>1, RevisedParts
    <2> HIDE DEF p, b
    <2>6. ASSUME NEW c \in Collections, NEW i \in ToSet(b[c]), Alone(b[c], i),
                 ~Selects(p.removals[c], i.key), \A u \in ToSet(p.upserts[c]) : u.key # i.key
          PROVE  i \in ToSet(request[c])
      <3> DEFINE items == b[c]
                 upserts == p.upserts[c]
                 selectors == p.removals[c]
      <3>1. request[c] = Merged(items, selectors, upserts) /\ IsList(items) /\ IsList(upserts)
        BY <2>4
      <3>2. i \in ToSet(items) /\ Alone(items, i) /\ ~Selects(selectors, i.key)
            /\ \A u \in ToSet(upserts) : u.key # i.key
        BY <2>6
      <3> HIDE DEF items, upserts, selectors
      <3>3. \A e \in ToSet(items) :
              (/\ Alone(items, e) /\ ~Selects(selectors, e.key)
               /\ \A u \in ToSet(upserts) : u.key # e.key)
              => e \in ToSet(Merged(items, selectors, upserts))
        BY <3>1, MergedEntries
      <3> QED BY <3>1, <3>2, <3>3
    <2> QED BY <2>3, <2>5, <2>6 DEF UnsaidStays, p, b
  <1>2. IInv => UnsaidStays
    BY <1>1 DEF UnsaidStays
  <1> QED BY <1>2, Invariant, PTL
=============================================================================
