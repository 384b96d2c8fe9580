-------------------------- MODULE EvidenceLoopProofs --------------------------
(***************************************************************************)
(* Theorems about the evidence loop: what its plans demand and its pool    *)
(* holds, for every corpus, trip, configuration, answer of the two models  *)
(* and failure.  The lemmas about lists come first; the induction is over  *)
(* the steps of the loop (IInv).                                           *)
(***************************************************************************)
EXTENDS EvidenceLoop, SequenceTheorems, FiniteSetTheorems, WellFoundedInduction, TLAPS

-----------------------------------------------------------------------------
(* Lists and their order. *)

(* As many values as places, if no value stands at two of them. *)
LEMMA ImageSize ==
  ASSUME NEW n \in Nat, NEW f, \A i, j \in 1 .. n : f[i] = f[j] => i = j,
         NEW T, \A i \in 1 .. n : f[i] \in T, \A x \in T : \E i \in 1 .. n : x = f[i]
  PROVE  IsFiniteSet(T) /\ Cardinality(T) = n
  <1> DEFINE g == [i \in 1 .. n |-> f[i]]
  <1>1. g \in Bijection(1 .. n, T)
    <2>1. g \in [1 .. n -> T] /\ \A i \in 1 .. n : g[i] = f[i]
      OBVIOUS
    <2> HIDE DEF g
    <2> QED BY <2>1 DEF Bijection, Injection, IsInjective, Surjection
  <1>2. ExistsBijection(1 .. n, T)
    <2> HIDE DEF g
    <2> QED BY <1>1 DEF ExistsBijection
  <1>3. IsFiniteSet(1 .. n) /\ Cardinality(1 .. n) = n
    BY FS_Interval
  <1> QED BY <1>2, <1>3, FS_Bijection

(* A set of numbers has a least one. *)
LEMMA LeastNumber ==
  ASSUME NEW S, S \subseteq Nat, S # {}
  PROVE  \E m \in S : \A k \in S : m <= k
  <1> DEFINE less == OpToRel(<, Nat)
  <1>1. IsWellFoundedOn(less, Nat)
    BY NatLessThanWellFounded
  <1>2. PICK m \in S : \A k \in S : <<k, m>> \notin less
    <2> HIDE DEF less
    <2> QED BY <1>1, WFMin
  <1>3. ASSUME NEW k \in S PROVE m <= k
    <2>1. m \in Nat /\ k \in Nat
      OBVIOUS
    <2>2. ~(k < m)
      BY <1>2, <2>1 DEF OpToRel
    <2> QED BY <2>1, <2>2
  <1> QED BY <1>3

(* Tuples of numbers of one length are in a strict and total order. *)
LEMMA TuplesInOrder ==
  ASSUME NEW n \in Nat
  PROVE  /\ \A a \in [1 .. n -> Int] : ~Precedes(a, a)
         /\ \A a, b, c \in [1 .. n -> Int] : Precedes(a, b) /\ Precedes(b, c) => Precedes(a, c)
         /\ \A a, b \in [1 .. n -> Int] : a # b => Precedes(a, b) \/ Precedes(b, a)
  <1>1. ASSUME NEW a \in [1 .. n -> Int] PROVE ~Precedes(a, a)
    BY DEF Precedes
  <1>2. ASSUME NEW a \in [1 .. n -> Int], NEW b \in [1 .. n -> Int], NEW c \in [1 .. n -> Int],
               Precedes(a, b), Precedes(b, c)
        PROVE  Precedes(a, c)
    <2>1. PICK i \in 1 .. n : a[i] < b[i] /\ \A j \in 1 .. i - 1 : a[j] = b[j]
      BY <1>2 DEF Precedes
    <2>2. PICK k \in 1 .. n : b[k] < c[k] /\ \A j \in 1 .. k - 1 : b[j] = c[j]
      BY <1>2 DEF Precedes
    <2>3. CASE i <= k
      <3>1. a[i] < c[i]
        BY <2>1, <2>2, <2>3
      <3>2. \A j \in 1 .. i - 1 : a[j] = c[j]
        BY <2>1, <2>2, <2>3
      <3> QED BY <3>1, <3>2 DEF Precedes
    <2>4. CASE k < i
      <3>1. a[k] < c[k]
        BY <2>1, <2>2, <2>4
      <3>2. \A j \in 1 .. k - 1 : a[j] = c[j]
        BY <2>1, <2>2, <2>4
      <3> QED BY <3>1, <3>2 DEF Precedes
    <2> QED BY <2>3, <2>4
  <1>3. ASSUME NEW a \in [1 .. n -> Int], NEW b \in [1 .. n -> Int], a # b
        PROVE  Precedes(a, b) \/ Precedes(b, a)
    <2> DEFINE differ == {i \in 1 .. n : a[i] # b[i]}
    <2>1. differ \subseteq Nat /\ differ # {}
      BY <1>3
    <2>2. PICK i \in differ : \A k \in differ : i <= k
      <3> HIDE DEF differ
      <3> QED BY <2>1, LeastNumber
    <2>3. \A j \in 1 .. i - 1 : a[j] = b[j]
      BY <2>2
    <2>4. a[i] < b[i] \/ b[i] < a[i]
      BY <2>2
    <2> QED BY <2>2, <2>3, <2>4 DEF Precedes
  <1> QED BY <1>1, <1>2, <1>3

(* What can be sorted: finitely many records with different keys of one length. *)
Sortable(S) ==
  /\ IsFiniteSet(S)
  /\ \E n \in Nat : \A r \in S : r.key \in [1 .. n -> Int]
  /\ \A r, o \in S : r.key = o.key => r = o

(* Sorting lists each record once, in the order of the keys. *)
LEMMA SortedLists ==
  ASSUME NEW S, Sortable(S)
  PROVE  LET list == Sorted(S)
         IN  /\ Cardinality(S) \in Nat /\ DOMAIN list = 1 .. Cardinality(S)
             /\ Len(list) = Cardinality(S)
             /\ \A i \in DOMAIN list : list[i] \in S
             /\ \A r \in S : \E i \in DOMAIN list : list[i] = r
             /\ \A i, j \in DOMAIN list : i < j <=> Precedes(list[i].key, list[j].key)
  <1> DEFINE Before(r) == {o \in S : Precedes(o.key, r.key)}
             n == Cardinality(S)
             place == [r \in S |-> 1 + Cardinality(Before(r))]
             list == Sorted(S)
  <1>1. IsFiniteSet(S) /\ n \in Nat
    BY FS_CardinalityType DEF Sortable
  <1>2. /\ \A r \in S : ~Precedes(r.key, r.key)
        /\ \A r, o, q \in S : Precedes(r.key, o.key) /\ Precedes(o.key, q.key)
                                => Precedes(r.key, q.key)
        /\ \A r, o \in S : r # o => Precedes(r.key, o.key) \/ Precedes(o.key, r.key)
    <2>1. PICK m \in Nat : \A r \in S : r.key \in [1 .. m -> Int]
      BY DEF Sortable
    <2>2. \A r, o \in S : r # o => r.key # o.key
      BY DEF Sortable
    <2> QED BY <2>1, <2>2, TuplesInOrder
  <1>3. ASSUME NEW r \in S PROVE IsFiniteSet(Before(r)) /\ place[r] \in 1 .. n
    <2>1. Before(r) \in SUBSET S /\ r \notin Before(r)
      BY <1>2
    <2>2. IsFiniteSet(Before(r)) /\ Cardinality(Before(r)) <= n /\ Cardinality(Before(r)) # n
      BY <1>1, <2>1, FS_Subset
    <2>3. Cardinality(Before(r)) \in Nat
      BY <2>2, FS_CardinalityType
    <2>4. place[r] = 1 + Cardinality(Before(r))
      OBVIOUS
    <2> HIDE DEF n, Before, place
    <2> QED BY <1>1, <2>2, <2>3, <2>4
  <1>4. ASSUME NEW r \in S, NEW o \in S, Precedes(r.key, o.key) PROVE place[r] < place[o]
    <2>1. Before(r) \in SUBSET Before(o) /\ r \in Before(o) /\ r \notin Before(r)
      BY <1>2, <1>4
    <2>2. IsFiniteSet(Before(o)) /\ IsFiniteSet(Before(r))
      BY <1>3
    <2>3. Cardinality(Before(r)) # Cardinality(Before(o)) /\ Cardinality(Before(r)) <= Cardinality(Before(o))
      <3> HIDE DEF Before
      <3> QED BY <2>1, <2>2, FS_Subset
    <2>4. Cardinality(Before(r)) \in Nat /\ Cardinality(Before(o)) \in Nat
      BY <2>2, FS_CardinalityType
    <2>5. place[r] = 1 + Cardinality(Before(r)) /\ place[o] = 1 + Cardinality(Before(o))
      OBVIOUS
    <2> HIDE DEF Before, place
    <2> QED BY <2>3, <2>4, <2>5
  <1>5. \A r, o \in S : place[r] = place[o] => r = o
    <2> SUFFICES ASSUME NEW r \in S, NEW o \in S, place[r] = place[o], r # o PROVE FALSE
      OBVIOUS
    <2>1. Precedes(r.key, o.key) \/ Precedes(o.key, r.key)
      BY <1>2
    <2>2. place[r] \in Int /\ place[o] \in Int
      BY <1>3
    <2> HIDE DEF place
    <2> QED BY <1>4, <2>1, <2>2
  <1>6. IsFiniteSet(1 .. n) /\ Cardinality(1 .. n) = n
    BY <1>1, FS_Interval
  <1>7. place \in Injection(S, 1 .. n)
    <2>1. place \in [S -> 1 .. n]
      <3>1. \A r \in S : place[r] \in 1 .. n
        BY <1>3
      <3>2. place = [r \in S |-> place[r]]
        OBVIOUS
      <3> HIDE DEF place, n
      <3> QED BY <3>1, <3>2
    <2> HIDE DEF place, n
    <2> QED BY <1>5, <2>1 DEF Injection, IsInjective
  <1>8. place \in Surjection(S, 1 .. n)
    <2> HIDE DEF place
    <2> QED BY <1>1, <1>6, <1>7, FS_Injection
  <1>9. list = [i \in 1 .. n |-> CHOOSE r \in S : place[r] = i]
    BY DEF Sorted
  <1> HIDE DEF list, place
  <1>10. DOMAIN list = 1 .. n
    BY <1>9
  <1>11. ASSUME NEW i \in 1 .. n PROVE list[i] \in S /\ place[list[i]] = i
    <2>1. PICK r \in S : place[r] = i
      BY <1>8 DEF Surjection
    <2>2. list[i] = CHOOSE o \in S : place[o] = i
      BY <1>9
    <2> QED BY <2>1, <2>2
  <1>12. ASSUME NEW r \in S PROVE \E i \in 1 .. n : list[i] = r
    <2>1. place[r] \in 1 .. n
      BY <1>3
    <2>2. list[place[r]] = r
      BY <1>5, <1>11, <2>1
    <2> QED BY <2>1, <2>2
  <1>13. ASSUME NEW i \in 1 .. n, NEW j \in 1 .. n PROVE i < j <=> Precedes(list[i].key, list[j].key)
    <2>1. /\ list[i] \in S /\ list[j] \in S
          /\ place[list[i]] = i /\ place[list[j]] = j
      BY <1>11
    <2>2. Precedes(list[i].key, list[j].key) => i < j
      BY <1>4, <2>1
    <2>3. ASSUME i < j PROVE Precedes(list[i].key, list[j].key)
      <3>1. list[i] # list[j]
        BY <2>1, <2>3
      <3>2. Precedes(list[i].key, list[j].key) \/ Precedes(list[j].key, list[i].key)
        BY <1>2, <2>1, <3>1
      <3>3. Precedes(list[j].key, list[i].key) => j < i
        BY <1>4, <2>1
      <3> QED BY <2>3, <3>2, <3>3
    <2> QED BY <2>2, <2>3
  <1>14. Len(list) = n
    <2>1. list \in Seq(S)
      <3>1. list = [i \in 1 .. n |-> list[i]]
        BY <1>9
      <3> QED BY <1>1, <1>11, <3>1
    <2> QED BY <1>1, <1>10, <2>1, LenProperties
  <1> QED BY <1>1, <1>10, <1>11, <1>12, <1>13, <1>14 DEF list

(* What Ordered lists, and in what order: the lists of the planner, of the searches and of the pool
   are all made by it. *)
LEMMA OrderedLists ==
  ASSUME NEW S, Sortable(S)
  PROVE  LET list == Ordered(S)
             items == {r.item : r \in S}
         IN  /\ Cardinality(S) \in Nat /\ DOMAIN list = 1 .. Cardinality(S)
             /\ Len(list) = Cardinality(S)
             /\ list \in Seq(items) /\ ToSet(list) = items
             /\ \A i \in DOMAIN list : Sorted(S)[i] \in S /\ list[i] = Sorted(S)[i].item
             /\ \A i, j \in DOMAIN list : i < j <=> Precedes(Sorted(S)[i].key, Sorted(S)[j].key)
             /\ \A r \in S : \E i \in DOMAIN list : Sorted(S)[i] = r
  <1> DEFINE list == Ordered(S)
             items == {r.item : r \in S}
             from == Sorted(S)
             n == Cardinality(S)
  <1>1. /\ n \in Nat /\ DOMAIN from = 1 .. n
        /\ \A i \in DOMAIN from : from[i] \in S
        /\ \A r \in S : \E i \in DOMAIN from : from[i] = r
        /\ \A i, j \in DOMAIN from : i < j <=> Precedes(from[i].key, from[j].key)
    BY SortedLists
  <1>2. list = [i \in DOMAIN from |-> from[i].item]
    BY DEF Ordered
  <1> HIDE DEF list, from, n
  <1>3. DOMAIN list = 1 .. n /\ \A i \in 1 .. n : list[i] = from[i].item
    BY <1>1, <1>2
  <1>4. \A i \in 1 .. n : list[i] \in items
    BY <1>1, <1>3
  <1>5. list \in Seq(items)
    <2>1. list = [i \in 1 .. n |-> list[i]]
      BY <1>1, <1>2, <1>3
    <2> HIDE DEF items
    <2> QED BY <1>1, <1>4, <2>1
  <1>6. Len(list) = n
    <2> HIDE DEF items
    <2> QED BY <1>1, <1>3, <1>5, LenProperties
  <1>7. ToSet(list) = items
    <2>1. ToSet(list) \subseteq items
      BY <1>3, <1>4 DEF ToSet
    <2>2. ASSUME NEW r \in S PROVE r.item \in ToSet(list)
      <3>1. PICK i \in 1 .. n : from[i] = r
        BY <1>1
      <3> QED BY <1>3, <3>1 DEF ToSet
    <2> QED BY <2>1, <2>2
  <1> HIDE DEF items
  <1> QED BY <1>1, <1>3, <1>5, <1>6, <1>7 DEF list, from, n, items

(* Sorting lists each record at one place. *)
LEMMA SortedOnce ==
  ASSUME NEW S, Sortable(S)
  PROVE  \A i, j \in DOMAIN Ordered(S) : Sorted(S)[i] = Sorted(S)[j] => i = j
  <1> DEFINE list == Ordered(S)
             from == Sorted(S)
  <1>1. /\ Cardinality(S) \in Nat /\ DOMAIN list = 1 .. Cardinality(S)
        /\ \A i \in DOMAIN list : from[i] \in S
        /\ \A i, j \in DOMAIN list : i < j => Precedes(from[i].key, from[j].key)
    BY OrderedLists
  <1> HIDE DEF list, from
  <1>2. PICK n \in Nat : \A r \in S : r.key \in [1 .. n -> Int]
    BY DEF Sortable
  <1>3. \A i, j \in DOMAIN list : from[i] = from[j] => ~(i < j)
    BY <1>1, <1>2, TuplesInOrder
  <1>4. ASSUME NEW i \in DOMAIN list, NEW j \in DOMAIN list, from[i] = from[j]
        PROVE  i = j
    <2>1. ~(i < j) /\ ~(j < i)
      BY <1>3, <1>4
    <2>2. i \in Int /\ j \in Int
      BY <1>1
    <2> QED BY <2>1, <2>2
  <1> QED BY <1>4 DEF list, from

(* A list: a sequence of its members. *)
IsList(s) == s \in Seq(ToSet(s))

(* The places of a list are the numbers up to its length. *)
LEMMA Places ==
  ASSUME NEW s, IsList(s)
  PROVE  /\ Len(s) \in Nat /\ DOMAIN s = 1 .. Len(s)
         /\ DOMAIN s \subseteq Nat /\ DOMAIN s \subseteq Int /\ IsFiniteSet(DOMAIN s)
  <1>1. s \in Seq(ToSet(s))
    BY DEF IsList
  <1>2. Len(s) \in Nat /\ DOMAIN s = 1 .. Len(s)
    BY <1>1
  <1>3. IsFiniteSet(1 .. Len(s))
    BY <1>2, FS_Interval
  <1> QED BY <1>2, <1>3

(* A sequence over a set is a list of members of it. *)
LEMMA ListsOf ==
  ASSUME NEW T, NEW s \in Seq(T)
  PROVE  IsList(s) /\ ToSet(s) \subseteq T
  <1>1. Len(s) \in Nat /\ DOMAIN s = 1 .. Len(s) /\ \A i \in DOMAIN s : s[i] \in T
    BY ElementOfSeq
  <1>2. s = [i \in 1 .. Len(s) |-> s[i]]
    BY <1>1
  <1>3. \A i \in 1 .. Len(s) : s[i] \in ToSet(s)
    BY <1>1 DEF ToSet
  <1>4. s \in Seq(ToSet(s))
    BY <1>1, <1>2, <1>3
  <1>5. ToSet(s) \subseteq T
    BY <1>1 DEF ToSet
  <1> QED BY <1>4, <1>5 DEF IsList

(* What a function makes of finitely many arguments is finite. *)
LEMMA Image ==
  ASSUME NEW S, IsFiniteSet(S), NEW f
  PROVE  IsFiniteSet({f[x] : x \in S})
  <1> DEFINE T == {f[x] : x \in S}
             g == [x \in S |-> f[x]]
  <1>1. g \in Surjection(S, T)
    BY DEF Surjection
  <1> HIDE DEF g, T
  <1>2. IsFiniteSet(T)
    BY <1>1, FS_Surjection
  <1> QED BY <1>2 DEF T

(* The elements at some places of a list, in their order. *)
LEMMA PickedLists ==
  ASSUME NEW list, NEW places, places \subseteq Int, IsFiniteSet(places)
  PROVE  LET picked == Picked(list, places)
         IN  /\ IsList(picked) /\ ToSet(picked) = {list[i] : i \in places}
             /\ Len(picked) = Cardinality(places)
             /\ \A i, j \in DOMAIN picked : i < j =>
                  \E k, l \in places : k < l /\ picked[i] = list[k] /\ picked[j] = list[l]
  <1> DEFINE Keyed(i) == [key |-> <<i>>, item |-> list[i]]
             S == {Keyed(i) : i \in places}
             picked == Picked(list, places)
             from == Sorted(S)
  <1>1. Sortable(S) /\ Cardinality(S) = Cardinality(places)
    <2>1. IsFiniteSet(S) /\ Cardinality(S) = Cardinality(places)
      <3> DEFINE f == [i \in places |-> Keyed(i)]
      <3>1. \A i, j \in places : Keyed(i) = Keyed(j) => i = j
        OBVIOUS
      <3>2. f \in Bijection(places, S)
        <4> HIDE DEF Keyed
        <4> QED BY <3>1 DEF Bijection, Injection, IsInjective, Surjection
      <3>3. ExistsBijection(places, S)
        <4> HIDE DEF f, S
        <4> QED BY <3>2 DEF ExistsBijection
      <3> HIDE DEF f, S
      <3> QED BY <3>3, FS_Bijection
    <2>2. \A r \in S : r.key \in [1 .. 1 -> Int]
      <3> SUFFICES ASSUME NEW i \in places PROVE Keyed(i).key \in [1 .. 1 -> Int]
        OBVIOUS
      <3>1. i \in Int
        OBVIOUS
      <3>2. <<i>> \in [1 .. 1 -> Int]
        BY <3>1
      <3> QED BY <3>2
    <2>3. \A r, o \in S : r.key = o.key => r = o
      OBVIOUS
    <2>4. 1 \in Nat
      OBVIOUS
    <2> HIDE DEF S
    <2> QED BY <2>1, <2>2, <2>3, <2>4 DEF Sortable
  <1>2. picked = Ordered(S)
    BY DEF Picked
  <1>3. {r.item : r \in S} = {list[i] : i \in places}
    <2>1. \A i \in places : Keyed(i).item = list[i]
      OBVIOUS
    <2> HIDE DEF Keyed
    <2> QED BY <2>1
  <1>4. /\ Cardinality(S) \in Nat /\ DOMAIN picked = 1 .. Cardinality(S)
        /\ Len(picked) = Cardinality(S)
        /\ picked \in Seq({r.item : r \in S}) /\ ToSet(picked) = {r.item : r \in S}
        /\ \A i \in DOMAIN picked : from[i] \in S /\ picked[i] = from[i].item
        /\ \A i, j \in DOMAIN picked : i < j <=> Precedes(from[i].key, from[j].key)
    <2> HIDE DEF S, picked
    <2> QED BY <1>1, <1>2, OrderedLists DEF from
  <1>5. ASSUME NEW i \in DOMAIN picked, NEW j \in DOMAIN picked, i < j
        PROVE  \E k, l \in places : k < l /\ picked[i] = list[k] /\ picked[j] = list[l]
    <2> HIDE DEF picked, from
    <2>1. PICK k \in places : from[i] = Keyed(k)
      BY <1>4
    <2>2. PICK l \in places : from[j] = Keyed(l)
      BY <1>4
    <2>3. Precedes(<<k>>, <<l>>)
      <3>1. Precedes(from[i].key, from[j].key)
        <4> HIDE DEF S
        <4> QED BY <1>4, <1>5
      <3> QED BY <2>1, <2>2, <3>1
    <2>4. k < l
      BY <2>3 DEF Precedes
    <2>5. picked[i] = list[k] /\ picked[j] = list[l]
      <3>1. picked[i] = from[i].item /\ picked[j] = from[j].item
        <4> HIDE DEF S
        <4> QED BY <1>4
      <3> QED BY <2>1, <2>2, <3>1
    <2> QED BY <2>4, <2>5
  <1> HIDE DEF S, picked
  <1>6. IsList(picked)
    BY <1>4 DEF IsList
  <1> QED BY <1>1, <1>3, <1>4, <1>5, <1>6 DEF picked

(* Lists one after the other. *)
LEMMA JoinedLists ==
  ASSUME NEW lists, IsList(lists), \A n \in DOMAIN lists : IsList(lists[n])
  PROVE  LET all == Joined(lists)
         IN  /\ IsList(all)
             /\ ToSet(all) = UNION {ToSet(lists[n]) : n \in DOMAIN lists}
             /\ \A i, j \in DOMAIN all : i < j =>
                  \E n, m \in DOMAIN lists : \E k \in DOMAIN lists[n], l \in DOMAIN lists[m] :
                    /\ n < m \/ (n = m /\ k < l)
                    /\ all[i] = lists[n][k] /\ all[j] = lists[m][l]
  <1> DEFINE Keyed(n, i) == [key |-> <<n, i>>, item |-> lists[n][i]]
             Part(n) == {Keyed(n, i) : i \in DOMAIN lists[n]}
             S == UNION {Part(n) : n \in DOMAIN lists}
             all == Joined(lists)
             from == Sorted(S)
  <1>1. DOMAIN lists \subseteq Int /\ IsFiniteSet(DOMAIN lists)
    BY Places
  <1>2. \A n \in DOMAIN lists : DOMAIN lists[n] \subseteq Int /\ IsFiniteSet(DOMAIN lists[n])
    BY Places
  <1>3. Sortable(S)
    <2>1. IsFiniteSet(S)
      <3>1. ASSUME NEW n \in DOMAIN lists PROVE IsFiniteSet(Part(n))
        <4> DEFINE f == [i \in DOMAIN lists[n] |-> Keyed(n, i)]
        <4>1. Part(n) = {f[i] : i \in DOMAIN lists[n]}
          OBVIOUS
        <4> HIDE DEF f, Part
        <4> QED BY <1>2, <4>1, Image
      <3>2. IsFiniteSet({Part(n) : n \in DOMAIN lists})
        <4> DEFINE f == [n \in DOMAIN lists |-> Part(n)]
        <4>1. {Part(n) : n \in DOMAIN lists} = {f[n] : n \in DOMAIN lists}
          <5> HIDE DEF Part
          <5> QED OBVIOUS
        <4> HIDE DEF f, Part
        <4> QED BY <1>1, <4>1, Image
      <3> HIDE DEF Part
      <3> QED BY <3>1, <3>2, FS_UNION
    <2>2. \A r \in S : r.key \in [1 .. 2 -> Int]
      <3> SUFFICES ASSUME NEW n \in DOMAIN lists, NEW i \in DOMAIN lists[n]
                   PROVE  Keyed(n, i).key \in [1 .. 2 -> Int]
        OBVIOUS
      <3>1. n \in Int /\ i \in Int
        BY <1>1, <1>2
      <3>2. <<n, i>> \in [1 .. 2 -> Int]
        BY <3>1
      <3> QED BY <3>2
    <2>3. \A r, o \in S : r.key = o.key => r = o
      OBVIOUS
    <2>4. 2 \in Nat
      OBVIOUS
    <2> HIDE DEF S
    <2> QED BY <2>1, <2>2, <2>3, <2>4 DEF Sortable
  <1>4. all = Ordered(S)
    BY DEF Joined
  <1>5. {r.item : r \in S} = UNION {ToSet(lists[n]) : n \in DOMAIN lists}
    <2>1. \A n : \A i : Keyed(n, i).item = lists[n][i]
      OBVIOUS
    <2>2. \A n : ToSet(lists[n]) = {lists[n][i] : i \in DOMAIN lists[n]}
      BY DEF ToSet
    <2>3. ASSUME NEW n PROVE \A x : x \in ToSet(lists[n]) <=> \E r \in Part(n) : x = r.item
      <3>1. \A x : x \in ToSet(lists[n]) <=> \E i \in DOMAIN lists[n] : x = lists[n][i]
        BY <2>2
      <3>2. \A i : Keyed(n, i).item = lists[n][i]
        BY <2>1
      <3> HIDE DEF Keyed
      <3> QED BY <3>1, <3>2
    <2> HIDE DEF Part
    <2>4. ASSUME NEW x
          PROVE  x \in {r.item : r \in S} <=> \E n \in DOMAIN lists : x \in ToSet(lists[n])
      <3>1. x \in {r.item : r \in S} <=> \E n \in DOMAIN lists : \E r \in Part(n) : x = r.item
        OBVIOUS
      <3> QED BY <2>3, <3>1
    <2> HIDE DEF S
    <2> QED BY <2>4
  <1>6. /\ DOMAIN all = 1 .. Cardinality(S)
        /\ all \in Seq({r.item : r \in S}) /\ ToSet(all) = {r.item : r \in S}
        /\ \A i \in DOMAIN all : from[i] \in S /\ all[i] = from[i].item
        /\ \A i, j \in DOMAIN all : i < j <=> Precedes(from[i].key, from[j].key)
    <2> HIDE DEF S, all
    <2> QED BY <1>3, <1>4, OrderedLists DEF from
  <1>7. ASSUME NEW i \in DOMAIN all, NEW j \in DOMAIN all, i < j
        PROVE  \E n, m \in DOMAIN lists : \E k \in DOMAIN lists[n], l \in DOMAIN lists[m] :
                 /\ n < m \/ (n = m /\ k < l)
                 /\ all[i] = lists[n][k] /\ all[j] = lists[m][l]
    <2> HIDE DEF all, from
    <2>1. /\ from[i] \in S /\ from[j] \in S /\ all[i] = from[i].item /\ all[j] = from[j].item
          /\ Precedes(from[i].key, from[j].key)
      <3> HIDE DEF S
      <3> QED BY <1>6, <1>7
    <2>2. PICK n \in DOMAIN lists : \E k \in DOMAIN lists[n] : from[i] = Keyed(n, k)
      BY <2>1
    <2>7. PICK k \in DOMAIN lists[n] : from[i] = Keyed(n, k)
      BY <2>2
    <2>3. PICK m \in DOMAIN lists : \E l \in DOMAIN lists[m] : from[j] = Keyed(m, l)
      BY <2>1
    <2>8. PICK l \in DOMAIN lists[m] : from[j] = Keyed(m, l)
      BY <2>3
    <2>4. Precedes(<<n, k>>, <<m, l>>)
      BY <2>1, <2>7, <2>8
    <2>5. n < m \/ (n = m /\ k < l)
      BY <2>4 DEF Precedes
    <2>6. all[i] = lists[n][k] /\ all[j] = lists[m][l]
      BY <2>1, <2>7, <2>8
    <2> QED BY <2>5, <2>6
  <1> HIDE DEF S, all
  <1>8. IsList(all)
    BY <1>6 DEF IsList
  <1> QED BY <1>5, <1>6, <1>7, <1>8 DEF all

(* Two lists after each other. *)
LEMMA Concatenated ==
  ASSUME NEW a, IsList(a), NEW b, IsList(b)
  PROVE  IsList(a \o b) /\ ToSet(a \o b) = ToSet(a) \cup ToSet(b)
  <1> DEFINE S == ToSet(a) \cup ToSet(b)
  <1>1. a \in Seq(S) /\ b \in Seq(S)
    <2>1. ToSet(a) \subseteq S /\ ToSet(b) \subseteq S
      OBVIOUS
    <2>2. a \in Seq(ToSet(a)) /\ b \in Seq(ToSet(b))
      BY DEF IsList
    <2> QED BY <2>1, <2>2, SeqMonotonic
  <1> HIDE DEF S
  <1>2. /\ a \o b \in Seq(S) /\ Len(a \o b) = Len(a) + Len(b)
        /\ \A i \in 1 .. Len(a) + Len(b) :
             (a \o b)[i] = IF i <= Len(a) THEN a[i] ELSE b[i - Len(a)]
    BY <1>1, ConcatProperties
  <1>3. /\ Len(a) \in Nat /\ DOMAIN a = 1 .. Len(a)
        /\ Len(b) \in Nat /\ DOMAIN b = 1 .. Len(b)
        /\ DOMAIN (a \o b) = 1 .. Len(a) + Len(b)
    BY <1>1, <1>2
  <1>4. IsList(a \o b) /\ ToSet(a \o b) \subseteq S
    BY <1>2, ListsOf
  <1> DEFINE c == a \o b
             n == Len(a)
             m == Len(b)
  <1>5. /\ n \in Nat /\ DOMAIN a = 1 .. n /\ m \in Nat /\ DOMAIN b = 1 .. m
        /\ DOMAIN c = 1 .. n + m
        /\ \A i \in 1 .. n + m : c[i] = IF i <= n THEN a[i] ELSE b[i - n]
    BY <1>2, <1>3
  <1> HIDE DEF c, n, m
  <1>6. ASSUME NEW i \in DOMAIN a PROVE a[i] \in ToSet(c)
    <2>1. i \in 1 .. n + m /\ i <= n
      BY <1>5
    <2> QED BY <1>5, <2>1 DEF ToSet
  <1>7. ASSUME NEW i \in DOMAIN b PROVE b[i] \in ToSet(c)
    <2>1. n + i \in 1 .. n + m /\ ~(n + i <= n) /\ (n + i) - n = i
      BY <1>5
    <2>2. c[n + i] = b[i] /\ n + i \in DOMAIN c
      BY <1>5, <2>1
    <2> QED BY <2>2 DEF ToSet
  <1>8. ToSet(a) \subseteq ToSet(c) /\ ToSet(b) \subseteq ToSet(c)
    BY <1>6, <1>7 DEF ToSet
  <1> QED BY <1>4, <1>8 DEF S, c

-----------------------------------------------------------------------------
(* The searches, the fusion and the second ranking. *)

(* Wordings of a query, and what the two rankings hand on: hits and pieces of evidence. *)
Wordings == {"plain"} \cup {i.wording : i \in UNION {ToSet(d.intents) : d \in Decisions}}

IsHit(h) ==
  /\ h = [task |-> h.task, chunk |-> h.chunk, rank |-> h.rank, fusion |-> h.fusion]
  /\ h.chunk \in DOMAIN Corpus /\ h.rank \in Int /\ h.fusion \in Int

IsItem(e) ==
  e.chunk \in DOMAIN Corpus /\ e.score \in Int /\ e.fusion \in Int /\ e.place \in Int

IsTask(t) == t.topK \in Nat /\ t.min \in Nat /\ t.wording \in Wordings

(* The smaller and the larger of two numbers. *)
LEMMA SmallLarge ==
  ASSUME NEW a \in Int, NEW b \in Int
  PROVE  /\ Small(a, b) \in Int /\ Small(a, b) <= a /\ Small(a, b) <= b
         /\ Large(a, b) \in Int /\ a <= Large(a, b) /\ b <= Large(a, b)
  BY DEF Small, Large

(* A search lists candidates, each of them once and as many as it is asked for. *)
LEMMA HitLists ==
  ASSUME NEW score, DOMAIN score \subseteq Int, IsFiniteSet(DOMAIN score),
         \A c \in DOMAIN score : score[c] \in Int,
         NEW k \in Int
  PROVE  LET list == Hits(score, k)
         IN  /\ IsList(list) /\ ToSet(list) \subseteq DOMAIN score
             /\ Len(list) <= Cardinality(DOMAIN score)
             /\ \A i, j \in DOMAIN list : list[i] = list[j] => i = j
             /\ k >= 0 => Len(list) = Small(k, Cardinality(DOMAIN score))
  <1> DEFINE Keyed(c) == [key |-> <<-score[c], c>>, item |-> c]
             f == [c \in DOMAIN score |-> Keyed(c)]
             S == {Keyed(c) : c \in DOMAIN score}
             best == Ordered(S)
             list == Hits(score, k)
  <1>1. Sortable(S)
    <2>1. IsFiniteSet(S)
      <3>1. S = {f[c] : c \in DOMAIN score}
        OBVIOUS
      <3> HIDE DEF f, S
      <3> QED BY <3>1, Image
    <2>2. \A r \in S : r.key \in [1 .. 2 -> Int]
      <3> SUFFICES ASSUME NEW c \in DOMAIN score PROVE Keyed(c).key \in [1 .. 2 -> Int]
        OBVIOUS
      <3>1. c \in Int /\ -score[c] \in Int
        OBVIOUS
      <3>2. <<-score[c], c>> \in [1 .. 2 -> Int]
        BY <3>1
      <3> QED BY <3>2
    <2>3. \A r, o \in S : r.key = o.key => r = o
      OBVIOUS
    <2>4. 2 \in Nat
      OBVIOUS
    <2> HIDE DEF S
    <2> QED BY <2>1, <2>2, <2>3, <2>4 DEF Sortable
  <1>2. {r.item : r \in S} = DOMAIN score
    <2>1. \A c : Keyed(c).item = c
      OBVIOUS
    <2> HIDE DEF Keyed
    <2> QED BY <2>1
  <1>3. Cardinality(S) = Cardinality(DOMAIN score)
    <2>1. f \in Bijection(DOMAIN score, S)
      <3>1. f = [c \in DOMAIN score |-> Keyed(c)] /\ S = {Keyed(c) : c \in DOMAIN score}
        OBVIOUS
      <3>2. \A r \in S : \E c \in DOMAIN score : f[c] = r
        <4> HIDE DEF Keyed
        <4> QED OBVIOUS
      <3>3. f \in [DOMAIN score -> S]
        <4> HIDE DEF Keyed
        <4> QED OBVIOUS
      <3>4. \A c, d \in DOMAIN score : f[c] = f[d] => c = d
        OBVIOUS
      <3> HIDE DEF f, S
      <3> QED BY <3>2, <3>3, <3>4 DEF Bijection, Injection, IsInjective, Surjection
    <2>2. ExistsBijection(DOMAIN score, S)
      <3> HIDE DEF f, S
      <3> QED BY <2>1 DEF ExistsBijection
    <2> HIDE DEF f, S
    <2> QED BY <2>2, FS_Bijection
  <1>14. ASSUME NEW i \in DOMAIN best, NEW j \in DOMAIN best, best[i] = best[j]
         PROVE  i = j
    <2> DEFINE a == Sorted(S)[i]
               b == Sorted(S)[j]
    <2>1. a \in S /\ b \in S /\ best[i] = a.item /\ best[j] = b.item
      <3> HIDE DEF S
      <3> QED BY <1>1, OrderedLists
    <2>2. a = b => i = j
      <3> HIDE DEF S
      <3> QED BY <1>1, SortedOnce
    <2> HIDE DEF a, b, best
    <2>3. PICK c \in DOMAIN score : a = Keyed(c)
      BY <2>1
    <2>4. PICK d \in DOMAIN score : b = Keyed(d)
      BY <2>1
    <2>5. c = d
      BY <1>14, <2>1, <2>3, <2>4
    <2> QED BY <2>2, <2>3, <2>4, <2>5
  <1>4. /\ Cardinality(S) \in Nat /\ DOMAIN best = 1 .. Cardinality(S)
        /\ Len(best) = Cardinality(S)
        /\ \A i \in DOMAIN best : best[i] \in DOMAIN score
    <2> HIDE DEF S
    <2>1. /\ Cardinality(S) \in Nat /\ DOMAIN best = 1 .. Cardinality(S)
          /\ Len(best) = Cardinality(S) /\ ToSet(best) = DOMAIN score
      BY <1>1, <1>2, OrderedLists
    <2> QED BY <2>1 DEF ToSet
  <1> DEFINE n == Small(k, Len(best))
  <1>5. list = [i \in 1 .. n |-> best[i]]
    BY DEF Hits
  <1>6. n \in Int /\ n <= Cardinality(S)
    <2>1. Len(best) \in Int /\ Len(best) = Cardinality(S)
      <3> HIDE DEF S, best
      <3> QED BY <1>4
    <2>2. n \in Int /\ n <= Len(best)
      <3> HIDE DEF S, best
      <3> QED BY <2>1, SmallLarge
    <2> HIDE DEF S, best, n
    <2> QED BY <2>1, <2>2
  <1>7. \A i \in 1 .. n : list[i] \in DOMAIN score
    <2>1. 1 .. n \subseteq DOMAIN best
      <3> HIDE DEF S, best, n
      <3> QED BY <1>4, <1>6
    <2>2. ASSUME NEW i \in 1 .. n PROVE list[i] = best[i]
      <3> HIDE DEF S, best, n
      <3> QED BY <1>5
    <2> HIDE DEF S, best, n, list
    <2> QED BY <1>4, <2>1, <2>2
  <1> HIDE DEF S, best, n, list
  <1> DEFINE m == IF n < 0 THEN 0 ELSE n
  <1>8. m \in Nat /\ 1 .. n = 1 .. m /\ m <= Cardinality(S)
    BY <1>4, <1>6
  <1>9. list \in Seq(DOMAIN score)
    <2> HIDE DEF m
    <2>1. DOMAIN list = 1 .. m /\ list = [i \in 1 .. m |-> list[i]]
      BY <1>5, <1>8
    <2>2. \A i \in 1 .. m : list[i] \in DOMAIN score
      BY <1>7, <1>8
    <2>3. m \in Nat
      BY <1>8
    <2> QED BY <2>1, <2>2, <2>3
  <1>10. Len(list) = m
    <2> HIDE DEF m
    <2>1. DOMAIN list = 1 .. m
      BY <1>5, <1>8
    <2> QED BY <1>8, <1>9, <2>1, LenProperties
  <1>11. Cardinality(DOMAIN score) \in Nat
    BY FS_CardinalityType
  <1>12. Len(list) <= Cardinality(DOMAIN score)
    <2> HIDE DEF m
    <2> QED BY <1>3, <1>4, <1>8, <1>10, <1>11
  <1>13. IsList(list) /\ ToSet(list) \subseteq DOMAIN score
    BY <1>9, ListsOf
  <1>15. \A i, j \in DOMAIN list : list[i] = list[j] => i = j
    <2>1. DOMAIN list = 1 .. n /\ 1 .. n \subseteq DOMAIN best /\ \A i \in 1 .. n : list[i] = best[i]
      BY <1>4, <1>5, <1>6
    <2> QED BY <1>14, <2>1
  <1>16. k >= 0 => Len(list) = Small(k, Cardinality(DOMAIN score))
    <2>1. n = Small(k, Cardinality(DOMAIN score))
      BY <1>3, <1>4 DEF n
    <2>2. k >= 0 => n >= 0
      BY <1>11, <2>1 DEF Small
    <2>3. n \in Int
      BY <1>6
    <2> QED BY <1>10, <2>1, <2>2, <2>3
  <1> QED BY <1>12, <1>13, <1>15, <1>16 DEF list

(* The rank of a chunk in a list of hits, also of one that is not in it. *)
LEMMA Ranks ==
  ASSUME NEW list, IsList(list), ToSet(list) \subseteq DOMAIN Corpus,
         Len(list) <= Cardinality(DOMAIN Corpus), NEW c
  PROVE  RankIn(list, c) \in 1 .. Unranked /\ Unranked \in Nat
  <1>1. Cardinality(DOMAIN Corpus) \in Nat
    BY CorpusIsIndexed, FS_CardinalityType
  <1>2. Len(list) \in Nat /\ DOMAIN list = 1 .. Len(list)
    BY Places
  <1>3. CASE c \in ToSet(list)
    <2>1. \E i \in DOMAIN list : list[i] = c
      BY <1>3 DEF ToSet
    <2>2. RankIn(list, c) \in DOMAIN list
      BY <1>3, <2>1 DEF RankIn
    <2> QED BY <1>1, <1>2, <2>2 DEF Unranked
  <1>4. CASE c \notin ToSet(list)
    BY <1>1, <1>4 DEF RankIn, Unranked
  <1> QED BY <1>3, <1>4

(* The searches of a task. *)
LEMMA Searches ==
  ASSUME NEW t, IsTask(t), NEW C, C \subseteq DOMAIN Corpus
  PROVE  /\ IsList(Bm25Hits(t, C)) /\ ToSet(Bm25Hits(t, C)) \subseteq C
         /\ IsList(VectorHits(t, C)) /\ ToSet(VectorHits(t, C)) \subseteq C
         /\ \A c : /\ RankIn(Bm25Hits(t, C), c) \in 1 .. Unranked
                   /\ RankIn(VectorHits(t, C), c) \in 1 .. Unranked
         /\ ToSet(VectorHits(t, C)) = C \/ Cardinality(ToSet(VectorHits(t, C))) >= t.topK
  <1> DEFINE k == FetchK(t, C)
             D == {c \in C : Keyword(t, c) > 0}
             keyword == [c \in D |-> Keyword(t, c)]
             semantic == [c \in C |-> Semantic(t, c)]
  <1>1. IsFiniteSet(C) /\ IsFiniteSet(D) /\ C \subseteq Int
    <2>1. IsFiniteSet(C)
      BY CorpusIsIndexed, FS_Subset
    <2> QED BY <2>1, CorpusIsIndexed, FS_Subset
  <1>2. k \in Int /\ k >= 0 /\ k <= Cardinality(C) /\ (k = Cardinality(C) \/ k >= t.topK)
    <2>1. Cardinality(C) \in Nat
      BY <1>1, FS_CardinalityType
    <2>2. t.topK \in Nat /\ FetchMultiplier \in Nat
      BY RetrievalIsConfigured DEF IsTask
    <2>3. t.topK * FetchMultiplier \in Nat
      BY <2>2
    <2>4. Large(t.topK * FetchMultiplier, t.topK) \in Nat /\ Large(t.topK * FetchMultiplier, t.topK) >= t.topK
      BY <2>2, <2>3 DEF Large
    <2> QED BY <2>1, <2>2, <2>4 DEF FetchK, Small
  <1>3. \A c \in C : Keyword(t, c) \in Int /\ Semantic(t, c) \in Int
    BY ScoresAreNumbers DEF IsTask, Wordings, Keyword, Semantic
  <1>4. Cardinality(C) <= Cardinality(DOMAIN Corpus) /\ Cardinality(D) <= Cardinality(C)
    BY <1>1, CorpusIsIndexed, FS_Subset
  <1>5. /\ Cardinality(DOMAIN Corpus) \in Nat /\ Cardinality(C) \in Nat /\ Cardinality(D) \in Nat
    BY <1>1, CorpusIsIndexed, FS_CardinalityType
  <1>6. Bm25Hits(t, C) = Hits(keyword, k) /\ VectorHits(t, C) = Hits(semantic, k)
    BY DEF Bm25Hits, VectorHits
  <1>7. /\ DOMAIN keyword = D /\ \A c \in D : keyword[c] \in Int
        /\ DOMAIN semantic = C /\ \A c \in C : semantic[c] \in Int
    BY <1>3
  <1>8. /\ IsList(Hits(keyword, k)) /\ ToSet(Hits(keyword, k)) \subseteq D
        /\ Len(Hits(keyword, k)) <= Cardinality(D)
    <2> HIDE DEF keyword, k
    <2>1. DOMAIN keyword \subseteq Int
      BY <1>1, <1>7
    <2> QED BY <1>1, <1>2, <1>7, <2>1, HitLists
  <1>9. /\ IsList(Hits(semantic, k)) /\ ToSet(Hits(semantic, k)) \subseteq C
        /\ Len(Hits(semantic, k)) <= Cardinality(C)
        /\ \A i, j \in DOMAIN Hits(semantic, k) : Hits(semantic, k)[i] = Hits(semantic, k)[j] => i = j
        /\ Len(Hits(semantic, k)) = Small(k, Cardinality(C))
    <2> HIDE DEF semantic, k
    <2> QED BY <1>1, <1>2, <1>7, HitLists
  <1> HIDE DEF keyword, semantic, k
  <1>10. \A c : RankIn(Hits(keyword, k), c) \in 1 .. Unranked
    <2>1. ToSet(Hits(keyword, k)) \subseteq DOMAIN Corpus
      BY <1>8
    <2>2. Len(Hits(keyword, k)) <= Cardinality(DOMAIN Corpus)
      <3>1. Len(Hits(keyword, k)) \in Nat
        BY <1>8, Places
      <3> HIDE DEF D
      <3> QED BY <1>4, <1>5, <1>8, <3>1
    <2> QED BY <1>8, <2>1, <2>2, Ranks
  <1>11. \A c : RankIn(Hits(semantic, k), c) \in 1 .. Unranked
    <2>1. ToSet(Hits(semantic, k)) \subseteq DOMAIN Corpus
      BY <1>9
    <2>2. Len(Hits(semantic, k)) <= Cardinality(DOMAIN Corpus)
      <3>1. Len(Hits(semantic, k)) \in Nat
        BY <1>9, Places
      <3> QED BY <1>4, <1>5, <1>9, <3>1
    <2> QED BY <1>9, <2>1, <2>2, Ranks
  <1>12. ToSet(Hits(semantic, k)) = C \/ Cardinality(ToSet(Hits(semantic, k))) >= t.topK
    <2> DEFINE V == Hits(semantic, k)
    <2>1. Len(V) = k
      BY <1>2, <1>5, <1>9 DEF Small
    <2>2. DOMAIN V = 1 .. k /\ k \in Nat
      BY <1>2, <1>9, <2>1, Places
    <2>3. ToSet(V) = {V[i] : i \in 1 .. k} /\ ToSet(V) \subseteq C
      BY <1>9, <2>2 DEF ToSet
    <2>4. \A i, j \in 1 .. k : V[i] = V[j] => i = j
      BY <1>9, <2>2
    <2> HIDE DEF V
    <2>5. k \in Nat
      BY <2>2
    <2>6. Cardinality(ToSet(V)) = k
      <3> HIDE DEF k
      <3>1. /\ \A i \in 1 .. k : V[i] \in ToSet(V)
            /\ \A x \in ToSet(V) : \E i \in 1 .. k : x = V[i]
        BY <2>3
      <3> QED BY <2>4, <2>5, <3>1, ImageSize
    <2>7. Cardinality(C) = k => ToSet(V) = C
      BY <1>1, <2>3, <2>6, FS_Subset
    <2> QED BY <1>2, <2>6, <2>7 DEF V
  <1> QED BY <1>6, <1>8, <1>9, <1>10, <1>11, <1>12

(* Division by more gives no more. *)
LEMMA QuotientsFall ==
  ASSUME NEW a \in Nat, NEW x \in Nat \ {0}, NEW y \in Nat \ {0}, x <= y
  PROVE  a \div x \in Nat /\ a \div y <= a \div x
  <1> DEFINE p == a \div x
             q == a \div y
  <1>1. p \in Nat /\ a < x * (p + 1)
    OBVIOUS
  <1>2. q \in Nat /\ y * q <= a
    OBVIOUS
  <1> HIDE DEF p, q
  <1>3. ASSUME p < q PROVE FALSE
    <2>1. p + 1 <= q
      BY <1>1, <1>2, <1>3
    <2>2. x * (p + 1) <= x * q
      BY <1>1, <1>2, <2>1
    <2>3. x * q <= y * q
      BY <1>2
    <2>4. x * (p + 1) \in Int /\ x * q \in Int /\ y * q \in Int
      BY <1>1, <1>2
    <2> QED BY <1>1, <1>2, <2>2, <2>3, <2>4
  <1> QED BY <1>1, <1>2, <1>3 DEF p, q

(* A better rank has no smaller share in the fusion (_rrf). *)
LEMMA SharesFall ==
  /\ \A r \in 1 .. Unranked : Share(r) \in Nat
  /\ \A r, s \in 1 .. Unranked : r < s => Share(s) <= Share(r)
  <1>1. Unranked \in Nat /\ RrfK \in Nat \ {0}
    BY CorpusIsIndexed, RetrievalIsConfigured, FS_CardinalityType DEF Unranked
  <1>2. ASSUME NEW r \in 1 .. Unranked PROVE RrfK + r \in Nat \ {0}
    BY <1>1
  <1>3. ASSUME NEW r \in 1 .. Unranked PROVE Share(r) \in Nat
    BY <1>2, QuotientsFall DEF Share
  <1>4. ASSUME NEW r \in 1 .. Unranked, NEW s \in 1 .. Unranked, r < s
        PROVE  Share(s) <= Share(r)
    <2>1. CASE s = Unranked
      <3>1. Share(s) = 0
        BY <2>1 DEF Share
      <3>2. Share(r) \in Nat
        BY <1>3
      <3> QED BY <3>1, <3>2
    <2>2. CASE s # Unranked
      <3>1. r # Unranked
        BY <1>1, <1>4
      <3>2. RrfK + r <= RrfK + s
        BY <1>1, <1>4
      <3>3. 1000000 \div (RrfK + s) <= 1000000 \div (RrfK + r)
        <4>1. RrfK + r \in Nat \ {0} /\ RrfK + s \in Nat \ {0}
          BY <1>2
        <4> QED BY <3>2, <4>1, QuotientsFall
      <3> QED BY <2>2, <3>1, <3>3 DEF Share
    <2> QED BY <2>1, <2>2
  <1> QED BY <1>3, <1>4

(* The hits of a task are chunks that match it, all of them or as many as it looks for, in an order
   that respects both searches. *)
LEMMA RetrievedLists ==
  ASSUME NEW t, IsTask(t)
  PROVE  LET found == RetrieveTask(t)
             C == MatchingChunks(t.filter)
             bm25(h) == RankIn(Bm25Hits(t, C), h.chunk)
             vector(h) == RankIn(VectorHits(t, C), h.chunk)
         IN  /\ IsList(found)
             /\ \A h \in ToSet(found) : IsHit(h) /\ h.task = t.id /\ h.chunk \in C
             /\ {h.chunk : h \in ToSet(found)} = C
                \/ Cardinality({h.chunk : h \in ToSet(found)}) >= t.topK
             /\ \A i, j \in DOMAIN found : i < j =>
                  ~(/\ bm25(found[j]) < bm25(found[i])
                    /\ vector(found[j]) < vector(found[i]))
  <1> DEFINE found == RetrieveTask(t)
             C == MatchingChunks(t.filter)
             B == Bm25Hits(t, C)
             V == VectorHits(t, C)
             X == ToSet(B) \cup ToSet(V)
             rb(c) == RankIn(B, c)
             rv(c) == RankIn(V, c)
             F(c) == FusionScore(rb(c), rv(c))
             low(c) == Small(rb(c), rv(c))
             Keyed(c) == [key |-> <<-F(c), low(c), c>>]
             S == {Keyed(c) : c \in X}
             fused == Sorted(S)
  <1>1. C \subseteq DOMAIN Corpus
    BY DEF MatchingChunks
  <1> HIDE DEF C
  <1>2. /\ X \subseteq C
        /\ \A c : rb(c) \in 1 .. Unranked /\ rv(c) \in 1 .. Unranked
        /\ ToSet(V) = C \/ Cardinality(ToSet(V)) >= t.topK
        /\ ToSet(V) \subseteq X
    BY <1>1, Searches
  <1>3. IsFiniteSet(X) /\ X \subseteq Int
    BY <1>1, <1>2, CorpusIsIndexed, FS_Subset
  <1> HIDE DEF B, V, X
  <1>4. \A c : F(c) \in Int /\ low(c) \in Int /\ rb(c) \in Int /\ rv(c) \in Int
    <2> SUFFICES ASSUME NEW c PROVE F(c) \in Int /\ low(c) \in Int /\ rb(c) \in Int /\ rv(c) \in Int
      OBVIOUS
    <2>1. Share(rb(c)) \in Nat /\ Share(rv(c)) \in Nat
      BY <1>2, SharesFall
    <2>2. F(c) \in Int
      BY <2>1 DEF FusionScore
    <2>3. rb(c) \in Int /\ rv(c) \in Int
      BY <1>2
    <2> HIDE DEF rb, rv
    <2>4. low(c) \in Int
      BY <2>3, SmallLarge
    <2> QED BY <2>2, <2>3, <2>4
  <1>5. ASSUME NEW c, NEW d, rb(d) < rb(c), rv(d) < rv(c)
        PROVE  ~Precedes(<<-F(c), low(c), c>>, <<-F(d), low(d), d>>)
    <2>1. Share(rb(c)) <= Share(rb(d)) /\ Share(rv(c)) <= Share(rv(d))
      BY <1>2, <1>5, SharesFall
    <2>2. Share(rb(c)) \in Nat /\ Share(rv(c)) \in Nat /\ Share(rb(d)) \in Nat /\ Share(rv(d)) \in Nat
      BY <1>2, SharesFall
    <2>3. F(c) <= F(d)
      BY <2>1, <2>2 DEF FusionScore
    <2>4. /\ rb(c) \in Int /\ rv(c) \in Int /\ rb(d) \in Int /\ rv(d) \in Int
      BY <1>4
    <2>5. low(d) < low(c)
      <3> HIDE DEF rb, rv
      <3> QED BY <1>5, <2>4 DEF Small
    <2>6. F(c) \in Int /\ F(d) \in Int /\ low(c) \in Int /\ low(d) \in Int
      BY <1>4
    <2> HIDE DEF F, low, rb, rv
    <2> DEFINE a == <<-F(c), low(c), c>>
               b == <<-F(d), low(d), d>>
    <2>7. ASSUME NEW i \in 1 .. 3, a[i] < b[i], \A j \in 1 .. i - 1 : a[j] = b[j] PROVE FALSE
      <3>1. a[1] = -F(c) /\ b[1] = -F(d) /\ a[2] = low(c) /\ b[2] = low(d)
        OBVIOUS
      <3>2. ~(a[1] < b[1])
        BY <2>3, <2>6, <3>1
      <3>3. ~(a[2] < b[2]) /\ a[2] # b[2]
        BY <2>5, <2>6, <3>1
      <3> HIDE DEF a, b
      <3>4. i = 1 \/ i = 2 \/ i = 3
        OBVIOUS
      <3>5. i # 3
        BY <2>7, <3>3
      <3> QED BY <2>7, <3>2, <3>3, <3>4, <3>5
    <2>8. DOMAIN a = 1 .. 3
      OBVIOUS
    <2> HIDE DEF a, b
    <2>9. ~Precedes(a, b)
      BY <2>7, <2>8 DEF Precedes
    <2> QED BY <2>9 DEF a, b
  <1> HIDE DEF F, low, rb, rv
  <1>6. Sortable(S)
    <2>1. IsFiniteSet(S)
      <3> DEFINE f == [c \in X |-> Keyed(c)]
      <3>1. S = {f[c] : c \in X}
        OBVIOUS
      <3> HIDE DEF f, S
      <3> QED BY <1>3, <3>1, Image
    <2>2. \A r \in S : r.key \in [1 .. 3 -> Int]
      <3> SUFFICES ASSUME NEW c \in X PROVE Keyed(c).key \in [1 .. 3 -> Int]
        OBVIOUS
      <3>1. c \in Int /\ -F(c) \in Int /\ low(c) \in Int
        BY <1>3, <1>4
      <3>2. <<-F(c), low(c), c>> \in [1 .. 3 -> Int]
        BY <3>1
      <3> QED BY <3>2
    <2>3. \A r, o \in S : r.key = o.key => r = o
      OBVIOUS
    <2>4. 3 \in Nat
      OBVIOUS
    <2> HIDE DEF S
    <2> QED BY <2>1, <2>2, <2>3, <2>4 DEF Sortable
  <1>7. /\ Cardinality(S) \in Nat /\ DOMAIN fused = 1 .. Cardinality(S)
        /\ Len(fused) = Cardinality(S)
        /\ \A i \in DOMAIN fused : fused[i] \in S
        /\ \A i, j \in DOMAIN fused : i < j <=> Precedes(fused[i].key, fused[j].key)
    <2> HIDE DEF S
    <2> QED BY <1>6, SortedLists
  <1> DEFINE n == Small(t.topK, Len(fused))
             Hit(i) == [task |-> t.id, chunk |-> fused[i].key[3], rank |-> i,
                        fusion |-> -fused[i].key[1]]
  <1>8. found = [i \in 1 .. n |-> Hit(i)]
    BY DEF RetrieveTask, B, V, X, F, low, rb, rv, C
  <1>9. n \in Nat /\ 1 .. n \subseteq DOMAIN fused
    <2>1. Len(fused) = Cardinality(S)
      BY <1>7
    <2>2. t.topK \in Nat
      BY DEF IsTask
    <2> HIDE DEF S, fused
    <2> QED BY <1>7, <2>1, <2>2 DEF Small
  <1>10. ASSUME NEW i \in 1 .. n
         PROVE  \E c \in X : fused[i] = Keyed(c) /\ Hit(i) = [task |-> t.id, chunk |-> c, rank |-> i, fusion |-> F(c)]
    <2>1. fused[i] \in S
      BY <1>7, <1>9
    <2> HIDE DEF fused
    <2>2. PICK c \in X : fused[i] = Keyed(c)
      BY <2>1
    <2>3. F(c) \in Int
      BY <1>4
    <2>4. -(-F(c)) = F(c)
      BY <2>3
    <2>5. fused[i].key = <<-F(c), low(c), c>>
      BY <2>2
    <2>6. fused[i].key[3] = c /\ fused[i].key[1] = -F(c)
      BY <2>5
    <2>7. Hit(i) = [task |-> t.id, chunk |-> c, rank |-> i, fusion |-> F(c)]
      BY <2>4, <2>6
    <2> HIDE DEF Hit, Keyed
    <2> QED BY <2>2, <2>7
  <1> HIDE DEF n, Hit, found, fused
  <1>11. ASSUME NEW i \in 1 .. n PROVE IsHit(Hit(i)) /\ Hit(i).task = t.id /\ Hit(i).chunk \in C
    <2>1. PICK c \in X : Hit(i) = [task |-> t.id, chunk |-> c, rank |-> i, fusion |-> F(c)]
      BY <1>10
    <2>2. c \in C /\ c \in DOMAIN Corpus /\ i \in Int /\ F(c) \in Int
      BY <1>1, <1>2, <1>4, <1>9
    <2> QED BY <2>1, <2>2 DEF IsHit
  <1>12. IsList(found) /\ ToSet(found) = {Hit(i) : i \in 1 .. n}
    <2>1. ToSet(found) = {Hit(i) : i \in 1 .. n}
      BY <1>8 DEF ToSet
    <2>2. found \in Seq({Hit(i) : i \in 1 .. n})
      BY <1>8, <1>9
    <2> QED BY <2>1, <2>2 DEF IsList
  <1>13. \A h \in ToSet(found) : IsHit(h) /\ h.task = t.id /\ h.chunk \in C
    BY <1>11, <1>12
  <1>14. ASSUME NEW i \in DOMAIN found, NEW j \in DOMAIN found, i < j
         PROVE  ~(rb(found[j].chunk) < rb(found[i].chunk) /\ rv(found[j].chunk) < rv(found[i].chunk))
    <2>1. i \in 1 .. n /\ j \in 1 .. n /\ found[i] = Hit(i) /\ found[j] = Hit(j)
      BY <1>8
    <2>2. PICK c \in X : fused[i] = Keyed(c) /\ Hit(i) = [task |-> t.id, chunk |-> c, rank |-> i, fusion |-> F(c)]
      BY <1>10, <2>1
    <2>3. PICK d \in X : fused[j] = Keyed(d) /\ Hit(j) = [task |-> t.id, chunk |-> d, rank |-> j, fusion |-> F(d)]
      BY <1>10, <2>1
    <2>4. found[i].chunk = c /\ found[j].chunk = d
      BY <2>1, <2>2, <2>3
    <2>5. Precedes(fused[i].key, fused[j].key)
      <3> HIDE DEF S
      <3> QED BY <1>7, <1>9, <1>14, <2>1
    <2>6. Precedes(<<-F(c), low(c), c>>, <<-F(d), low(d), d>>)
      BY <2>2, <2>3, <2>5
    <2> QED BY <1>5, <2>4, <2>6
  <1>15. \A i, j \in DOMAIN found : i < j =>
           ~(rb(found[j].chunk) < rb(found[i].chunk) /\ rv(found[j].chunk) < rv(found[i].chunk))
    BY <1>14
  <1>16. {h.chunk : h \in ToSet(found)} = C \/ Cardinality({h.chunk : h \in ToSet(found)}) >= t.topK
    <2> DEFINE G == [i \in 1 .. n |-> Hit(i).chunk]
               H == {G[i] : i \in 1 .. n}
    <2>1. {h.chunk : h \in ToSet(found)} = H
      <3>1. \A i \in 1 .. n : G[i] = Hit(i).chunk
        OBVIOUS
      <3> HIDE DEF G
      <3> QED BY <1>12, <3>1
    <2>2. ASSUME NEW i \in 1 .. n
          PROVE  G[i] \in X /\ fused[i] = Keyed(G[i])
      <3>1. PICK c \in X : fused[i] = Keyed(c) /\ Hit(i) = [task |-> t.id, chunk |-> c, rank |-> i, fusion |-> F(c)]
        BY <1>10
      <3>2. G[i] = c
        BY <3>1
      <3> HIDE DEF G
      <3> QED BY <3>1, <3>2
    <2> HIDE DEF G
    <2>3. \A i, j \in 1 .. n : G[i] = G[j] => i = j
      <3> SUFFICES ASSUME NEW i \in 1 .. n, NEW j \in 1 .. n, G[i] = G[j] PROVE i = j
        OBVIOUS
      <3>1. fused[i] = fused[j]
        <4> HIDE DEF Keyed
        <4> QED BY <2>2
      <3>2. ~(i < j) /\ ~(j < i)
        <4>1. PICK m \in Nat : \A r \in S : r.key \in [1 .. m -> Int]
          BY <1>6 DEF Sortable
        <4>2. fused[i] \in S /\ i \in DOMAIN fused /\ j \in DOMAIN fused
          BY <1>7, <1>9
        <4>3. ~Precedes(fused[i].key, fused[i].key)
          BY <4>1, <4>2, TuplesInOrder
        <4> HIDE DEF S
        <4> QED BY <1>7, <3>1, <4>2, <4>3
      <3> QED BY <3>2
    <2>4. IsFiniteSet(H) /\ Cardinality(H) = n
      BY <1>9, <2>3, ImageSize
    <2>5. H \subseteq X
      BY <2>2
    <2>6. n = t.topK \/ H = X
      <3>1. Cardinality(S) = Cardinality(X)
        <4> DEFINE f == [c \in X |-> Keyed(c)]
        <4>1. f \in [X -> S] /\ \A c \in X : f[c] = Keyed(c)
          <5> HIDE DEF Keyed
          <5> QED OBVIOUS
        <4>2. \A c, d \in X : Keyed(c) = Keyed(d) => c = d
          <5> SUFFICES ASSUME NEW c \in X, NEW d \in X, Keyed(c) = Keyed(d) PROVE c = d
            OBVIOUS
          <5>1. Keyed(c).key = <<-F(c), low(c), c>> /\ Keyed(d).key = <<-F(d), low(d), d>>
            OBVIOUS
          <5> HIDE DEF Keyed
          <5>2. <<-F(c), low(c), c>> = <<-F(d), low(d), d>>
            BY <5>1
          <5> QED BY <5>2
        <4>3. \A r \in S : \E c \in X : r = Keyed(c)
          <5> HIDE DEF Keyed
          <5> QED OBVIOUS
        <4> HIDE DEF f, S, Keyed
        <4>4. f \in Bijection(X, S)
          BY <4>1, <4>2, <4>3 DEF Bijection, Injection, IsInjective, Surjection
        <4>5. ExistsBijection(X, S)
          BY <4>4 DEF ExistsBijection
        <4> QED BY <1>3, <4>5, FS_Bijection
      <3>2. n = t.topK \/ n = Cardinality(X)
        <4>1. Len(fused) = Cardinality(S)
          BY <1>7
        <4> HIDE DEF S
        <4> QED BY <3>1, <4>1 DEF Small, n
      <3>3. n = Cardinality(X) => H = X
        <4> HIDE DEF H
        <4> QED BY <1>3, <2>4, <2>5, FS_Subset
      <3> QED BY <3>2, <3>3
    <2>7. CASE n = t.topK
      <3>1. Cardinality(H) >= t.topK
        <4> HIDE DEF H
        <4> QED BY <1>9, <2>4, <2>7
      <3> QED BY <2>1, <3>1
    <2>8. CASE H = X
      <3>1. CASE ToSet(V) = C
        <4>1. X = C
          BY <1>2, <3>1
        <4> QED BY <2>1, <2>8, <4>1
      <3>2. CASE Cardinality(ToSet(V)) >= t.topK
        <4>1. Cardinality(ToSet(V)) <= Cardinality(X) /\ IsFiniteSet(ToSet(V))
          BY <1>2, <1>3, FS_Subset
        <4>2. Cardinality(ToSet(V)) \in Nat /\ Cardinality(X) \in Nat /\ t.topK \in Nat
          BY <1>3, <4>1, FS_CardinalityType DEF IsTask
        <4>3. Cardinality(X) >= t.topK
          BY <3>2, <4>1, <4>2
        <4> HIDE DEF H
        <4> QED BY <2>1, <2>8, <4>3
      <3> QED BY <1>2, <3>1, <3>2
    <2> QED BY <2>6, <2>7, <2>8
  <1> QED BY <1>12, <1>13, <1>15, <1>16 DEF found, rb, rv, B, V, C

(* Hits and evidence of one task. *)
HitsFor(t, list) == IsList(list) /\ \A h \in ToSet(list) : IsHit(h) /\ h.task = t.id
ItemsFor(t, list) ==
  IsList(list) /\ \A e \in ToSet(list) : IsItem(e) /\ e.task = t.id /\ e.category = t.category

(* What is picked at some places of a list is what stands at them. *)
LEMMA SomePlaces ==
  ASSUME NEW list, IsList(list), NEW places, places \subseteq DOMAIN list
  PROVE  /\ IsList(Picked(list, places)) /\ ToSet(Picked(list, places)) \subseteq ToSet(list)
         /\ \A i \in places : list[i] \in ToSet(Picked(list, places))
         /\ \A x \in ToSet(Picked(list, places)) : \E i \in places : x = list[i]
  <1>1. places \subseteq Int /\ IsFiniteSet(places)
    BY Places, FS_Subset
  <1>2. /\ IsList(Picked(list, places))
        /\ ToSet(Picked(list, places)) = {list[i] : i \in places}
    BY <1>1, PickedLists
  <1>3. {list[i] : i \in places} \subseteq ToSet(list)
    BY DEF ToSet
  <1> QED BY <1>2, <1>3

(* The selection of the best records of a task takes none that is not of the task. *)
LEMMA SelectedRecords ==
  ASSUME NEW t, NEW list, HitsFor(t, list)
  PROVE  HitsFor(t, SelectRecords(t, list))
  <1> DEFINE protected == ProtectedRecords(t, list)
             others == Picked(list, {i \in DOMAIN list : list[i] \notin protected})
             room == EffectiveTopK(t, protected, list) - Cardinality(protected)
             kept == protected \cup {others[i] : i \in 1 .. Small(room, Len(others))}
             places == {i \in DOMAIN list : list[i] \in kept}
  <1>1. SelectRecords(t, list) = Picked(list, places)
    BY DEF SelectRecords
  <1>2. places \subseteq DOMAIN list
    OBVIOUS
  <1> HIDE DEF places
  <1> QED BY <1>1, <1>2, SomePlaces DEF HitsFor

(* Evidence is made of hits of the task, and names its category. *)
LEMMA MadeEvidence ==
  ASSUME NEW t, IsTask(t), NEW list, HitsFor(t, list), NEW via
  PROVE  ItemsFor(t, AsEvidence(t, list, via))
  <1> DEFINE made == AsEvidence(t, list, via)
             Made(i) == Evidence(t, list[i], via, i)
  <1>1. Len(list) \in Nat /\ DOMAIN list = 1 .. Len(list)
    BY Places DEF HitsFor
  <1>2. made = [i \in 1 .. Len(list) |-> Made(i)]
    BY <1>1 DEF AsEvidence
  <1>3. ASSUME NEW i \in 1 .. Len(list)
        PROVE  IsItem(Made(i)) /\ Made(i).task = t.id /\ Made(i).category = t.category
    <2>1. IsHit(list[i])
      BY <1>1 DEF HitsFor, ToSet
    <2>2. list[i].chunk \in DOMAIN Corpus /\ list[i].fusion \in Int /\ i \in Int
      BY <1>1, <2>1 DEF IsHit
    <2>3. Cross(t, list[i].chunk) \in Int
      BY <2>2, ScoresAreNumbers DEF IsTask, Wordings, Cross
    <2> QED BY <2>2, <2>3 DEF Evidence, IsItem, NoScore
  <1> HIDE DEF Made, made
  <1>4. made \in Seq({Made(i) : i \in 1 .. Len(list)})
    BY <1>1, <1>2
  <1>5. IsList(made) /\ ToSet(made) \subseteq {Made(i) : i \in 1 .. Len(list)}
    BY <1>4, ListsOf
  <1>6. ItemsFor(t, made)
    BY <1>3, <1>5 DEF ItemsFor
  <1> QED BY <1>6 DEF made

(* Whatever way a task is ranked, the evidence is of its hits. *)
LEMMA RankedLists ==
  ASSUME NEW t, IsTask(t), NEW list, HitsFor(t, list)
  PROVE  /\ ItemsFor(t, RerankTask(t, list))
         /\ ItemsFor(t, FallbackTask(t, list))
         /\ ItemsFor(t, PassThrough(t, list))
  <1> DEFINE Keyed(h) == [key |-> <<-Cross(t, h.chunk), -h.fusion, h.rank, h.chunk>>, item |-> h]
             H == ToSet(list)
             S == {Keyed(h) : h \in H}
             ranked == Ordered(S)
  <1>1. \A h \in H : IsHit(h) /\ h.task = t.id
    BY DEF HitsFor
  <1>2. IsFiniteSet(H)
    <2>1. IsFiniteSet(DOMAIN list)
      BY Places DEF HitsFor
    <2> QED BY <2>1, Image DEF ToSet
  <1> HIDE DEF H
  <1>3. ASSUME NEW h \in H
        PROVE  Cross(t, h.chunk) \in Int /\ h.fusion \in Int /\ h.rank \in Int /\ h.chunk \in Int
    <2>1. h.chunk \in DOMAIN Corpus /\ h.fusion \in Int /\ h.rank \in Int
      BY <1>1 DEF IsHit
    <2>2. Cross(t, h.chunk) \in Int
      BY <2>1, ScoresAreNumbers DEF IsTask, Wordings, Cross
    <2> QED BY <2>1, <2>2, CorpusIsIndexed
  <1>4. Sortable(S)
    <2>1. IsFiniteSet(S)
      <3> DEFINE f == [h \in H |-> Keyed(h)]
      <3>1. S = {f[h] : h \in H}
        OBVIOUS
      <3> HIDE DEF f, S
      <3> QED BY <1>2, <3>1, Image
    <2>2. \A r \in S : r.key \in [1 .. 4 -> Int]
      <3> SUFFICES ASSUME NEW h \in H PROVE Keyed(h).key \in [1 .. 4 -> Int]
        OBVIOUS
      <3>1. /\ -Cross(t, h.chunk) \in Int /\ -h.fusion \in Int /\ h.rank \in Int
            /\ h.chunk \in Int
        BY <1>3
      <3>2. <<-Cross(t, h.chunk), -h.fusion, h.rank, h.chunk>> \in [1 .. 4 -> Int]
        BY <3>1
      <3> QED BY <3>2
    <2>3. ASSUME NEW h \in H, NEW g \in H, Keyed(h).key = Keyed(g).key PROVE h = g
      <3>1. /\ -h.fusion = -g.fusion /\ h.rank = g.rank /\ h.chunk = g.chunk
        BY <2>3
      <3>2. h.fusion = g.fusion
        BY <1>3, <3>1
      <3>3. h.task = g.task
        BY <1>1
      <3>4. /\ h = [task |-> h.task, chunk |-> h.chunk, rank |-> h.rank, fusion |-> h.fusion]
            /\ g = [task |-> g.task, chunk |-> g.chunk, rank |-> g.rank, fusion |-> g.fusion]
        BY <1>1 DEF IsHit
      <3> QED BY <3>1, <3>2, <3>3, <3>4
    <2>4. \A r, o \in S : r.key = o.key => r = o
      <3> HIDE DEF Keyed
      <3> QED BY <2>3
    <2>5. 4 \in Nat
      OBVIOUS
    <2> HIDE DEF S
    <2> QED BY <2>1, <2>2, <2>4, <2>5 DEF Sortable
  <1>5. {r.item : r \in S} = H
    <2>1. \A h : Keyed(h).item = h
      OBVIOUS
    <2> HIDE DEF Keyed
    <2> QED BY <2>1
  <1>6. HitsFor(t, ranked)
    <2>1. ranked \in Seq({r.item : r \in S})
      <3> HIDE DEF S
      <3> QED BY <1>4, OrderedLists
    <2>2. IsList(ranked) /\ ToSet(ranked) \subseteq H
      <3> HIDE DEF S, ranked
      <3> QED BY <1>5, <2>1, ListsOf
    <2> HIDE DEF S, ranked
    <2> QED BY <1>1, <2>2 DEF HitsFor
  <1>7. RerankTask(t, list) = AsEvidence(t, SelectRecords(t, ranked), "cross_encoder")
    BY DEF RerankTask, H
  <1>8. ItemsFor(t, RerankTask(t, list))
    <2> HIDE DEF ranked
    <2> QED BY <1>6, <1>7, SelectedRecords, MadeEvidence
  <1>9. ItemsFor(t, FallbackTask(t, list))
    BY SelectedRecords, MadeEvidence DEF FallbackTask
  <1>10. ItemsFor(t, PassThrough(t, list))
    BY MadeEvidence DEF PassThrough
  <1> QED BY <1>8, <1>9, <1>10

-----------------------------------------------------------------------------
(* The plans. *)

(* The most chunks of a category that a trip can demand. *)
Needed(c) ==
  CASE c = "guides" -> 2
    [] c = "safety_notices" -> Cardinality(trip.risks)
    [] OTHER -> 0
Enough(c, k) == ChunksSuffice(trip) => Needed(c) <= k

(* A task of a plan: what it looks for fits the trip, only guides and safety are demanded, and it
   looks for as many chunks as are demanded if the numbers suffice. *)
SoundTask(t) ==
  /\ t = [id |-> t.id, category |-> t.category, filter |-> t.filter, required |-> t.required,
          topK |-> t.topK, min |-> t.min, priority |-> t.priority, wording |-> t.wording]
  /\ IsTask(t) /\ t.category \in Category /\ t.required \in BOOLEAN /\ t.priority \in Int
  /\ \E r \in SUBSET trip.risks : t.filter = Filter(t.category, r)
  /\ t.required => t.category \in {"guides", "safety_notices"}
  /\ t.category = "safety_notices" => trip.risks # {}
  /\ Needed(t.category) \in Nat /\ t.min <= Needed(t.category)
  /\ Enough(t.category, t.topK)

(* The task that carries the demand of its category. *)
Carries(t, c) == t.category = c /\ t.required /\ (c = "guides" => t.min >= 2)

(* Only guides and safety are demanded, and safety only with a risk. *)
Demandable == {"guides"} \cup {c \in {"safety_notices"} : trip.risks # {}}

(* Sound tasks, and tasks that carry all that is demanded. *)
SoundTasks(s) == IsList(s) /\ \A t \in ToSet(s) : SoundTask(t)
CarriesAll(s, demanded) == \A c \in demanded : \E t \in ToSet(s) : Carries(t, c)

(* The tasks of a plan can be told apart by their ids; those of a plan by rules by their categories. *)
Apart(s) == \A i, j \in DOMAIN s : s[i].id = s[j].id => i = j
OnePerCategory(s) == \A i, j \in DOMAIN s : s[i].category = s[j].category => i = j

(* There are four categories. *)
LEMMA CategoriesFinite ==
  ASSUME NEW W, W \subseteq Category
  PROVE  IsFiniteSet(W)
  <1>1. IsFiniteSet({}) 
    BY FS_EmptySet
  <1>2. IsFiniteSet({} \cup {"guides"})
    BY <1>1, FS_AddElement
  <1>3. IsFiniteSet({} \cup {"guides"} \cup {"hotel_reviews"})
    BY <1>2, FS_AddElement
  <1>4. IsFiniteSet({} \cup {"guides"} \cup {"hotel_reviews"} \cup {"safety_notices"})
    BY <1>3, FS_AddElement
  <1>5. IsFiniteSet({} \cup {"guides"} \cup {"hotel_reviews"} \cup {"safety_notices"}
                    \cup {"packing_checklists"})
    BY <1>4, FS_AddElement
  <1>6. Category = {} \cup {"guides"} \cup {"hotel_reviews"} \cup {"safety_notices"}
                    \cup {"packing_checklists"}
    BY DEF Category
  <1> QED BY <1>5, <1>6, FS_Subset

(* A plan by rules lists its tasks, one for a category. *)
LEMMA ListsOfTasks ==
  ASSUME NEW T, IsFiniteSet(T), \A t \in T : t.category \in Category,
         \A t, u \in T : t.category = u.category => t = u
  PROVE  IsList(TaskList(T)) /\ ToSet(TaskList(T)) = T /\ OnePerCategory(TaskList(T))
  <1> DEFINE Keyed(t) == [key |-> <<CategoryOrder[t.category]>>, item |-> t]
             S == {Keyed(t) : t \in T}
  <1>1. TaskList(T) = Ordered(S)
    BY DEF TaskList
  <1>2. Sortable(S)
    <2>1. IsFiniteSet(S)
      <3> DEFINE g == [t \in T |-> Keyed(t)]
      <3>1. S = {g[t] : t \in T}
        OBVIOUS
      <3> HIDE DEF g, S
      <3> QED BY <3>1, Image
    <2>2. \A c \in Category : CategoryOrder[c] \in Int
      BY DEF CategoryOrder, Category
    <2>3. \A r \in S : r.key \in [1 .. 1 -> Int]
      <3> SUFFICES ASSUME NEW t \in T PROVE Keyed(t).key \in [1 .. 1 -> Int]
        OBVIOUS
      <3>1. CategoryOrder[t.category] \in Int
        BY <2>2
      <3>2. <<CategoryOrder[t.category]>> \in [1 .. 1 -> Int]
        BY <3>1
      <3> QED BY <3>2
    <2>4. \A c, d \in Category : CategoryOrder[c] = CategoryOrder[d] => c = d
      BY DEF CategoryOrder, Category
    <2>5. \A r, o \in S : r.key = o.key => r = o
      <3> SUFFICES ASSUME NEW t \in T, NEW u \in T, Keyed(t).key = Keyed(u).key
                   PROVE  Keyed(t) = Keyed(u)
        OBVIOUS
      <3>1. CategoryOrder[t.category] = CategoryOrder[u.category]
        OBVIOUS
      <3>2. t = u
        BY <2>4, <3>1
      <3> QED BY <3>2
    <2>6. 1 \in Nat
      OBVIOUS
    <2> HIDE DEF S
    <2> QED BY <2>1, <2>3, <2>5, <2>6 DEF Sortable
  <1>3. {r.item : r \in S} = T
    <2>1. \A t : Keyed(t).item = t
      OBVIOUS
    <2> HIDE DEF Keyed
    <2> QED BY <2>1
  <1> HIDE DEF S
  <1>4. TaskList(T) \in Seq({r.item : r \in S}) /\ ToSet(TaskList(T)) = {r.item : r \in S}
    BY <1>1, <1>2, OrderedLists
  <1>5. ASSUME NEW i \in DOMAIN TaskList(T), NEW j \in DOMAIN TaskList(T),
               TaskList(T)[i].category = TaskList(T)[j].category
        PROVE  i = j
    <2> DEFINE a == Sorted(S)[i]
               b == Sorted(S)[j]
    <2>6. i \in DOMAIN Ordered(S) /\ j \in DOMAIN Ordered(S)
      BY <1>1
    <2>1. a \in S /\ b \in S /\ TaskList(T)[i] = a.item /\ TaskList(T)[j] = b.item
      <3>1. \A k \in DOMAIN Ordered(S) : Sorted(S)[k] \in S /\ Ordered(S)[k] = Sorted(S)[k].item
        BY <1>2, OrderedLists
      <3> QED BY <1>1, <2>6, <3>1
    <2>2. a = b => i = j
      BY <1>2, <2>6, SortedOnce
    <2> HIDE DEF a, b
    <2>3. PICK t \in T : a = Keyed(t)
      BY <2>1 DEF S
    <2>4. PICK u \in T : b = Keyed(u)
      BY <2>1 DEF S
    <2>5. t.category = u.category
      BY <1>5, <2>1, <2>3, <2>4
    <2> HIDE DEF Keyed
    <2> QED BY <2>2, <2>3, <2>4, <2>5
  <1> QED BY <1>3, <1>4, <1>5 DEF IsList, OnePerCategory

(* A task of the plan by rules. *)
LEMMA TasksByRules ==
  ASSUME trip \in Trips, NEW mode, NEW c \in Category, NEW r \in SUBSET trip.risks, NEW k \in Nat,
         c = "safety_notices" => r # {}, Enough(c, k)
  PROVE  LET t == RuleTask(mode, c, r, k)
         IN  /\ SoundTask(t) /\ t.category = c /\ (c \in Demandable => Carries(t, c))
             /\ t.id = <<"rule", mode, c, 0>>
  <1> DEFINE t == RuleTask(mode, c, r, k)
  <1>1. t = [id |-> <<"rule", mode, c, 0>>, category |-> c,
             filter |-> Filter(c, r), required |-> c \in {"guides", "safety_notices"},
             topK |-> k, min |-> MinChunks(c, r), priority |-> Priority[c], wording |-> "plain"]
    BY DEF RuleTask
  <1>2. MinChunks(c, r) \in Nat /\ (c = "guides" => MinChunks(c, r) >= 2)
    <2>1. IsFiniteSet(r)
      BY TripsAreSound, FS_Subset
    <2>2. Cardinality(r) \in Nat
      BY <2>1, FS_CardinalityType
    <2>3. Large(1, Cardinality(r)) \in Nat
      BY <2>2 DEF Large
    <2>4. c = "guides" => MinChunks(c, r) = 2
      BY DEF MinChunks
    <2>5. c = "safety_notices" => MinChunks(c, r) = Large(1, Cardinality(r))
      BY DEF MinChunks
    <2>6. c \notin {"guides", "safety_notices"} => MinChunks(c, r) = 0
      BY DEF MinChunks
    <2> QED BY <2>3, <2>4, <2>5, <2>6
  <1>10. Needed(c) \in Nat /\ MinChunks(c, r) <= Needed(c)
    <2>1. IsFiniteSet(trip.risks) /\ IsFiniteSet(r)
      BY TripsAreSound, FS_Subset
    <2>2. Cardinality(r) <= Cardinality(trip.risks)
      BY <2>1, FS_Subset
    <2>3. Cardinality(r) \in Nat /\ Cardinality(trip.risks) \in Nat
      BY <2>1, FS_CardinalityType
    <2>4. CASE c = "guides"
      BY <2>4 DEF Needed, MinChunks
    <2>5. CASE c = "safety_notices"
      <3>1. Cardinality(r) # 0
        BY <2>1, <2>5, FS_EmptySet
      <3>2. Needed(c) = Cardinality(trip.risks) /\ MinChunks(c, r) = Large(1, Cardinality(r))
        BY <2>5 DEF Needed, MinChunks
      <3>3. Large(1, Cardinality(r)) = Cardinality(r)
        BY <2>3, <3>1 DEF Large
      <3> QED BY <2>2, <2>3, <3>2, <3>3
    <2>6. CASE c \notin {"guides", "safety_notices"}
      BY <2>6 DEF Needed, MinChunks
    <2> QED BY <2>4, <2>5, <2>6
  <1>3. Priority[c] \in Int
    BY DEF Priority, Category
  <1>4. c = "safety_notices" => trip.risks # {}
    OBVIOUS
  <1> HIDE DEF t
  <1>5. /\ t.category = c /\ t.filter = Filter(c, r) /\ t.topK = k /\ t.min = MinChunks(c, r)
        /\ t.wording = "plain" /\ t.priority = Priority[c]
        /\ t.required = (c \in {"guides", "safety_notices"}) /\ t.id = <<"rule", mode, c, 0>>
    BY <1>1
  <1>6. t.required \in BOOLEAN /\ (t.required <=> c \in {"guides", "safety_notices"})
    <2>1. (c \in {"guides", "safety_notices"}) \in BOOLEAN
      OBVIOUS
    <2> QED BY <1>5, <2>1, Zenon
  <1>7. t.wording \in Wordings
    BY <1>5 DEF Wordings
  <1>8. SoundTask(t)
    <2>1. t = [id |-> t.id, category |-> t.category, filter |-> t.filter, required |-> t.required,
               topK |-> t.topK, min |-> t.min, priority |-> t.priority, wording |-> t.wording]
      BY <1>1, <1>5
    <2>2. IsTask(t)
      BY <1>2, <1>5, <1>7 DEF IsTask
    <2>3. /\ Needed(t.category) \in Nat /\ t.min <= Needed(t.category)
          /\ Enough(t.category, t.topK)
      BY <1>5, <1>10
    <2> QED BY <1>3, <1>4, <1>5, <1>6, <2>1, <2>2, <2>3 DEF SoundTask
  <1>9. c \in Demandable => Carries(t, c)
    BY <1>2, <1>5, <1>6 DEF Demandable, Carries
  <1> QED BY <1>5, <1>8, <1>9 DEF t

(* The first plan looks for as many chunks as can be demanded, and so does a repair. *)
LEMMA EnoughLookedFor ==
  ASSUME trip \in Trips, NEW c \in Category
  PROVE  /\ InitialTopK(c) \in Nat
         /\ Enough(c, InitialTopK(c)) /\ Enough(c, RepairTopK[c])
  <1> DEFINE n == Cardinality(trip.risks)
  <1>1. n \in Nat /\ TopKPerRisk \in Nat \ {0} /\ TopK[c] \in Nat /\ RepairTopK[c] \in Nat
    BY TripsAreSound, FS_CardinalityType, EvidenceBounds
  <1>2. TopKPerRisk * n \in Nat /\ n <= TopKPerRisk * n
    <2> HIDE DEF n
    <2> QED BY <1>1
  <1>3. ChunksSuffice(trip) =>
          /\ TopK["guides"] >= 2 + Cardinality({d \in GuidesFor(trip) : ~Corpus[d].legible})
          /\ RepairTopK["guides"] >= 2 /\ RepairTopK["safety_notices"] >= n
    BY DEF ChunksSuffice
  <1>4. Cardinality({d \in GuidesFor(trip) : ~Corpus[d].legible}) \in Nat
    BY CorpusIsIndexed, FS_Subset, FS_CardinalityType DEF GuidesFor, MatchingChunks
  <1>5. /\ c = "guides" => Needed(c) = 2 /\ InitialTopK(c) = TopK[c]
        /\ c = "safety_notices" => Needed(c) = n /\ InitialTopK(c) = Large(TopK[c], TopKPerRisk * n)
        /\ c \notin {"guides", "safety_notices"} => Needed(c) = 0 /\ InitialTopK(c) = TopK[c]
    BY DEF Needed, InitialTopK
  <1>6. Large(TopK[c], TopKPerRisk * n) \in Nat /\ Large(TopK[c], TopKPerRisk * n) >= n
    <2> HIDE DEF n
    <2> QED BY <1>1, <1>2 DEF Large
  <1> HIDE DEF n
  <1>7. CASE c = "guides"
    BY <1>1, <1>3, <1>4, <1>5, <1>7 DEF Enough
  <1>8. CASE c = "safety_notices"
    BY <1>1, <1>3, <1>5, <1>6, <1>8 DEF Enough
  <1>9. CASE c \notin {"guides", "safety_notices"}
    BY <1>1, <1>5, <1>9 DEF Enough
  <1> QED BY <1>7, <1>8, <1>9

(* Needs, feedback and plans: what a plan looks for fits the trip, and the first plan carries all
   demands.  An exhausted plan is never made: no repair is asked for when no round is left. *)
SoundNeeds(s) == IsList(s) /\ Categories(s) \subseteq Category

SoundFeedback(fb) ==
  fb.risks \in SUBSET trip.risks /\ fb.missing \subseteq Demandable /\ SoundNeeds(fb.needs)

SoundPlan(p) ==
  /\ p = [mode |-> p.mode, tasks |-> p.tasks, needs |-> p.needs, exhausted |-> p.exhausted]
  /\ p.mode \in {"none", "initial", "repair"} /\ p.exhausted = FALSE
  /\ SoundTasks(p.tasks) /\ Apart(p.tasks) /\ SoundNeeds(p.needs)
  /\ p.mode = "initial" => CarriesAll(p.tasks, Demandable)

Empty == <<>>

(* The empty list. *)
LEMMA EmptyList == IsList(Empty) /\ ToSet(Empty) = {} /\ SoundNeeds(Empty)
  <1>1. Empty \in Seq({})
    BY DEF Empty
  <1>2. IsList(Empty) /\ ToSet(Empty) = {}
    BY <1>1, ListsOf
  <1>3. Categories(Empty) \subseteq Category
    BY DEF Categories, Empty
  <1> QED BY <1>2, <1>3 DEF SoundNeeds

(* Tasks by rules have their category in their ids. *)
LEMMA RuleIds ==
  ASSUME NEW s, NEW mode, \A t \in ToSet(s) : t.id = <<"rule", mode, t.category, 0>>,
         OnePerCategory(s)
  PROVE  Apart(s)
  <1> SUFFICES ASSUME NEW i \in DOMAIN s, NEW j \in DOMAIN s, s[i].id = s[j].id
               PROVE  i = j
    BY DEF Apart
  <1>1. s[i] \in ToSet(s) /\ s[j] \in ToSet(s)
    BY DEF ToSet
  <1>2. s[i].id = <<"rule", mode, s[i].category, 0>> /\ s[j].id = <<"rule", mode, s[j].category, 0>>
    BY <1>1
  <1>3. s[i].category = s[j].category
    <2>1. \A x, y : <<"rule", mode, x, 0>> = <<"rule", mode, y, 0>> => x = y
      OBVIOUS
    <2>2. <<"rule", mode, s[i].category, 0>> = <<"rule", mode, s[j].category, 0>>
      BY <1>2
    <2> QED BY <2>1, <2>2
  <1> QED BY <1>3 DEF OnePerCategory

(* The plan by rules, first or repair: it is not empty, not exhausted when a repair was asked for,
   and its tasks carry every demand. *)
LEMMA PlansByRules ==
  ASSUME trip \in Trips, SoundFeedback(feedback), retries \in Nat,
         HasRepairRequest(feedback) => retries < MaxRepairs
  PROVE  /\ SoundPlan(RulePlan)
         /\ RulePlan.mode = IF HasRepairRequest(feedback) THEN "repair" ELSE "initial"
         /\ RulePlan.tasks # <<>>
         /\ \A t \in ToSet(RulePlan.tasks) : t.category \in Demandable => Carries(t, t.category)
         /\ OnePerCategory(RulePlan.tasks)
         /\ RulePlan.needs = <<>>
         /\ ~HasRepairRequest(feedback) =>
              \A c \in Demandable :
                RuleTask("initial", c, trip.risks, InitialTopK(c)) \in ToSet(RulePlan.tasks)
         /\ feedback.risks # {} =>
              RuleTask("repair", "safety_notices", feedback.risks, RepairTopK["safety_notices"])
                \in ToSet(RulePlan.tasks)
  <1> USE DEF Empty
  <1>1. ASSUME ~HasRepairRequest(feedback)
        PROVE  /\ SoundPlan(InitialPlan) /\ InitialPlan.mode = "initial"
               /\ InitialPlan.tasks # <<>>
               /\ \A t \in ToSet(InitialPlan.tasks) : t.category \in Demandable => Carries(t, t.category)
               /\ OnePerCategory(InitialPlan.tasks) /\ InitialPlan.needs = <<>>
               /\ \A c \in Demandable :
                    RuleTask("initial", c, trip.risks, InitialTopK(c)) \in ToSet(InitialPlan.tasks)
    <2> DEFINE W == {"guides", "packing_checklists"}
                    \cup (IF trip.hotel # {} THEN {"hotel_reviews"} ELSE {})
                    \cup (IF trip.risks # {} THEN {"safety_notices"} ELSE {})
               f == [c \in W |-> RuleTask("initial", c, trip.risks, InitialTopK(c))]
               T == {f[c] : c \in W}
               L == TaskList(T)
    <2>1. W \subseteq Category /\ Demandable \subseteq W
      BY DEF Category, Demandable
    <2>2. \A c \in W : c = "safety_notices" => trip.risks # {}
      OBVIOUS
    <2>3. InitialPlan = [mode |-> "initial", needs |-> <<>>, exhausted |-> FALSE, tasks |-> L]
      <3>1. {RuleTask("initial", c, trip.risks, InitialTopK(c)) : c \in W} = {f[c] : c \in W}
        <4> HIDE DEF W
        <4> QED OBVIOUS
      <3> QED BY <3>1 DEF InitialPlan
    <2>4. ASSUME NEW c \in W
          PROVE  /\ SoundTask(f[c]) /\ f[c].category = c /\ (c \in Demandable => Carries(f[c], c))
                 /\ f[c].id = <<"rule", "initial", c, 0>>
      <3>1. InitialTopK(c) \in Nat
        <4>1. TopK[c] \in Nat /\ TopKPerRisk \in Nat
          BY <2>1, EvidenceBounds
        <4>2. Cardinality(trip.risks) \in Nat
          BY TripsAreSound, FS_CardinalityType
        <4>3. TopKPerRisk * Cardinality(trip.risks) \in Nat
          BY <4>1, <4>2
        <4> QED BY <4>1, <4>3 DEF InitialTopK, Large
      <3>2. f[c] = RuleTask("initial", c, trip.risks, InitialTopK(c))
        <4> HIDE DEF W
        <4> QED OBVIOUS
      <3>5. Enough(c, InitialTopK(c))
        BY <2>1, <2>2, EnoughLookedFor
      <3>3. c \in Category /\ trip.risks \in SUBSET trip.risks
        BY <2>1
      <3> HIDE DEF f, W
      <3> DEFINE t == RuleTask("initial", c, trip.risks, InitialTopK(c))
      <3>4. /\ SoundTask(t) /\ t.category = c /\ (c \in Demandable => Carries(t, c))
            /\ t.id = <<"rule", "initial", c, 0>>
        <4> DEFINE k == InitialTopK(c)
        <4>1. k \in Nat /\ Enough(c, k) /\ (c = "safety_notices" => trip.risks # {})
          BY <2>2, <3>1, <3>5
        <4> HIDE DEF k
        <4>2. LET u == RuleTask("initial", c, trip.risks, k)
              IN  /\ SoundTask(u) /\ u.category = c /\ (c \in Demandable => Carries(u, c))
                  /\ u.id = <<"rule", "initial", c, 0>>
          BY <3>3, <4>1, TasksByRules
        <4> QED BY <4>2 DEF k
      <3> HIDE DEF t
      <3> QED BY <3>2, <3>4 DEF t
    <2>5. IsList(L) /\ ToSet(L) = T /\ OnePerCategory(L)
      <3> HIDE DEF f, W
      <3>1. IsFiniteSet(T)
        <4>1. IsFiniteSet(W)
          BY <2>1, CategoriesFinite
        <4>2. T = {f[c] : c \in W}
          OBVIOUS
        <4> HIDE DEF T
        <4> QED BY <4>1, <4>2, Image
      <3>2. /\ \A t \in T : t.category \in Category
            /\ \A t, u \in T : t.category = u.category => t = u
        BY <2>1, <2>4
      <3> HIDE DEF T
      <3> QED BY <3>1, <3>2, ListsOfTasks
    <2>6. SoundTasks(L) /\ CarriesAll(L, Demandable)
      <3> HIDE DEF f, W, L
      <3> QED BY <2>1, <2>4, <2>5 DEF SoundTasks, CarriesAll
    <2>7. \A t \in ToSet(L) : t.category \in Demandable => Carries(t, t.category)
      <3> SUFFICES ASSUME NEW c \in W, f[c].category \in Demandable
                   PROVE  Carries(f[c], f[c].category)
        <4> HIDE DEF f, W, L
        <4> QED BY <2>5 DEF T
      <3> HIDE DEF f, W
      <3> QED BY <2>4
    <2>8. L # <<>>
      <3>1. "guides" \in Demandable
        BY DEF Demandable
      <3> HIDE DEF f, W, L
      <3>2. ToSet(L) # {}
        BY <2>6, <3>1 DEF CarriesAll
      <3> QED BY <3>2, EmptyList
    <2>11. Apart(L)
      <3> HIDE DEF f, W, L
      <3> QED BY <2>4, <2>5, RuleIds
    <2> HIDE DEF L
    <2>9. /\ InitialPlan.mode = "initial" /\ InitialPlan.needs = <<>>
          /\ InitialPlan.exhausted = FALSE /\ InitialPlan.tasks = L
      BY <2>3
    <2>10. SoundPlan(InitialPlan)
      BY <2>3, <2>6, <2>9, <2>11, EmptyList DEF SoundPlan
    <2>12. \A c \in Demandable : RuleTask("initial", c, trip.risks, InitialTopK(c)) \in ToSet(L)
      <3> SUFFICES ASSUME NEW c \in Demandable
                   PROVE  RuleTask("initial", c, trip.risks, InitialTopK(c)) \in T
        BY <2>5
      <3>1. c \in W
        BY <2>1
      <3> HIDE DEF W
      <3> QED BY <3>1
    <2> QED BY <2>5, <2>7, <2>8, <2>9, <2>10, <2>12
  <1>2. ASSUME HasRepairRequest(feedback)
        PROVE  /\ SoundPlan(RepairPlan(feedback)) /\ RepairPlan(feedback).mode = "repair"
               /\ RepairPlan(feedback).tasks # <<>>
               /\ \A t \in ToSet(RepairPlan(feedback).tasks) : t.category \in Demandable => Carries(t, t.category)
               /\ OnePerCategory(RepairPlan(feedback).tasks) /\ RepairPlan(feedback).needs = <<>>
               /\ feedback.risks # {} =>
                    RuleTask("repair", "safety_notices", feedback.risks, RepairTopK["safety_notices"])
                      \in ToSet(RepairPlan(feedback).tasks)
    <2> DEFINE fb == feedback
               R == TargetRisks(fb)
               W == (fb.missing \cap {"guides", "packing_checklists"})
                    \cup (IF trip.hotel # {} THEN fb.missing \cap {"hotel_reviews"} ELSE {})
                    \cup (IF R # {} /\ ("safety_notices" \in fb.missing \/ fb.risks # {})
                          THEN {"safety_notices"} ELSE {})
               Risks(c) == IF c = "safety_notices" THEN R ELSE trip.risks
               f == [c \in W |-> RuleTask("repair", c, Risks(c), RepairTopK[c])]
               T == {f[c] : c \in W}
               L == TaskList(T)
    <2>1. W \subseteq Category
      BY DEF Category
    <2>2. R \in SUBSET trip.risks /\ \A c \in W : c = "safety_notices" => R # {}
      BY DEF TargetRisks, SoundFeedback
    <2>3. RepairPlan(feedback) = [mode |-> "repair", needs |-> <<>>, exhausted |-> FALSE, tasks |-> L]
      <3>1. {RuleTask("repair", c, Risks(c), RepairTopK[c]) : c \in W} = {f[c] : c \in W}
        <4> HIDE DEF W, R
        <4> QED OBVIOUS
      <3>2. ~(retries >= MaxRepairs)
        BY <1>2, EvidenceBounds
      <3> QED BY <3>1, <3>2 DEF RepairPlan
    <2>4. ASSUME NEW c \in W
          PROVE  /\ SoundTask(f[c]) /\ f[c].category = c /\ (c \in Demandable => Carries(f[c], c))
                 /\ f[c].id = <<"rule", "repair", c, 0>>
      <3>1. RepairTopK[c] \in Nat
        BY <2>1, EvidenceBounds
      <3>6. Enough(c, RepairTopK[c])
        BY <2>1, EnoughLookedFor
      <3>2. f[c] = RuleTask("repair", c, Risks(c), RepairTopK[c])
        <4> HIDE DEF W, R
        <4> QED OBVIOUS
      <3>3. c \in Category /\ Risks(c) \in SUBSET trip.risks
        BY <2>1, <2>2
      <3>4. c = "safety_notices" => Risks(c) # {}
        BY <2>2
      <3> HIDE DEF f, W, Risks
      <3> DEFINE t == RuleTask("repair", c, Risks(c), RepairTopK[c])
      <3>5. /\ SoundTask(t) /\ t.category = c /\ (c \in Demandable => Carries(t, c))
            /\ t.id = <<"rule", "repair", c, 0>>
        BY <3>1, <3>3, <3>4, <3>6, TasksByRules
      <3> HIDE DEF t
      <3> QED BY <3>2, <3>5 DEF t
    <2>5. IsList(L) /\ ToSet(L) = T /\ OnePerCategory(L)
      <3> HIDE DEF f, W
      <3>1. IsFiniteSet(T)
        <4>1. IsFiniteSet(W)
          BY <2>1, CategoriesFinite
        <4>2. T = {f[c] : c \in W}
          OBVIOUS
        <4> HIDE DEF T
        <4> QED BY <4>1, <4>2, Image
      <3>2. /\ \A t \in T : t.category \in Category
            /\ \A t, u \in T : t.category = u.category => t = u
        BY <2>1, <2>4
      <3> HIDE DEF T
      <3> QED BY <3>1, <3>2, ListsOfTasks
    <2>6. SoundTasks(L)
      <3> HIDE DEF f, W, L
      <3> QED BY <2>4, <2>5 DEF SoundTasks
    <2>7. \A t \in ToSet(L) : t.category \in Demandable => Carries(t, t.category)
      <3> SUFFICES ASSUME NEW c \in W, f[c].category \in Demandable
                   PROVE  Carries(f[c], f[c].category)
        <4> HIDE DEF f, W, L
        <4> QED BY <2>5 DEF T
      <3> HIDE DEF f, W
      <3> QED BY <2>4
    <2>8. W # {}
      <3>1. fb.missing # {} \/ fb.risks # {}
        BY <1>2 DEF HasRepairRequest
      <3>2. CASE fb.risks # {}
        <4>1. R # {}
          BY <3>2 DEF TargetRisks
        <4> QED BY <3>2, <4>1
      <3>3. CASE fb.risks = {}
        <4>1. PICK c \in fb.missing : c \in Demandable
          BY <3>1, <3>3 DEF SoundFeedback
        <4>2. c = "guides" \/ (c = "safety_notices" /\ trip.risks # {})
          BY <4>1 DEF Demandable
        <4>3. R = trip.risks
          BY <3>3 DEF TargetRisks
        <4> QED BY <4>1, <4>2, <4>3
      <3> QED BY <3>2, <3>3
    <2>9. L # <<>>
      <3> HIDE DEF f, W, L
      <3>1. ToSet(L) # {}
        BY <2>5, <2>8
      <3> QED BY <3>1, EmptyList
    <2>12. Apart(L)
      <3> HIDE DEF f, W, L
      <3> QED BY <2>4, <2>5, RuleIds
    <2> HIDE DEF L
    <2>10. /\ RepairPlan(feedback).mode = "repair" /\ RepairPlan(feedback).needs = <<>>
           /\ RepairPlan(feedback).exhausted = FALSE /\ RepairPlan(feedback).tasks = L
      BY <2>3
    <2>11. SoundPlan(RepairPlan(feedback))
      BY <2>3, <2>6, <2>10, <2>12, EmptyList DEF SoundPlan
    <2>13. fb.risks # {} =>
             RuleTask("repair", "safety_notices", fb.risks, RepairTopK["safety_notices"]) \in ToSet(L)
      <3> SUFFICES ASSUME fb.risks # {}
                   PROVE  RuleTask("repair", "safety_notices", fb.risks, RepairTopK["safety_notices"]) \in T
        BY <2>5
      <3>1. R = fb.risks
        BY DEF TargetRisks
      <3>2. "safety_notices" \in W /\ Risks("safety_notices") = fb.risks
        BY <3>1
      <3>3. f["safety_notices"] = RuleTask("repair", "safety_notices", fb.risks, RepairTopK["safety_notices"])
        <4> HIDE DEF W, R
        <4> QED BY <3>2
      <3> HIDE DEF f, W
      <3> QED BY <3>2, <3>3
    <2> QED BY <2>5, <2>7, <2>9, <2>10, <2>11, <2>13
  <1>3. feedback.risks # {} => HasRepairRequest(feedback)
    BY DEF HasRepairRequest
  <1> QED BY <1>1, <1>2, <1>3 DEF RulePlan

(* The categories of a list are those of its members. *)
LEMMA CategoriesOf ==
  ASSUME NEW s
  PROVE  Categories(s) = {x.category : x \in ToSet(s)}
  BY DEF Categories, ToSet

(* A list with something for each place of another list. *)
LEMMA MappedLists ==
  ASSUME NEW s, IsList(s), NEW g, g = [i \in DOMAIN s |-> g[i]]
  PROVE  IsList(g) /\ ToSet(g) = {g[i] : i \in DOMAIN s}
  <1>1. Len(s) \in Nat /\ DOMAIN s = 1 .. Len(s)
    BY Places
  <1>2. DOMAIN g = 1 .. Len(s) /\ ToSet(g) = {g[i] : i \in DOMAIN s}
    BY <1>1 DEF ToSet
  <1>3. g = [i \in 1 .. Len(s) |-> g[i]] /\ \A i \in 1 .. Len(s) : g[i] \in ToSet(g)
    BY <1>1, <1>2
  <1>4. g \in Seq(ToSet(g))
    BY <1>1, <1>3
  <1> QED BY <1>2, <1>4 DEF IsList

(* The first part of a list. *)
LEMMA FirstOfLists ==
  ASSUME NEW s, IsList(s), NEW k \in Int, k <= Len(s)
  PROVE  /\ IsList(SubSeq(s, 1, k)) /\ ToSet(SubSeq(s, 1, k)) \subseteq ToSet(s)
         /\ \A i \in DOMAIN SubSeq(s, 1, k) : i \in DOMAIN s /\ SubSeq(s, 1, k)[i] = s[i]
  <1>1. Len(s) \in Nat /\ DOMAIN s = 1 .. Len(s)
    BY Places
  <1>2. \A i \in 1 .. k : s[i] \in ToSet(s)
    BY <1>1 DEF ToSet
  <1>3. SubSeq(s, 1, k) \in Seq(ToSet(s))
    BY <1>2, SubSeqProperties
  <1>4. SubSeq(s, 1, k) = [i \in 1 .. k |-> s[i]]
    BY <1>1
  <1>5. \A i \in DOMAIN SubSeq(s, 1, k) : i \in DOMAIN s /\ SubSeq(s, 1, k)[i] = s[i]
    BY <1>1, <1>4
  <1> QED BY <1>3, <1>5, ListsOf

(* The order in which the optional tasks are kept. *)
ByPriority(s) == Ordered({[key |-> <<s[i].priority, i>>, item |-> s[i]] : i \in DOMAIN s})

(* The tasks in the order of their priority are the same tasks. *)
LEMMA PriorityLists ==
  ASSUME NEW s, IsList(s), \A t \in ToSet(s) : t.priority \in Int
  PROVE  /\ IsList(ByPriority(s)) /\ ToSet(ByPriority(s)) = ToSet(s)
         /\ Apart(s) => Apart(ByPriority(s))
  <1> DEFINE Keyed(i) == [key |-> <<s[i].priority, i>>, item |-> s[i]]
             S == {Keyed(i) : i \in DOMAIN s}
  <1>1. DOMAIN s \subseteq Int /\ IsFiniteSet(DOMAIN s)
    BY Places
  <1>2. \A i \in DOMAIN s : s[i].priority \in Int
    BY DEF ToSet
  <1>3. Sortable(S)
    <2>1. IsFiniteSet(S)
      <3> DEFINE g == [i \in DOMAIN s |-> Keyed(i)]
      <3>1. S = {g[i] : i \in DOMAIN s}
        OBVIOUS
      <3> HIDE DEF g, S
      <3> QED BY <1>1, <3>1, Image
    <2>2. \A r \in S : r.key \in [1 .. 2 -> Int]
      <3> SUFFICES ASSUME NEW i \in DOMAIN s PROVE Keyed(i).key \in [1 .. 2 -> Int]
        OBVIOUS
      <3>1. i \in Int /\ s[i].priority \in Int
        BY <1>1, <1>2
      <3>2. <<s[i].priority, i>> \in [1 .. 2 -> Int]
        BY <3>1
      <3> QED BY <3>2
    <2>3. \A r, o \in S : r.key = o.key => r = o
      OBVIOUS
    <2>4. 2 \in Nat
      OBVIOUS
    <2> HIDE DEF S
    <2> QED BY <2>1, <2>2, <2>3, <2>4 DEF Sortable
  <1>4. {r.item : r \in S} = ToSet(s)
    <2>1. \A i : Keyed(i).item = s[i]
      OBVIOUS
    <2> HIDE DEF Keyed
    <2> QED BY <2>1 DEF ToSet
  <1>5. ByPriority(s) = Ordered(S)
    BY DEF ByPriority
  <1> HIDE DEF S
  <1>6. Ordered(S) \in Seq({r.item : r \in S}) /\ ToSet(Ordered(S)) = {r.item : r \in S}
    BY <1>3, OrderedLists
  <1>7. ASSUME Apart(s), NEW i \in DOMAIN Ordered(S), NEW j \in DOMAIN Ordered(S),
               Ordered(S)[i].id = Ordered(S)[j].id
        PROVE  i = j
    <2> DEFINE a == Sorted(S)[i]
               b == Sorted(S)[j]
    <2>1. a \in S /\ b \in S /\ Ordered(S)[i] = a.item /\ Ordered(S)[j] = b.item
      BY <1>3, OrderedLists
    <2>2. a = b => i = j
      BY <1>3, SortedOnce
    <2> HIDE DEF a, b
    <2>3. PICK k \in DOMAIN s : a = Keyed(k)
      BY <2>1 DEF S
    <2>4. PICK l \in DOMAIN s : b = Keyed(l)
      BY <2>1 DEF S
    <2>5. s[k].id = s[l].id
      BY <1>7, <2>1, <2>3, <2>4
    <2>6. k = l
      BY <1>7, <2>5 DEF Apart
    <2> QED BY <2>2, <2>3, <2>4, <2>6
  <1> QED BY <1>4, <1>5, <1>6, <1>7 DEF IsList, Apart

(* Tasks that can be told apart still can be when some are left out. *)
LEMMA PickedApart ==
  ASSUME NEW s, IsList(s), Apart(s), NEW places, places \subseteq DOMAIN s
  PROVE  Apart(Picked(s, places))
  <1> DEFINE picked == Picked(s, places)
  <1>1. places \subseteq Int /\ IsFiniteSet(places) /\ DOMAIN s \subseteq Int
    BY Places, FS_Subset
  <1>2. /\ IsList(picked)
        /\ \A i, j \in DOMAIN picked : i < j =>
             \E k, l \in places : k < l /\ picked[i] = s[k] /\ picked[j] = s[l]
    BY <1>1, PickedLists
  <1> HIDE DEF picked
  <1>3. ASSUME NEW i \in DOMAIN picked, NEW j \in DOMAIN picked, i < j
        PROVE  picked[i].id # picked[j].id
    <2>1. PICK k \in places, l \in places : k < l /\ picked[i] = s[k] /\ picked[j] = s[l]
      BY <1>2, <1>3
    <2>2. k # l
      BY <1>1, <2>1
    <2> QED BY <2>1, <2>2 DEF Apart
  <1>4. DOMAIN picked \subseteq Int
    BY <1>2, Places
  <1>5. \A i, j \in DOMAIN picked : i # j => i < j \/ j < i
    BY <1>4
  <1>6. Apart(picked)
    BY <1>3, <1>5 DEF Apart
  <1> QED BY <1>6 DEF picked

(* Nor are two lists confused that have no id in common. *)
LEMMA JoinedApart ==
  ASSUME NEW a, IsList(a), Apart(a), NEW b, IsList(b), Apart(b),
         \A t \in ToSet(a), u \in ToSet(b) : t.id # u.id
  PROVE  Apart(a \o b)
  <1> DEFINE c == a \o b
             n == Len(a)
             m == Len(b)
             S == ToSet(a) \cup ToSet(b)
  <1>1. a \in Seq(S) /\ b \in Seq(S)
    <2>1. ToSet(a) \subseteq S /\ ToSet(b) \subseteq S
      OBVIOUS
    <2>2. a \in Seq(ToSet(a)) /\ b \in Seq(ToSet(b))
      BY DEF IsList
    <2> QED BY <2>1, <2>2, SeqMonotonic
  <1> HIDE DEF S
  <1>2. /\ n \in Nat /\ DOMAIN a = 1 .. n /\ m \in Nat /\ DOMAIN b = 1 .. m
        /\ c \in Seq(S) /\ Len(c) = n + m
        /\ \A i \in 1 .. n + m : c[i] = IF i <= n THEN a[i] ELSE b[i - n]
    BY <1>1, ConcatProperties
  <1> HIDE DEF c, n, m
  <1>3. DOMAIN c = 1 .. n + m
    BY <1>2
  <1> SUFFICES ASSUME NEW i \in DOMAIN c, NEW j \in DOMAIN c, c[i].id = c[j].id
               PROVE  i = j
    BY DEF Apart, c
  <1>4. ASSUME NEW k \in DOMAIN c
        PROVE  /\ k \in Int
               /\ k <= n => k \in DOMAIN a /\ c[k] = a[k] /\ c[k] \in ToSet(a)
               /\ ~(k <= n) => k - n \in DOMAIN b /\ c[k] = b[k - n] /\ c[k] \in ToSet(b)
    <2>1. k \in 1 .. n + m /\ k \in Int
      BY <1>2, <1>3
    <2>2. k <= n => k \in DOMAIN a /\ c[k] = a[k]
      BY <1>2, <2>1
    <2>3. ~(k <= n) => k - n \in DOMAIN b /\ c[k] = b[k - n]
      BY <1>2, <2>1
    <2> QED BY <2>1, <2>2, <2>3 DEF ToSet
  <1>5. CASE i <= n /\ j <= n
    BY <1>4, <1>5 DEF Apart
  <1>6. CASE ~(i <= n) /\ ~(j <= n)
    <2>1. i - n \in DOMAIN b /\ j - n \in DOMAIN b /\ b[i - n].id = b[j - n].id
      BY <1>4, <1>6
    <2>2. i - n = j - n
      BY <2>1 DEF Apart
    <2> QED BY <1>2, <1>4, <2>2
  <1> QED BY <1>4, <1>5, <1>6

(* What is left of a plan whose tasks are too many: all that is demanded. *)
LEMMA TrimmedLists ==
  ASSUME NEW s, SoundTasks(s), NEW room \in Int
  PROVE  /\ SoundTasks(Trimmed(s, room))
         /\ \A t \in ToSet(s) : t.required => t \in ToSet(Trimmed(s, room))
         /\ Apart(s) => Apart(Trimmed(s, room))
  <1> DEFINE R == RequiredTasks(s)
             O == OptionalTasks(s)
             required == ByPriority(R)
             optional == ByPriority(O)
             k == Small(Len(optional), Large(0, room - Len(required)))
             rest == SubSeq(optional, 1, k)
  <1>1. Trimmed(s, room) = required \o rest
    BY DEF Trimmed, ByPriority
  <1>2. IsList(s) /\ \A t \in ToSet(s) : SoundTask(t)
    BY DEF SoundTasks
  <1>3. IsFiniteSet(DOMAIN s) /\ DOMAIN s \subseteq Int
    BY <1>2, Places
  <1>4. /\ IsList(R) /\ ToSet(R) \subseteq ToSet(s)
        /\ \A t \in ToSet(s) : t.required => t \in ToSet(R)
        /\ (\A t \in ToSet(R) : t.required) /\ (Apart(s) => Apart(R))
    <2> DEFINE P == {i \in DOMAIN s : s[i].required}
    <2>1. P \subseteq DOMAIN s /\ R = Picked(s, P)
      BY DEF RequiredTasks
    <2>2. \A t \in ToSet(s) : t.required => \E i \in P : s[i] = t
      BY DEF ToSet
    <2>3. \A i \in P : s[i].required
      OBVIOUS
    <2> HIDE DEF P, R
    <2> QED BY <1>2, <2>1, <2>2, <2>3, SomePlaces, PickedApart
  <1>5. /\ IsList(O) /\ ToSet(O) \subseteq ToSet(s)
        /\ (\A t \in ToSet(O) : ~t.required) /\ (Apart(s) => Apart(O))
    <2> DEFINE P == {i \in DOMAIN s : ~s[i].required}
    <2>1. P \subseteq DOMAIN s /\ O = Picked(s, P)
      BY DEF OptionalTasks
    <2>2. \A i \in P : ~s[i].required
      OBVIOUS
    <2> HIDE DEF P, R, O
    <2> QED BY <1>2, <2>1, <2>2, SomePlaces, PickedApart
  <1>7. \A t \in ToSet(s) : t.priority \in Int
    BY <1>2 DEF SoundTask
  <1> HIDE DEF R, O
  <1>8. IsList(required) /\ ToSet(required) = ToSet(R) /\ (Apart(R) => Apart(required))
    <2>1. \A t \in ToSet(R) : t.priority \in Int
      BY <1>4, <1>7
    <2> QED BY <1>4, <2>1, PriorityLists
  <1>9. IsList(optional) /\ ToSet(optional) = ToSet(O) /\ (Apart(O) => Apart(optional))
    <2>1. \A t \in ToSet(O) : t.priority \in Int
      BY <1>5, <1>7
    <2> QED BY <1>5, <2>1, PriorityLists
  <1> HIDE DEF required, optional
  <1>10. k \in Int /\ k <= Len(optional)
    <2>1. Len(optional) \in Int /\ Len(required) \in Int
      BY <1>8, <1>9, Places
    <2>2. Large(0, room - Len(required)) \in Int
      BY <2>1, SmallLarge
    <2> QED BY <2>1, <2>2, SmallLarge
  <1> HIDE DEF k
  <1>11. IsList(rest) /\ ToSet(rest) \subseteq ToSet(optional) /\ (Apart(optional) => Apart(rest))
    BY <1>9, <1>10, FirstOfLists DEF Apart
  <1> HIDE DEF rest
  <1>12. IsList(required \o rest) /\ ToSet(required \o rest) = ToSet(required) \cup ToSet(rest)
    BY <1>8, <1>11, Concatenated
  <1>13. ToSet(required \o rest) \subseteq ToSet(s)
    BY <1>5, <1>4, <1>8, <1>9, <1>11, <1>12
  <1>14. ASSUME Apart(s) PROVE Apart(required \o rest)
    <2>1. \A t, u \in ToSet(s) : t.id = u.id => t = u
      BY <1>14 DEF Apart, ToSet
    <2>2. \A t \in ToSet(required), u \in ToSet(rest) :
            t \in ToSet(s) /\ u \in ToSet(s) /\ t.required /\ ~u.required
      BY <1>4, <1>5, <1>8, <1>9, <1>11
    <2>3. \A t \in ToSet(required), u \in ToSet(rest) : t.id # u.id
      BY <2>1, <2>2
    <2> QED BY <1>4, <1>5, <1>8, <1>9, <1>11, <1>14, <2>3, JoinedApart
  <1> QED BY <1>1, <1>2, <1>4, <1>8, <1>12, <1>13, <1>14 DEF SoundTasks

(* Every demanded category that a base plan has is demanded by its task. *)
SoundBase(base) ==
  /\ SoundPlan(base) /\ base.mode \in {"initial", "repair"}
  /\ \A t \in ToSet(base.tasks) : t.category \in Demandable => Carries(t, t.category)
  /\ OnePerCategory(base.tasks)

(* The needs that the compiled plan states or keeps. *)
LEMMA NeedsOfPlans ==
  ASSUME NEW base, SoundBase(base), NEW d \in Decisions, NEW previous, SoundNeeds(previous)
  PROVE  SoundNeeds(PlanNeeds(d, base, previous))
  <1> DEFINE stated == IF base.mode = "repair" /\ previous # <<>> THEN previous ELSE d.needs
             required == RequiredTasks(base.tasks)
             places == {i \in DOMAIN required : required[i].category \notin Categories(stated)}
             unnamed == Picked(required, places)
             added == [i \in DOMAIN unnamed |-> [id |-> <<"required", unnamed[i].category>>,
                                                 category |-> unnamed[i].category]]
  <1>1. PlanNeeds(d, base, previous) = stated \o added
    BY DEF PlanNeeds
  <1>2. IsList(base.tasks) /\ \A t \in ToSet(base.tasks) : t.category \in Category
    BY DEF SoundBase, SoundPlan, SoundTasks, SoundTask
  <1>3. SoundNeeds(stated)
    <2>1. SoundNeeds(d.needs)
      BY DecisionsHaveForm DEF SoundNeeds, IsList
    <2> QED BY <2>1
  <1>4. IsList(required) /\ ToSet(required) \subseteq ToSet(base.tasks)
    <2> DEFINE P == {i \in DOMAIN base.tasks : base.tasks[i].required}
    <2>1. P \subseteq DOMAIN base.tasks /\ required = Picked(base.tasks, P)
      BY DEF RequiredTasks
    <2> HIDE DEF P, required
    <2> QED BY <1>2, <2>1, SomePlaces
  <1>5. IsList(unnamed) /\ ToSet(unnamed) \subseteq ToSet(required)
    <2>1. places \subseteq DOMAIN required
      OBVIOUS
    <2> HIDE DEF places, required, stated
    <2> QED BY <1>4, <2>1, SomePlaces
  <1> HIDE DEF stated, required, unnamed
  <1>6. added = [i \in DOMAIN unnamed |-> added[i]]
    OBVIOUS
  <1>7. \A i \in DOMAIN unnamed : added[i].category \in Category
    <2>1. \A i \in DOMAIN unnamed : unnamed[i] \in ToSet(unnamed)
      BY DEF ToSet
    <2> QED BY <1>2, <1>4, <1>5, <2>1
  <1> HIDE DEF added
  <1>8. IsList(added) /\ ToSet(added) = {added[i] : i \in DOMAIN unnamed}
    BY <1>5, <1>6, MappedLists
  <1>9. IsList(stated \o added) /\ ToSet(stated \o added) = ToSet(stated) \cup ToSet(added)
    BY <1>3, <1>8, Concatenated DEF SoundNeeds
  <1>10. \A x \in ToSet(stated \o added) : x.category \in Category
    <2>1. \A x \in ToSet(stated) : x.category \in Category
      BY <1>3, CategoriesOf DEF SoundNeeds
    <2> QED BY <1>7, <1>8, <1>9, <2>1
  <1>11. Categories(stated \o added) \subseteq Category
    BY <1>10, CategoriesOf
  <1> QED BY <1>1, <1>9, <1>11 DEF SoundNeeds

(* A compiled task has the filter of the task by rules, and the first of a demanded category its
   demand: the model words the query and nothing else. *)
LEMMA CompiledTaskSound ==
  ASSUME NEW base, SoundBase(base), NEW d \in Decisions, NEW i \in DOMAIN d.intents,
         d.intents[i].category \in Categories(base.tasks), NEW n \in Nat
  PROVE  LET t == CompiledTask(base, d.intents[i], n)
         IN  /\ SoundTask(t) /\ t.category = d.intents[i].category
             /\ n = 1 /\ t.category \in Demandable => Carries(t, t.category)
             /\ t.id = <<"agentic", base.mode, t.category, n>>
  <1> DEFINE intent == d.intents[i]
             c == intent.category
             template == CHOOSE t \in ToSet(base.tasks) : t.category = c
             gate == template.required /\ n = 1
             t == [template EXCEPT !.id = <<"agentic", base.mode, c, n>>, !.required = gate,
                                   !.min = IF gate THEN @ ELSE 0, !.wording = intent.wording]
  <1>1. CompiledTask(base, intent, n) = t
    BY DEF CompiledTask
  <1>2. template \in ToSet(base.tasks) /\ template.category = c
    <2>1. \E t0 \in ToSet(base.tasks) : t0.category = c
      BY CategoriesOf
    <2> QED BY <2>1
  <1>3. SoundTask(template) /\ (c \in Demandable => Carries(template, c))
    BY <1>2 DEF SoundBase, SoundPlan, SoundTasks
  <1>4. intent.wording \in Wordings
    <2>1. intent \in ToSet(d.intents)
      BY DEF ToSet
    <2> QED BY <2>1 DEF Wordings
  <1> HIDE DEF template
  <1>5. template.required \in BOOLEAN
    BY <1>3 DEF SoundTask
  <1> DEFINE g == gate
  <1>6. g \in BOOLEAN /\ (g <=> template.required /\ n = 1)
    OBVIOUS
  <1> HIDE DEF intent
  <1>7. t = [template EXCEPT !.id = <<"agentic", base.mode, c, n>>, !.required = g,
                             !.min = IF g THEN @ ELSE 0, !.wording = intent.wording]
    OBVIOUS
  <1> HIDE DEF t, g
  <1>8. template = [id |-> template.id, category |-> template.category, filter |-> template.filter,
                    required |-> template.required, topK |-> template.topK,
                    min |-> template.min, priority |-> template.priority,
                    wording |-> template.wording]
    BY <1>3 DEF SoundTask
  <1>9. t = [id |-> <<"agentic", base.mode, c, n>>, category |-> template.category,
             filter |-> template.filter, required |-> g, topK |-> template.topK,
             min |-> IF g THEN template.min ELSE 0, priority |-> template.priority,
             wording |-> intent.wording]
    BY <1>7, <1>8
  <1>10. /\ t.category = template.category /\ t.filter = template.filter /\ t.topK = template.topK
         /\ t.priority = template.priority /\ t.wording = intent.wording
         /\ t.id = <<"agentic", base.mode, c, n>>
         /\ t.required = g /\ t.min = IF g THEN template.min ELSE 0
    BY <1>9
  <1>11. t = [id |-> t.id, category |-> t.category, filter |-> t.filter, required |-> t.required,
              topK |-> t.topK, min |-> t.min, priority |-> t.priority, wording |-> t.wording]
    BY <1>9, <1>10
  <1>12. IsTask(t)
    <2>1. template.topK \in Nat /\ template.min \in Nat
      BY <1>3 DEF SoundTask, IsTask
    <2> QED BY <1>4, <1>10, <2>1 DEF IsTask
  <1>13. t.required \in BOOLEAN /\ (t.required <=> g)
    BY <1>6, <1>10
  <1>14. SoundTask(t)
    <2>1. /\ template.category \in Category /\ template.priority \in Int
          /\ \E r \in SUBSET trip.risks : template.filter = Filter(template.category, r)
          /\ template.required => template.category \in {"guides", "safety_notices"}
          /\ template.category = "safety_notices" => trip.risks # {}
          /\ Needed(template.category) \in Nat /\ template.min <= Needed(template.category)
          /\ Enough(template.category, template.topK)
      BY <1>3 DEF SoundTask
    <2>2. t.required => template.required
      BY <1>6, <1>13
    <2>3. /\ t.category \in Category /\ t.priority \in Int
          /\ \E r \in SUBSET trip.risks : t.filter = Filter(t.category, r)
          /\ t.required => t.category \in {"guides", "safety_notices"}
          /\ t.category = "safety_notices" => trip.risks # {}
          /\ Needed(t.category) \in Nat /\ t.min <= Needed(t.category)
          /\ Enough(t.category, t.topK)
      BY <1>10, <2>1, <2>2
    <2> QED BY <1>11, <1>12, <1>13, <2>3 DEF SoundTask
  <1>15. n = 1 /\ t.category \in Demandable => Carries(t, t.category)
    <2> SUFFICES ASSUME n = 1, t.category \in Demandable PROVE Carries(t, t.category)
      OBVIOUS
    <2>1. t.category = c
      BY <1>2, <1>10
    <2>2. Carries(template, c)
      BY <1>3, <2>1
    <2>3. g
      BY <1>6, <2>2 DEF Carries
    <2>4. t.required
      BY <1>13, <2>3
    <2>5. t.min = template.min
      BY <1>10, <2>3
    <2> QED BY <2>1, <2>2, <2>4, <2>5 DEF Carries
  <1>16. t.category = intent.category /\ t.id = <<"agentic", base.mode, t.category, n>>
    BY <1>2, <1>10
  <1> QED BY <1>1, <1>14, <1>15, <1>16 DEF intent

(* The compiled intents carry the demands of the categories they are about. *)
LEMMA CompiledLists ==
  ASSUME NEW base, SoundBase(base), NEW needs, NEW d \in Decisions
  PROVE  LET list == Compiled(base, needs, d.intents)
         IN  /\ SoundTasks(list) /\ CarriesAll(list, Demandable \cap Categories(list))
             /\ Apart(list)
             /\ \A t \in ToSet(list) : \E n \in Nat \ {0} : t.id = <<"agentic", base.mode, t.category, n>>
  <1> DEFINE intents == d.intents
             usable == {i \in DOMAIN intents : Usable(base, needs, intents[i])}
             Earlier(i) == {j \in usable : j < i /\ intents[j].category = intents[i].category}
             number == [i \in usable |-> 1 + Cardinality(Earlier(i))]
             kept == {i \in usable : number[i] <= CategoryLimit[intents[i].category]}
             Keyed(i) == [key |-> <<i>>, item |-> CompiledTask(base, intents[i], number[i])]
             S == {Keyed(i) : i \in kept}
             list == Compiled(base, needs, d.intents)
  <1>1. list = Ordered(S)
    BY DEF Compiled
  <1>2. IsFiniteSet(DOMAIN intents) /\ DOMAIN intents \subseteq Nat
    BY DecisionsHaveForm, Places DEF IsList
  <1>3. \A i \in DOMAIN intents : intents[i].category \in Category
    BY DecisionsHaveForm DEF Categories
  <1>4. usable \subseteq DOMAIN intents /\ IsFiniteSet(usable)
    BY <1>2, FS_Subset
  <1>5. \A i \in usable : intents[i].category \in Categories(base.tasks)
    BY DEF Usable
  <1> HIDE DEF usable, intents
  <1>6. ASSUME NEW i \in usable PROVE number[i] \in Nat \ {0} /\ (Earlier(i) = {} => number[i] = 1)
    <2>1. IsFiniteSet(Earlier(i))
      BY <1>4, FS_Subset
    <2>2. Cardinality(Earlier(i)) \in Nat
      BY <2>1, FS_CardinalityType
    <2>3. Earlier(i) = {} => Cardinality(Earlier(i)) = 0
      BY FS_EmptySet
    <2>4. number[i] = 1 + Cardinality(Earlier(i))
      OBVIOUS
    <2> HIDE DEF number, Earlier
    <2> QED BY <2>2, <2>3, <2>4
  <1>7. kept \subseteq usable
    OBVIOUS
  <1>8. \A c \in Category : 1 <= CategoryLimit[c]
    BY DEF CategoryLimit, Category
  <1>9. ASSUME NEW i \in usable
        PROVE  \E j \in kept : intents[j].category = intents[i].category /\ number[j] = 1
    <2> DEFINE same == {j \in usable : intents[j].category = intents[i].category}
    <2>1. same \subseteq Nat /\ same # {}
      BY <1>2, <1>4
    <2>2. PICK j \in same : \A k \in same : j <= k
      <3> HIDE DEF same
      <3> QED BY <2>1, LeastNumber
    <2>3. Earlier(j) = {}
      BY <1>2, <1>4, <2>2
    <2>4. number[j] = 1
      <3>1. j \in usable
        OBVIOUS
      <3> HIDE DEF number, Earlier, same
      <3> QED BY <1>6, <2>3, <3>1
    <2>5. intents[j].category \in Category
      BY <1>3, <1>4
    <2> HIDE DEF number
    <2> QED BY <1>8, <2>4, <2>5
  <1>15. ASSUME NEW i \in usable, NEW j \in usable, i < j, intents[i].category = intents[j].category
         PROVE  number[i] < number[j]
    <2>1. i \in Nat /\ j \in Nat /\ \A k \in usable : k \in Nat
      BY <1>2, <1>4
    <2>2. Earlier(i) \in SUBSET Earlier(j) /\ Earlier(i) # Earlier(j)
      <3>1. \A k \in Earlier(i) : k \in Earlier(j)
        BY <1>15, <2>1
      <3>2. i \in Earlier(j) /\ i \notin Earlier(i)
        BY <1>15, <2>1
      <3> HIDE DEF Earlier
      <3> QED BY <3>1, <3>2
    <2>3. IsFiniteSet(Earlier(j)) /\ IsFiniteSet(Earlier(i))
      BY <1>4, FS_Subset
    <2>4. number[i] = 1 + Cardinality(Earlier(i)) /\ number[j] = 1 + Cardinality(Earlier(j))
      OBVIOUS
    <2> HIDE DEF Earlier, number
    <2>5. Cardinality(Earlier(i)) \in Nat /\ Cardinality(Earlier(j)) \in Nat
      BY <2>3, FS_CardinalityType
    <2>6. Cardinality(Earlier(i)) <= Cardinality(Earlier(j)) /\ Cardinality(Earlier(i)) # Cardinality(Earlier(j))
      BY <2>2, <2>3, FS_Subset
    <2> QED BY <2>4, <2>5, <2>6
  <1> HIDE DEF kept, number
  <1> DEFINE Item(i) == CompiledTask(base, intents[i], number[i])
  <1>10. ASSUME NEW i \in kept
         PROVE  /\ SoundTask(Item(i)) /\ Item(i).category = intents[i].category
                /\ number[i] = 1 /\ Item(i).category \in Demandable => Carries(Item(i), Item(i).category)
                /\ Item(i).id = <<"agentic", base.mode, Item(i).category, number[i]>>
    <2>1. i \in DOMAIN d.intents /\ d.intents[i].category \in Categories(base.tasks)
      BY <1>4, <1>5, <1>7 DEF intents
    <2>2. number[i] \in Nat
      BY <1>6, <1>7
    <2> QED BY <2>1, <2>2, CompiledTaskSound DEF intents
  <1> HIDE DEF list
  <1>11. /\ IsList(list) /\ ToSet(list) = {Item(i) : i \in kept}
         /\ \A i, j \in DOMAIN list : list[i].id = list[j].id => i = j
    <2>1. Sortable(S)
      <3>1. IsFiniteSet(S)
        <4> DEFINE g == [i \in kept |-> Keyed(i)]
        <4>1. S = {g[i] : i \in kept}
          OBVIOUS
        <4>2. IsFiniteSet(kept)
          BY <1>4, <1>7, FS_Subset
        <4> HIDE DEF g, S
        <4> QED BY <4>1, <4>2, Image
      <3>2. \A r \in S : r.key \in [1 .. 1 -> Int]
        <4> SUFFICES ASSUME NEW i \in kept PROVE Keyed(i).key \in [1 .. 1 -> Int]
          OBVIOUS
        <4>1. i \in Int
          BY <1>2, <1>4, <1>7
        <4>2. <<i>> \in [1 .. 1 -> Int]
          BY <4>1
        <4> QED BY <4>2
      <3>3. \A r, o \in S : r.key = o.key => r = o
        OBVIOUS
      <3>4. 1 \in Nat
        OBVIOUS
      <3> HIDE DEF S
      <3> QED BY <3>1, <3>2, <3>3, <3>4 DEF Sortable
    <2>2. {r.item : r \in S} = {Item(i) : i \in kept}
      <3>1. \A i : Keyed(i).item = Item(i)
        OBVIOUS
      <3> HIDE DEF Keyed, Item
      <3> QED BY <3>1
    <2> HIDE DEF S
    <2>3. list \in Seq({r.item : r \in S}) /\ ToSet(list) = {r.item : r \in S}
      BY <1>1, <2>1, OrderedLists
    <2>4. ASSUME NEW i \in DOMAIN list, NEW j \in DOMAIN list, list[i].id = list[j].id
          PROVE  i = j
      <3> DEFINE a == Sorted(S)[i]
                 b == Sorted(S)[j]
      <3>1. a \in S /\ b \in S /\ list[i] = a.item /\ list[j] = b.item
        BY <1>1, <2>1, OrderedLists
      <3>2. a = b => i = j
        BY <1>1, <2>1, SortedOnce
      <3> HIDE DEF a, b
      <3>3. PICK k \in kept : a = Keyed(k)
        BY <3>1 DEF S
      <3>4. PICK l \in kept : b = Keyed(l)
        BY <3>1 DEF S
      <3>5. Item(k).id = Item(l).id
        BY <2>4, <3>1, <3>3, <3>4
      <3> HIDE DEF Item
      <3>6. Item(k).category = Item(l).category /\ number[k] = number[l]
        BY <1>10, <3>5
      <3>7. intents[k].category = intents[l].category
        BY <1>10, <3>6
      <3>8. number[k] \in Nat /\ k \in usable /\ l \in usable
        BY <1>6, <1>7
      <3>9. ~(k < l) /\ ~(l < k)
        BY <1>15, <3>6, <3>7, <3>8
      <3>10. k \in Nat /\ l \in Nat
        BY <1>2, <1>4, <3>8
      <3>11. k = l
        BY <3>9, <3>10
      <3> HIDE DEF Keyed
      <3> QED BY <3>2, <3>3, <3>4, <3>11
    <2> HIDE DEF Item
    <2> QED BY <2>2, <2>3, <2>4 DEF IsList
  <1> HIDE DEF Item
  <1>12. SoundTasks(list)
    BY <1>10, <1>11 DEF SoundTasks
  <1>13. ASSUME NEW c \in Demandable \cap Categories(list)
         PROVE  \E t \in ToSet(list) : Carries(t, c)
    <2>1. PICK t \in ToSet(list) : t.category = c
      BY CategoriesOf
    <2>2. PICK i \in kept : t = Item(i)
      BY <1>11
    <2>3. PICK j \in kept : intents[j].category = c /\ number[j] = 1
      <3>1. intents[i].category = c
        BY <1>10, <2>1, <2>2
      <3> QED BY <1>7, <1>9, <3>1
    <2>4. Item(j) \in ToSet(list) /\ Carries(Item(j), c)
      BY <1>10, <1>11, <2>3
    <2> QED BY <2>4
  <1>14. CarriesAll(list, Demandable \cap Categories(list))
    BY <1>13 DEF CarriesAll
  <1>16. ASSUME NEW t \in ToSet(list)
         PROVE  \E n \in Nat \ {0} : t.id = <<"agentic", base.mode, t.category, n>>
    <2>1. PICK i \in kept : t = Item(i)
      BY <1>11
    <2>2. number[i] \in Nat \ {0}
      BY <1>6, <1>7
    <2> QED BY <1>10, <2>1, <2>2
  <1> QED BY <1>11, <1>12, <1>14, <1>16 DEF list, Apart

(* Whatever categories the model leaves out, the demanded ones are carried in the end. *)
LEMMA CompletedLists ==
  ASSUME NEW base, SoundBase(base), NEW list, SoundTasks(list),
         CarriesAll(list, Demandable \cap Categories(list)), Apart(list),
         \A t \in ToSet(list) : \E n \in Nat \ {0} : t.id = <<"agentic", base.mode, t.category, n>>
  PROVE  /\ SoundTasks(WithRequired(base, list)) /\ Apart(WithRequired(base, list))
         /\ CarriesAll(WithRequired(base, list), Demandable \cap Categories(base.tasks))
  <1> DEFINE required == RequiredTasks(base.tasks)
             places == {i \in DOMAIN required : required[i].category \notin Categories(list)}
             omitted == Picked(required, places)
             Renamed(t) == [t EXCEPT !.id = <<"agentic", base.mode, t.category, 0>>]
             added == [i \in DOMAIN omitted |-> Renamed(omitted[i])]
  <1>1. WithRequired(base, list) = list \o added
    BY DEF WithRequired
  <1>2. IsList(base.tasks) /\ Apart(base.tasks) /\ \A t \in ToSet(base.tasks) : SoundTask(t)
    BY DEF SoundBase, SoundPlan, SoundTasks
  <1>3. /\ IsList(required) /\ Apart(required) /\ ToSet(required) \subseteq ToSet(base.tasks)
        /\ \A t \in ToSet(base.tasks) : t.required => t \in ToSet(required)
    <2> DEFINE P == {i \in DOMAIN base.tasks : base.tasks[i].required}
    <2>1. P \subseteq DOMAIN base.tasks /\ required = Picked(base.tasks, P)
      BY DEF RequiredTasks
    <2>2. \A t \in ToSet(base.tasks) : t.required => \E i \in P : base.tasks[i] = t
      BY DEF ToSet
    <2> HIDE DEF P, required
    <2> QED BY <1>2, <2>1, <2>2, SomePlaces, PickedApart
  <1> HIDE DEF required
  <1>4. /\ IsList(omitted) /\ Apart(omitted) /\ ToSet(omitted) \subseteq ToSet(required)
        /\ \A t \in ToSet(required) : t.category \notin Categories(list) => t \in ToSet(omitted)
    <2>1. places \subseteq DOMAIN required
      OBVIOUS
    <2>2. \A t \in ToSet(required) : t.category \notin Categories(list) => \E i \in places : required[i] = t
      BY DEF ToSet
    <2> HIDE DEF places
    <2> QED BY <1>3, <2>1, <2>2, SomePlaces, PickedApart
  <1> HIDE DEF omitted
  <1>5. ASSUME NEW t \in ToSet(base.tasks)
        PROVE  /\ SoundTask(Renamed(t)) /\ Renamed(t).category = t.category
               /\ Renamed(t).id = <<"agentic", base.mode, t.category, 0>>
               /\ \A c : Carries(t, c) => Carries(Renamed(t), c)
    <2> DEFINE n == Renamed(t)
    <2>1. SoundTask(t)
      BY <1>2
    <2>2. t = [id |-> t.id, category |-> t.category, filter |-> t.filter, required |-> t.required,
               topK |-> t.topK, min |-> t.min, priority |-> t.priority, wording |-> t.wording]
      BY <2>1 DEF SoundTask
    <2>3. n = [id |-> <<"agentic", base.mode, t.category, 0>>, category |-> t.category,
               filter |-> t.filter, required |-> t.required, topK |-> t.topK, min |-> t.min,
               priority |-> t.priority, wording |-> t.wording]
      BY <2>2
    <2> HIDE DEF n
    <2>4. /\ n.category = t.category /\ n.filter = t.filter /\ n.topK = t.topK
          /\ n.priority = t.priority /\ n.wording = t.wording /\ n.min = t.min
          /\ n.id = <<"agentic", base.mode, t.category, 0>>
          /\ n.required = t.required
      BY <2>3
    <2>5. n = [id |-> n.id, category |-> n.category, filter |-> n.filter, required |-> n.required,
               topK |-> n.topK, min |-> n.min, priority |-> n.priority, wording |-> n.wording]
      BY <2>3, <2>4
    <2>6. SoundTask(n)
      BY <2>1, <2>4, <2>5 DEF SoundTask, IsTask
    <2>7. \A c : Carries(t, c) => Carries(n, c)
      BY <2>4 DEF Carries
    <2> QED BY <2>4, <2>6, <2>7 DEF n
  <1>6. \A i \in DOMAIN omitted : omitted[i] \in ToSet(base.tasks)
    BY <1>3, <1>4 DEF ToSet
  <1> HIDE DEF Renamed
  <1>7. IsList(added) /\ ToSet(added) = {added[i] : i \in DOMAIN omitted}
    <2>1. added = [i \in DOMAIN omitted |-> added[i]]
      OBVIOUS
    <2> HIDE DEF added
    <2> QED BY <1>4, <2>1, MappedLists
  <1>8. \A t \in ToSet(added) : SoundTask(t)
    BY <1>5, <1>6, <1>7
  <1>9. \A t \in ToSet(omitted) : Renamed(t) \in ToSet(added)
    <2>1. \A i \in DOMAIN omitted : added[i] = Renamed(omitted[i])
      OBVIOUS
    <2> HIDE DEF added
    <2> QED BY <1>7, <2>1 DEF ToSet
  <1>14. Apart(added)
    <2> SUFFICES ASSUME NEW i \in DOMAIN added, NEW j \in DOMAIN added, added[i].id = added[j].id
                 PROVE  i = j
      BY DEF Apart
    <2>1. /\ i \in DOMAIN omitted /\ j \in DOMAIN omitted
          /\ added[i] = Renamed(omitted[i]) /\ added[j] = Renamed(omitted[j])
      OBVIOUS
    <2> HIDE DEF added
    <2>2. omitted[i].category = omitted[j].category
      BY <1>5, <1>6, <2>1
    <2>3. omitted[i] = omitted[j]
      BY <1>6, <2>1, <2>2 DEF SoundBase, OnePerCategory, ToSet
    <2> QED BY <1>4, <2>1, <2>3 DEF Apart
  <1>15. \A t \in ToSet(list), u \in ToSet(added) : t.id # u.id
    <2> SUFFICES ASSUME NEW t \in ToSet(list), NEW i \in DOMAIN omitted PROVE t.id # added[i].id
      BY <1>7
    <2>1. PICK n \in Nat \ {0} : t.id = <<"agentic", base.mode, t.category, n>>
      OBVIOUS
    <2>2. added[i].id = <<"agentic", base.mode, omitted[i].category, 0>>
      BY <1>5, <1>6
    <2> QED BY <2>1, <2>2
  <1> HIDE DEF added
  <1>10. IsList(list \o added) /\ ToSet(list \o added) = ToSet(list) \cup ToSet(added)
    BY <1>7, Concatenated DEF SoundTasks
  <1>11. SoundTasks(list \o added) /\ Apart(list \o added)
    BY <1>7, <1>8, <1>10, <1>14, <1>15, JoinedApart DEF SoundTasks
  <1>12. ASSUME NEW c \in Demandable \cap Categories(base.tasks)
         PROVE  \E t \in ToSet(list \o added) : Carries(t, c)
    <2>1. CASE c \in Categories(list)
      BY <1>10, <2>1 DEF CarriesAll
    <2>2. CASE c \notin Categories(list)
      <3>1. PICK t \in ToSet(base.tasks) : t.category = c
        BY CategoriesOf
      <3>2. Carries(t, c) /\ t.required
        BY <3>1 DEF SoundBase, Carries
      <3>3. t \in ToSet(omitted)
        BY <1>3, <1>4, <2>2, <3>1, <3>2
      <3> QED BY <1>5, <1>9, <1>10, <3>2, <3>3
    <2> QED BY <2>1, <2>2
  <1>13. CarriesAll(list \o added, Demandable \cap Categories(base.tasks))
    BY <1>12 DEF CarriesAll
  <1> QED BY <1>1, <1>11, <1>13

(* What the model says keeps every demand of the plan by rules. *)
LEMMA CompiledPlans ==
  ASSUME NEW base, SoundBase(base), NEW d \in Decisions, NEW previous, SoundNeeds(previous)
  PROVE  LET p == CompileDecision(d, base, previous) IN SoundPlan(p) /\ p.mode = base.mode
  <1> DEFINE needs == PlanNeeds(d, base, previous)
             compiled == Compiled(base, needs, d.intents)
             complete == WithRequired(base, compiled)
             tasks == Trimmed(complete, MaxTasks[base.mode])
             p == CompileDecision(d, base, previous)
  <1>1. p = [base EXCEPT !.needs = needs, !.tasks = tasks]
    BY DEF CompileDecision
  <1>2. SoundNeeds(needs)
    BY NeedsOfPlans
  <1> HIDE DEF needs
  <1>3. /\ SoundTasks(compiled) /\ CarriesAll(compiled, Demandable \cap Categories(compiled))
        /\ Apart(compiled)
        /\ \A t \in ToSet(compiled) : \E n \in Nat \ {0} : t.id = <<"agentic", base.mode, t.category, n>>
    BY CompiledLists
  <1> HIDE DEF compiled
  <1>4. /\ SoundTasks(complete) /\ CarriesAll(complete, Demandable \cap Categories(base.tasks))
        /\ Apart(complete)
    BY <1>3, CompletedLists
  <1> HIDE DEF complete
  <1>5. SoundTasks(tasks) /\ Apart(tasks) /\ CarriesAll(tasks, Demandable \cap Categories(base.tasks))
    <2>1. MaxTasks[base.mode] \in Int
      BY EvidenceBounds DEF SoundBase
    <2>2. /\ SoundTasks(tasks) /\ Apart(tasks)
          /\ \A t \in ToSet(complete) : t.required => t \in ToSet(tasks)
      BY <1>4, <2>1, TrimmedLists
    <2> HIDE DEF tasks
    <2>3. \A c \in Demandable \cap Categories(base.tasks) : \E t \in ToSet(tasks) : Carries(t, c)
      BY <1>4, <2>2 DEF CarriesAll, Carries
    <2> QED BY <2>2, <2>3 DEF CarriesAll
  <1> HIDE DEF tasks, p
  <1>6. /\ base = [mode |-> base.mode, tasks |-> base.tasks, needs |-> base.needs,
                   exhausted |-> base.exhausted]
        /\ base.mode \in {"initial", "repair"} /\ base.exhausted = FALSE
        /\ base.mode = "initial" => CarriesAll(base.tasks, Demandable)
    BY DEF SoundBase, SoundPlan
  <1>7. p = [mode |-> base.mode, tasks |-> tasks, needs |-> needs, exhausted |-> base.exhausted]
    BY <1>1, <1>6
  <1>8. p.mode = base.mode /\ p.tasks = tasks /\ p.needs = needs /\ p.exhausted = base.exhausted
    BY <1>7
  <1>9. p = [mode |-> p.mode, tasks |-> p.tasks, needs |-> p.needs, exhausted |-> p.exhausted]
    BY <1>7, <1>8
  <1>10. p.mode = "initial" => CarriesAll(p.tasks, Demandable)
    <2> SUFFICES ASSUME p.mode = "initial" PROVE CarriesAll(tasks, Demandable)
      BY <1>8
    <2>1. \A c \in Demandable : \E t \in ToSet(base.tasks) : t.category = c
      BY <1>6, <1>8 DEF CarriesAll, Carries
    <2>2. Demandable \cap Categories(base.tasks) = Demandable
      BY <2>1, CategoriesOf
    <2> QED BY <1>5, <2>2
  <1> QED BY <1>2, <1>5, <1>6, <1>8, <1>9, <1>10 DEF SoundPlan, p

-----------------------------------------------------------------------------
(* The demands and the pool. *)

(* The maximum of finitely many numbers. *)
LEMMA Largest ==
  ASSUME NEW S, S \subseteq Nat, S # {}, IsFiniteSet(S)
  PROVE  Max(S) \in S /\ \A x \in S : x <= Max(S)
  <1> DEFINE Above(x) == {y \in S : y > x}
             N == {Cardinality(Above(x)) : x \in S}
  <1>1. \A x \in S : IsFiniteSet(Above(x)) /\ Cardinality(Above(x)) \in Nat
    <2> TAKE x \in S
    <2>1. IsFiniteSet(Above(x))
      BY FS_Subset
    <2> QED BY <2>1, FS_CardinalityType
  <1>2. N \subseteq Nat /\ N # {}
    <2> HIDE DEF Above
    <2> QED BY <1>1
  <1>3. PICK n \in N : \A k \in N : n <= k
    <2> HIDE DEF N
    <2> QED BY <1>2, LeastNumber
  <1>4. PICK x \in S : n = Cardinality(Above(x))
    OBVIOUS
  <1>5. ASSUME NEW y \in S, y > x PROVE FALSE
    <2>1. Above(y) \in SUBSET Above(x) /\ Above(y) # Above(x)
      <3>1. y \in Above(x) /\ y \notin Above(y)
        BY <1>5
      <3>2. \A z \in Above(y) : z \in Above(x)
        BY <1>5
      <3> HIDE DEF Above
      <3> QED BY <3>1, <3>2
    <2>2. IsFiniteSet(Above(x)) /\ IsFiniteSet(Above(y))
      BY <1>1
    <2> HIDE DEF Above
    <2>3. Cardinality(Above(y)) <= Cardinality(Above(x)) /\ Cardinality(Above(y)) # Cardinality(Above(x))
      BY <2>1, <2>2, FS_Subset
    <2>4. Cardinality(Above(x)) <= Cardinality(Above(y))
      BY <1>3, <1>4
    <2>5. Cardinality(Above(x)) \in Nat /\ Cardinality(Above(y)) \in Nat
      BY <2>2, FS_CardinalityType
    <2> QED BY <2>3, <2>4, <2>5
  <1>6. \A y \in S : x >= y
    BY <1>5
  <1>7. Max(S) \in S /\ \A y \in S : Max(S) >= y
    BY <1>6 DEF Max
  <1> QED BY <1>7

(* Demands on categories. *)
SoundDemands(r) ==
  /\ DOMAIN r \subseteq Category
  /\ \A c \in DOMAIN r : /\ r[c].min \in Nat /\ r[c].required \in BOOLEAN
                         /\ r[c].required => c \in Demandable
                         /\ r[c].min <= Needed(c)
                         /\ r[c].hotels # {} => c = "hotel_reviews"

(* Demands are complete: guides, and notices when the weather has risks. *)
Demanding(r) ==
  \A c \in Demandable : c \in DOMAIN r /\ r[c].required /\ (c = "guides" => r[c].min >= 2)

(* Demands only grow. *)
LEMMA DemandsGrow ==
  ASSUME NEW before, SoundDemands(before), NEW tasks, SoundTasks(tasks)
  PROVE  LET after == Demands(before, tasks)
         IN  /\ SoundDemands(after)
             /\ CarriesAll(tasks, Demandable) \/ Demanding(before) => Demanding(after)
             /\ \A c \in DOMAIN before : /\ c \in DOMAIN after
                                         /\ before[c].required => after[c].required
                                         /\ before[c].min <= after[c].min
  <1> DEFINE Of(c) == {t \in ToSet(tasks) : t.category = c}
             Old(c) == IF c \in DOMAIN before THEN before[c]
                       ELSE [required |-> FALSE, min |-> 0, hotels |-> {}]
             mins(c) == {Old(c).min} \cup {t.min : t \in Of(c)}
             after == Demands(before, tasks)
  <1>1. after = [c \in DOMAIN before \cup Categories(tasks) |->
                  [required |-> Old(c).required \/ \E t \in Of(c) : t.required,
                   min      |-> Max(mins(c)),
                   hotels   |-> Old(c).hotels \cup UNION {HotelsOf(t) : t \in Of(c)}]]
    BY DEF Demands
  <1>2. IsList(tasks) /\ \A t \in ToSet(tasks) : SoundTask(t)
    BY DEF SoundTasks
  <1>3. IsFiniteSet(ToSet(tasks))
    BY <1>2, Places, Image DEF ToSet
  <1>4. ASSUME NEW c
        PROVE  Old(c).min \in Nat /\ Old(c).required \in BOOLEAN /\ (Old(c).required => c \in Demandable)
    BY DEF SoundDemands
  <1>5. ASSUME NEW c
        PROVE  /\ Max(mins(c)) \in Nat /\ Max(mins(c)) \in mins(c)
               /\ \A x \in mins(c) : x <= Max(mins(c))
    <2>1. \A t \in Of(c) : t.min \in Nat
      BY <1>2 DEF SoundTask, IsTask
    <2>2. IsFiniteSet({t.min : t \in Of(c)})
      <3> DEFINE D == Of(c)
                 B == {t.min : t \in D}
                 g == [t \in D |-> t.min]
      <3>1. B = {g[t] : t \in D}
        OBVIOUS
      <3>2. IsFiniteSet(D)
        BY <1>3, FS_Subset
      <3> HIDE DEF g, D, B
      <3>3. IsFiniteSet(B)
        BY <3>1, <3>2, Image
      <3> QED BY <3>3 DEF B, D
    <2>3. IsFiniteSet(mins(c))
      <3> DEFINE A == {Old(c).min}
                 B == {t.min : t \in Of(c)}
      <3>1. IsFiniteSet(A) /\ IsFiniteSet(B)
        BY <2>2, FS_Singleton
      <3>2. mins(c) = A \cup B
        OBVIOUS
      <3> HIDE DEF A, B, mins
      <3>3. IsFiniteSet(A \cup B)
        BY <3>1, FS_Union
      <3> QED BY <3>2, <3>3
    <2>4. mins(c) \subseteq Nat /\ mins(c) # {}
      <3> HIDE DEF Old, Of
      <3> QED BY <1>4, <2>1
    <2> HIDE DEF mins
    <2>5. Max(mins(c)) \in mins(c) /\ \A x \in mins(c) : x <= Max(mins(c))
      BY <2>3, <2>4, Largest
    <2> QED BY <2>4, <2>5
  <1> HIDE DEF after
  <1>6. DOMAIN after = DOMAIN before \cup Categories(tasks)
    BY <1>1
  <1>7. ASSUME NEW c \in DOMAIN after
        PROVE  /\ after[c].min = Max(mins(c)) /\ after[c].required \in BOOLEAN
               /\ after[c].required <=> (Old(c).required \/ \E t \in Of(c) : t.required)
               /\ after[c].hotels = Old(c).hotels \cup UNION {HotelsOf(t) : t \in Of(c)}
    <2> DEFINE b == Old(c).required \/ \E t \in Of(c) : t.required
    <2>1. b \in BOOLEAN
      OBVIOUS
    <2>2. after[c] = [required |-> b, min |-> Max(mins(c)),
                      hotels |-> Old(c).hotels \cup UNION {HotelsOf(t) : t \in Of(c)}]
      <3> HIDE DEF Old, mins, Of
      <3> QED BY <1>1, <1>6
    <2> HIDE DEF b
    <2>3. /\ after[c].required = b /\ after[c].min = Max(mins(c))
          /\ after[c].hotels = Old(c).hotels \cup UNION {HotelsOf(t) : t \in Of(c)}
      <3> HIDE DEF Old, mins, Of
      <3> QED BY <2>2
    <2>4. (after[c].required <=> b) /\ after[c].required \in BOOLEAN
      BY <2>1, <2>3
    <2> QED BY <2>3, <2>4 DEF b
  <1>8. ASSUME NEW c \in DOMAIN before
        PROVE  /\ c \in DOMAIN after
               /\ before[c].required => after[c].required
               /\ before[c].min <= after[c].min
    <2>1. Old(c) = before[c] /\ c \in DOMAIN after
      BY <1>6
    <2>2. Old(c).min \in mins(c)
      OBVIOUS
    <2> HIDE DEF Old, mins, Of
    <2> QED BY <1>5, <1>7, <2>1, <2>2
  <1>9. ASSUME NEW t \in ToSet(tasks)
        PROVE  /\ t.category \in DOMAIN after
               /\ t.required => after[t.category].required
               /\ t.min <= after[t.category].min
    <2> DEFINE c == t.category
    <2>1. c \in DOMAIN after
      BY <1>6, CategoriesOf
    <2>2. t \in Of(c)
      OBVIOUS
    <2>3. t.min \in mins(c)
      BY <2>2
    <2> HIDE DEF Old, mins, Of, c
    <2>4. (t.required => after[c].required) /\ t.min <= after[c].min
      BY <1>5, <1>7, <2>1, <2>2, <2>3
    <2> QED BY <2>1, <2>4 DEF c
  <1>10. SoundDemands(after)
    <2>1. Categories(tasks) \subseteq Category
      BY <1>2, CategoriesOf DEF SoundTask
    <2>2. DOMAIN after \subseteq Category
      BY <1>6, <2>1 DEF SoundDemands
    <2>3. \A c \in DOMAIN after : after[c].min \in Nat
      <3> HIDE DEF mins
      <3> QED BY <1>5, <1>7
    <2>4. ASSUME NEW c \in DOMAIN after, after[c].required PROVE c \in Demandable
      <3>1. CASE Old(c).required
        <4> HIDE DEF Old
        <4> QED BY <1>4, <3>1
      <3>2. CASE \E t \in Of(c) : t.required
        <4>1. PICK t \in ToSet(tasks) : t.category = c /\ t.required
          BY <3>2
        <4>2. c \in {"guides", "safety_notices"} /\ (c = "safety_notices" => trip.risks # {})
          BY <1>2, <4>1 DEF SoundTask
        <4> QED BY <4>2 DEF Demandable
      <3> HIDE DEF Old, Of
      <3> QED BY <1>7, <2>4, <3>1, <3>2
    <2>5. ASSUME NEW c \in DOMAIN after PROVE after[c].min <= Needed(c)
      <3>1. \A t \in Of(c) : t.min <= Needed(c) /\ Needed(c) \in Nat
        BY <1>2 DEF SoundTask
      <3>2. Old(c).min <= Needed(c)
        <4>1. CASE c \in DOMAIN before
          BY <4>1 DEF SoundDemands
        <4>2. CASE c \notin DOMAIN before
          <5>1. Old(c).min = 0
            BY <4>2
          <5>2. c \in Categories(tasks)
            BY <1>6, <4>2
          <5>3. \E t \in ToSet(tasks) : t.category = c
            BY <5>2, CategoriesOf
          <5>4. Needed(c) \in Nat
            BY <3>1, <5>3
          <5> HIDE DEF Old
          <5> QED BY <5>1, <5>4
        <4> QED BY <4>1, <4>2
      <3>3. Max(mins(c)) = Old(c).min \/ \E t \in Of(c) : Max(mins(c)) = t.min
        BY <1>5
      <3> HIDE DEF Old, Of, mins
      <3> QED BY <1>7, <3>1, <3>2, <3>3
    <2>6. ASSUME NEW c \in DOMAIN after, after[c].hotels # {} PROVE c = "hotel_reviews"
      <3>1. CASE Old(c).hotels # {}
        BY <3>1 DEF SoundDemands
      <3>2. CASE \E t \in Of(c) : HotelsOf(t) # {}
        BY <3>2 DEF HotelsOf
      <3>3. after[c].hotels = Old(c).hotels \cup UNION {HotelsOf(t) : t \in Of(c)}
        BY <1>7
      <3>4. PICK h : h \in after[c].hotels
        BY <2>6
      <3> HIDE DEF Old, Of
      <3>5. h \in Old(c).hotels \/ \E t \in Of(c) : h \in HotelsOf(t)
        BY <3>3, <3>4
      <3> QED BY <3>1, <3>2, <3>5
    <2> QED BY <1>7, <2>2, <2>3, <2>4, <2>5, <2>6 DEF SoundDemands
  <1>11. ASSUME CarriesAll(tasks, Demandable) PROVE Demanding(after)
    <2> SUFFICES ASSUME NEW c \in Demandable
                 PROVE  c \in DOMAIN after /\ after[c].required /\ (c = "guides" => after[c].min >= 2)
      BY DEF Demanding
    <2>1. PICK t \in ToSet(tasks) : Carries(t, c)
      BY <1>11 DEF CarriesAll
    <2>2. t.category = c /\ t.required /\ (c = "guides" => t.min >= 2) /\ t.min \in Nat
      BY <1>2, <2>1 DEF Carries, SoundTask, IsTask
    <2>3. c \in DOMAIN after /\ after[c].required /\ t.min <= after[c].min
      BY <1>9, <2>2
    <2>4. after[c].min \in Nat
      BY <1>10, <2>3 DEF SoundDemands
    <2> QED BY <2>2, <2>3, <2>4
  <1>12. ASSUME Demanding(before) PROVE Demanding(after)
    <2> SUFFICES ASSUME NEW c \in Demandable
                 PROVE  c \in DOMAIN after /\ after[c].required /\ (c = "guides" => after[c].min >= 2)
      BY DEF Demanding
    <2>1. c \in DOMAIN before /\ before[c].required /\ (c = "guides" => before[c].min >= 2)
      BY <1>12 DEF Demanding
    <2>2. c \in DOMAIN after /\ after[c].required /\ before[c].min <= after[c].min
      BY <1>8, <2>1
    <2>3. after[c].min \in Nat /\ before[c].min \in Nat
      BY <1>10, <2>1, <2>2 DEF SoundDemands
    <2> QED BY <2>1, <2>2, <2>3
  <1> QED BY <1>8, <1>10, <1>11, <1>12 DEF after

(* Evidence of a category. *)
SoundItem(e) == IsItem(e) /\ e.category \in Category

(* A pool holds a chunk once in a category. *)
SoundPool(items) ==
  /\ IsFiniteSet(items) /\ \A e \in items : SoundItem(e)
  /\ \A e, o \in items : Pooled(e) = Pooled(o) => e = o

(* Merging evidence into a pool loses no chunk and invents none, and one piece stays of each. *)
LEMMA MergedPools ==
  ASSUME NEW items, SoundPool(items), NEW list, IsList(list), \A e \in ToSet(list) : SoundItem(e)
  PROVE  /\ SoundPool(Merged(items, list))
         /\ Merged(items, list) \subseteq items \cup ToSet(list)
         /\ Keys(Merged(items, list)) = Keys(items) \cup Keys(ToSet(list))
  <1> DEFINE Found(e, place) == [key |-> <<-e.score, -e.fusion, place>>, item |-> e]
             old == {Found(e, 0) : e \in items}
             new == {Found(list[i], i) : i \in DOMAIN list}
             all == old \cup new
             K == {Pooled(f.item) : f \in all}
             Group(k) == {f \in all : Pooled(f.item) = k}
             Best(k) == Ordered(Group(k))[1]
             merged == Merged(items, list)
  <1>1. merged = {Best(k) : k \in K}
    BY DEF Merged
  <1>2. IsFiniteSet(DOMAIN list) /\ DOMAIN list \subseteq Int /\ \A i \in DOMAIN list : i >= 1
    BY Places
  <1>3. IsFiniteSet(all)
    <2>1. IsFiniteSet(old)
      <3> DEFINE g == [e \in items |-> Found(e, 0)]
      <3>1. old = {g[e] : e \in items}
        OBVIOUS
      <3>2. IsFiniteSet(items)
        BY DEF SoundPool
      <3> HIDE DEF g, old
      <3> QED BY <3>1, <3>2, Image
    <2>2. IsFiniteSet(new)
      <3> DEFINE g == [i \in DOMAIN list |-> Found(list[i], i)]
      <3>1. new = {g[i] : i \in DOMAIN list}
        OBVIOUS
      <3> HIDE DEF g, new
      <3> QED BY <1>2, <3>1, Image
    <2> HIDE DEF old, new
    <2> QED BY <2>1, <2>2, FS_Union
  <1>4. \A f \in all : \/ \E e \in items : f = Found(e, 0)
                       \/ \E i \in DOMAIN list : f = Found(list[i], i)
    OBVIOUS
  <1>5. \A e \in items \cup ToSet(list) : e.score \in Int /\ e.fusion \in Int
    BY DEF SoundPool, SoundItem, IsItem
  <1>6. \A f \in all : f.key \in [1 .. 3 -> Int]
    <2>1. ASSUME NEW e \in items \cup ToSet(list), NEW place \in Int
          PROVE  Found(e, place).key \in [1 .. 3 -> Int]
      <3>1. -e.score \in Int /\ -e.fusion \in Int
        BY <1>5
      <3>2. <<-e.score, -e.fusion, place>> \in [1 .. 3 -> Int]
        BY <3>1
      <3> QED BY <3>2
    <2>2. \A i \in DOMAIN list : list[i] \in ToSet(list) /\ i \in Int
      BY <1>2 DEF ToSet
    <2>3. 0 \in Int
      OBVIOUS
    <2> HIDE DEF Found, all
    <2> QED BY <1>4, <2>1, <2>2, <2>3
  <1>7. \A f, h \in all : f.key = h.key /\ Pooled(f.item) = Pooled(h.item) => f = h
    <2> SUFFICES ASSUME NEW f \in all, NEW h \in all, f.key = h.key,
                        Pooled(f.item) = Pooled(h.item)
                 PROVE  f = h
      OBVIOUS
    <2>1. f.key[3] = h.key[3]
      OBVIOUS
    <2>2. CASE (\E e \in items : f = Found(e, 0)) /\ \E e \in items : h = Found(e, 0)
      <3>1. PICK e \in items : f = Found(e, 0)
        BY <2>2
      <3>2. PICK o \in items : h = Found(o, 0)
        BY <2>2
      <3>3. e = o
        BY <3>1, <3>2 DEF SoundPool
      <3> QED BY <3>1, <3>2, <3>3
    <2>3. CASE (\E i \in DOMAIN list : f = Found(list[i], i))
               /\ \E i \in DOMAIN list : h = Found(list[i], i)
      <3>1. PICK i \in DOMAIN list : f = Found(list[i], i)
        BY <2>3
      <3>2. PICK j \in DOMAIN list : h = Found(list[j], j)
        BY <2>3
      <3>3. i = j
        BY <2>1, <3>1, <3>2
      <3> QED BY <3>1, <3>2, <3>3
    <2>4. CASE (\E e \in items : f = Found(e, 0)) /\ \E i \in DOMAIN list : h = Found(list[i], i)
      <3>1. f.key[3] = 0
        BY <2>4
      <3>2. PICK i \in DOMAIN list : h = Found(list[i], i)
        BY <2>4
      <3>3. h.key[3] = i /\ i >= 1
        BY <1>2, <3>2
      <3> QED BY <2>1, <3>1, <3>3
    <2>5. CASE (\E e \in items : h = Found(e, 0)) /\ \E i \in DOMAIN list : f = Found(list[i], i)
      <3>1. h.key[3] = 0
        BY <2>5
      <3>2. PICK i \in DOMAIN list : f = Found(list[i], i)
        BY <2>5
      <3>3. f.key[3] = i /\ i >= 1
        BY <1>2, <3>2
      <3> QED BY <2>1, <3>1, <3>3
    <2> HIDE DEF Found, all
    <2> QED BY <1>4, <2>2, <2>3, <2>4, <2>5
  <1>8. /\ \A f \in all : f.item \in items \cup ToSet(list)
        /\ \A e \in items \cup ToSet(list) : \E f \in all : f.item = e
    <2>1. \A f \in all : f.item \in items \cup ToSet(list)
      BY DEF ToSet
    <2>2. ASSUME NEW e \in items PROVE \E f \in all : f.item = e
      <3>1. Found(e, 0) \in all /\ Found(e, 0).item = e
        OBVIOUS
      <3> HIDE DEF Found, all
      <3> QED BY <3>1
    <2>3. ASSUME NEW e \in ToSet(list) PROVE \E f \in all : f.item = e
      <3>1. PICK i \in DOMAIN list : list[i] = e
        BY DEF ToSet
      <3>2. Found(list[i], i) \in all /\ Found(list[i], i).item = e
        BY <3>1
      <3> HIDE DEF Found, all
      <3> QED BY <3>2
    <2> HIDE DEF all
    <2> QED BY <2>1, <2>2, <2>3
  <1> HIDE DEF all
  <1>9. ASSUME NEW k \in K PROVE Best(k) \in items \cup ToSet(list) /\ Pooled(Best(k)) = k
    <2> DEFINE G == Group(k)
    <2>1. IsFiniteSet(G)
      BY <1>3, FS_Subset
    <2>2. \A f \in G : f \in all /\ Pooled(f.item) = k
      OBVIOUS
    <2>3. G # {}
      OBVIOUS
    <2> HIDE DEF G
    <2>4. Sortable(G)
      <3>1. 3 \in Nat /\ \A f \in G : f.key \in [1 .. 3 -> Int]
        BY <1>6, <2>2
      <3>2. \A f, h \in G : f.key = h.key => f = h
        BY <1>7, <2>2
      <3> QED BY <2>1, <3>1, <3>2 DEF Sortable
    <2>5. /\ DOMAIN Ordered(G) = 1 .. Cardinality(G) /\ Cardinality(G) \in Nat
          /\ \A i \in DOMAIN Ordered(G) : Sorted(G)[i] \in G /\ Ordered(G)[i] = Sorted(G)[i].item
      BY <2>4, OrderedLists
    <2>6. Cardinality(G) # 0
      BY <2>1, <2>3, FS_EmptySet
    <2>7. 1 \in DOMAIN Ordered(G)
      BY <2>5, <2>6
    <2>8. PICK f \in G : Ordered(G)[1] = f.item
      BY <2>5, <2>7
    <2>9. Best(k) = f.item
      BY <2>8 DEF G
    <2> HIDE DEF Best
    <2> QED BY <1>8, <2>2, <2>8, <2>9
  <1> HIDE DEF Best, merged
  <1>10. merged \subseteq items \cup ToSet(list)
    BY <1>1, <1>9
  <1>11. Keys(merged) = K
    <2>1. \A e \in merged : Pooled(e) \in K
      BY <1>1, <1>9
    <2>2. \A k \in K : \E e \in merged : Pooled(e) = k
      BY <1>1, <1>9
    <2> HIDE DEF K
    <2> QED BY <2>1, <2>2 DEF Keys
  <1>12. K = Keys(items) \cup Keys(ToSet(list))
    <2>1. \A f \in all : Pooled(f.item) \in Keys(items) \cup Keys(ToSet(list))
      BY <1>8 DEF Keys
    <2>2. \A k \in Keys(items) \cup Keys(ToSet(list)) : \E e \in items \cup ToSet(list) : Pooled(e) = k
      BY DEF Keys
    <2> QED BY <1>8, <2>1, <2>2
  <1>13. SoundPool(merged)
    <2>1. IsFiniteSet(merged)
      <3>1. IsFiniteSet(K)
        <4> DEFINE g == [f \in all |-> Pooled(f.item)]
        <4>1. K = {g[f] : f \in all}
          OBVIOUS
        <4> HIDE DEF g, K
        <4> QED BY <1>3, <4>1, Image
      <3> DEFINE g == [k \in K |-> Best(k)]
      <3> HIDE DEF K
      <3>2. merged = {g[k] : k \in K}
        BY <1>1
      <3> HIDE DEF g
      <3> QED BY <3>1, <3>2, Image
    <2>2. \A e \in merged : SoundItem(e)
      BY <1>10 DEF SoundPool
    <2>3. \A e, o \in merged : Pooled(e) = Pooled(o) => e = o
      <3> SUFFICES ASSUME NEW e \in merged, NEW o \in merged, Pooled(e) = Pooled(o) PROVE e = o
        OBVIOUS
      <3>1. PICK k \in K : e = Best(k)
        BY <1>1
      <3>2. PICK l \in K : o = Best(l)
        BY <1>1
      <3> HIDE DEF K
      <3>3. k = l
        BY <1>9, <3>1, <3>2
      <3> QED BY <3>1, <3>2, <3>3
    <2> QED BY <2>1, <2>2, <2>3 DEF SoundPool
  <1> QED BY <1>10, <1>11, <1>12, <1>13 DEF merged

(* The pool in its order is the pool. *)
LEMMA OrderedPools ==
  ASSUME NEW items, SoundPool(items)
  PROVE  IsList(PoolOrder(items)) /\ ToSet(PoolOrder(items)) = items
  <1> DEFINE Score(e) == IF e.score # NoScore THEN e.score ELSE e.fusion
             Keyed(e) == [key |-> <<CategoryOrder[e.category], -Score(e), e.place, e.chunk>>, item |-> e]
             S == {Keyed(e) : e \in items}
  <1>1. PoolOrder(items) = Ordered(S)
    BY DEF PoolOrder
  <1>2. IsFiniteSet(items) /\ \A e \in items : SoundItem(e)
    BY DEF SoundPool
  <1>3. /\ \A c \in Category : CategoryOrder[c] \in Int
        /\ \A c, d \in Category : CategoryOrder[c] = CategoryOrder[d] => c = d
    BY DEF CategoryOrder, Category
  <1>4. Sortable(S)
    <2>1. IsFiniteSet(S)
      <3> DEFINE g == [e \in items |-> Keyed(e)]
      <3>1. S = {g[e] : e \in items}
        OBVIOUS
      <3> HIDE DEF g, S
      <3> QED BY <1>2, <3>1, Image
    <2>2. \A r \in S : r.key \in [1 .. 4 -> Int]
      <3> SUFFICES ASSUME NEW e \in items PROVE Keyed(e).key \in [1 .. 4 -> Int]
        OBVIOUS
      <3>1. e.category \in Category /\ e.place \in Int /\ Score(e) \in Int /\ e.chunk \in Int
        BY <1>2, CorpusIsIndexed DEF SoundItem, IsItem
      <3>2. CategoryOrder[e.category] \in Int /\ -Score(e) \in Int
        <4> HIDE DEF Score
        <4> QED BY <1>3, <3>1
      <3> HIDE DEF Score
      <3>3. <<CategoryOrder[e.category], -Score(e), e.place, e.chunk>> \in [1 .. 4 -> Int]
        BY <3>1, <3>2
      <3> QED BY <3>3
    <2>3. \A r, o \in S : r.key = o.key => r = o
      <3> SUFFICES ASSUME NEW e \in items, NEW o \in items, Keyed(e).key = Keyed(o).key
                   PROVE  Keyed(e) = Keyed(o)
        OBVIOUS
      <3> HIDE DEF Score
      <3>1. CategoryOrder[e.category] = CategoryOrder[o.category] /\ e.chunk = o.chunk
        OBVIOUS
      <3>2. e.category \in Category /\ o.category \in Category
        BY <1>2 DEF SoundItem
      <3>3. e.category = o.category
        BY <1>3, <3>1, <3>2
      <3>4. Pooled(e) = Pooled(o)
        BY <3>1, <3>3 DEF Pooled
      <3>5. e = o
        BY <3>4 DEF SoundPool
      <3> QED BY <3>5
    <2>4. 4 \in Nat
      OBVIOUS
    <2> HIDE DEF S
    <2> QED BY <2>1, <2>2, <2>3, <2>4 DEF Sortable
  <1>5. {r.item : r \in S} = items
    <2>1. \A e : Keyed(e).item = e
      OBVIOUS
    <2> HIDE DEF Keyed
    <2> QED BY <2>1
  <1> HIDE DEF S
  <1>6. Ordered(S) \in Seq({r.item : r \in S}) /\ ToSet(Ordered(S)) = {r.item : r \in S}
    BY <1>4, OrderedLists
  <1> QED BY <1>1, <1>5, <1>6 DEF IsList

-----------------------------------------------------------------------------
(* The inductive invariant. *)

(* What a piece of evidence says concerns this trip. *)
FitsTrip(e) ==
  LET meta == Corpus[e.chunk].meta
  IN  /\ Corpus[e.chunk].legible
      /\ e.category # "packing_checklists" => trip.city \in meta.city
      /\ e.category = "hotel_reviews" => trip.hotel \cap meta.hotel # {}
      /\ e.category = "safety_notices" => trip.risks \cap meta.risk # {}

(* The status of a grade belongs to its next action. *)
SoundGrade(g) ==
  \/ g.next = "continue" /\ g.status \in {"passed", "degraded"}
  \/ g.next = "repair" /\ g.status = "repair_required"
  \/ g.next = "stop" /\ g.status = "failed"

(* What the tasks of the plan have found, one after the other; a task that has failed found nothing. *)
Found(broken) ==
  [i \in DOMAIN plan.tasks |->
    IF plan.tasks[i].id \in broken THEN <<>> ELSE RetrieveTask(plan.tasks[i])]

(* The lists of hits and of evidence; the ranking starts from what the tasks of the plan have found. *)
ListsSound ==
  /\ IsList(hits) /\ \A h \in ToSet(hits) : IsHit(h)
  /\ IsList(evidence) /\ \A e \in ToSet(evidence) : SoundItem(e)
  /\ phase = "rerank" => \E broken \in Faults : hits = Joined(Found(broken))

(* The pool: each chunk once in a category, and only what fits the trip. *)
PoolSound == SoundPool(pool) /\ \A e \in pool : FitsTrip(e)

\* A repair starts from demands that are complete.
DemandsSound ==
  /\ SoundDemands(requirements)
  /\ plan.mode = "repair" \/ HasRepairRequest(feedback) => Demanding(requirements)

\* The first plan is made without feedback, every other one on request and while rounds are left.
RoundsSound ==
  /\ retries \in 0 .. MaxRepairs
  /\ (phase = "retrieval_plan" /\ HasRepairRequest(feedback)) => retries < MaxRepairs
  /\ phase # "retrieval_plan" => plan.mode # "none"

(* The result belongs to the node that runs next. *)
ResultSound ==
  /\ phase \in Phase
  /\ phase = "retrieval_plan" => (result = NoResult /\ ~HasRepairRequest(feedback))
                                  \/ (result.next = "repair" /\ HasRepairRequest(feedback))
  /\ phase = "proposal" => /\ result.next = "continue" /\ SoundGrade(result)
                           /\ Failing(requirements, pool) = {} /\ Demanding(requirements)
  /\ phase = "final_response" => result.next = "stop" /\ SoundGrade(result)
  /\ phase \notin {"proposal", "final_response"} =>
       result = NoResult \/ (result.next = "repair" /\ SoundGrade(result))

(* The inductive invariant. *)
IInv ==
  /\ trip \in Trips /\ SoundPlan(plan) /\ SoundFeedback(feedback)
  /\ ListsSound /\ PoolSound /\ DemandsSound /\ RoundsSound /\ ResultSound

(* The state before anything was planned. *)
LEMMA EmptyParts ==
  /\ SoundPool({}) /\ SoundDemands(NoRequirements) /\ SoundFeedback(NoFeedback)
  /\ SoundPlan(NoPlan) /\ ~HasRepairRequest(NoFeedback)
  <1>1. SoundPool({})
    BY FS_EmptySet DEF SoundPool
  <1>2. SoundDemands(NoRequirements)
    BY DEF SoundDemands, NoRequirements
  <1>3. IsList(<<>>) /\ ToSet(<<>>) = {} /\ SoundNeeds(<<>>)
    BY EmptyList DEF Empty
  <1>4. SoundFeedback(NoFeedback) /\ ~HasRepairRequest(NoFeedback)
    BY <1>3 DEF SoundFeedback, NoFeedback, HasRepairRequest
  <1>5. SoundPlan(NoPlan)
    BY <1>3 DEF SoundPlan, NoPlan, SoundTasks, Apart
  <1> QED BY <1>1, <1>2, <1>4, <1>5

(* The initial states satisfy the invariant. *)
LEMMA Initially == Init => IInv
  <1> SUFFICES ASSUME Init PROVE IInv
    OBVIOUS
  <1>1. ListsSound
    BY EmptyList DEF Init, ListsSound, Empty
  <1>2. PoolSound /\ DemandsSound
    BY EmptyParts DEF Init, PoolSound, DemandsSound, NoPlan
  <1>3. RoundsSound /\ ResultSound
    BY EmptyParts, EvidenceBounds DEF Init, RoundsSound, ResultSound, Phase
  <1> QED BY <1>1, <1>2, <1>3, EmptyParts DEF Init, IInv

(* What is valid was asked for, and only what fits the trip is asked for. *)
LEMMA ValidFits ==
  ASSUME SoundPlan(plan), NEW e, Valid(e)
  PROVE  FitsTrip(e)
  <1>1. PICK t \in ToSet(plan.tasks) : t = TaskOf(e)
    BY DEF Valid, TaskOf
  <1>2. SoundTask(t)
    BY DEF SoundPlan, SoundTasks
  <1>3. /\ e.category = t.category /\ Corpus[e.chunk].legible
        /\ MetadataMatches(Corpus[e.chunk].meta, t.filter)
    BY <1>1 DEF Valid
  <1>4. PICK r \in SUBSET trip.risks : t.filter = Filter(t.category, r)
    BY <1>2 DEF SoundTask
  <1> DEFINE meta == Corpus[e.chunk].meta
             filter == Filter(e.category, r)
  <1>5. \A f \in DOMAIN filter : meta[f] \cap filter[f] # {}
    BY <1>3, <1>4 DEF MetadataMatches
  <1>6. e.category \in Category
    BY <1>2, <1>3 DEF SoundTask
  <1> HIDE DEF meta
  <1>7. ASSUME e.category = "guides" PROVE trip.city \in meta.city
    <2>1. filter = [doc |-> {e.category}, city |-> {trip.city}]
      BY <1>7 DEF Filter
    <2>2. "city" \in DOMAIN filter /\ filter["city"] = {trip.city}
      BY <2>1
    <2> HIDE DEF filter
    <2> QED BY <1>5, <2>2
  <1>8. ASSUME e.category = "hotel_reviews"
        PROVE  trip.city \in meta.city /\ trip.hotel \cap meta.hotel # {}
    <2>1. filter = [doc |-> {e.category}, city |-> {trip.city}, hotel |-> trip.hotel]
      BY <1>8 DEF Filter
    <2>2. /\ "city" \in DOMAIN filter /\ filter["city"] = {trip.city}
          /\ "hotel" \in DOMAIN filter /\ filter["hotel"] = trip.hotel
      BY <2>1
    <2> HIDE DEF filter
    <2>3. meta["city"] \cap {trip.city} # {} /\ meta["hotel"] \cap trip.hotel # {}
      BY <1>5, <2>2
    <2> QED BY <2>3
  <1>9. ASSUME e.category = "safety_notices"
        PROVE  trip.city \in meta.city /\ trip.risks \cap meta.risk # {}
    <2>1. filter = [doc |-> {e.category}, city |-> {trip.city}, risk |-> r,
                    level |-> {"medium", "high"}]
      BY <1>9 DEF Filter
    <2>2. /\ "city" \in DOMAIN filter /\ filter["city"] = {trip.city}
          /\ "risk" \in DOMAIN filter /\ filter["risk"] = r
      BY <2>1
    <2> HIDE DEF filter
    <2>3. meta["city"] \cap {trip.city} # {} /\ meta["risk"] \cap r # {}
      BY <1>5, <2>2
    <2> QED BY <2>3
  <1> QED BY <1>3, <1>6, <1>7, <1>8, <1>9 DEF FitsTrip, Category, meta

(* The plan that is made next: never exhausted, with something to look for. *)
LEMMA PlansMade ==
  ASSUME IInv, phase = "retrieval_plan",
         NEW p \in IF settings.agentic THEN AgenticPlans(RulePlan) ELSE {RulePlan}
  PROVE  /\ SoundPlan(p) /\ p.tasks # <<>>
         /\ p.mode = IF HasRepairRequest(feedback) THEN "repair" ELSE "initial"
  <1>1. trip \in Trips /\ SoundFeedback(feedback) /\ retries \in Nat
        /\ (HasRepairRequest(feedback) => retries < MaxRepairs)
    BY EvidenceBounds DEF IInv, RoundsSound
  <1>2. /\ SoundPlan(RulePlan) /\ RulePlan.tasks # <<>>
        /\ RulePlan.mode = IF HasRepairRequest(feedback) THEN "repair" ELSE "initial"
        /\ \A t \in ToSet(RulePlan.tasks) : t.category \in Demandable => Carries(t, t.category)
        /\ OnePerCategory(RulePlan.tasks)
    BY <1>1, PlansByRules
  <1>3. CASE p = RulePlan
    BY <1>2, <1>3
  <1>4. CASE p # RulePlan
    <2>1. PICK d \in Decisions : p = CompileDecision(d, RulePlan, feedback.needs) /\ p.tasks # <<>>
      BY <1>4 DEF AgenticPlans
    <2>2. SoundBase(RulePlan)
      <3>1. RulePlan.mode \in {"initial", "repair"}
        BY <1>2
      <3> QED BY <1>2, <3>1 DEF SoundBase
    <2>3. SoundNeeds(feedback.needs)
      BY <1>1 DEF SoundFeedback
    <2>4. SoundPlan(p) /\ p.mode = RulePlan.mode
      BY <2>1, <2>2, <2>3, CompiledPlans
    <2> QED BY <1>2, <2>1, <2>4
  <1> QED BY <1>3, <1>4

(* The risks the grader misses are risks of the trip. *)
LEMMA NoMissingRisks ==
  ASSUME NEW demands, NEW items, NEW c
  PROVE  MissingRisks(demands, items, c) \subseteq trip.risks
  BY DEF MissingRisks, DemandedRisks

(* What a grade leaves behind. *)
GradeFacts(items, demands, grade, fb) ==
  /\ SoundPool(items) /\ \A e \in items : FitsTrip(e)
  /\ Keys(BasePool) \subseteq Keys(items)
  /\ SoundDemands(demands) /\ Demanding(demands)
  /\ \A c \in DOMAIN BaseRequirements :
       /\ c \in DOMAIN demands
       /\ BaseRequirements[c].required => demands[c].required
       /\ BaseRequirements[c].min <= demands[c].min
  /\ SoundFeedback(fb) /\ SoundGrade(grade)
  /\ grade.next = "continue" => Failing(demands, items) = {} /\ ~HasRepairRequest(fb)
  /\ grade.next = "repair" => HasRepairRequest(fb) /\ plan.exhausted = FALSE /\ retries < MaxRepairs

(* What the rules may find, and that they ask for a repair only when one is left. *)
LEMMA GradeByRules ==
  ASSUME IInv, NEW items, NEW demands, SoundDemands(demands), NEW rejected
  PROVE  LET grade == RuleGrade(demands, items, rejected)
             fb == RuleFeedback(demands, items)
         IN  /\ SoundGrade(grade) /\ SoundFeedback(fb)
             /\ grade = [next |-> grade.next, semantic |-> "none", status |-> grade.status]
             /\ grade.next = "continue" <=> Failing(demands, items) = {}
             /\ HasRepairRequest(fb) <=> Failing(demands, items) # {}
             /\ grade.next = "repair" => plan.exhausted = FALSE /\ retries < MaxRepairs
  <1> DEFINE failing == Failing(demands, items)
             grade == RuleGrade(demands, items, rejected)
             fb == RuleFeedback(demands, items)
             next == IF failing = {} THEN "continue"
                     ELSE IF ~plan.exhausted /\ retries < MaxRepairs THEN "repair" ELSE "stop"
             fallback == degradedRank \/ \E i \in DOMAIN evidence :
                                           Valid(evidence[i]) /\ evidence[i].via = "fallback"
             status == CASE next = "continue" -> IF fallback \/ rejected THEN "degraded" ELSE "passed"
                         [] next = "repair" -> "repair_required"
                         [] next = "stop" -> "failed"
  <1>1. grade = [next |-> next, semantic |-> "none", status |-> status]
    BY DEF RuleGrade
  <1>2. /\ next = "continue" \/ next = "repair" \/ next = "stop"
        /\ next = "continue" <=> failing = {}
        /\ next = "repair" => plan.exhausted = FALSE /\ retries < MaxRepairs
    <2>1. plan.exhausted = FALSE
      BY DEF IInv, SoundPlan
    <2> HIDE DEF failing
    <2> QED BY <2>1
  <1> HIDE DEF next, fallback
  <1>3. /\ next = "continue" => status \in {"passed", "degraded"}
        /\ next = "repair" => status = "repair_required"
        /\ next = "stop" => status = "failed"
    BY <1>2
  <1> HIDE DEF status, grade
  <1>4. grade.next = next /\ grade.status = status
    BY <1>1
  <1>5. SoundGrade(grade)
    BY <1>2, <1>3, <1>4 DEF SoundGrade
  <1>6. failing \subseteq Demandable
    BY DEF Failing, Covered, SoundDemands
  <1>7. CASE failing = {}
    <2>1. fb = NoFeedback
      BY <1>7 DEF RuleFeedback
    <2> QED BY <1>1, <1>2, <1>4, <1>5, <1>7, <2>1, EmptyParts DEF grade
  <1>8. CASE failing # {}
    <2> DEFINE risks == UNION {MissingRisks(demands, items, c) : c \in failing}
               needs == IF settings.judge THEN plan.needs ELSE <<>>
    <2>1. fb = [by |-> "rule", missing |-> failing, risks |-> risks, needs |-> needs]
      BY <1>8 DEF RuleFeedback
    <2>2. risks \subseteq trip.risks
      BY NoMissingRisks
    <2>3. SoundNeeds(needs)
      BY EmptyList DEF IInv, SoundPlan, Empty
    <2> HIDE DEF fb, failing, risks, needs
    <2>4. fb.missing = failing /\ fb.risks = risks /\ fb.needs = needs
      BY <2>1
    <2>5. SoundFeedback(fb) /\ HasRepairRequest(fb)
      BY <1>6, <1>8, <2>2, <2>3, <2>4 DEF SoundFeedback, HasRepairRequest
    <2> QED BY <1>1, <1>2, <1>4, <1>5, <1>8, <2>5 DEF fb, failing, grade
  <1> QED BY <1>7, <1>8

(* What the judge may make of it: it can turn a pass into a repair or a stop, never the reverse. *)
LEMMA GradeByJudge ==
  ASSUME IInv, NEW demands, SoundDemands(demands), NEW grade,
         grade = [next |-> grade.next, semantic |-> "none", status |-> grade.status],
         SoundGrade(grade), grade.next = "continue",
         NEW places, places \subseteq DOMAIN RequiredNeeds(demands)
  PROVE  LET needs == RequiredNeeds(demands)
             unmet == {needs[i] : i \in places}
             judged == SemanticGrade(grade, unmet)
             fb == SemanticFeedback(unmet)
         IN  /\ SoundGrade(judged) /\ SoundFeedback(fb)
             /\ judged.next = "continue" => ~HasRepairRequest(fb)
             /\ judged.next = "repair" =>
                  HasRepairRequest(fb) /\ plan.exhausted = FALSE /\ retries < MaxRepairs
  <1> DEFINE needs == RequiredNeeds(demands)
             unmet == {needs[i] : i \in places}
             judged == SemanticGrade(grade, unmet)
             fb == SemanticFeedback(unmet)
             P == {i \in DOMAIN plan.needs : /\ plan.needs[i].category \in DOMAIN demands
                                             /\ demands[plan.needs[i].category].required}
  <1>1. SoundNeeds(plan.needs) /\ plan.exhausted = FALSE
    BY DEF IInv, SoundPlan
  <1>2. IsFiniteSet(P) /\ P \subseteq Int
    BY <1>1, Places, FS_Subset DEF SoundNeeds
  <1>3. needs = Picked(plan.needs, P)
    BY DEF RequiredNeeds
  <1>4. \A n \in {plan.needs[i] : i \in P} : n.category \in Demandable
    BY DEF SoundDemands
  <1> HIDE DEF P, needs
  <1>5. ToSet(Picked(plan.needs, P)) = {plan.needs[i] : i \in P}
    BY <1>2, PickedLists
  <1>6. \A i \in DOMAIN needs : needs[i].category \in Demandable
    BY <1>3, <1>4, <1>5 DEF ToSet
  <1>7. \A n \in unmet : n.category \in Demandable
    BY <1>6 DEF needs
  <1> HIDE DEF unmet
  <1>8. CASE unmet = {}
    <2>1. judged = [next |-> grade.next, semantic |-> "passed", status |-> grade.status]
          /\ fb = NoFeedback
      BY <1>8 DEF SemanticGrade, SemanticFeedback
    <2> HIDE DEF judged, fb
    <2>2. judged.next = grade.next /\ judged.status = grade.status
      BY <2>1
    <2>3. SoundGrade(judged)
      BY <2>2 DEF SoundGrade
    <2> QED BY <2>1, <2>2, <2>3, EmptyParts DEF unmet, needs, judged, fb
  <1>9. CASE unmet # {}
    <2> DEFINE missing == {n.category : n \in unmet}
               again == plan.mode = "initial" /\ ~plan.exhausted /\ retries < MaxRepairs
    <2>1. fb = [by |-> "judge", missing |-> missing, risks |-> {}, needs |-> plan.needs]
      BY <1>9 DEF SemanticFeedback
    <2>2. judged = IF again
                   THEN [status |-> "repair_required", next |-> "repair", semantic |-> "insufficient"]
                   ELSE [status |-> "failed", next |-> "stop", semantic |-> "insufficient"]
      BY <1>9 DEF SemanticGrade
    <2>3. again => plan.exhausted = FALSE /\ retries < MaxRepairs
      BY <1>1
    <2>4. missing \subseteq Demandable /\ missing # {}
      BY <1>7, <1>9
    <2> HIDE DEF judged, fb, again, missing
    <2>5. fb.missing = missing /\ fb.risks = {} /\ fb.needs = plan.needs
      BY <2>1
    <2>6. SoundFeedback(fb) /\ HasRepairRequest(fb)
      BY <1>1, <2>4, <2>5 DEF SoundFeedback, HasRepairRequest
    <2>7. CASE again
      <3>1. judged.next = "repair" /\ judged.status = "repair_required"
        BY <2>2, <2>7
      <3> QED BY <2>3, <2>6, <2>7, <3>1 DEF SoundGrade, unmet, needs, judged, fb
    <2>8. CASE ~again
      <3>1. judged.next = "stop" /\ judged.status = "failed"
        BY <2>2, <2>8
      <3> QED BY <2>6, <3>1 DEF SoundGrade, unmet, needs, judged, fb
    <2> QED BY <2>7, <2>8
  <1> QED BY <1>8, <1>9

(* Whoever grades, the step leaves sound parts behind. *)
LEMMA GradeStep ==
  ASSUME IInv, EvidenceGrade
  PROVE  \E items, demands, grade, fb :
           Graded(items, demands, grade, fb) /\ GradeFacts(items, demands, grade, fb)
  <1> DEFINE places == {i \in DOMAIN evidence : Valid(evidence[i])}
             valid == Picked(evidence, places)
             items == Merged(BasePool, valid)
             demands == Demands(BaseRequirements, plan.tasks)
             rejected == Len(valid) < Len(evidence)
             grade == RuleGrade(demands, items, rejected)
             needs == RequiredNeeds(demands)
             rules == RuleFeedback(demands, items)
             Unmet(opinion) == {i \in DOMAIN needs : ~Supports(opinion[i], needs[i], items, demands)}
  <1>1. IsList(valid) /\ ToSet(valid) \subseteq ToSet(evidence) /\ \A e \in ToSet(valid) : Valid(e)
    <2>1. places \subseteq DOMAIN evidence /\ IsList(evidence)
      BY DEF IInv, ListsSound
    <2>3. \A i \in places : Valid(evidence[i])
      OBVIOUS
    <2> HIDE DEF places
    <2> QED BY <2>1, <2>3, SomePlaces
  <1> HIDE DEF valid
  <1>2. SoundPool(BasePool) /\ \A e \in BasePool : FitsTrip(e)
    BY EmptyParts DEF BasePool, IInv, PoolSound
  <1>3. \A e \in ToSet(valid) : SoundItem(e) /\ FitsTrip(e)
    BY <1>1, ValidFits DEF IInv, ListsSound
  <1>4. /\ SoundPool(items) /\ items \subseteq BasePool \cup ToSet(valid)
        /\ Keys(items) = Keys(BasePool) \cup Keys(ToSet(valid))
    BY <1>1, <1>2, <1>3, MergedPools
  <1>5. (\A e \in items : FitsTrip(e)) /\ Keys(BasePool) \subseteq Keys(items)
    BY <1>2, <1>3, <1>4
  <1>6. SoundDemands(BaseRequirements) /\ SoundTasks(plan.tasks)
    BY EmptyParts DEF BaseRequirements, IInv, DemandsSound, SoundPlan
  <1>7. CarriesAll(plan.tasks, Demandable) \/ Demanding(BaseRequirements)
    <2>1. plan.mode \in {"initial", "repair"}
      BY DEF EvidenceGrade, IInv, RoundsSound, SoundPlan
    <2> QED BY <2>1 DEF BaseRequirements, IInv, DemandsSound, SoundPlan
  <1>8. /\ SoundDemands(demands) /\ Demanding(demands)
        /\ \A c \in DOMAIN BaseRequirements :
             /\ c \in DOMAIN demands
             /\ BaseRequirements[c].required => demands[c].required
             /\ BaseRequirements[c].min <= demands[c].min
    BY <1>6, <1>7, DemandsGrow
  <1> HIDE DEF items, demands, rejected
  <1>9. /\ SoundGrade(grade) /\ SoundFeedback(rules)
        /\ grade = [next |-> grade.next, semantic |-> "none", status |-> grade.status]
        /\ grade.next = "continue" <=> Failing(demands, items) = {}
        /\ HasRepairRequest(rules) <=> Failing(demands, items) # {}
        /\ grade.next = "repair" => plan.exhausted = FALSE /\ retries < MaxRepairs
    BY <1>8, GradeByRules
  <1>10. \/ Graded(items, demands, grade, rules)
         \/ /\ grade.next = "continue"
            /\ \/ Graded(items, demands, [grade EXCEPT !.semantic = "unverified"], NoFeedback)
               \/ \E opinion \in [DOMAIN needs -> Opinions] :
                    LET unmet == {needs[i] : i \in Unmet(opinion)}
                    IN  Graded(items, demands, SemanticGrade(grade, unmet), SemanticFeedback(unmet))
    BY DEF EvidenceGrade, items, demands, valid, rejected
  <1> HIDE DEF grade, rules
  <1>11. CASE Graded(items, demands, grade, rules)
    <2>1. GradeFacts(items, demands, grade, rules)
      <3>1. grade.next = "repair" => HasRepairRequest(rules)
        BY <1>9
      <3>2. grade.next = "continue" => Failing(demands, items) = {} /\ ~HasRepairRequest(rules)
        BY <1>9
      <3> QED BY <1>4, <1>5, <1>8, <1>9, <3>1, <3>2 DEF GradeFacts
    <2> QED BY <1>11, <2>1
  <1>12. ASSUME grade.next = "continue",
                Graded(items, demands, [grade EXCEPT !.semantic = "unverified"], NoFeedback)
         PROVE  \E its, dem, gr, fb : Graded(its, dem, gr, fb) /\ GradeFacts(its, dem, gr, fb)
    <2> DEFINE unread == [grade EXCEPT !.semantic = "unverified"]
    <2>1. unread = [next |-> grade.next, semantic |-> "unverified", status |-> grade.status]
      BY <1>9
    <2> HIDE DEF unread
    <2>2. unread.next = grade.next /\ unread.status = grade.status
      BY <2>1
    <2>3. SoundGrade(unread)
      BY <1>9, <2>2 DEF SoundGrade
    <2>4. GradeFacts(items, demands, unread, NoFeedback)
      BY <1>4, <1>5, <1>8, <1>9, <1>12, <2>2, <2>3, EmptyParts DEF GradeFacts
    <2>5. Graded(items, demands, unread, NoFeedback)
      BY <1>12 DEF unread
    <2> QED BY <2>4, <2>5
  <1>13. ASSUME grade.next = "continue", NEW opinion,
                Graded(items, demands, SemanticGrade(grade, {needs[i] : i \in Unmet(opinion)}),
                       SemanticFeedback({needs[i] : i \in Unmet(opinion)}))
         PROVE  \E its, dem, gr, fb : Graded(its, dem, gr, fb) /\ GradeFacts(its, dem, gr, fb)
    <2> DEFINE P == Unmet(opinion)
               unmet == {needs[i] : i \in P}
               judged == SemanticGrade(grade, unmet)
               fb == SemanticFeedback(unmet)
    <2>1. P \subseteq DOMAIN needs
      OBVIOUS
    <2>2. Graded(items, demands, judged, fb)
      BY <1>13
    <2> HIDE DEF P, Unmet
    <2>3. /\ SoundGrade(judged) /\ SoundFeedback(fb)
          /\ judged.next = "continue" => ~HasRepairRequest(fb)
          /\ judged.next = "repair" =>
               HasRepairRequest(fb) /\ plan.exhausted = FALSE /\ retries < MaxRepairs
      BY <1>8, <1>9, <1>13, <2>1, GradeByJudge
    <2> HIDE DEF judged, fb
    <2>4. Failing(demands, items) = {}
      BY <1>9, <1>13
    <2>5. GradeFacts(items, demands, judged, fb)
      BY <1>4, <1>5, <1>8, <2>3, <2>4 DEF GradeFacts
    <2> QED BY <2>2, <2>5
  <1> HIDE DEF needs, Unmet
  <1> QED BY <1>10, <1>11, <1>12, <1>13

-----------------------------------------------------------------------------
(* The steps. *)

(* The parts of the invariant read nothing of the state but the trip. *)
LEMMA SameTrip ==
  ASSUME trip' = trip
  PROVE  /\ Demandable' = Demandable
         /\ \A p : SoundPlan(p)' <=> SoundPlan(p)
         /\ \A fb : SoundFeedback(fb)' <=> SoundFeedback(fb)
         /\ \A r : SoundDemands(r)' <=> SoundDemands(r)
         /\ \A r : Demanding(r)' <=> Demanding(r)
         /\ \A e : FitsTrip(e)' <=> FitsTrip(e)
         /\ \A d, i : Failing(d, i)' = Failing(d, i)
  <1>1. Demandable' = Demandable
    BY DEF Demandable
  <1>2. \A c, r : Filter(c, r)' = Filter(c, r)
    BY DEF Filter
  <1>10. \A c : Needed(c)' = Needed(c) /\ \A k : Enough(c, k)' <=> Enough(c, k)
    BY DEF Needed, Enough
  <1>3. \A t : SoundTask(t)' <=> SoundTask(t)
    BY <1>2, <1>10 DEF SoundTask
  <1>4. \A p : SoundPlan(p)' <=> SoundPlan(p)
    BY <1>1, <1>3 DEF SoundPlan, SoundTasks
  <1>5. \A fb : SoundFeedback(fb)' <=> SoundFeedback(fb)
    BY <1>1 DEF SoundFeedback
  <1>6. \A r : SoundDemands(r)' <=> SoundDemands(r)
    BY <1>1, <1>10 DEF SoundDemands
  <1>7. \A r : Demanding(r)' <=> Demanding(r)
    BY <1>1 DEF Demanding
  <1>8. \A e : FitsTrip(e)' <=> FitsTrip(e)
    BY DEF FitsTrip
  <1>9. \A d, i : Failing(d, i)' = Failing(d, i)
    BY DEF Failing, Covered, MissingRisks, DemandedRisks, MissingHotels
  <1> QED BY <1>1, <1>4, <1>5, <1>6, <1>7, <1>8, <1>9

(* Making a plan keeps the invariant; a repair is counted and has something to look for. *)
LEMMA PlanStep ==
  ASSUME IInv, RetrievalPlan
  PROVE  /\ IInv'
         /\ plan'.tasks # <<>> /\ plan'.exhausted = FALSE
         /\ plan'.mode = IF HasRepairRequest(feedback) THEN "repair" ELSE "initial"
         /\ retries' = IF HasRepairRequest(feedback) THEN retries + 1 ELSE retries
  <1>1. PICK p \in IF settings.agentic THEN AgenticPlans(RulePlan) ELSE {RulePlan} :
          plan' = p /\ retries' = RetriesAfter(p)
    BY DEF RetrievalPlan
  <1>2. /\ phase = "retrieval_plan" /\ phase' = "hybrid_retrieve"
        /\ UNCHANGED <<trip, settings, hits, evidence, degradedRank, pool, requirements, result,
                       feedback>>
    BY DEF RetrievalPlan
  <1>3. /\ SoundPlan(p) /\ p.tasks # <<>>
        /\ p.mode = IF HasRepairRequest(feedback) THEN "repair" ELSE "initial"
    BY <1>1, <1>2, PlansMade
  <1>4. p.exhausted = FALSE
    BY <1>3 DEF SoundPlan
  <1>5. retries' = IF HasRepairRequest(feedback) THEN retries + 1 ELSE retries
    BY <1>1, <1>3, <1>4 DEF RetriesAfter
  <1>6. SoundPlan(plan)' /\ SoundFeedback(feedback)' /\ (trip \in Trips)'
    BY <1>1, <1>2, <1>3, SameTrip DEF IInv
  <1>7. ListsSound'
    BY <1>2 DEF IInv, ListsSound
  <1>8. PoolSound'
    BY <1>2, SameTrip DEF IInv, PoolSound
  <1>9. DemandsSound'
    <2>1. SoundDemands(requirements)' /\ (HasRepairRequest(feedback)' <=> HasRepairRequest(feedback))
      BY <1>2, SameTrip DEF IInv, DemandsSound
    <2>2. plan'.mode = "repair" => HasRepairRequest(feedback)
      BY <1>1, <1>3
    <2>3. HasRepairRequest(feedback) => Demanding(requirements)'
      BY <1>2, SameTrip DEF IInv, DemandsSound
    <2> QED BY <2>1, <2>2, <2>3 DEF DemandsSound
  <1>10. RoundsSound'
    <2>1. retries \in 0 .. MaxRepairs /\ (HasRepairRequest(feedback) => retries < MaxRepairs)
      BY <1>2 DEF IInv, RoundsSound
    <2>2. retries' \in 0 .. MaxRepairs
      BY <1>5, <2>1, EvidenceBounds
    <2>3. plan'.mode # "none"
      BY <1>1, <1>3
    <2> QED BY <1>2, <2>2, <2>3 DEF RoundsSound
  <1>11. ResultSound'
    <2>1. result = NoResult \/ (result.next = "repair" /\ SoundGrade(result))
      BY <1>2 DEF IInv, ResultSound
    <2> QED BY <1>2, <2>1 DEF ResultSound, Phase
  <1> QED BY <1>1, <1>3, <1>4, <1>5, <1>6, <1>7, <1>8, <1>9, <1>10, <1>11 DEF IInv

(* The two steps in the middle leave all but the lists as they are. *)
LEMMA ListStep ==
  ASSUME IInv, ListsSound', phase \in {"hybrid_retrieve", "rerank"},
         phase' = IF phase = "rerank" THEN "evidence_grade" ELSE "rerank",
         UNCHANGED <<trip, settings, plan, retries, pool, requirements, result, feedback>>
  PROVE  IInv'
  <1>1. SoundPlan(plan)' /\ SoundFeedback(feedback)' /\ (trip \in Trips)'
    BY SameTrip DEF IInv
  <1>2. PoolSound'
    BY SameTrip DEF IInv, PoolSound
  <1>3. DemandsSound'
    <2>1. SoundDemands(requirements)' /\ (HasRepairRequest(feedback)' <=> HasRepairRequest(feedback))
      BY SameTrip DEF IInv, DemandsSound
    <2>2. Demanding(requirements)' <=> Demanding(requirements)
      BY SameTrip
    <2> QED BY <2>1, <2>2 DEF IInv, DemandsSound
  <1>4. RoundsSound'
    BY DEF IInv, RoundsSound
  <1>5. ResultSound'
    <2>1. result = NoResult \/ (result.next = "repair" /\ SoundGrade(result))
      BY DEF IInv, ResultSound
    <2>2. phase' \in {"rerank", "evidence_grade"}
      OBVIOUS
    <2> QED BY <2>1, <2>2 DEF ResultSound, Phase
  <1> QED BY <1>1, <1>2, <1>3, <1>4, <1>5 DEF IInv

(* The tasks of the plan, one at a time. *)
LEMMA TaskAt ==
  ASSUME SoundPlan(plan), NEW i \in DOMAIN plan.tasks
  PROVE  /\ SoundTask(plan.tasks[i]) /\ IsTask(plan.tasks[i])
         /\ plan.tasks[i].category \in Category
  <1>1. plan.tasks[i] \in ToSet(plan.tasks)
    BY DEF ToSet
  <1>2. SoundTask(plan.tasks[i])
    BY <1>1 DEF SoundPlan, SoundTasks
  <1> QED BY <1>2 DEF SoundTask

(* The tasks of the plan are a list. *)
LEMMA PlanTasksList ==
  ASSUME SoundPlan(plan)
  PROVE  IsList(plan.tasks)
  BY DEF SoundPlan, SoundTasks

(* What every task contributes makes one list. *)
LEMMA JoinedOverTasks ==
  ASSUME SoundPlan(plan), NEW f, f = [i \in DOMAIN plan.tasks |-> f[i]],
         \A i \in DOMAIN plan.tasks : IsList(f[i])
  PROVE  /\ IsList(Joined(f))
         /\ \A x \in ToSet(Joined(f)) : \E i \in DOMAIN plan.tasks : x \in ToSet(f[i])
  <1>1. IsList(f) /\ DOMAIN f = DOMAIN plan.tasks
    BY PlanTasksList, MappedLists
  <1>2. IsList(Joined(f)) /\ ToSet(Joined(f)) = UNION {ToSet(f[n]) : n \in DOMAIN f}
    BY <1>1, JoinedLists
  <1> QED BY <1>1, <1>2

(* Retrieval keeps the invariant, whatever fails. *)
LEMMA RetrieveStep ==
  ASSUME IInv, HybridRetrieve
  PROVE  IInv'
  <1>1. PICK broken \in Faults :
          hits' = Joined([i \in DOMAIN plan.tasks |->
                           IF plan.tasks[i].id \in broken THEN <<>> ELSE RetrieveTask(plan.tasks[i])])
    BY DEF HybridRetrieve
  <1> DEFINE f == [i \in DOMAIN plan.tasks |->
                    IF plan.tasks[i].id \in broken THEN <<>> ELSE RetrieveTask(plan.tasks[i])]
  <1>2. phase = "hybrid_retrieve" /\ phase' = "rerank"
        /\ UNCHANGED <<trip, settings, plan, retries, evidence, pool, requirements, result, feedback>>
    BY DEF HybridRetrieve
  <1>3. SoundPlan(plan)
    BY DEF IInv
  <1>4. ASSUME NEW i \in DOMAIN plan.tasks PROVE IsList(f[i]) /\ \A h \in ToSet(f[i]) : IsHit(h)
    <2>1. IsTask(plan.tasks[i])
      BY <1>3, TaskAt
    <2>2. /\ IsList(RetrieveTask(plan.tasks[i]))
          /\ \A h \in ToSet(RetrieveTask(plan.tasks[i])) : IsHit(h)
      BY <2>1, RetrievedLists
    <2>3. IsList(<<>>) /\ ToSet(<<>>) = {}
      BY EmptyList DEF Empty
    <2>4. f[i] = <<>> \/ f[i] = RetrieveTask(plan.tasks[i])
      OBVIOUS
    <2> HIDE DEF f
    <2> QED BY <2>2, <2>3, <2>4
  <1>5. f = [i \in DOMAIN plan.tasks |-> f[i]]
    OBVIOUS
  <1> HIDE DEF f
  <1>6. IsList(Joined(f)) /\ \A h \in ToSet(Joined(f)) : IsHit(h)
    <2>1. \A i \in DOMAIN plan.tasks : IsList(f[i])
      BY <1>4
    <2>2. /\ IsList(Joined(f))
          /\ \A x \in ToSet(Joined(f)) : \E i \in DOMAIN plan.tasks : x \in ToSet(f[i])
      BY <1>3, <1>5, <2>1, JoinedOverTasks
    <2> QED BY <1>4, <2>2
  <1>7. hits' = Joined(f)
    BY <1>1 DEF f
  <1>8. ListsSound'
    <2>1. Faults' = Faults /\ Found(broken)' = Found(broken)
      BY <1>2 DEF Faults, Found
    <2>2. hits' = Joined(Found(broken))
      BY <1>1 DEF Found
    <2>3. \E b \in Faults' : hits' = Joined(Found(b)')
      BY <2>1, <2>2
    <2> QED BY <1>2, <1>6, <1>7, <2>3 DEF IInv, ListsSound
  <1> QED BY <1>2, <1>8, ListStep

(* The hits of a task are of the task. *)
LEMMA HitsOfTask ==
  ASSUME ListsSound, NEW t
  PROVE  HitsFor(t, HitsOf(t))
  <1> DEFINE P == {i \in DOMAIN hits : hits[i].task = t.id}
  <1>1. P \subseteq DOMAIN hits /\ HitsOf(t) = Picked(hits, P) /\ \A i \in P : hits[i].task = t.id
    BY DEF HitsOf
  <1> HIDE DEF P
  <1>2. /\ IsList(HitsOf(t)) /\ ToSet(HitsOf(t)) \subseteq ToSet(hits)
        /\ \A h \in ToSet(HitsOf(t)) : h.task = t.id
    BY <1>1, SomePlaces DEF ListsSound
  <1> QED BY <1>2 DEF ListsSound, HitsFor

(* Any ranking that takes evidence from the hits of each task keeps the invariant. *)
LEMMA RankedStep ==
  ASSUME IInv, phase = "rerank", phase' = "evidence_grade",
         UNCHANGED <<trip, settings, plan, retries, hits, pool, requirements, result, feedback>>,
         NEW f, f = [i \in DOMAIN plan.tasks |-> f[i]], evidence' = Joined(f),
         \A i \in DOMAIN plan.tasks : ItemsFor(plan.tasks[i], f[i])
  PROVE  IInv'
  <1>1. SoundPlan(plan)
    BY DEF IInv
  <1>2. \A i \in DOMAIN plan.tasks : IsList(f[i]) /\ \A e \in ToSet(f[i]) : SoundItem(e)
    BY <1>1, TaskAt DEF ItemsFor, SoundItem
  <1>3. /\ IsList(Joined(f))
        /\ \A x \in ToSet(Joined(f)) : \E i \in DOMAIN plan.tasks : x \in ToSet(f[i])
    BY <1>1, <1>2, JoinedOverTasks
  <1>4. ListsSound'
    BY <1>2, <1>3 DEF IInv, ListsSound
  <1> QED BY <1>4, ListStep

(* The default ranking keeps the invariant. *)
LEMMA KeepStep ==
  ASSUME IInv, KeepFusionOrder
  PROVE  IInv'
  <1> DEFINE f == [i \in DOMAIN plan.tasks |-> PassThrough(plan.tasks[i], HitsOf(plan.tasks[i]))]
  <1>1. /\ phase = "rerank" /\ phase' = "evidence_grade" /\ evidence' = Joined(f)
        /\ UNCHANGED <<trip, settings, plan, retries, hits, pool, requirements, result, feedback>>
    BY DEF KeepFusionOrder
  <1>2. ASSUME NEW i \in DOMAIN plan.tasks PROVE ItemsFor(plan.tasks[i], f[i])
    <2>1. IsTask(plan.tasks[i]) /\ HitsFor(plan.tasks[i], HitsOf(plan.tasks[i]))
      BY TaskAt, HitsOfTask DEF IInv
    <2>2. ItemsFor(plan.tasks[i], PassThrough(plan.tasks[i], HitsOf(plan.tasks[i])))
      BY <2>1, RankedLists
    <2> QED BY <2>2
  <1>3. f = [i \in DOMAIN plan.tasks |-> f[i]]
    OBVIOUS
  <1> HIDE DEF f
  <1> QED BY <1>1, <1>2, <1>3, RankedStep

(* So does the second ranking, whatever fails. *)
LEMMA RerankStep ==
  ASSUME IInv, Rerank
  PROVE  IInv'
  <1>1. PICK broken \in Faults :
          LET failed == {t.id : t \in {t \in ToSet(plan.tasks) : t.id \in broken /\ HitsOf(t) # <<>>}}
              Ranked(t) == IF t.id \notin failed THEN RerankTask(t, HitsOf(t))
                           ELSE IF settings.fallback THEN FallbackTask(t, HitsOf(t)) ELSE <<>>
          IN  evidence' = Joined([i \in DOMAIN plan.tasks |-> Ranked(plan.tasks[i])])
    BY DEF Rerank
  <1> DEFINE failed == {t.id : t \in {t \in ToSet(plan.tasks) : t.id \in broken /\ HitsOf(t) # <<>>}}
             Ranked(t) == IF t.id \notin failed THEN RerankTask(t, HitsOf(t))
                          ELSE IF settings.fallback THEN FallbackTask(t, HitsOf(t)) ELSE <<>>
             f == [i \in DOMAIN plan.tasks |-> Ranked(plan.tasks[i])]
  <1>2. /\ phase = "rerank" /\ phase' = "evidence_grade"
        /\ UNCHANGED <<trip, settings, plan, retries, hits, pool, requirements, result, feedback>>
    BY DEF Rerank
  <1>3. evidence' = Joined(f)
    BY <1>1
  <1> HIDE DEF failed
  <1>4. ASSUME NEW i \in DOMAIN plan.tasks PROVE ItemsFor(plan.tasks[i], f[i])
    <2> DEFINE t == plan.tasks[i]
    <2>1. IsTask(t) /\ HitsFor(t, HitsOf(t))
      BY TaskAt, HitsOfTask DEF IInv
    <2>2. f[i] = RerankTask(t, HitsOf(t)) \/ f[i] = FallbackTask(t, HitsOf(t)) \/ f[i] = <<>>
      OBVIOUS
    <2>3. ItemsFor(t, <<>>)
      BY EmptyList DEF ItemsFor, Empty
    <2> HIDE DEF f, t
    <2>4. ItemsFor(t, RerankTask(t, HitsOf(t))) /\ ItemsFor(t, FallbackTask(t, HitsOf(t)))
      BY <2>1, RankedLists
    <2>5. ItemsFor(t, f[i])
      BY <2>2, <2>3, <2>4
    <2> QED BY <2>5 DEF t
  <1>5. f = [i \in DOMAIN plan.tasks |-> f[i]]
    OBVIOUS
  <1> HIDE DEF f
  <1> QED BY <1>2, <1>3, <1>4, <1>5, RankedStep

(* Grading keeps the invariant. *)
LEMMA EvidenceStep ==
  ASSUME IInv, EvidenceGrade
  PROVE  IInv'
  <1>1. PICK items, demands, grade, fb :
          Graded(items, demands, grade, fb) /\ GradeFacts(items, demands, grade, fb)
    BY GradeStep
  <1>2. /\ pool' = items /\ requirements' = demands /\ result' = grade /\ feedback' = fb
        /\ evidence' = PoolOrder(items)
        /\ UNCHANGED <<trip, settings, plan, retries, hits, degradedRank>>
    BY <1>1 DEF Graded
  <1>3. /\ grade.next = "continue" => phase' = "proposal"
        /\ grade.next = "repair" => phase' = "retrieval_plan"
        /\ grade.next = "stop" => phase' = "final_response"
    BY <1>1 DEF Graded
  <1>4. grade.next \in {"continue", "repair", "stop"} /\ SoundGrade(grade)
    BY <1>1 DEF GradeFacts, SoundGrade
  <1>5. SoundPlan(plan)' /\ SoundFeedback(feedback)' /\ (trip \in Trips)'
    BY <1>1, <1>2, SameTrip DEF IInv, GradeFacts
  <1>6. PoolSound'
    BY <1>1, <1>2, SameTrip DEF PoolSound, GradeFacts
  <1>7. ListsSound'
    <2>1. SoundPool(items)
      BY <1>1 DEF GradeFacts
    <2>2. IsList(PoolOrder(items)) /\ ToSet(PoolOrder(items)) = items
      BY <2>1, OrderedPools
    <2>3. \A e \in items : SoundItem(e)
      BY <2>1 DEF SoundPool
    <2>4. evidence' = PoolOrder(items) /\ hits' = hits
      BY <1>2
    <2>5. phase' # "rerank"
      BY <1>3, <1>4
    <2> QED BY <2>2, <2>3, <2>4, <2>5 DEF IInv, ListsSound
  <1>8. Demanding(requirements)' /\ SoundDemands(requirements)'
    BY <1>1, <1>2, SameTrip DEF GradeFacts
  <1>9. DemandsSound'
    BY <1>8 DEF DemandsSound
  <1>10. RoundsSound'
    <2>1. (phase = "retrieval_plan")' => retries < MaxRepairs
      BY <1>1, <1>3, <1>4 DEF GradeFacts
    <2>2. plan.mode # "none"
      BY DEF IInv, RoundsSound, EvidenceGrade
    <2> QED BY <1>2, <2>1, <2>2 DEF IInv, RoundsSound
  <1>11. ResultSound'
    <2>1. CASE grade.next = "continue"
      <3>1. phase' = "proposal" /\ Failing(demands, items) = {}
        BY <1>1, <1>3, <2>1 DEF GradeFacts
      <3>2. Failing(requirements, pool)' = {}
        BY <1>2, <3>1, SameTrip
      <3> QED BY <1>2, <1>4, <1>8, <2>1, <3>1, <3>2 DEF ResultSound, Phase
    <2>2. CASE grade.next = "repair"
      <3>1. phase' = "retrieval_plan" /\ HasRepairRequest(fb)
        BY <1>1, <1>3, <2>2 DEF GradeFacts
      <3>2. HasRepairRequest(feedback)'
        BY <1>2, <3>1
      <3> QED BY <1>2, <1>4, <2>2, <3>1, <3>2 DEF ResultSound, Phase
    <2>3. CASE grade.next = "stop"
      <3>1. phase' = "final_response"
        BY <1>3, <2>3
      <3> QED BY <1>2, <1>4, <2>3, <3>1 DEF ResultSound, Phase
    <2> QED BY <1>4, <2>1, <2>2, <2>3
  <1> QED BY <1>5, <1>6, <1>7, <1>9, <1>10, <1>11 DEF IInv

(* Every step keeps the invariant. *)
LEMMA Invariance == IInv /\ [Next]_vars => IInv'
  <1> SUFFICES ASSUME IInv, [Next]_vars PROVE IInv'
    OBVIOUS
  <1>1. CASE RetrievalPlan
    BY <1>1, PlanStep
  <1>2. CASE HybridRetrieve
    BY <1>2, RetrieveStep
  <1>3. CASE KeepFusionOrder
    BY <1>3, KeepStep
  <1>4. CASE Rerank
    BY <1>4, RerankStep
  <1>5. CASE EvidenceGrade
    BY <1>5, EvidenceStep
  <1>6. CASE UNCHANGED vars
    <2>1. UNCHANGED <<trip, phase, plan, retries, hits, evidence, pool, requirements, result, feedback>>
      BY <1>6 DEF vars
    <2>2. SoundPlan(plan)' /\ SoundFeedback(feedback)' /\ (trip \in Trips)'
      BY <2>1, SameTrip DEF IInv
    <2>3. PoolSound' /\ RoundsSound'
      BY <2>1, SameTrip DEF IInv, PoolSound, RoundsSound
    <2>6. ListsSound'
      <3>1. Faults' = Faults /\ \A broken : Found(broken)' = Found(broken)
        BY <2>1, <1>6 DEF vars, Faults, Found
      <3> QED BY <2>1, <3>1 DEF IInv, ListsSound
    <2>4. DemandsSound'
      BY <2>1, SameTrip DEF IInv, DemandsSound
    <2>5. ResultSound'
      BY <2>1, SameTrip DEF IInv, ResultSound
    <2> QED BY <2>2, <2>3, <2>4, <2>5, <2>6 DEF IInv
  <1> QED BY <1>1, <1>2, <1>3, <1>4, <1>5, <1>6 DEF Next

(* In every state of the loop the plan, the pool, the demands, the rounds and the result are sound.
   This is the strengthening the theorems below rest on. *)
THEOREM Invariant == Spec => []IInv
  BY Initially, Invariance, PTL DEF Spec

-----------------------------------------------------------------------------
(* The theorems. *)

(* A proposal is written only from evidence for all that the trip demands, and nothing in the pool
   concerns another city, another hotel or a weather that is not forecast: for every corpus,
   configuration, answer of the models and failure of a search or a ranking. *)
THEOREM EvidenceIsForTheTrip == Spec => []EvidenceServesTrip
  <1>1. IInv => EvidenceServesTrip
    <2> SUFFICES ASSUME IInv PROVE ProposalHasItsEvidence /\ PoolFitsTrip
      BY DEF EvidenceServesTrip
    <2>1. PoolFitsTrip
      BY DEF IInv, PoolSound, FitsTrip, PoolFitsTrip
    <2>2. ASSUME phase = "proposal"
          PROVE  /\ Cardinality(Chunks(pool, "guides")) >= 2
                 /\ DemandedRisks \subseteq RisksOf(Chunks(pool, "safety_notices"))
      <3>1. /\ Failing(requirements, pool) = {} /\ Demanding(requirements)
            /\ SoundDemands(requirements)
        BY <2>2 DEF IInv, ResultSound, DemandsSound
      <3>2. \A c \in Demandable : requirements[c].required /\ Covered(requirements, pool, c)
        BY <3>1 DEF Failing, Demanding
      <3>3. Cardinality(Chunks(pool, "guides")) >= 2
        <4>1. "guides" \in Demandable
          BY DEF Demandable
        <4>2. requirements["guides"].min \in Nat /\ requirements["guides"].min >= 2
          BY <3>1, <4>1 DEF Demanding, SoundDemands
        <4>3. Cardinality(Chunks(pool, "guides")) >= requirements["guides"].min
          BY <3>2, <4>1 DEF Covered
        <4>4. Cardinality(Chunks(pool, "guides")) \in Nat
          <5> DEFINE E == {e \in pool : e.category = "guides"}
                     g == [e \in E |-> e.chunk]
                     D == {g[e] : e \in E}
          <5>1. Chunks(pool, "guides") = D
            BY DEF Chunks
          <5>2. IsFiniteSet(E)
            BY FS_Subset DEF IInv, PoolSound, SoundPool
          <5> HIDE DEF E, g
          <5>3. IsFiniteSet(D)
            BY <5>2, Image
          <5> HIDE DEF D
          <5> QED BY <5>1, <5>3, FS_CardinalityType
        <4> QED BY <4>2, <4>3, <4>4
      <3>4. DemandedRisks \subseteq RisksOf(Chunks(pool, "safety_notices"))
        <4>1. CASE trip.risks = {}
          BY <4>1 DEF DemandedRisks
        <4>2. CASE trip.risks # {}
          <5>1. "safety_notices" \in Demandable
            BY <4>2 DEF Demandable
          <5>2. MissingRisks(requirements, pool, "safety_notices") = {}
            BY <3>2, <5>1 DEF Covered
          <5> QED BY <3>2, <5>1, <5>2 DEF MissingRisks
        <4> QED BY <4>1, <4>2
      <3> QED BY <3>3, <3>4
    <2> QED BY <2>1, <2>2 DEF ProposalHasItsEvidence
  <1> QED BY <1>1, Invariant, PTL

(* A repair takes no chunk from the pool and no demand away (evidence_grader.py). *)
THEOREM RepairsOnlyAdd == Spec => RepairOnlyAdds
  <1> DEFINE Adds ==
        phase = "evidence_grade" /\ plan.mode = "repair" =>
          /\ Keys(pool) \subseteq Keys(pool')
          /\ \A c \in DOMAIN requirements :
               /\ c \in DOMAIN requirements'
               /\ requirements[c].required => requirements'[c].required
               /\ requirements[c].min <= requirements'[c].min
  <1>1. IInv /\ [Next]_vars => [Adds]_vars
    <2> SUFFICES ASSUME IInv, Next, phase = "evidence_grade", plan.mode = "repair"
                 PROVE  Adds
      OBVIOUS
    <2>1. EvidenceGrade
      BY DEF Next, RetrievalPlan, HybridRetrieve, KeepFusionOrder, Rerank
    <2>2. PICK items, demands, grade, fb :
            Graded(items, demands, grade, fb) /\ GradeFacts(items, demands, grade, fb)
      BY <2>1, GradeStep
    <2>3. pool' = items /\ requirements' = demands
      BY <2>2 DEF Graded
    <2>4. BasePool = pool /\ BaseRequirements = requirements
      BY DEF BasePool, BaseRequirements
    <2> QED BY <2>2, <2>3, <2>4 DEF GradeFacts
  <1> QED BY <1>1, Invariant, PTL DEF Spec, RepairOnlyAdds

-----------------------------------------------------------------------------
(* What the judge sees. *)

(* Pairs are compared by their first numbers, then by their second. *)
LEMMA PairsInOrder ==
  ASSUME NEW a \in Int, NEW b \in Int, NEW c \in Int, NEW d \in Int, Precedes(<<a, b>>, <<c, d>>)
  PROVE  a < c \/ (a = c /\ b < d)
  BY DEF Precedes

(* The best chunk of each needed category is among the first that the judge is shown: with demands on
   two categories at most, two places are enough. *)
LEMMA BestAreShown ==
  ASSUME MaxJudged >= 2, NEW needs, IsList(needs), Categories(needs) \subseteq Demandable,
         NEW items, SoundPool(items),
         NEW c \in Categories(needs), Chunks(items, c) # {}
  PROVE  \E e \in Shown(needs, items) : e.category = c
  <1> DEFINE needed == {d \in Categories(needs) : Chunks(items, d) # {}}
             first(d) == CHOOSE i \in DOMAIN needs :
                           needs[i].category = d /\ \A j \in 1 .. i - 1 : needs[j].category # d
             best == PoolOrder(items)
             places(d) == {i \in DOMAIN best : best[i].category = d}
             own(d) == Picked(best, {i \in DOMAIN best : best[i].category = d})
             Turn(d, i) == [key |-> <<i, first(d)>>, item |-> own(d)[i]]
             Turns(d) == {Turn(d, i) : i \in DOMAIN own(d)}
             S == UNION {Turns(d) : d \in needed}
             order == Ordered(S)
             from == Sorted(S)
  <1>1. Shown(needs, items) = {order[i] : i \in 1 .. Small(MaxJudged, Len(order))}
    BY DEF Shown
  <1>2. Categories(needs) \subseteq Category /\ IsFiniteSet(needed)
    <2>1. needed \subseteq Category /\ Categories(needs) \subseteq Category
      BY DEF Demandable, Category
    <2> QED BY <2>1, CategoriesFinite
  <1>3. ASSUME NEW d \in Categories(needs)
        PROVE  first(d) \in DOMAIN needs /\ needs[first(d)].category = d
    <2> DEFINE D == {i \in DOMAIN needs : needs[i].category = d}
    <2>1. Len(needs) \in Nat /\ DOMAIN needs = 1 .. Len(needs)
      BY Places
    <2>2. D \subseteq Nat /\ D # {}
      BY <2>1 DEF Categories
    <2>3. PICK m \in D : \A k \in D : m <= k
      <3> HIDE DEF D
      <3> QED BY <2>2, LeastNumber
    <2>4. \A j \in 1 .. m - 1 : needs[j].category # d
      BY <2>1, <2>3
    <2>5. \E i \in DOMAIN needs :
            needs[i].category = d /\ \A j \in 1 .. i - 1 : needs[j].category # d
      BY <2>3, <2>4
    <2> QED BY <2>5
  <1>4. /\ IsList(best) /\ ToSet(best) = items
    BY OrderedPools
  <1> HIDE DEF best, first
  <1>5. ASSUME NEW d
        PROVE  /\ IsList(own(d)) /\ \A e \in ToSet(own(d)) : e.category = d
               /\ Chunks(items, d) # {} => ToSet(own(d)) # {}
    <2>1. places(d) \subseteq DOMAIN best /\ own(d) = Picked(best, places(d))
      OBVIOUS
    <2>2. \A i \in places(d) : best[i].category = d
      OBVIOUS
    <2>3. Chunks(items, d) # {} => places(d) # {}
      BY <1>4 DEF Chunks, ToSet
    <2> HIDE DEF places, own
    <2> QED BY <1>4, <2>1, <2>2, <2>3, SomePlaces
  <1> HIDE DEF own
  <1>6. ASSUME NEW d \in needed, NEW i \in DOMAIN own(d)
        PROVE  /\ i \in Nat /\ i >= 1 /\ first(d) \in Int /\ own(d)[i].category = d
    <2>1. Len(own(d)) \in Nat /\ DOMAIN own(d) = 1 .. Len(own(d))
      BY <1>5, Places
    <2>2. first(d) \in Int
      BY <1>3, Places
    <2>3. own(d)[i] \in ToSet(own(d))
      BY DEF ToSet
    <2> QED BY <1>5, <2>1, <2>2, <2>3
  <1>7. Sortable(S)
    <2>1. IsFiniteSet(S)
      <3>1. ASSUME NEW d \in needed PROVE IsFiniteSet(Turns(d))
        <4> DEFINE g == [i \in DOMAIN own(d) |-> Turn(d, i)]
        <4>1. Turns(d) = {g[i] : i \in DOMAIN own(d)}
          OBVIOUS
        <4>2. IsFiniteSet(DOMAIN own(d))
          BY <1>5, Places
        <4> HIDE DEF g, Turns
        <4> QED BY <4>1, <4>2, Image
      <3>2. IsFiniteSet({Turns(d) : d \in needed})
        <4> DEFINE g == [d \in needed |-> Turns(d)]
        <4>1. {Turns(d) : d \in needed} = {g[d] : d \in needed}
          <5> HIDE DEF Turns, needed
          <5> QED OBVIOUS
        <4> HIDE DEF g, Turns, needed
        <4> QED BY <1>2, <4>1, Image
      <3> HIDE DEF Turns, needed
      <3> QED BY <3>1, <3>2, FS_UNION
    <2>2. \A r \in S : r.key \in [1 .. 2 -> Int]
      <3> SUFFICES ASSUME NEW d \in needed, NEW i \in DOMAIN own(d)
                   PROVE  Turn(d, i).key \in [1 .. 2 -> Int]
        OBVIOUS
      <3>1. i \in Int /\ first(d) \in Int
        BY <1>6
      <3>2. <<i, first(d)>> \in [1 .. 2 -> Int]
        BY <3>1
      <3> QED BY <3>2
    <2>3. \A r, o \in S : r.key = o.key => r = o
      <3> SUFFICES ASSUME NEW d \in needed, NEW i \in DOMAIN own(d),
                          NEW e \in needed, NEW j \in DOMAIN own(e),
                          Turn(d, i).key = Turn(e, j).key
                   PROVE  Turn(d, i) = Turn(e, j)
        OBVIOUS
      <3>1. i = j /\ first(d) = first(e)
        OBVIOUS
      <3>2. d = e
        BY <1>3, <3>1
      <3> QED BY <3>1, <3>2
    <2>4. 2 \in Nat
      OBVIOUS
    <2> HIDE DEF S
    <2> QED BY <2>1, <2>2, <2>3, <2>4 DEF Sortable
  <1>8. /\ Cardinality(S) \in Nat /\ DOMAIN order = 1 .. Cardinality(S)
        /\ Len(order) = Cardinality(S)
        /\ \A i \in DOMAIN order : from[i] \in S /\ order[i] = from[i].item
        /\ \A i, j \in DOMAIN order : i < j <=> Precedes(from[i].key, from[j].key)
        /\ \A r \in S : \E i \in DOMAIN order : from[i] = r
    <2> HIDE DEF S
    <2> QED BY <1>7, OrderedLists
  <1>9. c \in needed /\ 1 \in DOMAIN own(c)
    <2>1. ToSet(own(c)) # {} /\ IsList(own(c))
      BY <1>5
    <2>2. Len(own(c)) \in Nat /\ DOMAIN own(c) = 1 .. Len(own(c))
      BY <2>1, Places
    <2>3. DOMAIN own(c) # {}
      BY <2>1 DEF ToSet
    <2> QED BY <2>2, <2>3
  <1>10. Turn(c, 1) \in S
    BY <1>9
  <1> HIDE DEF order, from
  <1>11. PICK p \in DOMAIN order : from[p] = Turn(c, 1)
    <2> HIDE DEF S, Turn
    <2> QED BY <1>8, <1>10
  <1>12. ASSUME NEW q \in DOMAIN order, q < p
         PROVE  \E d \in needed : from[q].key = <<1, first(d)>> /\ first(d) < first(c)
    <2>1. from[q] \in S /\ Precedes(from[q].key, from[p].key)
      <3> HIDE DEF S
      <3> QED BY <1>8, <1>12
    <2>2. PICK d \in needed : \E i \in DOMAIN own(d) : from[q] = Turn(d, i)
      BY <2>1
    <2>3. PICK i \in DOMAIN own(d) : from[q] = Turn(d, i)
      BY <2>2
    <2>4. Precedes(<<i, first(d)>>, <<1, first(c)>>)
      BY <1>11, <2>1, <2>3
    <2>5. i \in Nat /\ i >= 1 /\ first(d) \in Int /\ first(c) \in Int
      BY <1>6, <1>9
    <2>6. i = 1 /\ first(d) < first(c)
      BY <2>4, <2>5, PairsInOrder
    <2> QED BY <2>3, <2>6
  <1>13. p \in Nat /\ p >= 1 /\ p <= Len(order)
    <2> HIDE DEF S
    <2> QED BY <1>8
  <1>14. p <= 2
    <2> SUFFICES ASSUME p > 2 PROVE FALSE
      BY <1>13
    <2>1. 1 \in DOMAIN order /\ 2 \in DOMAIN order /\ 1 < p /\ 2 < p
      <3> HIDE DEF S
      <3> QED BY <1>8, <1>13
    <2>2. PICK d \in needed : from[1].key = <<1, first(d)>> /\ first(d) < first(c)
      BY <1>12, <2>1
    <2>3. PICK e \in needed : from[2].key = <<1, first(e)>> /\ first(e) < first(c)
      BY <1>12, <2>1
    <2>4. Precedes(<<1, first(d)>>, <<1, first(e)>>)
      <3>1. Precedes(from[1].key, from[2].key)
        <4> HIDE DEF S
        <4> QED BY <1>8, <2>1
      <3> QED BY <2>2, <2>3, <3>1
    <2>5. first(c) \in Int /\ first(d) \in Int /\ first(e) \in Int
      BY <1>3, <1>9, Places
    <2>6. first(d) < first(e)
      BY <2>4, <2>5, PairsInOrder
    <2>7. c # d /\ c # e /\ d # e
      BY <2>2, <2>3, <2>5, <2>6
    <2>8. {c, d, e} \subseteq {"guides", "safety_notices"}
      BY DEF Demandable
    <2> QED BY <2>7, <2>8
  <1>15. order[p].category = c
    <2>1. order[p] = own(c)[1]
      <3> HIDE DEF S
      <3> QED BY <1>8, <1>11
    <2> QED BY <1>6, <1>9, <2>1
  <1>16. p \in 1 .. Small(MaxJudged, Len(order))
    <2>1. Len(order) \in Int /\ MaxJudged \in Int
      <3> HIDE DEF S
      <3> QED BY <1>8, EvidenceBounds
    <2> HIDE DEF S
    <2> QED BY <1>13, <1>14, <2>1 DEF Small
  <1> HIDE DEF S
  <1> QED BY <1>1, <1>15, <1>16

(* What is demanded is demanded of guides and safety notices only. *)
LEMMA RequiredNeedsList ==
  ASSUME SoundNeeds(plan.needs), NEW demands, SoundDemands(demands)
  PROVE  /\ IsList(RequiredNeeds(demands)) /\ Categories(RequiredNeeds(demands)) \subseteq Demandable
  <1> DEFINE P == {i \in DOMAIN plan.needs : /\ plan.needs[i].category \in DOMAIN demands
                                             /\ demands[plan.needs[i].category].required}
             needs == RequiredNeeds(demands)
  <1>1. P \subseteq DOMAIN plan.needs /\ needs = Picked(plan.needs, P)
    BY DEF RequiredNeeds
  <1>2. \A i \in P : plan.needs[i].category \in Demandable
    BY DEF SoundDemands
  <1> HIDE DEF P, needs
  <1>3. /\ IsList(needs)
        /\ \A n \in ToSet(needs) : n.category \in Demandable
    BY <1>1, <1>2, SomePlaces DEF SoundNeeds
  <1>4. Categories(needs) \subseteq Demandable
    BY <1>3 DEF Categories, ToSet
  <1> QED BY <1>3, <1>4 DEF needs

(* Before the judge passes a proposal, it has seen evidence for every demanded need that has any: a
   category with many good chunks crowds out no other (agentic_evidence_grader.py, _select_evidence),
   for every corpus, answer of the models and failure, if the judge sees two chunks at least. *)
THEOREM JudgeIsShownAll ==
  ASSUME MaxJudged >= 2
  PROVE  Spec => []JudgeSeesEveryNeed
  <1>1. IInv => JudgeSeesEveryNeed
    <2> SUFFICES ASSUME IInv, phase = "proposal",
                        NEW i \in DOMAIN RequiredNeeds(requirements),
                        Chunks(pool, RequiredNeeds(requirements)[i].category) # {}
                 PROVE  \E e \in Shown(RequiredNeeds(requirements), pool) :
                          e.category = RequiredNeeds(requirements)[i].category
      BY DEF JudgeSeesEveryNeed
    <2> DEFINE needs == RequiredNeeds(requirements)
    <2>1. SoundNeeds(plan.needs) /\ SoundDemands(requirements) /\ SoundPool(pool)
      BY DEF IInv, SoundPlan, DemandsSound, PoolSound
    <2>2. IsList(needs) /\ Categories(needs) \subseteq Demandable
      BY <2>1, RequiredNeedsList
    <2>3. needs[i].category \in Categories(needs)
      BY DEF Categories
    <2> HIDE DEF needs
    <2>4. \E e \in Shown(needs, pool) : e.category = needs[i].category
      BY <2>1, <2>2, <2>3, BestAreShown DEF needs
    <2> QED BY <2>4 DEF needs
  <1> QED BY <1>1, Invariant, PTL

-----------------------------------------------------------------------------
(* What the fusion keeps. *)

(* What is picked from a list stays in its order. *)
LEMMA PickedInOrder ==
  ASSUME NEW s, IsList(s), NEW places, places \subseteq DOMAIN s,
         NEW i \in DOMAIN Picked(s, places), NEW j \in DOMAIN Picked(s, places), i < j
  PROVE  \E k, l \in places : k < l /\ Picked(s, places)[i] = s[k] /\ Picked(s, places)[j] = s[l]
  <1> DEFINE picked == Picked(s, places)
  <1>1. places \subseteq Int /\ IsFiniteSet(places)
    BY Places, FS_Subset
  <1>2. \A a, b \in DOMAIN picked : a < b =>
          \E k, l \in places : k < l /\ picked[a] = s[k] /\ picked[b] = s[l]
    BY <1>1, PickedLists
  <1> QED BY <1>2

(* The hits of a task stand in the order in which the task has found them. *)
LEMMA HitsInOrder ==
  ASSUME IInv, phase = "rerank", NEW t \in ToSet(plan.tasks),
         NEW i \in DOMAIN HitsOf(t), NEW j \in DOMAIN HitsOf(t), i < j
  PROVE  \E k, l \in DOMAIN RetrieveTask(t) :
           k < l /\ HitsOf(t)[i] = RetrieveTask(t)[k] /\ HitsOf(t)[j] = RetrieveTask(t)[l]
  <1>1. PICK broken \in Faults : hits = Joined(Found(broken))
    BY DEF IInv, ListsSound
  <1> DEFINE f == Found(broken)
             P == {p \in DOMAIN hits : hits[p].task = t.id}
  <1>2. SoundPlan(plan) /\ Apart(plan.tasks) /\ IsList(hits)
    BY DEF IInv, SoundPlan, ListsSound
  <1>3. /\ DOMAIN f = DOMAIN plan.tasks
        /\ f = [n \in DOMAIN plan.tasks |-> f[n]]
        /\ \A n \in DOMAIN plan.tasks : f[n] = <<>> \/ f[n] = RetrieveTask(plan.tasks[n])
    BY DEF Found
  <1>4. HitsOf(t) = Picked(hits, P) /\ P \subseteq DOMAIN hits /\ \A p \in P : hits[p].task = t.id
    BY DEF HitsOf
  <1> HIDE DEF f, P
  <1>5. ASSUME NEW n \in DOMAIN plan.tasks
        PROVE  /\ IsList(f[n]) /\ \A h \in ToSet(f[n]) : h.task = plan.tasks[n].id
               /\ DOMAIN f[n] # {} => f[n] = RetrieveTask(plan.tasks[n])
    <2>1. IsTask(plan.tasks[n])
      BY <1>2, TaskAt
    <2>2. /\ IsList(RetrieveTask(plan.tasks[n]))
          /\ \A h \in ToSet(RetrieveTask(plan.tasks[n])) : h.task = plan.tasks[n].id
      BY <2>1, RetrievedLists
    <2>3. IsList(<<>>) /\ ToSet(<<>>) = {} /\ DOMAIN <<>> = {}
      BY EmptyList DEF Empty
    <2> QED BY <1>3, <2>2, <2>3
  <1>6. IsList(f)
    BY <1>2, <1>3, PlanTasksList, MappedLists
  <1>7. PICK p, q \in P : p < q /\ HitsOf(t)[i] = hits[p] /\ HitsOf(t)[j] = hits[q]
    <2>1. i \in DOMAIN Picked(hits, P) /\ j \in DOMAIN Picked(hits, P)
      BY <1>4
    <2> QED BY <1>2, <1>4, <2>1, PickedInOrder
  <1>8. \A a, b \in DOMAIN Joined(f) : a < b =>
          \E n, m \in DOMAIN f : \E k \in DOMAIN f[n], l \in DOMAIN f[m] :
            /\ n < m \/ (n = m /\ k < l)
            /\ Joined(f)[a] = f[n][k] /\ Joined(f)[b] = f[m][l]
    BY <1>3, <1>5, <1>6, JoinedLists
  <1>9. PICK n, m \in DOMAIN f : \E k \in DOMAIN f[n], l \in DOMAIN f[m] :
          /\ n < m \/ (n = m /\ k < l)
          /\ hits[p] = f[n][k] /\ hits[q] = f[m][l]
    <2>1. hits = Joined(f) /\ p \in DOMAIN hits /\ q \in DOMAIN hits
      BY <1>1, <1>4 DEF f
    <2> QED BY <1>7, <1>8, <2>1
  <1>10. PICK k \in DOMAIN f[n], l \in DOMAIN f[m] :
          /\ n < m \/ (n = m /\ k < l)
          /\ hits[p] = f[n][k] /\ hits[q] = f[m][l]
    BY <1>9
  <1>11. plan.tasks[n].id = t.id /\ plan.tasks[m].id = t.id
    <2>1. f[n][k] \in ToSet(f[n]) /\ f[m][l] \in ToSet(f[m])
      BY DEF ToSet
    <2>2. hits[p].task = t.id /\ hits[q].task = t.id
      BY <1>4
    <2> QED BY <1>3, <1>5, <1>10, <2>1, <2>2
  <1>12. n = m /\ plan.tasks[n] = t
    <2>1. PICK o \in DOMAIN plan.tasks : plan.tasks[o] = t
      BY DEF ToSet
    <2>2. n = o /\ m = o
      BY <1>2, <1>3, <1>11, <2>1 DEF Apart
    <2> QED BY <2>1, <2>2
  <1>13. f[n] = RetrieveTask(t)
    BY <1>3, <1>5, <1>12
  <1>14. k < l
    <2>1. n \in Int
      BY <1>2, <1>3, Places, PlanTasksList
    <2> QED BY <1>10, <1>12, <2>1
  <1> QED BY <1>7, <1>10, <1>12, <1>13, <1>14

(* The fusion never reverses two chunks on whose order the keyword and the vector search agree
   (hybrid_retriever.py), however their ranks add up, in the hits of every task, whatever failed:
   division rounds the shares of a score and so makes ties, which the better of the two ranks breaks. *)
THEOREM FusionAgrees == Spec => []FusionKeepsAgreement
  <1>1. IInv => FusionKeepsAgreement
    <2> SUFFICES ASSUME IInv, phase = "rerank", NEW t \in ToSet(plan.tasks),
                        NEW i \in DOMAIN HitsOf(t), NEW j \in DOMAIN HitsOf(t), i < j
                 PROVE  LET C == MatchingChunks(t.filter)
                            bm25 == Bm25Hits(t, C)
                            vector == VectorHits(t, C)
                        IN  ~(/\ RankIn(bm25, HitsOf(t)[j].chunk) < RankIn(bm25, HitsOf(t)[i].chunk)
                              /\ RankIn(vector, HitsOf(t)[j].chunk) < RankIn(vector, HitsOf(t)[i].chunk))
      BY DEF FusionKeepsAgreement
    <2> DEFINE found == RetrieveTask(t)
               B == Bm25Hits(t, MatchingChunks(t.filter))
               V == VectorHits(t, MatchingChunks(t.filter))
    <2>1. PICK k, l \in DOMAIN found : k < l /\ HitsOf(t)[i] = found[k] /\ HitsOf(t)[j] = found[l]
      BY HitsInOrder
    <2>2. IsTask(t)
      BY DEF IInv, SoundPlan, SoundTasks, SoundTask
    <2>3. ~(/\ RankIn(B, found[l].chunk) < RankIn(B, found[k].chunk)
            /\ RankIn(V, found[l].chunk) < RankIn(V, found[k].chunk))
      BY <2>1, <2>2, RetrievedLists
    <2> QED BY <2>1, <2>3
  <1> QED BY <1>1, Invariant, PTL

-----------------------------------------------------------------------------
(* What exists is found. *)

(* The default: no model, no second ranking, and no search fails. *)
Default == ~settings.agentic /\ ~settings.rerank /\ ~settings.faults

(* The corpus has what this trip demands: two guides, and a notice for every risk. *)
Supplied ==
  /\ Cardinality({c \in GuidesFor(trip) : Corpus[c].legible}) >= 2
  /\ \A r \in trip.risks : NoticesFor(trip, {r}) # {}

(* The plan has a task for these chunks. *)
LooksFor(category, chunks, k) ==
  \E t \in ToSet(plan.tasks) :
    t.category = category /\ MatchingChunks(t.filter) = chunks /\ t.topK = k

(* Every hit of every task has become evidence. *)
AllShown ==
  \A t \in ToSet(plan.tasks) : \A h \in ToSet(RetrieveTask(t)) :
    \E e \in ToSet(evidence) : e.task = t.id /\ e.category = t.category /\ e.chunk = h.chunk

(* The first round looks for guides and for notices about all risks. *)
FirstRound ==
  /\ retries = 0
  /\ phase = "retrieval_plan" => ~HasRepairRequest(feedback)
  /\ phase # "retrieval_plan" =>
       /\ plan.mode = "initial" /\ plan.needs = <<>>
       /\ LooksFor("guides", GuidesFor(trip), TopK["guides"])
       /\ trip.risks # {} =>
            LooksFor("safety_notices", NoticesFor(trip, trip.risks), InitialTopK("safety_notices"))

(* A round of repair looks for notices about some risks; all else is in the pool.  Of the notices
   that leave out one of these risks there are fewer than it looks for. *)
SecondRound ==
  /\ feedback.risks # {}
  /\ DemandedRisks \ feedback.risks \subseteq RisksOf(Chunks(pool, "safety_notices"))
  /\ Cardinality(Chunks(pool, "guides")) >= 2
  /\ Cardinality(Chunks(pool, "safety_notices")) >= Cardinality(trip.risks)
  /\ \A r \in feedback.risks :
       Cardinality(NoticesFor(trip, feedback.risks \ {r})) < RepairTopK["safety_notices"]
  /\ phase # "retrieval_plan" =>
       /\ plan.mode = "repair" /\ plan.needs = <<>>
       /\ LooksFor("safety_notices", NoticesFor(trip, feedback.risks), RepairTopK["safety_notices"])

(* Where the corpus has what the trip demands, the loop is in one of these rounds until it ends
   with a proposal. *)
FindsAll ==
  Default /\ Supplied =>
    /\ phase # "final_response"
    /\ phase # "proposal" => FirstRound \/ SecondRound
    /\ phase = "evidence_grade" => AllShown

(* What the filters of guides and of notices let through. *)
LEMMA FilteredChunks ==
  /\ \A r : MatchingChunks(Filter("guides", r)) = GuidesFor(trip)
  /\ \A r : MatchingChunks(Filter("safety_notices", r)) = NoticesFor(trip, r)
  BY DEF Filter, GuidesFor, NoticesFor

(* Chunks of the corpus are finitely many. *)
LEMMA ChunksFinite ==
  ASSUME NEW C, C \subseteq DOMAIN Corpus
  PROVE  IsFiniteSet(C) /\ Cardinality(C) \in Nat
  BY CorpusIsIndexed, FS_Subset, FS_CardinalityType

(* The default plan is the plan by rules: in the first round and in the second it looks for what the
   trip demands. *)
LEMMA DefaultPlan ==
  ASSUME IInv, RetrievalPlan, Default, FirstRound \/ SecondRound
  PROVE  FirstRound' \/ SecondRound'
  <1>1. /\ phase = "retrieval_plan" /\ phase' = "hybrid_retrieve"
        /\ plan' = RulePlan /\ retries' = RetriesAfter(RulePlan)
        /\ UNCHANGED <<trip, settings, pool, feedback>>
    BY DEF RetrievalPlan, Default
  <1>2. trip \in Trips /\ SoundFeedback(feedback) /\ retries \in Nat
        /\ (HasRepairRequest(feedback) => retries < MaxRepairs)
    BY <1>1, EvidenceBounds DEF IInv, RoundsSound
  <1>3. /\ RulePlan.mode = IF HasRepairRequest(feedback) THEN "repair" ELSE "initial"
        /\ RulePlan.needs = <<>>
        /\ ~HasRepairRequest(feedback) =>
             \A c \in Demandable :
               RuleTask("initial", c, trip.risks, InitialTopK(c)) \in ToSet(RulePlan.tasks)
        /\ feedback.risks # {} =>
             RuleTask("repair", "safety_notices", feedback.risks, RepairTopK["safety_notices"])
               \in ToSet(RulePlan.tasks)
    BY <1>2, PlansByRules
  <1>4. ASSUME NEW mode, NEW c, NEW r, NEW k
        PROVE  LET t == RuleTask(mode, c, r, k)
               IN  t.category = c /\ t.filter = Filter(c, r) /\ t.topK = k
    BY DEF RuleTask
  <1>5. \A t \in ToSet(RulePlan.tasks) : LooksFor(t.category, MatchingChunks(t.filter), t.topK)'
    BY <1>1 DEF LooksFor
  <1>6. ASSUME FirstRound PROVE FirstRound'
    <2>1. ~HasRepairRequest(feedback) /\ retries = 0
      BY <1>1, <1>6 DEF FirstRound
    <2>2. retries' = 0
      BY <1>1, <1>3, <2>1 DEF RetriesAfter
    <2>3. LooksFor("guides", GuidesFor(trip), TopK["guides"])'
      <3> DEFINE t == RuleTask("initial", "guides", trip.risks, InitialTopK("guides"))
      <3>1. t \in ToSet(RulePlan.tasks)
        BY <1>3, <2>1 DEF Demandable
      <3>2. t.category = "guides" /\ t.filter = Filter("guides", trip.risks) /\ t.topK = InitialTopK("guides")
        BY <1>4
      <3>3. InitialTopK("guides") = TopK["guides"]
        BY DEF InitialTopK
      <3> HIDE DEF t
      <3>4. MatchingChunks(t.filter) = GuidesFor(trip) /\ t.topK = TopK["guides"]
        BY <3>2, <3>3, FilteredChunks
      <3>5. GuidesFor(trip)' = GuidesFor(trip)
        BY <1>1
      <3> QED BY <1>1, <3>1, <3>2, <3>4, <3>5 DEF LooksFor
    <2>4. trip.risks # {} =>
            LooksFor("safety_notices", NoticesFor(trip, trip.risks), InitialTopK("safety_notices"))'
      <3> SUFFICES ASSUME trip.risks # {}
                   PROVE  LooksFor("safety_notices", NoticesFor(trip, trip.risks), InitialTopK("safety_notices"))'
        OBVIOUS
      <3> DEFINE k == InitialTopK("safety_notices")
                 t == RuleTask("initial", "safety_notices", trip.risks, k)
      <3>1. t \in ToSet(RulePlan.tasks)
        BY <1>3, <2>1 DEF Demandable
      <3>2. t.category = "safety_notices" /\ t.filter = Filter("safety_notices", trip.risks) /\ t.topK = k
        BY <1>4
      <3> HIDE DEF t
      <3>3. MatchingChunks(t.filter) = NoticesFor(trip, trip.risks)
        BY <3>2, FilteredChunks
      <3>4. NoticesFor(trip, trip.risks)' = NoticesFor(trip, trip.risks) /\ k' = k
        BY <1>1 DEF InitialTopK
      <3> QED BY <1>1, <3>1, <3>2, <3>3, <3>4 DEF LooksFor
    <2> QED BY <1>1, <1>3, <2>1, <2>2, <2>3, <2>4 DEF FirstRound
  <1>7. ASSUME SecondRound PROVE SecondRound'
    <2>1. feedback.risks # {} /\ HasRepairRequest(feedback)
      BY <1>7 DEF SecondRound, HasRepairRequest
    <2>2. LooksFor("safety_notices", NoticesFor(trip, feedback.risks), RepairTopK["safety_notices"])'
      <3> DEFINE t == RuleTask("repair", "safety_notices", feedback.risks, RepairTopK["safety_notices"])
      <3>1. t \in ToSet(RulePlan.tasks)
        BY <1>3, <2>1
      <3>2. /\ t.category = "safety_notices" /\ t.filter = Filter("safety_notices", feedback.risks)
            /\ t.topK = RepairTopK["safety_notices"]
        BY <1>4
      <3> HIDE DEF t
      <3>3. MatchingChunks(t.filter) = NoticesFor(trip, feedback.risks)
        BY <3>2, FilteredChunks
      <3>4. NoticesFor(trip, feedback.risks)' = NoticesFor(trip, feedback.risks)
        BY <1>1
      <3> QED BY <1>1, <3>1, <3>2, <3>3, <3>4 DEF LooksFor
    <2>3. /\ DemandedRisks' = DemandedRisks
          /\ \A r : NoticesFor(trip, r)' = NoticesFor(trip, r)
      BY <1>1 DEF DemandedRisks
    <2> QED BY <1>1, <1>3, <1>7, <2>1, <2>2, <2>3 DEF SecondRound, RisksOf, Chunks
  <1> QED BY <1>6, <1>7

(* Without a second ranking or a failure every hit becomes evidence. *)
LEMMA DefaultLists ==
  ASSUME IInv, KeepFusionOrder, Default
  PROVE  AllShown'
  <1>1. /\ phase = "rerank" /\ UNCHANGED plan
        /\ evidence' = Joined([i \in DOMAIN plan.tasks |->
                                PassThrough(plan.tasks[i], HitsOf(plan.tasks[i]))])
    BY DEF KeepFusionOrder
  <1>2. SoundPlan(plan) /\ ListsSound /\ IsList(plan.tasks)
    BY PlanTasksList DEF IInv
  <1>3. hits = Joined(Found({}))
    <2>1. Faults = {{}}
      BY DEF Faults, Default
    <2> QED BY <1>1, <1>2, <2>1 DEF ListsSound
  <1> DEFINE f == [i \in DOMAIN plan.tasks |-> PassThrough(plan.tasks[i], HitsOf(plan.tasks[i]))]
  <1>4. ASSUME NEW i \in DOMAIN plan.tasks, NEW h \in ToSet(RetrieveTask(plan.tasks[i]))
        PROVE  \E e \in ToSet(evidence') :
                 e.task = plan.tasks[i].id /\ e.category = plan.tasks[i].category /\ e.chunk = h.chunk
    <2> DEFINE t == plan.tasks[i]
    <2>1. IsTask(t)
      BY <1>2, TaskAt
    <2>2. h.task = t.id
      <3> HIDE DEF t
      <3>1. \A x \in ToSet(RetrieveTask(t)) : x.task = t.id
        BY <2>1, RetrievedLists
      <3> QED BY <3>1 DEF t
    <2>3. h \in ToSet(hits)
      <3> DEFINE g == Found({})
      <3>1. g = [j \in DOMAIN plan.tasks |-> RetrieveTask(plan.tasks[j])]
        BY DEF Found
      <3> HIDE DEF g
      <3>2. \A j \in DOMAIN plan.tasks : IsList(g[j])
        BY <1>2, <3>1, TaskAt, RetrievedLists
      <3>3. IsList(g) /\ DOMAIN g = DOMAIN plan.tasks
        BY <1>2, <3>1, MappedLists
      <3>4. ToSet(Joined(g)) = UNION {ToSet(g[n]) : n \in DOMAIN g}
        BY <3>2, <3>3, JoinedLists
      <3>5. h \in ToSet(g[i])
        BY <3>1
      <3>6. h \in ToSet(Joined(g))
        BY <3>3, <3>4, <3>5
      <3> QED BY <1>3, <3>6 DEF g
    <2>4. h \in ToSet(HitsOf(t))
      <3> DEFINE P == {j \in DOMAIN hits : hits[j].task = t.id}
      <3>1. PICK j \in DOMAIN hits : hits[j] = h
        BY <2>3 DEF ToSet
      <3>2. j \in P /\ P \subseteq DOMAIN hits
        BY <2>2, <3>1
      <3>3. HitsOf(t) = Picked(hits, P)
        BY DEF HitsOf
      <3> HIDE DEF P, t
      <3>4. hits[j] \in ToSet(Picked(hits, P))
        BY <1>2, <3>2, SomePlaces DEF ListsSound
      <3> QED BY <3>1, <3>3, <3>4
    <2>5. PICK j \in DOMAIN HitsOf(t) : HitsOf(t)[j] = h
      BY <2>4 DEF ToSet
    <2> DEFINE e == PassThrough(t, HitsOf(t))[j]
    <2>6. e \in ToSet(f[i])
      <3>1. f[i] = PassThrough(t, HitsOf(t))
        OBVIOUS
      <3>2. DOMAIN PassThrough(t, HitsOf(t)) = DOMAIN HitsOf(t)
        BY DEF PassThrough, AsEvidence
      <3> HIDE DEF f, t
      <3> QED BY <3>1, <3>2 DEF ToSet
    <2>7. e.task = t.id /\ e.category = t.category /\ e.chunk = h.chunk
      BY <2>5 DEF PassThrough, AsEvidence, Evidence
    <2>8. e \in ToSet(evidence')
      <3> HIDE DEF e
      <3>1. f = [k \in DOMAIN plan.tasks |-> f[k]]
        OBVIOUS
      <3>2. ASSUME NEW k \in DOMAIN plan.tasks PROVE IsList(f[k])
        <4>1. IsTask(plan.tasks[k]) /\ HitsFor(plan.tasks[k], HitsOf(plan.tasks[k]))
          BY <1>2, TaskAt, HitsOfTask
        <4>2. ItemsFor(plan.tasks[k], PassThrough(plan.tasks[k], HitsOf(plan.tasks[k])))
          BY <4>1, RankedLists
        <4> QED BY <4>2 DEF ItemsFor
      <3> HIDE DEF f
      <3>3. IsList(f) /\ DOMAIN f = DOMAIN plan.tasks
        BY <1>2, <3>1, MappedLists
      <3>4. ToSet(Joined(f)) = UNION {ToSet(f[n]) : n \in DOMAIN f}
        BY <3>2, <3>3, JoinedLists
      <3>5. evidence' = Joined(f)
        BY <1>1 DEF f
      <3> QED BY <2>6, <3>3, <3>4, <3>5
    <2> HIDE DEF e, f
    <2> QED BY <2>7, <2>8
  <1> HIDE DEF f
  <1>5. \A t \in ToSet(plan.tasks) : \E i \in DOMAIN plan.tasks : t = plan.tasks[i]
    BY DEF ToSet
  <1>6. plan' = plan /\ \A t : RetrieveTask(t)' = RetrieveTask(t)
    BY <1>1
  <1> QED BY <1>4, <1>5, <1>6 DEF AllShown

(* What a grade starts from. *)
ItemsMade == Merged(BasePool, Picked(evidence, {i \in DOMAIN evidence : Valid(evidence[i])}))
DemandsMade == Demands(BaseRequirements, plan.tasks)

(* A chunk is in a pool if its key is. *)
LEMMA ChunksByKey ==
  ASSUME NEW items, NEW category, NEW c
  PROVE  c \in Chunks(items, category) <=> [category |-> category, chunk |-> c] \in Keys(items)
  BY DEF Chunks, Keys, Pooled

(* The pool keeps what it had and gains what is legible of the chunks that a task has found; these are
   all that match the task, or as many as it looks for. *)
LEMMA PoolGains ==
  ASSUME IInv, phase = "evidence_grade"
  PROVE  /\ SoundPool(ItemsMade) /\ SoundDemands(DemandsMade) /\ Demanding(DemandsMade)
         /\ \A category : /\ Chunks(BasePool, category) \subseteq Chunks(ItemsMade, category)
                          /\ Chunks(ItemsMade, category) \subseteq DOMAIN Corpus
         /\ AllShown =>
              \A t \in ToSet(plan.tasks) :
                \E F \in SUBSET MatchingChunks(t.filter) :
                  /\ F = MatchingChunks(t.filter) \/ Cardinality(F) >= t.topK
                  /\ {c \in F : Corpus[c].legible} \subseteq Chunks(ItemsMade, t.category)
  <1> DEFINE places == {i \in DOMAIN evidence : Valid(evidence[i])}
             valid == Picked(evidence, places)
  <1>1. /\ IsList(valid) /\ ToSet(valid) \subseteq ToSet(evidence)
        /\ \A i \in places : evidence[i] \in ToSet(valid)
    <2>1. places \subseteq DOMAIN evidence /\ IsList(evidence)
      BY DEF IInv, ListsSound
    <2> HIDE DEF places
    <2> QED BY <2>1, SomePlaces
  <1>2. \A e \in ToSet(evidence) : Valid(e) => e \in ToSet(valid)
    <2> HIDE DEF valid
    <2> QED BY <1>1 DEF ToSet
  <1>3. ItemsMade = Merged(BasePool, valid)
    BY DEF ItemsMade
  <1> HIDE DEF valid, places
  <1>4. SoundPool(BasePool)
    BY EmptyParts DEF BasePool, IInv, PoolSound
  <1>5. \A e \in ToSet(valid) : SoundItem(e)
    BY <1>1 DEF IInv, ListsSound
  <1>6. SoundPool(ItemsMade) /\ Keys(ItemsMade) = Keys(BasePool) \cup Keys(ToSet(valid))
    BY <1>1, <1>3, <1>4, <1>5, MergedPools
  <1>7. SoundDemands(DemandsMade) /\ Demanding(DemandsMade)
    <2>1. SoundDemands(BaseRequirements) /\ SoundTasks(plan.tasks)
      BY EmptyParts DEF BaseRequirements, IInv, DemandsSound, SoundPlan
    <2>2. CarriesAll(plan.tasks, Demandable) \/ Demanding(BaseRequirements)
      <3>1. plan.mode \in {"initial", "repair"}
        BY DEF IInv, RoundsSound, SoundPlan
      <3> QED BY <3>1 DEF BaseRequirements, IInv, DemandsSound, SoundPlan
    <2> QED BY <2>1, <2>2, DemandsGrow DEF DemandsMade
  <1>8. ASSUME NEW category
        PROVE  /\ Chunks(BasePool, category) \subseteq Chunks(ItemsMade, category)
               /\ Chunks(ItemsMade, category) \subseteq DOMAIN Corpus
    <2>1. \A e \in ItemsMade : e.chunk \in DOMAIN Corpus
      BY <1>6 DEF SoundPool, SoundItem, IsItem
    <2>2. Chunks(ItemsMade, category) \subseteq DOMAIN Corpus
      BY <2>1 DEF Chunks
    <2> QED BY <1>6, <2>2, ChunksByKey
  <1>9. ASSUME AllShown, NEW t \in ToSet(plan.tasks)
        PROVE  \E F \in SUBSET MatchingChunks(t.filter) :
                 /\ F = MatchingChunks(t.filter) \/ Cardinality(F) >= t.topK
                 /\ {c \in F : Corpus[c].legible} \subseteq Chunks(ItemsMade, t.category)
    <2> DEFINE F == {h.chunk : h \in ToSet(RetrieveTask(t))}
    <2>1. IsTask(t) /\ IsList(plan.tasks) /\ Apart(plan.tasks)
      BY DEF IInv, SoundPlan, SoundTasks, SoundTask
    <2>2. /\ F \subseteq MatchingChunks(t.filter)
          /\ F = MatchingChunks(t.filter) \/ Cardinality(F) >= t.topK
      BY <2>1, RetrievedLists
    <2>3. ASSUME NEW h \in ToSet(RetrieveTask(t)), Corpus[h.chunk].legible
          PROVE  h.chunk \in Chunks(ItemsMade, t.category)
      <3>1. PICK e \in ToSet(evidence) : e.task = t.id /\ e.category = t.category /\ e.chunk = h.chunk
        BY <1>9 DEF AllShown
      <3>2. TaskOf(e) = t
        <4>1. \A u \in ToSet(plan.tasks) : u.id = e.task => u = t
          BY <2>1, <3>1 DEF Apart, ToSet
        <4> QED BY <3>1, <4>1 DEF TaskOf
      <3>3. MetadataMatches(Corpus[e.chunk].meta, t.filter)
        BY <2>2, <3>1 DEF MatchingChunks
      <3>4. Valid(e)
        BY <2>3, <3>1, <3>2, <3>3 DEF Valid
      <3>5. e \in ToSet(valid)
        BY <1>2, <3>4
      <3>6. [category |-> t.category, chunk |-> h.chunk] \in Keys(ToSet(valid))
        BY <3>1, <3>5 DEF Keys, Pooled
      <3> QED BY <1>6, <3>6, ChunksByKey
    <2>4. {c \in F : Corpus[c].legible} \subseteq Chunks(ItemsMade, t.category)
      BY <2>3
    <2> HIDE DEF F
    <2> QED BY <2>2, <2>4
  <1> QED BY <1>6, <1>7, <1>8, <1>9

(* As many guides as a trip demands are legible among those found, if they are legible in the corpus:
   the first search looks for two more than there are illegible ones. *)
LEMMA GuidesFound ==
  ASSUME ChunksSuffice(trip), Supplied, NEW F \in SUBSET GuidesFor(trip),
         F = GuidesFor(trip) \/ Cardinality(F) >= TopK["guides"]
  PROVE  Cardinality({c \in F : Corpus[c].legible}) >= 2
  <1> DEFINE G == GuidesFor(trip)
             I == {c \in G : ~Corpus[c].legible}
             L == {c \in F : Corpus[c].legible}
  <1>1. G \subseteq DOMAIN Corpus
    BY DEF GuidesFor, MatchingChunks
  <1>2. CASE F = G
    BY <1>2 DEF Supplied
  <1>3. CASE Cardinality(F) >= TopK["guides"]
    <2>1. TopK["guides"] >= 2 + Cardinality(I) /\ TopK["guides"] \in Nat
      BY EvidenceBounds DEF ChunksSuffice, Category
    <2>2. F \subseteq G /\ I \subseteq G
      OBVIOUS
    <2> HIDE DEF G
    <2>3. IsFiniteSet(F) /\ IsFiniteSet(I)
      BY <1>1, <2>2, ChunksFinite
    <2>4. F \ I = L /\ F \cap I \in SUBSET I
      BY <2>2
    <2> HIDE DEF I, L
    <2>5. Cardinality(F \ I) = Cardinality(F) - Cardinality(F \cap I) /\ IsFiniteSet(F \ I)
      BY <2>3, FS_Difference
    <2>6. Cardinality(F \cap I) <= Cardinality(I) /\ IsFiniteSet(F \cap I)
      BY <2>3, <2>4, FS_Subset
    <2>7. /\ Cardinality(F) \in Nat /\ Cardinality(I) \in Nat /\ Cardinality(F \cap I) \in Nat
      BY <2>3, <2>6, FS_CardinalityType
    <2>8. Cardinality(L) = Cardinality(F) - Cardinality(F \cap I)
      BY <2>4, <2>5, Zenon
    <2>9. Cardinality(L) >= 2
      <3> DEFINE f == Cardinality(F)
                 both == Cardinality(F \cap I)
                 i == Cardinality(I)
                 k == TopK["guides"]
      <3>1. f \in Nat /\ both \in Nat /\ i \in Nat /\ k \in Nat
        BY <2>1, <2>7
      <3>2. f >= k /\ k >= 2 + i /\ both <= i /\ Cardinality(L) = f - both
        BY <1>3, <2>1, <2>6, <2>8
      <3> HIDE DEF f, both, i, k
      <3> QED BY <3>1, <3>2
    <2> QED BY <2>9 DEF L
  <1> QED BY <1>2, <1>3

(* A notice for the city about some of the risks. *)
LEMMA NoticeMatches ==
  ASSUME NEW risks, NEW c
  PROVE  c \in NoticesFor(trip, risks) <=>
           /\ c \in DOMAIN Corpus /\ Corpus[c].meta.doc \cap {"safety_notices"} # {}
           /\ Corpus[c].meta.city \cap {trip.city} # {} /\ Corpus[c].meta.risk \cap risks # {}
           /\ Corpus[c].meta.level \cap {"medium", "high"} # {}
  <1> DEFINE filter == [doc |-> {"safety_notices"}, city |-> {trip.city}, risk |-> risks,
                        level |-> {"medium", "high"}]
             meta == Corpus[c].meta
  <1>1. DOMAIN filter = {"doc", "city", "risk", "level"}
    OBVIOUS
  <1>2. /\ filter["doc"] = {"safety_notices"} /\ filter["city"] = {trip.city}
        /\ filter["risk"] = risks /\ filter["level"] = {"medium", "high"}
    OBVIOUS
  <1>3. NoticesFor(trip, risks) = {d \in DOMAIN Corpus : MetadataMatches(Corpus[d].meta, filter)}
    BY DEF NoticesFor, MatchingChunks
  <1> HIDE DEF filter
  <1>4. MetadataMatches(meta, filter) <=>
          /\ meta["doc"] \cap {"safety_notices"} # {} /\ meta["city"] \cap {trip.city} # {}
          /\ meta["risk"] \cap risks # {} /\ meta["level"] \cap {"medium", "high"} # {}
    BY <1>1, <1>2 DEF MetadataMatches
  <1> QED BY <1>3, <1>4

(* Notices found about some risks are either about all of them, or leave out risks of which, for the
   want of notices, there cannot be many. *)
LEMMA NoticesLeaveOut ==
  ASSUME NEW risks \in SUBSET trip.risks, NEW F \in SUBSET NoticesFor(trip, risks),
         NEW out \in SUBSET risks, \A c \in F : Corpus[c].meta.risk \cap out = {}
  PROVE  /\ F \subseteq NoticesFor(trip, risks \ out)
         /\ Cardinality(F) <= Cardinality(NoticesFor(trip, risks \ out))
         /\ Cardinality(F) \in Nat /\ Cardinality(NoticesFor(trip, risks \ out)) \in Nat
         /\ Supplied /\ F = NoticesFor(trip, risks) => out = {}
  <1>1. ASSUME NEW c \in F PROVE c \in NoticesFor(trip, risks \ out)
    <2>1. Corpus[c].meta.risk \cap risks # {} /\ Corpus[c].meta.risk \cap out = {}
      BY NoticeMatches
    <2>2. Corpus[c].meta.risk \cap (risks \ out) # {}
      BY <2>1
    <2>3. c \in NoticesFor(trip, risks)
      OBVIOUS
    <2> QED BY <2>2, <2>3, NoticeMatches
  <1>2. F \subseteq NoticesFor(trip, risks \ out)
    BY <1>1
  <1>3. NoticesFor(trip, risks \ out) \subseteq DOMAIN Corpus
    BY DEF NoticesFor, MatchingChunks
  <1>4. /\ IsFiniteSet(NoticesFor(trip, risks \ out)) /\ Cardinality(NoticesFor(trip, risks \ out)) \in Nat
        /\ IsFiniteSet(F) /\ Cardinality(F) \in Nat
    BY <1>2, <1>3, ChunksFinite
  <1>5. Cardinality(F) <= Cardinality(NoticesFor(trip, risks \ out))
    BY <1>2, <1>4, FS_Subset
  <1>6. ASSUME Supplied, F = NoticesFor(trip, risks), NEW r \in out PROVE FALSE
    <2>1. PICK c : c \in NoticesFor(trip, {r})
      BY <1>6 DEF Supplied
    <2>2. r \in Corpus[c].meta.risk
      BY <2>1, NoticeMatches
    <2>3. c \in NoticesFor(trip, risks)
      <3>1. Corpus[c].meta.risk \cap risks # {}
        BY <2>2
      <3> QED BY <2>1, <3>1, NoticeMatches
    <2> QED BY <1>6, <2>2, <2>3
  <1> QED BY <1>2, <1>4, <1>5, <1>6

(* With two guides and as many notices as risks, only a risk that no notice is about can fail. *)
LEMMA OnlyRisksFail ==
  ASSUME trip \in Trips, NEW demands, SoundDemands(demands), NEW items,
         \A category : Chunks(items, category) \subseteq DOMAIN Corpus,
         Cardinality(Chunks(items, "guides")) >= 2,
         trip.risks # {} => Cardinality(Chunks(items, "safety_notices")) >= Cardinality(trip.risks),
         NEW c \in Failing(demands, items)
  PROVE  /\ c = "safety_notices" /\ trip.risks # {}
         /\ MissingRisks(demands, items, c) = DemandedRisks \ RisksOf(Chunks(items, "safety_notices"))
         /\ MissingRisks(demands, items, c) # {}
  <1>1. c \in DOMAIN demands /\ demands[c].required /\ ~Covered(demands, items, c)
    BY DEF Failing, Covered
  <1>2. /\ demands[c].min \in Nat /\ demands[c].min <= Needed(c) /\ c \in Demandable
        /\ c # "hotel_reviews" => demands[c].hotels = {}
    BY <1>1 DEF SoundDemands
  <1>3. c \in {"guides", "safety_notices"} /\ (c = "safety_notices" => trip.risks # {})
    BY <1>2 DEF Demandable
  <1>4. MissingHotels(demands, items, c) = {}
    BY <1>2, <1>3 DEF MissingHotels
  <1>5. Cardinality(Chunks(items, c)) \in Nat /\ Cardinality(trip.risks) \in Nat
    BY ChunksFinite, TripsAreSound, FS_CardinalityType
  <1>6. Cardinality(Chunks(items, c)) >= Needed(c) /\ Needed(c) \in Nat
    BY <1>3, <1>5 DEF Needed
  <1>7. Cardinality(Chunks(items, c)) >= demands[c].min
    BY <1>2, <1>5, <1>6
  <1>8. MissingRisks(demands, items, c) # {}
    BY <1>1, <1>4, <1>7 DEF Covered
  <1>9. c = "safety_notices"
    BY <1>8 DEF MissingRisks
  <1> QED BY <1>1, <1>3, <1>8, <1>9 DEF MissingRisks

(* A plan without needs leaves nothing for the judge. *)
LEMMA NothingToJudge ==
  ASSUME plan.needs = <<>>, NEW demands
  PROVE  RequiredNeeds(demands) = <<>>
  <1> DEFINE P == {i \in DOMAIN plan.needs :
                     /\ plan.needs[i].category \in DOMAIN demands
                     /\ demands[plan.needs[i].category].required}
  <1>1. P = {}
    BY EmptyList DEF Empty
  <1>2. RequiredNeeds(demands) = Picked(plan.needs, {})
    BY <1>1 DEF RequiredNeeds
  <1>3. IsFiniteSet({}) /\ Cardinality({}) = 0 /\ {} \subseteq Int
    BY FS_EmptySet
  <1>4. IsList(Picked(plan.needs, {})) /\ Len(Picked(plan.needs, {})) = 0
    BY <1>3, PickedLists
  <1> HIDE DEF P
  <1>5. Picked(plan.needs, {}) = <<>>
    BY <1>4 DEF IsList
  <1> QED BY <1>2, <1>5

(* The grade of a round that the judge has no part in. *)
LEMMA DefaultGraded ==
  ASSUME EvidenceGrade, plan.needs = <<>>
  PROVE  \E rejected \in BOOLEAN :
           Graded(ItemsMade, DemandsMade, RuleGrade(DemandsMade, ItemsMade, rejected),
                  RuleFeedback(DemandsMade, ItemsMade))
  <1> DEFINE valid == Picked(evidence, {i \in DOMAIN evidence : Valid(evidence[i])})
             rejected == Len(valid) < Len(evidence)
  <1>1. RequiredNeeds(DemandsMade) = <<>>
    BY NothingToJudge
  <1>2. Graded(ItemsMade, DemandsMade, RuleGrade(DemandsMade, ItemsMade, rejected),
               RuleFeedback(DemandsMade, ItemsMade))
    BY <1>1 DEF EvidenceGrade, ItemsMade, DemandsMade
  <1>3. rejected \in BOOLEAN
    OBVIOUS
  <1> QED BY <1>2, <1>3

(* Fewer chunks are fewer. *)
LEMMA MoreChunks ==
  ASSUME NEW B, B \subseteq DOMAIN Corpus, NEW A, A \subseteq B
  PROVE  Cardinality(A) \in Nat /\ Cardinality(B) \in Nat /\ Cardinality(A) <= Cardinality(B)
  <1>1. IsFiniteSet(B) /\ Cardinality(B) \in Nat
    BY ChunksFinite
  <1>2. IsFiniteSet(A) /\ Cardinality(A) <= Cardinality(B)
    BY <1>1, FS_Subset
  <1> QED BY <1>1, <1>2, FS_CardinalityType

(* The risks that are demanded and found nowhere are mentioned by no chunk. *)
LEMMA MissedRisks ==
  ASSUME NEW C, NEW c \in C
  PROVE  Corpus[c].meta.risk \cap (DemandedRisks \ RisksOf(C)) = {}
  BY DEF DemandedRisks, RisksOf

(* After the first round the guides and the notices are many enough, and of the notices that a repair
   would look for it finds enough. *)
LEMMA FirstFinds ==
  ASSUME IInv, phase = "evidence_grade", FirstRound, AllShown, Supplied, ChunksSuffice(trip)
  PROVE  LET C == Chunks(ItemsMade, "safety_notices")
             missed == DemandedRisks \ RisksOf(C)
         IN  /\ Cardinality(Chunks(ItemsMade, "guides")) >= 2
             /\ trip.risks # {} =>
                  /\ Cardinality(C) >= Cardinality(trip.risks)
                  /\ \A r \in missed :
                       Cardinality(NoticesFor(trip, missed \ {r})) < RepairTopK["safety_notices"]
  <1> DEFINE C == Chunks(ItemsMade, "safety_notices")
             missed == DemandedRisks \ RisksOf(C)
             first == InitialTopK("safety_notices")
             n == Cardinality(trip.risks)
  <1>1. /\ \A category : Chunks(ItemsMade, category) \subseteq DOMAIN Corpus
        /\ \A t \in ToSet(plan.tasks) :
             \E F \in SUBSET MatchingChunks(t.filter) :
               /\ F = MatchingChunks(t.filter) \/ Cardinality(F) >= t.topK
               /\ {c \in F : Corpus[c].legible} \subseteq Chunks(ItemsMade, t.category)
    BY PoolGains
  <1>2. trip \in Trips /\ n \in Nat /\ first \in Nat /\ n <= first
    <2>1. trip \in Trips
      BY DEF IInv
    <2>2. "safety_notices" \in Category /\ Needed("safety_notices") = n
      BY DEF Category, Needed
    <2> QED BY <2>1, <2>2, EnoughLookedFor, TripsAreSound, FS_CardinalityType DEF Enough
  <1>3. Cardinality(Chunks(ItemsMade, "guides")) >= 2
    <2>1. PICK t \in ToSet(plan.tasks) :
            t.category = "guides" /\ MatchingChunks(t.filter) = GuidesFor(trip) /\ t.topK = TopK["guides"]
      BY DEF FirstRound, LooksFor
    <2>2. PICK F \in SUBSET GuidesFor(trip) :
            /\ F = GuidesFor(trip) \/ Cardinality(F) >= TopK["guides"]
            /\ {c \in F : Corpus[c].legible} \subseteq Chunks(ItemsMade, "guides")
      BY <1>1, <2>1
    <2>3. Cardinality({c \in F : Corpus[c].legible}) >= 2
      BY <2>2, GuidesFound
    <2> DEFINE L == {c \in F : Corpus[c].legible}
               G == Chunks(ItemsMade, "guides")
    <2>4. L \subseteq G /\ G \subseteq DOMAIN Corpus /\ Cardinality(L) >= 2
      BY <1>1, <2>2, <2>3
    <2> HIDE DEF L, G
    <2>5. Cardinality(L) \in Nat /\ Cardinality(G) \in Nat /\ Cardinality(L) <= Cardinality(G)
      BY <2>4, MoreChunks
    <2>6. Cardinality(G) >= 2
      BY <2>4, <2>5
    <2> QED BY <2>6 DEF G
  <1>4. ASSUME trip.risks # {}
        PROVE  /\ Cardinality(C) >= n
               /\ \A r \in missed :
                    Cardinality(NoticesFor(trip, missed \ {r})) < RepairTopK["safety_notices"]
    <2> DEFINE N == NoticesFor(trip, trip.risks)
    <2>1. PICK t \in ToSet(plan.tasks) :
            t.category = "safety_notices" /\ MatchingChunks(t.filter) = N /\ t.topK = first
      BY <1>4 DEF FirstRound, LooksFor
    <2>2. PICK F \in SUBSET N :
            /\ F = N \/ Cardinality(F) >= first
            /\ {c \in F : Corpus[c].legible} \subseteq C
      BY <1>1, <2>1
    <2>3. F \subseteq C
      <3>1. \A c \in N : Corpus[c].legible
        BY DEF ChunksSuffice
      <3> HIDE DEF C, N
      <3> QED BY <2>2, <3>1
    <2>4. missed \in SUBSET trip.risks
      BY DEF DemandedRisks
    <2>5. \A c \in F : Corpus[c].meta.risk \cap missed = {}
      BY <2>3, MissedRisks
    <2>6. C \subseteq DOMAIN Corpus
      BY <1>1
    <2> HIDE DEF C, missed
    <2>7. /\ Cardinality(F) <= Cardinality(NoticesFor(trip, trip.risks \ missed))
          /\ Cardinality(F) \in Nat /\ Cardinality(NoticesFor(trip, trip.risks \ missed)) \in Nat
          /\ F = N => missed = {}
      BY <2>2, <2>4, <2>5, NoticesLeaveOut
    <2>8. Cardinality(F) <= Cardinality(C) /\ Cardinality(C) \in Nat
      BY <2>3, <2>6, MoreChunks
    <2>9. Cardinality(F) >= n
      <3>1. CASE F = N
        <4>1. Cardinality(N) >= n
          BY DEF ChunksSuffice, Supplied
        <4> QED BY <3>1, <4>1
      <3>2. CASE Cardinality(F) >= first
        <4> HIDE DEF n, first
        <4> QED BY <1>2, <2>7, <3>2
      <3> QED BY <2>2, <3>1, <3>2
    <2>10. Cardinality(C) >= n
      <3> HIDE DEF n
      <3> QED BY <1>2, <2>7, <2>8, <2>9
    <2>11. ASSUME Cardinality(F) >= first, NEW r \in missed
           PROVE  Cardinality(NoticesFor(trip, missed \ {r})) < RepairTopK["safety_notices"]
      <3>1. first = Large(TopK["safety_notices"], TopKPerRisk * n)
        BY DEF InitialTopK
      <3>2. \A m \in SUBSET trip.risks : Cardinality(NoticesFor(trip, trip.risks \ m)) >= first =>
              \A q \in m : Cardinality(NoticesFor(trip, m \ {q})) < RepairTopK["safety_notices"]
        BY <3>1 DEF ChunksSuffice
      <3> HIDE DEF first, n
      <3>3. Cardinality(NoticesFor(trip, trip.risks \ missed)) >= first
        BY <1>2, <2>7, <2>11
      <3> QED BY <2>4, <2>11, <3>2, <3>3
    <2> QED BY <2>2, <2>7, <2>10, <2>11
  <1> QED BY <1>3, <1>4

(* The second round finds what the first has missed, and keeps what that has found. *)
LEMMA SecondFinds ==
  ASSUME IInv, phase = "evidence_grade", SecondRound, AllShown, Supplied, ChunksSuffice(trip)
  PROVE  /\ Cardinality(Chunks(ItemsMade, "guides")) >= 2
         /\ Cardinality(Chunks(ItemsMade, "safety_notices")) >= Cardinality(trip.risks)
         /\ DemandedRisks \subseteq RisksOf(Chunks(ItemsMade, "safety_notices"))
  <1> DEFINE C == Chunks(ItemsMade, "safety_notices")
             G == Chunks(ItemsMade, "guides")
             second == RepairTopK["safety_notices"]
  <1>1. BasePool = pool
    BY DEF SecondRound, BasePool
  <1>2. /\ Chunks(pool, "guides") \subseteq G /\ Chunks(pool, "safety_notices") \subseteq C
        /\ G \subseteq DOMAIN Corpus /\ C \subseteq DOMAIN Corpus
    BY <1>1, PoolGains
  <1>3. \A t \in ToSet(plan.tasks) :
          \E F \in SUBSET MatchingChunks(t.filter) :
            /\ F = MatchingChunks(t.filter) \/ Cardinality(F) >= t.topK
            /\ {c \in F : Corpus[c].legible} \subseteq Chunks(ItemsMade, t.category)
    BY PoolGains
  <1>4. /\ Cardinality(Chunks(pool, "guides")) >= 2
        /\ Cardinality(Chunks(pool, "safety_notices")) >= Cardinality(trip.risks)
    BY DEF SecondRound
  <1>5. trip \in Trips /\ Cardinality(trip.risks) \in Nat /\ feedback.risks \in SUBSET trip.risks
    BY TripsAreSound, FS_CardinalityType DEF IInv, SoundFeedback
  <1>6. Cardinality(G) >= 2
    <2> HIDE DEF G, C
    <2>1. /\ Cardinality(Chunks(pool, "guides")) \in Nat /\ Cardinality(G) \in Nat
          /\ Cardinality(Chunks(pool, "guides")) <= Cardinality(G)
      BY <1>2, MoreChunks
    <2> QED BY <1>4, <2>1
  <1>7. Cardinality(C) >= Cardinality(trip.risks)
    <2> HIDE DEF G, C
    <2>1. /\ Cardinality(Chunks(pool, "safety_notices")) \in Nat /\ Cardinality(C) \in Nat
          /\ Cardinality(Chunks(pool, "safety_notices")) <= Cardinality(C)
      BY <1>2, MoreChunks
    <2> QED BY <1>4, <1>5, <2>1
  <1>8. RisksOf(Chunks(pool, "safety_notices")) \subseteq RisksOf(C)
    <2> HIDE DEF C
    <2> QED BY <1>2 DEF RisksOf
  <1>9. ASSUME NEW r \in DemandedRisks, r \notin RisksOf(C) PROVE FALSE
    <2> DEFINE N == NoticesFor(trip, feedback.risks)
    <2>1. r \in feedback.risks
      BY <1>8, <1>9 DEF SecondRound
    <2>2. PICK t \in ToSet(plan.tasks) :
            t.category = "safety_notices" /\ MatchingChunks(t.filter) = N /\ t.topK = second
      BY DEF SecondRound, LooksFor
    <2>3. PICK F \in SUBSET N :
            /\ F = N \/ Cardinality(F) >= second
            /\ {c \in F : Corpus[c].legible} \subseteq C
      BY <1>3, <2>2
    <2>4. \A c \in N : c \in NoticesFor(trip, trip.risks)
      BY <1>5, NoticeMatches
    <2>5. F \subseteq C
      <3>1. \A c \in NoticesFor(trip, trip.risks) : Corpus[c].legible
        BY DEF ChunksSuffice
      <3> HIDE DEF C, N
      <3> QED BY <2>3, <2>4, <3>1
    <2>6. \A c \in F : Corpus[c].meta.risk \cap {r} = {}
      <3>1. \A c \in F : Corpus[c].meta.risk \cap (DemandedRisks \ RisksOf(C)) = {}
        BY <2>5, MissedRisks
      <3> HIDE DEF C
      <3> QED BY <1>9, <3>1
    <2> HIDE DEF C
    <2>7. /\ Cardinality(F) <= Cardinality(NoticesFor(trip, feedback.risks \ {r}))
          /\ Cardinality(F) \in Nat /\ Cardinality(NoticesFor(trip, feedback.risks \ {r})) \in Nat
          /\ F = N => {r} = {}
      <3>1. {r} \in SUBSET feedback.risks
        BY <2>1
      <3> QED BY <1>5, <2>3, <2>6, <3>1, NoticesLeaveOut
    <2>8. Cardinality(F) >= second
      BY <2>3, <2>7
    <2>9. Cardinality(NoticesFor(trip, feedback.risks \ {r})) < second
      BY <2>1 DEF SecondRound
    <2>10. second \in Nat
      BY EvidenceBounds DEF Category
    <2> HIDE DEF second
    <2> QED BY <2>7, <2>8, <2>9, <2>10
  <1> QED BY <1>6, <1>7, <1>9

(* Where nothing that the corpus has is hidden, a grade ends the loop with a proposal or asks for a
   round of repair that finds the rest. *)
LEMMA DefaultGrade ==
  ASSUME IInv, EvidenceGrade, Default, Supplied, ChunksSuffice(trip), MaxRepairs >= 1,
         AllShown, FirstRound \/ SecondRound
  PROVE  \/ phase' = "proposal"
         \/ phase' = "retrieval_plan" /\ SecondRound'
  <1> DEFINE C == Chunks(ItemsMade, "safety_notices")
             missed == DemandedRisks \ RisksOf(C)
             failing == Failing(DemandsMade, ItemsMade)
             fb == RuleFeedback(DemandsMade, ItemsMade)
  <1>1. phase = "evidence_grade" /\ plan.needs = <<>>
    BY DEF EvidenceGrade, FirstRound, SecondRound
  <1>2. PICK rejected \in BOOLEAN :
          Graded(ItemsMade, DemandsMade, RuleGrade(DemandsMade, ItemsMade, rejected), fb)
    BY <1>1, DefaultGraded
  <1> DEFINE grade == RuleGrade(DemandsMade, ItemsMade, rejected)
  <1>3. /\ pool' = ItemsMade /\ feedback' = fb /\ UNCHANGED trip
        /\ grade.next = "continue" => phase' = "proposal"
        /\ grade.next = "repair" => phase' = "retrieval_plan"
    BY <1>2 DEF Graded
  <1>4. /\ SoundDemands(DemandsMade) /\ trip \in Trips
        /\ \A category : Chunks(ItemsMade, category) \subseteq DOMAIN Corpus
    BY <1>1, PoolGains DEF IInv
  <1>5. grade.next = "continue" <=> failing = {}
    BY <1>4, GradeByRules
  <1>6. /\ Cardinality(Chunks(ItemsMade, "guides")) >= 2
        /\ trip.risks # {} => Cardinality(C) >= Cardinality(trip.risks)
    BY <1>1, FirstFinds, SecondFinds
  <1>7. \A c \in failing : /\ c = "safety_notices" /\ trip.risks # {}
                           /\ MissingRisks(DemandsMade, ItemsMade, c) = missed /\ missed # {}
    BY <1>4, <1>6, OnlyRisksFail
  <1>8. CASE failing = {}
    BY <1>3, <1>5, <1>8
  <1>9. CASE failing # {}
    <2>1. failing = {"safety_notices"} /\ trip.risks # {} /\ missed # {}
      <3> HIDE DEF failing, missed
      <3> QED BY <1>7, <1>9
    <2>2. FirstRound
      <3>1. SecondRound => missed = {}
        BY <1>1, SecondFinds
      <3> HIDE DEF missed
      <3> QED BY <2>1, <3>1
    <2>3. phase' = "retrieval_plan"
      <3>1. plan.exhausted = FALSE /\ retries = 0
        BY <2>2 DEF IInv, SoundPlan, FirstRound
      <3>2. 0 < MaxRepairs
        BY EvidenceBounds
      <3>3. grade.next = IF failing = {} THEN "continue"
                         ELSE IF ~plan.exhausted /\ retries < MaxRepairs THEN "repair" ELSE "stop"
        BY DEF RuleGrade
      <3>4. grade.next = "repair"
        <4> HIDE DEF grade, failing
        <4> QED BY <1>9, <3>1, <3>2, <3>3
      <3> HIDE DEF grade
      <3> QED BY <1>3, <3>4
    <2>4. fb.risks = missed
      <3>1. fb = [by |-> "rule", missing |-> failing,
                  risks |-> UNION {MissingRisks(DemandsMade, ItemsMade, c) : c \in failing},
                  needs |-> IF settings.judge THEN plan.needs ELSE <<>>]
        BY <1>9 DEF RuleFeedback
      <3>2. fb.risks = UNION {MissingRisks(DemandsMade, ItemsMade, c) : c \in failing}
        <4> HIDE DEF fb, failing
        <4> QED BY <3>1
      <3>3. MissingRisks(DemandsMade, ItemsMade, "safety_notices") = missed
        <4> HIDE DEF failing, missed
        <4> QED BY <1>7, <2>1
      <3> HIDE DEF fb, failing, missed
      <3> QED BY <2>1, <3>2, <3>3
    <2>5. \A r \in missed : Cardinality(NoticesFor(trip, missed \ {r})) < RepairTopK["safety_notices"]
      BY <1>1, <2>1, <2>2, FirstFinds
    <2>6. DemandedRisks \ missed \subseteq RisksOf(C)
      OBVIOUS
    <2>7. SecondRound'
      <3>1. /\ C = Chunks(pool', "safety_notices") /\ missed = feedback'.risks
            /\ Chunks(ItemsMade, "guides") = Chunks(pool', "guides")
        BY <1>3, <2>4
      <3>2. DemandedRisks' = DemandedRisks /\ \A r : NoticesFor(trip, r)' = NoticesFor(trip, r)
        BY <1>3 DEF DemandedRisks
      <3>3. trip'.risks = trip.risks
        BY <1>3
      <3> HIDE DEF C, missed, fb
      <3> QED BY <1>6, <2>1, <2>3, <2>5, <2>6, <3>1, <3>2, <3>3 DEF SecondRound, Chunks, RisksOf
    <2> QED BY <2>3, <2>7
  <1> QED BY <1>8, <1>9

(* The rounds read nothing of the state but the plan, the pool and what they were asked for. *)
LEMMA SameRound ==
  ASSUME UNCHANGED <<trip, settings, plan, retries, pool, feedback>>,
         phase # "retrieval_plan", phase' # "retrieval_plan"
  PROVE  /\ Default' <=> Default
         /\ Supplied' <=> Supplied
         /\ FirstRound' <=> FirstRound
         /\ SecondRound' <=> SecondRound
  <1>1. /\ Default' <=> Default
        /\ Supplied' <=> Supplied
    BY DEF Default, Supplied
  <1>2. FirstRound' <=> FirstRound
    BY DEF FirstRound, LooksFor, InitialTopK
  <1>3. SecondRound' <=> SecondRound
    BY DEF SecondRound, LooksFor, DemandedRisks, RisksOf, Chunks
  <1> QED BY <1>1, <1>2, <1>3

(* Before the first plan nothing was asked for. *)
LEMMA FindsAllInitially == Init => FindsAll
  <1> SUFFICES ASSUME Init PROVE FindsAll
    OBVIOUS
  <1>1. phase = "retrieval_plan" /\ retries = 0 /\ ~HasRepairRequest(feedback)
    BY EmptyParts DEF Init
  <1> QED BY <1>1 DEF FindsAll, FirstRound

(* Every step keeps to these rounds, if the numbers suffice for all trips. *)
LEMMA FindsAllInvariance ==
  ASSUME MaxRepairs >= 1, \A t \in Trips : ChunksSuffice(t),
         IInv, FindsAll, [Next]_vars
  PROVE  FindsAll'
  <1> SUFFICES ASSUME Default', Supplied'
               PROVE  /\ phase' # "final_response"
                      /\ phase' # "proposal" => FirstRound' \/ SecondRound'
                      /\ phase' = "evidence_grade" => AllShown'
    BY DEF FindsAll
  <1>1. UNCHANGED <<trip, settings>>
    BY DEF Next, RetrievalPlan, HybridRetrieve, KeepFusionOrder, Rerank, EvidenceGrade, Graded, vars
  <1>2. Default /\ Supplied
    BY <1>1 DEF Default, Supplied
  <1>3. /\ phase # "final_response"
        /\ phase # "proposal" => FirstRound \/ SecondRound
        /\ phase = "evidence_grade" => AllShown
    BY <1>2 DEF FindsAll
  <1>4. ChunksSuffice(trip)
    BY DEF IInv
  <1>5. CASE RetrievalPlan
    <2>1. phase = "retrieval_plan" /\ phase' = "hybrid_retrieve"
      BY <1>5 DEF RetrievalPlan
    <2> QED BY <1>2, <1>3, <1>5, <2>1, DefaultPlan
  <1>6. CASE HybridRetrieve
    <2>1. /\ phase = "hybrid_retrieve" /\ phase' = "rerank"
          /\ UNCHANGED <<trip, settings, plan, retries, pool, feedback>>
      BY <1>6 DEF HybridRetrieve
    <2> QED BY <1>3, <2>1, SameRound
  <1>7. CASE KeepFusionOrder
    <2>1. /\ phase = "rerank" /\ phase' = "evidence_grade"
          /\ UNCHANGED <<trip, settings, plan, retries, pool, feedback>>
      BY <1>7 DEF KeepFusionOrder
    <2> QED BY <1>2, <1>3, <1>7, <2>1, SameRound, DefaultLists
  <1>8. CASE Rerank
    BY <1>2, <1>8 DEF Rerank, Default
  <1>9. CASE EvidenceGrade
    <2>1. phase = "evidence_grade"
      BY <1>9 DEF EvidenceGrade
    <2>2. phase' = "proposal" \/ (phase' = "retrieval_plan" /\ SecondRound')
      BY <1>2, <1>3, <1>4, <1>9, <2>1, DefaultGrade
    <2> QED BY <2>2
  <1>10. CASE UNCHANGED vars
    <2>1. UNCHANGED <<trip, settings, phase, plan, retries, evidence, pool, feedback>>
      BY <1>10 DEF vars
    <2>2. FirstRound' <=> FirstRound
      BY <2>1 DEF FirstRound, LooksFor, InitialTopK, HasRepairRequest
    <2>3. SecondRound' <=> SecondRound
      BY <2>1 DEF SecondRound, LooksFor, DemandedRisks, RisksOf, Chunks
    <2>4. AllShown' <=> AllShown
      BY <2>1 DEF AllShown
    <2> QED BY <1>3, <2>1, <2>2, <2>3, <2>4
  <1> QED BY <1>5, <1>6, <1>7, <1>8, <1>9, <1>10 DEF Next

(* The conditions on types follow from the invariant; a task looks for as many chunks as it demands
   if the numbers suffice. *)
LEMMA TypesHold ==
  ASSUME IInv, ChunksSuffice(trip)
  PROVE  TypeOK
  <1>1. ASSUME NEW t \in ToSet(plan.tasks)
        PROVE  t.category \in Category /\ t.topK \in Nat /\ t.min <= t.topK
    <2>1. SoundTask(t)
      BY DEF IInv, SoundPlan, SoundTasks
    <2>2. /\ t.category \in Category /\ t.topK \in Nat /\ t.min \in Nat
          /\ Needed(t.category) \in Nat /\ t.min <= Needed(t.category) /\ Needed(t.category) <= t.topK
      BY <2>1 DEF SoundTask, IsTask, Enough
    <2> QED BY <2>2
  <1>2. \A i \in DOMAIN hits : hits[i].chunk \in DOMAIN Corpus
    <2>1. \A h \in ToSet(hits) : IsHit(h)
      BY DEF IInv, ListsSound
    <2> QED BY <2>1 DEF ToSet, IsHit
  <1>3. \A e \in pool : e.category \in Category /\ e.chunk \in DOMAIN Corpus
    BY DEF IInv, PoolSound, SoundPool, SoundItem, IsItem
  <1>4. Cardinality(Keys(pool)) = Cardinality(pool)
    <2> DEFINE f == [e \in pool |-> Pooled(e)]
               K == Keys(pool)
    <2>1. IsFiniteSet(pool) /\ \A e, o \in pool : Pooled(e) = Pooled(o) => e = o
      BY DEF IInv, PoolSound, SoundPool
    <2>2. f \in [pool -> K] /\ (\A e \in pool : f[e] = Pooled(e)) /\ \A k \in K : \E e \in pool : k = Pooled(e)
      BY DEF Keys
    <2> HIDE DEF f, K
    <2>3. f \in Bijection(pool, K)
      BY <2>1, <2>2 DEF Bijection, Injection, IsInjective, Surjection
    <2>4. ExistsBijection(pool, K)
      BY <2>3 DEF ExistsBijection
    <2>5. Cardinality(K) = Cardinality(pool)
      BY <2>1, <2>4, FS_Bijection
    <2> QED BY <2>5 DEF K
  <1>5. (phase = "proposal") = (result.status \in {"passed", "degraded"})
    <2>1. /\ phase = "proposal" => result.next = "continue" /\ SoundGrade(result)
          /\ phase # "proposal" => \/ result = NoResult
                                   \/ result.next \in {"repair", "stop"} /\ SoundGrade(result)
      BY DEF IInv, ResultSound
    <2>2. phase = "proposal" <=> result.status \in {"passed", "degraded"}
      BY <2>1 DEF SoundGrade, NoResult
    <2> QED BY <2>2
  <1>6. /\ phase \in Phase /\ plan.mode \in {"none", "initial", "repair"} /\ retries \in 0 .. MaxRepairs
        /\ DOMAIN requirements \subseteq Category
    BY DEF IInv, ResultSound, SoundPlan, RoundsSound, DemandsSound, SoundDemands
  <1> QED BY <1>1, <1>2, <1>3, <1>4, <1>5, <1>6 DEF TypeOK

(* A loop that keeps to these rounds gives up only where the corpus has too little. *)
LEMMA ExistingIsFound == FindsAll => WhatExistsIsFound
  <1> DEFINE Has(category, risks) ==
        Cardinality({c \in MatchingChunks(Filter(category, risks)) : Corpus[c].legible})
  <1> SUFFICES ASSUME FindsAll, phase = "final_response", Default
               PROVE  Has("guides", {}) < 2 \/ \E r \in trip.risks : Has("safety_notices", {r}) = 0
    BY DEF WhatExistsIsFound, Default
  <1>1. ~Supplied
    BY DEF FindsAll
  <1>2. CASE ~(Cardinality({c \in GuidesFor(trip) : Corpus[c].legible}) >= 2)
    <2>1. Has("guides", {}) = Cardinality({c \in GuidesFor(trip) : Corpus[c].legible})
      BY FilteredChunks
    <2>2. Cardinality({c \in GuidesFor(trip) : Corpus[c].legible}) \in Nat
      BY ChunksFinite DEF GuidesFor, MatchingChunks
    <2> QED BY <1>2, <2>1, <2>2
  <1>3. CASE \E r \in trip.risks : NoticesFor(trip, {r}) = {}
    <2>1. PICK r \in trip.risks : NoticesFor(trip, {r}) = {}
      BY <1>3
    <2>2. {c \in MatchingChunks(Filter("safety_notices", {r})) : Corpus[c].legible} = {}
      BY <2>1, FilteredChunks
    <2> QED BY <2>2, FS_EmptySet
  <1> QED BY <1>1, <1>2, <1>3 DEF Supplied

(* The cuts on the way of the evidence hide nothing that a demand rests on, for every corpus, trip and
   numbers of chunks that suffice for it: in the first round or in the repair the default loop finds
   what exists (evidence_grader.py, retrieval_planner.py, hybrid_retriever.py), the judge sees every
   need (agentic_evidence_grader.py) and the fusion keeps the order the searches agree on. *)
THEOREM NothingIsHidden ==
  ASSUME MaxRepairs >= 1, MaxJudged >= 2, \A t \in Trips : ChunksSuffice(t)
  PROVE  Spec => []NothingNeededIsHidden
  <1>1. IInv => TypeOK
    BY TypesHold DEF IInv
  <1>2. IInv /\ FindsAll /\ [Next]_vars => FindsAll'
    BY FindsAllInvariance
  <1>3. Spec => []JudgeSeesEveryNeed
    BY JudgeIsShownAll
  <1>4. TypeOK /\ WhatExistsIsFound /\ JudgeSeesEveryNeed /\ FusionKeepsAgreement
          => NothingNeededIsHidden
    BY DEF NothingNeededIsHidden
  <1> QED BY <1>1, <1>2, <1>3, <1>4, Invariant, FindsAllInitially, ExistingIsFound, FusionAgrees, PTL
          DEF Spec

-----------------------------------------------------------------------------
(* The graph. *)

(* How far the loop is, and that there is always a super-step left for it. *)
LEMMA StepsLeft ==
  ASSUME IInv
  PROVE  /\ retries \in Nat /\ MaxRepairs \in Nat
         /\ phase = "retrieval_plan" /\ ~HasRepairRequest(feedback) => Steps = 4 * retries
         /\ phase = "retrieval_plan" /\ HasRepairRequest(feedback) => Steps = 4 * retries + 4
         /\ phase = "hybrid_retrieve" => Steps = 4 * retries + 1
         /\ phase = "rerank" => Steps = 4 * retries + 2
         /\ phase = "evidence_grade" => Steps = 4 * retries + 3
         /\ phase \in {"proposal", "final_response"} => Steps = 4 * retries + 4
         /\ phase \notin {"proposal", "final_response"} => Steps < 4 + 4 * MaxRepairs
  <1>1. retries \in Nat /\ MaxRepairs \in Nat /\ retries <= MaxRepairs /\ phase \in Phase
    BY EvidenceBounds DEF IInv, RoundsSound, ResultSound
  <1>2. phase = "retrieval_plan" /\ HasRepairRequest(feedback) => retries < MaxRepairs
    BY DEF IInv, RoundsSound
  <1>3. /\ phase = "retrieval_plan" /\ ~HasRepairRequest(feedback) => Steps = 4 * retries
        /\ phase = "retrieval_plan" /\ HasRepairRequest(feedback) => Steps = 4 * retries + 4
    BY <1>1 DEF Steps
  <1>4. /\ phase = "hybrid_retrieve" => Steps = 4 * retries + 1
        /\ phase = "rerank" => Steps = 4 * retries + 2
        /\ phase = "evidence_grade" => Steps = 4 * retries + 3
    BY <1>1 DEF Steps
  <1>5. phase \in {"proposal", "final_response"} => Steps = 4 * retries + 4
    BY <1>1 DEF Steps
  <1>6. phase \notin {"proposal", "final_response"} =>
          phase \in {"retrieval_plan", "hybrid_retrieve", "rerank", "evidence_grade"}
    BY <1>1 DEF Phase
  <1> HIDE DEF Steps
  <1> QED BY <1>1, <1>2, <1>3, <1>4, <1>5, <1>6

(* The node of the plan makes the step of the graph. *)
LEMMA PlanRefines ==
  ASSUME IInv, RetrievalPlan
  PROVE  Graph!RetrievalPlan
  <1>1. /\ phase = "retrieval_plan" /\ phase' = "hybrid_retrieve"
        /\ UNCHANGED <<trip, settings, hits, evidence, degradedRank, pool, requirements, result,
                       feedback>>
    BY DEF RetrievalPlan
  <1>2. /\ IInv' /\ plan'.exhausted = FALSE
        /\ plan'.mode = IF HasRepairRequest(feedback) THEN "repair" ELSE "initial"
        /\ retries' = IF HasRepairRequest(feedback) THEN retries + 1 ELSE retries
    BY PlanStep
  <1> DEFINE mode == IF HasRepairRequest(feedback) THEN "repair" ELSE "initial"
  <1>3. PlanKind' = mode
    BY <1>2 DEF PlanKind
  <1>4. plan' # NoPlan
    BY <1>2 DEF NoPlan
  <1>5. Steps' = 4 * retries' + 1
    BY <1>1, <1>2, StepsLeft DEF Steps
  <1>6. Steps' = Steps + 1 /\ Steps < 4 + 4 * MaxRepairs
    <2>1. Steps = 4 * retries + (IF HasRepairRequest(feedback) THEN 4 ELSE 0)
      BY <1>1, StepsLeft
    <2>2. retries \in Nat /\ Steps < 4 + 4 * MaxRepairs
      BY <1>1, StepsLeft
    <2> QED BY <1>2, <1>5, <2>1, <2>2
  <1>7. Graph!Step("retrieval_plan", "hybrid_retrieve")
    BY <1>1, <1>6 DEF Graph!Step
  <1>8. HasRepairRequest(feedback) => retries < MaxRepairs
    BY <1>1 DEF IInv, RoundsSound
  <1>9. HasRepairRequest(feedback)' <=> HasRepairRequest(feedback)
    BY <1>1
  <1> DEFINE before == [plan |-> PlanKind, of |-> Known(plan # NoPlan),
                        feedback |-> HasRepairRequest(feedback), evidence |-> result.next,
                        pool |-> Known(result # NoResult)]
             after == [plan |-> PlanKind', of |-> Known(plan' # NoPlan),
                       feedback |-> HasRepairRequest(feedback'), evidence |-> result'.next,
                       pool |-> Known(result' # NoResult)]
             counts == [toolPlan |-> 0, toolExec |-> 0, rag |-> retries, proposal |-> 0, budget |-> 0]
             counted == [toolPlan |-> 0, toolExec |-> 0, rag |-> retries', proposal |-> 0, budget |-> 0]
  <1>10. after = [before EXCEPT !.plan = mode, !.of = 0]
    <2>1. Known(plan' # NoPlan) = 0
      BY <1>4 DEF Known
    <2>2. result' = result /\ feedback' = feedback
      BY <1>1
    <2>3. after = [plan |-> mode, of |-> 0, feedback |-> HasRepairRequest(feedback),
                   evidence |-> result.next, pool |-> Known(result # NoResult)]
      BY <1>3, <2>1, <2>2
    <2> DEFINE kind == PlanKind  of == Known(plan # NoPlan)  wanted == HasRepairRequest(feedback)
               next == result.next  known == Known(result # NoResult)
    <2>4. /\ after = [plan |-> mode, of |-> 0, feedback |-> wanted, evidence |-> next, pool |-> known]
          /\ before = [plan |-> kind, of |-> of, feedback |-> wanted, evidence |-> next, pool |-> known]
      BY <2>3
    <2> HIDE DEF kind, of, wanted, next, known, mode, before, after
    <2> DEFINE half == [plan |-> mode, of |-> of, feedback |-> wanted, evidence |-> next, pool |-> known]
    <2>5. half = [before EXCEPT !.plan = mode] /\ after = [half EXCEPT !.of = 0]
      BY ONLY <2>4
    <2>6. \A r : [r EXCEPT !.plan = mode, !.of = 0] = [[r EXCEPT !.plan = mode] EXCEPT !.of = 0]
      OBVIOUS
    <2> HIDE DEF half
    <2> QED BY ONLY <2>5, <2>6
  <1>11. counted = IF mode = "repair" THEN [counts EXCEPT !.rag = @ + 1] ELSE counts
    BY <1>2
  <1>12. /\ mode \in {"initial", "repair", "exhausted"}
         /\ mode = "initial" <=> ~HasRepairRequest(feedback)
         /\ mode = "exhausted" => retries >= MaxRepairs
         /\ mode = "repair" => retries < MaxRepairs
    BY <1>8
  <1> QED BY <1>7, <1>10, <1>11, <1>12 DEF Graph!RetrievalPlan, Graph!review

(* So do the nodes of retrieval and of the ranking. *)
LEMMA ListsRefine ==
  ASSUME IInv, HybridRetrieve \/ KeepFusionOrder \/ Rerank
  PROVE  Graph!HybridRetrieve \/ Graph!Rerank
  <1>1. UNCHANGED <<trip, settings, plan, retries, pool, requirements, result, feedback>>
    BY DEF HybridRetrieve, KeepFusionOrder, Rerank
  <1>2. UNCHANGED <<PlanKind, HasRepairRequest(feedback)>>
    BY <1>1 DEF PlanKind
  <1>3. CASE HybridRetrieve
    <2>1. phase = "hybrid_retrieve" /\ phase' = "rerank"
      BY <1>3 DEF HybridRetrieve
    <2>2. Steps' = 4 * retries + 2
      BY <1>1, <2>1, StepsLeft DEF Steps
    <2>3. Steps' = Steps + 1 /\ Steps < 4 + 4 * MaxRepairs
      BY <2>1, <2>2, StepsLeft
    <2>4. Graph!Step("hybrid_retrieve", "rerank")
      BY <2>1, <2>3 DEF Graph!Step
    <2> QED BY <1>1, <1>2, <2>4 DEF Graph!HybridRetrieve, Graph!planning, Graph!review
  <1>4. CASE KeepFusionOrder \/ Rerank
    <2>1. phase = "rerank" /\ phase' = "evidence_grade"
      BY <1>4 DEF KeepFusionOrder, Rerank
    <2>2. Steps' = 4 * retries + 3
      BY <1>1, <2>1, StepsLeft DEF Steps
    <2>3. Steps' = Steps + 1 /\ Steps < 4 + 4 * MaxRepairs
      BY <2>1, <2>2, StepsLeft
    <2>4. Graph!Step("rerank", "evidence_grade")
      BY <2>1, <2>3 DEF Graph!Step
    <2> QED BY <1>1, <1>2, <2>4 DEF Graph!Rerank, Graph!planning, Graph!review
  <1> QED BY <1>3, <1>4

(* So does the grade, with the route it takes. *)
LEMMA GradeRefines ==
  ASSUME IInv, EvidenceGrade
  PROVE  Graph!EvidenceGrade
  <1>1. PICK items, demands, grade, fb :
          Graded(items, demands, grade, fb) /\ GradeFacts(items, demands, grade, fb)
    BY GradeStep
  <1>2. /\ result' = grade /\ feedback' = fb /\ phase = "evidence_grade"
        /\ UNCHANGED <<trip, settings, plan, retries, hits, degradedRank>>
        /\ phase' = CASE grade.next = "continue" -> "proposal"
                      [] grade.next = "repair" -> "retrieval_plan"
                      [] grade.next = "stop" -> "final_response"
    BY <1>1 DEF Graded, EvidenceGrade
  <1>3. /\ grade.next \in {"continue", "repair", "stop"}
        /\ grade.next = "continue" => ~HasRepairRequest(fb)
        /\ grade.next = "repair" => HasRepairRequest(fb) /\ plan.exhausted = FALSE /\ retries < MaxRepairs
    BY <1>1 DEF GradeFacts, SoundGrade
  <1>4. plan.mode \in {"initial", "repair"} /\ plan.exhausted = FALSE /\ PlanKind = plan.mode
    BY <1>2 DEF IInv, RoundsSound, SoundPlan, PlanKind
  <1>5. plan # NoPlan /\ grade # NoResult
    BY <1>3, <1>4 DEF NoPlan, NoResult
  <1> DEFINE asked == HasRepairRequest(fb)
  <1>6. Steps' = Steps + 1 /\ Steps < 4 + 4 * MaxRepairs
    <2>1. Steps = 4 * retries + 3 /\ retries \in Nat /\ Steps < 4 + 4 * MaxRepairs
      BY <1>2, StepsLeft
    <2>2. Steps' = 4 * retries' + 4
      <3>1. IInv'
        BY EvidenceStep
      <3>2. CASE grade.next = "repair"
        <4>1. phase' = "retrieval_plan" /\ HasRepairRequest(feedback')
          BY <1>2, <1>3, <3>2
        <4> QED BY <4>1 DEF Steps
      <3>3. CASE grade.next = "continue"
        <4>1. phase' = "proposal"
          BY <1>2, <3>3
        <4> QED BY <4>1 DEF Steps
      <3>4. CASE grade.next = "stop"
        <4>1. phase' = "final_response"
          BY <1>2, <3>4
        <4> QED BY <4>1 DEF Steps
      <3> QED BY <1>3, <3>2, <3>3, <3>4
    <2>3. retries' = retries
      BY <1>2
    <2> QED BY <2>1, <2>2, <2>3
  <1>7. Graph!Step("evidence_grade", CASE grade.next = "continue" -> "proposal"
                                       [] grade.next = "repair" -> "retrieval_plan"
                                       [] grade.next = "stop" -> "final_response")
    <2> DEFINE node == CASE grade.next = "continue" -> "proposal"
                         [] grade.next = "repair" -> "retrieval_plan"
                         [] grade.next = "stop" -> "final_response"
    <2>1. phase' = node /\ node # "END"
      BY <1>2, <1>3
    <2> HIDE DEF node
    <2> QED BY <1>2, <1>6, <2>1 DEF Graph!Step
  <1> DEFINE before == [plan |-> PlanKind, of |-> Known(plan # NoPlan),
                        feedback |-> HasRepairRequest(feedback), evidence |-> result.next,
                        pool |-> Known(result # NoResult)]
             after == [plan |-> PlanKind', of |-> Known(plan' # NoPlan),
                       feedback |-> HasRepairRequest(feedback'), evidence |-> result'.next,
                       pool |-> Known(result' # NoResult)]
  <1>8. Known(plan # NoPlan) = 0 /\ Known(result' # NoResult) = 0 /\ Known(result # NoResult) \in {0, -1}
    BY <1>2, <1>5 DEF Known
  <1>9. before.plan # "none" /\ before.of = 0 /\ before.pool \in {0, -1}
    BY <1>4, <1>8
  <1>10. after = [before EXCEPT !.evidence = grade.next, !.feedback = asked,
                                !.pool = IF before.plan = "none" THEN @
                                         ELSE IF before.plan = "initial" \/ @ = Graph!None THEN before.of
                                         ELSE Graph!Older(@, before.of)]
    <2>1. PlanKind' = PlanKind /\ plan' = plan
      BY <1>2 DEF PlanKind
    <2>2. Known(plan' # NoPlan) = 0
      BY <1>8, <2>1
    <2>3. HasRepairRequest(feedback') = asked /\ result'.next = grade.next
      BY <1>2
    <2>4. 0 = IF before.plan = "none" THEN before.pool
              ELSE IF before.plan = "initial" \/ before.pool = Graph!None THEN before.of
              ELSE Graph!Older(before.pool, before.of)
      BY <1>9 DEF Graph!None, Graph!Older
    <2> HIDE DEF asked
    <2>5. after = [plan |-> PlanKind, of |-> 0, feedback |-> asked, evidence |-> grade.next, pool |-> 0]
      BY <1>8, <2>1, <2>2, <2>3
    <2>6. after = [before EXCEPT !.evidence = grade.next, !.feedback = asked, !.pool = 0]
      <3> DEFINE kind == PlanKind  of == Known(plan # NoPlan)  wanted == HasRepairRequest(feedback)
                 old == result.next  next == grade.next  known == Known(result # NoResult)
      <3>1. before = [plan |-> kind, of |-> of, feedback |-> wanted, evidence |-> old, pool |-> known]
        OBVIOUS
      <3> HIDE DEF before, after
      <3>2. after = [plan |-> kind, of |-> of, feedback |-> asked, evidence |-> next, pool |-> 0]
        BY <1>8, <2>5
      <3> HIDE DEF kind, of, wanted, old, next, known
      <3>3. after = [before EXCEPT !.evidence = next, !.feedback = asked, !.pool = 0]
        <4> DEFINE one == [plan |-> kind, of |-> of, feedback |-> wanted, evidence |-> next, pool |-> known]
                   two == [plan |-> kind, of |-> of, feedback |-> asked, evidence |-> next, pool |-> known]
        <4>1. /\ one = [before EXCEPT !.evidence = next] /\ two = [one EXCEPT !.feedback = asked]
              /\ after = [two EXCEPT !.pool = 0]
          BY ONLY <3>1, <3>2
        <4>2. \A r : [r EXCEPT !.evidence = next, !.feedback = asked, !.pool = 0]
                     = [[[r EXCEPT !.evidence = next] EXCEPT !.feedback = asked] EXCEPT !.pool = 0]
          OBVIOUS
        <4> HIDE DEF one, two
        <4> QED BY ONLY <4>1, <4>2
      <3> QED BY <3>3 DEF next
    <2> HIDE DEF before, after
    <2> QED BY <2>4, <2>6
  <1>11. asked \in BOOLEAN /\ (grade.next = "continue" => ~asked)
         /\ (grade.next = "repair" => asked /\ Graph!CanRepairEvidence)
    BY <1>3, <1>4 DEF HasRepairRequest, Graph!CanRepairEvidence
  <1>12. retries' = retries
    BY <1>2
  <1> HIDE DEF asked
  <1> DEFINE next == grade.next
             goal == CASE next = "continue" -> "proposal"
                       [] next = "repair" -> "retrieval_plan"
                       [] next = "stop" -> "final_response"
  <1>13. /\ next \in {"continue", "repair", "stop"} /\ asked \in BOOLEAN
         /\ before.plan = "none" => next = "stop" /\ ~asked
         /\ next = "continue" => ~asked
         /\ next = "repair" => asked /\ Graph!CanRepairEvidence
         /\ Graph!Step("evidence_grade", goal)
    BY <1>3, <1>7, <1>9, <1>11
  <1> HIDE DEF before, after, next
  <1>14. after = [before EXCEPT !.evidence = next, !.feedback = asked,
                                !.pool = IF before.plan = "none" THEN @
                                         ELSE IF before.plan = "initial" \/ @ = Graph!None THEN before.of
                                         ELSE Graph!Older(@, before.of)]
    BY <1>10 DEF next
  <1> HIDE DEF goal
  <1>15. \E n \in {"continue", "repair", "stop"}, f \in BOOLEAN :
           /\ before.plan = "none" => n = "stop" /\ ~f
           /\ n = "continue" => ~f
           /\ n = "repair" => f /\ Graph!CanRepairEvidence
           /\ Graph!Step("evidence_grade", CASE n = "continue" -> "proposal"
                                             [] n = "repair" -> "retrieval_plan"
                                             [] n = "stop" -> "final_response")
           /\ after = [before EXCEPT !.evidence = n, !.feedback = f,
                                      !.pool = IF before.plan = "none" THEN @
                                               ELSE IF before.plan = "initial" \/ @ = Graph!None
                                                    THEN before.of
                                               ELSE Graph!Older(@, before.of)]
    BY <1>13, <1>14, Zenon DEF goal
  <1> QED BY <1>12, <1>15 DEF Graph!EvidenceGrade, Graph!review, before, after

(* Every step of the loop is a step of the four nodes of PlanTripGraph: the safety part of
   ImplementsGraph. *)
THEOREM NodesAreThoseOfGraph ==
  Spec => [][Graph!RetrievalPlan \/ Graph!HybridRetrieve \/ Graph!Rerank \/ Graph!EvidenceGrade]_vars
  <1>1. IInv /\ [Next]_vars
        => [Graph!RetrievalPlan \/ Graph!HybridRetrieve \/ Graph!Rerank \/ Graph!EvidenceGrade]_vars
    BY PlanRefines, ListsRefine, GradeRefines DEF Next
  <1> QED BY <1>1, Invariant, PTL DEF Spec
===============================================================================
