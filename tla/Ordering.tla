------------------------------- MODULE Ordering -------------------------------
(***************************************************************************)
(* Python's sorted() over records with a key: a tuple of numbers.  A list  *)
(* is put together from its elements and a key for each of them.           *)
(***************************************************************************)
EXTENDS Integers, Sequences, FiniteSets

\* The order of Python's tuples.
Precedes(a, b) == \E i \in DOMAIN a : a[i] < b[i] /\ \A j \in 1 .. i - 1 : a[j] = b[j]

\* sorted(): records with different keys in the order of their keys.
Sorted(S) ==
  LET place == [r \in S |-> 1 + Cardinality({o \in S : Precedes(o.key, r.key)})]
  IN  [i \in 1 .. Cardinality(S) |-> CHOOSE r \in S : place[r] = i]

\* The items of records [key, item] in the order of their keys.
Ordered(S) == LET listed == Sorted(S) IN [i \in DOMAIN listed |-> listed[i].item]

\* The elements of a list at some of its places, in their order.
Picked(list, places) == Ordered({[key |-> <<i>>, item |-> list[i]] : i \in places})

\* Lists one after the other.
Joined(lists) ==
  Ordered(UNION {{[key |-> <<n, i>>, item |-> lists[n][i]] : i \in DOMAIN lists[n]} :
                 n \in DOMAIN lists})
=============================================================================
