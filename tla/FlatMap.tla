------------------------------- MODULE FlatMap -------------------------------
(***************************************************************************)
(* core/flat_map.hpp: a map kept as a vector of pairs, sorted by key.      *)
(* Every operation begins with std::lower_bound, which finds the first     *)
(* pair whose key is not less; it needs the vector sorted, and whether it  *)
(* is depends on every operation before.  Positions are from 1, end() is   *)
(* Len + 1.  Keys are naturals, which stand for any strict order.          *)
(***************************************************************************)
EXTENDS Naturals, SequencesExt

End(m) == Len(m) + 1

(* A buggy search for mutation: the comparison is not strict.              *)
upper_bound(m, k) ==
  CHOOSE i \in 1 .. End(m) :
    /\ \A j \in 1 .. (i - 1) : m[j].key <= k
    /\ i # End(m) => ~(m[i].key <= k)

lower_bound(m, k) ==
  CHOOSE i \in 1 .. End(m) :
    /\ \A j \in 1 .. (i - 1) : m[j].key < k
    /\ i # End(m) => ~(m[i].key < k)

(* The pair at i has the key k: neither key is less than the other.        *)
Matches(m, i, k) == i # End(m) /\ ~(k < m[i].key) /\ ~(m[i].key < k)

find(m, k) ==
  IF Matches(m, lower_bound(m, k), k) THEN lower_bound(m, k) ELSE End(m)

contains(m, k) == find(m, k) # End(m)

(* A buggy operator[] for mutation: a new pair is appended.                *)
AppendNew(m, k, v) ==
  IF contains(m, k) THEN [m EXCEPT ![find(m, k)].val = v]
  ELSE Append(m, [key |-> k, val |-> v])

(* m[k] = v: operator[], which inserts the key where it belongs if it is   *)
(* not there, and the assignment through the reference it returns.         *)
Put(m, k, v) ==
  LET i == lower_bound(m, k)
  IN  IF Matches(m, i, k) THEN [m EXCEPT ![i] = [key |-> @.key, val |-> v]]
      ELSE InsertAt(m, i, [key |-> k, val |-> v])

erase(m, k) == IF contains(m, k) THEN RemoveAt(m, find(m, k)) ELSE m

-----------------------------------------------------------------------------
(* The representation invariant: keys in strictly ascending order.         *)
Sorted(m) == \A i, j \in DOMAIN m : i < j => m[i].key < m[j].key

(* What the vector stands for: the values of the keys that are in it.      *)
Has(m, k, v) == \E i \in DOMAIN m : m[i] = [key |-> k, val |-> v]

=============================================================================
