---------------------------- MODULE LayoutProofs ----------------------------
(***************************************************************************)
(* Of layouts of any size, callbacks of any arity and chains of views of   *)
(* any length: what is_refinement_of decides, that views compose, that     *)
(* the arguments of a call are in place, and that make_reactive makes the  *)
(* join a call asks for.                                                   *)
(***************************************************************************)
EXTENDS MakeReactive, SequenceTheorems, FiniteSetTheorems, WellFoundedInduction,
        TLAPS

(* The search finds the one group a parameter is in.                       *)
LEMMA BlockFound ==
  ASSUME NEW l \in Layouts, NEW s \in DOMAIN l, NEW i \in DOMAIN l[s]
  PROVE  find_coarse_block(l[s][i], l) = s - 1
<1> DEFINE found == {t \in DOMAIN l : entry_contains(l[s][i], l[t])}
<1>1. found = {s}
  BY LayoutsAssumption DEF entry_contains
<1>2. s \in Nat
  BY LayoutsAssumption
<1>3. (CHOOSE t \in found : \A u \in found : t <= u) = s
  BY <1>1, <1>2
<1> QED
  BY <1>1, <1>3 DEF find_coarse_block

(* It tells when a parameter is in none.                                   *)
LEMMA BlockNotFound ==
  ASSUME NEW l \in Layouts, NEW p, \A s \in DOMAIN l : ~entry_contains(p, l[s])
  PROVE  find_coarse_block(p, l) = Len(l)
BY DEF find_coarse_block

(* Membership in a group, in the two ways it is written.                   *)
LEMMA ContainsIsMember ==
  ASSUME NEW g, NEW p
  PROVE  p \in ToSet(g) <=> entry_contains(p, g)
BY DEF ToSet, entry_contains

(* One block: is_refinement_of looks at whether its parameters are found   *)
(* in the same place, and they are when all are in one group of coarse, or *)
(* all in none.                                                            *)
LEMMA EntryContainedExact ==
  ASSUME NEW fine \in Layouts, NEW coarse \in Layouts, NEW s \in DOMAIN fine
  PROVE  fine_entry_contained(fine[s], coarse) <=>
           \/ \E t \in DOMAIN coarse : ToSet(fine[s]) \subseteq ToSet(coarse[t])
           \/ ToSet(fine[s]) \cap ParamsOf(coarse) = {}
<1> DEFINE g == fine[s]
<1> DEFINE find(p) == find_coarse_block(p, coarse)
<1>1. g \in Seq(Nat) /\ Len(g) \in Nat /\ DOMAIN g = 1 .. Len(g) /\ 1 \in DOMAIN g
  BY LayoutsAssumption
<1>2. coarse \in Seq(Seq(Nat)) /\ Len(coarse) \in Nat /\ DOMAIN coarse = 1 .. Len(coarse)
  BY LayoutsAssumption
<1>3. \A p : \A t \in DOMAIN coarse : entry_contains(p, coarse[t]) => find(p) = t - 1
  BY BlockFound DEF entry_contains
<1>4. \A p : (\A t \in DOMAIN coarse : ~entry_contains(p, coarse[t]))
               => find(p) = Len(coarse)
  BY BlockNotFound
<1>5. \A p : p \in ToSet(g) <=> \E i \in DOMAIN g : g[i] = p
  BY DEF ToSet
<1>6. \A p, t : p \in ToSet(coarse[t]) <=> entry_contains(p, coarse[t])
  BY ContainsIsMember
<1>7. ASSUME fine_entry_contained(g, coarse)
      PROVE  \/ \E t \in DOMAIN coarse : ToSet(g) \subseteq ToSet(coarse[t])
             \/ ToSet(g) \cap ParamsOf(coarse) = {}
  <2>1. \A i \in DOMAIN g : find(g[i]) = find(g[1])
    BY <1>1, <1>7 DEF fine_entry_contained
  <2>2. CASE \E t \in DOMAIN coarse : entry_contains(g[1], coarse[t])
    <3>1. PICK t \in DOMAIN coarse : entry_contains(g[1], coarse[t])
      BY <2>2
    <3>2. find(g[1]) = t - 1 /\ t - 1 < Len(coarse)
      BY <1>2, <1>3, <3>1
    <3>3. ASSUME NEW i \in DOMAIN g
          PROVE  entry_contains(g[i], coarse[t])
      <4>1. find(g[i]) = t - 1
        BY <2>1, <3>2
      <4>2. PICK u \in DOMAIN coarse : entry_contains(g[i], coarse[u])
        BY <1>2, <1>4, <3>2, <4>1
      <4>3. u - 1 = t - 1
        BY <1>3, <4>1, <4>2
      <4>4. u = t
        BY <1>2, <4>3
      <4> QED
        BY <4>2, <4>4
    <3>4. \A p \in ToSet(g) : p \in ToSet(coarse[t])
      BY <1>5, <1>6, <3>3
    <3> QED
      BY <3>4
  <2>3. CASE \A t \in DOMAIN coarse : ~entry_contains(g[1], coarse[t])
    <3>1. find(g[1]) = Len(coarse)
      BY <1>4, <2>3
    <3>2. ASSUME NEW i \in DOMAIN g, NEW t \in DOMAIN coarse
          PROVE  ~entry_contains(g[i], coarse[t])
      BY <1>2, <1>3, <2>1, <3>1
    <3>3. \A p \in ToSet(g), t \in DOMAIN coarse : p \notin ToSet(coarse[t])
      BY <1>5, <1>6, <3>2
    <3> QED
      BY <3>3 DEF ParamsOf
  <2> QED
    BY <2>2, <2>3
<1>8. ASSUME NEW t \in DOMAIN coarse, ToSet(g) \subseteq ToSet(coarse[t])
      PROVE  fine_entry_contained(g, coarse)
  <2>1. \A i \in DOMAIN g : g[i] \in ToSet(coarse[t])
    BY <1>5, <1>8
  <2>2. \A i \in DOMAIN g : find(g[i]) = t - 1
    BY <1>3, <1>6, <2>1
  <2> QED
    BY <1>1, <2>2 DEF fine_entry_contained
<1>9. ASSUME ToSet(g) \cap ParamsOf(coarse) = {}
      PROVE  fine_entry_contained(g, coarse)
  <2>1. \A i \in DOMAIN g, t \in DOMAIN coarse : g[i] \notin ToSet(coarse[t])
    BY <1>5, <1>9 DEF ParamsOf
  <2>2. \A i \in DOMAIN g : find(g[i]) = Len(coarse)
    BY <1>4, <1>6, <2>1
  <2> QED
    BY <1>1, <2>2 DEF fine_entry_contained
<1> QED
  BY <1>7, <1>8, <1>9

(* What is_refinement_of decides of any two layouts: a block of fine may   *)
(* also be foreign to coarse, which its comment does not allow.            *)
THEOREM RefinementDecides ==
  \A fine, coarse \in Layouts :
    is_refinement_of(fine, coarse) <=>
      \A s \in DOMAIN fine :
        \/ \E t \in DOMAIN coarse : ToSet(fine[s]) \subseteq ToSet(coarse[t])
        \/ ToSet(fine[s]) \cap ParamsOf(coarse) = {}
BY EntryContainedExact DEF is_refinement_of

(* No block is foreign to a layout of the same parameters.                 *)
LEMMA SameParametersContained ==
  ASSUME NEW fine \in Layouts, NEW coarse \in Layouts,
         ParamsOf(fine) = ParamsOf(coarse)
  PROVE  is_refinement_of(fine, coarse) <=> Contained(fine, coarse)
<1>1. \A s \in DOMAIN fine : ToSet(fine[s]) \cap ParamsOf(coarse) # {}
  <2> TAKE s \in DOMAIN fine
  <2>1. 1 \in DOMAIN fine[s]
    BY LayoutsAssumption
  <2>2. fine[s][1] \in ToSet(fine[s])
    BY <2>1 DEF ToSet
  <2>3. fine[s][1] \in ParamsOf(fine)
    BY <2>2 DEF ParamsOf
  <2> QED
    BY <2>2, <2>3
<1> QED
  BY <1>1, RefinementDecides DEF Contained

-----------------------------------------------------------------------------
(* The invariant: the indices are indices into the source's tuple, and the *)
(* tuple a chain of copies would hold is the one they select.              *)
IInv ==
  /\ layout \in Layouts
  /\ parent \in Seq(Nat)
  /\ parent # <<>> =>
       /\ indices \in Seq(0 .. (Len(parent) - 1))
       /\ nested = Select(indices, parent)

(* A list of indices is a sequence, and each points into the tuple.        *)
LEMMA IndexListType ==
  ASSUME NEW n \in Nat, NEW is \in IndexLists(n)
  PROVE  is \in Seq(0 .. (n - 1)) /\ \A i \in DOMAIN is : is[i] + 1 \in 1 .. n
<1>1. PICK k \in 1 .. MaxIndices : is \in [1 .. k -> 0 .. (n - 1)]
  BY DEF IndexLists
<1>2. k \in Nat
  BY <1>1, ViewAssumption
<1>3. is \in Seq(0 .. (n - 1)) /\ DOMAIN is = 1 .. k
  BY <1>1, <1>2
<1> QED
  BY <1>1, <1>3

(* Selecting gives a sequence as long as the list.                         *)
LEMMA SelectType ==
  ASSUME NEW row \in Seq(Nat), NEW is \in Seq(0 .. (Len(row) - 1))
  PROVE  /\ Select(is, row) \in Seq(Nat)
         /\ Len(Select(is, row)) = Len(is)
         /\ \A i \in 1 .. Len(is) : Select(is, row)[i] = row[is[i] + 1]
<1>1. \A i \in 1 .. Len(is) : is[i] + 1 \in 1 .. Len(row)
  OBVIOUS
<1>2. \A i \in 1 .. Len(is) : row[is[i] + 1] \in Nat
  BY <1>1
<1>3. DOMAIN is = 1 .. Len(is) /\ Len(is) \in Nat
  OBVIOUS
<1> QED
  BY <1>2, <1>3 DEF Select

LEMMA Start == Init => IInv
BY DEF Init, IInv

(* A view of the source. *)
LEMMA OpenKeeps ==
  ASSUME IInv, NEW s \in DOMAIN layout, NEW is, Open(s, is)
  PROVE  IInv'
<1>1. layout' \in Layouts /\ parent' = layout[s] /\ parent' \in Seq(Nat)
  BY LayoutsAssumption DEF IInv, Open
<1>2. is \in Seq(0 .. (Len(parent') - 1))
  BY <1>1, IndexListType DEF Open
<1>3. indices' = is /\ nested' = Select(indices', parent')
  BY <1>1 DEF Open, Select
<1> QED
  BY <1>1, <1>2, <1>3 DEF IInv

(* A view of the view: local indices are mapped to the source's.           *)
LEMMA SubViewKeeps ==
  ASSUME IInv, NEW is, SubView(is)
  PROVE  IInv'
<1> DEFINE n == Len(parent)
<1>1. /\ layout' = layout /\ parent' = parent /\ parent \in Seq(Nat) /\ n \in Nat
      /\ indices \in Seq(0 .. (n - 1)) /\ Len(indices) \in Nat
      /\ nested = Select(indices, parent)
  BY DEF IInv, SubView
<1>2. /\ is \in Seq(0 .. (Len(indices) - 1))
      /\ \A i \in DOMAIN is : is[i] + 1 \in 1 .. Len(indices)
  BY <1>1, IndexListType DEF SubView
<1>3. DOMAIN is = 1 .. Len(is) /\ Len(is) \in Nat
  BY <1>2
<1>4. indices' = [i \in 1 .. Len(is) |-> indices[is[i] + 1]]
  BY <1>3 DEF SubView, compose_index
<1>5. \A i \in 1 .. Len(is) : indices[is[i] + 1] \in 0 .. (n - 1)
  BY <1>1, <1>2, <1>3
<1>6. indices' \in Seq(0 .. (n - 1)) /\ DOMAIN indices' = 1 .. Len(is)
  BY <1>3, <1>4, <1>5
<1>7. nested' = Select(indices', parent)
  <2>1. nested' = [i \in 1 .. Len(is) |-> Select(indices, parent)[is[i] + 1]]
    BY <1>1, <1>3 DEF SubView, Select
  <2>2. \A i \in 1 .. Len(is) :
          Select(indices, parent)[is[i] + 1] = parent[indices[is[i] + 1] + 1]
    BY <1>1, <1>2, <1>3, SelectType
  <2>3. Select(indices', parent) =
          [i \in 1 .. Len(is) |-> parent[indices[is[i] + 1] + 1]]
    BY <1>4, <1>6 DEF Select
  <2> QED
    BY <2>1, <2>2, <2>3
<1> QED
  BY <1>1, <1>6, <1>7 DEF IInv

(* A merge: selecting by two lists after one another. *)
LEMMA MergeKeeps ==
  ASSUME IInv, NEW is, Merge(is)
  PROVE  IInv'
<1> DEFINE n == Len(parent)
<1>1. /\ layout' = layout /\ parent' = parent /\ parent \in Seq(Nat) /\ n \in Nat
      /\ indices \in Seq(0 .. (n - 1))
      /\ nested = Select(indices, parent)
  BY DEF IInv, Merge
<1>2. is \in Seq(0 .. (n - 1))
  BY <1>1, IndexListType DEF Merge
<1>3. Row = parent
  BY <1>1 DEF Row
<1>4. indices' = indices \o is /\ indices' \in Seq(0 .. (n - 1))
  BY <1>1, <1>2 DEF Merge
<1>5. nested' = Select(indices, parent) \o Select(is, parent)
  BY <1>1, <1>3 DEF Merge
<1>6. Select(indices, parent) \o Select(is, parent) = Select(indices \o is, parent)
  <2> DEFINE a == Select(indices, parent)
             b == Select(is, parent)
             c == Select(indices \o is, parent)
  <2>1. /\ a \in Seq(Nat) /\ Len(a) = Len(indices)
        /\ \A i \in 1 .. Len(indices) : a[i] = parent[indices[i] + 1]
    BY <1>1, SelectType
  <2>2. /\ b \in Seq(Nat) /\ Len(b) = Len(is)
        /\ \A i \in 1 .. Len(is) : b[i] = parent[is[i] + 1]
    BY <1>1, <1>2, SelectType
  <2>3. /\ indices \o is \in Seq(0 .. (n - 1))
        /\ Len(indices \o is) = Len(indices) + Len(is)
        /\ \A i \in 1 .. Len(indices) + Len(is) : (indices \o is)[i] =
             IF i <= Len(indices) THEN indices[i] ELSE is[i - Len(indices)]
    BY <1>1, <1>2, ConcatProperties
  <2>4. /\ c \in Seq(Nat) /\ Len(c) = Len(indices) + Len(is)
        /\ \A i \in 1 .. Len(c) : c[i] = parent[(indices \o is)[i] + 1]
    BY <1>1, <2>3, SelectType
  <2> HIDE DEF a, b, c
  <2>5. Len(indices) \in Nat /\ Len(is) \in Nat
    BY <1>1, <1>2
  <2>6. /\ a \o b \in Seq(Nat) /\ Len(a \o b) = Len(c)
        /\ \A i \in 1 .. Len(c) : (a \o b)[i] =
             IF i <= Len(indices) THEN a[i] ELSE b[i - Len(indices)]
    <3>1. /\ Len(a \o b) = Len(a) + Len(b)
          /\ \A i \in 1 .. Len(a) + Len(b) :
               (a \o b)[i] = IF i <= Len(a) THEN a[i] ELSE b[i - Len(a)]
      <4>1. a \in Seq(Nat) /\ b \in Seq(Nat)
        BY <2>1, <2>2
      <4> QED
        BY <4>1, ConcatProperties
    <3>2. a \o b \in Seq(Nat)
      BY <2>1, <2>2
    <3>3. Len(c) = Len(a) + Len(b)
      BY <2>1, <2>2, <2>4
    <3> QED
      BY <2>1, <3>1, <3>2, <3>3
  <2>7. \A i \in 1 .. Len(c) : (a \o b)[i] = c[i]
    <3> TAKE i \in 1 .. Len(c)
    <3>1. CASE i <= Len(indices)
      <4>1. (a \o b)[i] = a[i] /\ (indices \o is)[i] = indices[i]
        BY <2>3, <2>4, <2>6, <3>1
      <4>2. i \in 1 .. Len(indices)
        BY <2>4, <2>5, <3>1
      <4>3. a[i] = parent[indices[i] + 1]
        BY <2>1, <4>2
      <4>4. c[i] = parent[indices[i] + 1]
        BY <2>4, <4>1
      <4> QED
        BY <4>1, <4>3, <4>4
    <3>2. CASE ~ i <= Len(indices)
      <4>1. (a \o b)[i] = b[i - Len(indices)]
        BY <2>6, <3>2
      <4>2. (indices \o is)[i] = is[i - Len(indices)]
        BY <2>3, <2>4, <3>2
      <4>3. i - Len(indices) \in 1 .. Len(is)
        BY <2>4, <2>5, <3>2
      <4> QED
        BY <2>2, <2>4, <4>1, <4>2, <4>3
    <3> QED
      BY <3>1, <3>2
  <2>8. a \o b = c
    BY <2>4, <2>6, <2>7, SeqEqual
  <2> QED
    BY <2>8 DEF a, b, c
<1> QED
  BY <1>1, <1>4, <1>5, <1>6 DEF IInv

(* The invariant says what a view shows. *)
LEMMA Shows == IInv => ViewsCompose
<1> SUFFICES ASSUME IInv, parent # <<>>
             PROVE  project_value(indices, Row) =
                      IF Len(nested) = 1 THEN nested[1] ELSE nested
  BY DEF ViewsCompose
<1>1. /\ parent \in Seq(Nat) /\ indices \in Seq(0 .. (Len(parent) - 1))
      /\ nested = Select(indices, parent)
  BY DEF IInv
<1>2. Row = parent
  BY <1>1 DEF Row
<1>3. /\ Len(nested) = Len(indices)
      /\ \A i \in 1 .. Len(indices) : nested[i] = parent[indices[i] + 1]
  BY <1>1, SelectType
<1> QED
  BY <1>1, <1>2, <1>3 DEF project_value

LEMMA Inductive == IInv /\ [Next]_vars => IInv'
<1> SUFFICES ASSUME IInv, [Next]_vars
             PROVE  IInv'
  OBVIOUS
<1>1. CASE \E s \in DOMAIN layout, is \in AnyIndices : Open(s, is)
  BY <1>1, OpenKeeps
<1>2. CASE \E is \in AnyIndices : SubView(is)
  BY <1>2, SubViewKeeps
<1>3. CASE \E is \in AnyIndices : Merge(is)
  BY <1>3, MergeKeeps
<1>4. CASE UNCHANGED vars
  BY <1>4 DEF IInv, vars, Select
<1> QED
  BY <1>1, <1>2, <1>3, <1>4 DEF Next

(* A view of a view, and of that another, and merges of them, show what    *)
(* they would if each had kept a tuple of its own: for layouts, chains and *)
(* lists of indices of any length.                                         *)
THEOREM ViewsAlwaysCompose == Spec => []ViewsCompose
BY Start, Inductive, Shows, PTL DEF Spec

(* Layouts of the same parameters are ordered by is_refinement_of as the   *)
(* partitions they stand for are.                                          *)
THEOREM RefinementAlwaysContained == Spec => []RefinementIsContained
<1>1. IInv => RefinementIsContained
  BY SameParametersContained DEF IInv, RefinementIsContained
<1> QED
  BY <1>1, Start, Inductive, PTL DEF Spec

-----------------------------------------------------------------------------
(* Sequences one after the other.                                          *)

(* A set of numbers has a least one. *)
LEMMA LeastNumber ==
  ASSUME NEW T \in SUBSET Nat, T # {}
  PROVE  \E x \in T : \A y \in T : x <= y
<1> DEFINE R == OpToRel(<, Nat)
<1>1. R = {ss \in Nat \X Nat : ss[1] < ss[2]}
  BY Zenon DEF OpToRel
<1>2. IsWellFoundedOn(R, Nat)
  BY NatLessThanWellFounded, Zenon
<1> HIDE DEF R
<1>3. PICK x \in T : \A y \in T : ~ (<<y, x>> \in R)
  BY <1>2, WFMin, Zenon
<1>4. \A y \in T : ~ (y < x)
  <2> TAKE y \in T
  <2>1. <<y, x>> \in Nat \X Nat /\ <<y, x>>[1] = y /\ <<y, x>>[2] = x
    OBVIOUS
  <2> QED
    BY <1>1, <1>3, <2>1
<1> QED
  BY <1>4

(* The first n rounds of FlattenSeq.                                       *)
FlattensTo(l, n, c) ==
  c = [i \in 1 .. n |-> IF i = 1 THEN l[i] ELSE c[i - 1] \o l[i]]

LEMMA FlattenExists ==
  ASSUME NEW l
  PROVE  \A n \in Nat : \E c : FlattensTo(l, n, c)
<1> DEFINE Bad == {n \in Nat : \A c : ~FlattensTo(l, n, c)}
<1> SUFFICES ASSUME Bad # {}
             PROVE  FALSE
  OBVIOUS
<1>1. PICK n \in Bad : \A m \in Bad : n <= m
  BY LeastNumber
<1>2. CASE n = 0
  <2>1. FlattensTo(l, 0, [i \in 1 .. 0 |-> <<>>])
    BY DEF FlattensTo
  <2> QED
    BY <1>1, <1>2, <2>1
<1>3. CASE n # 0
  <2>1. n \in Nat /\ n - 1 \in Nat /\ n - 1 \notin Bad
    BY <1>1, <1>3
  <2>2. PICK c : FlattensTo(l, n - 1, c)
    BY <2>1
  <2> DEFINE last == IF n = 1 THEN l[n] ELSE c[n - 1] \o l[n]
             d == [i \in 1 .. n |-> IF i = n THEN last ELSE c[i]]
  <2> HIDE DEF last
  <2>3. /\ \A i \in 1 .. n - 1 : d[i] = c[i]
        /\ d[n] = last
    <3>1. n \in 1 .. n /\ \A i \in 1 .. n - 1 : i \in 1 .. n /\ i # n
      BY <1>3, <2>1
    <3> QED
      BY <3>1
  <2>4. \A i \in 1 .. n - 1 : c[i] = IF i = 1 THEN l[i] ELSE c[i - 1] \o l[i]
    BY <2>2 DEF FlattensTo
  <2>5. \A i \in 1 .. n : d[i] = IF i = 1 THEN l[i] ELSE d[i - 1] \o l[i]
    <3> TAKE i \in 1 .. n
    <3> HIDE DEF d
    <3>1. CASE i = n
      <4>1. i # 1 => n - 1 \in 1 .. n - 1
        BY <2>1, <3>1
      <4> QED
        BY <2>3, <3>1, <4>1 DEF last
    <3>2. CASE i \in 1 .. n - 1
      <4>1. i # 1 => i - 1 \in 1 .. n - 1
        BY <2>1, <3>2
      <4> QED
        BY <2>3, <2>4, <3>2, <4>1
    <3> QED
      BY <2>1, <3>1, <3>2
  <2>6. FlattensTo(l, n, d)
    BY <2>5 DEF FlattensTo
  <2> QED
    BY <1>1, <2>6
<1> QED
  BY <1>2, <1>3

LEMMA FlattenRuns ==
  ASSUME NEW S, NEW l \in Seq(S), l # <<>>
  PROVE  \E c : FlattensTo(l, Len(l), c) /\ FlattenSeq(l) = c[Len(l)]
<1>1. Len(l) \in Nat /\ Len(l) # 0
  OBVIOUS
<1>2. PICK c : FlattensTo(l, Len(l), c)
  BY <1>1, FlattenExists
<1> DEFINE flatten[i \in 1 .. Len(l)] == IF i = 1 THEN l[i] ELSE flatten[i - 1] \o l[i]
<1>3. FlattenSeq(l) = flatten[Len(l)]
  BY <1>1 DEF FlattenSeq
<1>4. flatten = [i \in 1 .. Len(l) |-> IF i = 1 THEN l[i] ELSE flatten[i - 1] \o l[i]]
  BY <1>2 DEF FlattensTo, flatten
<1>5. FlattensTo(l, Len(l), flatten)
  BY <1>4 DEF FlattensTo
<1> HIDE DEF flatten
<1> QED
  BY <1>3, <1>5

(* x is the first n parts of a one after the other, y those of b, and what *)
(* is at a place of x is at the same place of its part.                    *)
SideBySide(a, b, n, x, y) ==
  /\ Len(x) = Len(y)
  /\ (\A s \in 1 .. n : Len(a[s]) = 1) => Len(x) = n
  /\ \A s \in 1 .. n : \A i \in 1 .. Len(a[s]) :
       \E k \in 1 .. Len(x) : x[k] = a[s][i] /\ y[k] = b[s][i]
  /\ \A k \in 1 .. Len(x) :
       \E s \in 1 .. n : \E i \in 1 .. Len(a[s]) : x[k] = a[s][i] /\ y[k] = b[s][i]

(* One more part. *)
LEMMA NextSideBySide ==
  ASSUME NEW A, NEW B, NEW a \in Seq(Seq(A)), NEW b \in Seq(Seq(B)),
         NEW n \in Nat, NEW x \in Seq(A), NEW y \in Seq(B),
         n + 1 \in 1 .. Len(a), Len(b) = Len(a), Len(a[n + 1]) = Len(b[n + 1]),
         SideBySide(a, b, n, x, y)
  PROVE  SideBySide(a, b, n + 1, x \o a[n + 1], y \o b[n + 1])
<1> DEFINE u == a[n + 1]
           v == b[n + 1]
           xu == x \o u
           yv == y \o v
<1>1. /\ u \in Seq(A) /\ v \in Seq(B) /\ Len(u) = Len(v)
      /\ Len(x) \in Nat /\ Len(u) \in Nat /\ Len(x) = Len(y)
  <2>1. n + 1 \in DOMAIN a /\ n + 1 \in DOMAIN b
    OBVIOUS
  <2>2. u \in Seq(A) /\ v \in Seq(B)
    <3>1. a \in [DOMAIN a -> Seq(A)] /\ b \in [DOMAIN b -> Seq(B)]
      OBVIOUS
    <3> QED
      BY <2>1, <3>1
  <2>3. Len(x) = Len(y)
    BY DEF SideBySide
  <2> HIDE DEF u, v
  <2>4. Len(x) \in Nat /\ Len(u) \in Nat
    BY <2>2
  <2> QED
    BY <2>2, <2>3, <2>4 DEF u, v
<1> HIDE DEF u, v
<1>2. /\ Len(xu) = Len(x) + Len(u)
      /\ \A k \in 1 .. Len(x) + Len(u) :
           xu[k] = IF k <= Len(x) THEN x[k] ELSE u[k - Len(x)]
  BY <1>1, ConcatProperties
<1>3. /\ Len(yv) = Len(x) + Len(u)
      /\ \A k \in 1 .. Len(x) + Len(u) :
           yv[k] = IF k <= Len(x) THEN y[k] ELSE v[k - Len(x)]
  <2>1. /\ Len(y \o v) = Len(y) + Len(v)
        /\ \A k \in 1 .. Len(y) + Len(v) :
             (y \o v)[k] = IF k <= Len(y) THEN y[k] ELSE v[k - Len(y)]
    BY <1>1, ConcatProperties
  <2> QED
    BY <1>1, <2>1
<1> HIDE DEF xu, yv
<1>4. ASSUME \A s \in 1 .. n + 1 : Len(a[s]) = 1
      PROVE  Len(xu) = n + 1
  <2>1. Len(u) = 1
    BY <1>4 DEF u
  <2>2. Len(x) = n
    BY <1>4 DEF SideBySide
  <2> QED
    BY <1>2, <2>1, <2>2
<1>5. ASSUME NEW s \in 1 .. n + 1, NEW i \in 1 .. Len(a[s])
      PROVE  \E k \in 1 .. Len(xu) : xu[k] = a[s][i] /\ yv[k] = b[s][i]
  <2>1. CASE s \in 1 .. n
    <3>1. PICK k \in 1 .. Len(x) : x[k] = a[s][i] /\ y[k] = b[s][i]
      BY <2>1 DEF SideBySide
    <3>2. k \in 1 .. Len(xu) /\ xu[k] = x[k] /\ yv[k] = y[k]
      BY <1>1, <1>2, <1>3
    <3> QED
      BY <3>1, <3>2
  <2>2. CASE s = n + 1
    <3>1. i \in 1 .. Len(u)
      BY <2>2 DEF u
    <3>2. /\ Len(x) + i \in 1 .. Len(xu)
          /\ xu[Len(x) + i] = u[i] /\ yv[Len(x) + i] = v[i]
      <4>1. i \in Nat /\ i <= Len(u) /\ i >= 1
        BY <1>1, <3>1
      <4> DEFINE k == Len(x) + i
      <4>2. /\ k \in 1 .. Len(x) + Len(u) /\ ~ k <= Len(x)
            /\ k - Len(x) = i
        BY <1>1, <4>1
      <4> HIDE DEF k
      <4>3. k \in 1 .. Len(xu) /\ xu[k] = u[i] /\ yv[k] = v[i]
        BY <1>2, <1>3, <4>2
      <4> QED
        BY <4>3 DEF k
    <3> QED
      BY <2>2, <3>2 DEF u, v
  <2> QED
    BY <2>1, <2>2
<1>6. ASSUME NEW k \in 1 .. Len(xu)
      PROVE  \E s \in 1 .. n + 1 : \E i \in 1 .. Len(a[s]) :
               xu[k] = a[s][i] /\ yv[k] = b[s][i]
  <2>1. CASE k <= Len(x)
    <3>1. k \in 1 .. Len(x) /\ xu[k] = x[k] /\ yv[k] = y[k]
      BY <1>1, <1>2, <1>3, <2>1
    <3>2. PICK s \in 1 .. n : \E i \in 1 .. Len(a[s]) : x[k] = a[s][i] /\ y[k] = b[s][i]
      BY <3>1 DEF SideBySide
    <3>3. s \in 1 .. n + 1
      OBVIOUS
    <3> QED
      BY <3>1, <3>2, <3>3
  <2>2. CASE ~ k <= Len(x)
    <3>1. /\ k - Len(x) \in 1 .. Len(a[n + 1])
          /\ xu[k] = u[k - Len(x)] /\ yv[k] = v[k - Len(x)]
      BY <1>1, <1>2, <1>3, <2>2 DEF u
    <3>2. n + 1 \in 1 .. n + 1
      OBVIOUS
    <3> QED
      BY <3>1, <3>2 DEF u, v
  <2> QED
    BY <2>1, <2>2
<1>7. Len(xu) = Len(yv)
  BY <1>2, <1>3
<1>8. SideBySide(a, b, n + 1, xu, yv)
  BY <1>4, <1>5, <1>6, <1>7 DEF SideBySide
<1> QED
  BY <1>8 DEF xu, yv, u, v

(* Two lists of sequences of the same lengths, flattened, correspond place *)
(* by place.                                                               *)
LEMMA FlattenedSideBySide ==
  ASSUME NEW A, NEW B, NEW a \in Seq(Seq(A)), NEW b \in Seq(Seq(B)),
         a # <<>>, Len(b) = Len(a), \A s \in 1 .. Len(a) : Len(a[s]) = Len(b[s])
  PROVE  /\ FlattenSeq(a) \in Seq(A) /\ FlattenSeq(b) \in Seq(B)
         /\ SideBySide(a, b, Len(a), FlattenSeq(a), FlattenSeq(b))
<1> DEFINE N == Len(a)
<1>1. N \in Nat /\ N # 0 /\ b # <<>>
  OBVIOUS
<1>2. PICK c : FlattensTo(a, N, c) /\ FlattenSeq(a) = c[N]
  BY FlattenRuns
<1>3. PICK d : FlattensTo(b, N, d) /\ FlattenSeq(b) = d[N]
  BY <1>1, FlattenRuns
<1>4. \A i \in 1 .. N : /\ c[i] = IF i = 1 THEN a[i] ELSE c[i - 1] \o a[i]
                        /\ d[i] = IF i = 1 THEN b[i] ELSE d[i - 1] \o b[i]
  BY <1>2, <1>3 DEF FlattensTo
<1> DEFINE Good(n) == c[n] \in Seq(A) /\ d[n] \in Seq(B) /\ SideBySide(a, b, n, c[n], d[n])
           Bad == {n \in 1 .. N : ~ Good(n)}
<1>5. Bad = {}
  <2> SUFFICES ASSUME Bad # {}
               PROVE  FALSE
    OBVIOUS
  <2>1. Bad \in SUBSET Nat
    OBVIOUS
  <2>2. PICK n \in Bad : \A m \in Bad : n <= m
    BY <2>1, LeastNumber
  <2>3. n \in 1 .. N /\ ~ Good(n)
    BY <2>2
  <2>4. CASE n = 1
    <3>1. c[1] = a[1] /\ d[1] = b[1] /\ a[1] \in Seq(A) /\ b[1] \in Seq(B)
      BY <1>1, <1>4
    <3>2. SideBySide(a, b, 1, a[1], b[1])
      BY <1>1 DEF SideBySide
    <3> QED
      BY <2>3, <2>4, <3>1, <3>2
  <2>5. CASE n # 1
    <3> DEFINE m == n - 1
    <3>1. m \in 1 .. N /\ m \in Nat /\ m + 1 = n
      BY <2>3, <2>5
    <3>2. m \notin Bad
      BY <2>2, <3>1
    <3>3. Good(m)
      BY <3>1, <3>2
    <3>4. /\ c[n] = c[m] \o a[n] /\ d[n] = d[m] \o b[n]
          /\ a[n] \in Seq(A) /\ b[n] \in Seq(B)
      <4>1. n \in 1 .. Len(a) /\ n \in 1 .. Len(b) /\ n # 1
        BY <1>1, <2>3, <2>5
      <4>2. a[n] \in Seq(A) /\ b[n] \in Seq(B)
        BY <4>1
      <4> QED
        BY <1>4, <4>1, <4>2
    <3> HIDE DEF m
    <3>5. SideBySide(a, b, m + 1, c[m] \o a[m + 1], d[m] \o b[m + 1])
      BY <2>3, <3>1, <3>3, NextSideBySide
    <3>6. c[n] \in Seq(A) /\ d[n] \in Seq(B)
      BY <3>3, <3>4
    <3> QED
      BY <2>3, <3>1, <3>4, <3>5, <3>6
  <2> QED
    BY <2>4, <2>5
<1>6. Good(N)
  <2> HIDE DEF Good
  <2>1. N \in 1 .. N
    BY <1>1
  <2> QED
    BY <1>5, <2>1
<1> QED
  BY <1>2, <1>3, <1>6

-----------------------------------------------------------------------------
(* The arguments of the callback.                                          *)

(* What a source of a group stores and what comes out of it again.         *)
LEMMA StoredAndReturned ==
  ASSUME NEW g \in Seq(Nat), g # <<>>, NEW arg
  PROVE  /\ as_tuple(g, SourceValue(g, arg)) = [i \in 1 .. Len(g) |-> arg[g[i]]]
         /\ DOMAIN as_tuple(g, SourceValue(g, arg)) = 1 .. Len(g)
         /\ Len(as_tuple(g, SourceValue(g, arg))) = Len(g)
<1>1. Len(g) \in Nat /\ Len(g) # 0 /\ DOMAIN g = 1 .. Len(g)
  OBVIOUS
<1>2. CASE Len(g) = 1
  <2>1. as_tuple(g, SourceValue(g, arg)) = <<arg[g[1]]>>
    BY <1>2 DEF as_tuple, SourceValue
  <2>2. <<arg[g[1]]>> = [i \in 1 .. 1 |-> arg[g[i]]]
    OBVIOUS
  <2> QED
    BY <1>2, <2>1, <2>2
<1>3. CASE Len(g) # 1
  BY <1>1, <1>3 DEF as_tuple, SourceValue
<1> QED
  BY <1>2, <1>3

(* What is at a place of the layout's list of parameters is at the same    *)
(* place of the callback's arguments.                                      *)
LEMMA Unpacked ==
  ASSUME NEW l \in Layouts, NEW B, NEW values,
         \A s \in DOMAIN l : /\ as_tuple(l[s], values[s]) \in Seq(B)
                             /\ Len(as_tuple(l[s], values[s])) = Len(l[s])
  PROVE  /\ layout_unpack(l, values) \in Seq(B)
         /\ FlattenSeq(l) \in Seq(Nat)
         /\ SideBySide(l, [s \in DOMAIN l |-> as_tuple(l[s], values[s])], Len(l),
                       FlattenSeq(l), layout_unpack(l, values))
<1> DEFINE b == [s \in DOMAIN l |-> as_tuple(l[s], values[s])]
<1>1. l \in Seq(Seq(Nat)) /\ l # <<>> /\ DOMAIN l = 1 .. Len(l) /\ Len(l) \in Nat
  BY LayoutsAssumption
<1>2. b \in Seq(Seq(B)) /\ Len(b) = Len(l) /\ \A s \in 1 .. Len(l) : Len(l[s]) = Len(b[s])
  <2>1. b = [s \in 1 .. Len(l) |-> as_tuple(l[s], values[s])]
    BY <1>1
  <2>2. \A s \in 1 .. Len(l) : b[s] \in Seq(B) /\ Len(l[s]) = Len(b[s])
    BY <1>1, <2>1
  <2> HIDE DEF b
  <2>3. DOMAIN b = 1 .. Len(l)
    BY <2>1
  <2>4. b = [s \in 1 .. Len(l) |-> b[s]]
    BY <2>1
  <2> QED
    BY <1>1, <2>2, <2>3, <2>4
<1>3. layout_unpack(l, values) = FlattenSeq(b)
  BY DEF layout_unpack
<1> HIDE DEF b
<1>4. /\ FlattenSeq(l) \in Seq(Nat) /\ FlattenSeq(b) \in Seq(B)
      /\ SideBySide(l, b, Len(l), FlattenSeq(l), FlattenSeq(b))
  BY <1>1, <1>2, FlattenedSideBySide
<1> QED
  BY <1>3, <1>4 DEF b

(* In a layout that lists the parameters in order a parameter's number is  *)
(* its place.                                                              *)
LEMMA UnpackedInOrder ==
  ASSUME NEW l \in Layouts, InOrder(l), NEW B, NEW values,
         \A s \in DOMAIN l : /\ as_tuple(l[s], values[s]) \in Seq(B)
                             /\ Len(as_tuple(l[s], values[s])) = Len(l[s])
  PROVE  /\ layout_unpack(l, values) \in Seq(B)
         /\ Len(layout_unpack(l, values)) = Len(FlattenSeq(l))
         /\ \A s \in DOMAIN l : \A i \in DOMAIN l[s] :
              layout_unpack(l, values)[l[s][i] + 1] = as_tuple(l[s], values[s])[i]
         /\ \A k \in 1 .. Len(FlattenSeq(l)) :
              \E s \in DOMAIN l : \E i \in DOMAIN l[s] : k = l[s][i] + 1
<1> DEFINE b == [s \in DOMAIN l |-> as_tuple(l[s], values[s])]
           x == FlattenSeq(l)
           y == layout_unpack(l, values)
<1>1. /\ x \in Seq(Nat) /\ y \in Seq(B)
      /\ SideBySide(l, b, Len(l), x, y)
  BY Unpacked
<1>2. /\ DOMAIN l = 1 .. Len(l)
      /\ \A s \in DOMAIN l : DOMAIN l[s] = 1 .. Len(l[s]) /\ l[s] \in Seq(Nat)
  BY LayoutsAssumption
<1>3. \A k \in 1 .. Len(x) : x[k] = k - 1
  BY <1>1 DEF InOrder
<1>4. \A s \in DOMAIN l : b[s] = as_tuple(l[s], values[s])
  OBVIOUS
<1> HIDE DEF b, x, y
<1>5. ASSUME NEW s \in DOMAIN l, NEW i \in DOMAIN l[s]
      PROVE  y[l[s][i] + 1] = b[s][i]
  <2>1. PICK k \in 1 .. Len(x) : x[k] = l[s][i] /\ y[k] = b[s][i]
    BY <1>1, <1>2 DEF SideBySide
  <2>2. l[s][i] + 1 = k
    BY <1>1, <1>3, <2>1
  <2> QED
    BY <2>1, <2>2
<1>6. ASSUME NEW k \in 1 .. Len(x)
      PROVE  \E s \in DOMAIN l : \E i \in DOMAIN l[s] : k = l[s][i] + 1
  <2>1. PICK s \in 1 .. Len(l) : \E i \in 1 .. Len(l[s]) : x[k] = l[s][i]
    BY <1>1 DEF SideBySide
  <2>2. PICK i \in 1 .. Len(l[s]) : x[k] = l[s][i]
    BY <2>1
  <2>3. k = l[s][i] + 1
    BY <1>3, <2>2
  <2> QED
    BY <1>2, <2>2, <2>3
<1>7. Len(y) = Len(x)
  BY <1>1 DEF SideBySide
<1>8. \A s \in DOMAIN l : \A i \in DOMAIN l[s] :
        y[l[s][i] + 1] = as_tuple(l[s], values[s])[i]
  BY <1>4, <1>5
<1> QED
  BY <1>1, <1>6, <1>7, <1>8, Zenon DEF x, y

(* For layouts of any size: the callback gets what each parameter's source *)
(* holds for it, in the parameter's place.                                 *)
LEMMA EveryArgumentInPlace ==
  ASSUME NEW l \in Layouts
  PROVE  ArgumentsInPlace(l)
<1> DEFINE arg == [p \in ParamsOf(l) |-> <<p, source_index_of(p, l)>>]
           values == [s \in DOMAIN l |-> SourceValue(l[s], arg)]
           B == {arg[p] : p \in ParamsOf(l)}
<1>1. /\ \A s \in DOMAIN l : l[s] \in Seq(Nat) /\ l[s] # <<>> /\ DOMAIN l[s] = 1 .. Len(l[s])
      /\ \A s \in DOMAIN l : \A i \in DOMAIN l[s] : l[s][i] \in ParamsOf(l)
  BY LayoutsAssumption DEF ParamsOf, ToSet
<1>2. \A s \in DOMAIN l : \A i \in DOMAIN l[s] : arg[l[s][i]] = <<l[s][i], s - 1>>
  BY <1>1, BlockFound DEF source_index_of
<1>3. \A s \in DOMAIN l : \A i \in DOMAIN l[s] : arg[l[s][i]] \in B
  BY <1>1
<1> HIDE DEF arg, B
<1>4. ASSUME NEW s \in DOMAIN l
      PROVE  /\ as_tuple(l[s], values[s]) = [i \in 1 .. Len(l[s]) |-> arg[l[s][i]]]
             /\ as_tuple(l[s], values[s]) \in Seq(B)
             /\ Len(as_tuple(l[s], values[s])) = Len(l[s])
  <2>1. /\ as_tuple(l[s], values[s]) = [i \in 1 .. Len(l[s]) |-> arg[l[s][i]]]
        /\ Len(as_tuple(l[s], values[s])) = Len(l[s])
    BY <1>1, StoredAndReturned
  <2>2. Len(l[s]) \in Nat
    BY <1>1
  <2>3. \A i \in 1 .. Len(l[s]) : arg[l[s][i]] \in B
    BY <1>1, <1>3
  <2> QED
    BY <2>1, <2>2, <2>3
<1>5. ASSUME InOrder(l), NEW s \in DOMAIN l, NEW i \in DOMAIN l[s]
      PROVE  layout_unpack(l, values)[l[s][i] + 1] = <<l[s][i], s - 1>>
  <2> HIDE DEF values
  <2>1. \A t \in DOMAIN l : \A j \in DOMAIN l[t] :
          layout_unpack(l, values)[l[t][j] + 1] = as_tuple(l[t], values[t])[j]
    <3>1. \A t \in DOMAIN l : /\ as_tuple(l[t], values[t]) \in Seq(B)
                             /\ Len(as_tuple(l[t], values[t])) = Len(l[t])
      BY <1>4
    <3> QED
      BY <1>5, <3>1, UnpackedInOrder
  <2>2. layout_unpack(l, values)[l[s][i] + 1] = as_tuple(l[s], values[s])[i]
    BY <2>1
  <2>3. as_tuple(l[s], values[s])[i] = arg[l[s][i]]
    BY <1>1, <1>4
  <2> QED
    BY <1>2, <2>2, <2>3
<1> QED
  BY <1>5 DEF ArgumentsInPlace, arg

(* The callback of every join gets its arguments in place, whatever its    *)
(* layout, if that lists the parameters in order.                          *)
THEOREM ArgumentsAlwaysInPlace == Spec => []CallsInPlace
<1>1. IInv => CallsInPlace
  BY EveryArgumentInPlace DEF IInv, CallsInPlace
<1> QED
  BY <1>1, Start, Inductive, PTL DEF Spec

-----------------------------------------------------------------------------
(* The arguments of a call of make_reactive.                               *)

(* They are a layout or none, a list of policies or none, and the types ts *)
(* or none: the first lo are a layout, the first h a layout and policies.  *)
Spelled(xs, lo, h, Ps, ts) ==
  /\ lo \in Nat /\ lo <= 1 /\ h \in Nat /\ (h = lo \/ h = lo + 1)
  /\ Len(ts) \in Nat /\ DOMAIN ts = 1 .. Len(ts)
  /\ \E S : xs \in Seq(S)
  /\ Len(xs) = h + Len(ts) /\ DOMAIN xs = 1 .. (h + Len(ts))
  /\ lo = 1 => xs[1] = <<"layout", layout>>
  /\ h # lo => xs[h] = <<"policies", Ps>>
  /\ \A i \in 1 .. Len(ts) : xs[h + i] = <<"type", ts[i]>>

(* A list of at most one element. *)
LEMMA AtMostOne ==
  ASSUME NEW x, NEW l \in {<<>>, <<x>>}, NEW S, x \in S
  PROVE  /\ l \in Seq(S) /\ Len(l) \in Nat /\ Len(l) <= 1
         /\ Len(l) = 1 => l[1] = x
<1>1. CASE l = <<>>
  BY <1>1
<1>2. CASE l = <<x>>
  BY <1>2
<1> QED
  BY <1>1, <1>2

(* Three lists one after the other. *)
LEMMA ThreeParts ==
  ASSUME NEW S, NEW l \in Seq(S), NEW p \in Seq(S), NEW t \in Seq(S)
  PROVE  /\ Len(l) \in Nat /\ Len(p) \in Nat /\ Len(t) \in Nat
         /\ l \o p \o t \in Seq(S)
         /\ Len(l \o p \o t) = Len(l) + Len(p) + Len(t)
         /\ DOMAIN (l \o p \o t) = 1 .. (Len(l) + Len(p) + Len(t))
         /\ \A i \in 1 .. Len(l) : (l \o p \o t)[i] = l[i]
         /\ \A i \in 1 .. Len(p) : (l \o p \o t)[Len(l) + i] = p[i]
         /\ \A i \in 1 .. Len(t) : (l \o p \o t)[Len(l) + Len(p) + i] = t[i]
<1> DEFINE q == l \o p
           xs == q \o t
           n == Len(l)
           m == Len(p)
           k == Len(t)
<1>1. n \in Nat /\ m \in Nat /\ k \in Nat
  OBVIOUS
<1>2. /\ q \in Seq(S) /\ Len(q) = n + m
      /\ \A i \in 1 .. (n + m) : q[i] = IF i <= n THEN l[i] ELSE p[i - n]
  BY ConcatProperties
<1> HIDE DEF q
<1>3. /\ xs \in Seq(S) /\ Len(xs) = n + m + k
      /\ \A i \in 1 .. (n + m + k) : xs[i] = IF i <= n + m THEN q[i] ELSE t[i - (n + m)]
  <2>1. /\ xs \in Seq(S) /\ Len(xs) = Len(q) + k
        /\ \A i \in 1 .. (Len(q) + k) : xs[i] = IF i <= Len(q) THEN q[i] ELSE t[i - Len(q)]
    <3>1. q \in Seq(S)
      BY <1>2
    <3> QED
      BY <3>1, ConcatProperties
  <2> QED
    BY <1>2, <2>1
<1>4. DOMAIN xs = 1 .. (n + m + k)
  BY <1>3
<1> HIDE DEF xs, n, m, k
<1>5. ASSUME NEW i \in 1 .. n
      PROVE  xs[i] = l[i]
  <2>1. i \in 1 .. (n + m) /\ i \in 1 .. (n + m + k) /\ i <= n /\ i <= n + m
    BY <1>1
  <2> QED
    BY <1>2, <1>3, <2>1
<1>6. ASSUME NEW i \in 1 .. m
      PROVE  xs[n + i] = p[i]
  <2> DEFINE j == n + i
  <2>1. /\ j \in 1 .. (n + m) /\ j \in 1 .. (n + m + k) /\ ~ j <= n /\ j <= n + m
        /\ j - n = i
    BY <1>1
  <2> HIDE DEF j
  <2>2. xs[j] = p[i]
    BY <1>2, <1>3, <2>1
  <2> QED
    BY <2>2 DEF j
<1>7. ASSUME NEW i \in 1 .. k
      PROVE  xs[n + m + i] = t[i]
  <2> DEFINE j == n + m + i
  <2>1. j \in 1 .. (n + m + k) /\ ~ j <= n + m /\ j - (n + m) = i
    BY <1>1
  <2> HIDE DEF j
  <2>2. xs[j] = t[i]
    BY <1>3, <2>1
  <2> QED
    BY <2>2 DEF j
<1> QED
  BY <1>1, <1>3, <1>4, <1>5, <1>6, <1>7 DEF xs, q, n, m, k

LEMMA WrittenIsSpelled ==
  ASSUME NEW xs \in Written
  PROVE  \E lo, h, Ps, ts : Spelled(xs, lo, h, Ps, ts)
<1> DEFINE L == <<"layout", layout>>
           P(Ps) == <<"policies", Ps>>
<1>1. PICK l \in WrittenLayout, p \in WrittenPolicies, t \in WrittenTypes :
        xs = l \o p \o t
  BY DEF Written
<1>3. PICK Ps : p \in {<<>>, <<P(Ps)>>}
  BY <1>1 DEF WrittenPolicies
<1>4. \E ts : /\ Len(ts) \in Nat /\ DOMAIN ts = 1 .. Len(ts)
              /\ t = [i \in 1 .. Len(ts) |-> <<"type", ts[i]>>]
  <2>1. CASE t = <<>>
    <3>1. Len(<<>>) \in Nat /\ DOMAIN <<>> = 1 .. Len(<<>>)
          /\ t = [i \in 1 .. Len(<<>>) |-> <<"type", <<>>[i]>>]
      BY <2>1
    <3> QED
      BY <3>1
  <2>2. CASE t # <<>>
    <3>1. PICK ts \in StorageLists : t = [i \in DOMAIN ts |-> <<"type", ts[i]>>]
      BY <1>1, <2>2 DEF WrittenTypes
    <3>2. Len(ts) \in Nat /\ DOMAIN ts = 1 .. Len(ts)
      BY MakeAssumption
    <3> QED
      BY <3>1, <3>2
  <2> QED
    BY <2>1, <2>2
<1>5. PICK ts : /\ Len(ts) \in Nat /\ DOMAIN ts = 1 .. Len(ts)
                /\ t = [i \in 1 .. Len(ts) |-> <<"type", ts[i]>>]
  BY <1>4
<1> HIDE DEF L, P
<1> DEFINE S == {L, P(Ps)} \cup {t[i] : i \in 1 .. Len(ts)}
<1>6. /\ l \in Seq(S) /\ Len(l) \in Nat /\ Len(l) <= 1
      /\ Len(l) = 1 => l[1] = L
  <2>1. L \in S
    OBVIOUS
  <2> HIDE DEF S
  <2> QED
    BY <1>1, <2>1, AtMostOne DEF WrittenLayout, L
<1>7. /\ p \in Seq(S) /\ Len(p) \in Nat /\ Len(p) <= 1
      /\ Len(p) = 1 => p[1] = P(Ps)
  <2>1. P(Ps) \in S
    OBVIOUS
  <2> HIDE DEF S
  <2> QED
    BY <1>3, <2>1, AtMostOne
<1>8. t \in Seq(S) /\ Len(t) = Len(ts)
  <2>1. \A i \in 1 .. Len(ts) : t[i] \in S
    OBVIOUS
  <2> HIDE DEF S
  <2> QED
    BY <1>5, <2>1
<1> HIDE DEF S
<1> DEFINE n == Len(l)
           m == Len(p)
<1>9. /\ xs \in Seq(S) /\ Len(xs) = n + m + Len(ts)
      /\ DOMAIN xs = 1 .. (n + m + Len(ts))
      /\ \A i \in 1 .. n : xs[i] = l[i]
      /\ \A i \in 1 .. m : xs[n + i] = p[i]
      /\ \A i \in 1 .. Len(ts) : xs[n + m + i] = <<"type", ts[i]>>
  BY <1>1, <1>5, <1>6, <1>7, <1>8, ThreeParts
<1>10. Spelled(xs, n, n + m, Ps, ts)
  <2> HIDE DEF n, m
  <2>1. n \in Nat /\ n <= 1 /\ n + m \in Nat /\ (n + m = n \/ n + m = n + 1)
    BY <1>6, <1>7 DEF n, m
  <2>2. n = 1 => xs[1] = L
    <3> SUFFICES ASSUME n = 1
                 PROVE  xs[1] = L
      OBVIOUS
    <3>1. 1 \in 1 .. n
      OBVIOUS
    <3>2. l[1] = L
      BY <1>6 DEF n
    <3> QED
      BY <1>9, <3>1, <3>2
  <2>3. n + m # n => xs[n + m] = P(Ps)
    <3> SUFFICES ASSUME n + m # n
                 PROVE  xs[n + m] = P(Ps)
      OBVIOUS
    <3>1. m = 1
      <4>1. n \in Nat /\ m \in Nat /\ m <= 1
        BY <1>6, <1>7 DEF n, m
      <4> QED
        BY <4>1
    <3>2. p[1] = P(Ps)
      BY <1>7, <3>1 DEF m
    <3>3. 1 \in 1 .. m
      BY <3>1
    <3>4. xs[n + 1] = p[1]
      BY <1>9, <3>3
    <3> QED
      BY <3>1, <3>2, <3>4
  <2> QED
    BY <1>5, <1>9, <2>1, <2>2, <2>3 DEF Spelled, L, P
<1> QED
  BY <1>10

(* What kind of argument stands where.                                     *)
LEMMA KindOfArgument ==
  ASSUME NEW xs, NEW lo, NEW h, NEW Ps, NEW ts, Spelled(xs, lo, h, Ps, ts)
  PROVE  /\ \A i \in DOMAIN xs : IsLayout(xs[i]) <=> lo = 1 /\ i = 1
         /\ \A i \in DOMAIN xs : IsPolicies(xs[i]) <=> h # lo /\ i = h
         /\ \A i \in DOMAIN xs : IsType(xs[i]) <=> i > h
<1>1. /\ lo \in Nat /\ lo <= 1 /\ h \in Nat /\ (h = lo \/ h = lo + 1) /\ Len(ts) \in Nat
      /\ DOMAIN xs = 1 .. (h + Len(ts))
  BY DEF Spelled
<1>2. ASSUME NEW i \in DOMAIN xs
      PROVE  /\ IsLayout(xs[i]) <=> lo = 1 /\ i = 1
             /\ IsPolicies(xs[i]) <=> h # lo /\ i = h
             /\ IsType(xs[i]) <=> i > h
  <2>1. CASE i > h
    <3> DEFINE k == i - h
    <3>1. k \in 1 .. Len(ts) /\ i = h + k
      BY <1>1, <2>1
    <3>2. xs[i] = <<"type", ts[k]>>
      BY <3>1 DEF Spelled
    <3>3. ~ IsLayout(xs[i]) /\ ~ IsPolicies(xs[i]) /\ IsType(xs[i])
      BY <3>2 DEF IsLayout, IsPolicies, IsType
    <3>4. ~ (lo = 1 /\ i = 1) /\ i # h
      BY <1>1, <2>1
    <3> QED
      BY <2>1, <3>3, <3>4
  <2>2. CASE i = h /\ h # lo
    <3>1. xs[i] = <<"policies", Ps>>
      BY <2>2 DEF Spelled
    <3>2. ~ IsLayout(xs[i]) /\ IsPolicies(xs[i]) /\ ~ IsType(xs[i])
      BY <3>1 DEF IsLayout, IsPolicies, IsType
    <3>3. ~ (lo = 1 /\ i = 1) /\ ~ i > h
      BY <1>1, <2>2
    <3> QED
      BY <2>2, <3>2, <3>3
  <2>3. CASE i <= h /\ ~ (i = h /\ h # lo)
    <3>1. i = 1 /\ lo = 1 /\ ~ i > h
      BY <1>1, <2>3
    <3>2. xs[i] = <<"layout", layout>>
      BY <3>1 DEF Spelled
    <3>3. IsLayout(xs[i]) /\ ~ IsPolicies(xs[i]) /\ ~ IsType(xs[i])
      BY <3>2 DEF IsLayout, IsPolicies, IsType
    <3> QED
      BY <2>3, <3>1, <3>3
  <2>4. i \in Nat
    BY <1>1
  <2>5. i > h \/ i <= h
    BY <1>1, <2>4
  <2> QED
    BY <2>1, <2>2, <2>3, <2>5, Zenon
<1> QED
  BY <1>2

(* The type a call names for a parameter.                                  *)
LEMMA WantedIs ==
  ASSUME NEW xs, NEW lo, NEW h, NEW Ps, NEW ts, Spelled(xs, lo, h, Ps, ts),
         NEW f, NEW p
  PROVE  /\ Len(ts) = 0 => Wanted(f, xs, p) = f[p + 1].type
         /\ p \in 0 .. (Len(ts) - 1) => Wanted(f, xs, p) = ts[p + 1]
<1> DEFINE named == {j \in DOMAIN xs : IsType(xs[j])}
<1>1. h \in Nat /\ Len(ts) \in Nat /\ DOMAIN xs = 1 .. (h + Len(ts))
  BY DEF Spelled
<1>2. named = (h + 1) .. (h + Len(ts))
  <2>1. \A i \in DOMAIN xs : IsType(xs[i]) <=> i > h
    BY KindOfArgument
  <2>2. \A i : i \in DOMAIN xs /\ i > h <=> i \in (h + 1) .. (h + Len(ts))
    BY <1>1
  <2>3. \A i : i \in named <=> i \in (h + 1) .. (h + Len(ts))
    BY <2>1, <2>2
  <2> HIDE DEF named
  <2> QED
    BY <2>3
<1>3. ASSUME Len(ts) = 0
      PROVE  Wanted(f, xs, p) = f[p + 1].type
  <2> HIDE DEF named
  <2>1. named = {}
    BY <1>1, <1>2, <1>3
  <2> QED
    BY <2>1 DEF Wanted, named
<1>4. ASSUME p \in 0 .. (Len(ts) - 1)
      PROVE  Wanted(f, xs, p) = ts[p + 1]
  <2> DEFINE nth == CHOOSE j \in named : Cardinality({k \in named : k < j}) = p
  <2> HIDE DEF named
  <2>1. ASSUME NEW j \in named
        PROVE  Cardinality({k \in named : k < j}) = j - (h + 1)
    <3>1. h + 1 \in Int /\ j - 1 \in Int /\ j >= h + 1
      BY <1>1, <1>2, <2>1
    <3>2. {k \in named : k < j} = (h + 1) .. (j - 1)
      BY <1>1, <1>2, <2>1
    <3>3. Cardinality((h + 1) .. (j - 1)) =
            IF h + 1 > j - 1 THEN 0 ELSE (j - 1) - (h + 1) + 1
      BY <3>1, FS_Interval
    <3>4. j \in Int
      BY <1>1, <1>2, <2>1
    <3>5. (IF h + 1 > j - 1 THEN 0 ELSE (j - 1) - (h + 1) + 1) = j - (h + 1)
      BY <1>1, <3>1, <3>4
    <3> QED
      BY <3>2, <3>3, <3>5
  <2>2. h + 1 + p \in named /\ (h + 1 + p) - (h + 1) = p
    BY <1>1, <1>2, <1>4
  <2>3. nth \in named /\ Cardinality({k \in named : k < nth}) = p
    <3>1. \E j \in named : Cardinality({k \in named : k < j}) = p
      BY <2>1, <2>2
    <3> QED
      BY <3>1
  <2> HIDE DEF nth
  <2>4. nth = h + (p + 1)
    <3>1. nth - (h + 1) = p /\ nth \in Int
      BY <1>1, <1>2, <2>1, <2>3
    <3> QED
      BY <1>1, <1>4, <3>1
  <2>5. p + 1 \in 1 .. Len(ts)
    BY <1>1, <1>4
  <2>6. xs[nth] = <<"type", ts[p + 1]>>
    BY <2>4, <2>5 DEF Spelled
  <2>7. Wanted(f, xs, p) = xs[nth][2]
    <3>1. named # {}
      BY <2>2
    <3> QED
      BY <3>1 DEF Wanted, nth, named
  <2> QED
    BY <2>6, <2>7
<1> QED
  BY <1>3, <1>4

(* The policy a call names for a source.                                   *)
LEMMA WantedPolicyIs ==
  ASSUME NEW xs, NEW lo, NEW h, NEW Ps, NEW ts, Spelled(xs, lo, h, Ps, ts), NEW s
  PROVE  /\ h = lo => WantedPolicy(xs, s) = RetainLatest
         /\ h # lo => WantedPolicy(xs, s) = resolve_source(Ps[s])
<1> DEFINE named == {a \in ToSet(xs) : IsPolicies(a)}
<1>1. \A i \in DOMAIN xs : IsPolicies(xs[i]) <=> h # lo /\ i = h
  BY KindOfArgument
<1>2. \A a \in ToSet(xs) : \E i \in DOMAIN xs : a = xs[i]
  BY DEF ToSet
<1>3. CASE h = lo
  <2>1. named = {}
    BY <1>1, <1>2, <1>3
  <2> QED
    BY <1>3, <2>1 DEF WantedPolicy
<1>4. CASE h # lo
  <2>1. h \in DOMAIN xs /\ xs[h] = <<"policies", Ps>>
    <3>1. xs[h] = <<"policies", Ps>>
      BY <1>4, Zenon DEF Spelled
    <3>2. /\ lo \in Nat /\ h \in Nat /\ (h = lo \/ h = lo + 1)
          /\ Len(ts) \in Nat /\ DOMAIN xs = 1 .. (h + Len(ts))
      BY DEF Spelled
    <3>3. h \in DOMAIN xs
      BY <1>4, <3>2
    <3> QED
      BY <3>1, <3>3
  <2>2. xs[h] \in named
    BY <1>1, <1>4, <2>1 DEF ToSet
  <2>3. \A a \in named : a = xs[h]
    BY <1>1, <1>2
  <2>4. named = {<<"policies", Ps>>}
    BY <2>1, <2>2, <2>3
  <2> HIDE DEF named
  <2>5. (CHOOSE a \in named : TRUE) = <<"policies", Ps>>
    BY <2>4
  <2>6. named # {} /\ <<"policies", Ps>>[2][s] = Ps[s]
    BY <2>4
  <2> QED
    BY <1>4, <2>5, <2>6 DEF WantedPolicy, resolve_source, named
<1> QED
  BY <1>3, <1>4
-----------------------------------------------------------------------------
(* A join and the call it was made by.                                     *)

(* Sources of values of the wanted types hold the wanted values.           *)
LEMMA ValuesFit ==
  ASSUME layout \in Layouts, NEW f \in Callbacks, NEW xs, NEW params,
         Len(params) = arity(f), ParamsOf(layout) \subseteq 0 .. (arity(f) - 1),
         \A p \in 0 .. (arity(f) - 1) : params[p + 1] = Wanted(f, xs, p),
         NEW s \in DOMAIN layout
  PROVE  as_tuple(layout[s], source_value_type(layout[s], params)) =
           [i \in DOMAIN layout[s] |-> Wanted(f, xs, layout[s][i])]
<1> DEFINE g == layout[s]
           arg == [p \in 0 .. (Len(params) - 1) |-> params[p + 1]]
<1>1. /\ g \in Seq(Nat) /\ g # <<>> /\ DOMAIN g = 1 .. Len(g)
      /\ \A i \in DOMAIN g : g[i] \in ParamsOf(layout)
  BY LayoutsAssumption DEF ParamsOf, ToSet
<1>2. \A i \in DOMAIN g : g[i] \in 0 .. (arity(f) - 1)
  BY <1>1
<1>3. \A i \in DOMAIN g : arg[g[i]] = Wanted(f, xs, g[i])
  BY <1>2
<1>4. source_value_type(g, params) = SourceValue(g, arg)
  BY DEF source_value_type
<1> HIDE DEF g, arg
<1>5. as_tuple(g, SourceValue(g, arg)) = [i \in 1 .. Len(g) |-> arg[g[i]]]
  BY <1>1, StoredAndReturned
<1>6. as_tuple(g, SourceValue(g, arg)) = [i \in DOMAIN g |-> Wanted(f, xs, g[i])]
  BY <1>1, <1>3, <1>5
<1> QED
  BY <1>4, <1>6 DEF g

(* rest is the storage types ts of a call. *)
AreTypes(rest, ts) ==
  /\ \E S : rest \in Seq(S)
  /\ Len(rest) = Len(ts)
  /\ \A i \in 1 .. Len(ts) : rest[i] = <<"type", ts[i]>>

(* The types of a call are the wanted ones.                                *)
LEMMA TypesFit ==
  ASSUME NEW xs, NEW lo, NEW h, NEW Ps, NEW ts, Spelled(xs, lo, h, Ps, ts),
         NEW f \in Callbacks, Len(ts) = 0 \/ Len(ts) = arity(f),
         NEW rest, AreTypes(rest, ts)
  PROVE  /\ Len(Storage(f, rest)) = arity(f)
         /\ \A p \in 0 .. (arity(f) - 1) : Storage(f, rest)[p + 1] = Wanted(f, xs, p)
<1>1. PICK S : rest \in Seq(S)
  BY DEF AreTypes
<1>2. /\ arity(f) \in Nat /\ DOMAIN f = 1 .. arity(f) /\ Len(ts) \in Nat
      /\ Len(rest) = Len(ts) /\ \A i \in 1 .. Len(ts) : rest[i] = <<"type", ts[i]>>
  BY MakeAssumption DEF arity, Spelled, AreTypes
<1>3. \A p \in 0 .. (arity(f) - 1) : p + 1 \in 1 .. arity(f)
  BY <1>2
<1>4. CASE Len(ts) = 0
  <2>1. rest = <<>>
    BY <1>1, <1>2, <1>4, EmptySeq
  <2>2. Storage(f, rest) = [i \in 1 .. arity(f) |-> f[i].type]
    BY <1>2, <2>1 DEF Storage, decayed_params_tuple, decay_arg_t
  <2>3. \A p : Wanted(f, xs, p) = f[p + 1].type
    BY <1>4, WantedIs
  <2>4. Len(Storage(f, rest)) = arity(f)
    BY <1>2, <2>2
  <2>5. \A p \in 0 .. (arity(f) - 1) : Storage(f, rest)[p + 1] = f[p + 1].type
    BY <1>3, <2>2
  <2> QED
    BY <2>3, <2>4, <2>5
<1>5. CASE Len(ts) # 0
  <2>1. rest # <<>> /\ DOMAIN rest = 1 .. arity(f) /\ Len(ts) = arity(f)
    BY <1>1, <1>2, <1>5, EmptySeq
  <2>2. Storage(f, rest) = [i \in 1 .. arity(f) |-> rest[i][2]]
    BY <2>1 DEF Storage, TypeList
  <2>3. \A i \in 1 .. arity(f) : rest[i][2] = ts[i]
    BY <1>2, <2>1
  <2>4. ASSUME NEW p \in 0 .. (arity(f) - 1)
        PROVE  Wanted(f, xs, p) = ts[p + 1]
    <3>1. p \in 0 .. (Len(ts) - 1)
      BY <2>1
    <3> QED
      BY <3>1, WantedIs
  <2>5. Len(Storage(f, rest)) = arity(f)
    BY <1>2, <2>2
  <2>6. \A p \in 0 .. (arity(f) - 1) : Storage(f, rest)[p + 1] = ts[p + 1]
    BY <1>3, <2>2, <2>3
  <2> QED
    BY <2>4, <2>5, <2>6
<1> QED
  BY <1>4, <1>5

(* What a call asks for. *)
AsAsked(f, xs, sources) ==
  /\ param_count(layout) = arity(f)
  /\ \A s \in DOMAIN layout :
       /\ sources[s].policy = WantedPolicy(xs, s)
       /\ as_tuple(layout[s], sources[s].value) =
            [i \in DOMAIN layout[s] |-> Wanted(f, xs, layout[s][i])]

(* Sources of the call's types, with its policies, are what it asks for.   *)
LEMMA SourcesAsAsked ==
  ASSUME layout \in Layouts, NEW xs, NEW lo, NEW h, NEW Ps, NEW ts,
         Spelled(xs, lo, h, Ps, ts), NEW f \in Callbacks,
         Len(ts) = 0 \/ Len(ts) = arity(f), NEW rest, AreTypes(rest, ts),
         param_count(layout) = arity(f), ParamsOf(layout) \subseteq 0 .. (arity(f) - 1),
         NEW sources,
         \/ h = lo /\ sources = make_sources(layout, Storage(f, rest))
         \/ h # lo /\ sources = make_sources_with_policies(layout, Storage(f, rest), Ps)
  PROVE  AsAsked(f, xs, sources)
<1> DEFINE params == Storage(f, rest)
<1>1. /\ Len(params) = arity(f)
      /\ \A p \in 0 .. (arity(f) - 1) : params[p + 1] = Wanted(f, xs, p)
  BY TypesFit
<1> HIDE DEF params
<1>2. ASSUME NEW s \in DOMAIN layout
      PROVE  /\ sources[s].value = source_value_type(layout[s], params)
             /\ sources[s].policy = WantedPolicy(xs, s)
  <2>1. CASE h = lo /\ sources = make_sources(layout, params)
    <3>1. WantedPolicy(xs, s) = RetainLatest
      BY <2>1, WantedPolicyIs
    <3> QED
      BY <2>1, <3>1 DEF make_sources
  <2>2. CASE h # lo /\ sources = make_sources_with_policies(layout, params, Ps)
    <3>1. WantedPolicy(xs, s) = resolve_source(Ps[s])
      BY <2>2, WantedPolicyIs
    <3> QED
      BY <2>2, <3>1 DEF make_sources_with_policies
  <2> QED
    BY <2>1, <2>2 DEF params
<1>3. \A s \in DOMAIN layout : as_tuple(layout[s], source_value_type(layout[s], params)) =
            [i \in DOMAIN layout[s] |-> Wanted(f, xs, layout[s][i])]
  <2> TAKE s \in DOMAIN layout
  <2> QED
    BY <1>1, ValuesFit
<1> QED
  BY <1>2, <1>3 DEF AsAsked

(* The default layout has as many parameters as groups.                    *)
LEMMA DefaultCount ==
  ASSUME NEW n \in Nat, layout \in Layouts, layout = DefaultLayout(n)
  PROVE  param_count(layout) = n
<1>1. layout \in Seq(Seq(Nat)) /\ layout # <<>>
  BY LayoutsAssumption
<1>2. Len(layout) = n /\ \A s \in 1 .. n : Len(layout[s]) = 1
  BY DEF DefaultLayout
<1>3. SideBySide(layout, layout, Len(layout), FlattenSeq(layout), FlattenSeq(layout))
  BY <1>1, FlattenedSideBySide
<1> QED
  BY <1>2, <1>3 DEF SideBySide, param_count

(* The join of a step is the one its call asks for.                        *)
MadeAsAsked(f, xs) ==
  \E sources : /\ join' = [layout |-> layout, sources |-> sources]
               /\ AsAsked(f, xs, sources)

(* Everything deduced. *)
LEMMA DeducedAsAsked ==
  ASSUME layout \in Layouts, NEW xs, NEW lo, NEW h, NEW Ps, NEW ts,
         Spelled(xs, lo, h, Ps, ts), NEW f \in Callbacks, Deduced(f, xs)
  PROVE  MadeAsAsked(f, xs)
<1>1. /\ xs = <<>> /\ layout = DefaultLayout(arity(f))
      /\ ParamsOf(layout) \subseteq 0 .. (arity(f) - 1)
      /\ join' = [layout |-> layout, sources |-> make_sources(layout, Storage(f, xs))]
  BY DEF Deduced, JoinOf
<1>2. h = lo /\ Len(ts) = 0
  <2>1. /\ lo \in Nat /\ h \in Nat /\ (h = lo \/ h = lo + 1)
        /\ Len(ts) \in Nat /\ h + Len(ts) = 0
    BY <1>1 DEF Spelled
  <2> QED
    BY <2>1
<1>3. AreTypes(xs, ts)
  BY <1>1, <1>2, EmptySeq DEF AreTypes
<1>4. param_count(layout) = arity(f)
  <2>1. arity(f) \in Nat
    BY MakeAssumption DEF arity
  <2> QED
    BY <1>1, <2>1, DefaultCount
<1>5. AsAsked(f, xs, make_sources(layout, Storage(f, xs)))
  BY <1>1, <1>2, <1>3, <1>4, SourcesAsAsked
<1> QED
  BY <1>1, <1>5 DEF MadeAsAsked

(* Storage types only. *)
LEMMA StorageFirstAsAsked ==
  ASSUME layout \in Layouts, NEW xs, NEW lo, NEW h, NEW Ps, NEW ts,
         Spelled(xs, lo, h, Ps, ts), NEW f \in Callbacks, StorageFirst(f, xs)
  PROVE  MadeAsAsked(f, xs)
<1>1. /\ xs # <<>> /\ ~ IsLayout(xs[1]) /\ ~ IsPolicies(xs[1]) /\ Len(xs) = arity(f)
      /\ layout = DefaultLayout(arity(f))
      /\ ParamsOf(layout) \subseteq 0 .. (arity(f) - 1)
      /\ join' = [layout |-> layout, sources |-> make_sources(layout, Storage(f, xs))]
  BY DEF StorageFirst, JoinOf
<1>2. /\ lo \in Nat /\ lo <= 1 /\ h \in Nat /\ (h = lo \/ h = lo + 1)
      /\ Len(ts) \in Nat /\ Len(xs) = h + Len(ts) /\ DOMAIN xs = 1 .. (h + Len(ts))
      /\ \E S : xs \in Seq(S)
  BY DEF Spelled
<1>3. Len(xs) # 0 /\ 1 \in DOMAIN xs
  BY <1>1, <1>2, EmptySeq
<1>4. h = 0 /\ lo = 0
  <2>1. lo # 1
    BY <1>1, <1>3, KindOfArgument
  <2>2. ~ (h # lo /\ 1 = h)
    BY <1>1, <1>3, KindOfArgument
  <2> QED
    BY <1>2, <2>1, <2>2
<1>5. AreTypes(xs, ts) /\ Len(ts) = arity(f)
  <2>1. \A i \in 1 .. Len(ts) : xs[0 + i] = <<"type", ts[i]>>
    BY <1>4 DEF Spelled
  <2>2. \A i \in 1 .. Len(ts) : xs[i] = <<"type", ts[i]>>
    BY <1>2, <2>1
  <2> QED
    BY <1>1, <1>2, <1>4, <2>2 DEF AreTypes
<1>6. param_count(layout) = arity(f)
  <2>1. arity(f) \in Nat
    BY MakeAssumption DEF arity
  <2> QED
    BY <1>1, <2>1, DefaultCount
<1>7. AsAsked(f, xs, make_sources(layout, Storage(f, xs)))
  BY <1>1, <1>4, <1>5, <1>6, SourcesAsAsked
<1> QED
  BY <1>1, <1>7 DEF MadeAsAsked

(* What follows the layout, what follows the policies.                     *)
LEMMA RestIsTypes ==
  ASSUME NEW xs, NEW lo, NEW h, NEW Ps, NEW ts, Spelled(xs, lo, h, Ps, ts), lo = 1
  PROVE  /\ xs # <<>> /\ xs[1] = <<"layout", layout>> /\ Len(Tail(xs)) = (h - 1) + Len(ts)
         /\ h = 1 => AreTypes(Tail(xs), ts)
         /\ h # 1 => /\ Tail(xs) # <<>> /\ Tail(xs)[1] = <<"policies", Ps>>
                     /\ xs[2] = <<"policies", Ps>>
                     /\ AreTypes(Tail(Tail(xs)), ts)
<1>1. /\ h \in Nat /\ (h = 1 \/ h = 2)
      /\ Len(ts) \in Nat /\ Len(xs) = h + Len(ts)
      /\ xs[1] = <<"layout", layout>>
  BY DEF Spelled
<1>2. PICK S : xs \in Seq(S)
  BY DEF Spelled
<1>3. \A i \in 1 .. Len(ts) : xs[h + i] = <<"type", ts[i]>>
  BY DEF Spelled
<1>4. xs # <<>>
  BY <1>1, <1>2, EmptySeq
<1> DEFINE r == Tail(xs)
<1>5. /\ r \in Seq(S) /\ Len(r) = Len(xs) - 1
      /\ \A i \in 1 .. Len(r) : r[i] = xs[i + 1]
  BY <1>2, <1>4, HeadTailProperties
<1> HIDE DEF r
<1>6. ASSUME h = 1
      PROVE  AreTypes(r, ts)
  <2>1. Len(r) = Len(ts)
    BY <1>1, <1>5, <1>6
  <2>2. ASSUME NEW i \in 1 .. Len(ts)
        PROVE  r[i] = <<"type", ts[i]>>
    <3>1. r[i] = xs[i + 1] /\ i + 1 = h + i
      BY <1>5, <1>6, <2>1
    <3> QED
      BY <1>3, <3>1
  <2> QED
    BY <1>5, <2>1, <2>2 DEF AreTypes
<1>7. ASSUME h # 1
      PROVE  /\ r # <<>> /\ r[1] = <<"policies", Ps>> /\ xs[2] = <<"policies", Ps>>
             /\ AreTypes(Tail(r), ts)
  <2>1. h = 2 /\ xs[2] = <<"policies", Ps>>
    <3>1. h = 2
      BY <1>1, <1>7
    <3>2. h # lo => xs[h] = <<"policies", Ps>>
      BY DEF Spelled
    <3> QED
      BY <1>7, <3>1, <3>2
  <2>2. Len(r) = 1 + Len(ts)
    BY <1>1, <1>5, <2>1
  <2>3. r # <<>>
    BY <1>1, <1>5, <2>2, EmptySeq
  <2>4. r[1] = xs[2]
    <3>1. 1 \in 1 .. Len(r)
      BY <1>1, <2>2
    <3>2. r[1] = xs[1 + 1]
      BY <1>5, <3>1
    <3> QED
      BY <3>2
  <2> DEFINE q == Tail(r)
  <2>5. /\ q \in Seq(S) /\ Len(q) = Len(r) - 1
        /\ \A i \in 1 .. Len(q) : q[i] = r[i + 1]
    BY <1>5, <2>3, HeadTailProperties
  <2> HIDE DEF q
  <2>6. Len(q) = Len(ts)
    BY <1>1, <2>2, <2>5
  <2>7. ASSUME NEW i \in 1 .. Len(ts)
        PROVE  q[i] = <<"type", ts[i]>>
    <3>1. i + 1 \in 1 .. Len(r) /\ (i + 1) + 1 = h + i
      BY <1>1, <2>1, <2>2
    <3>2. q[i] = r[i + 1]
      BY <2>5, <2>6
    <3>3. r[i + 1] = xs[h + i]
      BY <1>5, <3>1
    <3> QED
      BY <1>3, <3>2, <3>3
  <2>8. AreTypes(q, ts)
    BY <2>5, <2>6, <2>7 DEF AreTypes
  <2> QED
    BY <2>1, <2>3, <2>4, <2>8 DEF q
<1>8. Len(r) = (h - 1) + Len(ts)
  BY <1>1, <1>5
<1> QED
  BY <1>1, <1>4, <1>6, <1>7, <1>8 DEF r

(* A call that starts with a layout.                                       *)
LEMMA StartsWithLayout ==
  ASSUME NEW xs, NEW lo, NEW h, NEW Ps, NEW ts, Spelled(xs, lo, h, Ps, ts),
         Len(xs) # 0, IsLayout(xs[1])
  PROVE  lo = 1
<1>1. 1 \in DOMAIN xs
  <2>1. h \in Nat /\ Len(ts) \in Nat /\ Len(xs) = h + Len(ts) /\ DOMAIN xs = 1 .. (h + Len(ts))
    BY DEF Spelled
  <2> QED
    BY <2>1
<1> QED
  BY <1>1, KindOfArgument

(* A layout and, perhaps, the storage types. *)
LEMMA LayoutFirstAsAsked ==
  ASSUME layout \in Layouts, NEW xs, NEW lo, NEW h, NEW Ps, NEW ts,
         Spelled(xs, lo, h, Ps, ts), NEW f \in Callbacks, LayoutFirst(f, xs)
  PROVE  MadeAsAsked(f, xs)
<1> DEFINE rest == Tail(xs)
<1>1. /\ xs # <<>> /\ IsLayout(xs[1]) /\ param_count(xs[1][2]) = arity(f)
      /\ \/ rest = <<>>
         \/ rest # <<>> /\ ~ IsPolicies(rest[1]) /\ Len(rest) = arity(f)
      /\ ParamsOf(layout) \subseteq 0 .. (arity(f) - 1)
      /\ xs[1][2] = layout
      /\ join' = [layout |-> layout, sources |-> make_sources(layout, Storage(f, rest))]
  BY DEF LayoutFirst, JoinOf
<1>2. /\ lo \in Nat /\ h \in Nat /\ (h = lo \/ h = lo + 1) /\ Len(ts) \in Nat
      /\ \E S : xs \in Seq(S)
  BY DEF Spelled
<1>3. Len(xs) # 0
  BY <1>1, <1>2, EmptySeq
<1>4. lo = 1
  BY <1>1, <1>3, StartsWithLayout
<1> HIDE DEF rest
<1>5. /\ Len(rest) = (h - 1) + Len(ts)
      /\ h = 1 => AreTypes(rest, ts)
      /\ h # 1 => rest # <<>> /\ rest[1] = <<"policies", Ps>>
  BY <1>4, RestIsTypes DEF rest
<1>6. h = 1
  <2> SUFFICES ASSUME h # 1
               PROVE  FALSE
    OBVIOUS
  <2>1. rest # <<>> /\ IsPolicies(rest[1])
    BY <1>5 DEF IsPolicies
  <2> QED
    BY <1>1, <2>1
<1>7. Len(ts) = 0 \/ Len(ts) = arity(f)
  <2>1. Len(rest) = Len(ts)
    BY <1>2, <1>5, <1>6
  <2>2. CASE rest = <<>>
    BY <2>1, <2>2
  <2>3. CASE Len(rest) = arity(f)
    BY <2>1, <2>3
  <2> QED
    BY <1>1, <2>2, <2>3
<1>8. AsAsked(f, xs, make_sources(layout, Storage(f, rest)))
  BY <1>1, <1>4, <1>5, <1>6, <1>7, SourcesAsAsked
<1> QED
  BY <1>1, <1>8 DEF MadeAsAsked

(* A layout, one policy for each source and, perhaps, the storage types.   *)
LEMMA PoliciesSecondAsAsked ==
  ASSUME layout \in Layouts, NEW xs, NEW lo, NEW h, NEW Ps, NEW ts,
         Spelled(xs, lo, h, Ps, ts), NEW f \in Callbacks, PoliciesSecond(f, xs)
  PROVE  MadeAsAsked(f, xs)
<1> DEFINE tail == Tail(Tail(xs))
<1>1. /\ Len(xs) > 1 /\ IsLayout(xs[1]) /\ param_count(xs[1][2]) = arity(f)
      /\ IsPolicies(xs[2]) /\ Len(tail) \in {0, arity(f)}
      /\ ParamsOf(layout) \subseteq 0 .. (arity(f) - 1)
      /\ xs[1][2] = layout
      /\ join' = [layout |-> layout, sources |->
                    make_sources_with_policies(layout, Storage(f, tail), xs[2][2])]
  BY DEF PoliciesSecond, JoinOf
<1>2. /\ lo \in Nat /\ h \in Nat /\ (h = lo \/ h = lo + 1) /\ Len(ts) \in Nat
      /\ Len(xs) = h + Len(ts) /\ DOMAIN xs = 1 .. (h + Len(ts))
  BY DEF Spelled
<1>3. Len(xs) # 0 /\ 2 \in DOMAIN xs
  BY <1>1, <1>2
<1>4. lo = 1
  BY <1>1, <1>3, StartsWithLayout
<1>5. h = 2
  BY <1>1, <1>3, KindOfArgument
<1> HIDE DEF tail
<1>6. AreTypes(tail, ts) /\ xs[2] = <<"policies", Ps>>
  <2>1. h # 1
    BY <1>5
  <2> QED
    BY <1>4, <2>1, RestIsTypes DEF tail
<1>7. Len(ts) = 0 \/ Len(ts) = arity(f)
  BY <1>1, <1>6 DEF AreTypes
<1> DEFINE sources == make_sources_with_policies(layout, Storage(f, tail), Ps)
<1>8. join' = [layout |-> layout, sources |-> sources]
  <2>1. xs[2][2] = Ps
    BY <1>6
  <2> QED
    BY <1>1, <2>1
<1>9. AsAsked(f, xs, sources)
  <2>1. h # lo
    BY <1>4, <1>5
  <2> QED
    BY <1>1, <1>6, <1>7, <2>1, SourcesAsAsked
<1> HIDE DEF sources
<1> QED
  BY <1>8, <1>9 DEF MadeAsAsked

(* A call that compiles makes the join it asks for.                        *)
LEMMA CallAsAsked ==
  ASSUME layout \in Layouts, NEW f \in Callbacks, NEW xs \in Written, make_reactive(f, xs)
  PROVE  MadeAsAsked(f, xs) /\ fn' = f /\ args' = xs /\ layout' = layout
<1>1. PICK lo, h, Ps, ts : Spelled(xs, lo, h, Ps, ts)
  BY WrittenIsSpelled
<1>2. /\ \/ Deduced(f, xs) \/ LayoutFirst(f, xs)
         \/ PoliciesSecond(f, xs) \/ StorageFirst(f, xs)
      /\ fn' = f /\ args' = xs /\ UNCHANGED vars
  BY DEF make_reactive
<1>3. MadeAsAsked(f, xs)
  <2>1. CASE Deduced(f, xs)
    BY <1>1, <2>1, DeducedAsAsked
  <2>2. CASE LayoutFirst(f, xs)
    BY <1>1, <2>2, LayoutFirstAsAsked
  <2>3. CASE PoliciesSecond(f, xs)
    BY <1>1, <2>3, PoliciesSecondAsAsked
  <2>4. CASE StorageFirst(f, xs)
    BY <1>1, <2>4, StorageFirstAsAsked
  <2> QED
    BY <1>2, <2>1, <2>2, <2>3, <2>4
<1> QED
  BY <1>2, <1>3 DEF vars

(* The invariant: a join is the one its call asked for.                    *)
MakeInv ==
  /\ layout \in Layouts
  /\ join # NoJoin => AsAsked(fn, args, join.sources)

LEMMA MakeStart == MakeInit => MakeInv
BY DEF MakeInit, Init, MakeInv

LEMMA MakeInductive == MakeInv /\ [MakeNext]_<<vars, makeVars>> => MakeInv'
<1> SUFFICES ASSUME MakeInv, [MakeNext]_<<vars, makeVars>>
             PROVE  MakeInv'
  OBVIOUS
<1>1. ASSUME NEW f \in Callbacks, NEW xs \in Written, make_reactive(f, xs)
      PROVE  MakeInv'
  <2>1. MadeAsAsked(f, xs) /\ fn' = f /\ args' = xs /\ layout' = layout
    BY <1>1, CallAsAsked DEF MakeInv
  <2>2. PICK sources : /\ join' = [layout |-> layout, sources |-> sources]
                       /\ AsAsked(f, xs, sources)
    BY <2>1 DEF MadeAsAsked
  <2>3. join'.sources = sources
    BY <2>2
  <2>4. AsAsked(fn, args, join.sources)'
    BY <2>1, <2>2, <2>3 DEF AsAsked
  <2> QED
    BY <2>1, <2>4 DEF MakeInv
<1>2. ASSUME layout' = layout, UNCHANGED makeVars
      PROVE  MakeInv'
  BY <1>2 DEF MakeInv, AsAsked, makeVars
<1>3. CASE Next /\ UNCHANGED makeVars
  <2>1. layout' = layout
    BY <1>3 DEF Next, Open, SubView, Merge
  <2> QED
    BY <1>2, <1>3, <2>1
<1>4. CASE UNCHANGED <<vars, makeVars>>
  BY <1>2, <1>4 DEF vars
<1> QED
  BY <1>1, <1>3, <1>4 DEF MakeNext

(* Whichever of the overloads a call is resolved to, whatever the layout,  *)
(* the callback, the policies and the types: each source of the join       *)
(* stores the values of its parameters, of the types the call asks for,    *)
(* under the policy it asks for.                                           *)
THEOREM JoinsAsAsked == MakeSpec => []JoinAsAsked
<1>1. MakeInv => JoinAsAsked
  BY DEF MakeInv, AsAsked, JoinAsAsked
<1> QED
  BY <1>1, MakeStart, MakeInductive, PTL DEF MakeSpec

(* What the sources of such a join hold fits the callback's parameters.    *)
LEMMA SourcesFitCallback ==
  ASSUME layout \in Layouts, NEW f \in Callbacks, NEW xs, NEW sources,
         AsAsked(f, xs, sources), InOrder(layout)
  PROVE  layout_unpack(layout, [s \in DOMAIN layout |-> sources[s].value]) =
           [i \in 1 .. arity(f) |-> Wanted(f, xs, i - 1)]
<1> DEFINE values == [s \in DOMAIN layout |-> sources[s].value]
           B == {Wanted(f, xs, p) : p \in Nat}
           y == layout_unpack(layout, values)
<1>1. /\ \A s \in DOMAIN layout : /\ layout[s] \in Seq(Nat) /\ Len(layout[s]) \in Nat
                                  /\ DOMAIN layout[s] = 1 .. Len(layout[s])
      /\ arity(f) \in Nat
  BY LayoutsAssumption, MakeAssumption DEF arity
<1>2. \A s \in DOMAIN layout :
        as_tuple(layout[s], values[s]) =
          [i \in 1 .. Len(layout[s]) |-> Wanted(f, xs, layout[s][i])]
  BY <1>1 DEF AsAsked
<1> HIDE DEF values
<1>3. \A s \in DOMAIN layout : /\ as_tuple(layout[s], values[s]) \in Seq(B)
                              /\ Len(as_tuple(layout[s], values[s])) = Len(layout[s])
  <2> TAKE s \in DOMAIN layout
  <2>1. \A i \in 1 .. Len(layout[s]) : Wanted(f, xs, layout[s][i]) \in B
    BY <1>1
  <2> HIDE DEF B
  <2> DEFINE t == [i \in 1 .. Len(layout[s]) |-> Wanted(f, xs, layout[s][i])]
  <2>2. Len(layout[s]) \in Nat /\ as_tuple(layout[s], values[s]) = t
    BY <1>1, <1>2
  <2>3. t \in Seq(B) /\ Len(t) = Len(layout[s])
    BY <2>1, <2>2
  <2> QED
    BY <2>2, <2>3
<1> HIDE DEF B
<1>4. /\ y \in Seq(B) /\ Len(y) = Len(FlattenSeq(layout))
      /\ \A s \in DOMAIN layout : \A i \in DOMAIN layout[s] :
           y[layout[s][i] + 1] = as_tuple(layout[s], values[s])[i]
      /\ \A k \in 1 .. Len(FlattenSeq(layout)) :
           \E s \in DOMAIN layout : \E i \in DOMAIN layout[s] : k = layout[s][i] + 1
  BY <1>3, UnpackedInOrder
<1> HIDE DEF y
<1>5. Len(FlattenSeq(layout)) = arity(f)
  BY DEF AsAsked, param_count
<1>6. ASSUME NEW k \in 1 .. arity(f)
      PROVE  y[k] = Wanted(f, xs, k - 1)
  <2>1. PICK s \in DOMAIN layout : \E i \in DOMAIN layout[s] : k = layout[s][i] + 1
    BY <1>4, <1>5
  <2>2. PICK i \in DOMAIN layout[s] : k = layout[s][i] + 1
    BY <2>1
  <2>3. y[k] = as_tuple(layout[s], values[s])[i]
    BY <1>4, <2>2
  <2>4. as_tuple(layout[s], values[s])[i] = Wanted(f, xs, layout[s][i])
    BY <1>1, <1>2
  <2>5. layout[s][i] = k - 1
    BY <1>1, <2>2
  <2> QED
    BY <2>3, <2>4, <2>5
<1>7. y = [k \in 1 .. arity(f) |-> y[k]]
  BY <1>4, <1>5
<1>8. y = [k \in 1 .. arity(f) |-> Wanted(f, xs, k - 1)]
  BY <1>6, <1>7
<1> QED
  BY <1>8 DEF y, values

(* Joins whose layout lists the parameters in order call the callback with *)
(* values of the wanted types, one for each parameter.                     *)
THEOREM CallbacksFit == MakeSpec => []CallbackFits
<1> DEFINE FromCallbacks == join # NoJoin => fn \in Callbacks
<1>1. MakeInit => FromCallbacks
  BY DEF MakeInit
<1>2. FromCallbacks /\ [MakeNext]_<<vars, makeVars>> => FromCallbacks'
  BY DEF MakeNext, make_reactive, makeVars
<1>3. MakeInv /\ FromCallbacks => CallbackFits
  BY SourcesFitCallback DEF MakeInv, CallbackFits
<1> QED
  BY <1>1, <1>2, <1>3, MakeStart, MakeInductive, PTL DEF MakeSpec

(* make_reactive reads the layout of a behaviour and changes no view       *)
(* (make_reactive.hpp:60-167), so views compose beside it.                 *)
THEOREM MakeRefinesViews == MakeSpec => Spec /\ []ViewsCompose
<1>1. MakeInit => Init
  BY DEF MakeInit
<1>2. [MakeNext]_<<vars, makeVars>> => [Next]_vars
  BY DEF MakeNext, make_reactive
<1> QED
  BY <1>1, <1>2, ViewsAlwaysCompose, PTL DEF MakeSpec, Spec

=============================================================================
