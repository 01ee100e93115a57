-------------------------- MODULE SharedSourceProofs --------------------------
(***************************************************************************)
(* The flat map keeps a map, for keys, values and sequences of changes of  *)
(* any number, and so SharedSource keeps what its callers made of it.      *)
(***************************************************************************)
EXTENDS SharedSource, SubscriberListProofs

Pair == [key : Nat, val : Values]

-----------------------------------------------------------------------------
(* Where elements are after InsertAt and RemoveAt.                         *)

LEMMA InsertAtElements ==
  ASSUME NEW S, NEW m \in Seq(S), NEW i \in 1 .. Len(m) + 1, NEW e \in S
  PROVE  /\ InsertAt(m, i, e) \in Seq(S)
         /\ Len(InsertAt(m, i, e)) = Len(m) + 1
         /\ \A j \in 1 .. Len(m) + 1 :
              InsertAt(m, i, e)[j] =
                IF j < i THEN m[j] ELSE IF j = i THEN e ELSE m[j - 1]
<1> DEFINE a == SubSeq(m, 1, i - 1)
           b == SubSeq(m, i, Len(m))
<1>0. Len(m) \in Nat /\ \A j \in 1 .. Len(m) : m[j] \in S
  OBVIOUS
<1>1. /\ a \in Seq(S) /\ Len(a) = i - 1
      /\ \A j \in 1 .. i - 1 : a[j] = m[j]
  <2>1. 1 \in Int /\ i - 1 \in Int /\ \A j \in 1 .. i - 1 : m[j] \in S
    BY <1>0
  <2> QED
    BY <2>1, SubSeqProperties
<1>2. /\ b \in Seq(S) /\ Len(b) = Len(m) - i + 1
      /\ \A j \in 1 .. Len(m) - i + 1 : b[j] = m[i + j - 1]
  <2>1. i \in Int /\ Len(m) \in Int /\ \A j \in i .. Len(m) : m[j] \in S
    BY <1>0
  <2> QED
    BY <2>1, SubSeqProperties
<1>3. <<e>> \in Seq(S) /\ Len(<<e>>) = 1 /\ <<e>>[1] = e
  OBVIOUS
<1> HIDE DEF a, b
<1>4. /\ a \o <<e>> \in Seq(S) /\ Len(a \o <<e>>) = i
      /\ \A j \in 1 .. i : (a \o <<e>>)[j] = IF j < i THEN m[j] ELSE e
  BY <1>0, <1>1, <1>3
<1>5. /\ (a \o <<e>>) \o b \in Seq(S)
      /\ Len((a \o <<e>>) \o b) = Len(m) + 1
      /\ \A j \in 1 .. Len(m) + 1 :
           ((a \o <<e>>) \o b)[j] =
             IF j <= i THEN (a \o <<e>>)[j] ELSE b[j - i]
  <2> DEFINE c == a \o <<e>>
  <2>1. c \in Seq(S) /\ Len(c) = i
    BY <1>4
  <2> HIDE DEF c
  <2>2. /\ c \o b \in Seq(S) /\ Len(c \o b) = Len(c) + Len(b)
        /\ \A j \in 1 .. Len(c) + Len(b) :
             (c \o b)[j] = IF j <= Len(c) THEN c[j] ELSE b[j - Len(c)]
    BY <1>2, <2>1, ConcatProperties
  <2>3. Len(c) + Len(b) = Len(m) + 1
    BY <1>0, <1>2, <2>1
  <2>4. /\ c \o b \in Seq(S) /\ Len(c \o b) = Len(m) + 1
        /\ \A j \in 1 .. Len(m) + 1 :
             (c \o b)[j] = IF j <= i THEN c[j] ELSE b[j - i]
    BY <2>1, <2>2, <2>3
  <2> QED
    BY <2>4 DEF c
<1>6. InsertAt(m, i, e) = (a \o <<e>>) \o b
  BY DEF InsertAt, a, b
<1> QED
  BY <1>0, <1>2, <1>4, <1>5, <1>6

LEMMA RemoveAtElements ==
  ASSUME NEW S, NEW m \in Seq(S), NEW i \in 1 .. Len(m)
  PROVE  /\ RemoveAt(m, i) \in Seq(S)
         /\ Len(RemoveAt(m, i)) = Len(m) - 1
         /\ \A j \in 1 .. Len(m) - 1 :
              RemoveAt(m, i)[j] = IF j < i THEN m[j] ELSE m[j + 1]
<1> DEFINE a == SubSeq(m, 1, i - 1)
           b == SubSeq(m, i + 1, Len(m))
<1>0. Len(m) \in Nat /\ \A j \in 1 .. Len(m) : m[j] \in S
  OBVIOUS
<1>1. /\ a \in Seq(S) /\ Len(a) = i - 1
      /\ \A j \in 1 .. i - 1 : a[j] = m[j]
  <2>1. 1 \in Int /\ i - 1 \in Int /\ \A j \in 1 .. i - 1 : m[j] \in S
    BY <1>0
  <2> QED
    BY <2>1, SubSeqProperties
<1>2. /\ b \in Seq(S) /\ Len(b) = Len(m) - i
      /\ \A j \in 1 .. Len(m) - i : b[j] = m[i + j]
  <2>1. i + 1 \in Int /\ Len(m) \in Int /\ \A j \in i + 1 .. Len(m) : m[j] \in S
    BY <1>0
  <2> QED
    BY <2>1, SubSeqProperties
<1> HIDE DEF a, b
<1>3. /\ a \o b \in Seq(S) /\ Len(a \o b) = Len(m) - 1
      /\ \A j \in 1 .. Len(m) - 1 :
           (a \o b)[j] = IF j < i THEN a[j] ELSE b[j - i + 1]
  <2>1. /\ a \o b \in Seq(S) /\ Len(a \o b) = Len(a) + Len(b)
        /\ \A j \in 1 .. Len(a) + Len(b) :
             (a \o b)[j] = IF j <= Len(a) THEN a[j] ELSE b[j - Len(a)]
    BY <1>1, <1>2, ConcatProperties
  <2>2. Len(a) + Len(b) = Len(m) - 1
    BY <1>0, <1>1, <1>2
  <2>3. ASSUME NEW j \in 1 .. Len(m) - 1
        PROVE  (a \o b)[j] = IF j < i THEN a[j] ELSE b[j - i + 1]
    <3>1. (a \o b)[j] = IF j <= Len(a) THEN a[j] ELSE b[j - Len(a)]
      BY <2>1, <2>2
    <3>2. (j <= Len(a) <=> j < i) /\ j - Len(a) = j - i + 1
      BY <1>0, <1>1
    <3> QED
      BY <3>1, <3>2
  <2> QED
    BY <2>1, <2>2, <2>3
<1>4. RemoveAt(m, i) = a \o b
  BY DEF RemoveAt, a, b
<1>5. ASSUME NEW j \in 1 .. Len(m) - 1
      PROVE  (a \o b)[j] = IF j < i THEN m[j] ELSE m[j + 1]
  <2>1. CASE j < i
    BY <1>0, <1>1, <1>3, <2>1
  <2>2. CASE ~(j < i)
    <3>1. j - i + 1 \in 1 .. Len(m) - i /\ i + (j - i + 1) = j + 1
      BY <1>0, <2>2
    <3>2. \A q \in 1 .. Len(m) - i : i + q = j + 1 => b[q] = m[j + 1]
      BY <1>2
    <3>3. b[j - i + 1] = m[j + 1]
      BY <3>1, <3>2
    <3> QED
      BY <1>3, <2>2, <3>3
  <2> QED
    BY <2>1, <2>2
<1> QED
  BY <1>3, <1>4, <1>5

-----------------------------------------------------------------------------
(* FlatMap. *)

LEMMA PairType ==
  ASSUME NEW m \in Seq(Pair)
  PROVE  Len(m) \in Nat /\ \A j \in 1 .. Len(m) : m[j] \in Pair /\ m[j].key \in Nat
<1>1. Len(m) \in Nat /\ \A j \in 1 .. Len(m) : m[j] \in Pair
  OBVIOUS
<1> QED
  BY <1>1 DEF Pair

LEMMA LowerBoundIs ==
  ASSUME NEW m \in Seq(Pair), NEW k \in Nat
  PROVE  /\ lower_bound(m, k) \in 1 .. Len(m) + 1
         /\ \A j \in 1 .. (lower_bound(m, k) - 1) : m[j].key < k
         /\ lower_bound(m, k) # End(m) => ~(m[lower_bound(m, k)].key < k)
<1>1. Len(m) \in Nat /\ \A j \in 1 .. Len(m) : m[j].key \in Nat
  BY PairType
<1> DEFINE P(i) == /\ \A j \in 1 .. (i - 1) : m[j].key < k
                   /\ i # End(m) => ~(m[i].key < k)
           stop == {i \in 1 .. Len(m) : ~(m[i].key < k)}
<1>2. \E i \in 1 .. End(m) : P(i)
  <2>1. CASE stop = {}
    <3>1. End(m) \in 1 .. End(m) /\ P(End(m))
      BY <1>1, <2>1 DEF End
    <3> QED
      BY <3>1
  <2>2. CASE stop # {}
    <3>1. PICK i \in stop : \A j \in stop : i <= j
      <4> HIDE DEF stop
      <4>1. stop \subseteq Nat
        BY <1>1 DEF stop
      <4> QED
        BY <2>2, <4>1, Least
    <3>2. \A j \in 1 .. (i - 1) : j \in 1 .. Len(m) /\ j \notin stop
      BY <1>1, <3>1
    <3>3. P(i)
      BY <3>1, <3>2
    <3> QED
      BY <1>1, <3>1, <3>3 DEF End
  <2> QED
    BY <2>1, <2>2
<1>3. lower_bound(m, k) = CHOOSE i \in 1 .. End(m) : P(i)
  BY DEF lower_bound
<1>4. lower_bound(m, k) \in 1 .. End(m) /\ P(lower_bound(m, k))
  <2> HIDE DEF P
  <2> QED
    BY <1>2, <1>3
<1> QED
  BY <1>4 DEF End

(* Ordering of a sorted map. *)
LEMMA KeysApart ==
  ASSUME NEW m \in Seq(Pair), Sorted(m),
         NEW i \in 1 .. Len(m), NEW j \in 1 .. Len(m), m[i].key = m[j].key
  PROVE  i = j
<1>1. Len(m) \in Nat /\ \A l \in 1 .. Len(m) : m[l].key \in Nat
  BY PairType
<1>2. DOMAIN m = 1 .. Len(m)
  OBVIOUS
<1> QED
  BY <1>1, <1>2 DEF Sorted

(* find finds a key just when it is there, and where it is.                *)
LEMMA FindIs ==
  ASSUME NEW m \in Seq(Pair), Sorted(m), NEW k \in Nat
  PROVE  /\ contains(m, k) => find(m, k) \in 1 .. Len(m) /\ m[find(m, k)].key = k
         /\ \A i \in 1 .. Len(m) : m[i].key = k => contains(m, k) /\ find(m, k) = i
<1> DEFINE lb == lower_bound(m, k)
<1>1. Len(m) \in Nat /\ \A j \in 1 .. Len(m) : m[j].key \in Nat
  BY PairType
<1>2. /\ lb \in 1 .. Len(m) + 1
      /\ \A j \in 1 .. (lb - 1) : m[j].key < k
      /\ lb # End(m) => ~(m[lb].key < k)
  BY LowerBoundIs
<1> HIDE DEF lb
<1>3. Matches(m, lb, k) <=> lb \in 1 .. Len(m) /\ m[lb].key = k
  BY <1>1, <1>2 DEF Matches, End
<1>4. find(m, k) = IF Matches(m, lb, k) THEN lb ELSE End(m)
  BY DEF find, lb
<1>5. contains(m, k) <=> Matches(m, lb, k)
  BY <1>1, <1>3, <1>4 DEF contains, End
<1>6. ASSUME NEW i \in 1 .. Len(m), m[i].key = k
      PROVE  Matches(m, lb, k) /\ lb = i
  <2>1. ~(i < lb)
    BY <1>1, <1>2, <1>6
  <2>2. lb \in 1 .. Len(m) /\ ~(m[lb].key < k)
    BY <1>1, <1>2, <2>1 DEF End
  <2>3. ~(lb < i)
    BY <1>1, <1>6, <2>2 DEF Sorted
  <2> QED
    BY <1>3, <1>6, <2>1, <2>2, <2>3
<1> QED
  BY <1>3, <1>4, <1>5, <1>6

(* Put and erase keep the map sorted and change the value of one key.      *)
LEMMA PutIs ==
  ASSUME NEW m \in Seq(Pair), Sorted(m), NEW k \in Nat, NEW v \in Values
  PROVE  /\ Put(m, k, v) \in Seq(Pair) /\ Sorted(Put(m, k, v))
         /\ \A l \in Nat, w \in Values :
              Has(Put(m, k, v), l, w) <=> IF l = k THEN w = v ELSE Has(m, l, w)
<1> DEFINE lb == lower_bound(m, k)
           new == [key |-> k, val |-> v]
<1>1. Len(m) \in Nat /\ \A j \in 1 .. Len(m) : m[j] \in Pair /\ m[j].key \in Nat
  BY PairType
<1>2. /\ lb \in 1 .. Len(m) + 1
      /\ \A j \in 1 .. (lb - 1) : m[j].key < k
      /\ lb # End(m) => ~(m[lb].key < k)
  BY LowerBoundIs
<1>3. new \in Pair /\ new.key = k /\ new.val = v
  BY DEF Pair
<1>4. DOMAIN m = 1 .. Len(m)
  OBVIOUS
<1> HIDE DEF lb, new
<1>5. Matches(m, lb, k) <=> lb \in 1 .. Len(m) /\ m[lb].key = k
  BY <1>1, <1>2 DEF Matches, End
<1>6. CASE Matches(m, lb, k)
  <2>1. Put(m, k, v) = [m EXCEPT ![lb] = new]
    BY <1>5, <1>6 DEF Put, lb, new
  <2>2. /\ Put(m, k, v) \in Seq(Pair) /\ DOMAIN Put(m, k, v) = 1 .. Len(m)
        /\ \A j \in 1 .. Len(m) : Put(m, k, v)[j] = IF j = lb THEN new ELSE m[j]
    BY <1>1, <1>3, <1>5, <1>6, <2>1
  <2>3. Sorted(Put(m, k, v))
    BY <1>3, <1>4, <1>5, <1>6, <2>2 DEF Sorted
  <2>4. ASSUME NEW l \in Nat, NEW w \in Values
        PROVE  Has(Put(m, k, v), l, w) <=> IF l = k THEN w = v ELSE Has(m, l, w)
    <3>1. CASE l = k
      <4>1. \A j \in 1 .. Len(m) : m[j].key = k => j = lb
        BY <1>5, <1>6, KeysApart
      <4>2. \A j \in 1 .. Len(m) : Put(m, k, v)[j].key = k => j = lb
        BY <2>2, <4>1
      <4>3. Put(m, k, v)[lb] = new /\ lb \in 1 .. Len(m)
        BY <1>5, <1>6, <2>2
      <4>4. Has(Put(m, k, v), l, w) => w = v
        <5> SUFFICES ASSUME NEW j \in 1 .. Len(m), Put(m, k, v)[j] = [key |-> l, val |-> w]
                     PROVE  w = v
          BY <2>2 DEF Has
        <5>1. j = lb
          BY <3>1, <4>2
        <5> QED
          BY <1>3, <4>3, <5>1
      <4>5. w = v => Has(Put(m, k, v), l, w)
        BY <2>2, <3>1, <4>3 DEF Has, new
      <4> QED
        BY <3>1, <4>4, <4>5
    <3>2. CASE l # k
      <4>1. new # [key |-> l, val |-> w] /\ m[lb] # [key |-> l, val |-> w]
        BY <1>3, <1>5, <1>6, <3>2
      <4> QED
        BY <1>4, <2>2, <3>2, <4>1 DEF Has
    <3> QED
      BY <3>1, <3>2
  <2> QED
    BY <2>2, <2>3, <2>4
<1>7. CASE ~Matches(m, lb, k)
  <2>1. Put(m, k, v) = InsertAt(m, lb, new)
    BY <1>7 DEF Put, lb, new
  <2>2. /\ Put(m, k, v) \in Seq(Pair) /\ Len(Put(m, k, v)) = Len(m) + 1
        /\ \A j \in 1 .. Len(m) + 1 : Put(m, k, v)[j] =
             IF j < lb THEN m[j] ELSE IF j = lb THEN new ELSE m[j - 1]
    BY <1>2, <1>3, <2>1, InsertAtElements
  <2>3. DOMAIN Put(m, k, v) = 1 .. Len(m) + 1
    BY <2>2
  <2>4. \A j \in 1 .. Len(m) : lb <= j => k < m[j].key
    <3> SUFFICES ASSUME NEW j \in 1 .. Len(m), lb <= j
                 PROVE  k < m[j].key
      OBVIOUS
    <3>1. lb \in 1 .. Len(m) /\ k < m[lb].key
      BY <1>1, <1>2, <1>5, <1>7 DEF End
    <3>2. lb < j => m[lb].key < m[j].key
      BY <1>4, <3>1 DEF Sorted
    <3> QED
      BY <1>1, <3>1, <3>2
  <2>5. Sorted(Put(m, k, v))
    <3> SUFFICES ASSUME NEW i \in 1 .. Len(m) + 1, NEW j \in 1 .. Len(m) + 1, i < j
                 PROVE  Put(m, k, v)[i].key < Put(m, k, v)[j].key
      BY <2>3 DEF Sorted
    <3>1. CASE j < lb
      <4>1. i \in 1 .. Len(m) /\ j \in 1 .. Len(m) /\ i < lb
        BY <1>1, <1>2, <3>1
      <4>2. m[i].key < m[j].key
        BY <1>4, <4>1 DEF Sorted
      <4> QED
        BY <2>2, <3>1, <4>1, <4>2
    <3>2. CASE j = lb
      <4>1. i \in 1 .. lb - 1 /\ Put(m, k, v)[i] = m[i] /\ Put(m, k, v)[j] = new
        BY <1>2, <2>2, <3>2
      <4> QED
        BY <1>2, <1>3, <4>1
    <3>3. CASE lb < j
      <4>1. j - 1 \in 1 .. Len(m) /\ lb <= j - 1 /\ Put(m, k, v)[j] = m[j - 1]
        BY <1>1, <1>2, <2>2, <3>3
      <4>2. k < m[j - 1].key
        BY <2>4, <4>1
      <4>3. CASE i < lb
        <5>1. i \in 1 .. lb - 1 /\ Put(m, k, v)[i] = m[i] /\ i \in 1 .. Len(m)
          BY <1>1, <1>2, <2>2, <4>3
        <5>2. m[i].key < k /\ m[i].key \in Nat /\ m[j - 1].key \in Nat
          BY <1>1, <1>2, <4>1, <5>1
        <5> QED
          BY <4>1, <4>2, <5>1, <5>2
      <4>4. CASE i = lb
        BY <1>3, <2>2, <4>1, <4>2, <4>4
      <4>5. CASE lb < i
        <5>1. i - 1 \in 1 .. Len(m) /\ i - 1 < j - 1 /\ Put(m, k, v)[i] = m[i - 1]
          BY <1>1, <1>2, <2>2, <4>5
        <5>2. m[i - 1].key < m[j - 1].key
          BY <1>4, <4>1, <5>1 DEF Sorted
        <5> QED
          BY <4>1, <5>1, <5>2
      <4> QED
        BY <1>1, <1>2, <4>3, <4>4, <4>5
    <3> QED
      BY <1>1, <1>2, <3>1, <3>2, <3>3
  <2>6. ASSUME NEW l \in Nat, NEW w \in Values
        PROVE  Has(Put(m, k, v), l, w) <=> IF l = k THEN w = v ELSE Has(m, l, w)
    <3> DEFINE e == [key |-> l, val |-> w]
    <3>0. e.key = l /\ e.val = w
      OBVIOUS
    <3> HIDE DEF e
    <3>1. \A j \in 1 .. Len(m) : m[j].key # k
      <4> SUFFICES ASSUME NEW j \in 1 .. Len(m)
                   PROVE  m[j].key # k
        OBVIOUS
      <4>1. CASE lb <= j
        BY <1>1, <2>4, <4>1
      <4>2. CASE ~(lb <= j)
        BY <1>1, <1>2, <4>2
      <4> QED
        BY <4>1, <4>2
    <3>2. (\E j \in 1 .. Len(m) + 1 : Put(m, k, v)[j] = e)
            <=> new = e \/ \E j \in 1 .. Len(m) : m[j] = e
      <4>1. ASSUME NEW j \in 1 .. Len(m), m[j] = e
            PROVE  \E i \in 1 .. Len(m) + 1 : Put(m, k, v)[i] = e
        <5>1. CASE j < lb
          BY <1>1, <2>2, <4>1, <5>1
        <5>2. CASE ~(j < lb)
          <6>1. j + 1 \in 1 .. Len(m) + 1 /\ ~(j + 1 < lb) /\ j + 1 # lb
                /\ (j + 1) - 1 = j
            BY <1>1, <1>2, <5>2
          <6>2. Put(m, k, v)[j + 1] = m[j]
            BY <2>2, <6>1
          <6> QED
            BY <4>1, <6>1, <6>2
        <5> QED
          BY <5>1, <5>2
      <4>2. ASSUME NEW j \in 1 .. Len(m) + 1, Put(m, k, v)[j] = e
            PROVE  new = e \/ \E i \in 1 .. Len(m) : m[i] = e
        <5>1. j < lb => j \in 1 .. Len(m)
          BY <1>1, <1>2
        <5>2. ~(j < lb) /\ j # lb => j - 1 \in 1 .. Len(m)
          BY <1>1, <1>2
        <5> QED
          BY <2>2, <4>2, <5>1, <5>2
      <4>3. Put(m, k, v)[lb] = new
        BY <1>2, <2>2
      <4> QED
        BY <1>2, <4>1, <4>2, <4>3
    <3>3. Has(Put(m, k, v), l, w) <=> new = e \/ Has(m, l, w)
      BY <1>4, <2>3, <3>2 DEF Has, e
    <3>4. CASE l = k
      <4>1. ~Has(m, l, w)
        BY <1>4, <3>0, <3>1, <3>4 DEF Has, e
      <4>2. new = e <=> w = v
        BY <1>3, <3>0, <3>4 DEF new, e
      <4> QED
        BY <3>3, <3>4, <4>1, <4>2
    <3>5. CASE l # k
      BY <1>3, <3>0, <3>3, <3>5
    <3> QED
      BY <3>4, <3>5
  <2> QED
    BY <2>2, <2>5, <2>6
<1> QED
  BY <1>6, <1>7

LEMMA EraseIs ==
  ASSUME NEW m \in Seq(Pair), Sorted(m), NEW k \in Nat, contains(m, k)
  PROVE  /\ erase(m, k) \in Seq(Pair) /\ Sorted(erase(m, k))
         /\ \A l \in Nat, w \in Values :
              Has(erase(m, k), l, w) <=> l # k /\ Has(m, l, w)
<1> DEFINE i == find(m, k)
           r == erase(m, k)
<1>1. Len(m) \in Nat /\ \A j \in 1 .. Len(m) : m[j] \in Pair /\ m[j].key \in Nat
  BY PairType
<1>2. i \in 1 .. Len(m) /\ m[i].key = k
  BY FindIs
<1>3. \A j \in 1 .. Len(m) : m[j].key = k => j = i
  BY FindIs
<1>4. r = RemoveAt(m, i)
  BY DEF erase
<1> HIDE DEF i, r
<1>5. /\ r \in Seq(Pair) /\ Len(r) = Len(m) - 1
      /\ \A j \in 1 .. Len(m) - 1 : r[j] = IF j < i THEN m[j] ELSE m[j + 1]
  BY <1>2, <1>4, RemoveAtElements
<1>6. DOMAIN r = 1 .. Len(m) - 1 /\ DOMAIN m = 1 .. Len(m)
  BY <1>1, <1>5
<1>7. Sorted(r)
  <2> SUFFICES ASSUME NEW a \in 1 .. Len(m) - 1, NEW b \in 1 .. Len(m) - 1, a < b
               PROVE  r[a].key < r[b].key
    BY <1>6 DEF Sorted
  <2> DEFINE at(j) == IF j < i THEN j ELSE j + 1
  <2>1. r[a] = m[at(a)] /\ r[b] = m[at(b)]
    BY <1>5
  <2>2. at(a) \in 1 .. Len(m) /\ at(b) \in 1 .. Len(m) /\ at(a) < at(b)
    BY <1>1, <1>2
  <2> HIDE DEF at
  <2> QED
    BY <1>6, <2>1, <2>2 DEF Sorted
<1>8. ASSUME NEW l \in Nat, NEW w \in Values
      PROVE  Has(r, l, w) <=> l # k /\ Has(m, l, w)
  <2> DEFINE e == [key |-> l, val |-> w]
  <2>0. e.key = l
    OBVIOUS
  <2> HIDE DEF e
  <2>1. ASSUME NEW j \in 1 .. Len(m) - 1, r[j] = e
        PROVE  l # k /\ \E h \in 1 .. Len(m) : m[h] = e
    <3> DEFINE h == IF j < i THEN j ELSE j + 1
    <3>1. h \in 1 .. Len(m) /\ h # i /\ r[j] = m[h]
      BY <1>1, <1>2, <1>5
    <3> HIDE DEF h
    <3> QED
      BY <1>3, <2>0, <2>1, <3>1
  <2>2. ASSUME l # k, NEW h \in 1 .. Len(m), m[h] = e
        PROVE  \E j \in 1 .. Len(m) - 1 : r[j] = e
    <3>1. h # i
      BY <1>2, <2>0, <2>2
    <3>2. CASE h < i
      BY <1>1, <1>2, <1>5, <2>2, <3>2
    <3>3. CASE i < h
      <4>1. h - 1 \in 1 .. Len(m) - 1 /\ ~(h - 1 < i) /\ (h - 1) + 1 = h
        BY <1>1, <1>2, <3>3
      <4>2. r[h - 1] = m[h]
        BY <1>5, <4>1
      <4> QED
        BY <2>2, <4>1, <4>2
    <3> QED
      BY <1>2, <3>1, <3>2, <3>3
  <2> QED
    BY <1>6, <2>1, <2>2 DEF Has, e
<1> QED
  BY <1>5, <1>7, <1>8 DEF r

(* What get answers, in terms of the pairs that are there.                 *)
LEMMA GetIs ==
  ASSUME data \in Seq(Pair), Sorted(data), NEW k \in Nat
  PROVE  /\ contains(data, k) => get(k) \in Values /\ Has(data, k, get(k))
         /\ contains(data, k) => data[find(data, k)].val = get(k)
         /\ ~contains(data, k) => get(k) = None /\ \A w \in Values : ~Has(data, k, w)
         /\ \A w \in Values : Has(data, k, w) => get(k) = w
<1>1. /\ Len(data) \in Nat /\ DOMAIN data = 1 .. Len(data)
      /\ \A j \in 1 .. Len(data) : data[j] \in Pair
  BY PairType
<1>2. contains(data, k) =>
        find(data, k) \in 1 .. Len(data) /\ data[find(data, k)].key = k
  BY FindIs
<1>3. \A i \in 1 .. Len(data) :
        data[i].key = k => contains(data, k) /\ find(data, k) = i
  BY FindIs
<1>4. ASSUME contains(data, k)
      PROVE  /\ get(k) = data[find(data, k)].val /\ get(k) \in Values
             /\ data[find(data, k)] = [key |-> k, val |-> get(k)]
  <2>1. get(k) = data[find(data, k)].val
    BY <1>4 DEF get
  <2>2. data[find(data, k)] \in Pair /\ data[find(data, k)].key = k
    BY <1>1, <1>2, <1>4
  <2> QED
    BY <2>1, <2>2 DEF Pair
<1>5. ASSUME NEW w \in Values, Has(data, k, w)
      PROVE  contains(data, k) /\ get(k) = w
  <2>1. PICK i \in 1 .. Len(data) : data[i] = [key |-> k, val |-> w]
    BY <1>1, <1>5 DEF Has
  <2>2. contains(data, k) /\ find(data, k) = i
    BY <1>3, <2>1
  <2> QED
    BY <2>1, <2>2 DEF get
<1> QED
  BY <1>1, <1>2, <1>4, <1>5 DEF get, Has

-----------------------------------------------------------------------------
(* SharedSource. *)

StoreInv ==
  /\ data \in Seq(Pair)
  /\ content \in [Keys -> Values \cup {None}]
  /\ StoreIsMap

(* The pairs of n are those of m, but for the key k, which has v (or no    *)
(* value when v is None).                                                  *)
ChangedAt(m, n, k, v) ==
  \A l \in Nat, w \in Values :
    Has(n, l, w) <=> IF l = k THEN w = v ELSE Has(m, l, w)

LEMMA InitStoreInv == SourceInit => StoreInv
<1> SUFFICES ASSUME SourceInit
             PROVE  StoreInv
  OBVIOUS
<1>1. data = <<>> /\ content = Nowhere
  BY DEF SourceInit
<1>2. data \in Seq(Pair) /\ Sorted(data) /\ Len(data) = 0 /\ DOMAIN data = {}
  BY <1>1 DEF Sorted
<1>3. \A k \in Keys : get(k) = None
  <2> SUFFICES ASSUME NEW k \in Keys
               PROVE  get(k) = None
    OBVIOUS
  <2>1. k \in Nat
    BY SourceAssumption
  <2>2. ~contains(data, k)
    <3>1. contains(data, k) => find(data, k) \in 1 .. Len(data)
      BY <1>2, <2>1, FindIs
    <3> QED
      BY <1>2, <3>1
  <2> QED
    BY <2>2 DEF get
<1> QED
  BY <1>1, <1>2, <1>3 DEF StoreInv, StoreIsMap, Nowhere

(* A change of one key, of which the pairs before and after are known.     *)
LEMMA ChangeKeepsInv ==
  ASSUME StoreInv, NEW k \in Keys, NEW v \in Values \cup {None},
         data' \in Seq(Pair), Sorted(data'),
         content' = [content EXCEPT ![k] = v], ChangedAt(data, data', k, v)
  PROVE  StoreInv'
<1> USE DEF StoreInv, ChangedAt
<1>1. content' \in [Keys -> Values \cup {None}]
  OBVIOUS
<1>2. ASSUME NEW l \in Keys
      PROVE  get(l)' = content'[l]
  <2>0. l \in Nat /\ None \notin Values
    BY SourceAssumption
  <2>1. /\ get(l) \in Values \cup {None}
        /\ \A w \in Values : Has(data, l, w) <=> get(l) = w
    BY <2>0, GetIs DEF StoreIsMap
  <2>2. /\ get(l)' \in Values \cup {None}
        /\ \A w \in Values : Has(data', l, w) <=> get(l)' = w
    <3>1. /\ contains(data', l) => get(l)' \in Values /\ Has(data', l, get(l)')
          /\ ~contains(data', l) => get(l)' = None /\ \A w \in Values : ~Has(data', l, w)
          /\ \A w \in Values : Has(data', l, w) => get(l)' = w
      <4>1. get(l)' = IF contains(data', l) THEN data'[find(data', l)].val ELSE None
        BY DEF get
      <4>2. /\ contains(data', l) =>
                  find(data', l) \in 1 .. Len(data') /\ data'[find(data', l)].key = l
            /\ \A i \in 1 .. Len(data') :
                  data'[i].key = l => contains(data', l) /\ find(data', l) = i
        BY <2>0, FindIs
      <4>3. /\ Len(data') \in Nat /\ DOMAIN data' = 1 .. Len(data')
            /\ \A j \in 1 .. Len(data') : data'[j] \in Pair
        BY PairType
      <4>4. contains(data', l) => data'[find(data', l)] = [key |-> l, val |-> get(l)']
                                  /\ get(l)' \in Values
        BY <4>1, <4>2, <4>3 DEF Pair
      <4>5. ASSUME NEW w \in Values, Has(data', l, w)
            PROVE  contains(data', l) /\ get(l)' = w
        <5>1. PICK i \in 1 .. Len(data') : data'[i] = [key |-> l, val |-> w]
          BY <4>3, <4>5 DEF Has
        <5>2. contains(data', l) /\ find(data', l) = i
          BY <4>2, <5>1
        <5> QED
          BY <4>1, <5>1, <5>2
      <4> QED
        BY <4>1, <4>2, <4>3, <4>4, <4>5 DEF Has
    <3> QED
      BY <2>0, <3>1
  <2>3. CASE l = k
    BY <2>0, <2>2, <2>3
  <2>4. CASE l # k
    <3>1. content'[l] = get(l)
      BY <2>4 DEF StoreIsMap
    <3>2. \A w \in Values : get(l)' = w <=> get(l) = w
      BY <2>0, <2>1, <2>2, <2>4
    <3> QED
      BY <2>1, <2>2, <3>1, <3>2
  <2> QED
    BY <2>3, <2>4
<1> QED
  BY <1>1, <1>2 DEF StoreIsMap

LEMMA StepStoreInv == StoreInv /\ [SourceNext]_<<vars, source>> => StoreInv'
<1> SUFFICES ASSUME StoreInv, [SourceNext]_<<vars, source>>
             PROVE  StoreInv'
  OBVIOUS
<1>0. Keys \subseteq Nat
  BY SourceAssumption
<1>1. ASSUME NEW p \in Threads, NEW k \in Keys, NEW v \in Values, insert(p, k, v)
      PROVE  StoreInv'
  <2>1. data' = Put(data, k, v) /\ content' = [content EXCEPT ![k] = v]
    BY <1>1 DEF insert
  <2>2. /\ Put(data, k, v) \in Seq(Pair) /\ Sorted(Put(data, k, v))
        /\ \A l \in Nat, w \in Values :
             Has(Put(data, k, v), l, w) <=> IF l = k THEN w = v ELSE Has(data, l, w)
    BY <1>0, PutIs DEF StoreInv, StoreIsMap
  <2>3. data' \in Seq(Pair) /\ Sorted(data') /\ ChangedAt(data, data', k, v)
    BY <2>1, <2>2 DEF ChangedAt
  <2> QED
    BY <2>1, <2>3, ChangeKeepsInv
<1>2. ASSUME NEW p \in Threads, NEW k \in Keys, remove(p, k)
      PROVE  StoreInv'
  <2>1. /\ contains(data, k) /\ data' = erase(data, k)
        /\ content' = [content EXCEPT ![k] = None]
    BY <1>2 DEF remove
  <2>2. /\ erase(data, k) \in Seq(Pair) /\ Sorted(erase(data, k))
        /\ \A l \in Nat, w \in Values :
             Has(erase(data, k), l, w) <=> l # k /\ Has(data, l, w)
    BY <1>0, <2>1, EraseIs DEF StoreInv, StoreIsMap
  <2>3. None \notin Values
    BY SourceAssumption
  <2>4. data' \in Seq(Pair) /\ Sorted(data') /\ ChangedAt(data, data', k, None)
    <3>1. \A l \in Nat, w \in Values :
            (l # k /\ Has(data, l, w)) <=> IF l = k THEN w = None ELSE Has(data, l, w)
      BY <2>3
    <3> QED
      BY <2>1, <2>2, <3>1 DEF ChangedAt
  <2> QED
    BY <2>1, <2>4, ChangeKeepsInv
<1>3. CASE UNCHANGED <<data, content>>
  BY <1>3 DEF StoreInv, StoreIsMap, get
<1>4. ASSUME NEW p \in Threads, Proceed(p)
      PROVE  UNCHANGED <<data, content>>
  BY <1>4 DEF Proceed, FireChange, Tell, ChangeReturns, source
<1>5. ASSUME NEW s \in Subscribers, SubscriberStep(s)
      PROVE  UNCHANGED <<data, content>>
  BY <1>5 DEF SubscriberStep, SourceSubscribe, FirstLook, SourceDie, source
<1>6. CASE UNCHANGED <<vars, source>>
  BY <1>3, <1>6 DEF source
<1> QED
  BY <1>1, <1>2, <1>3, <1>4, <1>5, <1>6 DEF SourceNext, Changes

(* The store is the map its callers made: the vector stays sorted, every   *)
(* key is found, with its last value, after any insertions and removals    *)
(* (shared_source.hpp:74-127 on core/flat_map.hpp:38-94).                  *)
THEOREM StoreStaysMap == SourceSpec => []StoreIsMap
<1>1. StoreInv => StoreIsMap
  BY DEF StoreInv
<1> QED
  BY <1>1, InitStoreInv, StepStoreInv, PTL DEF SourceSpec

-----------------------------------------------------------------------------
(* A store uses its subscriber list as the list is made to be used         *)
(* (shared_source.hpp:89-158): the steps of SharedSource are steps of      *)
(* SubscriberList or leave it alone, so what is proved of every list holds *)
(* of the one in a store.                                                  *)
THEOREM SourceRunsList == SourceSpec => Spec
<1>1. SourceInit => Init
  BY DEF SourceInit
<1>2. [SourceNext]_<<vars, source>> => [Next]_vars
  <2> SUFFICES ASSUME SourceNext
               PROVE  Next \/ UNCHANGED vars
    OBVIOUS
  <2>1. ASSUME NEW p \in Threads, Changes(p)
        PROVE  UNCHANGED vars
    BY <2>1 DEF Changes, insert, remove
  <2>2. ASSUME NEW p \in Threads, Proceed(p)
        PROVE  Next
    BY <2>2 DEF Proceed, FireChange, Tell, ChangeReturns, Next, Step
  <2>3. ASSUME NEW s \in Subscribers, SubscriberStep(s)
        PROVE  Next \/ UNCHANGED vars
    BY <2>3 DEF SubscriberStep, SourceSubscribe, FirstLook, SourceDie, Next
  <2> QED
    BY <2>1, <2>2, <2>3 DEF SourceNext
<1> QED
  BY <1>1, <1>2, PTL DEF SourceSpec, Spec

(* Types; only a thread in insert or remove fires.                         *)
LookInv ==
  /\ key \in [Threads -> Keys \cup {None}]
  /\ looking \subseteq Subscribers
  /\ sees \in [Subscribers -> [Keys -> Values \cup {None}]]
  /\ NobodyMissesAChange

(* A thread p will call s because of the key k.                            *)
WillCall(p, s, k) ==
  /\ key[p] = k
  /\ \/ pc[p] = "idle"
     \/ \E i \in DOMAIN List(snap[p]) : i > next[p] /\ List(snap[p])[i] = s

LEMMA InitLookInv == SourceInit => LookInv
BY DEF SourceInit, Init, LookInv, NobodyMissesAChange, Nowhere

(* What a subscriber finds is what the changes made of each key.           *)
LEMMA LookIs ==
  ASSUME StoreInv
  PROVE  /\ Look = content
         /\ Look \in [Keys -> Values \cup {None}]
BY DEF StoreInv, StoreIsMap, Look

(* A thread that a step leaves alone will still call whom it would.        *)
LEMMA CallsStill ==
  ASSUME NEW p \in Threads, NEW s, NEW k, WillCall(p, s, k),
         key'[p] = key[p], pc'[p] = pc[p], next'[p] = next[p],
         List(snap[p])' = List(snap[p])
  PROVE  WillCall(p, s, k)'
BY DEF WillCall

LEMMA ChangeLookInv ==
  ASSUME StoreInv, LookInv, NEW p \in Threads, NEW k \in Keys,
         NEW v \in Values \cup {None}, MayChange(p),
         content' = [content EXCEPT ![k] = v], key' = [key EXCEPT ![p] = k],
         UNCHANGED <<vars, looking, sees>>
  PROVE  LookInv'
<1>1. /\ key[p] = None /\ pc[p] = "idle" /\ None \notin Keys
      /\ UNCHANGED <<subs, heap, pc, snap, next, subscribed, dead, looking, sees>>
  BY SourceAssumption DEF MayChange, vars, locals, history
<1>2. /\ key' \in [Threads -> Keys \cup {None}] /\ key'[p] = k
      /\ \A q \in Threads \ {p} : key'[q] = key[q]
      /\ \A l \in Keys \ {k} : content'[l] = content[l]
  BY DEF LookInv, StoreInv
<1>3. ASSUME NEW s \in subscribed' \ dead', NEW l \in Keys
      PROVE  sees'[s][l] = content'[l] \/ WillLook(s, l)'
  <2>1. CASE l = k
    <3>1. WillCall(p, s, l)'
      BY <1>1, <1>2, <2>1 DEF WillCall
    <3> QED
      BY <3>1 DEF WillLook, WillCall
  <2>2. CASE l # k
    <3>1. sees[s][l] = content[l] \/ s \in looking \/ \E q \in Threads : WillCall(q, s, l)
      BY <1>1, <1>3 DEF LookInv, NobodyMissesAChange, WillLook, WillCall
    <3>2. ASSUME NEW q \in Threads, WillCall(q, s, l)
          PROVE  WillCall(q, s, l)'
      <4>1. q # p
        BY <1>1, <3>2 DEF WillCall
      <4>2. List(snap[q])' = List(snap[q])
        BY <1>1 DEF List
      <4> QED
        BY <1>1, <1>2, <3>2, <4>1, <4>2, CallsStill
    <3> QED
      BY <1>1, <1>2, <2>2, <3>1, <3>2 DEF WillLook, WillCall
  <2> QED
    BY <2>1, <2>2
<1> QED
  BY <1>1, <1>2, <1>3 DEF LookInv, NobodyMissesAChange

LEMMA StepLookInv ==
  ListInv /\ StoreInv /\ LookInv /\ [SourceNext]_<<vars, source>> => LookInv'
<1> SUFFICES ASSUME ListInv, StoreInv, LookInv, [SourceNext]_<<vars, source>>
             PROVE  LookInv'
  OBVIOUS
<1>t. TypeOK /\ None \notin Addresses /\ None \notin Keys
  BY SubscribersAssumption, SourceAssumption DEF ListInv
<1>l. /\ Look = content
      /\ Look \in [Keys -> Values \cup {None}]
  BY LookIs
<1>o. \A s \in subscribed \ dead, k \in Keys :
        sees[s][k] = content[k] \/ s \in looking \/ \E q \in Threads : WillCall(q, s, k)
  BY DEF LookInv, NobodyMissesAChange, WillLook, WillCall
<1>0. ASSUME /\ key' \in [Threads -> Keys \cup {None}]
             /\ looking' \subseteq Subscribers
             /\ sees' \in [Subscribers -> [Keys -> Values \cup {None}]],
             \A s \in subscribed' \ dead', k \in Keys :
               \/ sees'[s][k] = content'[k] \/ s \in looking'
               \/ \E q \in Threads : WillCall(q, s, k)'
      PROVE  LookInv'
  BY <1>0 DEF LookInv, NobodyMissesAChange, WillLook, WillCall
<1>1. ASSUME NEW p \in Threads, Changes(p)
      PROVE  LookInv'
  <2>1. ASSUME NEW k \in Keys, NEW v \in Values, insert(p, k, v)
        PROVE  LookInv'
    BY <2>1, ChangeLookInv DEF insert
  <2>2. ASSUME NEW k \in Keys, remove(p, k)
        PROVE  LookInv'
    BY <2>2, ChangeLookInv DEF remove
  <2> QED
    BY <1>1, <2>1, <2>2 DEF Changes
<1>2. ASSUME NEW p \in Threads, FireChange(p)
      PROVE  LookInv'
  <2>1. /\ UNCHANGED <<subs, heap, dead, subscribed, key, looking, sees, content>>
        /\ pc[p] = "idle" /\ pc'[p] = "call" /\ snap'[p] = subs /\ next'[p] = 0
        /\ \A q \in Threads \ {p} :
             pc'[q] = pc[q] /\ snap'[q] = snap[q] /\ next'[q] = next[q]
    BY <1>2, <1>t DEF FireChange, Load, TypeOK, source
  <2>2. ASSUME NEW s \in subscribed \ dead, NEW k \in Keys, NEW q \in Threads,
               WillCall(q, s, k)
        PROVE  WillCall(q, s, k)'
    <3>1. CASE q = p
      <4>1. List(snap[p])' = List(subs) /\ List(subs) \in Seq(Subscribers)
        BY <1>t, <2>1, ListType DEF List, TypeOK
      <4>2. s \in ToSet(List(subs))
        BY <1>t DEF ListInv, NobodyLost, TypeOK
      <4>3. \E i \in DOMAIN List(subs) : i > 0 /\ List(subs)[i] = s
        BY <4>1, <4>2 DEF ToSet
      <4> QED
        BY <2>1, <2>2, <3>1, <4>1, <4>3 DEF WillCall
    <3>2. CASE q # p
      <4>1. List(snap[q])' = List(snap[q])
        BY <2>1, <3>2 DEF List
      <4> QED
        BY <2>1, <2>2, <3>2, <4>1, CallsStill
    <3> QED
      BY <3>1, <3>2
  <2> QED
    BY <1>0, <1>o, <2>1, <2>2 DEF LookInv
<1>3. ASSUME NEW p \in Threads, Tell(p)
      PROVE  LookInv'
  <2> DEFINE list == List(snap[p])
             c == list[next[p] + 1]
  <2>1. /\ UNCHANGED <<subs, heap, dead, subscribed, key, looking, content, pc, snap>>
        /\ pc[p] = "call" /\ next[p] < Len(list) /\ next'[p] = next[p] + 1
        /\ sees' = IF c \in dead THEN sees ELSE [sees EXCEPT ![c] = Look]
        /\ \A q \in Threads \ {p} : next'[q] = next[q]
    BY <1>3, <1>t DEF Tell, Call, TypeOK
  <2>2. \A q \in Threads : List(snap[q])' = List(snap[q])
    BY <2>1 DEF List
  <2>3. list \in Seq(Subscribers) /\ next[p] \in Nat
    BY <1>t, ListType DEF TypeOK
  <2>4. c \in Subscribers
    BY <2>1, <2>3
  <2> HIDE DEF c
  <2>5. ASSUME NEW s \in (subscribed \ dead) \ {c}, NEW k \in Keys, NEW q \in Threads,
               WillCall(q, s, k)
        PROVE  WillCall(q, s, k)'
    <3>1. CASE q = p
      <4>1. PICK i \in DOMAIN list : i > next[p] /\ list[i] = s
        BY <2>1, <2>5, <3>1 DEF WillCall
      <4>2. i # next[p] + 1
        BY <2>5, <4>1 DEF c
      <4>3. i > next'[p]
        BY <2>1, <2>3, <4>1, <4>2
      <4>4. List(snap[p])' = list
        BY <2>2
      <4> HIDE DEF list
      <4> QED
        BY <2>1, <2>5, <3>1, <4>1, <4>3, <4>4 DEF WillCall
    <3>2. CASE q # p
      BY <2>1, <2>2, <2>5, <3>2, CallsStill
    <3> QED
      BY <3>1, <3>2
  <2>6. /\ sees' \in [Subscribers -> [Keys -> Values \cup {None}]]
        /\ \A s \in Subscribers \ {c} : sees'[s] = sees[s]
        /\ c \notin dead => sees'[c] = content
    BY <1>l, <2>1, <2>4 DEF LookInv
  <2>7. subscribed \subseteq Subscribers
    BY <1>t DEF TypeOK
  <2> QED
    BY <1>0, <1>o, <2>1, <2>5, <2>6, <2>7 DEF LookInv
<1>4. ASSUME NEW p \in Threads, ChangeReturns(p)
      PROVE  LookInv'
  <2>1. /\ UNCHANGED <<dead, subscribed, looking, sees, content>>
        /\ AllCalled(p) /\ Leave(p)
        /\ key' = [key EXCEPT ![p] = None]
    BY <1>4 DEF ChangeReturns, Return, Skip, Compact
  <2>2. \A q \in Threads \ {p} :
          /\ key'[q] = key[q] /\ pc'[q] = pc[q] /\ snap'[q] = snap[q]
          /\ next'[q] = next[q]
    BY <1>t, <2>1, LeaveIs DEF LookInv
  <2>3. \A q \in Threads \ {p} : List(snap[q])' = List(snap[q])
    <3>1. CASE Compact(p)
      BY <1>t, <3>1, CompactIs
    <3>2. CASE Return(p) \/ Skip(p)
      BY <2>2, <3>2 DEF Return, Skip, List
    <3> QED
      BY <1>4, <3>1, <3>2 DEF ChangeReturns
  <2>4. \A s, k : ~WillCall(p, s, k)
    <3>1. /\ pc[p] = "call" /\ next[p] = Len(List(snap[p]))
          /\ List(snap[p]) \in Seq(Subscribers)
      BY <1>t, <2>1, ListType DEF AllCalled, TypeOK
    <3>2. \A i \in DOMAIN List(snap[p]) : ~(i > next[p])
      BY <3>1
    <3> QED
      BY <3>1, <3>2 DEF WillCall
  <2>5. ASSUME NEW s, NEW k, NEW q \in Threads, WillCall(q, s, k)
        PROVE  WillCall(q, s, k)'
    BY <2>2, <2>3, <2>4, <2>5, CallsStill
  <2>6. key' \in [Threads -> Keys \cup {None}]
    BY <2>1 DEF LookInv
  <2> QED
    BY <1>0, <1>o, <2>1, <2>5, <2>6 DEF LookInv
<1>5. ASSUME NEW s \in Subscribers, SourceSubscribe(s)
      PROVE  LookInv'
  <2>1. /\ UNCHANGED <<dead, pc, snap, next, key, sees, content>>
        /\ looking' = looking \cup {s} /\ subscribed' = subscribed \cup {s}
    BY <1>5 DEF SourceSubscribe, Subscribe, locals
  <2>2. PICK a \in Addresses : Store(a, Append(List(subs), s))
    BY <1>5 DEF SourceSubscribe, Subscribe
  <2>3. Append(List(subs), s) \in Seq(Subscribers)
    BY <1>t, ListType, AppendIs DEF TypeOK
  <2>4. \A q \in Threads : List(snap[q])' = List(snap[q])
    BY <1>t, <2>1, <2>2, <2>3, StoreIs
  <2>5. ASSUME NEW c, NEW k, NEW q \in Threads, WillCall(q, c, k)
        PROVE  WillCall(q, c, k)'
    BY <2>1, <2>4, <2>5, CallsStill
  <2> QED
    BY <1>0, <1>o, <2>1, <2>5 DEF LookInv
<1>6. ASSUME NEW s \in Subscribers, FirstLook(s) \/ SourceDie(s)
      PROVE  LookInv'
  <2>1. /\ UNCHANGED <<subs, heap, pc, snap, next, subscribed, key, content>>
        /\ dead \subseteq dead'
        /\ \/ looking' = looking \ {s} /\ sees' = [sees EXCEPT ![s] = Look]
           \/ looking' = looking /\ sees' = sees
    BY <1>6 DEF FirstLook, SourceDie, Die, vars, locals, history, source
  <2>2. \A q \in Threads : List(snap[q])' = List(snap[q])
    BY <2>1 DEF List
  <2>3. ASSUME NEW c, NEW k, NEW q \in Threads, WillCall(q, c, k)
        PROVE  WillCall(q, c, k)'
    BY <2>1, <2>2, <2>3, CallsStill
  <2>4. /\ sees' \in [Subscribers -> [Keys -> Values \cup {None}]]
        /\ looking' \subseteq Subscribers
        /\ \A c \in Subscribers, k \in Keys :
             \/ sees'[c][k] = content[k]
             \/ sees'[c] = sees[c] /\ (c \in looking => c \in looking')
    BY <1>l, <2>1 DEF LookInv
  <2>5. subscribed \subseteq Subscribers
    BY <1>t DEF TypeOK
  <2> QED
    BY <1>0, <1>o, <2>1, <2>3, <2>4, <2>5 DEF LookInv
<1>7. CASE UNCHANGED <<vars, source>>
  <2>1. UNCHANGED <<subs, heap, dead, pc, snap, next, subscribed, key, looking,
                    sees, content>>
    BY <1>7 DEF vars, locals, history, source
  <2>2. \A q \in Threads : List(snap[q])' = List(snap[q])
    BY <2>1 DEF List
  <2>3. ASSUME NEW c, NEW k, NEW q \in Threads, WillCall(q, c, k)
        PROVE  WillCall(q, c, k)'
    BY <2>1, <2>2, <2>3, CallsStill
  <2> QED
    BY <1>0, <1>o, <2>1, <2>3 DEF LookInv
<1> QED
  BY <1>1, <1>2, <1>3, <1>4, <1>5, <1>6, <1>7
  DEF SourceNext, Proceed, SubscriberStep

(* A live subscriber has seen the present value of every key, or somebody  *)
(* under way will make it look again - through the list as it really is,   *)
(* with its loads, its compactions and its addresses that are used again.  *)
THEOREM EverybodyTold == SourceSpec => []NobodyMissesAChange
<1>1. LookInv => NobodyMissesAChange
  BY DEF LookInv
<1>2. SourceSpec => []ListInv
  BY SourceRunsList, ListInvHolds, PTL
<1>3. SourceSpec => []StoreInv
  BY InitStoreInv, StepStoreInv, PTL DEF SourceSpec
<1> QED
  BY <1>1, <1>2, <1>3, InitLookInv, StepLookInv, PTL DEF SourceSpec

=============================================================================
