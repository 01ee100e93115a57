---------------------------- MODULE NJoinProofs ----------------------------
(***************************************************************************)
(* What holds of NJoin for any number of threads, sources, values and      *)
(* stamps: types, that no combination is emitted twice, and the contract.  *)
(***************************************************************************)
EXTENDS NJoin, WellFoundedInduction, TLAPS

-----------------------------------------------------------------------------
(* The counter and the comparison, for every width.  "Overflow wraps -     *)
(* correctness is maintained by signed comparison"                         *)
(* (core/seq_counter.hpp:12-13).                                           *)

(* The stamps of fewer calls than the counter has values are stamps.       *)
LEMMA StampAtType ==
  ASSUME NEW c \in Stamp, NEW n \in 0 .. (2 * Half - 1)
  PROVE  StampAt(c, n) \in Stamp
BY HalfAssumption DEF Stamp, StampAt

(* fetch_add moves the counter from the stamp of one call to the next one. *)
LEMMA NextStampAt ==
  ASSUME NEW c \in Stamp, NEW n \in 0 .. (2 * Half - 2)
  PROVE  NextStamp(StampAt(c, n)) = StampAt(c, n + 1)
BY HalfAssumption DEF Stamp, StampAt, NextStamp

(* Calls fewer than the counter has values get different stamps.           *)
LEMMA StampAtInjective ==
  ASSUME NEW c \in Stamp, NEW m \in 0 .. (2 * Half - 1),
         NEW n \in 0 .. (2 * Half - 1), StampAt(c, m) = StampAt(c, n)
  PROVE  m = n
BY HalfAssumption DEF Stamp, StampAt

(* The signed comparison tells which of two calls of next() came later,    *)
(* whatever the counter began with and wherever it wrapped, as long as     *)
(* fewer than 2^63 calls lie between the two.                              *)
THEOREM SeqAfterIsIssueOrder ==
  ASSUME NEW c \in Stamp,
         NEW m \in 0 .. (2 * Half - 1), NEW n \in 0 .. (2 * Half - 1),
         m - n < Half, n - m < Half
  PROVE  seq_after(StampAt(c, m), StampAt(c, n)) <=> m > n
BY HalfAssumption DEF Stamp, StampAt, seq_after, Distance

(* At the distance 2^63 neither of two stamps is after the other: the      *)
(* comparison is no longer an order there.                                 *)
THEOREM SeqAfterAtHalf ==
  ASSUME NEW a \in Stamp, NEW b \in Stamp, Distance(a, b) = Half
  PROVE  ~seq_after(a, b) /\ ~seq_after(b, a)
BY HalfAssumption DEF Stamp, seq_after, Distance

-----------------------------------------------------------------------------
(* max_idx.                                                                *)

(* A set of numbers has a least one. *)
LEMMA LeastNumber ==
  ASSUME NEW T \in SUBSET Nat, T # {}
  PROVE  \E x \in T : \A y \in T : x <= y
<1> DEFINE R == OpToRel(<, Nat)
<1>1. R = {ss \in Nat \X Nat : ss[1] < ss[2]}
  BY Zenon DEF OpToRel
<1>2. IsWellFoundedOn(R, Nat)
  BY NatLessThanWellFounded, Zenon
<1> HIDE DEF R
<1>3. PICK x \in T : \A y \in T : ~ (<<y, x>> \in R)
  BY <1>2, WFMin, Zenon
<1>4. \A y \in T : ~ (y < x)
  <2> TAKE y \in T
  <2>1. <<y, x>> \in Nat \X Nat /\ <<y, x>>[1] = y /\ <<y, x>>[2] = x
    OBVIOUS
  <2> QED
    BY <1>1, <1>3, <2>1
<1> QED
  BY <1>4

(* The fold of MaxIdx over the sources up to n, as an equation.            *)
FoldsTo(t, n, g) ==
  g = [i \in 0 .. n |->
        IF i = 0 THEN 0
        ELSE IF seq_after(t[i].seq, t[g[i - 1]].seq) THEN i ELSE g[i - 1]]

(* The equation has a solution, whatever the number of sources: at the     *)
(* least number for which it had none, the solution for one source less    *)
(* could be continued.                                                     *)
LEMMA FoldExists ==
  ASSUME NEW t
  PROVE  \A n \in Nat : \E g : FoldsTo(t, n, g)
<1> DEFINE None == {n \in Nat : \A g : ~FoldsTo(t, n, g)}
<1> SUFFICES ASSUME None # {}
             PROVE  FALSE
  OBVIOUS
<1>1. PICK n \in None : \A m \in None : n <= m
  BY LeastNumber
<1>2. CASE n = 0
  <2>1. FoldsTo(t, 0, [i \in 0 .. 0 |-> 0])
    BY DEF FoldsTo
  <2> QED
    BY <1>1, <1>2, <2>1
<1>3. CASE n # 0
  <2>1. n \in Nat /\ n - 1 \in Nat /\ n - 1 \notin None
    BY <1>1, <1>3
  <2>2. PICK g : FoldsTo(t, n - 1, g)
    BY <2>1
  <2> DEFINE next == IF seq_after(t[n].seq, t[g[n - 1]].seq) THEN n ELSE g[n - 1]
             h == [i \in 0 .. n |-> IF i = n THEN next ELSE g[i]]
  <2>3. /\ \A i \in 0 .. n - 1 : h[i] = g[i]
        /\ h[n] = next
    BY <2>1
  <2>4. \A i \in 0 .. n - 1 :
          g[i] = IF i = 0 THEN 0
                 ELSE IF seq_after(t[i].seq, t[g[i - 1]].seq) THEN i ELSE g[i - 1]
    BY <2>2 DEF FoldsTo
  <2>5. \A i \in 0 .. n :
          h[i] = IF i = 0 THEN 0
                 ELSE IF seq_after(t[i].seq, t[h[i - 1]].seq) THEN i ELSE h[i - 1]
    <3> TAKE i \in 0 .. n
    <3> HIDE DEF h
    <3>1. CASE i = n
      BY <1>3, <2>1, <2>3, <3>1
    <3>2. CASE i \in 0 .. n - 1
      <4>1. i # 0 => i - 1 \in 0 .. n - 1
        BY <2>1, <3>2
      <4> HIDE DEF next
      <4> QED
        BY <2>3, <2>4, <3>2, <4>1
    <3> QED
      BY <2>1, <3>1, <3>2
  <2>6. FoldsTo(t, n, h)
    BY <2>5 DEF FoldsTo
  <2> QED
    BY <1>1, <2>6
<1> QED
  BY <1>2, <1>3

LEMMA MaxIdxFolds ==
  ASSUME NEW t
  PROVE  \E g : FoldsTo(t, N - 1, g) /\ MaxIdx(t) = g[N - 1]
<1>1. N - 1 \in Nat
  BY NAssumption
<1>2. PICK f : FoldsTo(t, N - 1, f)
  BY <1>1, FoldExists
<1> DEFINE max[i \in Sources] ==
             IF i = 0 THEN 0
             ELSE IF seq_after(t[i].seq, t[max[i - 1]].seq) THEN i ELSE max[i - 1]
<1>3. MaxIdx(t) = max[N - 1]
  BY DEF MaxIdx
<1>4. f = [i \in Sources |->
             IF i = 0 THEN 0
             ELSE IF seq_after(t[i].seq, t[f[i - 1]].seq) THEN i ELSE f[i - 1]]
  BY <1>2 DEF FoldsTo, Sources
<1>5. max = [i \in Sources |->
               IF i = 0 THEN 0
               ELSE IF seq_after(t[i].seq, t[max[i - 1]].seq) THEN i ELSE max[i - 1]]
  BY <1>4 DEF max
<1>6. FoldsTo(t, N - 1, max)
  BY <1>5 DEF FoldsTo, Sources
<1> HIDE DEF max
<1> QED
  BY <1>3, <1>6

(* max_idx finds the newest entry of a combination, the first of them if   *)
(* there are several, whenever the comparison orders the stamps of its     *)
(* entries as the numbers r do.                                            *)
THEOREM MaxIdxIsNewest ==
  ASSUME NEW t, NEW r \in [Sources -> Int],
         \A i, j \in Sources : seq_after(t[i].seq, t[j].seq) <=> r[i] > r[j]
  PROVE  /\ MaxIdx(t) \in Sources
         /\ \A i \in Sources : r[i] <= r[MaxIdx(t)]
         /\ \A i \in Sources : i < MaxIdx(t) => r[i] < r[MaxIdx(t)]
<1>1. PICK g : FoldsTo(t, N - 1, g) /\ MaxIdx(t) = g[N - 1]
  BY MaxIdxFolds
<1> DEFINE Newest(n) == /\ g[n] \in 0 .. n
                        /\ \A i \in 0 .. n : r[i] <= r[g[n]]
                        /\ \A i \in 0 .. n : i < g[n] => r[i] < r[g[n]]
           Not == {n \in Sources : ~Newest(n)}
<1>2. \A n \in Sources :
        g[n] = IF n = 0 THEN 0
               ELSE IF seq_after(t[n].seq, t[g[n - 1]].seq) THEN n ELSE g[n - 1]
  BY <1>1 DEF FoldsTo, Sources
<1>3. Not = {}
  <2> SUFFICES ASSUME Not # {}
               PROVE  FALSE
    OBVIOUS
  <2>1. PICK n \in Not : \A m \in Not : n <= m
    <3>1. Not \in SUBSET Nat
      BY DEF Sources
    <3> HIDE DEF Not
    <3> QED
      BY <3>1, LeastNumber
  <2>2. CASE n = 0
    BY <1>2, <2>1, <2>2 DEF Sources
  <2>3. CASE n # 0
    <3>1. /\ n \in Nat /\ n - 1 \in Sources /\ n \in Sources
          /\ 0 .. n = (0 .. n - 1) \cup {n}
          /\ 0 .. n \subseteq Sources
      BY <2>1, <2>3, NAssumption DEF Sources
    <3>2. Newest(n - 1)
      <4>1. n - 1 \notin Not
        BY <2>1, <3>1
      <4> QED
        BY <3>1, <4>1
    <3> DEFINE m == g[n - 1]
    <3>3. m \in Sources /\ m \in 0 .. n - 1
      BY <3>1, <3>2
    <3>4. g[n] = IF r[n] > r[m] THEN n ELSE m
      BY <1>2, <2>3, <3>1, <3>3
    <3>5. r[n] \in Int /\ r[m] \in Int /\ \A i \in 0 .. n : r[i] \in Int
      BY <3>1, <3>3
    <3>6. CASE r[n] > r[m]
      BY <3>1, <3>2, <3>3, <3>4, <3>5, <3>6, <2>1
    <3>7. CASE ~(r[n] > r[m])
      BY <3>1, <3>2, <3>3, <3>4, <3>5, <3>7, <2>1
    <3> QED
      BY <3>6, <3>7
  <2> QED
    BY <2>2, <2>3
<1>4. N - 1 \in Sources /\ 0 .. (N - 1) = Sources
  BY NAssumption DEF Sources
<1>5. Newest(N - 1)
  BY <1>3, <1>4
<1> QED
  BY <1>1, <1>4, <1>5

-----------------------------------------------------------------------------
(* Operators of the policies and of the cross product.                     *)

LEMMA InitType == Init => TypeOK
<1>1. 0 \in Sources
  BY NAssumption DEF Sources
<1>2. AnyValue \in Values
  BY ValuesAssumption DEF AnyValue
<1>3. Start \in Stamp /\ StampAt(Start, 0) = Start /\ 0 \in 0 .. MaxAdds
  BY HalfAssumption, JoinAssumption DEF Stamp, StampAt
<1>4. NoEntries \in [Sources -> SUBSET Entry]
  BY DEF NoEntries
<1>5. NoEntries \in [Sources -> SUBSET Values]
  BY DEF NoEntries
<1> QED
  BY <1>1, <1>2, <1>3, <1>4, <1>5 DEF Init, TypeOK, Nothing

LEMMA VisibleType ==
  ASSUME TypeOK
  PROVE  [i \in Sources |-> Visible(i)] \in [Sources -> SUBSET Entry]
BY DEF TypeOK, Visible

LEMMA OwnType ==
  ASSUME TypeOK, NEW p \in Threads
  PROVE  Own(p) \in Entry
BY DEF TypeOK, Own, Entry

LEMMA CombinationsType ==
  ASSUME NEW S \in [Sources -> SUBSET Entry]
  PROVE  Combinations(S) \subseteq [Sources -> Entry]
<1> SUFFICES ASSUME NEW t \in Combinations(S)
             PROVE  t \in [Sources -> Entry]
  OBVIOUS
<1>1. t \in [Sources -> UNION {S[s] : s \in Sources}]
  BY DEF Combinations
<1>2. \A s \in Sources : t[s] \in Entry
  BY DEF Combinations
<1> QED
  BY <1>1, <1>2

(* A combination of smaller sets is a combination of larger ones.          *)
LEMMA CombinationsGrow ==
  ASSUME NEW S, NEW T, \A s \in Sources : S[s] \subseteq T[s]
  PROVE  Combinations(S) \subseteq Combinations(T)
<1> SUFFICES ASSUME NEW t \in Combinations(S)
             PROVE  t \in Combinations(T)
  OBVIOUS
<1>1. t \in [Sources -> UNION {S[s] : s \in Sources}]
  BY DEF Combinations
<1>2. \A s \in Sources : t[s] \in T[s]
  BY DEF Combinations
<1>3. \A s \in Sources : t[s] \in UNION {T[i] : i \in Sources}
  BY <1>2
<1>4. t \in [Sources -> UNION {T[i] : i \in Sources}]
  BY <1>1, <1>3
<1> QED
  BY <1>2, <1>4 DEF Combinations

LEMMA InsertedType ==
  ASSUME NEW policy, NEW S \in SUBSET Entry, NEW e \in Entry
  PROVE  Inserted(policy, S, e) \in SUBSET Entry
BY DEF Inserted

LEMMA PushedOutType ==
  ASSUME NEW policy, NEW S \in SUBSET Entry, NEW v
  PROVE  PushedOut(policy, S, v) \in SUBSET S
BY DEF PushedOut, Displaced

(* An accepted value pushes out of the store just what it displaces there. *)
LEMMA PushedOutOfStore ==
  ASSUME NEW policy \in Policies, NEW S, NEW T, S \subseteq T, NEW v,
         Accepts(policy, S, v)
  PROVE  PushedOut(policy, T, v) \cap S = Displaced(policy, S, v)
<1>1. CASE policy = "latest"
  BY <1>1 DEF PushedOut, Displaced, KeyedPolicies
<1>2. CASE policy \in UniquePolicies
  BY <1>2 DEF PushedOut, Displaced, UniquePolicies, KeyedPolicies
<1>3. CASE policy \in KeyedPolicies
  <2>1. \A f \in S : SameKey(f.val, v) => f.val # v
    BY <1>3 DEF Accepts, UniquePolicies, KeyedPolicies
  <2> QED
    BY <1>3, <2>1 DEF PushedOut, Displaced, KeyedPolicies
<1> QED
  BY <1>1, <1>2, <1>3 DEF Policies

LEMMA ErasedType ==
  ASSUME NEW policy, NEW S \in SUBSET Entry, NEW v
  PROVE  Erased(policy, S, v) \in SUBSET S
BY DEF Erased

-----------------------------------------------------------------------------
(* Types.                                                                  *)

LEMMA LeaveType ==
  ASSUME TypeOK, NEW p \in Threads, Leave(p)
  PROVE  /\ pc' \in [Threads -> {"idle", "insert", "snapshot", "emit"}]
         /\ src' \in [Threads -> Sources]
         /\ val' \in [Threads -> Values]
         /\ seq' \in [Threads -> Stamp]
         /\ left' \in [Threads -> SUBSET Sources]
         /\ snap' \in [Threads -> [Sources -> SUBSET Entry]]
         /\ found' \in [Threads -> [gone : [Sources -> SUBSET Entry],
                                    visible : [Sources -> SUBSET Entry]]]
         /\ pc'[p] = "idle" /\ \A q \in Threads \ {p} : pc'[q] = pc[q]
<1>1. 0 \in Sources
  BY NAssumption DEF Sources
<1>2. AnyValue \in Values
  BY ValuesAssumption DEF AnyValue
<1>3. NoEntries \in [Sources -> SUBSET Entry]
  BY DEF NoEntries
<1> QED
  BY <1>1, <1>2, <1>3, JoinAssumption DEF TypeOK, Leave, Nothing

LEMMA TypeStep == TypeOK /\ [Next]_vars => TypeOK'
<1> SUFFICES ASSUME TypeOK, [Next]_vars
             PROVE  TypeOK'
  OBVIOUS
<1>1. ASSUME NEW p \in Threads, NEW s \in Sources, NEW v \in Values,
             TakeSeq(p, s, v)
      PROVE  TypeOK'
  <2>1. adds \in 0 .. (2 * Half - 2) /\ adds + 1 \in 0 .. MaxAdds
    BY <1>1, HalfAssumption, JoinAssumption DEF TypeOK, TakeSeq
  <2>2. seq_counter \in Stamp
    BY <2>1, StampAtType, HalfAssumption, JoinAssumption DEF TypeOK
  <2>3. seq_counter' = StampAt(Start, adds')
    BY <1>1, <2>1, NextStampAt, JoinAssumption DEF TypeOK, TakeSeq
  <2>4. [i \in Sources |-> Visible(i)] \in [Sources -> SUBSET Entry]
    BY VisibleType
  <2>5. found' \in [Threads -> [gone : [Sources -> SUBSET Entry],
                                visible : [Sources -> SUBSET Entry]]]
    BY <1>1, <2>4 DEF TypeOK, TakeSeq
  <2> QED
    BY <1>1, <2>1, <2>2, <2>3, <2>5 DEF TypeOK, TakeSeq
<1>2. ASSUME NEW p \in Threads, Insert(p)
      PROVE  TypeOK'
  <2>1. src[p] \in Sources /\ store[src[p]] \in SUBSET Entry
        /\ accepted[src[p]] \in SUBSET Entry
    BY DEF TypeOK
  <2>2. Own(p) \in Entry
    BY OwnType
  <2>3. Inserted(Policy[src[p]], store[src[p]], Own(p)) \in SUBSET Entry
    BY <2>1, <2>2, InsertedType
  <2>4. PushedOut(Policy[src[p]], accepted[src[p]], val[p]) \in SUBSET Entry
    BY <2>1, PushedOutType
  <2> QED
    BY <1>2, <2>1, <2>2, <2>3, <2>4 DEF TypeOK, Insert, locals
<1>3. ASSUME NEW p \in Threads, Reject(p)
      PROVE  TypeOK'
  BY <1>3, LeaveType DEF TypeOK, Reject, history
<1>4. ASSUME NEW p \in Threads, NEW s \in Sources, SnapshotOne(p, s)
      PROVE  TypeOK'
  <2>1. Visible(s) \in SUBSET Entry
    BY DEF TypeOK, Visible
  <2>2. snap' \in [Threads -> [Sources -> SUBSET Entry]]
    BY <1>4, <2>1 DEF TypeOK, SnapshotOne
  <2>3. cross_product(snap'[p], src[p], seq[p]) \in SUBSET [Sources -> Entry]
    BY <2>2, CombinationsType DEF cross_product
  <2>4. /\ pc' \in [Threads -> {"idle", "insert", "snapshot", "emit"}]
        /\ todo' \in [Threads -> SUBSET [Sources -> Entry]]
        /\ \A q \in Threads : pc'[q] # "emit" => todo'[q] = {}
    <3>1. CASE left[p] = {s}
      <4>1. /\ pc' = [pc EXCEPT ![p] = "emit"]
            /\ todo' = [todo EXCEPT ![p] = cross_product(snap'[p], src[p], seq[p])]
        BY <1>4, <3>1 DEF SnapshotOne
      <4> HIDE DEF cross_product
      <4> QED
        BY <2>3, <4>1 DEF TypeOK
    <3>2. CASE left[p] # {s}
      BY <1>4, <3>2 DEF TypeOK, SnapshotOne
    <3> QED
      BY <3>1, <3>2
  <2> QED
    BY <1>4, <2>2, <2>4 DEF TypeOK, SnapshotOne, history
<1>5. ASSUME NEW p \in Threads, NEW t \in todo[p], Emit(p, t)
      PROVE  TypeOK'
  BY <1>5 DEF TypeOK, Emit
<1>6. ASSUME NEW p \in Threads, Return(p)
      PROVE  TypeOK'
  BY <1>6, LeaveType DEF TypeOK, Return, history
<1>7. ASSUME NEW s \in Sources, NEW v \in Values, Remove(s, v)
      PROVE  TypeOK'
  <2>1. store[s] \in SUBSET Entry /\ accepted[s] \in SUBSET Entry
    BY DEF TypeOK
  <2>2. Erased(Policy[s], accepted[s], v) \in SUBSET Entry
    BY <2>1, ErasedType
  <2> QED
    BY <1>7, <2>1, <2>2 DEF TypeOK, Remove, locals
<1>8. ASSUME NEW s \in Sources, NEW v \in Values, Die(s, v)
      PROVE  TypeOK'
  BY <1>8 DEF TypeOK, Die, locals
<1>9. ASSUME NEW s \in Sources, Clear(s)
      PROVE  TypeOK'
  BY <1>9 DEF TypeOK, Clear, locals
<1>10. CASE UNCHANGED vars
  BY <1>10 DEF TypeOK, vars, locals, history
<1> QED
  BY <1>1, <1>2, <1>3, <1>4, <1>5, <1>6, <1>7, <1>8, <1>9, <1>10
  DEF Next, Step

(* Type correctness, with the place of the shared counter.                 *)
THEOREM TypeCorrect == Spec => []TypeOK
BY InitType, TypeStep, PTL DEF Spec

-----------------------------------------------------------------------------
(* The inductive invariant.                                                *)

(* The stamps next() has returned. *)
Issued == {StampAt(Start, n) : n \in 0 .. (adds - 1)}

OwnerSeq(t) == t[MaxIdx(t)].seq

(* The adds under way hold stamps that were issued, each its own.          *)
SeqInv ==
  /\ \A p \in Threads : pc[p] # "idle" => seq[p] \in Issued
  /\ \A p, q \in Threads :
       p # q /\ pc[p] # "idle" /\ pc[q] # "idle" => seq[p] # seq[q]

(* An accepted entry has an issued stamp, which no add still to insert has.*)
AcceptedInv ==
  \A s \in Sources : \A e \in accepted[s] :
    /\ e.seq \in Issued
    /\ \A p \in Threads : pc[p] = "insert" => e.seq # seq[p]

(* What a thread is to emit it owns; what was emitted had an owner, and if *)
(* that add is still under way then it is past this combination.           *)
EmitInv ==
  /\ \A p \in Threads : \A t \in todo[p] : Owns(t, src[p], seq[p])
  /\ \A t \in emitted : OwnerSeq(t) \in Issued
  /\ \A p \in Threads : \A t \in emitted :
       pc[p] # "idle" /\ OwnerSeq(t) = seq[p] => pc[p] = "emit" /\ t \notin todo[p]

(* Nothing is stored, seen or about to be emitted that was not accepted.   *)
StoreInv ==
  /\ \A s \in Sources : store[s] \subseteq accepted[s]
  /\ \A p \in Threads : \A s \in Sources : snap[p][s] \subseteq accepted[s]
  /\ \A p \in Threads : todo[p] \subseteq Combinations(accepted)

IInv == TypeOK /\ SeqInv /\ AcceptedInv /\ EmitInv /\ StoreInv

LEMMA FreshStamp ==
  ASSUME TypeOK, adds < MaxAdds
  PROVE  seq_counter \notin Issued
<1> SUFFICES ASSUME NEW n \in 0 .. (adds - 1), seq_counter = StampAt(Start, n)
             PROVE  FALSE
  BY DEF Issued
<1>1. /\ adds \in 0 .. (2 * Half - 1)
      /\ n \in 0 .. (2 * Half - 1)
      /\ n # adds
  BY HalfAssumption, JoinAssumption DEF TypeOK
<1> QED
  BY <1>1, StampAtInjective, JoinAssumption DEF TypeOK

LEMMA IssuedGrows ==
  ASSUME TypeOK, adds' = adds + 1
  PROVE  Issued' = Issued \cup {seq_counter}
<1>1. adds \in Nat /\ seq_counter = StampAt(Start, adds)
  BY HalfAssumption, JoinAssumption DEF TypeOK
<1>2. 0 .. (adds' - 1) = 0 .. (adds - 1) \cup {adds}
  BY <1>1
<1> QED
  BY <1>1, <1>2 DEF Issued

LEMMA InitIInv == Init => IInv
<1> SUFFICES ASSUME Init
             PROVE  IInv
  OBVIOUS
<1>1. TypeOK
  BY InitType
<1>2. \A s \in Sources : NoEntries[s] = {}
  BY DEF NoEntries
<1> QED
  BY <1>1, <1>2 DEF Init, IInv, SeqInv, AcceptedInv, EmitInv, StoreInv

(* Leaving add keeps the invariant of the thread and touches no other.     *)
LEMMA LeaveIInv ==
  ASSUME IInv, TypeOK', NEW p \in Threads, Leave(p), todo[p] = {},
         UNCHANGED <<seq_counter, store, dead, todo, history>>
  PROVE  IInv'
<1> USE DEF IInv
<1>1. Issued' = Issued
  BY DEF Issued, history
<1>2. /\ pc'[p] = "idle"
      /\ \A q \in Threads \ {p} : /\ pc'[q] = pc[q] /\ seq'[q] = seq[q]
                                  /\ src'[q] = src[q] /\ snap'[q] = snap[q]
  BY DEF TypeOK, Leave
<1>3. \A s \in Sources : snap'[p][s] = {}
  BY DEF TypeOK, Leave, NoEntries
<1>4. SeqInv'
  BY <1>1, <1>2 DEF SeqInv
<1>5. AcceptedInv'
  BY <1>1, <1>2 DEF AcceptedInv, history
<1>6. EmitInv'
  BY <1>1, <1>2 DEF EmitInv, history
<1>7. StoreInv'
  BY <1>2, <1>3 DEF StoreInv, history
<1> QED
  BY <1>4, <1>5, <1>6, <1>7

LEMMA StepIInv == IInv /\ [Next]_vars => IInv'
<1> SUFFICES ASSUME IInv, [Next]_vars
             PROVE  IInv'
  OBVIOUS
<1> USE DEF IInv
<1>t. TypeOK'
  BY TypeStep
<1>1. ASSUME NEW p \in Threads, NEW s \in Sources, NEW v \in Values,
             TakeSeq(p, s, v)
      PROVE  IInv'
  <2>1. seq_counter \notin Issued
    BY <1>1, FreshStamp DEF TakeSeq
  <2>2. Issued' = Issued \cup {seq_counter}
    BY <1>1, IssuedGrows DEF TakeSeq
  <2>3. /\ pc[p] = "idle" /\ pc'[p] = "insert" /\ seq'[p] = seq_counter
        /\ todo[p] = {}
        /\ \A q \in Threads \ {p} : /\ pc'[q] = pc[q] /\ seq'[q] = seq[q]
                                    /\ src'[q] = src[q]
    BY <1>1 DEF TypeOK, TakeSeq
  <2>4. UNCHANGED <<store, snap, todo, accepted, emitted>>
    BY <1>1 DEF TakeSeq
  <2>5. SeqInv'
    BY <2>1, <2>2, <2>3 DEF SeqInv
  <2>6. AcceptedInv'
    BY <2>1, <2>2, <2>3, <2>4 DEF AcceptedInv
  <2>7. EmitInv'
    BY <2>1, <2>2, <2>3, <2>4 DEF EmitInv
  <2>8. StoreInv'
    BY <2>4 DEF StoreInv
  <2> QED
    BY <1>t, <2>5, <2>6, <2>7, <2>8
<1>2. ASSUME NEW p \in Threads, Insert(p)
      PROVE  IInv'
  <2>1. Issued' = Issued /\ UNCHANGED <<src, seq, snap, todo, emitted>>
    BY <1>2 DEF Issued, Insert, locals
  <2>2. /\ pc[p] = "insert" /\ pc'[p] = "snapshot" /\ todo[p] = {}
        /\ \A q \in Threads \ {p} : pc'[q] = pc[q]
    BY <1>2 DEF TypeOK, Insert
  <2>3. /\ src[p] \in Sources
        /\ accepted'[src[p]] = accepted[src[p]] \cup {Own(p)}
        /\ store'[src[p]] \subseteq store[src[p]] \cup {Own(p)}
        /\ \A s \in Sources \ {src[p]} : /\ accepted'[s] = accepted[s]
                                         /\ store'[s] = store[s]
    BY <1>2 DEF TypeOK, Insert, Inserted
  <2>4. Own(p).seq = seq[p]
    BY DEF Own
  <2>5. \A s \in Sources : accepted[s] \subseteq accepted'[s]
    BY <2>3
  <2>6. SeqInv'
    BY <2>1, <2>2 DEF SeqInv
  <2>7. AcceptedInv'
    BY <2>1, <2>2, <2>3, <2>4 DEF AcceptedInv, SeqInv
  <2>8. EmitInv'
    BY <2>1, <2>2 DEF EmitInv
  <2>9. Combinations(accepted) \subseteq Combinations(accepted')
    BY <2>5, CombinationsGrow
  <2>10. StoreInv'
    BY <2>1, <2>3, <2>5, <2>9 DEF StoreInv
  <2> QED
    BY <1>t, <2>6, <2>7, <2>8, <2>10
<1>3. ASSUME NEW p \in Threads, Reject(p)
      PROVE  IInv'
  BY <1>3, <1>t, LeaveIInv DEF Reject, TypeOK
<1>4. ASSUME NEW p \in Threads, NEW s \in Sources, SnapshotOne(p, s)
      PROVE  IInv'
  <2>1. /\ Issued' = Issued
        /\ UNCHANGED <<store, src, seq, accepted, emitted>>
    BY <1>4 DEF Issued, SnapshotOne, history
  <2>2. /\ pc[p] = "snapshot" /\ pc'[p] \in {"snapshot", "emit"}
        /\ todo[p] = {}
        /\ \A q \in Threads \ {p} : pc'[q] = pc[q] /\ todo'[q] = todo[q]
    BY <1>4 DEF TypeOK, SnapshotOne
  <2>3. \A q \in Threads : \A i \in Sources : snap'[q][i] \subseteq accepted[i]
    BY <1>4 DEF TypeOK, SnapshotOne, StoreInv, Visible
  <2>4. todo'[p] = {} \/ todo'[p] = cross_product(snap'[p], src[p], seq[p])
    <3>1. CASE left[p] = {s}
      <4>1. todo' = [todo EXCEPT ![p] = cross_product(snap'[p], src[p], seq[p])]
        BY <1>4, <3>1 DEF SnapshotOne
      <4> QED
        BY <4>1 DEF TypeOK
    <3>2. CASE left[p] # {s}
      BY <1>4, <2>2, <3>2 DEF SnapshotOne
    <3> QED
      BY <3>1, <3>2
  <2>5. cross_product(snap'[p], src[p], seq[p]) \subseteq Combinations(accepted)
    BY <2>3, CombinationsGrow DEF cross_product
  <2>6. \A t \in todo'[p] : Owns(t, src[p], seq[p])
    BY <2>4 DEF cross_product
  <2>7. SeqInv'
    BY <2>1, <2>2 DEF SeqInv
  <2>8. AcceptedInv'
    BY <2>1, <2>2 DEF AcceptedInv
  <2>9. EmitInv'
    BY <2>1, <2>2, <2>6 DEF EmitInv
  <2>10. StoreInv'
    BY <2>1, <2>2, <2>3, <2>4, <2>5 DEF StoreInv
  <2> QED
    BY <1>t, <2>7, <2>8, <2>9, <2>10
<1>5. ASSUME NEW p \in Threads, NEW t \in todo[p], Emit(p, t)
      PROVE  IInv'
  <2>1. Issued' = Issued /\ UNCHANGED <<store, pc, src, seq, snap, accepted>>
    BY <1>5 DEF Issued, Emit
  <2>2. /\ pc[p] = "emit" /\ emitted' = emitted \cup {t}
        /\ todo'[p] = todo[p] \ {t}
        /\ \A q \in Threads \ {p} : todo'[q] = todo[q]
    BY <1>5 DEF TypeOK, Emit
  <2>3. OwnerSeq(t) = seq[p] /\ OwnerSeq(t) \in Issued
    BY <2>2 DEF EmitInv, Owns, OwnerSeq, SeqInv
  <2>4. \A q \in Threads \ {p} : pc[q] # "idle" => seq[q] # seq[p]
    BY <2>2 DEF SeqInv
  <2>5. SeqInv' /\ AcceptedInv'
    BY <2>1 DEF SeqInv, AcceptedInv
  <2>6. EmitInv'
    BY <2>1, <2>2, <2>3, <2>4 DEF EmitInv
  <2>7. StoreInv'
    BY <2>1, <2>2 DEF StoreInv
  <2> QED
    BY <1>t, <2>5, <2>6, <2>7
<1>6. ASSUME NEW p \in Threads, Return(p)
      PROVE  IInv'
  BY <1>6, <1>t, LeaveIInv DEF Return
<1>7. ASSUME NEW s \in Sources, NEW v \in Values, Remove(s, v)
      PROVE  IInv'
  <2>1. /\ Issued' = Issued
        /\ UNCHANGED <<pc, src, seq, snap, todo, accepted, emitted>>
    BY <1>7 DEF Issued, Remove, locals
  <2>2. \A i \in Sources : store'[i] \subseteq store[i]
    BY <1>7 DEF TypeOK, Remove
  <2>3. SeqInv' /\ AcceptedInv' /\ EmitInv'
    BY <2>1 DEF SeqInv, AcceptedInv, EmitInv
  <2>4. StoreInv'
    BY <2>1, <2>2 DEF StoreInv
  <2> QED
    BY <1>t, <2>3, <2>4
<1>8. ASSUME NEW s \in Sources, NEW v \in Values, Die(s, v)
      PROVE  IInv'
  <2>1. /\ Issued' = Issued
        /\ UNCHANGED <<store, pc, src, seq, snap, todo, accepted, emitted>>
    BY <1>8 DEF Issued, Die, locals
  <2> QED
    BY <1>t, <2>1 DEF SeqInv, AcceptedInv, EmitInv, StoreInv
<1>9. ASSUME NEW s \in Sources, Clear(s)
      PROVE  IInv'
  <2>1. /\ Issued' = Issued
        /\ UNCHANGED <<pc, src, seq, snap, todo, accepted, emitted>>
    BY <1>9 DEF Issued, Clear, locals
  <2>2. \A i \in Sources : store'[i] \subseteq store[i]
    BY <1>9 DEF TypeOK, Clear
  <2>3. SeqInv' /\ AcceptedInv' /\ EmitInv'
    BY <2>1 DEF SeqInv, AcceptedInv, EmitInv
  <2>4. StoreInv'
    BY <2>1, <2>2 DEF StoreInv
  <2> QED
    BY <1>t, <2>3, <2>4
<1>10. CASE UNCHANGED vars
  <2>1. /\ Issued' = Issued
        /\ UNCHANGED <<store, pc, src, seq, snap, todo, accepted, emitted>>
    BY <1>10 DEF Issued, vars, locals, history
  <2> QED
    BY <1>t, <2>1 DEF SeqInv, AcceptedInv, EmitInv, StoreInv
<1> QED
  BY <1>1, <1>2, <1>3, <1>4, <1>5, <1>6, <1>7, <1>8, <1>9, <1>10
  DEF Next, Step

THEOREM InvariantHolds == Spec => []IInv
BY InitIInv, StepIInv, PTL DEF Spec

(* No callback gets a combination that some callback got before.  At a     *)
(* call, EmitInv gives the combination to the thread's own stamp, and had  *)
(* it been emitted, it would no longer be in the thread's todo.            *)
THEOREM NeverTwice == Spec => AtMostOnce
<1>1. IInv /\ [Next]_vars =>
        [\A p \in Threads : \A t \in todo[p] : Emit(p, t) => t \notin emitted]_vars
  <2> SUFFICES ASSUME IInv, NEW p \in Threads, NEW t \in todo[p], Emit(p, t)
               PROVE  t \notin emitted
    OBVIOUS
  <2>1. OwnerSeq(t) = seq[p]
    BY DEF IInv, EmitInv, Owns, OwnerSeq
  <2> QED
    BY <2>1 DEF IInv, EmitInv, Emit
<1> QED
  BY <1>1, InvariantHolds, PTL DEF Spec, AtMostOnce

(* NJoin implements its contract.                                          *)
THEOREM ContractKept == Spec => Implements
<1>1. Init => Contract!Init
  BY DEF Init, Contract!Init, NoEntries
<1>2. IInv /\ TypeOK' /\ [Next]_vars => [Contract!Next]_<<accepted, emitted, calls>>
  <2> SUFFICES ASSUME IInv, TypeOK', [Next]_vars
               PROVE  Contract!Next \/ UNCHANGED <<accepted, emitted, calls>>
    OBVIOUS
  <2> USE DEF IInv
  <2>1. ASSUME NEW p \in Threads, Insert(p)
        PROVE  Contract!Next
    <3>1. src[p] \in Sources /\ Own(p) \in Entry
      BY OwnType DEF TypeOK
    <3>2. \A i \in Sources : \A f \in accepted[i] : f.seq # Own(p).seq
      BY <2>1 DEF AcceptedInv, Insert, Own
    <3>3. Contract!Accept(src[p], Own(p))
      BY <2>1, <3>2 DEF Contract!Accept, Insert
    <3> QED
      BY <3>1, <3>3 DEF Contract!Next
  <2>2. ASSUME NEW p \in Threads, NEW t \in todo[p], Emit(p, t)
        PROVE  Contract!Next
    <3>1. /\ t \in [Sources -> UNION {accepted[s] : s \in Sources}]
          /\ \A s \in Sources : t[s] \in accepted[s]
      BY DEF StoreInv, Combinations
    <3>2. OwnerSeq(t) = seq[p]
      BY DEF EmitInv, Owns, OwnerSeq
    <3>3. t \notin emitted
      BY <2>2, <3>2 DEF EmitInv, Emit
    <3>4. Contract!Call(t)
      BY <2>2, <3>1, <3>3 DEF Contract!Call, Emit
    <3> QED
      BY <3>1, <3>4 DEF Contract!Next
  <2>3. ASSUME NEW p \in Threads,
               Reject(p) \/ Return(p) \/ \E s \in Sources : SnapshotOne(p, s)
        PROVE  UNCHANGED <<accepted, emitted, calls>>
    BY <2>3 DEF Reject, Return, SnapshotOne, history
  <2>4. ASSUME NEW s \in Sources, NEW v \in Values,
               Clear(s) \/ Remove(s, v) \/ Die(s, v)
                 \/ \E p \in Threads : TakeSeq(p, s, v)
        PROVE  UNCHANGED <<accepted, emitted, calls>>
    BY <2>4 DEF Clear, Remove, Die, TakeSeq
  <2>5. CASE UNCHANGED vars
    BY <2>5 DEF vars, history
  <2> QED
    BY <2>1, <2>2, <2>3, <2>4, <2>5, ValuesAssumption DEF Next, Step
<1>3. Spec => []TypeOK
  BY TypeCorrect
<1> QED
  BY <1>1, <1>2, <1>3, InvariantHolds, PTL
  DEF Spec, Implements, Contract!Spec

-----------------------------------------------------------------------------
(* Removal, overwriting and death are final for the adds that begin later. *)

GoneInv ==
  /\ \A s \in Sources : gone[s] \subseteq accepted[s]
  /\ \A s \in Sources : \A e \in store[s] : e \in gone[s] => e.val \in dead[s]
  /\ \A p \in Threads : \A s \in Sources :
       /\ found[p].gone[s] \subseteq gone[s]
       /\ snap[p][s] \cap found[p].gone[s] = {}
       /\ pc[p] = "idle" \/ pc[p] = "insert" => snap[p][s] = {}
  /\ NoStaleMember

LEMMA InitGoneInv == Init => GoneInv
<1> SUFFICES ASSUME Init
             PROVE  GoneInv
  OBVIOUS
<1>1. \A s \in Sources : NoEntries[s] = {}
  BY DEF NoEntries
<1> QED
  BY <1>1 DEF Init, GoneInv, NoStaleMember, Nothing

(* What a snapshot shows is not gone. *)
LEMMA VisibleNotGone ==
  ASSUME GoneInv, NEW s \in Sources
  PROVE  Visible(s) \cap gone[s] = {}
BY DEF GoneInv, Visible

LEMMA LeaveGoneInv ==
  ASSUME IInv, GoneInv, NEW p \in Threads, Leave(p), todo[p] = {},
         UNCHANGED <<seq_counter, store, dead, todo, history>>
  PROVE  GoneInv'
<1>1. UNCHANGED <<store, dead, todo, accepted, gone>>
  BY DEF history
<1>2. \A q \in Threads \ {p} : /\ pc'[q] = pc[q] /\ snap'[q] = snap[q]
                               /\ found'[q] = found[q]
  BY DEF IInv, TypeOK, Leave
<1>3. \A s \in Sources : snap'[p][s] = {} /\ found'[p].gone[s] = {}
  BY DEF IInv, TypeOK, Leave, NoEntries, Nothing
<1> QED
  BY <1>1, <1>2, <1>3 DEF GoneInv, NoStaleMember

LEMMA StepGoneInv == IInv /\ GoneInv /\ [Next]_vars => GoneInv'
<1> SUFFICES ASSUME IInv, GoneInv, [Next]_vars
             PROVE  GoneInv'
  OBVIOUS
<1>t. TypeOK
  BY DEF IInv
<1>1. ASSUME NEW p \in Threads, NEW s \in Sources, NEW v \in Values,
             TakeSeq(p, s, v)
      PROVE  GoneInv'
  <2>1. UNCHANGED <<store, dead, snap, todo, accepted, gone>>
    BY <1>1 DEF TakeSeq
  <2>2. /\ pc[p] = "idle" /\ todo[p] = {} /\ found'[p].gone = gone
        /\ \A q \in Threads \ {p} : pc'[q] = pc[q] /\ found'[q] = found[q]
    BY <1>1, <1>t DEF TypeOK, TakeSeq
  <2> QED
    BY <2>1, <2>2 DEF GoneInv, NoStaleMember
<1>2. ASSUME NEW p \in Threads, Insert(p)
      PROVE  GoneInv'
  <2> DEFINE i == src[p]
             out(S) == Displaced(Policy[i], S, val[p])
             lost == PushedOut(Policy[i], accepted[i], val[p])
  <2>1. UNCHANGED <<dead, snap, todo, found>>
    BY <1>2 DEF Insert, locals
  <2>2. /\ pc[p] = "insert" /\ pc'[p] = "snapshot"
        /\ \A q \in Threads \ {p} : pc'[q] = pc[q]
    BY <1>2, <1>t DEF TypeOK, Insert
  <2>3. /\ i \in Sources
        /\ accepted'[i] = accepted[i] \cup {Own(p)}
        /\ gone'[i] = gone[i] \cup lost
        /\ store'[i] = (store[i] \ out(store[i])) \cup {Own(p)}
        /\ \A s \in Sources \ {i} :
             accepted'[s] = accepted[s] /\ gone'[s] = gone[s] /\ store'[s] = store[s]
    BY <1>2, <1>t DEF TypeOK, Insert, Inserted, Own
  <2>4. lost \subseteq accepted[i]
    BY DEF PushedOut, Displaced
  <2>5. Own(p) \notin gone'[i]
    BY <2>2, <2>3, <2>4 DEF IInv, AcceptedInv, GoneInv, Own
  <2>6. lost \cap store[i] = out(store[i])
    BY <1>2, <2>3, PushedOutOfStore, JoinAssumption DEF Insert, IInv, StoreInv
  <2>7. \A s \in Sources : gone[s] \subseteq gone'[s]
    BY <2>3
  <2> HIDE DEF i, out, lost
  <2>8. \A s \in Sources : \A e \in store'[s] : e \in gone'[s] => e.val \in dead'[s]
    BY <2>1, <2>3, <2>5, <2>6 DEF GoneInv
  <2>9. \A s \in Sources : gone'[s] \subseteq accepted'[s]
    BY <2>3, <2>4 DEF GoneInv
  <2> QED
    BY <2>1, <2>2, <2>7, <2>8, <2>9 DEF GoneInv, NoStaleMember
<1>3. ASSUME NEW p \in Threads, Reject(p)
      PROVE  GoneInv'
  BY <1>3, <1>t, LeaveGoneInv DEF Reject, TypeOK
<1>4. ASSUME NEW p \in Threads, NEW s \in Sources, SnapshotOne(p, s)
      PROVE  GoneInv'
  <2>1. UNCHANGED <<store, dead, accepted, gone, found>>
    BY <1>4 DEF SnapshotOne, history
  <2>2. /\ pc[p] = "snapshot" /\ pc'[p] \in {"snapshot", "emit"}
        /\ todo[p] = {}
        /\ \A q \in Threads \ {p} : /\ pc'[q] = pc[q] /\ todo'[q] = todo[q]
                                    /\ snap'[q] = snap[q]
    BY <1>4, <1>t DEF TypeOK, SnapshotOne
  <2>3. snap'[p][s] = Visible(s) /\ \A i \in Sources \ {s} : snap'[p][i] = snap[p][i]
    BY <1>4, <1>t DEF TypeOK, SnapshotOne
  <2>4. \A i \in Sources : snap'[p][i] \cap found[p].gone[i] = {}
    BY <2>3, VisibleNotGone DEF GoneInv
  <2>5. todo'[p] = {} \/ todo'[p] = cross_product(snap'[p], src[p], seq[p])
    <3>1. CASE left[p] = {s}
      <4>1. todo' = [todo EXCEPT ![p] = cross_product(snap'[p], src[p], seq[p])]
        BY <1>4, <3>1 DEF SnapshotOne
      <4> QED
        BY <4>1, <1>t DEF TypeOK
    <3>2. CASE left[p] # {s}
      BY <1>4, <2>2, <3>2 DEF SnapshotOne
    <3> QED
      BY <3>1, <3>2
  <2>6. \A t \in todo'[p] : \A i \in Sources : t[i] \in snap'[p][i]
    BY <2>5 DEF cross_product, Combinations
  <2> QED
    BY <2>1, <2>2, <2>4, <2>6 DEF GoneInv, NoStaleMember
<1>5. ASSUME NEW p \in Threads, NEW t \in todo[p], Emit(p, t)
      PROVE  GoneInv'
  <2>1. UNCHANGED <<store, dead, pc, snap, accepted, gone, found>>
    BY <1>5 DEF Emit
  <2>2. \A q \in Threads : todo'[q] \subseteq todo[q]
    BY <1>5, <1>t DEF Emit, TypeOK
  <2> QED
    BY <2>1, <2>2 DEF GoneInv, NoStaleMember
<1>6. ASSUME NEW p \in Threads, Return(p)
      PROVE  GoneInv'
  BY <1>6, LeaveGoneInv DEF Return
<1>7. ASSUME NEW s \in Sources, NEW v \in Values, Remove(s, v)
      PROVE  GoneInv'
  <2>1. UNCHANGED <<dead, pc, snap, todo, accepted, found>>
    BY <1>7 DEF Remove, locals
  <2>2. /\ store'[s] = store[s] \ Erased(Policy[s], store[s], v)
        /\ gone'[s] = gone[s] \cup Erased(Policy[s], accepted[s], v)
        /\ \A i \in Sources \ {s} : store'[i] = store[i] /\ gone'[i] = gone[i]
    BY <1>7, <1>t DEF Remove, TypeOK
  <2>3. /\ Erased(Policy[s], accepted[s], v) \subseteq accepted[s]
        /\ Erased(Policy[s], accepted[s], v) \cap store[s]
             = Erased(Policy[s], store[s], v)
    BY DEF Erased, IInv, StoreInv
  <2> QED
    BY <2>1, <2>2, <2>3 DEF GoneInv, NoStaleMember
<1>8. ASSUME NEW s \in Sources, NEW v \in Values, Die(s, v)
      PROVE  GoneInv'
  <2>1. UNCHANGED <<store, pc, snap, todo, accepted, found>>
    BY <1>8 DEF Die, locals
  <2>2. /\ dead'[s] = dead[s] \cup {v}
        /\ gone'[s] = gone[s] \cup {e \in accepted[s] : e.val = v}
        /\ \A i \in Sources \ {s} : dead'[i] = dead[i] /\ gone'[i] = gone[i]
    BY <1>8, <1>t DEF Die, TypeOK
  <2> QED
    BY <2>1, <2>2 DEF GoneInv, NoStaleMember
<1>9. ASSUME NEW s \in Sources, Clear(s)
      PROVE  GoneInv'
  <2>1. UNCHANGED <<dead, pc, snap, todo, accepted, found>>
    BY <1>9 DEF Clear, locals
  <2>2. /\ store'[s] = {} /\ gone'[s] = accepted[s]
        /\ \A i \in Sources \ {s} : store'[i] = store[i] /\ gone'[i] = gone[i]
    BY <1>9, <1>t DEF Clear, TypeOK
  <2> QED
    BY <2>1, <2>2 DEF GoneInv, NoStaleMember
<1>10. CASE UNCHANGED vars
  BY <1>10 DEF GoneInv, NoStaleMember, vars, locals, history
<1> QED
  BY <1>1, <1>2, <1>3, <1>4, <1>5, <1>6, <1>7, <1>8, <1>9, <1>10
  DEF Next, Step

(* No add emits an entry that was removed, cleared, overwritten or dead    *)
(* before the add began.                                                   *)
THEOREM NothingStale == Spec => []NoStaleMember
<1>1. GoneInv => NoStaleMember
  BY DEF GoneInv
<1> QED
  BY <1>1, InitGoneInv, StepGoneInv, InvariantHolds, PTL DEF Spec

-----------------------------------------------------------------------------
(* Once per values.  What was accepted and is not gone is still held, so   *)
(* that a policy that accepts a value holds no other entry with it.        *)
HeldInv ==
  \A s \in Sources :
    /\ accepted[s] \subseteq store[s] \cup gone[s]
    /\ \A e, f \in accepted[s] : e.val = f.val => e = f \/ {e, f} \cap gone[s] # {}

EmittedAccepted == \A t \in emitted : \A s \in Sources : t[s] \in accepted[s]

LEMMA InitHeldInv == Init => HeldInv
<1>1. \A s \in Sources : NoEntries[s] = {}
  BY DEF NoEntries
<1> QED
  BY <1>1 DEF Init, HeldInv

(* An accepted value is of no entry that stays held.                       *)
LEMMA AcceptedIsNew ==
  ASSUME NEW policy \in Policies, NEW S, NEW T, NEW v, Accepts(policy, S, v)
  PROVE  \A e \in S \cap T : e.val = v => e \in PushedOut(policy, T, v)
<1>1. CASE policy = "latest"
  BY <1>1 DEF PushedOut, Displaced, KeyedPolicies
<1>2. CASE policy \in UniquePolicies
  BY <1>2 DEF Accepts, UniquePolicies, KeyedPolicies
<1>3. CASE policy \in KeyedPolicies
  BY <1>3 DEF Accepts, SameKey, UniquePolicies, KeyedPolicies
<1> QED
  BY <1>1, <1>2, <1>3 DEF Policies

LEMMA StepHeldInv == IInv /\ HeldInv /\ [Next]_vars => HeldInv'
<1> SUFFICES ASSUME IInv, HeldInv, [Next]_vars
             PROVE  HeldInv'
  OBVIOUS
<1>t. TypeOK
  BY DEF IInv
<1>1. ASSUME UNCHANGED <<store, accepted, gone>>
      PROVE  HeldInv'
  BY <1>1 DEF HeldInv
<1>2. ASSUME NEW p \in Threads, Insert(p)
      PROVE  HeldInv'
  <2> DEFINE i == src[p]
             out(S) == Displaced(Policy[i], S, val[p])
             lost == PushedOut(Policy[i], accepted[i], val[p])
  <2>1. i \in Sources /\ Policy[i] \in Policies /\ Own(p).val = val[p]
    BY <1>t, JoinAssumption DEF TypeOK, Own
  <2>2. /\ store'[i] = (store[i] \ out(store[i])) \cup {Own(p)}
        /\ accepted'[i] = accepted[i] \cup {Own(p)}
        /\ gone'[i] = gone[i] \cup lost
        /\ \A s \in Sources \ {i} : /\ store'[s] = store[s]
                                    /\ accepted'[s] = accepted[s]
                                    /\ gone'[s] = gone[s]
    BY <1>2, <1>t, <2>1 DEF Insert, Inserted, TypeOK
  <2>3. out(store[i]) \subseteq lost
    BY <1>2, <2>1, PushedOutOfStore DEF Insert, IInv, StoreInv
  <2>4. \A e \in store[i] \cap accepted[i] : e.val = val[p] => e \in lost
    BY <1>2, <2>1, AcceptedIsNew DEF Insert
  <2> HIDE DEF i, out, lost
  <2>5. accepted'[i] \subseteq store'[i] \cup gone'[i]
    BY <2>1, <2>2, <2>3 DEF HeldInv
  <2>6. \A e \in accepted[i] : e.val = val[p] => e \in gone'[i]
    BY <2>1, <2>2, <2>4 DEF HeldInv
  <2>7. \A e, f \in accepted'[i] : e.val = f.val => e = f \/ {e, f} \cap gone'[i] # {}
    BY <2>1, <2>2, <2>6 DEF HeldInv
  <2> QED
    BY <2>1, <2>2, <2>5, <2>7 DEF HeldInv
<1>3. ASSUME NEW s \in Sources, NEW v \in Values, Remove(s, v)
      PROVE  HeldInv'
  <2>1. /\ store'[s] = store[s] \ Erased(Policy[s], store[s], v)
        /\ gone'[s] = gone[s] \cup Erased(Policy[s], accepted[s], v)
        /\ \A i \in Sources \ {s} : store'[i] = store[i] /\ gone'[i] = gone[i]
        /\ accepted' = accepted
    BY <1>3, <1>t DEF Remove, TypeOK
  <2>2. accepted[s] \cap Erased(Policy[s], store[s], v)
          \subseteq Erased(Policy[s], accepted[s], v)
    BY DEF Erased
  <2> QED
    BY <2>1, <2>2 DEF HeldInv
<1>4. ASSUME NEW s \in Sources, NEW v \in Values, Die(s, v)
      PROVE  HeldInv'
  <2>1. /\ gone[s] \subseteq gone'[s]
        /\ \A i \in Sources \ {s} : gone'[i] = gone[i]
        /\ store' = store /\ accepted' = accepted
    BY <1>4, <1>t DEF Die, TypeOK
  <2> QED
    BY <2>1 DEF HeldInv
<1>5. ASSUME NEW s \in Sources, Clear(s)
      PROVE  HeldInv'
  <2>1. /\ gone'[s] = accepted[s] /\ accepted' = accepted
        /\ \A i \in Sources \ {s} : store'[i] = store[i] /\ gone'[i] = gone[i]
    BY <1>5, <1>t DEF Clear, TypeOK
  <2> QED
    BY <2>1 DEF HeldInv
<1>6. ASSUME NEW p \in Threads, NEW s \in Sources, NEW v \in Values, TakeSeq(p, s, v)
      PROVE  HeldInv'
  BY <1>6, <1>1 DEF TakeSeq
<1>7. ASSUME NEW p \in Threads, Reject(p) \/ Return(p)
      PROVE  HeldInv'
  BY <1>7, <1>1 DEF Reject, Return, history
<1>8. ASSUME NEW p \in Threads,
             \/ \E s \in Sources : SnapshotOne(p, s)
             \/ \E t \in todo[p] : Emit(p, t)
      PROVE  HeldInv'
  BY <1>8, <1>1 DEF SnapshotOne, Emit, history
<1>9. CASE UNCHANGED vars
  BY <1>9, <1>1 DEF vars, history
<1> QED
  BY <1>2, <1>3, <1>4, <1>5, <1>6, <1>7, <1>8, <1>9 DEF Next, Step

LEMMA StepEmittedAccepted ==
  IInv /\ EmittedAccepted /\ [Next]_vars => EmittedAccepted'
<1> SUFFICES ASSUME IInv, EmittedAccepted, [Next]_vars
             PROVE  EmittedAccepted'
  OBVIOUS
<1>1. ASSUME NEW p \in Threads, Insert(p)
      PROVE  EmittedAccepted'
  <2>1. emitted' = emitted /\ \A s \in Sources : accepted[s] \subseteq accepted'[s]
    BY <1>1 DEF Insert, IInv, TypeOK
  <2> QED
    BY <2>1 DEF EmittedAccepted
<1>2. ASSUME NEW p \in Threads, NEW t \in todo[p], Emit(p, t)
      PROVE  EmittedAccepted'
  <2>1. \A s \in Sources : t[s] \in accepted[s]
    BY DEF IInv, StoreInv, Combinations
  <2>2. emitted' = emitted \cup {t} /\ accepted' = accepted
    BY <1>2 DEF Emit
  <2> QED
    BY <2>1, <2>2 DEF EmittedAccepted
<1>3. ASSUME UNCHANGED <<accepted, emitted>>
      PROVE  EmittedAccepted'
  BY <1>3 DEF EmittedAccepted
<1>4. ASSUME NEW p \in Threads,
             Reject(p) \/ Return(p) \/ \E s \in Sources : SnapshotOne(p, s)
      PROVE  EmittedAccepted'
  BY <1>3, <1>4 DEF Reject, Return, SnapshotOne, history
<1>5. ASSUME NEW s \in Sources, NEW v \in Values,
             Remove(s, v) \/ Die(s, v) \/ \E p \in Threads : TakeSeq(p, s, v)
      PROVE  EmittedAccepted'
  BY <1>3, <1>5 DEF Remove, Die, TakeSeq
<1>6. ASSUME NEW s \in Sources, Clear(s)
      PROVE  EmittedAccepted'
  BY <1>3, <1>6 DEF Clear
<1>7. CASE UNCHANGED vars
  BY <1>3, <1>7 DEF vars, history
<1> QED
  BY <1>1, <1>2, <1>4, <1>5, <1>6, <1>7 DEF Next, Step

LEMMA EmittedWasAccepted == Spec => []EmittedAccepted
<1>1. Init => EmittedAccepted
  BY DEF Init, EmittedAccepted
<1> QED
  BY <1>1, StepEmittedAccepted, InvariantHolds, PTL DEF Spec

(* Two combinations of the same values differ only in members of which one *)
(* was overwritten, removed, cleared or dead.                              *)
THEOREM NeverTwiceTheValues == Spec => []OncePerValues
<1>1. EmittedAccepted /\ IInv /\ HeldInv => OncePerValues
  <2> SUFFICES ASSUME EmittedAccepted, IInv, HeldInv,
                      NEW t \in emitted \cup UNION {todo[p] : p \in Threads},
                      NEW u \in emitted \cup UNION {todo[p] : p \in Threads},
                      \A s \in Sources : t[s].val = u[s].val,
                      NEW s \in Sources
               PROVE  t[s] = u[s] \/ {t[s], u[s]} \cap gone[s] # {}
    BY DEF OncePerValues
  <2>1. \A p \in Threads : \A c \in todo[p] : c[s] \in accepted[s]
    BY DEF IInv, StoreInv, Combinations
  <2>2. t[s] \in accepted[s] /\ u[s] \in accepted[s]
    BY <2>1 DEF EmittedAccepted
  <2> QED
    BY <2>2 DEF HeldInv
<1> QED
  BY <1>1, InitHeldInv, StepHeldInv, EmittedWasAccepted, InvariantHolds, PTL DEF Spec

-----------------------------------------------------------------------------
(* Order.  The number of a stamp among the calls of next() orders stamps   *)
(* as the comparison does, so the newest entry is the last one issued.     *)

LEMMA IssueIndexOf ==
  ASSUME NEW n \in 0 .. (2 * Half - 1)
  PROVE  IssueIndex(StampAt(Start, n)) = n
BY HalfAssumption, JoinAssumption DEF IssueIndex, Distance, StampAt, Stamp

LEMMA IssuedOrder ==
  ASSUME TypeOK, NEW a \in Issued, NEW b \in Issued
  PROVE  /\ IssueIndex(a) \in 0 .. (adds - 1)
         /\ seq_after(a, b) <=> IssueIndex(a) > IssueIndex(b)
         /\ IssueIndex(a) = IssueIndex(b) => a = b
<1>1. adds \in Nat /\ adds <= Half /\ Half \in Nat \ {0}
  BY HalfAssumption, JoinAssumption DEF TypeOK
<1>2. PICK m \in 0 .. (adds - 1) : a = StampAt(Start, m)
  BY DEF Issued
<1>3. PICK n \in 0 .. (adds - 1) : b = StampAt(Start, n)
  BY DEF Issued
<1>4. m \in 0 .. (2 * Half - 1) /\ n \in 0 .. (2 * Half - 1)
      /\ m - n < Half /\ n - m < Half
  BY <1>1
<1>5. IssueIndex(a) = m /\ IssueIndex(b) = n
  BY <1>2, <1>3, <1>4, IssueIndexOf
<1>6. seq_after(a, b) <=> m > n
  BY <1>2, <1>3, <1>4, SeqAfterIsIssueOrder, JoinAssumption
<1> QED
  BY <1>2, <1>3, <1>5, <1>6

(* Entries of different sources have different stamps, and what an add     *)
(* found when it began is older than the stamp it took.                    *)
OrderInv ==
  /\ \A s, i \in Sources : \A e \in accepted[s], f \in accepted[i] :
       e.seq = f.seq => s = i
  /\ \A p \in Threads : pc[p] # "idle" =>
       \A s \in Sources : \A e \in found[p].visible[s] :
         e \in accepted[s] /\ IssueIndex(e.seq) < IssueIndex(seq[p])

(* The part of what p has to combine that has not been pushed out.         *)
Kept(p, s) ==
  (IF s = src[p] THEN {Own(p)} ELSE found[p].visible[s]) \cap Visible(s)

(* A snapshot taken holds all that was to be seen in it and still is, and  *)
(* so with the last snapshot the combinations of that are there to emit.   *)
SettledAt(p) ==
  /\ pc[p] = "idle" \/ pc[p] = "insert" => left[p] = Sources
  /\ pc[p] # "idle" => \A s \in Sources \ left[p] : Kept(p, s) \subseteq snap[p][s]
  /\ pc[p] = "emit" /\ Own(p) \in Visible(src[p]) =>
       Combinations([s \in Sources |-> Kept(p, s)]) \subseteq todo[p] \cup emitted

SettledInv == \A p \in Threads : SettledAt(p)

(* What an add owns is no older than any entry of the combination, and     *)
(* only one entry has its stamp.                                           *)
LEMMA NewestIsOwner ==
  ASSUME TypeOK, AcceptedInv, OrderInv, NEW t \in Combinations(accepted)
  PROVE  /\ MaxIdx(t) \in Sources
         /\ \A s \in Sources \ {MaxIdx(t)} :
              IssueIndex(t[s].seq) < IssueIndex(OwnerSeq(t))
<1> DEFINE r == [s \in Sources |-> IssueIndex(t[s].seq)]
<1>1. \A s \in Sources : t[s] \in accepted[s] /\ t[s].seq \in Issued
  BY DEF Combinations, AcceptedInv
<1>2. r \in [Sources -> Int]
  BY <1>1, IssuedOrder
<1>3. \A i, j \in Sources : seq_after(t[i].seq, t[j].seq) <=> r[i] > r[j]
  BY <1>1, IssuedOrder
<1> DEFINE m == MaxIdx(t)
<1>4. /\ m \in Sources
      /\ \A i \in Sources : r[i] <= r[m]
  <2> HIDE DEF r, m
  <2> QED
    BY <1>2, <1>3, MaxIdxIsNewest DEF m
<1>5. ASSUME NEW s \in Sources \ {m}
      PROVE  r[s] < r[m]
  <2>1. t[s].seq # t[m].seq
    BY <1>1, <1>4, <1>5 DEF OrderInv
  <2>2. r[s] # r[m]
    BY <1>1, <1>4, <2>1, IssuedOrder
  <2>3. r[s] \in Int /\ r[m] \in Int /\ r[s] <= r[m]
    BY <1>2, <1>4
  <2> HIDE DEF r, m
  <2> QED
    BY <2>2, <2>3
<1> QED
  BY <1>4, <1>5 DEF OwnerSeq

(* Leaving add touches no other thread. *)
LEMMA LeaveFrame ==
  ASSUME TypeOK, NEW p \in Threads, Leave(p)
  PROVE  /\ pc'[p] = "idle" /\ left'[p] = Sources
         /\ \A q \in Threads \ {p} :
              /\ pc'[q] = pc[q] /\ src'[q] = src[q] /\ val'[q] = val[q]
              /\ seq'[q] = seq[q] /\ left'[q] = left[q] /\ snap'[q] = snap[q]
              /\ found'[q] = found[q]
BY DEF TypeOK, Leave

LEMMA InitOrderInv == Init => OrderInv /\ SettledInv
<1>1. \A s \in Sources : NoEntries[s] = {}
  BY DEF NoEntries
<1> QED
  BY <1>1 DEF Init, OrderInv, SettledInv, SettledAt

LEMMA StepOrderInv == IInv /\ OrderInv /\ [Next]_vars => OrderInv'
<1> SUFFICES ASSUME IInv, OrderInv, [Next]_vars
             PROVE  OrderInv'
  OBVIOUS
<1>t. TypeOK
  BY DEF IInv
<1>1. ASSUME NEW p \in Threads, NEW s \in Sources, NEW v \in Values,
             TakeSeq(p, s, v)
      PROVE  OrderInv'
  <2>1. /\ accepted' = accepted /\ seq'[p] = seq_counter
        /\ found'[p].visible = [i \in Sources |-> Visible(i)]
        /\ \A q \in Threads \ {p} : /\ pc'[q] = pc[q] /\ seq'[q] = seq[q]
                                    /\ found'[q] = found[q]
    BY <1>1, <1>t DEF TakeSeq, TypeOK
  <2>2. IssueIndex(seq_counter) = adds
    <3>1. adds \in 0 .. (2 * Half - 1)
      BY <1>1, <1>t, HalfAssumption, JoinAssumption DEF TypeOK
    <3> QED
      BY <1>t, <3>1, IssueIndexOf DEF TypeOK
  <2>3. \A i \in Sources : \A e \in Visible(i) :
          e \in accepted[i] /\ IssueIndex(e.seq) < adds
    <3>1. adds \in Nat
      BY <1>t DEF TypeOK
    <3>2. \A i \in Sources : \A e \in Visible(i) :
            e \in accepted[i] /\ e.seq \in Issued
      BY DEF IInv, StoreInv, AcceptedInv, Visible
    <3> QED
      BY <1>t, <3>1, <3>2, IssuedOrder
  <2> HIDE DEF Visible, IssueIndex
  <2> QED
    BY <2>1, <2>2, <2>3 DEF OrderInv
<1>2. ASSUME NEW p \in Threads, Insert(p)
      PROVE  OrderInv'
  <2>1. /\ src[p] \in Sources /\ Own(p).seq = seq[p] /\ pc[p] = "insert"
        /\ accepted'[src[p]] = accepted[src[p]] \cup {Own(p)}
        /\ \A s \in Sources \ {src[p]} : accepted'[s] = accepted[s]
    BY <1>2, <1>t DEF Insert, TypeOK, Own
  <2>2. \A s \in Sources : \A e \in accepted[s] : e.seq # seq[p]
    BY <2>1 DEF IInv, AcceptedInv
  <2>3. \A s, i \in Sources : \A e \in accepted'[s], f \in accepted'[i] :
          e.seq = f.seq => s = i
    BY <2>1, <2>2 DEF OrderInv
  <2>4. UNCHANGED <<seq, found>> /\ \A q \in Threads : pc'[q] # "idle" => pc[q] # "idle"
    BY <1>2, <1>t DEF Insert, TypeOK, locals
  <2>5. \A s \in Sources : accepted[s] \subseteq accepted'[s]
    BY <2>1
  <2> HIDE DEF IssueIndex
  <2> QED
    BY <2>3, <2>4, <2>5 DEF OrderInv
<1>3. ASSUME accepted' = accepted, NEW p \in Threads,
             \/ pc'[p] = "idle"
             \/ seq'[p] = seq[p] /\ found'[p] = found[p] /\ pc[p] # "idle",
             \A q \in Threads \ {p} : /\ pc'[q] = pc[q] /\ seq'[q] = seq[q]
                                      /\ found'[q] = found[q]
      PROVE  OrderInv'
  BY <1>3 DEF OrderInv
<1>4. ASSUME UNCHANGED <<accepted, pc, seq, found>>
      PROVE  OrderInv'
  BY <1>4 DEF OrderInv
<1>5. ASSUME NEW p \in Threads, Reject(p) \/ Return(p)
      PROVE  OrderInv'
  <2>1. accepted' = accepted /\ Leave(p)
    BY <1>5 DEF Reject, Return, history
  <2> QED
    BY <1>t, <1>3, <2>1, LeaveFrame
<1>6. ASSUME NEW p \in Threads, NEW s \in Sources, SnapshotOne(p, s)
      PROVE  OrderInv'
  <2>1. /\ pc[p] = "snapshot" /\ UNCHANGED <<accepted, seq, found>>
        /\ \A q \in Threads \ {p} : pc'[q] = pc[q]
    BY <1>6, <1>t DEF SnapshotOne, TypeOK, history
  <2> QED
    BY <1>3, <2>1
<1>7. ASSUME NEW p \in Threads, NEW t \in todo[p], Emit(p, t)
      PROVE  OrderInv'
  BY <1>4, <1>7 DEF Emit
<1>8. ASSUME NEW s \in Sources, NEW v \in Values, Remove(s, v) \/ Die(s, v) \/ Clear(s)
      PROVE  OrderInv'
  BY <1>4, <1>8 DEF Remove, Die, Clear, locals
<1>9. CASE UNCHANGED vars
  BY <1>4, <1>9 DEF vars, locals, history
<1> QED
  BY <1>1, <1>2, <1>5, <1>6, <1>7, <1>8, <1>9, ValuesAssumption DEF Next, Step

(* An entry that is not visible does not become visible again: what joins  *)
(* the visible entries of a source has a stamp no earlier entry had.       *)
LEMMA NothingReturns ==
  ASSUME IInv, [Next]_vars, NEW s \in Sources
  PROVE  \/ Visible(s)' \subseteq Visible(s)
         \/ \E p \in Threads : /\ Insert(p) /\ s = src[p]
                               /\ Visible(s)' \subseteq Visible(s) \cup {Own(p)}
<1>t. TypeOK
  BY DEF IInv
<1>1. ASSUME UNCHANGED <<store, dead>>
      PROVE  Visible(s)' \subseteq Visible(s)
  BY <1>1 DEF Visible
<1>2. ASSUME NEW p \in Threads, Insert(p)
      PROVE  \/ Visible(s)' \subseteq Visible(s)
             \/ s = src[p] /\ Visible(s)' \subseteq Visible(s) \cup {Own(p)}
  <2>1. dead' = dead /\ (s # src[p] => store'[s] = store[s])
        /\ (s = src[p] => store'[s] \subseteq store[s] \cup {Own(p)})
    BY <1>2, <1>t DEF Insert, Inserted, TypeOK
  <2> QED
    BY <2>1 DEF Visible
<1>3. ASSUME NEW i \in Sources, NEW v \in Values, Remove(i, v) \/ Die(i, v) \/ Clear(i)
      PROVE  Visible(s)' \subseteq Visible(s)
  <2>1. store'[s] \subseteq store[s] /\ dead[s] \subseteq dead'[s]
    <3>1. ASSUME Die(i, v)
          PROVE  store' = store /\ dead[s] \subseteq dead'[s]
      BY <3>1, <1>t DEF Die, TypeOK
    <3>2. ASSUME Remove(i, v)
          PROVE  store'[s] \subseteq store[s] /\ dead' = dead
      BY <3>2, <1>t DEF Remove, TypeOK
    <3>3. ASSUME Clear(i)
          PROVE  store'[s] \subseteq store[s] /\ dead' = dead
      BY <3>3, <1>t DEF Clear, TypeOK
    <3> QED
      BY <1>3, <3>1, <3>2, <3>3
  <2> QED
    BY <2>1 DEF Visible
<1>4. ASSUME NEW p \in Threads, Reject(p) \/ Return(p)
      PROVE  Visible(s)' \subseteq Visible(s)
  BY <1>1, <1>4 DEF Reject, Return
<1>5. ASSUME NEW p \in Threads,
             \/ \E i \in Sources : SnapshotOne(p, i)
             \/ \E t \in todo[p] : Emit(p, t)
             \/ \E i \in Sources, v \in Values : TakeSeq(p, i, v)
      PROVE  Visible(s)' \subseteq Visible(s)
  BY <1>1, <1>5 DEF SnapshotOne, Emit, TakeSeq
<1>6. CASE UNCHANGED vars
  BY <1>1, <1>6 DEF vars
<1> QED
  BY <1>2, <1>3, <1>4, <1>5, <1>6, ValuesAssumption DEF Next, Step

(* While an add is under way, what it has to combine only shrinks.         *)
LEMMA KeptShrinks ==
  ASSUME IInv, OrderInv, [Next]_vars, NEW p \in Threads, NEW s \in Sources,
         pc[p] # "idle", src'[p] = src[p], val'[p] = val[p], seq'[p] = seq[p],
         found'[p] = found[p], ~Insert(p)
  PROVE  Kept(p, s)' \subseteq Kept(p, s)
<1>1. Own(p)' = Own(p)
  BY DEF Own
<1>2. CASE Visible(s)' \subseteq Visible(s)
  BY <1>1, <1>2 DEF Kept
<1>3. ASSUME NEW q \in Threads, Insert(q), s = src[q],
             Visible(s)' \subseteq Visible(s) \cup {Own(q)}
      PROVE  Kept(p, s)' \subseteq Kept(p, s)
  <2>1. q # p /\ pc[q] = "insert" /\ Own(q).seq = seq[q] /\ Own(p).seq = seq[p]
    BY <1>3 DEF Insert, Own
  <2>2. Own(q) # Own(p)
    BY <2>1 DEF IInv, SeqInv
  <2>3. Own(q) \notin found[p].visible[s]
    BY <2>1 DEF IInv, AcceptedInv, OrderInv
  <2> HIDE DEF Own, Visible
  <2> QED
    BY <1>1, <1>3, <2>2, <2>3 DEF Kept
<1> QED
  BY <1>2, <1>3, NothingReturns

(* A snapshot, and with the last one the combinations it settles.          *)
LEMMA SnapshotSettles ==
  ASSUME IInv, OrderInv, NEW p \in Threads, SettledAt(p),
         NEW s \in Sources, SnapshotOne(p, s)
  PROVE  SettledAt(p)'
<1>t. TypeOK
  BY DEF IInv
<1>1. /\ UNCHANGED <<store, dead, src, val, seq, accepted, emitted, found>>
      /\ pc[p] = "snapshot" /\ s \in left[p]
      /\ left'[p] = left[p] \ {s}
      /\ snap'[p][s] = Visible(s)
      /\ \A i \in Sources \ {s} : snap'[p][i] = snap[p][i]
      /\ pc'[p] \in {"snapshot", "emit"}
  BY <1>t DEF SnapshotOne, TypeOK, history
<1>2. /\ Own(p)' = Own(p) /\ Visible(src[p])' = Visible(src[p])
      /\ \A i \in Sources : Kept(p, i)' = Kept(p, i)
  BY <1>1 DEF Kept, Own, Visible
<1>3. \A i \in Sources \ left'[p] : Kept(p, i) \subseteq snap'[p][i]
  <2>1. Kept(p, s) \subseteq Visible(s)
    BY DEF Kept
  <2> HIDE DEF Kept, Visible
  <2> QED
    BY <1>1, <2>1 DEF SettledAt
<1>4. ASSUME pc'[p] = "emit", Own(p) \in Visible(src[p])
      PROVE  Combinations([i \in Sources |-> Kept(p, i)]) \subseteq todo'[p]
  <2> SUFFICES ASSUME NEW t \in Combinations([i \in Sources |-> Kept(p, i)])
               PROVE  t \in todo'[p]
    OBVIOUS
  <2>1. left[p] = {s} /\ todo'[p] = cross_product(snap'[p], src[p], seq[p])
    <3>1. left[p] = {s}
      BY <1>1, <1>4 DEF SnapshotOne
    <3>2. todo' = [todo EXCEPT ![p] = cross_product(snap'[p], src[p], seq[p])]
      BY <3>1 DEF SnapshotOne
    <3> QED
      BY <3>1, <3>2, <1>t DEF TypeOK
  <2>2. \A i \in Sources : t[i] \in Kept(p, i)
    BY DEF Combinations
  <2>3. src[p] \in Sources /\ t[src[p]] = Own(p)
    BY <1>t, <2>2 DEF TypeOK, Kept
  <2>4. t \in Combinations(snap'[p])
    <3>1. \A i \in Sources : Kept(p, i) \subseteq snap'[p][i]
      BY <1>1, <1>3, <2>1
    <3> HIDE DEF Kept
    <3> QED
      BY <3>1, CombinationsGrow
  <2>5. t \in Combinations(accepted)
    <3>1. \A i \in Sources : Kept(p, i) \subseteq accepted[i]
      BY DEF Kept, Visible, IInv, StoreInv
    <3> HIDE DEF Kept
    <3> QED
      BY <3>1, CombinationsGrow
  <2>6. \A i \in Sources \ {src[p]} : IssueIndex(t[i].seq) < IssueIndex(seq[p])
    BY <1>1, <2>2 DEF Kept, OrderInv
  <2>7. MaxIdx(t) = src[p]
    <3> SUFFICES ASSUME MaxIdx(t) # src[p]
                 PROVE  FALSE
      OBVIOUS
    <3>1. /\ MaxIdx(t) \in Sources
          /\ IssueIndex(t[src[p]].seq) < IssueIndex(t[MaxIdx(t)].seq)
      BY <1>t, <2>3, <2>5, NewestIsOwner DEF IInv, OwnerSeq
    <3>2. t[src[p]].seq = seq[p]
      BY <2>3 DEF Own
    <3>3. IssueIndex(t[MaxIdx(t)].seq) < IssueIndex(seq[p])
      BY <2>6, <3>1
    <3>4. /\ t[MaxIdx(t)].seq \in Issued /\ seq[p] \in Issued
      BY <1>1, <2>5, <3>1 DEF Combinations, IInv, AcceptedInv, SeqInv
    <3>5. /\ IssueIndex(t[MaxIdx(t)].seq) \in Int /\ IssueIndex(seq[p]) \in Int
      BY <1>t, <3>4, IssuedOrder
    <3> HIDE DEF IssueIndex
    <3> QED
      BY <3>1, <3>2, <3>3, <3>5
  <2> QED
    BY <2>1, <2>3, <2>4, <2>7 DEF cross_product, Owns, Own
<1>5. Combinations([i \in Sources |-> Kept(p, i)])'
        = Combinations([i \in Sources |-> Kept(p, i)])
  <2>1. [i \in Sources |-> Kept(p, i)]' = [i \in Sources |-> Kept(p, i)]
    BY <1>2
  <2> QED
    BY <2>1
<1> HIDE DEF Kept, Own, Visible, Combinations
<1> QED
  BY <1>1, <1>2, <1>3, <1>4, <1>5 DEF SettledAt

(* Steps that leave the locals of an add alone leave it settled.           *)
LEMMA StaysSettled ==
  ASSUME IInv, OrderInv, [Next]_vars, NEW p \in Threads, SettledAt(p),
         pc'[p] = pc[p], src'[p] = src[p], val'[p] = val[p], seq'[p] = seq[p],
         left'[p] = left[p], snap'[p] = snap[p], found'[p] = found[p],
         todo[p] \cup emitted \subseteq todo'[p] \cup emitted'
  PROVE  SettledAt(p)'
<1>1. ~Insert(p)
  BY DEF Insert, IInv, TypeOK
<1>2. CASE pc[p] = "idle"
  BY <1>2 DEF SettledAt
<1>3. CASE pc[p] # "idle"
  <2>1. \A s \in Sources : Kept(p, s)' \subseteq Kept(p, s)
    BY <1>1, <1>3, KeptShrinks
  <2>2. Own(p)' \in Visible(src[p])' => Own(p) \in Visible(src[p])
    <3>1. src[p] \in Sources /\ Own(p)' = Own(p)
      BY DEF IInv, TypeOK, Own
    <3>2. Own(p)' \in Visible(src[p])' => Own(p)' \in Kept(p, src[p])'
      BY DEF Kept
    <3>3. Kept(p, src[p])' \subseteq Kept(p, src[p])
      BY <2>1, <3>1
    <3>4. Kept(p, src[p]) \subseteq Visible(src[p])
      BY DEF Kept
    <3> HIDE DEF Kept, Own, Visible
    <3> QED
      BY <3>1, <3>2, <3>3, <3>4
  <2>3. Combinations([s \in Sources |-> Kept(p, s)])'
          \subseteq Combinations([s \in Sources |-> Kept(p, s)])
    <3>1. [s \in Sources |-> Kept(p, s)]' = [s \in Sources |-> Kept(p, s)']
      OBVIOUS
    <3>2. Combinations([s \in Sources |-> Kept(p, s)'])
            \subseteq Combinations([s \in Sources |-> Kept(p, s)])
      <4> DEFINE A == [s \in Sources |-> Kept(p, s)']
                 B == [s \in Sources |-> Kept(p, s)]
      <4>1. \A s \in Sources : A[s] \subseteq B[s]
        BY <2>1
      <4> HIDE DEF A, B
      <4>2. Combinations(A) \subseteq Combinations(B)
        BY <4>1, CombinationsGrow
      <4> QED
        BY <4>2 DEF A, B
    <3>3. Combinations([s \in Sources |-> Kept(p, s)])'
            = Combinations([s \in Sources |-> Kept(p, s)'])
      BY DEF Combinations
    <3> QED
      BY <3>2, <3>3
  <2> HIDE DEF Kept, Own, Visible, Combinations
  <2> QED
    BY <2>1, <2>2, <2>3 DEF SettledAt
<1> QED
  BY <1>2, <1>3

LEMMA StepSettledInv == IInv /\ OrderInv /\ SettledInv /\ [Next]_vars => SettledInv'
<1> SUFFICES ASSUME IInv, OrderInv, SettledInv, [Next]_vars, NEW q \in Threads
             PROVE  SettledAt(q)'
  BY DEF SettledInv
<1>t. TypeOK /\ SettledAt(q)
  BY DEF IInv, SettledInv
<1> DEFINE Apart == /\ pc'[q] = pc[q] /\ src'[q] = src[q] /\ val'[q] = val[q]
                    /\ seq'[q] = seq[q] /\ left'[q] = left[q]
                    /\ snap'[q] = snap[q] /\ found'[q] = found[q]
                    /\ todo[q] \cup emitted \subseteq todo'[q] \cup emitted'
<1>0. ASSUME Apart
      PROVE  SettledAt(q)'
  BY <1>0, <1>t, StaysSettled
<1>1. ASSUME NEW p \in Threads, NEW s \in Sources, NEW v \in Values,
             TakeSeq(p, s, v)
      PROVE  SettledAt(q)'
  <2>1. CASE q = p
    BY <1>1, <1>t, <2>1 DEF TakeSeq, TypeOK, SettledAt
  <2>2. CASE q # p
    BY <1>0, <1>1, <1>t, <2>2 DEF TakeSeq, TypeOK
  <2> QED
    BY <2>1, <2>2
<1>2. ASSUME NEW p \in Threads, Insert(p)
      PROVE  SettledAt(q)'
  <2>1. CASE q = p
    BY <1>2, <1>t, <2>1 DEF Insert, TypeOK, locals, SettledAt
  <2>2. CASE q # p
    BY <1>0, <1>2, <1>t, <2>2 DEF Insert, TypeOK, locals
  <2> QED
    BY <2>1, <2>2
<1>3. ASSUME NEW p \in Threads, Reject(p) \/ Return(p)
      PROVE  SettledAt(q)'
  <2>1. Leave(p) /\ UNCHANGED <<todo, emitted>>
    BY <1>3 DEF Reject, Return, history
  <2>2. CASE q = p
    BY <1>t, <2>1, <2>2, LeaveFrame DEF SettledAt
  <2>3. CASE q # p
    BY <1>0, <1>t, <2>1, <2>3, LeaveFrame
  <2> QED
    BY <2>2, <2>3
<1>4. ASSUME NEW p \in Threads, NEW s \in Sources, SnapshotOne(p, s)
      PROVE  SettledAt(q)'
  <2>1. CASE q = p
    BY <1>4, <1>t, <2>1, SnapshotSettles
  <2>2. CASE q # p
    BY <1>0, <1>4, <1>t, <2>2 DEF SnapshotOne, TypeOK, history
  <2> QED
    BY <2>1, <2>2
<1>5. ASSUME NEW p \in Threads, NEW t \in todo[p], Emit(p, t)
      PROVE  SettledAt(q)'
  <2>1. todo[q] \cup emitted \subseteq todo'[q] \cup emitted'
    BY <1>5, <1>t DEF Emit, TypeOK
  <2> QED
    BY <1>0, <1>5, <2>1 DEF Emit
<1>6. ASSUME NEW s \in Sources, NEW v \in Values, Remove(s, v) \/ Die(s, v) \/ Clear(s)
      PROVE  SettledAt(q)'
  BY <1>0, <1>6 DEF Remove, Die, Clear, locals
<1>7. CASE UNCHANGED vars
  BY <1>0, <1>7 DEF vars, locals, history
<1> QED
  BY <1>1, <1>2, <1>3, <1>4, <1>5, <1>6, <1>7, ValuesAssumption DEF Next, Step

LEMMA OrderHolds == Spec => [](OrderInv /\ SettledInv)
BY InitOrderInv, StepOrderInv, StepSettledInv, InvariantHolds, PTL DEF Spec

(* The owner of a combination took its stamp last, also when the counter   *)
(* has wrapped in between: at most 2^63 adds.                *)
THEOREM OwnerTookItsStampLast == Spec => []OwnerIsNewest
<1>1. IInv /\ OrderInv => OwnerIsNewest
  <2> SUFFICES ASSUME IInv, OrderInv, NEW p \in Threads, NEW t \in todo[p],
                      NEW s \in Sources \ {src[p]}
               PROVE  IssueIndex(t[s].seq) < IssueIndex(seq[p])
    BY DEF OwnerIsNewest
  <2>1. MaxIdx(t) = src[p] /\ t[src[p]].seq = seq[p]
    BY DEF IInv, EmitInv, Owns
  <2>2. t \in Combinations(accepted)
    BY DEF IInv, StoreInv
  <2> QED
    BY <2>1, <2>2, NewestIsOwner DEF IInv, OwnerSeq
<1> QED
  BY <1>1, OrderHolds, InvariantHolds, PTL

(* An add with all its snapshots has emitted, or will emit, its entry with *)
(* every entry that was visible before it began and is still.  Snapshots   *)
(* taken at different times suffice: an entry that is visible now and was  *)
(* visible before the add began was visible all the time.                  *)
THEOREM WhatIsSettledIsEmitted == Spec => []SettledEmitted
<1>1. TypeOK /\ SettledInv => SettledEmitted
  <2> SUFFICES ASSUME TypeOK, SettledInv, NEW p \in Threads, pc[p] = "emit",
                      Own(p) \in Visible(src[p])
               PROVE  Combinations([s \in Sources |->
                        IF s = src[p] THEN {Own(p)}
                        ELSE found[p].visible[s] \cap Visible(s)])
                      \subseteq todo[p] \cup emitted
    BY DEF SettledEmitted
  <2>1. [s \in Sources |-> IF s = src[p] THEN {Own(p)}
                           ELSE found[p].visible[s] \cap Visible(s)]
          = [s \in Sources |-> Kept(p, s)]
    BY DEF Kept
  <2> HIDE DEF Own, Visible, Combinations
  <2> QED
    BY <2>1 DEF SettledInv, SettledAt
<1> QED
  BY <1>1, OrderHolds, TypeCorrect, PTL

=============================================================================
