------------------------ MODULE SubscriberListProofs ------------------------
(***************************************************************************)
(* The list of subscribers, for any number of threads, callbacks and       *)
(* addresses: nobody is lost, who was dropped stays out, a fire calls all  *)
(* that were there.                                                        *)
(***************************************************************************)
EXTENDS SubscriberList, SequenceTheorems, FiniteSetTheorems,
        WellFoundedInduction, TLAPS

(* A set of naturals has a least one: the intervals up to its members are  *)
(* finite sets, on which strict inclusion is well-founded.                 *)
LEMMA Least ==
  ASSUME NEW T \in SUBSET Nat, T # {}
  PROVE  \E i \in T : \A j \in T : i <= j
<1> DEFINE R == StrictSubsetOrdering(Nat)
           upto == {1 .. i : i \in T}
<1>1. IsWellFoundedOn(R, FiniteSubsetsOf(Nat))
  BY FS_StrictSubsetOrderingWellFounded
<1>2. upto \subseteq FiniteSubsetsOf(Nat) /\ upto # {}
  <2>1. \A i \in T : IsFiniteSet(1 .. i) /\ 1 .. i \subseteq Nat
    BY FS_Interval
  <2> QED
    BY <2>1 DEF FiniteSubsetsOf
<1>3. \E x \in upto : \A y \in upto : ~(<<y, x>> \in R)
  <2> HIDE DEF R, upto
  <2> QED
    BY <1>1, <1>2, WFMin
<1>4. PICK i \in T : \A j \in T : ~(<<1 .. j, 1 .. i>> \in R)
  BY <1>3
<1>5. ASSUME NEW j \in T, j < i
      PROVE  FALSE
  <2>1. 1 .. j \in SUBSET Nat /\ 1 .. i \in SUBSET Nat
    OBVIOUS
  <2>2. 1 .. j \subseteq 1 .. i /\ i \in 1 .. i /\ i \notin 1 .. j
    BY <1>5
  <2>3. 1 .. j # 1 .. i
    BY <2>2
  <2>4. <<1 .. j, 1 .. i>> \in R
    BY <2>1, <2>2, <2>3 DEF StrictSubsetOrdering
  <2> QED
    BY <1>4, <2>4
<1> QED
  BY <1>5

-----------------------------------------------------------------------------
(* Lists.                                                                  *)

LEMMA AppendIs ==
  ASSUME NEW S, NEW list \in Seq(S), NEW s \in S
  PROVE  /\ Append(list, s) \in Seq(S)
         /\ ToSet(Append(list, s)) = ToSet(list) \cup {s}
         /\ IsInjective(list) /\ s \notin ToSet(list) => IsInjective(Append(list, s))
<1>1. /\ Append(list, s) \in Seq(S) /\ Len(list) \in Nat
      /\ DOMAIN list = 1 .. Len(list)
      /\ DOMAIN Append(list, s) = 1 .. (Len(list) + 1)
      /\ \A i \in 1 .. Len(list) : Append(list, s)[i] = list[i]
      /\ Append(list, s)[Len(list) + 1] = s
  OBVIOUS
<1> HIDE DEF Append
<1>2. ToSet(Append(list, s)) = ToSet(list) \cup {s}
  BY <1>1 DEF ToSet
<1>3. ASSUME IsInjective(list), s \notin ToSet(list)
      PROVE  IsInjective(Append(list, s))
  BY <1>1, <1>3 DEF IsInjective, ToSet
<1> QED
  BY <1>1, <1>2, <1>3

(* The first n rounds of the loop that copies the live callbacks.          *)
CopiesTo(list, live, n, c) ==
  c = [i \in 0 .. n |->
        IF i = 0 THEN <<>>
        ELSE IF list[i] \in live THEN Append(c[i - 1], list[i]) ELSE c[i - 1]]

(* The loop has a result for every length: a shortest prefix for which it  *)
(* had none would be one round longer than one that has.                   *)
LEMMA CopyExists ==
  ASSUME NEW list, NEW live
  PROVE  \A n \in Nat : \E c : CopiesTo(list, live, n, c)
<1> DEFINE Bad == {n \in Nat : \A c : ~CopiesTo(list, live, n, c)}
<1> SUFFICES ASSUME Bad # {}
             PROVE  FALSE
  OBVIOUS
<1>1. PICK n \in Bad : \A m \in Bad : n <= m
  BY Least
<1>2. CASE n = 0
  <2>1. CopiesTo(list, live, 0, [i \in 0 .. 0 |-> <<>>])
    BY DEF CopiesTo
  <2> QED
    BY <1>1, <1>2, <2>1
<1>3. CASE n # 0
  <2>1. n \in Nat /\ n - 1 \in Nat /\ n - 1 \notin Bad
    BY <1>1, <1>3
  <2>2. PICK c : CopiesTo(list, live, n - 1, c)
    BY <2>1
  <2> DEFINE last == IF list[n] \in live THEN Append(c[n - 1], list[n]) ELSE c[n - 1]
             d == [i \in 0 .. n |-> IF i = n THEN last ELSE c[i]]
  <2>3. /\ \A i \in 0 .. n - 1 : d[i] = c[i]
        /\ d[n] = last
    BY <2>1
  <2>4. \A i \in 0 .. n - 1 :
          c[i] = IF i = 0 THEN <<>>
                 ELSE IF list[i] \in live THEN Append(c[i - 1], list[i]) ELSE c[i - 1]
    BY <2>2 DEF CopiesTo
  <2>5. \A i \in 0 .. n :
          d[i] = IF i = 0 THEN <<>>
                 ELSE IF list[i] \in live THEN Append(d[i - 1], list[i]) ELSE d[i - 1]
    <3> TAKE i \in 0 .. n
    <3> HIDE DEF d
    <3>1. CASE i = n
      BY <1>3, <2>1, <2>3, <3>1
    <3>2. CASE i \in 0 .. n - 1
      <4>1. i # 0 => i - 1 \in 0 .. n - 1
        BY <2>1, <3>2
      <4> HIDE DEF last
      <4> QED
        BY <2>3, <2>4, <3>2, <4>1
    <3> QED
      BY <2>1, <3>1, <3>2
  <2>6. CopiesTo(list, live, n, d)
    BY <2>5 DEF CopiesTo
  <2> QED
    BY <1>1, <2>6
<1> QED
  BY <1>2, <1>3

LEMMA LivePartCopies ==
  ASSUME NEW S, NEW list \in Seq(S), NEW live
  PROVE  \E c : CopiesTo(list, live, Len(list), c) /\ LivePart(list, live) = c[Len(list)]
<1>1. Len(list) \in Nat
  OBVIOUS
<1>2. PICK c : CopiesTo(list, live, Len(list), c)
  BY <1>1, CopyExists
<1> DEFINE copy[n \in 0 .. Len(list)] ==
             IF n = 0 THEN <<>>
             ELSE IF list[n] \in live THEN Append(copy[n - 1], list[n]) ELSE copy[n - 1]
<1>3. LivePart(list, live) = copy[Len(list)]
  BY DEF LivePart
<1>4. copy = [n \in 0 .. Len(list) |->
                IF n = 0 THEN <<>>
                ELSE IF list[n] \in live THEN Append(copy[n - 1], list[n]) ELSE copy[n - 1]]
  BY <1>2 DEF CopiesTo, copy
<1>5. CopiesTo(list, live, Len(list), copy)
  BY <1>4 DEF CopiesTo
<1> HIDE DEF copy
<1> QED
  BY <1>3, <1>5

(* The live part of a list has its live members, and each once if the list *)
(* has each once.                                                          *)
LEMMA LivePartIs ==
  ASSUME NEW S, NEW list \in Seq(S), NEW live
  PROVE  /\ LivePart(list, live) \in Seq(S)
         /\ ToSet(LivePart(list, live)) = ToSet(list) \cap live
         /\ IsInjective(list) => IsInjective(LivePart(list, live))
<1>1. PICK c : /\ CopiesTo(list, live, Len(list), c)
               /\ LivePart(list, live) = c[Len(list)]
  BY LivePartCopies
<1> DEFINE L == Len(list)
           Members(n) == {list[i] : i \in 1 .. n}
           Good(n) == /\ c[n] \in Seq(S)
                      /\ ToSet(c[n]) = Members(n) \cap live
                      /\ IsInjective(list) => IsInjective(c[n])
           Bad == {n \in 0 .. L : ~Good(n)}
<1>2. /\ L \in Nat /\ DOMAIN list = 1 .. L /\ \A i \in 1 .. L : list[i] \in S
  OBVIOUS
<1>3. \A n \in 0 .. L :
        c[n] = IF n = 0 THEN <<>>
               ELSE IF list[n] \in live THEN Append(c[n - 1], list[n]) ELSE c[n - 1]
  BY <1>1 DEF CopiesTo
<1>4. Bad = {}
  <2> SUFFICES ASSUME Bad # {}
               PROVE  FALSE
    OBVIOUS
  <2>1. PICK n \in Bad : \A m \in Bad : n <= m
    <3>1. Bad \in SUBSET Nat
      BY <1>2
    <3> HIDE DEF Bad
    <3> QED
      BY <3>1, Least
  <2>2. CASE n = 0
    <3>1. c[0] = <<>> /\ Members(0) = {}
      BY <1>2, <1>3, <2>2
    <3>2. <<>> \in Seq(S) /\ ToSet(<<>>) = {} /\ IsInjective(<<>>)
      BY DEF ToSet, IsInjective
    <3> QED
      BY <2>1, <2>2, <3>1, <3>2
  <2>3. CASE n # 0
    <3>1. n \in 1 .. L /\ n - 1 \in 0 .. L /\ n - 1 \notin Bad
      <4> HIDE DEF Good
      <4>1. n \in 0 .. L /\ \A m \in Bad : n <= m
        BY <2>1
      <4>2. n - 1 \in 0 .. L /\ ~(n <= n - 1)
        BY <1>2, <2>3, <4>1
      <4> HIDE DEF Bad
      <4> QED
        BY <1>2, <2>3, <4>1, <4>2
    <3>2. Good(n - 1)
      <4> HIDE DEF Good
      <4> QED
        BY <3>1
    <3>3. Members(n) = Members(n - 1) \cup {list[n]}
      <4>1. 1 .. n = (1 .. (n - 1)) \cup {n}
        BY <3>1
      <4> QED
        BY <4>1
    <3>4. list[n] \in S
      BY <1>2, <3>1
    <3>5. c[n] = IF list[n] \in live THEN Append(c[n - 1], list[n]) ELSE c[n - 1]
      BY <1>3, <2>3, <3>1
    <3>6. IsInjective(list) => list[n] \notin Members(n - 1)
      BY <1>2, <3>1 DEF IsInjective
    <3> HIDE DEF Members
    <3>7. CASE list[n] \in live
      <4>1. Good(n)
        BY <3>2, <3>3, <3>4, <3>5, <3>6, <3>7, AppendIs
      <4> QED
        BY <2>1, <4>1
    <3>8. CASE list[n] \notin live
      <4>1. Good(n)
        BY <3>2, <3>3, <3>5, <3>8
      <4> QED
        BY <2>1, <4>1
    <3> QED
      BY <3>7, <3>8
  <2> QED
    BY <2>2, <2>3
<1>5. Good(L)
  <2> HIDE DEF Good
  <2> QED
    BY <1>2, <1>4
<1>6. Members(L) = ToSet(list)
  BY <1>2 DEF ToSet
<1> QED
  BY <1>1, <1>5, <1>6

-----------------------------------------------------------------------------
(* The inductive invariant.                                                *)

(* A fire has called the first next[p] callbacks of the list it loaded,    *)
(* and each of them answered true, or false.                               *)
CallInv ==
  \A p \in Threads : pc[p] = "call" =>
    /\ next[p] <= Len(List(snap[p]))
    /\ \A i \in 1 .. next[p] : List(snap[p])[i] \in alive[p] \cup heard

(* What was live when the fire began is in the list it loaded.             *)
LoadedInv ==
  \A p \in Threads : pc[p] = "call" =>
    before[p] \ dead \subseteq ToSet(List(snap[p]))

ListInv ==
  /\ TypeOK
  /\ CallInv
  /\ LoadedInv
  /\ ToSet(List(subs)) \cup dropped \subseteq subscribed
  /\ NobodyLost
  /\ DroppedStaysOut

LEMMA ListType ==
  ASSUME TypeOK, NEW a \in Addresses \cup {None}
  PROVE  List(a) \in Seq(Subscribers)
BY DEF TypeOK, List

(* A list some fire refers to stays what it is while another is stored.    *)
LEMMA StoreIs ==
  ASSUME TypeOK, NEW a \in Addresses, NEW list \in Seq(Subscribers), Store(a, list)
  PROVE  /\ subs' = a /\ heap' \in [Addresses -> Seq(Subscribers)]
         /\ List(subs)' = list
         /\ \A p \in Threads : snap'[p] = snap[p] => List(snap[p])' = List(snap[p])
<1>1. a # None /\ heap' = [heap EXCEPT ![a] = list] /\ subs' = a
  BY SubscribersAssumption DEF Store
<1>2. heap' \in [Addresses -> Seq(Subscribers)] /\ heap'[a] = list
  BY <1>1 DEF TypeOK
<1>3. \A p \in Threads : snap[p] # None => heap'[snap[p]] = heap[snap[p]]
  BY <1>1 DEF TypeOK, Store, Free
<1> QED
  BY <1>1, <1>2, <1>3 DEF List

LEMMA InitListInv == Init => ListInv
<1> SUFFICES ASSUME Init
             PROVE  ListInv
  OBVIOUS
<1>1. List(subs) = <<>>
  BY DEF Init, List
<1>2. ToSet(<<>>) = {} /\ IsInjective(<<>>)
  BY DEF ToSet, IsInjective
<1>3. TypeOK
  BY SubscribersAssumption DEF Init, TypeOK
<1>4. CallInv /\ LoadedInv
  BY DEF Init, CallInv, LoadedInv
<1> QED
  BY <1>1, <1>2, <1>3, <1>4 DEF Init, ListInv, NobodyLost, DroppedStaysOut

(* A fire that ends. *)
LEMMA LeaveIs ==
  ASSUME TypeOK, NEW p \in Threads, Leave(p)
  PROVE  /\ pc' \in [Threads -> {"idle", "call"}]
         /\ snap' \in [Threads -> Addresses \cup {None}]
         /\ next' \in [Threads -> Nat]
         /\ alive' \in [Threads -> SUBSET Subscribers]
         /\ before' \in [Threads -> SUBSET Subscribers]
         /\ pc'[p] = "idle" /\ snap'[p] = None /\ next'[p] = 0
         /\ \A q \in Threads \ {p} :
              /\ pc'[q] = pc[q] /\ snap'[q] = snap[q] /\ next'[q] = next[q]
              /\ alive'[q] = alive[q] /\ before'[q] = before[q]
BY DEF TypeOK, Leave

(* What a compaction stores: the members of the list that are in alive.    *)
LEMMA CompactIs ==
  ASSUME TypeOK, NEW p \in Threads, Compact(p)
  PROVE  /\ subs \in Addresses \cup {None}
         /\ subs' \in Addresses \cup {None}
         /\ heap' \in [Addresses -> Seq(Subscribers)]
         /\ subs = snap[p] /\ Leave(p)
         /\ ToSet(List(subs))' = ToSet(List(subs)) \cap alive[p]
         /\ IsInjective(List(subs)) => IsInjective(List(subs)')
         /\ \A q \in Threads \ {p} : List(snap[q])' = List(snap[q])
         /\ dropped' = dropped \cup (ToSet(List(subs)) \ alive[p])
<1> DEFINE old == List(snap[p])
           kept == LivePart(old, alive[p])
<1>1. /\ subs = snap[p] /\ Leave(p)
      /\ dropped' = dropped \cup (ToSet(old) \ alive[p])
      /\ IF kept = <<>> THEN subs' = None /\ UNCHANGED heap
                        ELSE \E a \in Addresses : Store(a, kept)
  BY DEF Compact, Modified
<1>2. old \in Seq(Subscribers)
  BY ListType DEF TypeOK
<1>3. /\ kept \in Seq(Subscribers) /\ ToSet(kept) = ToSet(old) \cap alive[p]
      /\ IsInjective(old) => IsInjective(kept)
  BY <1>2, LivePartIs
<1>4. \A q \in Threads \ {p} : snap'[q] = snap[q]
  BY <1>1, LeaveIs
<1> HIDE DEF kept
<1>5. /\ subs' \in Addresses \cup {None}
      /\ heap' \in [Addresses -> Seq(Subscribers)]
      /\ List(subs)' = kept
      /\ \A q \in Threads \ {p} : List(snap[q])' = List(snap[q])
  <2>1. CASE kept = <<>>
    BY <1>1, <1>4, <2>1 DEF List, TypeOK
  <2>2. CASE kept # <<>>
    <3>1. PICK a \in Addresses : Store(a, kept)
      BY <1>1, <2>2
    <3> QED
      BY <1>3, <1>4, <3>1, StoreIs
  <2> QED
    BY <2>1, <2>2
<1>6. ToSet(List(subs))' = ToSet(List(subs)')
  BY DEF ToSet
<1> QED
  BY <1>1, <1>3, <1>5, <1>6 DEF TypeOK

LEMMA TypeStep == ListInv /\ [Next]_vars => TypeOK'
<1> SUFFICES ASSUME ListInv, [Next]_vars
             PROVE  TypeOK'
  OBVIOUS
<1>t. TypeOK
  BY DEF ListInv
<1>1. ASSUME NEW s \in Subscribers, Subscribe(s)
      PROVE  TypeOK'
  <2>1. PICK a \in Addresses : Store(a, Append(List(subs), s))
    BY <1>1 DEF Subscribe
  <2>2. Append(List(subs), s) \in Seq(Subscribers)
    BY <1>t, ListType, AppendIs DEF TypeOK
  <2>3. subs' \in Addresses \cup {None} /\ heap' \in [Addresses -> Seq(Subscribers)]
    BY <1>t, <2>1, <2>2, StoreIs
  <2> QED
    BY <1>1, <1>t, <2>3 DEF Subscribe, TypeOK, locals
<1>2. ASSUME NEW s \in Subscribers, Die(s)
      PROVE  TypeOK'
  BY <1>2, <1>t DEF Die, TypeOK, locals, history
<1>3. ASSUME NEW p \in Threads, Load(p)
      PROVE  TypeOK'
  BY <1>3, <1>t, SubscribersAssumption DEF Load, TypeOK
<1>4. ASSUME NEW p \in Threads, Call(p)
      PROVE  TypeOK'
  <2>1. List(snap[p]) \in Seq(Subscribers) /\ next[p] \in Nat
    BY <1>t, ListType DEF TypeOK
  <2>2. List(snap[p])[next[p] + 1] \in Subscribers
    BY <1>4, <2>1 DEF Call
  <2>3. alive' \in [Threads -> SUBSET Subscribers] /\ heard' \subseteq dead
    BY <1>4, <1>t, <2>2 DEF Call, TypeOK
  <2> QED
    BY <1>4, <1>t, <2>3 DEF Call, TypeOK
<1>5. ASSUME NEW p \in Threads, Return(p) \/ Skip(p)
      PROVE  TypeOK'
  <2>1. Leave(p) /\ UNCHANGED <<subs, heap, dead, subscribed, heard, dropped, fires>>
    BY <1>5 DEF Return, Skip
  <2> QED
    BY <1>t, <2>1, LeaveIs DEF TypeOK
<1>6. ASSUME NEW p \in Threads, Compact(p)
      PROVE  TypeOK'
  <2>1. UNCHANGED <<dead, subscribed, heard, fires>>
    BY <1>6 DEF Compact
  <2>2. ToSet(List(subs)) \subseteq Subscribers
    BY <1>t DEF ListInv, TypeOK
  <2> QED
    BY <1>6, <1>t, <2>1, <2>2, CompactIs, LeaveIs DEF TypeOK
<1>7. CASE UNCHANGED vars
  BY <1>7, <1>t DEF TypeOK, vars, locals, history
<1> QED
  BY <1>1, <1>2, <1>3, <1>4, <1>5, <1>6, <1>7 DEF Next, Step

(* What a thread has called and loaded, when none of it changes.           *)
LEMMA SameFire ==
  ASSUME ListInv, NEW p \in Threads, pc'[p] = pc[p], next'[p] = next[p],
         alive'[p] = alive[p], before'[p] = before[p],
         List(snap[p])' = List(snap[p]), heard \subseteq heard', dead \subseteq dead'
  PROVE  pc'[p] = "call" =>
           /\ next'[p] <= Len(List(snap[p])')
           /\ \A i \in 1 .. next'[p] : List(snap[p])'[i] \in alive'[p] \cup heard'
           /\ before'[p] \ dead' \subseteq ToSet(List(snap[p])')
BY DEF ListInv, CallInv, LoadedInv

LEMMA StepListInv == ListInv /\ [Next]_vars => ListInv'
<1> SUFFICES ASSUME ListInv, [Next]_vars
             PROVE  ListInv'
  OBVIOUS
<1> DEFINE Fire(p) == pc[p] = "call" =>
                        /\ next[p] <= Len(List(snap[p]))
                        /\ \A i \in 1 .. next[p] : List(snap[p])[i] \in alive[p] \cup heard
                        /\ before[p] \ dead \subseteq ToSet(List(snap[p]))
           Listed == /\ ToSet(List(subs)) \cup dropped \subseteq subscribed
                     /\ NobodyLost
                     /\ DroppedStaysOut
<1>t. TypeOK /\ TypeOK' /\ Listed
  BY TypeStep DEF ListInv
<1>0. ASSUME \A p \in Threads : Fire(p)', Listed'
      PROVE  ListInv'
  BY <1>0, <1>t DEF ListInv, CallInv, LoadedInv
<1>1. ASSUME NEW s \in Subscribers, Subscribe(s)
      PROVE  ListInv'
  <2>1. PICK a \in Addresses : Store(a, Append(List(subs), s))
    BY <1>1 DEF Subscribe
  <2>2. /\ UNCHANGED <<dead, pc, snap, next, alive, heard, dropped, before>>
        /\ s \notin subscribed /\ subscribed' = subscribed \cup {s}
    BY <1>1 DEF Subscribe, locals
  <2>3. /\ Append(List(subs), s) \in Seq(Subscribers)
        /\ ToSet(Append(List(subs), s)) = ToSet(List(subs)) \cup {s}
        /\ IsInjective(List(subs)) => IsInjective(Append(List(subs), s))
    BY <1>t, <2>2, ListType, AppendIs DEF TypeOK
  <2>4. /\ List(subs)' = Append(List(subs), s)
        /\ \A p \in Threads : List(snap[p])' = List(snap[p])
    BY <1>t, <2>1, <2>2, <2>3, StoreIs
  <2>5. \A p \in Threads : Fire(p)'
    BY <2>2, <2>4, SameFire
  <2>6. ToSet(List(subs))' = ToSet(List(subs)) \cup {s} /\ IsInjective(List(subs)')
    BY <1>t, <2>3, <2>4 DEF DroppedStaysOut
  <2>7. Listed'
    BY <1>t, <2>2, <2>6 DEF NobodyLost, DroppedStaysOut
  <2> QED
    BY <1>0, <2>5, <2>7
<1>2. ASSUME UNCHANGED <<subs, heap, subscribed, heard, dropped>>,
             NEW p \in Threads, Fire(p)', dead \subseteq dead',
             \A q \in Threads \ {p} :
               /\ pc'[q] = pc[q] /\ snap'[q] = snap[q] /\ next'[q] = next[q]
               /\ alive'[q] = alive[q] /\ before'[q] = before[q]
      PROVE  ListInv'
  <2>1. /\ List(subs)' = List(subs)
        /\ \A q \in Threads \ {p} : List(snap[q])' = List(snap[q])
    BY <1>2 DEF List
  <2>2. \A q \in Threads \ {p} : Fire(q)'
    BY <1>2, <2>1, SameFire
  <2>3. Listed'
    BY <1>2, <1>t, <2>1 DEF NobodyLost, DroppedStaysOut
  <2> QED
    BY <1>0, <1>2, <2>2, <2>3
<1>3. ASSUME NEW p \in Threads, Load(p)
      PROVE  ListInv'
  <2>1. /\ UNCHANGED <<subs, heap, dead, subscribed, heard, dropped>>
        /\ pc'[p] = "call" /\ snap'[p] = subs /\ next'[p] = 0
        /\ before'[p] = subscribed \ dead
        /\ \A q \in Threads \ {p} :
             /\ pc'[q] = pc[q] /\ snap'[q] = snap[q] /\ next'[q] = next[q]
             /\ alive'[q] = alive[q] /\ before'[q] = before[q]
    BY <1>3, <1>t DEF Load, TypeOK
  <2>2. List(snap[p])' = List(subs) /\ Len(List(subs)) \in Nat
    BY <1>t, <2>1, ListType DEF List, TypeOK
  <2>3. subscribed \ dead \subseteq ToSet(List(subs))
    BY <1>t DEF NobodyLost, TypeOK
  <2>4. Fire(p)'
    BY <2>1, <2>2, <2>3
  <2> QED
    BY <1>2, <2>1, <2>4
<1>4. ASSUME NEW p \in Threads, Call(p)
      PROVE  ListInv'
  <2> DEFINE list == List(snap[p])
             s == list[next[p] + 1]
  <2>1. /\ UNCHANGED <<subs, heap, dead, subscribed, dropped, snap, before, pc>>
        /\ pc[p] = "call" /\ next[p] < Len(list)
        /\ next'[p] = next[p] + 1
        /\ alive[p] \subseteq alive'[p] /\ heard \subseteq heard'
        /\ s \in alive'[p] \cup heard'
        /\ \A q \in Threads \ {p} : next'[q] = next[q] /\ alive'[q] = alive[q]
    BY <1>4, <1>t DEF Call, TypeOK
  <2>2. \A q \in Threads : List(snap[q])' = List(snap[q])
    BY <2>1 DEF List
  <2>3. next[p] \in Nat /\ Len(list) \in Nat
    BY <1>t, ListType DEF TypeOK
  <2>4. /\ \A i \in 1 .. next[p] : list[i] \in alive[p] \cup heard
        /\ before[p] \ dead \subseteq ToSet(list)
    BY <2>1 DEF ListInv, CallInv, LoadedInv
  <2>5. Fire(p)'
    <3>1. \A i \in 1 .. next[p] + 1 : i \in 1 .. next[p] \/ i = next[p] + 1
      BY <2>3
    <3> HIDE DEF list
    <3>2. \A i \in 1 .. next'[p] : list[i] \in alive'[p] \cup heard'
      BY <2>1, <2>4, <3>1
    <3>3. next'[p] <= Len(list)
      BY <2>1, <2>3
    <3>4. List(snap[p])' = list
      BY <2>2 DEF list
    <3> QED
      BY <2>1, <2>4, <3>2, <3>3, <3>4
  <2>6. \A q \in Threads \ {p} : Fire(q)'
    BY <2>1, <2>2, SameFire
  <2>7. Listed'
    BY <1>t, <2>1 DEF NobodyLost, DroppedStaysOut, List
  <2> QED
    BY <1>0, <2>5, <2>6, <2>7
<1>5. ASSUME NEW p \in Threads, Return(p) \/ Skip(p)
      PROVE  ListInv'
  <2>1. Leave(p) /\ UNCHANGED <<subs, heap, dead, subscribed, heard, dropped>>
    BY <1>5 DEF Return, Skip
  <2>2. pc'[p] = "idle"
    BY <1>t, <2>1, LeaveIs
  <2> QED
    BY <1>2, <1>t, <2>1, <2>2, LeaveIs
<1>6. ASSUME NEW p \in Threads, Compact(p)
      PROVE  ListInv'
  <2>1. UNCHANGED <<dead, subscribed, heard>> /\ AllCalled(p)
    BY <1>6 DEF Compact
  <2>2. /\ subs = snap[p] /\ Leave(p)
        /\ ToSet(List(subs))' = ToSet(List(subs)) \cap alive[p]
        /\ IsInjective(List(subs)) => IsInjective(List(subs)')
        /\ \A q \in Threads \ {p} : List(snap[q])' = List(snap[q])
        /\ dropped' = dropped \cup (ToSet(List(subs)) \ alive[p])
    BY <1>6, <1>t, CompactIs
  <2>3. ToSet(List(subs)) \subseteq alive[p] \cup heard
    <3>1. List(subs) \in Seq(Subscribers) /\ pc[p] = "call" /\ next[p] = Len(List(subs))
      BY <1>t, <2>1, <2>2, ListType DEF AllCalled, TypeOK
    <3>2. \A i \in 1 .. Len(List(subs)) : List(subs)[i] \in alive[p] \cup heard
      BY <2>2, <3>1 DEF ListInv, CallInv
    <3> QED
      BY <3>1, <3>2 DEF ToSet
  <2>4. \A q \in Threads : Fire(q)'
    <3>1. /\ pc'[p] = "idle"
          /\ \A q \in Threads \ {p} :
               /\ pc'[q] = pc[q] /\ next'[q] = next[q]
               /\ alive'[q] = alive[q] /\ before'[q] = before[q]
      BY <1>t, <2>2, LeaveIs
    <3> QED
      BY <2>1, <2>2, <3>1, SameFire
  <2>5. Listed'
    BY <1>t, <2>1, <2>2, <2>3 DEF NobodyLost, DroppedStaysOut
  <2> QED
    BY <1>0, <2>4, <2>5
<1>7. ASSUME NEW s \in Subscribers, Die(s)
      PROVE  ListInv'
  <2>1. UNCHANGED <<subs, heap, pc, snap, next, alive, subscribed, heard, dropped, before>>
        /\ dead \subseteq dead'
    BY <1>7 DEF Die, locals, history
  <2>2. \A p \in Threads : List(snap[p])' = List(snap[p])
    BY <2>1 DEF List
  <2>3. \A p \in Threads : Fire(p)'
    BY <2>1, <2>2, SameFire
  <2>4. Listed'
    BY <1>t, <2>1 DEF NobodyLost, DroppedStaysOut, List
  <2> QED
    BY <1>0, <2>3, <2>4
<1>8. CASE UNCHANGED vars
  <2>1. UNCHANGED <<subs, heap, dead, pc, snap, next, alive, subscribed, heard,
                    dropped, before>>
    BY <1>8 DEF vars, locals, history
  <2>2. \A p \in Threads : List(snap[p])' = List(snap[p])
    BY <2>1 DEF List
  <2>3. \A p \in Threads : Fire(p)'
    BY <2>1, <2>2, SameFire
  <2>4. Listed'
    BY <1>t, <2>1 DEF NobodyLost, DroppedStaysOut, List
  <2> QED
    BY <1>0, <2>3, <2>4
<1> QED
  BY <1>1, <1>3, <1>4, <1>5, <1>6, <1>7, <1>8 DEF Next, Step

THEOREM ListInvHolds == Spec => []ListInv
BY InitListInv, StepListInv, PTL DEF Spec

(* Every variable keeps its type, and a thread outside fire refers to no   *)
(* list.                                                                   *)
THEOREM TypeCorrect == Spec => []TypeOK
<1>1. ListInv => TypeOK
  BY DEF ListInv
<1> QED
  BY <1>1, ListInvHolds, PTL

(* No subscriber is lost but those that answered false: subscribes copy    *)
(* the list they replace, and a compaction replaces only the very list     *)
(* whose members it has called, which nobody's list can be mistaken for    *)
(* while the fire refers to it.                                            *)
THEOREM SubscribersKept == Spec => []NobodyLost
<1>1. ListInv => NobodyLost
  BY DEF ListInv
<1> QED
  BY <1>1, ListInvHolds, PTL

(* A callback is in the list at most once and never after it was dropped.  *)
THEOREM DroppedForGood == Spec => []DroppedStaysOut
<1>1. ListInv => DroppedStaysOut
  BY DEF ListInv
<1> QED
  BY <1>1, ListInvHolds, PTL

(* A fire has called, at its end, everybody who was there at its beginning *)
(* and has not died since.                                                 *)
THEOREM FireCallsAll == Spec => []EveryoneCalled
<1>1. ListInv => EveryoneCalled
  <2> SUFFICES ASSUME ListInv, NEW p \in Threads, AllCalled(p),
                      NEW s \in before[p] \ dead
               PROVE  s \in alive[p]
    BY DEF EveryoneCalled
  <2>1. pc[p] = "call" /\ next[p] = Len(List(snap[p])) /\ heard \subseteq dead
    BY DEF AllCalled, ListInv, TypeOK
  <2>2. List(snap[p]) \in Seq(Subscribers) /\ s \in ToSet(List(snap[p]))
    BY <2>1, ListType DEF ListInv, LoadedInv, TypeOK
  <2>3. PICK i \in 1 .. next[p] : s = List(snap[p])[i]
    BY <2>1, <2>2 DEF ToSet
  <2> QED
    BY <2>1, <2>3 DEF ListInv, CallInv
<1> QED
  BY <1>1, ListInvHolds, PTL

-----------------------------------------------------------------------------
(* The list implements Notification.                                       *)

(* The list a fire has loaded names nobody twice either.                   *)
LoadedOnce == \A p \in Threads : IsInjective(List(snap[p]))

(* The lists of fires under way do not change under them.                  *)
LEMMA OthersStay ==
  ASSUME ListInv, NEW p \in Threads, Load(p) \/ Step(p)
  PROVE  \A q \in Threads \ {p} :
           /\ pc'[q] = pc[q] /\ next'[q] = next[q]
           /\ List(snap[q])' = List(snap[q])
<1>t. TypeOK
  BY DEF ListInv
<1>1. CASE Load(p) \/ Call(p)
  BY <1>1, <1>t DEF Load, Call, TypeOK, List
<1>2. CASE Return(p) \/ Skip(p)
  <2>1. Leave(p) /\ UNCHANGED heap
    BY <1>2 DEF Return, Skip
  <2> QED
    BY <1>t, <2>1, LeaveIs DEF List
<1>3. CASE Compact(p)
  BY <1>3, <1>t, CompactIs, LeaveIs
<1> QED
  BY <1>1, <1>2, <1>3 DEF Step

(* Nor while somebody subscribes.                                          *)
LEMMA SubscribeStays ==
  ASSUME ListInv, NEW s \in Subscribers, Subscribe(s)
  PROVE  \A p \in Threads : List(snap[p])' = List(snap[p])
<1>1. PICK a \in Addresses : Store(a, Append(List(subs), s))
  BY DEF Subscribe
<1>2. TypeOK /\ snap' = snap
  BY DEF ListInv, Subscribe, locals
<1>3. Append(List(subs), s) \in Seq(Subscribers)
  BY <1>2, ListType, AppendIs DEF TypeOK
<1> QED
  BY <1>1, <1>2, <1>3, StoreIs

(* What the steps of a fire do to its own list.                            *)
LEMMA LoadIs ==
  ASSUME ListInv, NEW p \in Threads, Load(p)
  PROVE  List(snap[p])' = List(subs) /\ next'[p] = 0
BY DEF ListInv, TypeOK, Load, List

LEMMA CallIs ==
  ASSUME ListInv, NEW p \in Threads, Call(p)
  PROVE  List(snap[p])' = List(snap[p]) /\ next'[p] = next[p] + 1
BY DEF ListInv, TypeOK, Call, List

LEMMA EndIs ==
  ASSUME ListInv, NEW p \in Threads, Return(p) \/ Skip(p) \/ Compact(p)
  PROVE  /\ AllCalled(p) /\ pc'[p] = "idle" /\ next'[p] = 0
         /\ List(snap[p])' = <<>>
         /\ UNCHANGED <<subscribed, dead>>
<1>1. Leave(p) /\ AllCalled(p) /\ UNCHANGED <<subscribed, dead>>
  BY DEF Return, Skip, Compact, Modified
<1> QED
  BY <1>1, LeaveIs DEF ListInv, List

LEMMA LoadedOnceStep == ListInv /\ LoadedOnce /\ [Next]_vars => LoadedOnce'
<1> SUFFICES ASSUME ListInv, LoadedOnce, [Next]_vars
             PROVE  LoadedOnce'
  OBVIOUS
<1>e. IsInjective(<<>>)
  BY DEF IsInjective
<1>1. ASSUME NEW s \in Subscribers, Subscribe(s)
      PROVE  LoadedOnce'
  BY <1>1, SubscribeStays DEF LoadedOnce
<1>2. ASSUME NEW p \in Threads, Load(p) \/ Step(p)
      PROVE  LoadedOnce'
  <2>1. IsInjective(List(snap[p])')
    <3>1. CASE Load(p)
      BY <3>1, LoadIs DEF ListInv, DroppedStaysOut
    <3>2. CASE Call(p)
      BY <3>2, CallIs DEF LoadedOnce
    <3>3. CASE Return(p) \/ Skip(p) \/ Compact(p)
      BY <1>e, <3>3, EndIs
    <3> QED
      BY <1>2, <3>1, <3>2, <3>3 DEF Step
  <2> QED
    BY <1>2, <2>1, OthersStay DEF LoadedOnce
<1>3. ASSUME UNCHANGED <<heap, snap>>
      PROVE  LoadedOnce'
  BY <1>3 DEF LoadedOnce, List
<1>4. ASSUME NEW s \in Subscribers, Die(s)
      PROVE  LoadedOnce'
  BY <1>3, <1>4 DEF Die, locals
<1>5. CASE UNCHANGED vars
  BY <1>3, <1>5 DEF vars, locals
<1> QED
  BY <1>1, <1>2, <1>4, <1>5 DEF Next

(* Whom the fires still have to call, and which fires there are, when      *)
(* one fire moves, or none.                                                *)
Owed == [p \in Threads |-> Ahead(p)]
Firing == {p \in Threads : pc[p] = "call"}

LEMMA AheadFrame ==
  ASSUME NEW p, next'[p] = next[p], List(snap[p])' = List(snap[p])
  PROVE  Ahead(p)' = Ahead(p)
BY DEF Ahead

LEMMA OwedFrame ==
  ASSUME NEW p \in Threads, NEW told, Ahead(p)' = told,
         \A q \in Threads \ {p} :
           next'[q] = next[q] /\ List(snap[q])' = List(snap[q])
  PROVE  Owed' = [Owed EXCEPT ![p] = told]
<1>1. \A q \in Threads \ {p} : Ahead(q)' = Ahead(q)
  BY AheadFrame
<1> QED
  BY <1>1 DEF Owed

(* A fire calls the next of its list, and has him behind it.               *)
LEMMA CallTells ==
  ASSUME ListInv, LoadedOnce, NEW p \in Threads, Call(p)
  PROVE  \E s \in Subscribers : s \in Ahead(p) /\ Ahead(p)' = Ahead(p) \ {s}
<1> DEFINE list == List(snap[p])
           n == next[p]
<1>1. list \in Seq(Subscribers) /\ n \in Nat /\ n < Len(list)
  BY ListType DEF ListInv, TypeOK, Call
<1>2. IsInjective(list)
  BY DEF LoadedOnce
<1>3. /\ Ahead(p) = {list[i] : i \in n + 1 .. Len(list)}
      /\ Ahead(p)' = {list[i] : i \in n + 2 .. Len(list)}
  <2>1. List(snap[p])' = list /\ next'[p] + 1 = n + 2
    BY <1>1, CallIs
  <2> QED
    BY <2>1 DEF Ahead
<1> HIDE DEF list, n
<1>4. list[n + 1] \in Subscribers /\ list[n + 1] \in Ahead(p)
  BY <1>1, <1>3
<1>5. \A i \in n + 2 .. Len(list) : list[i] # list[n + 1]
  BY <1>1, <1>2 DEF IsInjective
<1>6. Ahead(p)' = Ahead(p) \ {list[n + 1]}
  BY <1>1, <1>3, <1>5
<1> QED
  BY <1>4, <1>6

(* What a compaction drops answered false.                                 *)
LEMMA DropsTheDead ==
  ASSUME ListInv, NEW p \in Threads, Return(p) \/ Skip(p) \/ Compact(p)
  PROVE  \E gone \in SUBSET dead : dropped' = dropped \cup gone
<1>1. CASE Return(p) \/ Skip(p)
  <2>1. dropped' = dropped \cup {}
    BY <1>1 DEF Return, Skip
  <2> QED
    BY <2>1
<1>2. CASE Compact(p)
  <2> DEFINE list == List(snap[p])
  <2>1. /\ dropped' = dropped \cup (ToSet(list) \ alive[p])
        /\ pc[p] = "call" /\ next[p] = Len(list)
    BY <1>2 DEF Compact, AllCalled
  <2>2. \A i \in 1 .. Len(list) : list[i] \in alive[p] \cup dead
    BY <2>1 DEF ListInv, CallInv, TypeOK
  <2>3. list \in Seq(Subscribers)
    BY ListType DEF ListInv, TypeOK
  <2>4. ToSet(list) \ alive[p] \subseteq dead
    BY <2>2, <2>3 DEF ToSet
  <2> QED
    BY <2>1, <2>4
<1> QED
  BY <1>1, <1>2

LEMMA NotifierStep ==
  ListInv /\ LoadedOnce /\ [Next]_vars => [Notifier!Next]_(Notifier!vars)
<1> SUFFICES ASSUME ListInv, LoadedOnce, [Next]_vars
             PROVE  [Notifier!Next]_(Notifier!vars)
  OBVIOUS
<1>t. TypeOK
  BY DEF ListInv
<1>1. ASSUME NEW s \in Subscribers, Subscribe(s)
      PROVE  Notifier!Next
  <2>1. Owed' = Owed
    <3>1. \A p \in Threads : Ahead(p)' = Ahead(p)
      BY <1>1, SubscribeStays, AheadFrame DEF Subscribe, locals
    <3> QED
      BY <3>1 DEF Owed
  <2>2. Notifier!Subscribe(s)
    BY <1>1, <2>1 DEF Subscribe, Notifier!Subscribe, Owed
  <2> QED
    BY <2>2 DEF Notifier!Next
<1>2. ASSUME UNCHANGED <<heap, pc, snap, next>>
      PROVE  Owed' = Owed
  BY <1>2 DEF Owed, Ahead, List
<1>3. ASSUME NEW s \in Subscribers, Die(s)
      PROVE  Notifier!Next
  <2>1. Owed' = Owed
    BY <1>2, <1>3 DEF Die, locals
  <2>2. Notifier!Die(s)
    BY <1>3, <2>1 DEF Die, history, Notifier!Die, Owed
  <2> QED
    BY <2>2 DEF Notifier!Next
<1>4. ASSUME NEW p \in Threads, Load(p)
      PROVE  Notifier!Next
  <2> DEFINE told == ToSet(List(subs))
  <2>1. List(subs) \in Seq(Subscribers)
    BY <1>t, ListType DEF TypeOK
  <2>2. Ahead(p)' = told
    <3>1. List(snap[p])' = List(subs) /\ next'[p] + 1 = 1
      BY <1>4, LoadIs
    <3>2. Ahead(p)' = {List(subs)[i] : i \in 1 .. Len(List(subs))}
      BY <3>1 DEF Ahead
    <3> QED
      BY <2>1, <3>2 DEF ToSet
  <2>3. Owed' = [Owed EXCEPT ![p] = told]
    BY <1>4, <2>2, OthersStay, OwedFrame
  <2>4. told \in SUBSET (subscribed \ dropped) /\ subscribed \ dead \subseteq told
    BY DEF ListInv, NobodyLost, DroppedStaysOut, TypeOK
  <2>5. p \notin Firing /\ Firing' = Firing \cup {p}
    BY <1>4, <1>t DEF Load, Firing, TypeOK
  <2>6. UNCHANGED <<subscribed, dead, dropped>>
    BY <1>4 DEF Load
  <2> HIDE DEF told
  <2>7. Notifier!Begin(p)
    BY <2>3, <2>4, <2>5, <2>6 DEF Notifier!Begin, Owed, Firing
  <2> QED
    BY <2>7 DEF Notifier!Next
<1>5. ASSUME NEW p \in Threads, Call(p)
      PROVE  Notifier!Next
  <2>1. PICK s \in Subscribers : s \in Ahead(p) /\ Ahead(p)' = Ahead(p) \ {s}
    BY <1>5, CallTells
  <2>2. Owed' = [Owed EXCEPT ![p] = @ \ {s}]
    <3>1. Owed' = [Owed EXCEPT ![p] = Ahead(p) \ {s}]
      BY <1>5, <2>1, OthersStay, OwedFrame DEF Step
    <3> QED
      BY <3>1 DEF Owed
  <2>3. UNCHANGED <<subscribed, dead, dropped, pc>>
    BY <1>5 DEF Call
  <2>4. Notifier!Tell(p, s)
    BY <2>1, <2>2, <2>3 DEF Notifier!Tell, Owed
  <2> QED
    BY <2>4 DEF Notifier!Next
<1>6. ASSUME NEW p \in Threads, Return(p) \/ Skip(p) \/ Compact(p)
      PROVE  Notifier!Next
  <2>1. /\ AllCalled(p) /\ pc'[p] = "idle" /\ next'[p] = 0
        /\ List(snap[p])' = <<>>
        /\ UNCHANGED <<subscribed, dead>>
    BY <1>6, EndIs
  <2>2. Ahead(p) = {} /\ Ahead(p)' = {}
    <3>1. next[p] = Len(List(snap[p])) /\ next[p] \in Nat
      BY <1>t, <2>1 DEF AllCalled, TypeOK
    <3>2. next[p] + 1 .. Len(List(snap[p])) = {}
      BY <3>1
    <3>3. next'[p] + 1 .. Len(List(snap[p])') = {}
      BY <2>1
    <3> QED
      BY <3>2, <3>3 DEF Ahead
  <2>3. Owed[p] = {} /\ Owed' = Owed
    <3>1. Owed' = [Owed EXCEPT ![p] = {}]
      BY <1>6, <2>2, OthersStay, OwedFrame DEF Step
    <3> QED
      BY <2>2, <3>1 DEF Owed
  <2>4. p \in Firing /\ Firing' = Firing \ {p}
    <3>1. \A q \in Threads \ {p} : pc'[q] = pc[q]
      BY <1>6, OthersStay DEF Step
    <3> QED
      BY <2>1, <3>1 DEF Firing, AllCalled
  <2>5. \E gone \in SUBSET dead : dropped' = dropped \cup gone
    BY <1>6, DropsTheDead
  <2>6. Notifier!End(p)
    BY <2>1, <2>3, <2>4, <2>5 DEF Notifier!End, Owed, Firing
  <2> QED
    BY <2>6 DEF Notifier!Next
<1>7. CASE UNCHANGED vars
  <2>1. Owed' = Owed
    BY <1>2, <1>7 DEF vars, locals
  <2> QED
    BY <1>7, <2>1 DEF vars, locals, history, Notifier!vars, Owed
<1> QED
  BY <1>1, <1>3, <1>4, <1>5, <1>6, <1>7 DEF Next, Step

(* A fire calls everybody who was there when it began and lives, each      *)
(* once, and nobody who was dropped before; compactions drop only who has  *)
(* died (core/subscriber_list.hpp:44-93).                                  *)
THEOREM ListNotifies == Spec => Notifies
<1>1. Init => Notifier!Init /\ LoadedOnce
  <2> SUFFICES ASSUME Init
               PROVE  Notifier!Init /\ LoadedOnce
    OBVIOUS
  <2>1. \A p \in Threads : List(snap[p]) = <<>> /\ next[p] = 0
    BY DEF Init, List
  <2>2. \A p \in Threads : Ahead(p) = {}
    BY <2>1 DEF Ahead
  <2>3. IsInjective(<<>>)
    BY DEF IsInjective
  <2> QED
    BY <2>1, <2>2, <2>3 DEF Init, LoadedOnce, Notifier!Init
<1> QED
  BY <1>1, ListInvHolds, LoadedOnceStep, NotifierStep, PTL
     DEF Spec, Notifies, Notifier!Spec

=============================================================================
