-------------------------- MODULE BarrierViewProofs --------------------------
(***************************************************************************)
(* No change of the store is lost on a barrier, for any number of threads, *)
(* barriers, keys and changes.                                             *)
(***************************************************************************)
EXTENDS BarrierView, WellFoundedInduction, TLAPS

(* Where a thread is, and what it carries there: nothing outside a call, a *)
(* barrier inside one, new keys only in a call of a barrier's owner, and   *)
(* an injector, the barrier's current one, only while it runs.             *)
Shape ==
  /\ \A b \in Barriers : life[b] # "unborn" => b \in ToSet(subs)
  /\ \A p \in Threads :
       /\ pc[p] = "idle" => key[p] = None
       /\ pc[p] \in {"idle", "fire", "notify"} => cur[p] = None /\ newkeys[p] = None
       /\ pc[p] \in {"lock", "inject", "injecting"} => cur[p] # None
       /\ key[p] # None => newkeys[p] = None
       /\ calling[p] # None => pc[p] = "injecting" /\ calling[p] = injector[cur[p]]

(* A thread will evaluate b: it is at b and will not ignore it, or it      *)
(* changed one of its keys and b is, or will be, in its queue.             *)
Coming(b, q) ==
  \/ cur[q] = b /\ pc[q] = "lock" /\ Relevant(q, KeysAt(q))
  \/ /\ key[q] \in ToSet(required[b])
     /\ pc[q] = "fire" \/ b \in ToSet(queue[q])

(* The last evaluation of b saw the store as it is; its view is injected,  *)
(* or a thread is about to inject it.                                      *)
Looked(b) ==
  /\ complete[b] = AllPresent(required[b])
  /\ complete[b] =>
       /\ assembled[b] = View(required[b])
       /\ \/ injected[b] = assembled[b]
          \/ \E q \in Threads : cur[q] = b /\ pc[q] = "inject"

NothingLost ==
  \A b \in Barriers :
    life[b] = "live" => Looked(b) \/ \E q \in Threads : Coming(b, q)

(* NoLostChange alone is not inductive: a thread that is at a barrier may  *)
(* ignore it, and one that runs the injector may have assembled the view   *)
(* before the last change.                                                 *)
IInv == TypeOK /\ Shape /\ NothingLost

-----------------------------------------------------------------------------
(* What a barrier wants is a list of keys. *)
LEMMA WantedKeys ==
  ASSUME NEW ks \in KeyLists
  PROVE  /\ ks \in Seq(Keys) /\ Len(ks) \in Nat /\ DOMAIN ks = 1 .. Len(ks)
         /\ \A i \in DOMAIN ks : ks[i] \in Keys
         /\ None \notin ToSet(ks)
BY BarrierAssumption DEF ToSet

(* A set of numbers has a least one. *)
LEMMA LeastNumber ==
  ASSUME NEW T \in SUBSET Nat, T # {}
  PROVE  \E x \in T : \A y \in T : x <= y
<1> DEFINE R == OpToRel(<, Nat)
<1>1. R = {ss \in Nat \X Nat : ss[1] < ss[2]}
  BY Zenon DEF OpToRel
<1>2. IsWellFoundedOn(R, Nat)
  BY NatLessThanWellFounded, Zenon
<1> HIDE DEF R
<1>3. PICK x \in T : \A y \in T : ~ (<<y, x>> \in R)
  BY <1>2, WFMin, Zenon
<1>4. \A y \in T : ~ (y < x)
  <2> TAKE y \in T
  <2>1. <<y, x>> \in Nat \X Nat /\ <<y, x>>[1] = y /\ <<y, x>>[2] = x
    OBVIOUS
  <2> QED
    BY <1>1, <1>3, <2>1
<1> QED
  BY <1>4

(* The assembled prefix is a sequence of values, and the whole view when   *)
(* no key is missing.                                                      *)
LEMMA PrefixType ==
  ASSUME NEW ks \in KeyLists, data \in [Keys -> Values \cup {None}]
  PROVE  /\ Prefix(ks) \in Seq(Values)
         /\ AllPresent(ks) => Prefix(ks) = View(ks)
<1> DEFINE missing == {i \in DOMAIN ks : data[ks[i]] = None}
           first == CHOOSE i \in missing : \A j \in missing : i <= j
<1>1. /\ Len(ks) \in Nat /\ DOMAIN ks = 1 .. Len(ks)
      /\ \A i \in DOMAIN ks : ks[i] \in Keys
  BY WantedKeys
<1>2. AllPresent(ks) <=> missing = {}
  BY DEF AllPresent
<1>3. CASE missing = {}
  <2>1. \A i \in 1 .. Len(ks) : data[ks[i]] \in Values
    BY <1>1, <1>3
  <2>2. View(ks) \in Seq(Values)
    BY <1>1, <2>1 DEF View
  <2> QED
    BY <1>3, <2>2 DEF Prefix
<1>4. CASE missing # {}
  <2>1. missing \in SUBSET Nat
    BY <1>1
  <2>2. first \in missing /\ \A j \in missing : first <= j
    BY <1>4, <2>1, LeastNumber
  <2> HIDE DEF first
  <2>3. first \in 1 .. Len(ks)
    BY <1>1, <2>2
  <2>4. \A i \in 1 .. (first - 1) : data[ks[i]] \in Values
    <3> TAKE i \in 1 .. (first - 1)
    <3>1. i \in DOMAIN ks /\ i \notin missing
      BY <1>1, <2>2, <2>3
    <3> QED
      BY <1>1, <3>1
  <2>5. View(ks) = [i \in 1 .. Len(ks) |-> data[ks[i]]]
    BY <1>1 DEF View
  <2>6. SubSeq(View(ks), 1, first - 1) = [i \in 1 .. (first - 1) |-> data[ks[i]]]
    BY <1>1, <2>3, <2>5
  <2>7. SubSeq(View(ks), 1, first - 1) \in Seq(Values)
    BY <2>3, <2>4, <2>6
  <2>8. Prefix(ks) = SubSeq(View(ks), 1, first - 1)
    BY <1>4 DEF Prefix, first
  <2> QED
    BY <1>2, <1>4, <2>7, <2>8
<1> QED
  BY <1>3, <1>4

-----------------------------------------------------------------------------
(* Type correctness.                                                       *)

(* The keys an evaluation looks for. *)
LEMMA KeysAtType ==
  ASSUME TypeOK, Shape, NEW p \in Threads, pc[p] \in {"lock", "inject", "injecting"}
  PROVE  cur[p] \in Barriers /\ KeysAt(p) \in KeyLists
BY DEF TypeOK, Shape, KeysAt

LEMMA TypeInit == Init => TypeOK
<1> SUFFICES ASSUME Init PROVE TypeOK
  OBVIOUS
<1>1. AnyKeys \in KeyLists
  BY BarrierAssumption DEF AnyKeys
<1> QED
  BY <1>1, BarrierAssumption DEF Init, TypeOK, LockHeld

LEMMA ChangeType ==
  ASSUME TypeOK, Shape, NEW p \in Threads, NEW k \in Keys, NEW v \in Values \cup {None},
         Change(p, k, v)
  PROVE  TypeOK'
BY BarrierAssumption DEF TypeOK, LockHeld, Shape, Change, barrier, visit

LEMMA NotifyType ==
  ASSUME TypeOK, Shape, NEW p \in Threads, Fire(p) \/ Notify(p) \/ Return(p)
  PROVE  TypeOK'
<1>1. CASE Fire(p)
  BY <1>1 DEF TypeOK, LockHeld, Shape, Fire, shared, barrier, visit, history
<1>2. CASE Notify(p)
  <2>1. Head(queue[p]) \in Barriers /\ Tail(queue[p]) \in Seq(Barriers)
    BY <1>2 DEF TypeOK, Notify
  <2>2. queue' \in [Threads -> Seq(Barriers)]
    BY <1>2, <2>1 DEF TypeOK, Notify
  <2>3. CASE life[Head(queue[p])] = "dead"
    BY <1>2, <2>2, <2>3 DEF TypeOK, LockHeld, Notify, shared, barrier, history
  <2>4. CASE life[Head(queue[p])] # "dead"
    <3>1. /\ cur' = [cur EXCEPT ![p] = Head(queue[p])]
          /\ pc' = [pc EXCEPT ![p] = "lock"] /\ pc[p] = "notify"
          /\ UNCHANGED <<shared, barrier, key, newkeys, calling, history>>
      BY <1>2, <2>4 DEF Notify
    <3>2. LockHeld'
      BY <3>1 DEF TypeOK, LockHeld, barrier
    <3> QED
      BY <2>1, <2>2, <3>1, <3>2 DEF TypeOK, shared, barrier, history
  <2> QED
    BY <2>3, <2>4
<1>3. CASE Return(p)
  BY <1>3 DEF TypeOK, LockHeld, Return, shared, barrier, visit, history
<1> QED
  BY <1>1, <1>2, <1>3

LEMMA OwnerType ==
  ASSUME TypeOK, Shape, NEW b \in Barriers,
         \/ \E p \in Threads, ks \in KeyLists : Construct(p, b, ks) \/ SetKeys(p, b, ks)
         \/ SetInjector(b) \/ Destroy(b)
  PROVE  TypeOK'
<1>1. ASSUME NEW p \in Threads, NEW ks \in KeyLists, Construct(p, b, ks)
      PROVE  TypeOK'
  <2>1. subs' \in Seq(Barriers)
    BY <1>1 DEF TypeOK, Construct
  <2>2. LockHeld'
    BY <1>1 DEF TypeOK, LockHeld, Shape, Construct
  <2> QED
    BY <1>1, <2>1, <2>2 DEF TypeOK, Construct, history
<1>2. ASSUME NEW p \in Threads, NEW ks \in KeyLists, SetKeys(p, b, ks)
      PROVE  TypeOK'
  <2>1. LockHeld'
    BY <1>2 DEF TypeOK, LockHeld, Shape, SetKeys, barrier
  <2>2. /\ reconfs' \in 0 .. MaxSetKeys
        /\ injector' \in [Barriers -> 0 .. reconfs']
    BY <1>2, BarrierAssumption DEF TypeOK, SetKeys, barrier
  <2> QED
    BY <1>2, <2>1, <2>2 DEF TypeOK, SetKeys, shared, barrier
<1>3. CASE SetInjector(b)
  <2>1. injector' \in [Barriers -> 0 .. reconfs']
    BY <1>3, BarrierAssumption DEF TypeOK, SetInjector
  <2>2. reconfs' \in 0 .. MaxSetKeys
    BY <1>3, BarrierAssumption DEF TypeOK, SetInjector
  <2>3. LockHeld'
    BY <1>3 DEF TypeOK, LockHeld, SetInjector, locals, visit
  <2> QED
    BY <1>3, <2>1, <2>2, <2>3 DEF TypeOK, SetInjector, shared, locals, visit
<1>4. CASE Destroy(b)
  BY <1>4 DEF TypeOK, LockHeld, Destroy, barrier, locals, visit, history
<1> QED
  BY <1>1, <1>2, <1>3, <1>4

LEMMA VisitType ==
  ASSUME TypeOK, Shape, NEW p \in Threads,
         Ignore(p) \/ Evaluate(p) \/ BeginInject(p) \/ EndInject(p)
  PROVE  TypeOK'
<1>1. CASE Ignore(p)
  <2>1. LockHeld'
    BY <1>1 DEF TypeOK, LockHeld, Ignore, LeaveBarrier, barrier
  <2> QED
    BY <1>1, <2>1 DEF TypeOK, Ignore, LeaveBarrier, shared, barrier, history
<1>2. CASE Evaluate(p)
  <2> DEFINE b == cur[p]
             ks == KeysAt(p)
  <2>1. b \in Barriers /\ ks \in KeyLists
    BY <1>2, KeysAtType DEF Evaluate
  <2>2. Prefix(ks) \in Seq(Values) /\ AllPresent(ks) \in BOOLEAN
    BY <2>1, PrefixType DEF TypeOK, AllPresent
  <2>3. /\ required' \in [Barriers -> KeyLists]
        /\ complete' \in [Barriers -> BOOLEAN]
        /\ assembled' \in [Barriers -> Seq(Values)]
    BY <1>2, <2>1, <2>2 DEF Evaluate, TypeOK
  <2>4. CASE AllPresent(ks)
    <3>1. /\ holder' = [holder EXCEPT ![b] = p] /\ seen' = [seen EXCEPT ![b] = version]
          /\ pc' = [pc EXCEPT ![p] = "inject"] /\ pc[p] = "lock" /\ holder[b] = None
          /\ UNCHANGED <<visit, shared, injector, key, queue, version, injected, reconfs>>
      BY <1>2, <2>4 DEF Evaluate
    <3>2. LockHeld'
      BY <2>1, <3>1, BarrierAssumption DEF TypeOK, LockHeld, visit
    <3> QED
      BY <2>1, <2>3, <3>1, <3>2 DEF TypeOK, shared, visit
  <2>5. CASE ~ AllPresent(ks)
    <3>1. /\ LeaveBarrier(p) /\ UNCHANGED <<holder, seen>> /\ pc[p] = "lock"
          /\ UNCHANGED <<shared, injector, key, queue, version, injected, reconfs>>
      BY <1>2, <2>5 DEF Evaluate
    <3>2. LockHeld'
      BY <3>1 DEF TypeOK, LockHeld, LeaveBarrier
    <3> QED
      BY <2>3, <3>1, <3>2 DEF TypeOK, LeaveBarrier, shared
  <2> QED
    BY <2>4, <2>5
<1>3. CASE BeginInject(p)
  <2>1. cur[p] \in Barriers
    BY <1>3, KeysAtType DEF BeginInject
  <2>2. LockHeld'
    BY <1>3 DEF TypeOK, LockHeld, BeginInject, barrier
  <2>3. /\ injector[cur[p]] \in 0 .. MaxSetKeys
        /\ assembled[cur[p]] \in Seq(Values)
    BY <2>1, BarrierAssumption DEF TypeOK
  <2>4. /\ calling' \in [Threads -> 0 .. MaxSetKeys \cup {None}]
        /\ injected' \in [Barriers -> Seq(Values) \cup {None}]
    BY <1>3, <2>1, <2>3 DEF TypeOK, BeginInject
  <2> QED
    BY <1>3, <2>1, <2>2, <2>4 DEF TypeOK, BeginInject, shared, barrier
<1>4. CASE EndInject(p)
  <2>1. cur[p] \in Barriers /\ holder[cur[p]] = p /\ pc[p] = "injecting"
    BY <1>4, KeysAtType DEF TypeOK, LockHeld, EndInject
  <2>2. LockHeld'
    BY <1>4, <2>1, BarrierAssumption DEF TypeOK, LockHeld, EndInject, LeaveBarrier
  <2> QED
    BY <1>4, <2>1, <2>2, BarrierAssumption
       DEF TypeOK, EndInject, LeaveBarrier, shared, history
<1> QED
  BY <1>1, <1>2, <1>3, <1>4

-----------------------------------------------------------------------------
(* Where the threads are.                                                  *)

LEMMA ShapeInit == Init => Shape
BY DEF Init, Shape

LEMMA SubscribedStays ==
  ASSUME TypeOK, NEW b \in Barriers, NEW c \in Barriers
  PROVE  /\ c \in ToSet(Append(subs, b)) <=> c \in ToSet(subs) \/ c = b
<1>1. subs \in Seq(Barriers) /\ Len(subs) \in Nat /\ DOMAIN subs = 1 .. Len(subs)
  BY DEF TypeOK
<1>2. /\ DOMAIN Append(subs, b) = 1 .. Len(subs) + 1
      /\ Append(subs, b)[Len(subs) + 1] = b
      /\ \A i \in 1 .. Len(subs) : Append(subs, b)[i] = subs[i]
  BY <1>1
<1>3. 1 .. Len(subs) + 1 = DOMAIN subs \cup {Len(subs) + 1}
  BY <1>1
<1> QED
  BY <1>1, <1>2, <1>3 DEF ToSet

LEMMA ShapeCalls ==
  ASSUME TypeOK, Shape, NEW p \in Threads,
         \/ \E k \in Keys, v \in Values \cup {None} : Change(p, k, v)
         \/ \E b \in Barriers, ks \in KeyLists : Construct(p, b, ks) \/ SetKeys(p, b, ks)
  PROVE  Shape'
<1>1. ASSUME NEW k \in Keys, NEW v \in Values \cup {None}, Change(p, k, v)
      PROVE  Shape'
  BY <1>1 DEF TypeOK, Shape, Change, barrier, visit
<1>2. ASSUME NEW b \in Barriers, NEW ks \in KeyLists, Construct(p, b, ks)
      PROVE  Shape'
  <2>1. \A c \in Barriers : life'[c] # "unborn" => c \in ToSet(subs')
    BY <1>2, SubscribedStays DEF TypeOK, Shape, Construct
  <2> QED
    BY <1>2, <2>1, BarrierAssumption DEF TypeOK, Shape, Construct
<1>3. ASSUME NEW b \in Barriers, NEW ks \in KeyLists, SetKeys(p, b, ks)
      PROVE  Shape'
  BY <1>3, BarrierAssumption DEF TypeOK, Shape, SetKeys, shared, barrier
<1> QED
  BY <1>1, <1>2, <1>3

LEMMA ShapeSteps ==
  ASSUME TypeOK, Shape, NEW p \in Threads, Step(p)
  PROVE  Shape'
<1>1. CASE Fire(p)
  BY <1>1 DEF TypeOK, Shape, Fire, shared, barrier, visit
<1>2. CASE Notify(p)
  <2>1. Head(queue[p]) \in Barriers
    BY <1>2 DEF TypeOK, Notify
  <2> QED
    BY <1>2, <2>1, BarrierAssumption DEF TypeOK, Shape, Notify, shared, barrier
<1>3. CASE Return(p)
  BY <1>3 DEF TypeOK, Shape, Return, shared, barrier, visit
<1>4. CASE Ignore(p)
  BY <1>4 DEF TypeOK, Shape, Ignore, LeaveBarrier, shared, barrier
<1>5. CASE Evaluate(p)
  <2>1. CASE AllPresent(KeysAt(p))
    <3>1. /\ pc' = [pc EXCEPT ![p] = "inject"] /\ pc[p] = "lock"
          /\ UNCHANGED <<visit, shared, injector, key>>
      BY <1>5, <2>1 DEF Evaluate
    <3> QED
      BY <3>1 DEF TypeOK, Shape, shared, visit
  <2>2. CASE ~ AllPresent(KeysAt(p))
    <3>1. LeaveBarrier(p) /\ pc[p] = "lock" /\ UNCHANGED <<shared, injector, key>>
      BY <1>5, <2>2 DEF Evaluate
    <3> QED
      BY <3>1 DEF TypeOK, Shape, LeaveBarrier, shared
  <2> QED
    BY <2>1, <2>2
<1>6. CASE BeginInject(p)
  BY <1>6 DEF TypeOK, Shape, BeginInject, shared, barrier
<1>7. CASE EndInject(p)
  BY <1>7 DEF TypeOK, Shape, EndInject, LeaveBarrier, shared
<1> QED
  BY <1>1, <1>2, <1>3, <1>4, <1>5, <1>6, <1>7 DEF Step

LEMMA ShapeOwner ==
  ASSUME TypeOK, Shape, NEW b \in Barriers, SetInjector(b) \/ Destroy(b)
  PROVE  Shape'
<1>1. CASE SetInjector(b)
  <2>1. \A p \in Threads : calling[p] # None => cur[p] \in Barriers /\ cur[p] # b
    BY <1>1, BarrierAssumption DEF TypeOK, LockHeld, Shape, SetInjector
  <2> QED
    BY <1>1, <2>1 DEF TypeOK, Shape, SetInjector, shared, locals, visit
<1>2. CASE Destroy(b)
  BY <1>2 DEF TypeOK, Shape, Destroy, barrier, locals, visit
<1> QED
  BY <1>1, <1>2

-----------------------------------------------------------------------------
(* Nothing is lost.                                                        *)

(* What an evaluation saw is what is there as long as the keys it looked   *)
(* for keep their values and nobody else evaluates.                        *)
LEMMA LookedKept ==
  ASSUME NEW b \in Barriers, Looked(b),
         required'[b] = required[b], complete'[b] = complete[b],
         assembled'[b] = assembled[b],
         \A i \in DOMAIN required[b] : data'[required[b][i]] = data[required[b][i]],
         \/ injected'[b] = injected[b]
         \/ injected'[b] = assembled[b],
         \/ injected'[b] = assembled[b]
         \/ \A q \in Threads : cur[q] = b /\ pc[q] = "inject"
                                 => cur'[q] = b /\ pc'[q] = "inject"
  PROVE  Looked(b)'
<1>1. AllPresent(required[b])' = AllPresent(required[b])
  BY DEF AllPresent
<1>2. View(required[b])' = View(required[b])
  BY DEF View
<1> QED
  BY <1>1, <1>2 DEF Looked

(* A thread that does not move is still coming.                            *)
LEMMA ComingKept ==
  ASSUME NEW b \in Barriers, NEW q \in Threads, Coming(b, q),
         required'[b] = required[b],
         cur'[q] = cur[q], pc'[q] = pc[q], key'[q] = key[q],
         queue'[q] = queue[q], newkeys'[q] = newkeys[q]
  PROVE  Coming(b, q)'
BY DEF Coming, Relevant, KeysAt

(* A thread outside any call comes to nobody.                              *)
LEMMA IdleNotComing ==
  ASSUME TypeOK, Shape, NEW b \in Barriers, NEW q \in Threads, pc[q] = "idle"
  PROVE  ~ Coming(b, q)
<1>1. key[q] = None /\ required[b] \in KeyLists
  BY DEF TypeOK, Shape
<1> QED
  BY <1>1, WantedKeys DEF Coming

(* A change of a key b wants is on its way to b; another is nothing to b.  *)
LEMMA ChangeLosesNothing ==
  ASSUME IInv, NEW p \in Threads, NEW k \in Keys, NEW v \in Values \cup {None},
         Change(p, k, v)
  PROVE  NothingLost'
<1> SUFFICES ASSUME NEW b \in Barriers, life'[b] = "live"
             PROVE  Looked(b)' \/ \E q \in Threads : Coming(b, q)'
  BY DEF NothingLost
<1> USE DEF IInv
<1>1. /\ pc[p] = "idle" /\ life[b] = "live" /\ data' = [data EXCEPT ![k] = v]
      /\ key' = [key EXCEPT ![p] = k] /\ pc' = [pc EXCEPT ![p] = "fire"]
      /\ UNCHANGED <<required, complete, assembled, queue, cur, newkeys, injected>>
  BY DEF Change, barrier, visit
<1>2. required[b] \in KeyLists
  BY DEF TypeOK
<1>3. ASSUME NEW q \in Threads, Coming(b, q)
      PROVE  Coming(b, q)'
  <2>1. q # p
    BY <1>1, <1>3, IdleNotComing
  <2> QED
    BY <1>1, <1>3, <2>1, ComingKept DEF TypeOK
<1>4. CASE k \in ToSet(required[b])
  <2>1. Coming(b, p)'
    BY <1>1, <1>4 DEF TypeOK, Coming
  <2> QED
    BY <2>1
<1>5. ASSUME Looked(b), k \notin ToSet(required[b])
      PROVE  Looked(b)'
  <2>1. \A i \in DOMAIN required[b] : required[b][i] # k
    BY <1>5 DEF ToSet
  <2>2. \A i \in DOMAIN required[b] : data'[required[b][i]] = data[required[b][i]]
    BY <1>1, <1>2, <2>1, WantedKeys DEF TypeOK
  <2> QED
    BY <1>1, <1>5, <2>2, LookedKept DEF TypeOK
<1> QED
  BY <1>1, <1>3, <1>4, <1>5 DEF NothingLost

(* The list of subscribers has every live barrier; the barrier that is     *)
(* called next is the one the thread is at then.                           *)
LEMMA NotifyLosesNothing ==
  ASSUME IInv, NEW p \in Threads, Fire(p) \/ Notify(p) \/ Return(p)
  PROVE  NothingLost'
<1> SUFFICES ASSUME NEW b \in Barriers, life'[b] = "live"
             PROVE  Looked(b)' \/ \E q \in Threads : Coming(b, q)'
  BY DEF NothingLost
<1> USE DEF IInv
<1>1. /\ pc[p] \in {"fire", "notify"} /\ life[b] = "live"
      /\ UNCHANGED <<data, life, required, complete, assembled, newkeys, injected>>
      /\ \A q \in Threads \ {p} : /\ pc'[q] = pc[q] /\ cur'[q] = cur[q]
                                  /\ key'[q] = key[q] /\ queue'[q] = queue[q]
  BY DEF TypeOK, Fire, Notify, Return, shared, barrier, visit, history
<1>2. Looked(b) => Looked(b)'
  BY <1>1, LookedKept
<1>3. ASSUME NEW q \in Threads, Coming(b, q), q # p
      PROVE  Coming(b, q)'
  BY <1>1, <1>3, ComingKept
<1>4. ASSUME Coming(b, p)
      PROVE  Coming(b, p)'
  <2>1. /\ key[p] \in ToSet(required[b])
        /\ pc[p] = "fire" \/ b \in ToSet(queue[p])
        /\ newkeys[p] = None /\ key[p] # None
    <3>1. required[b] \in KeyLists
      BY DEF TypeOK
    <3> QED
      BY <1>1, <1>4, <3>1, WantedKeys DEF Coming, Shape
  <2>2. CASE Fire(p)
    <3>1. b \in ToSet(queue'[p]) /\ key' = key
      BY <1>1, <2>2 DEF TypeOK, Shape, Fire
    <3>2. key'[p] \in ToSet(required'[b]) /\ b \in ToSet(queue'[p])
      BY <1>1, <2>1, <3>1
    <3> QED
      BY <3>2 DEF Coming
  <2>3. CASE Notify(p)
    <3>1. /\ queue[p] \in Seq(Barriers) /\ queue[p] # <<>> /\ b \in ToSet(queue[p])
          /\ queue'[p] = Tail(queue[p]) /\ key'[p] = key[p]
      BY <2>1, <2>3 DEF TypeOK, Notify
    <3>2. b = Head(queue[p]) \/ b \in ToSet(Tail(queue[p]))
      <4>1. PICK i \in DOMAIN queue[p] : queue[p][i] = b
        BY <3>1 DEF ToSet
      <4>2. CASE i = 1
        BY <3>1, <4>1, <4>2
      <4>3. CASE i # 1
        <5>1. i - 1 \in DOMAIN Tail(queue[p]) /\ Tail(queue[p])[i - 1] = b
          BY <3>1, <4>1, <4>3
        <5> QED
          BY <5>1 DEF ToSet
      <4> QED
        BY <4>2, <4>3
    <3>3. CASE b \in ToSet(Tail(queue[p]))
      <4>1. key'[p] \in ToSet(required'[b]) /\ b \in ToSet(queue'[p])
        BY <1>1, <2>1, <3>1, <3>3
      <4> QED
        BY <4>1 DEF Coming
    <3>4. CASE b = Head(queue[p])
      <4>1. cur'[p] = b /\ pc'[p] = "lock"
        BY <1>1, <2>3, <3>4 DEF TypeOK, Notify
      <4>2. newkeys'[p] = None /\ key'[p] \in ToSet(required'[b])
        BY <1>1, <2>1, <3>1
      <4>3. Relevant(p, KeysAt(p))'
        BY <4>1, <4>2 DEF Relevant, KeysAt
      <4> QED
        BY <4>1, <4>3 DEF Coming
    <3> QED
      BY <3>2, <3>3, <3>4
  <2>4. CASE Return(p)
    BY <2>1, <2>4 DEF Return, ToSet
  <2> QED
    BY <2>2, <2>3, <2>4
<1> QED
  BY <1>1, <1>2, <1>3, <1>4 DEF NothingLost

(* A barrier's owner evaluates what it constructs or asks for new keys.    *)
LEMMA OwnerLosesNothing ==
  ASSUME IInv, NEW c \in Barriers,
         \/ \E p \in Threads, ks \in KeyLists : Construct(p, c, ks) \/ SetKeys(p, c, ks)
         \/ SetInjector(c) \/ Destroy(c)
  PROVE  NothingLost'
<1> SUFFICES ASSUME NEW b \in Barriers, life'[b] = "live"
             PROVE  Looked(b)' \/ \E q \in Threads : Coming(b, q)'
  BY DEF NothingLost
<1> USE DEF IInv
<1>1. ASSUME NEW p \in Threads, NEW ks \in KeyLists,
             Construct(p, c, ks) \/ SetKeys(p, c, ks)
      PROVE  Looked(b)' \/ \E q \in Threads : Coming(b, q)'
  <2>1. /\ pc[p] = "idle" /\ key'[p] = None
        /\ cur'[p] = c /\ pc'[p] = "lock"
        /\ UNCHANGED <<data, complete, assembled, injected>>
        /\ \A q \in Threads \ {p} : /\ pc'[q] = pc[q] /\ cur'[q] = cur[q]
                                    /\ key'[q] = key[q] /\ queue'[q] = queue[q]
                                    /\ newkeys'[q] = newkeys[q]
    BY <1>1 DEF TypeOK, Shape, Construct, SetKeys, shared, barrier, history
  <2>2. CASE b = c
    BY <2>1, <2>2 DEF Coming, Relevant
  <2>3. CASE b # c
    <3>1. required'[b] = required[b] /\ life[b] = "live"
      BY <1>1, <2>3 DEF TypeOK, Construct, SetKeys, shared, barrier
    <3>2. ASSUME NEW q \in Threads, Coming(b, q)
          PROVE  Coming(b, q)'
      <4>1. q # p
        BY <2>1, <3>2, IdleNotComing
      <4> QED
        BY <2>1, <3>1, <3>2, <4>1, ComingKept
    <3>3. Looked(b) => Looked(b)'
      BY <2>1, <3>1, LookedKept
    <3> QED
      BY <3>1, <3>2, <3>3 DEF NothingLost
  <2> QED
    BY <2>2, <2>3
<1>2. CASE SetInjector(c) \/ Destroy(c)
  <2>1. /\ UNCHANGED <<data, required, complete, assembled, injected, pc, cur, key,
                       queue, newkeys>>
        /\ life[b] = "live"
    BY <1>2 DEF TypeOK, SetInjector, Destroy, shared, barrier, locals, visit, history
  <2>2. Looked(b) => Looked(b)'
    BY <2>1, LookedKept
  <2>3. \A q \in Threads : Coming(b, q) => Coming(b, q)'
    BY <2>1, ComingKept
  <2> QED
    BY <2>1, <2>2, <2>3 DEF NothingLost
<1> QED
  BY <1>1, <1>2

(* A thread at one barrier is still coming to the others it has to call.   *)
LEMMA OthersStillCome ==
  ASSUME NEW b \in Barriers, NEW p \in Threads, Coming(b, p), cur[p] # b \/ pc[p] # "lock",
         pc[p] # "fire", required'[b] = required[b],
         key'[p] = key[p], queue'[p] = queue[p]
  PROVE  Coming(b, p)'
<1>1. key'[p] \in ToSet(required'[b]) /\ b \in ToSet(queue'[p])
  BY DEF Coming
<1> QED
  BY <1>1 DEF Coming

(* A thread that ignores a change at b owes b nothing for it; one that     *)
(* evaluates leaves b looked at, or injects first.                         *)
LEMMA VisitLosesNothing ==
  ASSUME IInv, NEW p \in Threads,
         Ignore(p) \/ Evaluate(p) \/ BeginInject(p) \/ EndInject(p)
  PROVE  NothingLost'
<1> SUFFICES ASSUME NEW b \in Barriers, life'[b] = "live"
             PROVE  Looked(b)' \/ \E q \in Threads : Coming(b, q)'
  BY DEF NothingLost
<1> USE DEF IInv
<1>1. /\ pc[p] \in {"lock", "inject", "injecting"} /\ life[b] = "live"
      /\ UNCHANGED <<data, life, key, queue>>
      /\ \A q \in Threads \ {p} : /\ pc'[q] = pc[q] /\ cur'[q] = cur[q]
                                  /\ newkeys'[q] = newkeys[q]
  BY DEF TypeOK, Ignore, Evaluate, BeginInject, EndInject, LeaveBarrier, shared,
         visit
<1>2. cur[p] \in Barriers /\ KeysAt(p) \in KeyLists
  BY <1>1, KeysAtType
<1>3. ASSUME NEW q \in Threads, q # p, Coming(b, q), required'[b] = required[b]
      PROVE  Coming(b, q)'
  BY <1>1, <1>3, ComingKept
<1>4. CASE Ignore(p)
  <2>1. /\ UNCHANGED <<required, complete, assembled, injected>>
        /\ pc[p] = "lock" /\ ~ Relevant(p, KeysAt(p))
    BY <1>4 DEF Ignore, barrier, history
  <2>2. Looked(b) => Looked(b)'
    BY <1>1, <2>1, LookedKept
  <2>3. ASSUME Coming(b, p)
        PROVE  Coming(b, p)'
    <3>1. key'[p] \in ToSet(required'[b]) /\ b \in ToSet(queue'[p])
      BY <1>1, <2>1, <2>3 DEF Coming
    <3> QED
      BY <3>1 DEF Coming
  <2> QED
    BY <1>1, <1>3, <2>1, <2>2, <2>3 DEF NothingLost
<1>5. CASE Evaluate(p)
  <2>1. /\ pc[p] = "lock"
        /\ required' = [required EXCEPT ![cur[p]] = KeysAt(p)]
        /\ complete' = [complete EXCEPT ![cur[p]] = AllPresent(KeysAt(p))]
        /\ assembled' = [assembled EXCEPT ![cur[p]] = Prefix(KeysAt(p))]
        /\ injected' = injected
    BY <1>5 DEF Evaluate
  <2>2. CASE b = cur[p]
    <3>1. /\ required'[b] = KeysAt(p) /\ complete'[b] = AllPresent(KeysAt(p))
          /\ assembled'[b] = Prefix(KeysAt(p))
      BY <1>2, <2>1, <2>2 DEF TypeOK
    <3>2. AllPresent(required[b])' <=> AllPresent(KeysAt(p))
      BY <1>1, <3>1 DEF AllPresent
    <3>3. View(required[b])' = View(KeysAt(p))
      BY <1>1, <3>1 DEF View
    <3>4. AllPresent(required[b])' = AllPresent(KeysAt(p))
      BY <3>2 DEF AllPresent
    <3>5. ASSUME AllPresent(KeysAt(p))
          PROVE  /\ assembled'[b] = View(KeysAt(p))
                 /\ cur'[p] = b /\ pc'[p] = "inject"
      <4>1. Prefix(KeysAt(p)) = View(KeysAt(p))
        BY <1>2, <3>5, PrefixType DEF TypeOK
      <4> QED
        BY <1>5, <2>2, <3>1, <3>5, <4>1 DEF Evaluate, TypeOK, visit
    <3>6. complete'[b] => AllPresent(KeysAt(p))
      BY <3>1
    <3>7. Looked(b)'
      BY <3>1, <3>3, <3>4, <3>5, <3>6 DEF Looked
    <3> QED
      BY <3>7
  <2>3. CASE b # cur[p]
    <3>1. /\ required'[b] = required[b] /\ complete'[b] = complete[b]
          /\ assembled'[b] = assembled[b]
      BY <2>1, <2>3 DEF TypeOK
    <3>2. Looked(b) => Looked(b)'
      BY <1>1, <2>1, <3>1, LookedKept
    <3>3. Coming(b, p) => Coming(b, p)'
      BY <1>1, <2>1, <2>3, <3>1, OthersStillCome
    <3> QED
      BY <1>1, <1>3, <3>1, <3>2, <3>3 DEF NothingLost
  <2> QED
    BY <2>2, <2>3
<1>6. CASE BeginInject(p)
  <2>1. /\ UNCHANGED <<required, complete, assembled, cur>>
        /\ injected' = [injected EXCEPT ![cur[p]] = assembled[cur[p]]]
        /\ pc[p] = "inject"
    BY <1>6 DEF BeginInject, barrier
  <2>2. Coming(b, p) => Coming(b, p)'
    BY <1>1, <2>1, OthersStillCome
  <2>3. CASE b = cur[p]
    <3>1. injected'[b] = assembled[b]
      BY <2>1, <2>3 DEF TypeOK
    <3>2. Looked(b) => Looked(b)'
      BY <1>1, <2>1, <3>1, LookedKept
    <3> QED
      BY <1>1, <1>3, <2>1, <2>2, <3>2 DEF NothingLost
  <2>4. CASE b # cur[p]
    <3>1. injected'[b] = injected[b]
      BY <2>1, <2>4 DEF TypeOK
    <3>2. Looked(b) => Looked(b)'
      BY <1>1, <2>1, <2>4, <3>1, LookedKept
    <3> QED
      BY <1>1, <1>3, <2>1, <2>2, <3>2 DEF NothingLost
  <2> QED
    BY <2>3, <2>4
<1>7. CASE EndInject(p)
  <2>1. UNCHANGED <<required, complete, assembled, injected>> /\ pc[p] = "injecting"
    BY <1>7 DEF EndInject, history
  <2>2. Coming(b, p) => Coming(b, p)'
    BY <1>1, <2>1, OthersStillCome
  <2>3. Looked(b) => Looked(b)'
    BY <1>1, <2>1, LookedKept
  <2> QED
    BY <1>1, <1>3, <2>1, <2>2, <2>3 DEF NothingLost
<1> QED
  BY <1>4, <1>5, <1>6, <1>7

-----------------------------------------------------------------------------
LEMMA Start == Init => IInv
<1>1. Init => NothingLost
  BY DEF Init, NothingLost
<1> QED
  BY <1>1, TypeInit, ShapeInit DEF IInv

LEMMA Inductive == IInv /\ [Next]_vars => IInv'
<1> SUFFICES ASSUME IInv, [Next]_vars
             PROVE  IInv'
  OBVIOUS
<1>1. TypeOK /\ Shape
  BY DEF IInv
<1>2. ASSUME NEW p \in Threads, NEW k \in Keys, NEW v \in Values \cup {None},
             Change(p, k, v)
      PROVE  IInv'
  BY <1>1, <1>2, ChangeType, ShapeCalls, ChangeLosesNothing DEF IInv
<1>3. ASSUME NEW p \in Threads, Step(p)
      PROVE  IInv'
  <2>1. Shape'
    BY <1>1, <1>3, ShapeSteps
  <2>2. CASE Fire(p) \/ Notify(p) \/ Return(p)
    BY <1>1, <2>1, <2>2, NotifyType, NotifyLosesNothing DEF IInv
  <2>3. CASE Ignore(p) \/ Evaluate(p) \/ BeginInject(p) \/ EndInject(p)
    BY <1>1, <2>1, <2>3, VisitType, VisitLosesNothing DEF IInv
  <2> QED
    BY <1>3, <2>2, <2>3 DEF Step
<1>4. ASSUME NEW p \in Threads, NEW b \in Barriers, NEW ks \in KeyLists,
             Construct(p, b, ks) \/ SetKeys(p, b, ks)
      PROVE  IInv'
  BY <1>1, <1>4, OwnerType, ShapeCalls, OwnerLosesNothing DEF IInv
<1>5. ASSUME NEW b \in Barriers, SetInjector(b) \/ Destroy(b)
      PROVE  IInv'
  BY <1>1, <1>5, OwnerType, ShapeOwner, OwnerLosesNothing DEF IInv
<1>6. CASE UNCHANGED vars
  <2>1. TypeOK' /\ Shape'
    BY <1>1, <1>6 DEF vars, shared, barrier, locals, visit, history, TypeOK, LockHeld, Shape
  <2>2. UNCHANGED <<data, life, required, complete, assembled, injected, pc, cur, key,
                    queue, newkeys>>
    BY <1>6 DEF vars, shared, barrier, locals, visit, history
  <2>3. \A b \in Barriers : Looked(b) => Looked(b)'
    BY <2>2, LookedKept
  <2>4. \A b \in Barriers, q \in Threads : Coming(b, q) => Coming(b, q)'
    BY <2>2, ComingKept
  <2>5. NothingLost'
    BY <2>2, <2>3, <2>4 DEF IInv, NothingLost
  <2> QED
    BY <2>1, <2>5 DEF IInv
<1>7. ASSUME NEW p \in Threads, Calls(p)
      PROVE  IInv'
  BY <1>2, <1>4, <1>7 DEF Calls, StoreInsert, StoreRemove
<1> QED
  BY <1>3, <1>5, <1>6, <1>7 DEF Next

(* The invariant gives what is promised of a barrier at rest.              *)
LEMMA InvariantSuffices == IInv => TypeOK /\ NoLostChange /\ RetiredInjectorIdle
<1> SUFFICES ASSUME IInv
             PROVE  TypeOK /\ NoLostChange /\ RetiredInjectorIdle
  OBVIOUS
<1>1. TypeOK /\ RetiredInjectorIdle
  BY DEF IInv, Shape, RetiredInjectorIdle
<1>2. ASSUME NEW b \in Barriers, life[b] = "live"
      PROVE  InSync(b) \/ \E p \in Threads : Pending(b, p)
  <2>1. CASE Looked(b)
    BY <2>1 DEF Looked, InSync, Pending
  <2>2. CASE \E p \in Threads : Coming(b, p)
    BY <2>2 DEF Coming, Pending
  <2> QED
    BY <1>2, <2>1, <2>2 DEF IInv, NothingLost
<1> QED
  BY <1>1, <1>2 DEF NoLostChange

(* Every variable keeps its type, and a barrier's lock is held by just the *)
(* thread that runs its injector.                                          *)
THEOREM TypeCorrect == Spec => []TypeOK
BY Start, Inductive, InvariantSuffices, PTL DEF Spec

(* However many threads change the store, and construct, reconfigure,      *)
(* re-inject and destroy barriers, a live barrier is in sync with the      *)
(* store or somebody is still on the way to it.                            *)
THEOREM NoChangeLost == Spec => []NoLostChange
BY Start, Inductive, InvariantSuffices, PTL DEF Spec

(* When set_injector has returned nobody runs the old injector: the lock   *)
(* it takes is the one the injector runs under.                            *)
THEOREM OldInjectorIdle == Spec => []RetiredInjectorIdle
BY Start, Inductive, InvariantSuffices, PTL DEF Spec

(* While a thread holds the lock for its injector nobody evaluates there.  *)
LEMMA SpanStep ==
  ASSUME IInv, [Next]_vars, NEW p \in Threads, pc[p] \in {"inject", "injecting"}
  PROVE  /\ assembled'[cur[p]] = assembled[cur[p]]
         /\ pc'[p] \in {"inject", "injecting"} => holder'[cur[p]] = p
<1>1. /\ TypeOK /\ Shape /\ TypeOK'
  BY Inductive DEF IInv
<1>2. cur[p] \in Barriers /\ holder[cur[p]] = p /\ p # None
  <2>1. cur[p] \in Barriers
    BY <1>1, KeysAtType
  <2> QED
    BY <1>1, <2>1, BarrierAssumption DEF TypeOK, LockHeld
<1>3. ASSUME NEW q \in Threads, Calls(q)
      PROVE  assembled' = assembled /\ holder' = holder
  BY <1>3 DEF Calls, StoreInsert, StoreRemove, Change, Construct, SetKeys, barrier
<1>4. ASSUME NEW b \in Barriers, SetInjector(b) \/ Destroy(b)
      PROVE  assembled' = assembled /\ holder' = holder
  BY <1>4 DEF SetInjector, Destroy, barrier
<1>5. ASSUME NEW q \in Threads,
             Fire(q) \/ Notify(q) \/ Return(q) \/ Ignore(q) \/ BeginInject(q)
      PROVE  assembled' = assembled /\ holder' = holder
  BY <1>5 DEF Fire, Notify, Return, Ignore, BeginInject, barrier
<1>6. ASSUME NEW q \in Threads, Evaluate(q)
      PROVE  assembled'[cur[p]] = assembled[cur[p]] /\ holder'[cur[p]] = holder[cur[p]]
  <2>1. cur[q] # cur[p]
    BY <1>2, <1>6 DEF Evaluate
  <2>2. assembled'[cur[p]] = assembled[cur[p]]
    BY <1>1, <1>2, <1>6, <2>1 DEF Evaluate, TypeOK
  <2>3. holder' = holder \/ holder' = [holder EXCEPT ![cur[q]] = q]
    BY <1>6 DEF Evaluate
  <2> QED
    BY <1>1, <1>2, <2>1, <2>2, <2>3 DEF TypeOK
<1>7. ASSUME NEW q \in Threads, EndInject(q)
      PROVE  /\ assembled'[cur[p]] = assembled[cur[p]]
             /\ pc'[p] \in {"inject", "injecting"} => holder'[cur[p]] = p
  <2>1. assembled' = assembled
    BY <1>7 DEF EndInject
  <2>2. CASE q = p
    BY <1>1, <1>7, <2>1, <2>2 DEF EndInject, LeaveBarrier, TypeOK
  <2>3. CASE q # p
    <3>1. cur[q] \in Barriers /\ holder[cur[q]] = q
      BY <1>1, <1>7, KeysAtType DEF EndInject, TypeOK, LockHeld
    <3>2. cur[q] # cur[p]
      BY <1>2, <2>3, <3>1
    <3> QED
      BY <1>1, <1>2, <1>7, <2>1, <3>2 DEF EndInject, TypeOK
  <2> QED
    BY <2>2, <2>3
<1>8. CASE UNCHANGED vars
  BY <1>2, <1>8 DEF vars, barrier
<1> QED
  BY <1>2, <1>3, <1>4, <1>5, <1>6, <1>7, <1>8 DEF Next, Step

(* The span an injector was given is not written while it runs.            *)
THEOREM SpanNeverWritten == Spec => SpanStable
<1>1. IInv /\ [Next]_vars =>
        [\A p \in Threads :
           pc[p] \in {"inject", "injecting"} =>
             /\ assembled'[cur[p]] = assembled[cur[p]]
             /\ pc'[p] \in {"inject", "injecting"} => holder'[cur[p]] = p]_vars
  BY SpanStep
<1> QED
  BY <1>1, Start, Inductive, PTL DEF Spec, SpanStable

=============================================================================
