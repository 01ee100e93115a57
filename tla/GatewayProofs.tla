--------------------------- MODULE GatewayProofs ---------------------------
(***************************************************************************)
(* Gates in front of a join, for any number of gates, threads, keys and    *)
(* changes: the order in which a gate sees the store is the order in which *)
(* its views reach the join.                                               *)
(*                                                                         *)
(* A gateway is a BarrierView and an NJoin that run side by side, so what  *)
(* is proved of each holds of it; JP stands for the join with its          *)
(* theorems.                                                               *)
(***************************************************************************)
EXTENDS Gateway, BarrierViewProofs, SequenceTheorems, FiniteSetTheorems

JP == INSTANCE NJoinProofs WITH
        N <- Cardinality(Barriers), Values <- Views,
        KeyOf <- [v \in Views |-> v],
        Start <- 0, MaxAdds <- MaxInjects,
        Policy <- [g \in Barriers |-> "latest"],
        Mortal <- [g \in Barriers |-> {}],
        Shrinking <- {}, pc <- joinpc

-----------------------------------------------------------------------------
(* The join of a gateway meets what NJoin assumes of its constants.        *)

LEMMA SlotPerGate == Cardinality(Barriers) \in Nat \ {0} /\ JP!Sources = Barriers
<1>1. Cardinality(Barriers) \in Nat
  BY GatewayAssumption, FS_CardinalityType
<1>2. Cardinality(Barriers) # 0
  BY GatewayAssumption, FS_EmptySet
<1> QED
  BY <1>1, <1>2, GatewayAssumption DEF JP!Sources

LEMMA SomeView == Views # {}
<1>1. PICK ks \in KeyLists : TRUE
  BY BarrierAssumption
<1>2. PICK v \in Values : TRUE
  BY GatewayAssumption
<1>3. [i \in DOMAIN ks |-> v] \in [DOMAIN ks -> Values]
  BY <1>2
<1> QED
  BY <1>3 DEF Views

LEMMA JoinAssumed ==
  /\ 0 \in JP!Stamp
  /\ MaxInjects \in 0 .. Half
  /\ [g \in Barriers |-> "latest"] \in [JP!Sources -> JP!Policies]
  /\ [g \in Barriers |-> {}] \in [JP!Sources -> SUBSET Views]
  /\ {} \subseteq JP!Sources
  /\ \A s \in JP!Sources :
       [g \in Barriers |-> "latest"][s] \in JP!CowPolicies
         => [g \in Barriers |-> {}][s] = {}
<1>1. 0 \in JP!Stamp
  BY GatewayAssumption DEF JP!Stamp
<1>2. "latest" \in JP!Policies
  BY DEF JP!Policies
<1> QED
  BY <1>1, <1>2, SlotPerGate, GatewayAssumption

(* What NJoin's theorems say is so of the join of a gateway.               *)
LEMMA JoinTheorems == JP!Spec => []JP!TypeOK /\ []JP!IInv /\ []JP!EmittedAccepted
<1>1. Half \in Nat \ {0}
  BY GatewayAssumption
<1>2. Cardinality(Barriers) \in Nat \ {0}
  BY SlotPerGate
<1>3. JP!Spec => []JP!IInv
  BY <1>1, <1>2, SomeView, JoinAssumed, JP!InvariantHolds
<1>4. JP!IInv => JP!TypeOK
  BY DEF JP!IInv
<1>5. JP!Spec => []JP!EmittedAccepted
  BY <1>1, <1>2, SomeView, JoinAssumed, JP!EmittedWasAccepted
<1> QED
  BY <1>3, <1>4, <1>5, PTL

-----------------------------------------------------------------------------
(* What an injector is given is a view.                                    *)

Assembled ==
  \A p \in Threads :
    pc[p] \in {"inject", "injecting"} => assembled[cur[p]] \in Views

LEMMA ViewType ==
  ASSUME TypeOK, NEW ks \in KeyLists, AllPresent(ks)
  PROVE  View(ks) \in Views
<1>1. \A i \in DOMAIN ks : ks[i] \in Keys
  BY WantedKeys
<1>2. \A i \in DOMAIN ks : data[ks[i]] \in Values
  BY <1>1 DEF TypeOK, AllPresent
<1>3. View(ks) \in [DOMAIN ks -> Values]
  BY <1>2 DEF View
<1> QED
  BY <1>3 DEF Views

LEMMA AssembledStep == IInv /\ Assembled /\ [Next]_vars => Assembled'
<1> SUFFICES ASSUME IInv, Assembled, [Next]_vars, NEW p \in Threads,
                    pc'[p] \in {"inject", "injecting"}
             PROVE  assembled'[cur'[p]] \in Views
  BY DEF Assembled
<1>1. TypeOK /\ Shape
  BY DEF IInv
<1>2. CASE pc[p] \in {"inject", "injecting"}
  <2>1. assembled'[cur[p]] = assembled[cur[p]]
    BY <1>2, SpanStep
  <2>2. cur'[p] = cur[p]
    BY <1>1, <1>2
       DEF Next, Step, Calls, vars, locals, visit, StoreInsert, StoreRemove, Change,
           Construct, SetKeys, SetInjector, Destroy, Fire, Notify, Return, Ignore,
           Evaluate, BeginInject, EndInject, LeaveBarrier, TypeOK
  <2> QED
    BY <1>2, <2>1, <2>2 DEF Assembled
<1>3. CASE pc[p] \notin {"inject", "injecting"}
  <2>1. Evaluate(p) /\ AllPresent(KeysAt(p))
    BY <1>1, <1>3
       DEF Next, Step, Calls, vars, locals, visit, StoreInsert, StoreRemove, Change,
           Construct, SetKeys, SetInjector, Destroy, Fire, Notify, Return, Ignore,
           Evaluate, BeginInject, EndInject, LeaveBarrier, TypeOK
  <2>2. cur[p] \in Barriers /\ KeysAt(p) \in KeyLists
    BY <1>1, <2>1, KeysAtType DEF Evaluate
  <2>3. Prefix(KeysAt(p)) \in Views
    BY <1>1, <2>1, <2>2, PrefixType, ViewType DEF TypeOK
  <2>4. cur' = cur /\ assembled'[cur[p]] = Prefix(KeysAt(p))
    BY <1>1, <2>1, <2>2 DEF Evaluate, visit, TypeOK
  <2> QED
    BY <2>3, <2>4
<1> QED
  BY <1>2, <1>3

-----------------------------------------------------------------------------
(* A gateway is a BarrierView and an NJoin.                                *)

LEMMA GatesStep == [GatewayNext]_gatewayVars => [Next]_vars
<1> SUFFICES ASSUME [GatewayNext]_gatewayVars
             PROVE  [Next]_vars
  OBVIOUS
<1>1. ASSUME NEW p \in Threads, ChangeStore(p) \/ Proceed(p)
      PROVE  [Next]_vars
  BY <1>1 DEF ChangeStore, Proceed, GateStep, Inject, JoinStep, Injected, Next, Calls, Step
<1>2. ASSUME NEW p \in Threads, NEW g \in Barriers, NEW ks \in KeyLists,
             OpenGate(p, g, ks) \/ ChangeKeys(p, g, ks)
      PROVE  [Next]_vars
  BY <1>2 DEF OpenGate, ChangeKeys, Next, Calls
<1>3. ASSUME NEW g \in Barriers, CloseGate(g)
      PROVE  [Next]_vars
  BY <1>3 DEF CloseGate, Next
<1>4. CASE UNCHANGED gatewayVars
  BY <1>4 DEF gatewayVars
<1> QED
  BY <1>1, <1>2, <1>3, <1>4 DEF GatewayNext

LEMMA GatesHold == GatewaySpec => [](IInv /\ Assembled)
<1>1. GatewayInit => IInv /\ Assembled
  BY Start DEF GatewayInit, Init, Assembled
<1>2. IInv /\ Assembled /\ [GatewayNext]_gatewayVars => IInv' /\ Assembled'
  BY GatesStep, Inductive, AssembledStep
<1> QED
  BY <1>1, <1>2, PTL DEF GatewaySpec

LEMMA JoinStart == GatewayInit => JP!Init
BY DEF GatewayInit, J!Init, J!NoEntries, J!Sources, J!AnyValue, J!Nothing,
       JP!Init, JP!NoEntries, JP!Sources, JP!AnyValue, JP!Nothing

LEMMA SameTakeSeq ==
  ASSUME NEW p, NEW s, NEW v, J!TakeSeq(p, s, v)
  PROVE  JP!TakeSeq(p, s, v)
BY DEF J!TakeSeq, J!NextStamp, J!Sources, J!Visible,
       JP!TakeSeq, JP!NextStamp, JP!Sources, JP!Visible

LEMMA SameStep ==
  ASSUME NEW p, J!Step(p)
  PROVE  JP!Step(p)
<1>1. CASE J!Insert(p)
  BY <1>1 DEF J!Insert, J!Accepts, J!UniquePolicies, J!KeyedPolicies, J!SameKey, J!Inserted,
              J!Displaced, J!PushedOut, J!Own, J!locals,
              JP!Step, JP!Insert, JP!Accepts, JP!UniquePolicies, JP!KeyedPolicies, JP!SameKey,
              JP!Inserted, JP!Displaced, JP!PushedOut, JP!Own,
              JP!locals
<1>2. CASE J!Reject(p)
  BY <1>2 DEF J!Reject, J!Accepts, J!UniquePolicies, J!KeyedPolicies, J!SameKey, J!Leave,
              J!AnyValue, J!Sources, J!NoEntries, J!Nothing, J!history,
              JP!Step, JP!Reject, JP!Accepts, JP!UniquePolicies, JP!KeyedPolicies, JP!SameKey,
              JP!Leave, JP!AnyValue, JP!Sources, JP!NoEntries, JP!Nothing, JP!history
<1>3. ASSUME NEW s \in J!Sources, J!SnapshotOne(p, s)
      PROVE  JP!Step(p)
  BY <1>3 DEF J!SnapshotOne, J!Visible, J!cross_product, J!Combinations, J!Owns, J!MaxIdx,
              J!seq_after, J!Distance, J!Sources, J!history,
              JP!Step, JP!SnapshotOne, JP!Visible, JP!cross_product, JP!Combinations, JP!Owns,
              JP!MaxIdx, JP!seq_after, JP!Distance, JP!Sources, JP!history
<1>4. ASSUME NEW t \in todo[p], J!Emit(p, t)
      PROVE  JP!Step(p)
  BY <1>4 DEF J!Emit, JP!Step, JP!Emit
<1>5. CASE J!Return(p)
  BY <1>5 DEF J!Return, J!Leave, J!AnyValue, J!Sources, J!NoEntries, J!Nothing, J!history,
              JP!Step, JP!Return, JP!Leave, JP!AnyValue, JP!Sources, JP!NoEntries, JP!Nothing,
              JP!history
<1> QED
  BY <1>1, <1>2, <1>3, <1>4, <1>5 DEF J!Step

LEMMA JoinNext ==
  IInv /\ Assembled /\ [GatewayNext]_gatewayVars => [JP!Next]_(JP!vars)
<1> SUFFICES ASSUME IInv, Assembled, [GatewayNext]_gatewayVars
             PROVE  [JP!Next]_(JP!vars)
  OBVIOUS
<1>1. UNCHANGED join => [JP!Next]_(JP!vars)
  BY DEF join, JP!vars, JP!locals, JP!history
<1>2. ASSUME NEW p \in Threads, Inject(p)
      PROVE  JP!Next
  <2>1. cur[p] \in Barriers /\ assembled[cur[p]] \in Views
    BY <1>2, KeysAtType DEF IInv, Assembled, Inject, BeginInject
  <2>2. JP!TakeSeq(p, cur[p], assembled[cur[p]])
    BY <1>2, SameTakeSeq DEF Inject
  <2> QED
    BY <2>1, <2>2, SlotPerGate DEF JP!Next
<1>3. ASSUME NEW p \in Threads, JoinStep(p)
      PROVE  JP!Next
  BY <1>3, SameStep DEF JoinStep, JP!Next
<1>4. ASSUME NEW p \in Threads, ChangeStore(p) \/ Proceed(p)
      PROVE  [JP!Next]_(JP!vars)
  BY <1>1, <1>2, <1>3, <1>4 DEF ChangeStore, Proceed, GateStep, Injected
<1>5. ASSUME NEW p \in Threads, NEW g \in Barriers, NEW ks \in KeyLists,
             OpenGate(p, g, ks) \/ ChangeKeys(p, g, ks)
      PROVE  [JP!Next]_(JP!vars)
  BY <1>1, <1>5 DEF OpenGate, ChangeKeys
<1>6. ASSUME NEW g \in Barriers, CloseGate(g)
      PROVE  [JP!Next]_(JP!vars)
  BY <1>1, <1>6 DEF CloseGate
<1> QED
  BY <1>1, <1>4, <1>5, <1>6 DEF GatewayNext, gatewayVars

LEMMA GatewayJoins == GatewaySpec => JP!Spec
<1>1. IInv /\ Assembled /\ [GatewayNext]_gatewayVars => [JP!Next]_(JP!vars)
  BY JoinNext
<1> QED
  BY <1>1, JoinStart, GatesHold, PTL DEF GatewaySpec, JP!Spec

-----------------------------------------------------------------------------
(* The slots.                                                              *)

(* Only a thread in an injector is in add, at the slot of its gate, and    *)
(* before it inserts it brings what the injector was last called with; the *)
(* slot of a gate for which nobody is about to insert holds just that.     *)
InjectorAdds ==
  \A p \in Threads :
    /\ joinpc[p] # "idle" => pc[p] = "injecting" /\ src[p] = cur[p]
    /\ joinpc[p] = "insert" => val[p] = injected[cur[p]]

LastInserted(g) ==
  {e.val : e \in store[g]} = IF injected[g] = None THEN {} ELSE {injected[g]}

SlotsFollow ==
  \A g \in Barriers :
    (\A p \in Threads : cur[p] = g => joinpc[p] # "insert") => LastInserted(g)

SlotInv == InjectorAdds /\ SlotsFollow

(* What the barriers do around the join.                                   *)
LEMMA GateFrame ==
  ASSUME SlotInv, UNCHANGED join, injected' = injected,
         \A p \in Threads :
           joinpc[p] # "idle" => pc'[p] = "injecting" /\ cur'[p] = cur[p]
  PROVE  SlotInv'
<1>1. InjectorAdds'
  BY DEF SlotInv, InjectorAdds, join
<1>2. ASSUME NEW g \in Barriers,
             \A p \in Threads : cur'[p] = g => joinpc'[p] # "insert"
      PROVE  LastInserted(g)'
  <2>1. \A p \in Threads : cur[p] = g => joinpc[p] # "insert"
    BY <1>2 DEF join
  <2>2. LastInserted(g)
    BY <2>1 DEF SlotInv, SlotsFollow
  <2> QED
    BY <2>2 DEF LastInserted, join
<1> QED
  BY <1>1, <1>2 DEF SlotInv, SlotsFollow

(* The injector begins, and with it add.                                   *)
LEMMA InjectKeepsSlots ==
  ASSUME IInv, JP!TypeOK, SlotInv, NEW p \in Threads, Inject(p)
  PROVE  SlotInv'
<1> DEFINE g == cur[p]
<1>1. TypeOK /\ Shape
  BY DEF IInv
<1>2. /\ pc[p] = "inject" /\ g \in Barriers /\ holder[g] = p
      /\ injected' = [injected EXCEPT ![g] = assembled[g]]
      /\ pc' = [pc EXCEPT ![p] = "injecting"] /\ cur' = cur
  BY <1>1, KeysAtType DEF Inject, BeginInject, TypeOK, LockHeld
<1>3. /\ joinpc' = [joinpc EXCEPT ![p] = "insert"]
      /\ src' = [src EXCEPT ![p] = g] /\ val' = [val EXCEPT ![p] = assembled[g]]
      /\ store' = store
  BY DEF Inject, J!TakeSeq
<1>4. ASSUME NEW q \in Threads, q # p
      PROVE  /\ pc'[q] = pc[q] /\ joinpc'[q] = joinpc[q]
             /\ src'[q] = src[q] /\ val'[q] = val[q]
             /\ joinpc[q] # "idle" => cur[q] # g
  <2>1. joinpc[q] # "idle" => pc[q] = "injecting"
    BY DEF SlotInv, InjectorAdds
  <2>2. pc[q] = "injecting" => cur[q] # g
    BY <1>1, <1>2, <1>4 DEF TypeOK, LockHeld
  <2> QED
    BY <1>1, <1>2, <1>3, <1>4, <2>1, <2>2 DEF TypeOK, JP!TypeOK
<1>5. /\ pc'[p] = "injecting" /\ joinpc'[p] = "insert" /\ src'[p] = g
      /\ val'[p] = assembled[g] /\ injected'[g] = assembled[g]
  BY <1>1, <1>2, <1>3 DEF TypeOK, JP!TypeOK
<1>6. InjectorAdds'
  <2> SUFFICES ASSUME NEW q \in Threads
               PROVE  /\ joinpc'[q] # "idle" => pc'[q] = "injecting" /\ src'[q] = cur'[q]
                      /\ joinpc'[q] = "insert" => val'[q] = injected'[cur'[q]]
    BY DEF InjectorAdds
  <2>1. CASE q = p
    BY <1>2, <1>5, <2>1
  <2>2. CASE q # p
    <3>1. joinpc[q] = "insert" => injected'[cur[q]] = injected[cur[q]]
      BY <1>1, <1>2, <1>4, <2>2 DEF TypeOK
    <3> QED
      BY <1>2, <1>4, <2>2, <3>1 DEF SlotInv, InjectorAdds
  <2> QED
    BY <2>1, <2>2
<1>7. ASSUME NEW h \in Barriers,
             \A q \in Threads : cur'[q] = h => joinpc'[q] # "insert"
      PROVE  LastInserted(h)'
  <2>1. h # g
    BY <1>2, <1>5, <1>7
  <2>2. \A q \in Threads : cur[q] = h => joinpc[q] # "insert"
    BY <1>2, <1>4, <1>7, <2>1
  <2>3. LastInserted(h)
    BY <2>2 DEF SlotInv, SlotsFollow
  <2>4. injected'[h] = injected[h]
    BY <1>1, <1>2, <2>1 DEF TypeOK
  <2> QED
    BY <1>3, <2>3, <2>4 DEF LastInserted
<1> QED
  BY <1>6, <1>7 DEF SlotInv, SlotsFollow

(* The slot is overwritten, whatever it held: the join's policy refuses    *)
(* nothing.                                                                *)
LEMMA InsertFillsSlot ==
  ASSUME IInv, JP!TypeOK, SlotInv, NEW p \in Threads, J!Insert(p)
  PROVE  /\ src[p] = cur[p] /\ src[p] \in Barriers
         /\ store' = [store EXCEPT ![src[p]] = {[val |-> val[p], seq |-> seq[p]]}]
         /\ val[p] = injected[src[p]] /\ val[p] # None
<1>1. joinpc[p] = "insert" /\ src[p] \in Barriers /\ val[p] \in Views
  BY SlotPerGate DEF J!Insert, JP!TypeOK
<1>2. src[p] = cur[p] /\ val[p] = injected[src[p]] /\ val[p] # None
  BY <1>1, GatewayAssumption DEF SlotInv, InjectorAdds
<1>3. [g \in Barriers |-> "latest"][src[p]] = "latest"
  BY <1>1
<1> DEFINE policy == [g \in Barriers |-> "latest"][src[p]]
<1>4. J!Displaced(policy, store[src[p]], val[p]) = store[src[p]]
  BY <1>3 DEF J!Displaced, J!KeyedPolicies
<1>5. J!Inserted(policy, store[src[p]], J!Own(p)) = {[val |-> val[p], seq |-> seq[p]]}
  BY <1>4 DEF J!Inserted, J!Own
<1>6. store' = [store EXCEPT ![src[p]] = J!Inserted(policy, @, J!Own(p))]
  BY DEF J!Insert
<1> HIDE DEF policy
<1> QED
  BY <1>1, <1>2, <1>5, <1>6

LEMMA NothingRefused ==
  ASSUME JP!TypeOK, NEW p \in Threads
  PROVE  ~ J!Reject(p)
<1>1. src[p] \in Barriers
  BY SlotPerGate DEF JP!TypeOK
<1> QED
  BY <1>1 DEF J!Reject, J!Accepts

(* add goes on: it fills its gate's slot and then leaves it alone.         *)
LEMMA JoinKeepsSlots ==
  ASSUME IInv, JP!TypeOK, SlotInv, NEW p \in Threads, JoinStep(p)
  PROVE  SlotInv'
<1>1. UNCHANGED <<pc, cur, injected>> /\ pc[p] = "injecting"
  BY DEF JoinStep, vars, locals, visit, history
<1>2. CASE J!Insert(p)
  <2> DEFINE g == src[p]
  <2>1. /\ g = cur[p] /\ g \in Barriers
        /\ store' = [store EXCEPT ![g] = {[val |-> val[p], seq |-> seq[p]]}]
        /\ val[p] = injected[g] /\ val[p] # None
    BY <1>2, InsertFillsSlot
  <2>2. joinpc' = [joinpc EXCEPT ![p] = "snapshot"] /\ UNCHANGED <<src, val>>
    BY <1>2 DEF J!Insert, J!locals
  <2>3. InjectorAdds'
    BY <1>1, <2>1, <2>2 DEF SlotInv, InjectorAdds, JP!TypeOK
  <2>4. ASSUME NEW h \in Barriers,
               \A q \in Threads : cur'[q] = h => joinpc'[q] # "insert"
        PROVE  LastInserted(h)'
    <3>1. CASE h = g
      <4>1. store'[g] = {[val |-> val[p], seq |-> seq[p]]}
        BY <2>1, SlotPerGate DEF JP!TypeOK
      <4>2. {e.val : e \in {[val |-> val[p], seq |-> seq[p]]}} = {val[p]}
        OBVIOUS
      <4>3. {e.val : e \in store'[g]} = {injected[g]}
        BY <2>1, <4>1, <4>2, Zenon
      <4> QED
        BY <1>1, <2>1, <3>1, <4>3 DEF LastInserted
    <3>2. CASE h # g
      <4>1. \A q \in Threads : cur[q] = h => joinpc[q] # "insert"
        BY <1>1, <2>1, <2>2, <2>4, <3>2 DEF JP!TypeOK
      <4>2. LastInserted(h)
        BY <4>1 DEF SlotInv, SlotsFollow
      <4>3. store'[h] = store[h]
        BY <2>1, <3>2, SlotPerGate DEF JP!TypeOK
      <4> QED
        BY <1>1, <4>2, <4>3 DEF LastInserted
    <3> QED
      BY <3>1, <3>2
  <2> QED
    BY <2>3, <2>4 DEF SlotInv, SlotsFollow
<1>3. ASSUME ~ J!Insert(p)
      PROVE  SlotInv'
  <2> DEFINE OnlyMovesOn ==
        /\ store' = store
        /\ joinpc[p] # "insert"
        /\ joinpc'[p] \in {"idle", joinpc[p], "emit"}
        /\ joinpc'[p] # "idle" => joinpc[p] # "idle" /\ src'[p] = src[p]
        /\ \A q \in Threads \ {p} : /\ joinpc'[q] = joinpc[q]
                                    /\ src'[q] = src[q] /\ val'[q] = val[q]
  <2>1. OnlyMovesOn
    <3>1. ASSUME NEW s \in J!Sources, J!SnapshotOne(p, s)
          PROVE  OnlyMovesOn
      BY <3>1 DEF J!SnapshotOne, J!history, JP!TypeOK
    <3>2. ASSUME NEW t \in todo[p], J!Emit(p, t)
          PROVE  OnlyMovesOn
      BY <3>2 DEF J!Emit
    <3>3. CASE J!Return(p)
      BY <3>3 DEF J!Return, J!Leave, J!history, JP!TypeOK
    <3> QED
      BY <1>3, <3>1, <3>2, <3>3, NothingRefused DEF JoinStep, J!Step
  <2>2. InjectorAdds'
    BY <1>1, <2>1 DEF SlotInv, InjectorAdds
  <2>3. \A g \in Barriers : LastInserted(g)' <=> LastInserted(g)
    BY <1>1, <2>1 DEF LastInserted
  <2>4. \A q \in Threads : joinpc'[q] # "insert" => joinpc[q] # "insert"
    BY <2>1
  <2>5. SlotsFollow'
    BY <1>1, <2>3, <2>4 DEF SlotInv, SlotsFollow
  <2> QED
    BY <2>2, <2>5 DEF SlotInv
<1> QED
  BY <1>2, <1>3

LEMMA SlotStep ==
  IInv /\ JP!TypeOK /\ SlotInv /\ [GatewayNext]_gatewayVars => SlotInv'
<1> SUFFICES ASSUME IInv, JP!TypeOK, SlotInv, [GatewayNext]_gatewayVars
             PROVE  SlotInv'
  OBVIOUS
<1>1. TypeOK
  BY DEF IInv
<1> DEFINE Busy(p) == joinpc[p] # "idle"
<1>2. \A p \in Threads : Busy(p) => pc[p] = "injecting"
  BY DEF SlotInv, InjectorAdds
<1>3. ASSUME NEW p \in Threads, ChangeStore(p) \/ GateStep(p)
      PROVE  SlotInv'
  <2>1. /\ UNCHANGED join /\ injected' = injected
        /\ pc[p] # "injecting"
        /\ \A q \in Threads \ {p} : pc'[q] = pc[q] /\ cur'[q] = cur[q]
    BY <1>1, <1>3
       DEF TypeOK, ChangeStore, GateStep, StoreInsert, StoreRemove, Change, Fire, Notify,
           Return, Ignore, Evaluate, LeaveBarrier, visit, history
  <2> QED
    BY <1>2, <2>1, GateFrame
<1>4. ASSUME NEW p \in Threads, Injected(p)
      PROVE  SlotInv'
  <2>1. /\ UNCHANGED join /\ injected' = injected
        /\ ~ Busy(p)
        /\ \A q \in Threads \ {p} : pc'[q] = pc[q] /\ cur'[q] = cur[q]
    BY <1>1, <1>4 DEF TypeOK, Injected, EndInject, LeaveBarrier, history
  <2> QED
    BY <1>2, <2>1, GateFrame
<1>5. ASSUME NEW p \in Threads, NEW g \in Barriers, NEW ks \in KeyLists,
             OpenGate(p, g, ks) \/ ChangeKeys(p, g, ks)
      PROVE  SlotInv'
  <2>1. /\ UNCHANGED join /\ injected' = injected
        /\ pc[p] # "injecting"
        /\ \A q \in Threads \ {p} : pc'[q] = pc[q] /\ cur'[q] = cur[q]
    BY <1>1, <1>5 DEF TypeOK, OpenGate, ChangeKeys, Construct, SetKeys, history
  <2> QED
    BY <1>2, <2>1, GateFrame
<1>6. ASSUME NEW g \in Barriers, CloseGate(g)
      PROVE  SlotInv'
  BY <1>2, <1>6, GateFrame DEF CloseGate, Destroy, locals, visit, history
<1>7. CASE UNCHANGED gatewayVars
  BY <1>2, <1>7, GateFrame DEF gatewayVars, vars, locals, visit, history
<1> QED
  BY <1>3, <1>4, <1>5, <1>6, <1>7, InjectKeepsSlots, JoinKeepsSlots
     DEF GatewayNext, Proceed

LEMMA SlotsHold == GatewaySpec => [](IInv /\ Assembled /\ SlotInv)
<1>1. GatewayInit => SlotInv
  BY SlotPerGate
     DEF GatewayInit, Init, J!Init, J!NoEntries, J!Sources, JP!Sources, SlotInv,
         InjectorAdds, SlotsFollow, LastInserted
<1>2. IInv /\ JP!TypeOK /\ SlotInv /\ [GatewayNext]_gatewayVars => SlotInv'
  BY SlotStep
<1> QED
  BY <1>1, <1>2, GatesHold, GatewayJoins, JoinTheorems, PTL DEF GatewaySpec

(* When no call is under way at a gate its slot holds the view its         *)
(* injector was called with last: the gate's lock, held through add, puts  *)
(* stamps and insertions into the order in which the gate saw the store.   *)
THEOREM SlotHoldsLastView == GatewaySpec => []SlotIsLastInjected
<1>1. SlotInv => SlotIsLastInjected
  BY DEF SlotInv, SlotsFollow, InjectorAdds, LastInserted, SlotIsLastInjected
<1> QED
  BY <1>1, SlotsHold, PTL

(* From the store through the gates to the slots nothing is lost: at rest  *)
(* the slot of a live gate that is complete holds the present values of    *)
(* its keys.                                                               *)
THEOREM SlotsFollowStore == GatewaySpec => []SlotsCurrent
<1>1. IInv /\ SlotInv => SlotsCurrent
  <2> SUFFICES ASSUME IInv, SlotInv, \A p \in Threads : pc[p] = "idle",
                      NEW g \in Barriers, life[g] = "live", AllPresent(required[g])
               PROVE  {e.val : e \in store[g]} = {View(required[g])}
    BY DEF SlotsCurrent
  <2>1. TypeOK /\ Shape /\ NoLostChange
    BY InvariantSuffices DEF IInv
  <2>2. \A p \in Threads : ~ Pending(g, p)
    <3> TAKE p \in Threads
    <3>1. key[p] = None /\ cur[p] = None /\ pc[p] # "fire"
      BY <2>1 DEF Shape
    <3>2. None \notin ToSet(required[g])
      BY <2>1, WantedKeys DEF TypeOK
    <3>3. g # None
      BY BarrierAssumption
    <3> QED
      BY <3>1, <3>2, <3>3 DEF Pending
  <2>3. injected[g] = View(required[g])
    BY <2>1, <2>2 DEF NoLostChange, InSync
  <2>4. View(required[g]) # None
    BY <2>1, ViewType, GatewayAssumption DEF TypeOK
  <2>5. \A p \in Threads : joinpc[p] # "insert"
    BY DEF SlotInv, InjectorAdds
  <2> QED
    BY <2>3, <2>4, <2>5 DEF SlotInv, SlotsFollow, LastInserted
<1> QED
  BY <1>1, SlotsHold, PTL

-----------------------------------------------------------------------------
(* The moments.                                                            *)

(* Every stamp has its moment; a gate has seen at least what the views it  *)
(* injected show, and the view in its slot is of its last moment.          *)
MomentInv ==
  /\ moment \in Seq(Nat) /\ Len(moment) = adds
  /\ \A g \in Barriers : seen[g] <= version
  /\ \A g \in Barriers : \A e \in accepted[g] : Moment(e) <= seen[g]
  /\ \A p \in Threads : joinpc[p] # "idle" => moment[seq[p] + 1] = seen[cur[p]]
  /\ \A g \in Barriers : \A e \in store[g], f \in accepted[g] : Moment(f) <= Moment(e)

(* What a thread in add has found in the slots is not older than anything  *)
(* its gate has fired with.                                                *)
FiringInv ==
  \A p \in Threads :
    /\ \A g \in Barriers : \A e \in snap[p][g] :
         /\ joinpc[p] # "idle"
         /\ \A f \in snap[p][g] : Moment(f) <= Moment(e)
         /\ \A u \in emitted : J!MaxIdx(u) = cur[p] => Moment(u[g]) <= Moment(e)
    /\ \A t \in todo[p] : \A g \in Barriers : t[g] \in snap[p][g]

TimeInv == MomentInv /\ FiringInv

(* A stamp that was issued is a position in moment.                        *)
LEMMA IssuedHasMoment ==
  ASSUME JP!IInv, MomentInv, NEW q \in JP!Issued
  PROVE  q \in Nat /\ q + 1 \in 1 .. Len(moment)
<1>1. adds \in 0 .. MaxInjects /\ MaxInjects \in 0 .. Half /\ Half \in Nat \ {0}
  BY GatewayAssumption DEF JP!IInv, JP!TypeOK
<1>2. PICK n \in 0 .. (adds - 1) : q = JP!StampAt(0, n)
  BY DEF JP!Issued
<1>3. q = n
  BY <1>1, <1>2 DEF JP!StampAt
<1> QED
  BY <1>1, <1>3 DEF MomentInv

LEMMA AcceptedHasMoment ==
  ASSUME JP!IInv, MomentInv, NEW g \in Barriers, NEW e \in accepted[g]
  PROVE  e.seq \in Nat /\ e.seq + 1 \in 1 .. Len(moment) /\ Moment(e) \in Nat
<1>1. e.seq \in JP!Issued
  BY SlotPerGate DEF JP!IInv, JP!AcceptedInv
<1>2. e.seq \in Nat /\ e.seq + 1 \in 1 .. Len(moment)
  BY <1>1, IssuedHasMoment
<1>3. moment \in Seq(Nat)
  BY DEF MomentInv
<1> QED
  BY <1>2, <1>3 DEF Moment

(* What is in a slot, in a snapshot or in a combination was accepted.      *)
LEMMA FoundWasAccepted ==
  ASSUME JP!IInv, JP!EmittedAccepted, NEW g \in Barriers
  PROVE  /\ store[g] \subseteq accepted[g]
         /\ \A p \in Threads : snap[p][g] \subseteq accepted[g]
         /\ \A u \in emitted : u[g] \in accepted[g]
BY SlotPerGate DEF JP!IInv, JP!StoreInv, JP!EmittedAccepted

(* What the barriers do around the join: a gate looks at the store again,  *)
(* but not while its injector runs.                                        *)
LEMMA GateKeepsTime ==
  ASSUME TimeInv, UNCHANGED <<join, moment>>, TypeOK, TypeOK', JP!IInv,
         \A g \in Barriers : seen[g] <= seen'[g] /\ seen'[g] <= version',
         \A p \in Threads :
           joinpc[p] # "idle" => cur[p] \in Barriers /\ cur'[p] = cur[p]
                                 /\ seen'[cur[p]] = seen[cur[p]]
  PROVE  TimeInv'
<1>1. \A g \in Barriers : seen[g] \in Nat /\ seen'[g] \in Nat
  BY BarrierAssumption DEF TypeOK
<1>2. \A e : Moment(e)' = Moment(e)
  BY DEF Moment
<1>3. ASSUME NEW g \in Barriers, NEW e \in accepted[g]
      PROVE  Moment(e)' <= seen'[g]
  <2>1. Moment(e) \in Nat /\ Moment(e) <= seen[g]
    BY <1>3, AcceptedHasMoment DEF TimeInv, MomentInv
  <2> QED
    BY <1>1, <1>2, <2>1
<1>4. MomentInv'
  BY <1>2, <1>3 DEF TimeInv, MomentInv, join
<1>5. FiringInv'
  BY <1>2 DEF TimeInv, FiringInv, join
<1> QED
  BY <1>4, <1>5 DEF TimeInv

(* A moment is put down for a new stamp; the others stay.                  *)
LEMMA MomentsStay ==
  ASSUME MomentInv, JP!IInv, NEW x \in Nat, moment' = Append(moment, x)
  PROVE  /\ moment' \in Seq(Nat) /\ Len(moment') = Len(moment) + 1
         /\ moment'[Len(moment) + 1] = x
         /\ \A i \in 1 .. Len(moment) : moment'[i] = moment[i]
BY AppendProperties DEF MomentInv

(* An injector begins: its view gets a stamp, and is of the state its gate *)
(* saw last.                                                               *)
LEMMA InjectKeepsTime ==
  ASSUME IInv, JP!IInv, JP!EmittedAccepted, SlotInv, TimeInv,
         NEW p \in Threads, Inject(p)
  PROVE  TimeInv'
<1>1. TypeOK /\ JP!TypeOK /\ MomentInv /\ FiringInv
  BY DEF IInv, JP!IInv, TimeInv
<1>2. /\ UNCHANGED <<store, accepted, snap, todo, emitted, seen, version, cur>>
      /\ joinpc' = [joinpc EXCEPT ![p] = "insert"] /\ joinpc[p] = "idle"
      /\ seq' = [seq EXCEPT ![p] = seq_counter] /\ adds' = adds + 1
      /\ moment' = Append(moment, seen[cur[p]])
      /\ cur[p] \in Barriers
  BY <1>1, KeysAtType DEF Inject, BeginInject, J!TakeSeq, IInv
<1>3. seq_counter = adds /\ adds \in Nat
  <2>1. adds \in 0 .. MaxInjects /\ MaxInjects \in 0 .. Half /\ Half \in Nat \ {0}
    BY <1>1, GatewayAssumption DEF JP!TypeOK
  <2>2. seq_counter = JP!StampAt(0, adds)
    BY <1>1 DEF JP!TypeOK
  <2> QED
    BY <2>1, <2>2 DEF JP!StampAt
<1>4. /\ moment' \in Seq(Nat) /\ Len(moment') = Len(moment) + 1
      /\ moment'[Len(moment) + 1] = seen[cur[p]]
      /\ \A i \in 1 .. Len(moment) : moment'[i] = moment[i]
  <2>1. seen[cur[p]] \in Nat
    BY <1>1, <1>2, BarrierAssumption DEF TypeOK
  <2> QED
    BY <1>1, <1>2, <2>1, MomentsStay
<1>5. \A g \in Barriers : \A e \in accepted[g] : Moment(e)' = Moment(e)
  <2> TAKE g \in Barriers
  <2> TAKE e \in accepted[g]
  <2>1. e.seq + 1 \in 1 .. Len(moment)
    BY <1>1, AcceptedHasMoment
  <2> QED
    BY <1>4, <2>1 DEF Moment
<1>6. ASSUME NEW q \in Threads, joinpc'[q] # "idle"
      PROVE  moment'[seq'[q] + 1] = seen'[cur'[q]]
  <2>1. CASE q = p
    <3>1. seq'[q] = adds
      BY <1>1, <1>2, <1>3, <2>1 DEF JP!TypeOK
    <3> QED
      BY <1>1, <1>2, <1>4, <2>1, <3>1 DEF MomentInv
  <2>2. CASE q # p
    <3>1. joinpc[q] # "idle" /\ seq'[q] = seq[q]
      BY <1>1, <1>2, <1>6, <2>2 DEF JP!TypeOK
    <3>2. seq[q] + 1 \in 1 .. Len(moment)
      <4>1. seq[q] \in JP!Issued
        BY <3>1 DEF JP!IInv, JP!SeqInv
      <4> QED
        BY <1>1, <4>1, IssuedHasMoment
    <3> QED
      BY <1>1, <1>2, <1>4, <3>1, <3>2 DEF MomentInv
  <2> QED
    BY <2>1, <2>2
<1>7. ASSUME NEW g \in Barriers
      PROVE  /\ store[g] \subseteq accepted[g]
             /\ \A q \in Threads : snap[q][g] \subseteq accepted[g]
             /\ \A u \in emitted : u[g] \in accepted[g]
  BY FoundWasAccepted
<1>8. MomentInv'
  <2>1. ASSUME NEW g \in Barriers, NEW f \in accepted[g]
        PROVE  /\ Moment(f)' <= seen'[g]
               /\ \A e \in store[g] : Moment(f)' <= Moment(e)'
    BY <1>1, <1>2, <1>5, <1>7, <2>1 DEF MomentInv
  <2> QED
    BY <1>1, <1>2, <1>4, <1>6, <2>1 DEF MomentInv
<1>9. FiringInv'
  <2> SUFFICES ASSUME NEW q \in Threads
               PROVE  /\ \A g \in Barriers : \A e \in snap[q][g] :
                           /\ joinpc'[q] # "idle"
                           /\ \A f \in snap[q][g] : Moment(f)' <= Moment(e)'
                           /\ \A u \in emitted :
                                J!MaxIdx(u) = cur[q] => Moment(u[g])' <= Moment(e)'
                      /\ \A t \in todo[q] : \A g \in Barriers : t[g] \in snap[q][g]
    BY <1>2 DEF FiringInv
  <2>1. ASSUME NEW g \in Barriers, NEW e \in snap[q][g]
        PROVE  /\ joinpc'[q] # "idle"
               /\ \A f \in snap[q][g] : Moment(f)' <= Moment(e)'
               /\ \A u \in emitted :
                    J!MaxIdx(u) = cur[q] => Moment(u[g])' <= Moment(e)'
    <3>1. joinpc'[q] # "idle"
      BY <1>1, <1>2 DEF FiringInv, JP!TypeOK
    <3>2. \A f \in accepted[g] : Moment(f)' = Moment(f)
      BY <1>5
    <3>3. e \in accepted[g] /\ \A f \in snap[q][g] : f \in accepted[g]
      BY <1>7
    <3>4. \A u \in emitted : u[g] \in accepted[g]
      BY <1>7
    <3> QED
      BY <1>1, <3>1, <3>2, <3>3, <3>4 DEF FiringInv
  <2> QED
    BY <1>1, <2>1 DEF FiringInv
<1> QED
  BY <1>8, <1>9 DEF TimeInv

(* The slot is filled: its gate has injected nothing later.                *)
LEMMA InsertKeepsTime ==
  ASSUME IInv, JP!IInv, SlotInv, TimeInv, NEW p \in Threads, J!Insert(p),
         UNCHANGED <<vars, moment>>
  PROVE  TimeInv'
<1>1. JP!TypeOK /\ MomentInv /\ FiringInv
  BY DEF JP!IInv, TimeInv
<1>2. /\ joinpc[p] = "insert" /\ joinpc' = [joinpc EXCEPT ![p] = "snapshot"]
      /\ UNCHANGED <<seq, snap, todo, emitted, adds, seen, version, cur, moment>>
  BY DEF J!Insert, J!locals, vars, locals, visit, history
<1> DEFINE g == cur[p]
           own == [val |-> val[p], seq |-> seq[p]]
<1>3. /\ g \in Barriers /\ store' = [store EXCEPT ![g] = {own}]
      /\ accepted' = [accepted EXCEPT ![g] = @ \cup {own}]
  <2>1. /\ src[p] = g /\ src[p] \in Barriers
        /\ store' = [store EXCEPT ![src[p]] = {own}]
    BY <1>1, InsertFillsSlot
  <2>2. accepted' = [accepted EXCEPT ![src[p]] = @ \cup {own}]
    BY DEF J!Insert, J!Own
  <2> QED
    BY <2>1, <2>2
<1>4. Moment(own) = seen[g]
  BY <1>1, <1>2 DEF MomentInv, Moment
<1>5. \A e : Moment(e)' = Moment(e)
  BY <1>2 DEF Moment
<1>6. seen[g] <= seen[g]
  BY <1>3, BarrierAssumption DEF IInv, TypeOK
<1>7. ASSUME NEW h \in Barriers
      PROVE  /\ \A f \in accepted'[h] : Moment(f) <= seen[h]
             /\ \A e \in store'[h], f \in accepted'[h] : Moment(f) <= Moment(e)
  <2>1. CASE h = g
    <3>1. accepted'[h] = accepted[h] \cup {own} /\ store'[h] = {own}
      BY <1>1, <1>3, <2>1, SlotPerGate DEF JP!TypeOK
    <3>2. \A f \in accepted'[h] : Moment(f) <= seen[h]
      BY <1>1, <1>4, <1>6, <2>1, <3>1 DEF MomentInv
    <3> QED
      BY <1>4, <2>1, <3>1, <3>2
  <2>2. CASE h # g
    <3>1. accepted'[h] = accepted[h] /\ store'[h] = store[h]
      BY <1>1, <1>3, <2>2, SlotPerGate DEF JP!TypeOK
    <3> QED
      BY <1>1, <3>1 DEF MomentInv
  <2> QED
    BY <2>1, <2>2
<1>8. \A q \in Threads : joinpc'[q] # "idle" <=> joinpc[q] # "idle"
  BY <1>1, <1>2 DEF JP!TypeOK
<1>9. MomentInv'
  BY <1>1, <1>2, <1>5, <1>7, <1>8 DEF MomentInv
<1>10. FiringInv'
  BY <1>1, <1>2, <1>5, <1>8 DEF FiringInv
<1> QED
  BY <1>9, <1>10 DEF TimeInv

(* A snapshot finds what the slot holds, which is as late as anything the  *)
(* gate of the slot ever injected.                                         *)
LEMMA SnapshotKeepsTime ==
  ASSUME IInv, JP!IInv, JP!EmittedAccepted, SlotInv, TimeInv,
         NEW p \in Threads, NEW s \in J!Sources, J!SnapshotOne(p, s),
         UNCHANGED <<vars, moment>>
  PROVE  TimeInv'
<1>1. JP!TypeOK /\ MomentInv /\ FiringInv
  BY DEF JP!IInv, TimeInv
<1>2. s \in Barriers
  BY SlotPerGate DEF J!Sources, JP!Sources
<1>3. /\ joinpc[p] = "snapshot"
      /\ UNCHANGED <<store, seq, accepted, emitted, adds, seen, version, cur, moment>>
      /\ snap' = [snap EXCEPT ![p][s] = J!Visible(s)]
      /\ \A q \in Threads : joinpc'[q] # "idle" <=> joinpc[q] # "idle"
      /\ \A q \in Threads \ {p} : todo'[q] = todo[q]
  BY <1>1 DEF J!SnapshotOne, J!history, vars, locals, visit, history, JP!TypeOK
<1>4. \A e : Moment(e)' = Moment(e)
  BY <1>3 DEF Moment
<1>5. MomentInv'
  BY <1>1, <1>3, <1>4 DEF MomentInv
<1>6. /\ \A q \in Threads \ {p} : snap'[q] = snap[q]
      /\ snap'[p][s] \subseteq store[s]
      /\ \A g \in Barriers \ {s} : snap'[p][g] = snap[p][g]
  <2>1. snap[p] = [g \in Barriers |-> snap[p][g]]
    BY <1>1, SlotPerGate DEF JP!TypeOK
  <2>2. J!Visible(s) \subseteq store[s]
    BY DEF J!Visible
  <2>3. snap'[p] = [snap[p] EXCEPT ![s] = J!Visible(s)]
    BY <1>1, <1>3 DEF JP!TypeOK
  <2> QED
    BY <1>1, <1>2, <1>3, <2>1, <2>2, <2>3 DEF JP!TypeOK
<1>7. ASSUME NEW q \in Threads, NEW g \in Barriers, NEW e \in snap'[q][g]
      PROVE  /\ joinpc[q] # "idle"
             /\ \A f \in snap'[q][g] : Moment(f) <= Moment(e)
             /\ \A u \in emitted : J!MaxIdx(u) = cur[q] => Moment(u[g]) <= Moment(e)
  <2>1. CASE q = p /\ g = s
    <3>1. /\ e \in store[g] /\ snap'[q][g] \subseteq accepted[g]
          /\ \A u \in emitted : u[g] \in accepted[g]
      BY <1>6, <2>1, FoundWasAccepted
    <3> QED
      BY <1>1, <1>3, <2>1, <3>1 DEF MomentInv
  <2>2. CASE ~ (q = p /\ g = s)
    <3>1. snap'[q][g] = snap[q][g]
      BY <1>6, <2>2
    <3> QED
      BY <1>1, <3>1 DEF FiringInv
  <2> QED
    BY <2>1, <2>2
<1>8. \A q \in Threads : \A t \in todo'[q] : \A g \in Barriers : t[g] \in snap'[q][g]
  <2>1. todo[p] = {}
    BY <1>1, <1>3 DEF JP!TypeOK
  <2>2. \A t \in todo'[p] : \A g \in Barriers : t[g] \in snap'[p][g]
    <3>1. CASE left[p] = {s}
      <4>1. todo'[p] = J!cross_product(snap'[p], src[p], seq[p])
        BY <1>1, <3>1 DEF J!SnapshotOne, JP!TypeOK
      <4> QED
        BY <4>1, SlotPerGate
           DEF J!cross_product, J!Combinations, J!Sources, JP!Sources
    <3>2. CASE left[p] # {s}
      BY <2>1, <3>2 DEF J!SnapshotOne
    <3> QED
      BY <3>1, <3>2
  <2> QED
    BY <1>1, <1>3, <1>6, <2>2 DEF FiringInv
<1>9. FiringInv'
  BY <1>3, <1>4, <1>7, <1>8 DEF FiringInv
<1> QED
  BY <1>5, <1>9 DEF TimeInv

(* A call of the user: what another gate fires is not compared with this,  *)
(* and what this gate fires is among its snapshots, of one moment per gate.*)
LEMMA EmitKeepsTime ==
  ASSUME IInv, JP!IInv, JP!EmittedAccepted, SlotInv, TimeInv,
         NEW p \in Threads, NEW t \in todo[p], J!Emit(p, t),
         UNCHANGED <<vars, moment>>
  PROVE  TimeInv'
<1>1. JP!TypeOK /\ MomentInv /\ FiringInv
  BY DEF JP!IInv, TimeInv
<1>2. /\ joinpc[p] = "emit" /\ emitted' = emitted \cup {t}
      /\ UNCHANGED <<store, seq, joinpc, snap, accepted, adds, seen, version, cur, moment>>
      /\ \A q \in Threads : todo'[q] \subseteq todo[q]
  BY <1>1 DEF J!Emit, vars, locals, visit, history, JP!TypeOK
<1>3. \A e : Moment(e)' = Moment(e)
  BY <1>2 DEF Moment
<1>4. MomentInv'
  BY <1>1, <1>2, <1>3 DEF MomentInv
<1>5. JP!MaxIdx(t) = cur[p]
  <2>1. JP!MaxIdx(t) = src[p]
    BY DEF JP!IInv, JP!EmitInv, JP!Owns
  <2>2. src[p] = cur[p]
    BY <1>2 DEF SlotInv, InjectorAdds
  <2> QED
    BY <2>1, <2>2
<1>6. J!MaxIdx(t) = cur[p]
  BY <1>5 DEF J!MaxIdx, J!seq_after, J!Distance, J!Sources,
              JP!MaxIdx, JP!seq_after, JP!Distance, JP!Sources
<1>7. ASSUME NEW q \in Threads, NEW g \in Barriers, NEW e \in snap[q][g],
             J!MaxIdx(t) = cur[q]
      PROVE  Moment(t[g]) <= Moment(e)
  <2>1. q = p
    <3>1. pc[p] = "injecting" /\ pc[q] = "injecting"
      BY <1>1, <1>2, <1>7 DEF SlotInv, InjectorAdds, FiringInv
    <3>2. cur[p] \in Barriers
      BY <3>1, KeysAtType DEF IInv
    <3>3. cur[q] = cur[p]
      BY <1>6, <1>7
    <3>4. holder[cur[p]] = p /\ holder[cur[p]] = q
      BY <3>1, <3>2, <3>3 DEF IInv, TypeOK, LockHeld
    <3> QED
      BY <3>4
  <2>2. t[g] \in snap[p][g]
    BY <1>1 DEF FiringInv
  <2> QED
    BY <1>1, <1>7, <2>1, <2>2 DEF FiringInv
<1>8. FiringInv'
  <2> SUFFICES ASSUME NEW q \in Threads
               PROVE  /\ \A g \in Barriers : \A e \in snap[q][g] :
                           /\ joinpc[q] # "idle"
                           /\ \A f \in snap[q][g] : Moment(f) <= Moment(e)
                           /\ \A u \in emitted \cup {t} :
                                J!MaxIdx(u) = cur[q] => Moment(u[g]) <= Moment(e)
                      /\ \A c \in todo'[q] : \A g \in Barriers : c[g] \in snap[q][g]
    BY <1>2, <1>3 DEF FiringInv
  <2> QED
    BY <1>1, <1>2, <1>7 DEF FiringInv
<1> QED
  BY <1>4, <1>8 DEF TimeInv

(* add returns.                                                            *)
LEMMA ReturnKeepsTime ==
  ASSUME JP!IInv, TimeInv, NEW p \in Threads, J!Return(p), UNCHANGED <<vars, moment>>
  PROVE  TimeInv'
<1>1. JP!TypeOK /\ MomentInv /\ FiringInv
  BY DEF JP!IInv, TimeInv
<1>2. /\ UNCHANGED <<store, accepted, todo, emitted, adds, seen, version, cur, moment>>
      /\ todo[p] = {} /\ joinpc'[p] = "idle" /\ snap'[p] = J!NoEntries
      /\ \A q \in Threads \ {p} :
           joinpc'[q] = joinpc[q] /\ snap'[q] = snap[q] /\ seq'[q] = seq[q]
  BY <1>1 DEF J!Return, J!Leave, J!history, vars, locals, visit, history, JP!TypeOK
<1>3. \A e : Moment(e)' = Moment(e)
  BY <1>2 DEF Moment
<1>4. MomentInv'
  BY <1>1, <1>2, <1>3 DEF MomentInv
<1>5. \A g \in Barriers : snap'[p][g] = {}
  BY <1>2, SlotPerGate DEF J!NoEntries, J!Sources, JP!Sources
<1>6. FiringInv'
  BY <1>1, <1>2, <1>3, <1>5 DEF FiringInv
<1> QED
  BY <1>4, <1>6 DEF TimeInv

(* seen goes on with the store, and stays while an injector runs.          *)
LEMMA SeenStep ==
  ASSUME IInv, MomentInv, NEW p \in Threads, ChangeStore(p) \/ GateStep(p)
  PROVE  /\ \A g \in Barriers : seen[g] <= seen'[g] /\ seen'[g] <= version'
         /\ \A q \in Threads : pc[q] = "injecting" =>
              cur[q] \in Barriers /\ cur'[q] = cur[q] /\ seen'[cur[q]] = seen[cur[q]]
<1>1. /\ TypeOK /\ Shape
      /\ \A g \in Barriers : seen[g] \in Nat /\ seen[g] <= version
      /\ version \in Nat
  BY BarrierAssumption DEF IInv, TypeOK, MomentInv
<1>2. \A q \in Threads : pc[q] = "injecting" =>
        cur[q] \in Barriers /\ holder[cur[q]] = q
  BY <1>1, KeysAtType DEF TypeOK, LockHeld
<1>3. \A q \in Threads : pc[q] = "injecting" => q # p /\ cur'[q] = cur[q]
  BY <1>1
     DEF TypeOK, ChangeStore, GateStep, StoreInsert, StoreRemove, Change, Fire, Notify,
         Return, Ignore, Evaluate, LeaveBarrier, visit
<1>4. CASE Evaluate(p)
  <2>1. /\ version' = version /\ holder[cur[p]] = None
        /\ seen' = seen \/ seen' = [seen EXCEPT ![cur[p]] = version]
    BY <1>4 DEF Evaluate
  <2>2. \A g \in Barriers : seen[g] <= seen'[g] /\ seen'[g] <= version'
    <3> TAKE g \in Barriers
    <3>1. seen'[g] = seen[g] \/ seen'[g] = version
      BY <1>1, <2>1 DEF TypeOK
    <3> QED
      BY <1>1, <2>1, <3>1
  <2>3. \A g \in Barriers : g # cur[p] => seen'[g] = seen[g]
    BY <1>1, <2>1 DEF TypeOK
  <2>4. \A q \in Threads : pc[q] = "injecting" => cur[q] # cur[p]
    BY <1>2, <2>1, BarrierAssumption
  <2> QED
    BY <1>2, <1>3, <2>2, <2>3, <2>4
<1>5. CASE ~ Evaluate(p)
  <2>1. seen' = seen /\ (version' = version \/ version' = version + 1)
    BY <1>5 DEF ChangeStore, GateStep, StoreInsert, StoreRemove, Change, Fire, Notify,
                Return, Ignore, history
  <2> QED
    BY <1>1, <1>2, <1>3, <2>1
<1> QED
  BY <1>4, <1>5

LEMMA TimeStep ==
  IInv /\ JP!IInv /\ JP!EmittedAccepted /\ SlotInv /\ TimeInv
    /\ [GatewayNext]_gatewayVars => TimeInv'
<1> SUFFICES ASSUME IInv, JP!IInv, JP!EmittedAccepted, SlotInv, TimeInv,
                    [GatewayNext]_gatewayVars
             PROVE  TimeInv'
  OBVIOUS
<1>1. TypeOK /\ TypeOK' /\ Shape /\ MomentInv
  BY GatesStep, Inductive DEF IInv, TimeInv
<1>2. /\ \A q \in Threads : joinpc[q] # "idle" => pc[q] = "injecting"
      /\ \A q \in Threads : pc[q] = "injecting" => cur[q] \in Barriers
      /\ \A g \in Barriers : seen[g] \in Nat /\ seen[g] <= version
  BY <1>1, KeysAtType, BarrierAssumption DEF SlotInv, InjectorAdds, MomentInv, TypeOK
<1>3. ASSUME NEW p \in Threads, ChangeStore(p) \/ GateStep(p)
      PROVE  TimeInv'
  <2>1. UNCHANGED <<join, moment>>
    BY <1>3 DEF ChangeStore, GateStep
  <2> QED
    BY <1>1, <1>2, <1>3, <2>1, SeenStep, GateKeepsTime
<1>4. ASSUME UNCHANGED <<join, moment>>, seen' = seen, version' = version,
             \A q \in Threads : joinpc[q] # "idle" => cur'[q] = cur[q]
      PROVE  TimeInv'
  BY <1>1, <1>2, <1>4, GateKeepsTime
<1>5. ASSUME NEW p \in Threads, Injected(p)
      PROVE  TimeInv'
  <2>1. /\ UNCHANGED <<join, moment>> /\ seen' = seen /\ version' = version
        /\ joinpc[p] = "idle" /\ \A q \in Threads \ {p} : cur'[q] = cur[q]
    BY <1>1, <1>5 DEF TypeOK, Injected, EndInject, LeaveBarrier, history
  <2> QED
    BY <1>4, <2>1
<1>6. ASSUME NEW p \in Threads, NEW g \in Barriers, NEW ks \in KeyLists,
             OpenGate(p, g, ks) \/ ChangeKeys(p, g, ks)
      PROVE  TimeInv'
  <2>1. /\ UNCHANGED <<join, moment>> /\ seen' = seen /\ version' = version
        /\ pc[p] = "idle" /\ \A q \in Threads \ {p} : cur'[q] = cur[q]
    BY <1>1, <1>6 DEF TypeOK, OpenGate, ChangeKeys, Construct, SetKeys, history
  <2> QED
    BY <1>2, <1>4, <2>1
<1>7. ASSUME NEW g \in Barriers, CloseGate(g)
      PROVE  TimeInv'
  BY <1>4, <1>7 DEF CloseGate, Destroy, locals, visit, history
<1>8. CASE UNCHANGED gatewayVars
  BY <1>4, <1>8 DEF gatewayVars, vars, locals, visit, history
<1>9. ASSUME NEW p \in Threads, JoinStep(p)
      PROVE  TimeInv'
  <2>1. UNCHANGED <<vars, moment>> /\ J!Step(p) /\ ~ J!Reject(p)
    BY <1>9, NothingRefused DEF JoinStep, JP!IInv
  <2> QED
    BY <2>1, InsertKeepsTime, SnapshotKeepsTime, EmitKeepsTime, ReturnKeepsTime
       DEF J!Step
<1> QED
  BY <1>3, <1>5, <1>6, <1>7, <1>8, <1>9, InjectKeepsTime DEF GatewayNext, Proceed

(* The user never gets from a gate an older view than from its call        *)
(* before, of any gate: the lock a gate keeps through add puts its calls   *)
(* one after the other, and what it snapshots later is not older.          *)
THEOREM GatesNeverGoBack == GatewaySpec => []NeverGoesBack
<1>1. FiringInv => NeverGoesBack
  BY DEF FiringInv, NeverGoesBack
<1>2. GatewayInit => TimeInv
  BY SlotPerGate, EmptySeq
     DEF GatewayInit, Init, J!Init, J!NoEntries, J!Sources, JP!Sources, TimeInv,
         MomentInv, FiringInv
<1>3. TimeInv => FiringInv
  BY DEF TimeInv
<1> QED
  BY <1>1, <1>2, <1>3, TimeStep, SlotsHold, GatewayJoins, JoinTheorems, PTL
     DEF GatewaySpec
(* A gateway is what it is made of (gateway.hpp:55-150): it runs its       *)
(* barriers as BarrierView does and its join as NJoin does, so that what   *)
(* either is proved to keep holds of it too.                               *)
THEOREM GatewayImplements == GatewaySpec => Spec /\ JP!Spec
<1>1. GatewayInit => Init
  BY DEF GatewayInit
<1> QED
  BY <1>1, GatesStep, GatewayJoins, PTL DEF GatewaySpec, Spec

=============================================================================
