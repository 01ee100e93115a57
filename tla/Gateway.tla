------------------------------- MODULE Gateway -------------------------------
(***************************************************************************)
(* gateway.hpp: gates on a store, each a BarrierView whose injector adds   *)
(* the assembled view to its own slot of one NJoin, which calls the user   *)
(* with a view per gate.                                                   *)
(*                                                                         *)
(* This composes BarrierView (extended here; its barriers are the gates)   *)
(* with NJoin (J): an injector's call of add<I> begins with the injector   *)
(* and the injector ends when add has returned, all of it under the lock   *)
(* of the gate's barrier.  make_reactive gives each slot its default       *)
(* policy, RetainLatest.  The gates are on one store, which they may be;   *)
(* what a gate on another store is not told of it ignores here.            *)
(***************************************************************************)
EXTENDS BarrierView, FiniteSets

CONSTANTS
  GateKeys,    \* the lists of keys each gate may be given
  Half,        \* NJoin's counter counts modulo 2 * Half
  MaxInjects   \* bound: calls of an injector; enough for all that can happen

VARIABLES
  seq_counter, store, dead,                       \* NJoin: the join
  joinpc, src, val, seq, left, snap, todo,        \* NJoin: a thread in add
  adds, accepted, gone, emitted, calls, found     \* NJoin: history

join == <<seq_counter, store, dead, joinpc, src, val, seq, left, snap, todo,
          adds, accepted, gone, emitted, calls, found>>

(* History: of each stamp the changes the store had seen when the view     *)
(* that got the stamp was assembled.                                       *)
VARIABLE moment

gatewayVars == <<vars, join, moment>>

Views == UNION {[DOMAIN ks -> Values] : ks \in KeyLists}

(* gateway_dispatch takes one gate at least.                               *)
ASSUME GatewayAssumption ==
  /\ IsFiniteSet(Barriers) /\ Barriers # {}
  /\ Barriers = 0 .. (Cardinality(Barriers) - 1)
  /\ GateKeys \in [Barriers -> SUBSET KeyLists]
  /\ Values # {} /\ None \notin Views
  /\ Half \in Nat \ {0} /\ MaxInjects \in 0 .. Half

J == INSTANCE NJoin WITH
       N <- Cardinality(Barriers), Values <- Views,
       KeyOf <- [v \in Views |-> v],
       Start <- 0, MaxAdds <- MaxInjects,
       Policy <- [g \in Barriers |-> "latest"],
       Mortal <- [g \in Barriers |-> {}],
       Shrinking <- {}, pc <- joinpc

GatewayInit == Init /\ J!Init /\ moment = <<>>

-----------------------------------------------------------------------------
(* One owner makes the calls on the gateway, one at a time.                *)
OwnerBusy == \E g \in Barriers : OwnerCalls(g)

(* gateway_impl: the gates are made one after the other.                   *)
OpenGate(p, g, ks) ==
  /\ ks \in GateKeys[g]
  /\ ~OwnerBusy
  /\ \A h \in Barriers : life[h] # "dead"
  /\ Construct(p, g, ks)
  /\ UNCHANGED <<join, moment>>

(* set_keys<g>, on a gateway that is there.                                *)
ChangeKeys(p, g, ks) ==
  /\ ks \in GateKeys[g]
  /\ ~OwnerBusy
  /\ \A h \in Barriers : life[h] = "live"
  /\ SetKeys(p, g, ks)
  /\ UNCHANGED <<join, moment>>

(* The gateway is destroyed, gate by gate.  An injector that still runs    *)
(* holds a reference to the join.                                          *)
CloseGate(g) ==
  /\ ~OwnerBusy
  /\ \A h \in Barriers : life[h] # "unborn"
  /\ Destroy(g)
  /\ UNCHANGED <<join, moment>>

(* The store is changed.                                                   *)
ChangeStore(p) ==
  /\ \/ \E k \in Keys, v \in Values : StoreInsert(p, k, v)
     \/ \E k \in Keys : StoreRemove(p, k)
  /\ UNCHANGED <<join, moment>>

(* The store tells the gates, and a gate looks.                            *)
GateStep(p) ==
  /\ Fire(p) \/ Notify(p) \/ Return(p) \/ Ignore(p) \/ Evaluate(p)
  /\ UNCHANGED <<join, moment>>

(* The injector copies the span and calls add<I>, I being its gate.        *)
Inject(p) ==
  /\ BeginInject(p)
  /\ J!TakeSeq(p, cur[p], assembled[cur[p]])
  /\ moment' = Append(moment, seen[cur[p]])

(* add goes on, in the injector.                                           *)
JoinStep(p) ==
  /\ pc[p] = "injecting"
  /\ J!Step(p)
  /\ UNCHANGED <<vars, moment>>

(* add has returned, so the injector returns.                              *)
Injected(p) ==
  /\ EndInject(p)
  /\ joinpc[p] = "idle"
  /\ UNCHANGED <<join, moment>>

Proceed(p) == GateStep(p) \/ Inject(p) \/ JoinStep(p) \/ Injected(p)

GatewayNext ==
  \/ \E p \in Threads : ChangeStore(p) \/ Proceed(p)
  \/ \E p \in Threads, g \in Barriers, ks \in KeyLists :
       OpenGate(p, g, ks) \/ ChangeKeys(p, g, ks)
  \/ \E g \in Barriers : CloseGate(g)

GatewaySpec == GatewayInit /\ [][GatewayNext]_gatewayVars

-----------------------------------------------------------------------------
(* A gate's slot holds the view its injector was last called with, unless  *)
(* a call is under way: stamps are taken and slots overwritten in the      *)
(* order the gate saw the store, because the gate's lock is held through   *)
(* add.  (Of NJoin alone this is not so: LatestNeverOlder.)                *)
SlotIsLastInjected ==
  \A g \in Barriers :
    (\A p \in Threads : cur[p] = g => pc[p] # "injecting") =>
      {e.val : e \in store[g]} = IF injected[g] = None THEN {} ELSE {injected[g]}

(* No change is lost on the way through the gates to the slots: when no    *)
(* call is under way, the slot of every live gate that is complete holds   *)
(* the present values of its keys.                                         *)
SlotsCurrent ==
  (\A p \in Threads : pc[p] = "idle") =>
    \A g \in Barriers :
      life[g] = "live" /\ AllPresent(required[g]) =>
        {e.val : e \in store[g]} = {View(required[g])}

(* What the store held when the view of an entry was assembled.            *)
Moment(e) == moment[e.seq + 1]

(* One gate's calls of the user never go back in time: in every gate the   *)
(* view it hands over is of the same state of the store as the view of a   *)
(* combination it fired before, or of a later one - whichever threads ran  *)
(* its injector, and whatever the other gates did between the snapshots.   *)
(* (Calls of different gates may be in any order.)                         *)
NeverGoesBack ==
  \A p \in Threads : \A t \in todo[p] : \A u \in emitted :
    J!MaxIdx(u) = cur[p] =>
      \A g \in Barriers : Moment(u[g]) <= Moment(t[g])

-----------------------------------------------------------------------------
(* README.md:790: all gates must open before the callback fires.  When it  *)
(* is called, every gate is complete.                                      *)
AllGatesOpen ==
  [][\A p \in Threads : joinpc[p] = "emit" /\ emitted' # emitted =>
       \A g \in Barriers : complete[g]]_gatewayVars

(* README.md:986: the emit callback runs outside all locks.                *)
EmitsOutsideLocks ==
  \A p \in Threads : todo[p] # {} => \A g \in Barriers : holder[g] # p

=============================================================================
