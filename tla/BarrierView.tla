----------------------------- MODULE BarrierView -----------------------------
(***************************************************************************)
(* shared_source.hpp and barrier_view.hpp: a keyed store, and barriers     *)
(* that are told of its changes.  A barrier wants a list of keys; when all *)
(* are in the store it is complete and hands the list of their values to   *)
(* its injector.                                                           *)
(*                                                                         *)
(* insert and remove change the store under the store's lock and only then *)
(* load the list of subscribers and call them one by one; a barrier works  *)
(* under its own lock, takes a snapshot of the store, and runs its         *)
(* injector before it gives the lock back.  Until the injector runs, what  *)
(* a thread does under a barrier's lock meets the rest of the program only *)
(* where it takes the snapshot, and is one action.                         *)
(*                                                                         *)
(* The list of subscribers is the current one; that it loses nobody is     *)
(* SubscriberList's matter.  The calls that change a barrier are made by   *)
(* its owner, who does not make two at a time, as of any C++ object.       *)
(***************************************************************************)
EXTENDS Naturals, SequencesExt

CONSTANTS
  Threads,
  Barriers,
  Keys,
  Values,
  KeyLists,    \* the lists of keys a barrier may be asked for
  MaxChanges,  \* bound: changes of the store
  MaxSetKeys,  \* bound: calls of set_required_keys and set_injector
  None

ASSUME BarrierAssumption ==
  /\ KeyLists \subseteq Seq(Keys) /\ KeyLists # {}
  /\ None \notin Keys \cup Values \cup Threads \cup Barriers
  /\ MaxChanges \in Nat /\ MaxSetKeys \in Nat

VARIABLES
  data,       \* SharedSource: the value of each key, None without one
  subs,       \* its subscribers, in the order they came
  life,       \* the owner's barrier: "unborn", "live", "dead"
  required,   \* BarrierView: keys_ordered
  complete,   \* BarrierView: complete
  assembled,  \* BarrierView: assembled
  injector,   \* BarrierView: which of the injectors it was given it has
  holder,     \* the thread that holds the barrier's lock, or None
  pc,         \* where each thread is
  key,        \* the key it changed; None in a call by a barrier's owner
  queue,      \* the subscribers it still has to call
  cur,        \* the barrier it is at
  newkeys,    \* the keys set_required_keys was given
  calling     \* the injector it runs, None outside

(* History: how often the store has changed; what it held when each        *)
(* barrier's injector last ran, and how often it had changed by then;      *)
(* the calls of set_required_keys and set_injector.                        *)
VARIABLES version, injected, seen, reconfs

shared == <<data, subs, life>>
barrier == <<required, complete, assembled, injector, holder>>
visit == <<cur, newkeys, calling>>
locals == <<pc, key, queue, visit>>
history == <<version, injected, seen, reconfs>>
vars == <<shared, barrier, locals, history>>

AnyKeys == CHOOSE ks \in KeyLists : TRUE

Init ==
  /\ data = [k \in Keys |-> None]
  /\ subs = <<>>
  /\ life = [b \in Barriers |-> "unborn"]
  /\ required = [b \in Barriers |-> AnyKeys]
  /\ complete = [b \in Barriers |-> FALSE]
  /\ assembled = [b \in Barriers |-> <<>>]
  /\ injector = [b \in Barriers |-> 0]
  /\ holder = [b \in Barriers |-> None]
  /\ pc = [p \in Threads |-> "idle"]
  /\ key = [p \in Threads |-> None]
  /\ queue = [p \in Threads |-> <<>>]
  /\ cur = [p \in Threads |-> None]
  /\ newkeys = [p \in Threads |-> None]
  /\ calling = [p \in Threads |-> None]
  /\ version = 0
  /\ injected = [b \in Barriers |-> None]
  /\ seen = [b \in Barriers |-> 0]
  /\ reconfs = 0

-----------------------------------------------------------------------------
(* SharedSource.                                                           *)

(* A change of the store, after which the subscribers are told.            *)
Change(p, k, v) ==
  /\ pc[p] = "idle"
  /\ version < MaxChanges
  /\ data' = [data EXCEPT ![k] = v]
  /\ version' = version + 1
  /\ key' = [key EXCEPT ![p] = k]
  /\ pc' = [pc EXCEPT ![p] = "fire"]
  /\ UNCHANGED <<subs, life, barrier, queue, visit, injected, seen, reconfs>>

(* insert: nothing happens when the key has this value already.            *)
StoreInsert(p, k, v) == data[k] # v /\ Change(p, k, v)

(* remove: nothing happens when the key is not there.                      *)
StoreRemove(p, k) == data[k] # None /\ Change(p, k, None)

(* fire: the list of subscribers is loaded, after the store's lock was     *)
(* given back.                                                             *)
Fire(p) ==
  /\ pc[p] = "fire"
  /\ queue' = [queue EXCEPT ![p] = subs]
  /\ pc' = [pc EXCEPT ![p] = "notify"]
  /\ UNCHANGED <<shared, barrier, key, visit, history>>

(* A subscriber is called.  Its weak_ptr is dead, or on_change begins.     *)
Notify(p) ==
  /\ pc[p] = "notify"
  /\ queue[p] # <<>>
  /\ queue' = [queue EXCEPT ![p] = Tail(@)]
  /\ IF life[Head(queue[p])] = "dead"
     THEN UNCHANGED <<pc, cur>>
     ELSE /\ cur' = [cur EXCEPT ![p] = Head(queue[p])]
          /\ pc' = [pc EXCEPT ![p] = "lock"]
  /\ UNCHANGED <<shared, barrier, key, newkeys, calling, history>>

(* The call is over. *)
Return(p) ==
  /\ pc[p] = "notify"
  /\ queue[p] = <<>>
  /\ pc' = [pc EXCEPT ![p] = "idle"]
  /\ key' = [key EXCEPT ![p] = None]
  /\ UNCHANGED <<shared, barrier, queue, visit, history>>

-----------------------------------------------------------------------------
(* BarrierView.                                                            *)

(* A buggy constructor for mutation: the subscription is made at the end,  *)
(* that is, nobody tells the barrier of a change that comes after its      *)
(* first look.                                                             *)
ConstructUnsubscribed(p, b, ks) ==
  /\ pc[p] = "idle"
  /\ life[b] = "unborn"
  /\ life' = [life EXCEPT ![b] = "live"]
  /\ required' = [required EXCEPT ![b] = ks]
  /\ cur' = [cur EXCEPT ![p] = b]
  /\ pc' = [pc EXCEPT ![p] = "lock"]
  /\ UNCHANGED <<data, subs, complete, assembled, injector, holder, key, queue,
                 newkeys, calling, history>>

(* The constructor: first the subscription, then evaluate_full.            *)
Construct(p, b, ks) ==
  /\ pc[p] = "idle"
  /\ life[b] = "unborn"
  /\ life' = [life EXCEPT ![b] = "live"]
  /\ required' = [required EXCEPT ![b] = ks]
  /\ subs' = Append(subs, b)
  /\ cur' = [cur EXCEPT ![p] = b]
  /\ pc' = [pc EXCEPT ![p] = "lock"]
  /\ UNCHANGED <<data, complete, assembled, injector, holder, key, queue,
                 newkeys, calling, history>>

(* The owner of b is in a call on it. *)
OwnerCalls(b) == \E p \in Threads : cur[p] = b /\ key[p] = None

(* set_required_keys, up to the lock. *)
SetKeys(p, b, ks) ==
  /\ pc[p] = "idle"
  /\ life[b] = "live" /\ ~OwnerCalls(b)
  /\ reconfs < MaxSetKeys
  /\ reconfs' = reconfs + 1
  /\ cur' = [cur EXCEPT ![p] = b]
  /\ newkeys' = [newkeys EXCEPT ![p] = ks]
  /\ pc' = [pc EXCEPT ![p] = "lock"]
  /\ UNCHANGED <<shared, barrier, key, queue, calling, version, injected, seen>>

(* A buggy step for mutation: set_injector does not take the lock.         *)
SetInjectorUnlocked(b) ==
  /\ life[b] = "live" /\ ~OwnerCalls(b)
  /\ reconfs < MaxSetKeys
  /\ reconfs' = reconfs + 1
  /\ injector' = [injector EXCEPT ![b] = @ + 1]
  /\ UNCHANGED <<shared, required, complete, assembled, holder, locals, version,
                 injected, seen>>

(* set_injector, once it has the lock.  The view the barrier may have is   *)
(* not given to the new injector.                                          *)
SetInjector(b) ==
  /\ life[b] = "live" /\ ~OwnerCalls(b)
  /\ holder[b] = None
  /\ reconfs < MaxSetKeys
  /\ reconfs' = reconfs + 1
  /\ injector' = [injector EXCEPT ![b] = @ + 1]
  /\ UNCHANGED <<shared, required, complete, assembled, holder, locals, version,
                 injected, seen>>

(* The owner destroys the barrier.  A thread that holds a reference to its *)
(* state carries on with it.                                               *)
Destroy(b) ==
  /\ life[b] = "live" /\ ~OwnerCalls(b)
  /\ life' = [life EXCEPT ![b] = "dead"]
  /\ UNCHANGED <<data, subs, barrier, locals, history>>

(* A buggy filter for mutation: only the first of the keys is looked for.  *)
FirstKeyOnly(p, ks) == key[p] = None \/ (ks # <<>> /\ key[p] = ks[1])

(* on_change ignores a key that is not required; the owner's calls always  *)
(* evaluate.                                                               *)
Relevant(p, ks) == key[p] = None \/ key[p] \in ToSet(ks)

AllPresent(ks) == \A i \in DOMAIN ks : data[ks[i]] # None

View(ks) == [i \in DOMAIN ks |-> data[ks[i]]]

(* The assembly stops at the first key that is missing.                    *)
Prefix(ks) ==
  LET missing == {i \in DOMAIN ks : data[ks[i]] = None}
      first == CHOOSE i \in missing : \A j \in missing : i <= j
  IN  IF missing = {} THEN View(ks) ELSE SubSeq(View(ks), 1, first - 1)

(* A thread leaves the barrier it was at.                                  *)
LeaveBarrier(p) ==
  /\ cur' = [cur EXCEPT ![p] = None]
  /\ newkeys' = [newkeys EXCEPT ![p] = None]
  /\ calling' = [calling EXCEPT ![p] = None]
  /\ pc' = [pc EXCEPT ![p] = IF key[p] = None THEN "idle" ELSE "notify"]

KeysAt(p) == IF newkeys[p] = None THEN required[cur[p]] ELSE newkeys[p]

(* The lock is taken, the key is not one of the barrier's.                 *)
Ignore(p) ==
  /\ pc[p] = "lock"
  /\ holder[cur[p]] = None
  /\ ~Relevant(p, KeysAt(p))
  /\ LeaveBarrier(p)
  /\ UNCHANGED <<shared, barrier, key, queue, history>>

(* A buggy evaluation for mutation: a barrier that was complete is not     *)
(* looked at again when a key goes.                                        *)
EvaluateOnce(p) ==
  /\ pc[p] = "lock"
  /\ holder[cur[p]] = None
  /\ Relevant(p, KeysAt(p))
  /\ LET b == cur[p]
         ks == KeysAt(p)
     IN  /\ required' = [required EXCEPT ![b] = ks]
         /\ complete' = [complete EXCEPT ![b] = @ \/ AllPresent(ks)]
         /\ assembled' = [assembled EXCEPT ![b] = Prefix(ks)]
         /\ IF AllPresent(ks)
            THEN /\ holder' = [holder EXCEPT ![b] = p]
                 /\ seen' = [seen EXCEPT ![b] = version]
                 /\ pc' = [pc EXCEPT ![p] = "inject"]
                 /\ UNCHANGED visit
            ELSE LeaveBarrier(p) /\ UNCHANGED <<holder, seen>>
  /\ UNCHANGED <<shared, injector, key, queue, version, injected, reconfs>>

(* A buggy evaluation for mutation: the lock is given back before the      *)
(* injector runs.                                                          *)
EvaluateUnlocked(p) ==
  /\ pc[p] = "lock"
  /\ holder[cur[p]] = None
  /\ Relevant(p, KeysAt(p))
  /\ LET b == cur[p]
         ks == KeysAt(p)
     IN  /\ required' = [required EXCEPT ![b] = ks]
         /\ complete' = [complete EXCEPT ![b] = AllPresent(ks)]
         /\ assembled' = [assembled EXCEPT ![b] = Prefix(ks)]
         /\ IF AllPresent(ks)
            THEN /\ seen' = [seen EXCEPT ![b] = version]
                 /\ pc' = [pc EXCEPT ![p] = "inject"]
                 /\ UNCHANGED visit
            ELSE LeaveBarrier(p) /\ UNCHANGED seen
  /\ UNCHANGED <<shared, injector, holder, key, queue, version, injected, reconfs>>

(* The lock is taken, set_required_keys changes the keys, evaluate_locked  *)
(* takes a snapshot and assembles.  If a key is missing the lock is given  *)
(* back, else it is kept for the injector.                                 *)
Evaluate(p) ==
  /\ pc[p] = "lock"
  /\ holder[cur[p]] = None
  /\ Relevant(p, KeysAt(p))
  /\ LET b == cur[p]
         ks == KeysAt(p)
     IN  /\ required' = [required EXCEPT ![b] = ks]
         /\ complete' = [complete EXCEPT ![b] = AllPresent(ks)]
         /\ assembled' = [assembled EXCEPT ![b] = Prefix(ks)]
         /\ IF AllPresent(ks)
            THEN /\ holder' = [holder EXCEPT ![b] = p]
                 /\ seen' = [seen EXCEPT ![b] = version]
                 /\ pc' = [pc EXCEPT ![p] = "inject"]
                 /\ UNCHANGED visit
            ELSE LeaveBarrier(p) /\ UNCHANGED <<holder, seen>>
  /\ UNCHANGED <<shared, injector, key, queue, version, injected, reconfs>>

(* The injector is called with the assembled values, under the lock.       *)
BeginInject(p) ==
  /\ pc[p] = "inject"
  /\ injected' = [injected EXCEPT ![cur[p]] = assembled[cur[p]]]
  /\ calling' = [calling EXCEPT ![p] = injector[cur[p]]]
  /\ pc' = [pc EXCEPT ![p] = "injecting"]
  /\ UNCHANGED <<shared, barrier, key, queue, cur, newkeys, version, seen, reconfs>>

(* A buggy step for mutation: the lock is not given back.                  *)
EndInjectLocked(p) ==
  /\ pc[p] = "injecting"
  /\ LeaveBarrier(p)
  /\ UNCHANGED <<shared, barrier, key, queue, history>>

(* The injector returns and the lock is given back.                        *)
EndInject(p) ==
  /\ pc[p] = "injecting"
  /\ holder' = [holder EXCEPT ![cur[p]] = None]
  /\ LeaveBarrier(p)
  /\ UNCHANGED <<shared, required, complete, assembled, injector, key, queue, history>>

Step(p) ==
  \/ Fire(p) \/ Notify(p) \/ Return(p)
  \/ Ignore(p) \/ Evaluate(p) \/ BeginInject(p) \/ EndInject(p)

Calls(p) ==
  \/ \E k \in Keys, v \in Values : StoreInsert(p, k, v)
  \/ \E k \in Keys : StoreRemove(p, k)
  \/ \E b \in Barriers, ks \in KeyLists : Construct(p, b, ks) \/ SetKeys(p, b, ks)

Next ==
  \/ \E p \in Threads : Calls(p) \/ Step(p)
  \/ \E b \in Barriers : Destroy(b) \/ SetInjector(b)

Spec == Init /\ [][Next]_vars

(* A thread inside a call is scheduled.  A thread that waits for a         *)
(* barrier's lock gets it sometime if the lock is given back again and     *)
(* again: the spinlock is not fair, but the other calls are few.           *)
FairSpec == Spec /\ \A p \in Threads : WF_vars(Step(p))
-----------------------------------------------------------------------------
(* A barrier's lock is held by the thread whose injector call is under     *)
(* way, and by no other.                                                   *)
LockHeld ==
  \A b \in Barriers, p \in Threads :
    holder[b] = p <=> cur[p] = b /\ pc[p] \in {"inject", "injecting"}

(* The types, and who holds the locks.                                     *)
TypeOK ==
  /\ data \in [Keys -> Values \cup {None}]
  /\ subs \in Seq(Barriers)
  /\ life \in [Barriers -> {"unborn", "live", "dead"}]
  /\ required \in [Barriers -> KeyLists]
  /\ complete \in [Barriers -> BOOLEAN]
  /\ assembled \in [Barriers -> Seq(Values)]
  /\ injector \in [Barriers -> 0 .. reconfs]
  /\ holder \in [Barriers -> Threads \cup {None}]
  /\ pc \in [Threads -> {"idle", "fire", "notify", "lock", "inject", "injecting"}]
  /\ key \in [Threads -> Keys \cup {None}]
  /\ queue \in [Threads -> Seq(Barriers)]
  /\ cur \in [Threads -> Barriers \cup {None}]
  /\ newkeys \in [Threads -> KeyLists \cup {None}]
  /\ calling \in [Threads -> 0 .. MaxSetKeys \cup {None}]
  /\ version \in 0 .. MaxChanges /\ reconfs \in 0 .. MaxSetKeys
  /\ injected \in [Barriers -> Seq(Values) \cup {None}]
  /\ seen \in [Barriers -> 0 .. MaxChanges]
  /\ LockHeld

(* Somebody still has to look at b: a thread in a call on it, or one that  *)
(* changed one of its keys and has not called it yet.                      *)
Pending(b, p) ==
  \/ cur[p] = b
  \/ /\ key[p] \in ToSet(required[b])
     /\ pc[p] = "fire" \/ b \in ToSet(queue[p])

(* What b says of itself, and what its injector was last given, agree with *)
(* the store.                                                              *)
InSync(b) ==
  /\ complete[b] = AllPresent(required[b])
  /\ complete[b] => injected[b] = View(required[b])

(* No change is lost on a live barrier: it is in sync, or somebody still   *)
(* has to look at it - whatever the notifications of several changes, the  *)
(* constructor and set_required_keys do between each other.                *)
NoLostChange ==
  \A b \in Barriers :
    life[b] = "live" => InSync(b) \/ \E p \in Threads : Pending(b, p)

(* The span the injector was given does not change while it runs, and no   *)
(* second call of it begins.                                               *)
SpanStable ==
  [][\A p \in Threads :
       pc[p] \in {"inject", "injecting"} =>
         /\ assembled'[cur[p]] = assembled[cur[p]]
         /\ pc'[p] \in {"inject", "injecting"} => holder'[cur[p]] = p]_vars

(* "Replace the injector (e.g., after NJoin is moved/rebuilt)" (line 84):  *)
(* when set_injector has returned, no thread is in a call of an injector   *)
(* the barrier had before, nor will be, so the join it held may go - also  *)
(* when notifications were under way in it.                                *)
RetiredInjectorIdle ==
  \A p \in Threads : calling[p] # None => calling[p] = injector[cur[p]]

(* When the calls end, every live barrier gets in sync and stays so: a     *)
(* complete one has injected the last values of its keys.                  *)
EventuallyInSync ==
  <>[](\A b \in Barriers : life[b] = "live" => InSync(b))

(* Every call returns. *)
EveryCallReturns == \A p \in Threads : pc[p] # "idle" ~> pc[p] = "idle"

(* README.md:685: exactly once under concurrent completion.  A change of   *)
(* the store does not make the injector run for a state of the store it    *)
(* was already run for.                                                    *)
FiresOncePerState ==
  [][\A b \in Barriers, p \in Threads :
       holder[b] = None /\ holder'[b] = p /\ key[p] # None =>
         seen[b] < version]_vars

=============================================================================
