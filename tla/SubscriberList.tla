---------------------------- MODULE SubscriberList ----------------------------
(***************************************************************************)
(* core/subscriber_list.hpp: a copy-on-write list of callbacks.  fire      *)
(* loads the list once and calls what it loaded; a callback that answers   *)
(* false is dead, and the fire that heard it drops the dead from the list, *)
(* but only if the list is still the very object it loaded.                *)
(*                                                                         *)
(* A list is known by its address.  An address is taken for a new list     *)
(* only while nothing refers to a list at it; a fire refers to the list it *)
(* loaded until it returns.                                                *)
(***************************************************************************)
EXTENDS Naturals, SequencesExt

CONSTANTS
  Threads,
  Subscribers,  \* callbacks, each subscribed at most once
  Addresses,    \* where lists can be allocated
  MaxFires,     \* bound: fires begun
  None

ASSUME SubscribersAssumption ==
  /\ None \notin Addresses \cup Subscribers
  /\ MaxFires \in Nat

VARIABLES
  subs,     \* the atomic pointer: the address of the list, None when null
  heap,     \* the list at each address in use
  dead,     \* the callbacks that answer false from now on
  pc,       \* where each thread is in fire
  snap,     \* the list it loaded
  next,     \* how many callbacks it has called
  alive     \* the callbacks that answered true

(* History: the callbacks whose subscribe returned; those that answered    *)
(* false to some fire; those dropped from the list; the fires begun; what  *)
(* was subscribed when each fire began.                                    *)
VARIABLES subscribed, heard, dropped, fires, before

locals == <<snap, next, alive>>
history == <<subscribed, heard, dropped, fires, before>>
vars == <<subs, heap, dead, pc, locals, history>>

Init ==
  /\ subs = None
  /\ heap = [a \in Addresses |-> <<>>]
  /\ dead = {}
  /\ pc = [p \in Threads |-> "idle"]
  /\ snap = [p \in Threads |-> None]
  /\ next = [p \in Threads |-> 0]
  /\ alive = [p \in Threads |-> {}]
  /\ subscribed = {}
  /\ heard = {}
  /\ dropped = {}
  /\ fires = 0
  /\ before = [p \in Threads |-> {}]

-----------------------------------------------------------------------------
List(a) == IF a = None THEN <<>> ELSE heap[a]

(* A buggy allocation for mutation: a fire does not keep the list it       *)
(* loaded alive while its callbacks run.                                   *)
FreeUnlessCurrent(a) == a # subs

(* Nothing refers to the list at a. *)
Free(a) == a # subs /\ \A p \in Threads : snap[p] # a

(* A new list is stored; the old one is given up with its last reference,  *)
(* which Free sees.                                                        *)
Store(a, list) ==
  /\ Free(a)
  /\ heap' = [heap EXCEPT ![a] = list]
  /\ subs' = a

(* A buggy step for mutation: the old list is not copied.                  *)
SubscribeAlone(s) ==
  /\ s \notin subscribed
  /\ \E a \in Addresses : Store(a, <<s>>)
  /\ subscribed' = subscribed \cup {s}
  /\ UNCHANGED <<dead, pc, locals, heard, dropped, fires, before>>

(* subscribe, under the write lock.                                        *)
Subscribe(s) ==
  /\ s \notin subscribed
  /\ \E a \in Addresses : Store(a, Append(List(subs), s))
  /\ subscribed' = subscribed \cup {s}
  /\ UNCHANGED <<dead, pc, locals, heard, dropped, fires, before>>

(* A callback dies: the object behind its weak_ptr is gone.                *)
Die(s) ==
  /\ s \in subscribed \ dead
  /\ dead' = dead \cup {s}
  /\ UNCHANGED <<subs, heap, pc, locals, history>>

(* fire: the load.                                                         *)
Load(p) ==
  /\ pc[p] = "idle"
  /\ fires < MaxFires
  /\ fires' = fires + 1
  /\ snap' = [snap EXCEPT ![p] = subs]
  /\ pc' = [pc EXCEPT ![p] = "call"]
  /\ before' = [before EXCEPT ![p] = subscribed \ dead]
  /\ UNCHANGED <<subs, heap, dead, next, alive, subscribed, heard, dropped>>

(* fire: the next callback of the loaded list is called.                   *)
Call(p) ==
  /\ pc[p] = "call"
  /\ next[p] < Len(List(snap[p]))
  /\ LET s == List(snap[p])[next[p] + 1]
     IN  IF s \in dead
         THEN heard' = heard \cup {s} /\ UNCHANGED alive
         ELSE alive' = [alive EXCEPT ![p] = @ \cup {s}] /\ UNCHANGED heard
  /\ next' = [next EXCEPT ![p] = @ + 1]
  /\ UNCHANGED <<subs, heap, dead, pc, snap, subscribed, dropped, fires, before>>

AllCalled(p) == pc[p] = "call" /\ next[p] = Len(List(snap[p]))

HasDead(p) == \E i \in DOMAIN List(snap[p]) : List(snap[p])[i] \notin alive[p]

(* A buggy end for mutation: the index survives to the next fire.          *)
LeaveIndex(p) ==
  /\ pc' = [pc EXCEPT ![p] = "idle"]
  /\ snap' = [snap EXCEPT ![p] = None]
  /\ alive' = [alive EXCEPT ![p] = {}]
  /\ before' = [before EXCEPT ![p] = {}]
  /\ UNCHANGED next

(* The fire is over and lets go of the list.                               *)
Leave(p) ==
  /\ pc' = [pc EXCEPT ![p] = "idle"]
  /\ snap' = [snap EXCEPT ![p] = None]
  /\ next' = [next EXCEPT ![p] = 0]
  /\ alive' = [alive EXCEPT ![p] = {}]
  /\ before' = [before EXCEPT ![p] = {}]

(* No dead callback was met: the fast path, which takes no lock.           *)
Return(p) ==
  /\ AllCalled(p)
  /\ ~HasDead(p)
  /\ Leave(p)
  /\ UNCHANGED <<subs, heap, dead, subscribed, heard, dropped, fires>>

(* A buggy test for mutation: the list is compacted whatever it became.    *)
NeverModified(p) == FALSE

(* Under the write lock: is the list no longer the object that was loaded? *)
Modified(p) == subs # snap[p]

(* A buggy step for mutation: the fire waits for its list to come back.    *)
WaitForList(p) ==
  /\ AllCalled(p)
  /\ HasDead(p)
  /\ Modified(p)
  /\ UNCHANGED vars

(* Someone else changed the list: compaction is left to a later fire.      *)
Skip(p) ==
  /\ AllCalled(p)
  /\ HasDead(p)
  /\ Modified(p)
  /\ Leave(p)
  /\ UNCHANGED <<subs, heap, dead, subscribed, heard, dropped, fires>>

(* The loop that copies the callbacks that are alive, in their order.      *)
LivePart(list, live) ==
  LET copy[n \in 0 .. Len(list)] ==
        IF n = 0 THEN <<>>
        ELSE IF list[n] \in live THEN Append(copy[n - 1], list[n]) ELSE copy[n - 1]
  IN  copy[Len(list)]

(* The list is replaced by its live part, by null when nothing is left.    *)
Compact(p) ==
  LET old == List(snap[p])
      kept == LivePart(old, alive[p])
  IN  /\ AllCalled(p)
      /\ HasDead(p)
      /\ ~Modified(p)
      /\ IF kept = <<>> THEN subs' = None /\ UNCHANGED heap
                        ELSE \E a \in Addresses : Store(a, kept)
      /\ dropped' = dropped \cup (ToSet(old) \ alive[p])
      /\ Leave(p)
      /\ UNCHANGED <<dead, subscribed, heard, fires>>

Step(p) == Call(p) \/ Return(p) \/ Skip(p) \/ Compact(p)

Next ==
  \/ \E p \in Threads : Load(p) \/ Step(p)
  \/ \E s \in Subscribers : Subscribe(s) \/ Die(s)

Spec == Init /\ [][Next]_vars

(* A thread inside fire is scheduled. *)
FairSpec == Spec /\ \A p \in Threads : WF_vars(Step(p))

-----------------------------------------------------------------------------
(* Types; a thread outside fire refers to no list.                         *)
TypeOK ==
  /\ subs \in Addresses \cup {None}
  /\ heap \in [Addresses -> Seq(Subscribers)]
  /\ dead \subseteq subscribed /\ subscribed \subseteq Subscribers
  /\ pc \in [Threads -> {"idle", "call"}]
  /\ snap \in [Threads -> Addresses \cup {None}]
  /\ next \in [Threads -> Nat]
  /\ alive \in [Threads -> SUBSET Subscribers]
  /\ before \in [Threads -> SUBSET Subscribers]
  /\ heard \subseteq dead /\ dropped \subseteq Subscribers
  /\ fires \in 0 .. MaxFires
  /\ \A p \in Threads : pc[p] = "idle" => snap[p] = None /\ next[p] = 0

(* Nobody is lost: a subscribed callback is in the list unless it answered *)
(* false to a fire - neither two subscribes, nor a compaction that races   *)
(* with a subscribe or with another compaction, drop a live one.           *)
NobodyLost ==
  subscribed \ heard \subseteq ToSet(List(subs))

(* A callback is in the list once, and one that was dropped stays out.     *)
DroppedStaysOut ==
  /\ IsInjective(List(subs))
  /\ dropped \cap ToSet(List(subs)) = {}

(* A fire calls every callback that was subscribed before it began, unless *)
(* it died.                                                                *)
EveryoneCalled ==
  \A p \in Threads : AllCalled(p) => before[p] \ dead \subseteq alive[p]

(* Whom a fire has still to call: the rest of the list it loaded.          *)
Ahead(p) == {List(snap[p])[i] : i \in next[p] + 1 .. Len(List(snap[p]))}

Notifier ==
  INSTANCE Notification WITH
    members <- subscribed,
    firing <- {p \in Threads : pc[p] = "call"},
    owed <- [p \in Threads |-> Ahead(p)]

(* The list keeps what Notification promises, whatever other fires and     *)
(* subscriptions do to the current list while a fire walks along its own.  *)
Notifies == Notifier!Spec

(* Every fire returns.                                                     *)
EveryFireReturns == \A p \in Threads : pc[p] = "call" ~> pc[p] = "idle"

=============================================================================
