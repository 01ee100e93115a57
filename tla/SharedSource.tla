----------------------------- MODULE SharedSource -----------------------------
(***************************************************************************)
(* shared_source.hpp on a FlatMap, with its list of subscribers: a keyed   *)
(* store that tells every subscriber of every change.                      *)
(*                                                                         *)
(* insert and remove work on a clone of the map under the store's lock,    *)
(* publish it, give the lock back, and only then fire the list, which the  *)
(* steps of SubscriberList do.  A subscriber reads the store when it is    *)
(* called, and once by itself after it has subscribed, as BarrierView      *)
(* does.  Nobody changes the map another thread reads: the current map is  *)
(* replaced, under the lock snapshot takes.                                *)
(***************************************************************************)
EXTENDS SubscriberList, FlatMap

CONSTANTS Keys, Values

ASSUME SourceAssumption ==
  /\ Keys \subseteq Nat
  /\ None \notin Keys \cup Values

VARIABLES
  data,     \* the current map
  key,      \* the key a thread in insert or remove has changed, or None
  looking,  \* the subscribers whose own first look is still to come
  sees      \* what each subscriber found when it looked last

(* History: the value of each key, as the calls changed it.                *)
VARIABLE content

source == <<data, key, looking, sees, content>>

Nowhere == [k \in Keys |-> None]

SourceInit ==
  /\ Init
  /\ data = <<>>
  /\ key = [p \in Threads |-> None]
  /\ looking = {}
  /\ sees = [s \in Subscribers |-> Nowhere]
  /\ content = Nowhere

-----------------------------------------------------------------------------
(* get: a snapshot is searched. *)
get(k) == IF contains(data, k) THEN data[find(data, k)].val ELSE None

(* What a subscriber finds when it gets every key from one snapshot.       *)
Look == [k \in Keys |-> get(k)]

(* Threads that have changed the map and not loaded the list yet.          *)
Unloaded == {p \in Threads : key[p] # None /\ pc[p] = "idle"}

MayChange(p) ==
  /\ key[p] = None /\ pc[p] = "idle"
  /\ fires + Cardinality(Unloaded) < MaxFires

(* insert, under the lock: a clone of the map with the new value is        *)
(* published, unless the key has this value.                               *)
insert(p, k, v) ==
  /\ MayChange(p)
  /\ ~(contains(data, k) /\ data[find(data, k)].val = v)
  /\ data' = Put(data, k, v)
  /\ content' = [content EXCEPT ![k] = v]
  /\ key' = [key EXCEPT ![p] = k]
  /\ UNCHANGED <<vars, looking, sees>>

(* A buggy step for mutation: nobody is told of a removal.                 *)
RemoveSilently(p, k) ==
  /\ MayChange(p)
  /\ contains(data, k)
  /\ data' = erase(data, k)
  /\ content' = [content EXCEPT ![k] = None]
  /\ UNCHANGED <<vars, key, looking, sees>>

(* remove, under the lock; nothing happens when the key is not there.      *)
remove(p, k) ==
  /\ MayChange(p)
  /\ contains(data, k)
  /\ data' = erase(data, k)
  /\ content' = [content EXCEPT ![k] = None]
  /\ key' = [key EXCEPT ![p] = k]
  /\ UNCHANGED <<vars, looking, sees>>

(* subscribe, and the first look that follows it.                          *)
SourceSubscribe(s) ==
  /\ Subscribe(s)
  /\ looking' = looking \cup {s}
  /\ UNCHANGED <<data, key, sees, content>>

FirstLook(s) ==
  /\ s \in looking
  /\ looking' = looking \ {s}
  /\ sees' = [sees EXCEPT ![s] = Look]
  /\ UNCHANGED <<vars, data, key, content>>

(* subscribers_.fire(key, *this), after the lock is given back.            *)
FireChange(p) ==
  /\ key[p] # None
  /\ Load(p)
  /\ UNCHANGED source

(* A callback that is alive looks at the store.                            *)
Tell(p) ==
  /\ Call(p)
  /\ LET s == List(snap[p])[next[p] + 1]
     IN  sees' = IF s \in dead THEN sees ELSE [sees EXCEPT ![s] = Look]
  /\ UNCHANGED <<data, key, looking, content>>

(* fire, and with it insert or remove, returns.                            *)
ChangeReturns(p) ==
  /\ Return(p) \/ Skip(p) \/ Compact(p)
  /\ key' = [key EXCEPT ![p] = None]
  /\ UNCHANGED <<data, looking, sees, content>>

Proceed(p) == FireChange(p) \/ Tell(p) \/ ChangeReturns(p)

Changes(p) ==
  \E k \in Keys : remove(p, k) \/ \E v \in Values : insert(p, k, v)

(* A subscriber dies, which it cannot do before its first look: that is    *)
(* the end of its constructor.                                             *)
SourceDie(s) ==
  /\ s \notin looking
  /\ Die(s)
  /\ UNCHANGED source

SubscriberStep(s) == SourceSubscribe(s) \/ FirstLook(s) \/ SourceDie(s)

SourceNext ==
  \/ \E p \in Threads : Changes(p) \/ Proceed(p)
  \/ \E s \in Subscribers : SubscriberStep(s)

SourceSpec == SourceInit /\ [][SourceNext]_<<vars, source>>

(* A thread inside insert or remove is scheduled.                          *)
SourceFairSpec ==
  SourceSpec /\ \A p \in Threads : WF_<<vars, source>>(Proceed(p))

-----------------------------------------------------------------------------
(* The vector stays sorted, so that every later search finds what is       *)
(* there, and get answers what the changes so far have made of each key,   *)
(* after any sequence of insertions, overwrites and removals.              *)
StoreIsMap ==
  /\ Sorted(data)
  /\ \A k \in Keys : get(k) = content[k]

(* A thread is going to call s, or s to look by itself.                    *)
WillLook(s, k) ==
  \/ s \in looking
  \/ \E p \in Threads :
       /\ key[p] = k
       /\ \/ pc[p] = "idle"
          \/ \E i \in DOMAIN List(snap[p]) : i > next[p] /\ List(snap[p])[i] = s

(* A live subscriber has seen the present value of a key or will look      *)
(* again because of that key - through the real list, with its loads,      *)
(* compactions and addresses that are used again, whatever the order of    *)
(* changes, fires, subscriptions and first looks.                          *)
NobodyMissesAChange ==
  \A s \in subscribed \ dead, k \in Keys :
    sees[s][k] = content[k] \/ WillLook(s, k)

=============================================================================
