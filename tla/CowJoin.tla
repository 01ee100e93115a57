------------------------------- MODULE CowJoin -------------------------------
(***************************************************************************)
(* policy/retain_all_cow.hpp and retain_by_key_cow.hpp inside a join: a    *)
(* copy-on-write source keeps its entries in a map it never changes.  An   *)
(* insertion or a removal clones the map, changes the clone and makes it   *)
(* the current one; a snapshot is one more reference to the current map,   *)
(* taken under the source's lock and read outside of it, while the add     *)
(* that holds it emits.                                                    *)
(*                                                                         *)
(* A map is known by its address.  An address is taken for a new map only  *)
(* while nothing refers to a map at it.  NJoin says what a source holds    *)
(* and what a snapshot has, as sets; this module adds where they are.      *)
(***************************************************************************)
EXTENDS NJoin

CONSTANTS Addresses,  \* where maps can be allocated
          Null

ASSUME AddressAssumption == Null \notin Addresses

VARIABLES heap,  \* the map at each address
          data,  \* data_: the current map of each copy-on-write source
          held   \* the maps the snapshots of each thread refer to

cowvars == <<heap, data, held>>

Cow(s) == Policy[s] \in CowPolicies

NoMaps == [s \in Sources |-> Null]

CowInit ==
  /\ Init
  /\ heap = [a \in Addresses |-> {}]
  /\ data \in [Sources -> Addresses \cup {Null}]
  /\ \A s \in Sources : data[s] = Null <=> ~Cow(s)
  /\ \A r, s \in Sources : Cow(s) /\ data[r] = data[s] => r = s
  /\ held = [p \in Threads |-> NoMaps]

-----------------------------------------------------------------------------
(* The current map of a copy-on-write source. *)
Map(s) == heap[data[s]]

(* A buggy allocation for mutation: snapshots do not keep their map alive. *)
FreeUnlessCurrent(a) == \A s \in Sources : data[s] # a

(* Nothing refers to the map at a.                                         *)
Free(a) ==
  /\ \A s \in Sources : data[s] # a
  /\ \A p \in Threads, s \in Sources : held[p][s] # a

(* A buggy update for mutation: the current map is changed in place.       *)
ChangeInPlace(s, map) ==
  /\ Cow(s)
  /\ heap' = [heap EXCEPT ![data[s]] = map]
  /\ UNCHANGED <<data, held>>

(* The changed clone, or a fresh empty map, becomes the current map.  The  *)
(* old one is given up with its last reference, which Free sees.           *)
Swap(s, map) ==
  /\ Cow(s)
  /\ \E a \in Addresses :
       /\ Free(a)
       /\ heap' = [heap EXCEPT ![a] = map]
       /\ data' = [data EXCEPT ![s] = a]
  /\ UNCHANGED held

(* The other policies have no map of this kind.                            *)
InPlace(s) == ~Cow(s) /\ UNCHANGED cowvars

(* A buggy clone for mutation: emplace, which keeps what is under the key. *)
EmplaceOnly(s, e) ==
  IF \E f \in Map(s) : SameKey(f.val, e.val) THEN Map(s) ELSE Map(s) \cup {e}

(* The clone with e in it, and the clone without what remove erases.       *)
WithEntry(s, e) == Inserted(Policy[s], Map(s), e)
WithoutValue(s, v) == Map(s) \ Erased(Policy[s], Map(s), v)

(* The steps of NJoin, with what happens to the maps.                      *)
CowInsert(p) ==
  /\ Insert(p)
  /\ Swap(src[p], WithEntry(src[p], Own(p))) \/ InPlace(src[p])

(* A duplicate is found in the current map; no clone is made.              *)
CowReject(p) == Reject(p) /\ UNCHANGED cowvars

(* CowSnapshot: one more reference to the current map.                     *)
CowSnapshotOne(p, s) ==
  /\ SnapshotOne(p, s)
  /\ held' = [held EXCEPT ![p][s] = data[s]]
  /\ UNCHANGED <<heap, data>>

CowEmit(p, t) == Emit(p, t) /\ UNCHANGED cowvars

(* The snapshots are locals of add and let go of their maps.               *)
CowReturn(p) ==
  /\ Return(p)
  /\ held' = [held EXCEPT ![p] = NoMaps]
  /\ UNCHANGED <<heap, data>>

(* remove makes no clone on a miss, which is no step here.                 *)
CowRemove(s, v) ==
  /\ Remove(s, v)
  /\ Swap(s, WithoutValue(s, v)) \/ InPlace(s)

(* clear, of a map that is not empty: another one changes its address only. *)
CowClear(s) == Clear(s) /\ (Swap(s, {}) \/ InPlace(s))

CowNext ==
  \/ \E p \in Threads, s \in Sources, v \in Values :
       TakeSeq(p, s, v) /\ UNCHANGED cowvars
  \/ \E p \in Threads :
       \/ CowInsert(p) \/ CowReject(p) \/ CowReturn(p)
       \/ \E s \in Sources : CowSnapshotOne(p, s)
       \/ \E t \in todo[p] : CowEmit(p, t)
  \/ \E s \in Sources, v \in Values :
       CowRemove(s, v) \/ (Die(s, v) /\ UNCHANGED cowvars)
  \/ \E s \in Sources : CowClear(s)

CowSpec == CowInit /\ [][CowNext]_<<vars, cowvars>>

-----------------------------------------------------------------------------
(* What NJoin takes for granted of the copy-on-write sources: the chain of *)
(* clones keeps the current map equal to the set of entries an update in   *)
(* place would have left, for insertions, upserts, removals and clears.    *)
MapIsStore == \A s \in Sources : Cow(s) => Map(s) = store[s]

(* "The snapshot is decoupled from future mutations"                       *)
(* (policy/retain_all_cow.hpp:97): until its add returns, the map a        *)
(* snapshot refers to has the entries it had when the snapshot was taken,  *)
(* whatever the source inserts, replaces, removes or clears meanwhile, and *)
(* no reference the emission reads dangles.                                *)
HeldIntact ==
  \A p \in Threads, s \in Sources :
    pc[p] \in {"snapshot", "emit"} /\ Cow(s) /\ s \notin left[p] =>
      /\ held[p][s] # Null
      /\ heap[held[p][s]] = snap[p][s]
      /\ \A t \in todo[p] : t[s] \in heap[held[p][s]]

=============================================================================
