---------------------------- MODULE CowJoinProofs ----------------------------
(***************************************************************************)
(* Copy-on-write for any number of threads, sources, values and addresses: *)
(* the current maps are what NJoin says the sources hold, and a snapshot   *)
(* keeps the entries it was taken with until its add returns.              *)
(***************************************************************************)
EXTENDS CowJoin, NJoinProofs

(* Types of the variables CowJoin adds. *)
CowTypeOK ==
  /\ heap \in [Addresses -> SUBSET Entry]
  /\ data \in [Sources -> Addresses \cup {Null}]
  /\ held \in [Threads -> [Sources -> Addresses \cup {Null}]]

(* Every copy-on-write source has a current map, of its own.               *)
OwnMaps ==
  /\ \A s \in Sources : data[s] = Null <=> ~Cow(s)
  /\ \A r, s \in Sources : Cow(s) /\ data[r] = data[s] => r = s

(* A referenced map has the entries of the snapshot that refers to it.     *)
Pinned ==
  \A p \in Threads, s \in Sources :
    held[p][s] # Null => heap[held[p][s]] = snap[p][s]

(* Which references there are: none before the snapshots, one for every    *)
(* copy-on-write source whose snapshot has been taken.                     *)
Referring ==
  \A p \in Threads, s \in Sources :
    /\ pc[p] \in {"idle", "insert"} => held[p][s] = Null /\ s \in left[p]
    /\ pc[p] \in {"snapshot", "emit"} /\ Cow(s) /\ s \notin left[p] =>
         held[p][s] # Null

(* What is still to be emitted was read from the snapshots.                *)
TodoRead == \A p \in Threads : \A t \in todo[p] : \A s \in Sources :
              t[s] \in snap[p][s]

(* Only mortal values die, and a copy-on-write source has none.            *)
OnlyMortalDie == \A s \in Sources : dead[s] \subseteq Mortal[s]

CowInv ==
  /\ TypeOK /\ CowTypeOK /\ OwnMaps /\ MapIsStore
  /\ Pinned /\ Referring /\ TodoRead /\ OnlyMortalDie

-----------------------------------------------------------------------------
LEMMA InitCowInv == CowInit => CowInv
<1> SUFFICES ASSUME CowInit
             PROVE  CowInv
  OBVIOUS
<1>1. TypeOK
  BY InitType DEF CowInit
<1>2. NoMaps \in [Sources -> Addresses \cup {Null}] /\ \A s \in Sources : NoMaps[s] = Null
  BY DEF NoMaps
<1>3. \A s \in Sources : NoEntries[s] = {}
  BY DEF NoEntries
<1>4. CowTypeOK /\ OwnMaps
  BY <1>2 DEF CowInit, CowTypeOK, OwnMaps
<1>5. MapIsStore
  BY <1>3, <1>4 DEF CowInit, Init, MapIsStore, Map, CowTypeOK, OwnMaps
<1>6. Pinned /\ Referring /\ TodoRead /\ OnlyMortalDie
  BY <1>2, <1>3 DEF CowInit, Init, Pinned, Referring, TodoRead, OnlyMortalDie
<1> QED
  BY <1>1, <1>4, <1>5, <1>6 DEF CowInv

(* A swap changes no map that is referred to, and gives source s the map   *)
(* it is called with.                                                      *)
LEMMA SwapLeavesTheRest ==
  ASSUME CowInv, NEW s \in Sources, NEW map \in SUBSET Entry, Swap(s, map)
  PROVE  /\ CowTypeOK' /\ OwnMaps'
         /\ Map(s)' = map
         /\ \A r \in Sources \ {s} : Cow(r) => Map(r)' = Map(r)
         /\ held' = held
         /\ \A p \in Threads, r \in Sources : held[p][r] # Null =>
              heap'[held[p][r]] = heap[held[p][r]]
<1> USE DEF CowInv
<1>1. PICK a \in Addresses : /\ Free(a)
                             /\ heap' = [heap EXCEPT ![a] = map]
                             /\ data' = [data EXCEPT ![s] = a]
  BY DEF Swap
<1>2. Cow(s) /\ held' = held /\ a # Null
  BY AddressAssumption DEF Swap
<1>3. CowTypeOK'
  BY <1>1, <1>2 DEF CowTypeOK
<1>4. \A r \in Sources : data[r] # a
  BY <1>1 DEF Free
<1>5. \A r \in Sources : data'[r] = IF r = s THEN a ELSE data[r]
  BY <1>1 DEF CowTypeOK
<1>6. OwnMaps'
  BY <1>2, <1>4, <1>5 DEF OwnMaps, Cow
<1>7. Map(s)' = map
  BY <1>1, <1>5 DEF Map, CowTypeOK
<1>8. ASSUME NEW r \in Sources \ {s}, Cow(r)
      PROVE  Map(r)' = Map(r)
  <2>1. data[r] \in Addresses /\ data[r] # a
    BY <1>4, <1>8 DEF CowTypeOK, OwnMaps
  <2> QED
    BY <1>1, <1>5, <2>1 DEF Map, CowTypeOK
<1>9. ASSUME NEW p \in Threads, NEW r \in Sources, held[p][r] # Null
      PROVE  heap'[held[p][r]] = heap[held[p][r]]
  <2>1. held[p][r] \in Addresses /\ held[p][r] # a
    BY <1>1, <1>9 DEF CowTypeOK, Free
  <2> QED
    BY <1>1, <2>1 DEF CowTypeOK
<1> QED
  BY <1>2, <1>3, <1>6, <1>7, <1>8, <1>9

(* A change of what source s holds, with its map swapped or without one,   *)
(* by a step that leaves every snapshot alone.                             *)
LEMMA ChangeKeepsMaps ==
  ASSUME CowInv, NEW s \in Sources, NEW map \in SUBSET Entry,
         Swap(s, map) \/ InPlace(s),
         store' = [store EXCEPT ![s] = map] \/ ~Cow(s),
         \A r \in Sources \ {s} : store'[r] = store[r],
         snap' = snap
  PROVE  CowTypeOK' /\ OwnMaps' /\ MapIsStore' /\ Pinned' /\ held' = held
<1> USE DEF CowInv
<1>1. CASE InPlace(s)
  <2>1. ~Cow(s) /\ UNCHANGED cowvars
    BY <1>1 DEF InPlace
  <2> QED
    BY <2>1 DEF cowvars, CowTypeOK, OwnMaps, MapIsStore, Map, Pinned, Cow
<1>2. CASE Swap(s, map)
  <2>1. Cow(s) /\ store' = [store EXCEPT ![s] = map] /\ store'[s] = map
    BY <1>2 DEF Swap, TypeOK
  <2>2. /\ CowTypeOK' /\ OwnMaps'
        /\ Map(s)' = map
        /\ \A r \in Sources \ {s} : Cow(r) => Map(r)' = Map(r)
        /\ held' = held
        /\ \A p \in Threads, r \in Sources : held[p][r] # Null =>
             heap'[held[p][r]] = heap[held[p][r]]
    BY <1>2, SwapLeavesTheRest
  <2>3. MapIsStore'
    BY <2>1, <2>2 DEF MapIsStore, Cow
  <2>4. Pinned'
    BY <2>2 DEF Pinned
  <2> QED
    BY <2>2, <2>3, <2>4
<1> QED
  BY <1>1, <1>2

(* A step that leaves the maps and what they are compared with alone.      *)
LEMMA MapsUnchanged ==
  ASSUME CowInv, UNCHANGED cowvars, UNCHANGED store
  PROVE  CowTypeOK' /\ OwnMaps' /\ MapIsStore' /\ held' = held
BY DEF CowInv, cowvars, CowTypeOK, OwnMaps, MapIsStore, Map, Cow

LEMMA StepCowInv == CowInv /\ [CowNext]_<<vars, cowvars>> => CowInv'
<1> SUFFICES ASSUME CowInv, [CowNext]_<<vars, cowvars>>
             PROVE  CowInv'
  OBVIOUS
<1> USE DEF CowInv
<1>t. TypeOK'
  <2>1. [Next]_vars
    BY DEF CowNext, CowInsert, CowReject, CowReturn, CowSnapshotOne, CowEmit,
           CowRemove, CowClear, Next, Step
  <2> QED
    BY <2>1, TypeStep
<1>d. OnlyMortalDie'
  <2>1. UNCHANGED dead \/ \E s \in Sources, v \in Values : Die(s, v)
    BY DEF CowNext, CowInsert, CowReject, CowReturn, CowSnapshotOne, CowEmit,
           CowRemove, CowClear, TakeSeq, Insert, Reject, Return, SnapshotOne,
           Emit, Remove, Clear, vars
  <2>2. CASE UNCHANGED dead
    BY <2>2 DEF OnlyMortalDie
  <2>3. ASSUME NEW s \in Sources, NEW v \in Values, Die(s, v)
        PROVE  OnlyMortalDie'
    <3>1. v \in Mortal[s] /\ dead' = [dead EXCEPT ![s] = @ \cup {v}]
      BY <2>3 DEF Die
    <3>2. \A r \in Sources : dead'[r] = IF r = s THEN dead[r] \cup {v} ELSE dead[r]
      BY <3>1 DEF TypeOK
    <3> QED
      BY <3>1, <3>2 DEF OnlyMortalDie
  <2> QED
    BY <2>1, <2>2, <2>3
<1>1. ASSUME NEW p \in Threads, NEW s \in Sources, NEW v \in Values,
             TakeSeq(p, s, v), UNCHANGED cowvars
      PROVE  CowInv'
  <2>1. CowTypeOK' /\ OwnMaps' /\ MapIsStore' /\ held' = held
    BY <1>1, MapsUnchanged DEF TakeSeq
  <2>2. Pinned' /\ TodoRead'
    BY <1>1, <2>1 DEF TakeSeq, Pinned, TodoRead, cowvars
  <2>3. Referring'
    BY <1>1, <2>1 DEF TakeSeq, Referring, TypeOK, Cow
  <2> QED
    BY <1>t, <1>d, <2>1, <2>2, <2>3
<1>2. ASSUME NEW p \in Threads, CowInsert(p)
      PROVE  CowInv'
  <2> DEFINE s == src[p]
  <2>0. s \in Sources /\ Own(p) \in Entry
    BY OwnType DEF TypeOK
  <2>1. /\ pc[p] = "insert" /\ pc' = [pc EXCEPT ![p] = "snapshot"]
        /\ store' = [store EXCEPT ![s] = Inserted(Policy[s], store[s], Own(p))]
        /\ left' = left /\ snap' = snap /\ todo' = todo
    BY <1>2, <2>0 DEF CowInsert, Insert, locals, TypeOK
  <2>2. Cow(s) => WithEntry(s, Own(p)) = Inserted(Policy[s], store[s], Own(p))
    BY <2>0 DEF WithEntry, MapIsStore
  <2>3. Inserted(Policy[s], store[s], Own(p)) \in SUBSET Entry
    BY <2>0, InsertedType DEF TypeOK
  <2>4. Swap(s, Inserted(Policy[s], store[s], Own(p))) \/ InPlace(s)
    BY <1>2, <2>2 DEF CowInsert, Swap
  <2>5. CowTypeOK' /\ OwnMaps' /\ MapIsStore' /\ Pinned' /\ held' = held
    <3> HIDE DEF CowInv, s
    <3>1. \A r \in Sources \ {s} : store'[r] = store[r]
      BY <2>1 DEF TypeOK, CowInv
    <3> QED
      BY <2>0, <2>1, <2>3, <2>4, <3>1, ChangeKeepsMaps
  <2>6. TodoRead'
    BY <2>1 DEF TodoRead
  <2>7. Referring'
    BY <2>1, <2>5 DEF Referring, TypeOK, Cow
  <2> QED
    BY <1>t, <1>d, <2>5, <2>6, <2>7
<1>3. ASSUME NEW p \in Threads, Leave(p), UNCHANGED <<store, todo>>,
             todo[p] = {}, UNCHANGED <<heap, data>>,
             held' = [held EXCEPT ![p] = NoMaps]
      PROVE  CowInv'
  <2>1. \A s \in Sources : NoMaps[s] = Null /\ NoEntries[s] = {}
    BY DEF NoMaps, NoEntries
  <2>2. NoMaps \in [Sources -> Addresses \cup {Null}]
    BY DEF NoMaps
  <2>3. CowTypeOK' /\ OwnMaps' /\ MapIsStore'
    BY <1>3, <2>2 DEF CowTypeOK, OwnMaps, MapIsStore, Map, Cow
  <2>4. \A r \in Threads : held'[r] = IF r = p THEN NoMaps ELSE held[r]
    BY <1>3 DEF CowTypeOK
  <2>5. \A r \in Threads :
          /\ snap'[r] = IF r = p THEN NoEntries ELSE snap[r]
          /\ left'[r] = IF r = p THEN Sources ELSE left[r]
          /\ pc'[r] = IF r = p THEN "idle" ELSE pc[r]
    BY <1>3 DEF Leave, TypeOK
  <2>6. Pinned'
    BY <1>3, <2>1, <2>4, <2>5 DEF Pinned
  <2>7. Referring'
    BY <2>1, <2>4, <2>5 DEF Referring, Cow
  <2>8. TodoRead'
    BY <1>3, <2>5 DEF TodoRead
  <2> QED
    BY <1>t, <1>d, <2>3, <2>6, <2>7, <2>8
<1>4. ASSUME NEW p \in Threads, CowReject(p)
      PROVE  CowInv'
  <2>1. pc[p] = "insert" /\ todo[p] = {}
    BY <1>4 DEF CowReject, Reject, TypeOK
  <2>2. held[p] = NoMaps
    <3>1. \A s \in Sources : held[p][s] = Null
      BY <2>1 DEF Referring
    <3> QED
      BY <3>1 DEF NoMaps, CowTypeOK
  <2>3. held' = [held EXCEPT ![p] = NoMaps]
    BY <1>4, <2>2 DEF CowReject, cowvars, CowTypeOK
  <2> QED
    BY <1>3, <1>4, <2>1, <2>3 DEF CowReject, Reject, cowvars
<1>5. ASSUME NEW p \in Threads, CowReturn(p)
      PROVE  CowInv'
  BY <1>3, <1>5 DEF CowReturn, Return
<1>6. ASSUME NEW p \in Threads, NEW s \in Sources, CowSnapshotOne(p, s)
      PROVE  CowInv'
  <2>1. /\ pc[p] = "snapshot" /\ s \in left[p]
        /\ UNCHANGED <<heap, data, store>>
        /\ held' = [held EXCEPT ![p][s] = data[s]]
        /\ snap' = [snap EXCEPT ![p][s] = Visible(s)]
        /\ left' = [left EXCEPT ![p] = @ \ {s}]
    BY <1>6 DEF CowSnapshotOne, SnapshotOne
  <2>2. data[s] \in Addresses \cup {Null}
    BY DEF CowTypeOK
  <2>3. CowTypeOK' /\ OwnMaps' /\ MapIsStore'
    BY <2>1, <2>2 DEF CowTypeOK, OwnMaps, MapIsStore, Map, Cow
  <2>4. \A r \in Threads, i \in Sources :
          /\ held'[r][i] = IF r = p /\ i = s THEN data[s] ELSE held[r][i]
          /\ snap'[r][i] = IF r = p /\ i = s THEN Visible(s) ELSE snap[r][i]
          /\ i \in left'[r] <=> i \in left[r] /\ ~(r = p /\ i = s)
    BY <2>1 DEF CowTypeOK, TypeOK
  <2>5. data[s] # Null => heap[data[s]] = Visible(s)
    <3>1. SUFFICES ASSUME Cow(s)
                   PROVE  heap[data[s]] = Visible(s)
      BY DEF OwnMaps
    <3>2. Mortal[s] = {}
      BY <3>1, JoinAssumption DEF Cow
    <3>3. dead[s] = {}
      BY <3>2 DEF OnlyMortalDie
    <3> QED
      BY <3>1, <3>3 DEF MapIsStore, Map, Visible, TypeOK
  <2>6. Pinned'
    BY <2>1, <2>4, <2>5 DEF Pinned
  <2>7. /\ \A r \in Threads : pc'[r] = pc[r] \/ (r = p /\ pc'[r] = "emit")
        /\ \A r \in Threads : todo'[r] = todo[r]
             \/ (r = p /\ todo'[p] \subseteq Combinations(snap'[p]))
        /\ pc'[p] \in {"snapshot", "emit"}
    <3>1. CASE left[p] = {s}
      <4>1. /\ pc' = [pc EXCEPT ![p] = "emit"]
            /\ todo' = [todo EXCEPT ![p] = cross_product(snap'[p], src[p], seq[p])]
        BY <1>6, <3>1 DEF CowSnapshotOne, SnapshotOne
      <4>2. cross_product(snap'[p], src[p], seq[p]) \subseteq Combinations(snap'[p])
        BY DEF cross_product
      <4> HIDE DEF cross_product
      <4> QED
        BY <4>1, <4>2 DEF TypeOK
    <3>2. CASE left[p] # {s}
      BY <1>6, <2>1, <3>2 DEF CowSnapshotOne, SnapshotOne, TypeOK
    <3> QED
      BY <3>1, <3>2
  <2>8. Referring'
    BY <2>1, <2>4, <2>7 DEF Referring, OwnMaps, Cow
  <2>9. TodoRead'
    <3> SUFFICES ASSUME NEW r \in Threads, NEW t \in todo'[r], NEW i \in Sources
                 PROVE  t[i] \in snap'[r][i]
      BY DEF TodoRead
    <3>1. CASE r = p
      <4>1. todo[p] = {}
        BY <2>1 DEF TypeOK
      <4> QED
        BY <3>1, <4>1, <2>7 DEF Combinations
    <3>2. CASE r # p
      BY <3>2, <2>4, <2>7 DEF TodoRead
    <3> QED
      BY <3>1, <3>2
  <2> QED
    BY <1>t, <1>d, <2>3, <2>6, <2>8, <2>9
<1>7. ASSUME NEW p \in Threads, NEW t \in todo[p], CowEmit(p, t)
      PROVE  CowInv'
  <2>1. CowTypeOK' /\ OwnMaps' /\ MapIsStore' /\ held' = held
    BY <1>7, MapsUnchanged DEF CowEmit, Emit
  <2>2. Pinned' /\ Referring'
    BY <1>7, <2>1 DEF CowEmit, Emit, Pinned, Referring, cowvars, Cow
  <2>3. TodoRead'
    BY <1>7 DEF CowEmit, Emit, TodoRead, TypeOK
  <2> QED
    BY <1>t, <1>d, <2>1, <2>2, <2>3
<1>8. ASSUME NEW s \in Sources, NEW map \in SUBSET Entry,
             Swap(s, map) \/ InPlace(s),
             store' = [store EXCEPT ![s] = map] \/ ~Cow(s),
             \A r \in Sources \ {s} : store'[r] = store[r],
             UNCHANGED <<pc, locals>>
      PROVE  CowInv'
  <2>1. CowTypeOK' /\ OwnMaps' /\ MapIsStore' /\ Pinned' /\ held' = held
    <3> HIDE DEF CowInv
    <3> QED
      BY <1>8, ChangeKeepsMaps DEF locals
  <2>2. Referring' /\ TodoRead'
    BY <1>8, <2>1 DEF Referring, TodoRead, locals, Cow
  <2> QED
    BY <1>t, <1>d, <2>1, <2>2
<1>9. ASSUME NEW s \in Sources, NEW v \in Values, CowRemove(s, v)
      PROVE  CowInv'
  <2> DEFINE map == store[s] \ Erased(Policy[s], store[s], v)
  <2>1. store' = [store EXCEPT ![s] = map] /\ UNCHANGED <<pc, locals>>
    BY <1>9 DEF CowRemove, Remove, TypeOK
  <2>2. map \in SUBSET Entry /\ \A r \in Sources \ {s} : store'[r] = store[r]
    BY <2>1 DEF TypeOK
  <2>3. Cow(s) => WithoutValue(s, v) = map
    BY DEF WithoutValue, MapIsStore
  <2>4. Swap(s, map) \/ InPlace(s)
    BY <1>9, <2>3 DEF CowRemove, Swap
  <2> QED
    BY <1>8, <2>1, <2>2, <2>4
<1>10. ASSUME NEW s \in Sources, CowClear(s)
       PROVE  CowInv'
  <2>1. /\ store' = [store EXCEPT ![s] = {}] /\ UNCHANGED <<pc, locals>>
        /\ Swap(s, {}) \/ InPlace(s)
    BY <1>10 DEF CowClear, Clear
  <2>2. \A r \in Sources \ {s} : store'[r] = store[r]
    BY <2>1 DEF TypeOK
  <2> QED
    <3>1. {} \in SUBSET Entry
      OBVIOUS
    <3> HIDE DEF CowInv
    <3> QED
      BY <1>8, <2>1, <2>2, <3>1
<1>11. ASSUME NEW s \in Sources, NEW v \in Values, Die(s, v), UNCHANGED cowvars
       PROVE  CowInv'
  <2>1. CowTypeOK' /\ OwnMaps' /\ MapIsStore' /\ held' = held
    BY <1>11, MapsUnchanged DEF Die
  <2>2. Pinned' /\ Referring' /\ TodoRead'
    BY <1>11, <2>1 DEF Die, Pinned, Referring, TodoRead, cowvars, locals, Cow
  <2> QED
    BY <1>t, <1>d, <2>1, <2>2
<1>12. ASSUME UNCHANGED <<vars, cowvars>>
       PROVE  CowInv'
  <2>1. CowTypeOK' /\ OwnMaps' /\ MapIsStore' /\ held' = held
    BY <1>12, MapsUnchanged DEF vars
  <2>2. Pinned' /\ Referring' /\ TodoRead'
    BY <1>12, <2>1 DEF vars, Pinned, Referring, TodoRead, cowvars, locals, Cow
  <2> QED
    BY <1>t, <1>d, <2>1, <2>2
<1> QED
  BY <1>1, <1>2, <1>4, <1>5, <1>6, <1>7, <1>9, <1>10, <1>11, <1>12 DEF CowNext

LEMMA CowInvHolds == CowSpec => []CowInv
BY InitCowInv, StepCowInv, PTL DEF CowSpec

(* The copy-on-write policies keep, map by map, the sets NJoin says they   *)
(* keep (policy/retain_by_key_cow.hpp:88-161, retain_all_cow.hpp:122-188). *)
THEOREM CloneIsUpdate == CowSpec => []MapIsStore
BY CowInvHolds, PTL DEF CowInv

(* No snapshot changes, and none dangles, while the add that took it emits *)
(* (policy/retain_all_cow.hpp:82).                                         *)
THEOREM SnapshotDecoupled == CowSpec => []HeldIntact
<1>1. CowInv => HeldIntact
  BY DEF CowInv, HeldIntact, Pinned, Referring, TodoRead
<1> QED
  BY <1>1, CowInvHolds, PTL

-----------------------------------------------------------------------------
(* The copy-on-write policies add maps and change nothing else of a join   *)
(* (policy/retain_all_cow.hpp:122-188, njoin.hpp:138-163): every step is   *)
(* the step of NJoin, so that whatever NJoin is proved to keep holds of    *)
(* joins with these policies.                                              *)
THEOREM CowIsNJoin == CowSpec => Spec
<1>1. CowInit => Init
  BY DEF CowInit
<1>2. [CowNext]_<<vars, cowvars>> => [Next]_vars
  <2> SUFFICES ASSUME CowNext
               PROVE  Next
    OBVIOUS
  <2>1. ASSUME NEW p \in Threads,
               \/ CowInsert(p) \/ CowReject(p) \/ CowReturn(p)
               \/ \E s \in Sources : CowSnapshotOne(p, s)
               \/ \E t \in todo[p] : CowEmit(p, t)
        PROVE  Next
    BY <2>1 DEF CowInsert, CowReject, CowReturn, CowSnapshotOne, CowEmit, Step, Next
  <2>2. ASSUME NEW s \in Sources, NEW v \in Values,
               CowRemove(s, v) \/ Die(s, v)
        PROVE  Next
    BY <2>2 DEF CowRemove, Next
  <2>3. ASSUME NEW s \in Sources, CowClear(s)
        PROVE  Next
    BY <2>3 DEF CowClear, Next
  <2>4. ASSUME NEW p \in Threads, NEW s \in Sources, NEW v \in Values, TakeSeq(p, s, v)
        PROVE  Next
    BY <2>4 DEF Next
  <2> QED
    BY <2>1, <2>2, <2>3, <2>4 DEF CowNext
<1> QED
  BY <1>1, <1>2, PTL DEF CowSpec, Spec

(* With snapshots that are references to maps (njoin.hpp:201) an add still *)
(* emits nothing that was gone before it began, all that is settled, and   *)
(* the same values again only after one of them was lost.                  *)
THEOREM CowKeepsPromises ==
  CowSpec => []NoStaleMember /\ []SettledEmitted /\ []OncePerValues
BY CowIsNJoin, NothingStale, WhatIsSettledIsEmitted, NeverTwiceTheValues, PTL

=============================================================================
