--------------------------- MODULE RetentionPolicy ---------------------------
(***************************************************************************)
(* policy/*.hpp: what a source keeps.  A store is a set of entries, an     *)
(* entry a value with the stamp its add took.  The maps of the code are    *)
(* read through their iterators only, so the set stands for each of them;  *)
(* the copy-on-write policies publish a new map where the others update    *)
(* the map in place, which the source's lock hides from every reader.      *)
(***************************************************************************)
EXTENDS SeqCounter

CONSTANTS Values,  \* the values a source can be given
          KeyOf    \* the key projection of the keyed policies

ASSUME ValuesAssumption == Values # {}

KeyedPolicies == {"by_key", "by_key_cow"}
UniquePolicies == {"all", "all_cow"}
CowPolicies == {"all_cow", "by_key_cow"}
Policies == {"latest"} \cup KeyedPolicies \cup UniquePolicies

Entry == [val : Values, seq : Stamp]

SameKey(v, w) == KeyOf[v] = KeyOf[w]

(* A buggy insertion for mutation: duplicates are not looked for. *)
AcceptsAnything(policy, store, v) == TRUE

(* A buggy insertion for mutation: a keyed map overwrites equal values.    *)
AcceptsEqual(policy, store, v) ==
  \/ policy = "latest" \/ policy \in KeyedPolicies
  \/ policy \in UniquePolicies /\ \A f \in store : f.val # v

(* Does insert return a stamp?  RetainLatest always does; the unique       *)
(* policies refuse a value they hold, the keyed ones a value equal to the  *)
(* one held under its key.                                                 *)
Accepts(policy, store, v) ==
  \/ policy = "latest"
  \/ policy \in UniquePolicies /\ \A f \in store : f.val # v
  \/ policy \in KeyedPolicies
       /\ \A f \in store : SameKey(f.val, v) => f.val # v

(* The entries an accepted insertion of v pushes out: the slot of          *)
(* RetainLatest is overwritten whatever stamp it holds, a keyed map        *)
(* overwrites the value of the key, a unique map loses nothing.            *)
Displaced(policy, store, v) ==
  CASE policy = "latest" -> store
    [] policy \in KeyedPolicies -> {f \in store : SameKey(f.val, v)}
    [] OTHER -> {}

(* The store after an accepted insertion of e. *)
Inserted(policy, store, e) ==
  (store \ Displaced(policy, store, e.val)) \cup {e}

(* Policies that model RemovablePolicy. *)
Removable(policy) == policy # "latest"

(* The entries remove(v) erases: a unique map looks for the value, a keyed *)
(* one for the key of the value.                                           *)
Erased(policy, store, v) ==
  {f \in store : IF policy \in KeyedPolicies THEN SameKey(f.val, v)
                                             ELSE f.val = v}

=============================================================================
