---------------------------- MODULE CrossProduct ----------------------------
(***************************************************************************)
(* cross_product.hpp: the combinations of the snapshots of all sources,    *)
(* one entry from each, that the add which took the stamp q at the source  *)
(* trigger owns.                                                           *)
(***************************************************************************)
EXTENDS RetentionPolicy

CONSTANT N  \* number of sources

ASSUME NAssumption == N \in Nat \ {0}

Sources == 0 .. (N - 1)

(* The recursion over the snapshots: one entry of each.  There is none     *)
(* when a snapshot is empty, the case the code returns early on.           *)
Combinations(snaps) ==
  {t \in [Sources -> UNION {snaps[s] : s \in Sources}] :
     \A s \in Sources : t[s] \in snaps[s]}

(* max_idx: a fold over the sources in order; the first of equals stays.   *)
MaxIdx(t) ==
  LET max[i \in Sources] ==
        IF i = 0 THEN 0
        ELSE IF seq_after(t[i].seq, t[max[i - 1]].seq) THEN i ELSE max[i - 1]
  IN  max[N - 1]

(* A buggy filter for mutation: any new combination is taken to be owned.  *)
OwnsAll(t, trigger, q) == t[trigger].seq = q

(* A buggy filter for mutation: the entry the add inserted is not asked    *)
(* for, only that the newest entry is in its source.                       *)
OwnsBySourceOnly(t, trigger, q) == MaxIdx(t) = trigger

(* The seq-ownership rule: the newest entry of the combination is the one  *)
(* this add inserted.                                                      *)
Owns(t, trigger, q) == MaxIdx(t) = trigger /\ t[trigger].seq = q

cross_product(snaps, trigger, q) ==
  {t \in Combinations(snaps) : Owns(t, trigger, q)}

=============================================================================
