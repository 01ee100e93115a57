----------------------------- MODULE GroupLayout -----------------------------
(***************************************************************************)
(* group_layout.hpp and the lattice of source_view.hpp: a layout tells     *)
(* which parameters of the callback share a source.  All of it happens at  *)
(* compile time.                                                           *)
(*                                                                         *)
(* A group is a sequence of parameter indices, a layout a sequence of      *)
(* groups.  Indices count from 0 as in the code, TLA+ sequences from 1.    *)
(***************************************************************************)
EXTENDS Naturals, SequencesExt

CONSTANT Layouts   \* the layouts considered

(* The groups have members, and no parameter is in two places.             *)
ASSUME LayoutsAssumption ==
  \A l \in Layouts :
    /\ l \in Seq(Seq(Nat)) /\ l # <<>>
    /\ \A s \in DOMAIN l : l[s] # <<>>
    /\ \A s, t \in DOMAIN l : \A i \in DOMAIN l[s], j \in DOMAIN l[t] :
         l[s][i] = l[t][j] => s = t /\ i = j

entry_contains(p, group) == \E i \in DOMAIN group : group[i] = p

(* The first group with parameter p; their number if there is none.        *)
find_coarse_block(p, l) ==
  LET found == {s \in DOMAIN l : entry_contains(p, l[s])}
  IN  IF found = {} THEN Len(l)
      ELSE (CHOOSE s \in found : \A t \in found : s <= t) - 1

(* A buggy search for mutation: the sources are counted from one.          *)
SourceFromOne(p, l) == find_coarse_block(p, l) + 1

(* The source a parameter maps to; it must be in a group.                  *)
source_index_of(p, l) == find_coarse_block(p, l)

(* A buggy check for mutation: the loop starts one parameter too late.     *)
SecondSkipped(group, coarse) ==
  \A i \in 3 .. Len(group) :
    find_coarse_block(group[i], coarse) = find_coarse_block(group[1], coarse)

(* All parameters of the group are found where its first one is - also     *)
(* when they are all not found.                                            *)
fine_entry_contained(group, coarse) ==
  \A i \in 2 .. Len(group) :
    find_coarse_block(group[i], coarse) = find_coarse_block(group[1], coarse)

is_refinement_of(fine, coarse) ==
  \A s \in DOMAIN fine : fine_entry_contained(fine[s], coarse)

(* What a source of a group stores, given the value of each parameter: the *)
(* value itself for a single parameter, else the tuple of the values.      *)
SourceValue(group, arg) ==
  IF Len(group) = 1 THEN arg[group[1]] ELSE [i \in DOMAIN group |-> arg[group[i]]]

(* A source's contribution to the arguments of the callback.               *)
as_tuple(group, value) == IF Len(group) = 1 THEN <<value>> ELSE value

(* The arguments the callback is called with.                              *)
layout_unpack(l, values) ==
  FlattenSeq([s \in DOMAIN l |-> as_tuple(l[s], values[s])])

-----------------------------------------------------------------------------
ParamsOf(l) == UNION {ToSet(l[s]) : s \in DOMAIN l}

(* The parameters of l, as it lists them, are 0, 1, 2, ...                 *)
InOrder(l) == \A i \in DOMAIN FlattenSeq(l) : FlattenSeq(l)[i] = i - 1

(* A layout that lists the parameters in order calls the callback with     *)
(* every argument in its place, and each comes from the source             *)
(* source_index_of names.  (Any other layout compiles as well when the     *)
(* types happen to fit, and calls it with the arguments in the order of    *)
(* the layout.)                                                            *)
ArgumentsInPlace(l) ==
  LET arg == [p \in ParamsOf(l) |-> <<p, source_index_of(p, l)>>]
      args == layout_unpack(l, [s \in DOMAIN l |-> SourceValue(l[s], arg)])
  IN  InOrder(l) =>
        \A s \in DOMAIN l : \A i \in DOMAIN l[s] :
          args[l[s][i] + 1] = <<l[s][i], s - 1>>

(* "Every block of Fine is contained within some block of Coarse"          *)
(* (source_view.hpp:80).                                                   *)
Contained(fine, coarse) ==
  \A s \in DOMAIN fine : \E t \in DOMAIN coarse : ToSet(fine[s]) \subseteq ToSet(coarse[t])

=============================================================================
