------------------------------ MODULE SourceView ------------------------------
(***************************************************************************)
(* source_view.hpp: views of a source that stores a tuple.  A view keeps a *)
(* reference to the source and a list of indices into the source's tuple;  *)
(* a view of a view is flattened to such a list at once, and so is the     *)
(* merge of two views of one source.                                       *)
(*                                                                         *)
(* A behaviour takes a source of some layout, a view of it, a view of the  *)
(* view, and so on.                                                        *)
(***************************************************************************)
EXTENDS GroupLayout

CONSTANT MaxIndices   \* bound: the indices of a view

ASSUME ViewAssumption == MaxIndices \in Nat \ {0}

VARIABLES
  layout,   \* the layout of the join
  parent,   \* the group of the view's source, <<>> without a view
  indices,  \* SourceView: ProjIndices
  nested    \* history: the tuple the view would hold if it and every view
            \* it was made from had copied what it shows

vars == <<layout, parent, indices, nested>>

(* What the source holds: of each parameter a value of its own.            *)
Row == [i \in DOMAIN parent |-> parent[i]]

(* Lists of indices into a tuple of n elements.                            *)
IndexLists(n) == UNION {[1 .. k -> 0 .. (n - 1)] : k \in 1 .. MaxIndices}

Select(is, tuple) == [i \in DOMAIN is |-> tuple[is[i] + 1]]

(* A single index unwraps the value.                                       *)
project_value(is, tuple) ==
  IF Len(is) = 1 THEN tuple[is[1] + 1] ELSE Select(is, tuple)

(* A buggy composition for mutation: the local index is taken for one of   *)
(* the source.                                                             *)
LocalIndex(i, is) == i

compose_index(i, is) == is[i + 1]

Init ==
  /\ layout \in Layouts
  /\ parent = <<>> /\ indices = <<>> /\ nested = <<>>

(* source<s>().view<is...>() on a source that stores a tuple.              *)
Open(s, is) ==
  /\ parent = <<>>
  /\ Len(layout[s]) > 1
  /\ is \in IndexLists(Len(layout[s]))
  /\ parent' = layout[s]
  /\ indices' = is
  /\ nested' = Select(is, layout[s])
  /\ UNCHANGED layout

(* view<is...>() of the view.                                              *)
SubView(is) ==
  /\ parent # <<>>
  /\ is \in IndexLists(Len(indices))
  /\ indices' = [i \in DOMAIN is |-> compose_index(is[i], indices)]
  /\ nested' = Select(is, nested)
  /\ UNCHANGED <<layout, parent>>

(* merge with the view is of the same source.                              *)
Merge(is) ==
  /\ parent # <<>>
  /\ is \in IndexLists(Len(parent))
  /\ Len(indices) + Len(is) <= MaxIndices
  /\ indices' = indices \o is
  /\ nested' = nested \o Select(is, Row)
  /\ UNCHANGED <<layout, parent>>

AnyIndices == IndexLists(MaxIndices)

Next ==
  \/ \E s \in DOMAIN layout, is \in AnyIndices : Open(s, is)
  \/ \E is \in AnyIndices : SubView(is) \/ Merge(is)

Spec == Init /\ [][Next]_vars
-----------------------------------------------------------------------------
(* A view shows what the chain of views it was made from would show, had   *)
(* each kept a tuple of its own instead of flattening its indices to the   *)
(* source; a single index shows the bare value.                            *)
ViewsCompose ==
  parent # <<>> =>
    project_value(indices, Row) =
      IF Len(nested) = 1 THEN nested[1] ELSE nested

(* The callback gets every argument in its place (see GroupLayout).        *)
CallsInPlace == parent = <<>> => ArgumentsInPlace(layout)

(* Of layouts of the same parameters, that is, of the ways to group the    *)
(* parameters of one callback, is_refinement_of says what its comment      *)
(* promises: every block of one is within some block of the other.         *)
RefinementIsContained ==
  parent = <<>> =>
    \A fine \in Layouts :
      ParamsOf(fine) = ParamsOf(layout) =>
        (is_refinement_of(fine, layout) <=> Contained(fine, layout))

-----------------------------------------------------------------------------
(* source_view.hpp:79-80: Fine is a refinement of Coarse if every block of *)
(* Fine is contained within some block of Coarse; and line 95: all params  *)
(* of a block must appear in one single entry of Coarse.  So two layouts   *)
(* that refine one another, of whatever parameters, have their blocks      *)
(* contained.                                                              *)
OnlyContainedRefine ==
  parent = <<>> =>
    \A fine \in Layouts : is_refinement_of(fine, layout) => Contained(fine, layout)

=============================================================================
