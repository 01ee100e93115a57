----------------------------- MODULE MakeReactive -----------------------------
(***************************************************************************)
(* make_reactive.hpp: the join a call make_reactive<args...>(fn) makes.    *)
(* All of it is type deduction: which of the six overloads takes the       *)
(* template arguments, what the static assertions refuse, and which value  *)
(* type and which retention policy each source of the join gets.           *)
(*                                                                         *)
(* A template argument is <<"layout", l>>, <<"policies", ps>> or           *)
(* <<"type", t>>; a parameter of fn is a type and how it is passed.        *)
(***************************************************************************)
EXTENDS SourceView, FiniteSets

CONSTANTS
  Callbacks,      \* the callbacks, each a sequence of parameters
  PolicyLists,    \* the arguments of Policies<...>
  StorageLists,   \* the lists of storage types
  AutoPolicy,     \* "use the default policy for this source"
  RetainLatest,   \* the default policy
  NoJoin

(* Lists are sequences.                                                    *)
ASSUME MakeAssumption ==
  \A l \in Callbacks \cup PolicyLists \cup StorageLists :
    Len(l) \in Nat /\ DOMAIN l = 1 .. Len(l)

VARIABLES
  fn,     \* the callback, <<>> before a join is made
  args,   \* the template arguments the join was made with
  join    \* its layout and, of each source, the value type and the policy

makeVars == <<fn, args, join>>

arity(f) == Len(f)

(* std::decay: no reference, no const. *)
decay_arg_t(parameter) == parameter.type

decayed_params_tuple(f) == [i \in DOMAIN f |-> decay_arg_t(f[i])]

DefaultLayout(n) == [s \in 1 .. n |-> <<s - 1>>]

param_count(l) == Len(FlattenSeq(l))

(* What the source of a group stores: of each of its parameters the type.  *)
source_value_type(group, params) ==
  SourceValue(group, [p \in 0 .. (Len(params) - 1) |-> params[p + 1]])

(* Source<T>, with the default policy.                                     *)
make_sources(l, params) ==
  [s \in DOMAIN l |->
     [value |-> source_value_type(l[s], params), policy |-> RetainLatest]]

(* A buggy resolution for mutation: the sentinel is taken for a policy.    *)
ResolveNothing(P) == P

resolve_source(P) == IF P = AutoPolicy THEN RetainLatest ELSE P

make_sources_with_policies(l, params, Ps) ==
  [s \in DOMAIN l |->
     [value |-> source_value_type(l[s], params), policy |-> resolve_source(Ps[s])]]

IsLayout(a) == a[1] = "layout"

IsPolicies(a) == a[1] = "policies"

(* The types a list of template arguments stands for.                      *)
TypeList(as) == [i \in DOMAIN as |-> as[i][2]]

(* A buggy deduction for mutation: the storage types are those of the      *)
(* callback even where the call names others.                              *)
DeducedAnyway(f, as) == decayed_params_tuple(f)

(* The types the call names, else those of the callback's parameters.      *)
Storage(f, as) == IF as = <<>> THEN decayed_params_tuple(f) ELSE TypeList(as)

(* The join of the layout l, if its source types can be named at all: a    *)
(* parameter index is an index into the tuple of types.                    *)
JoinOf(l, n, sources) ==
  /\ l = layout
  /\ ParamsOf(l) \subseteq 0 .. (n - 1)
  /\ join' = [layout |-> l, sources |-> sources]

(* (1) Everything deduced. *)
Deduced(f, as) ==
  /\ as = <<>>
  /\ LET LayoutT == DefaultLayout(arity(f))
     IN  JoinOf(LayoutT, arity(f), make_sources(LayoutT, Storage(f, <<>>)))

(* (2) and (3): a layout and, perhaps, the storage types.                  *)
LayoutFirst(f, as) ==
  /\ as # <<>> /\ IsLayout(as[1]) /\ param_count(as[1][2]) = arity(f)
  /\ LET LayoutT == as[1][2]
         Rest == Tail(as)
     IN  /\ \/ Rest = <<>>
            \/ Rest # <<>> /\ ~ IsPolicies(Rest[1]) /\ Len(Rest) = arity(f)
         /\ JoinOf(LayoutT, arity(f), make_sources(LayoutT, Storage(f, Rest)))

(* (5) and (6): a layout, one policy for each source and, perhaps, the     *)
(* storage types that follow (tuple_tail).                                 *)
PoliciesSecond(f, as) ==
  /\ Len(as) > 1 /\ IsLayout(as[1]) /\ param_count(as[1][2]) = arity(f)
  /\ IsPolicies(as[2]) /\ Len(as[2][2]) = Len(as[1][2])
  /\ LET LayoutT == as[1][2]
         tail == Tail(Tail(as))
     IN  /\ Len(tail) \in {0, arity(f)}
         /\ JoinOf(LayoutT, arity(f),
              make_sources_with_policies(LayoutT, Storage(f, tail), as[2][2]))

(* (4) Storage types only. *)
StorageFirst(f, as) ==
  /\ as # <<>> /\ ~ IsLayout(as[1]) /\ ~ IsPolicies(as[1])
  /\ Len(as) = arity(f)
  /\ LET LayoutT == DefaultLayout(Len(as))
     IN  JoinOf(LayoutT, arity(f), make_sources(LayoutT, Storage(f, as)))

(* A call that compiles. *)
make_reactive(f, as) ==
  /\ join = NoJoin /\ parent = <<>>
  /\ \/ Deduced(f, as)
     \/ LayoutFirst(f, as)
     \/ PoliciesSecond(f, as)
     \/ StorageFirst(f, as)
  /\ fn' = f /\ args' = as
  /\ UNCHANGED vars

(* The ways to write template arguments that name this layout or none,     *)
(* policies or none, storage types or none.                                *)
WrittenLayout == {<<>>, <<<<"layout", layout>>>>}

WrittenPolicies == {<<>>} \cup {<<<<"policies", Ps>>>> : Ps \in PolicyLists}

WrittenTypes ==
  {<<>>} \cup {[i \in DOMAIN ts |-> <<"type", ts[i]>>] : ts \in StorageLists}

Written ==
  {l \o p \o t : l \in WrittenLayout, p \in WrittenPolicies, t \in WrittenTypes}

MakeInit == Init /\ fn = <<>> /\ args = <<>> /\ join = NoJoin

MakeNext ==
  \/ \E f \in Callbacks, as \in Written : make_reactive(f, as)
  \/ Next /\ UNCHANGED makeVars

MakeSpec == MakeInit /\ [][MakeNext]_<<vars, makeVars>>
-----------------------------------------------------------------------------
IsType(a) == ~ IsLayout(a) /\ ~ IsPolicies(a)

(* The type wanted for a parameter: the one the call names for it,         *)
(* wherever in the arguments, else that of the callback's parameter.       *)
Wanted(f, as, p) ==
  LET named == {j \in DOMAIN as : IsType(as[j])}
      nth == CHOOSE j \in named : Cardinality({k \in named : k < j}) = p
  IN  IF named = {} THEN f[p + 1].type ELSE as[nth][2]

(* The policy wanted for a source: the one the call names for it, if any.  *)
WantedPolicy(as, s) ==
  LET named == {a \in ToSet(as) : IsPolicies(a)}
      policy == (CHOOSE a \in named : TRUE)[2][s]
  IN  IF named = {} THEN RetainLatest
      ELSE IF policy = AutoPolicy THEN RetainLatest ELSE policy

(* Every source of the join stores just the values of its parameters, of   *)
(* the types the call asks for, under the policy it asks for, whichever of *)
(* the six overloads the call is written for; nothing a call says is lost, *)
(* and what it leaves out is the default.                                  *)
JoinAsAsked ==
  join # NoJoin =>
    \A s \in DOMAIN layout :
      /\ join.sources[s].policy = WantedPolicy(args, s)
      /\ as_tuple(layout[s], join.sources[s].value) =
           [i \in DOMAIN layout[s] |-> Wanted(fn, args, layout[s][i])]

(* From the call to the callback: what the sources of the join hold is     *)
(* handed to the callback as values of the wanted types, parameter by      *)
(* parameter, when the layout lists the parameters in order.               *)
CallbackFits ==
  join # NoJoin /\ InOrder(layout) =>
    layout_unpack(layout, [s \in DOMAIN layout |-> join.sources[s].value]) =
      [i \in 1 .. arity(fn) |-> Wanted(fn, args, i - 1)]

=============================================================================
