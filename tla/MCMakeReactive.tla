--------------------------- MODULE MCMakeReactive ---------------------------
(* All layouts of the parameters 0 .. MaxParam - 1 and of some of them;    *)
(* all callbacks of up to MaxArity parameters, and all calls for them.     *)
EXTENDS MakeReactive, FiniteSets

CONSTANTS MaxParam, MaxArity, A, B, C, RetainAll

Lists(S) == UNION {{f \in [1 .. n -> S] : IsInjective(f)} : n \in 1 .. Cardinality(S)}

(* A list of parameters cut into groups.                                   *)
Cut(ps, ends) ==
  LET e == SetToSortSeq(ends \cup {Len(ps)}, <)
  IN  [s \in DOMAIN e |-> SubSeq(ps, IF s = 1 THEN 1 ELSE e[s - 1] + 1, e[s])]

MCLayouts ==
  UNION {{Cut(ps, ends) : ends \in SUBSET (1 .. (Len(ps) - 1))} :
           ps \in Lists(0 .. (MaxParam - 1))}

UpTo(n, S) == UNION {[1 .. k -> S] : k \in 1 .. n}

MCParameters ==
  {[type |-> A, by |-> "value"], [type |-> A, by |-> "const &"],
   [type |-> B, by |-> "const &"]}

MCCallbacks == UpTo(MaxArity, MCParameters)
MCPolicyLists == UpTo(MaxArity, {AutoPolicy, RetainAll})
MCStorageLists == {[i \in 1 .. n |-> IF i = 2 THEN A ELSE C] : n \in 1 .. MaxArity}

(* Views are taken of free sources and of joins made with a layout alone.  *)
MCNext == MakeNext /\ (join # NoJoin => Len(args) = 1)

MCSpec == MakeInit /\ [][MCNext]_<<vars, makeVars>>

=============================================================================
