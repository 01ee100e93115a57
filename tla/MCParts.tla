-------------------------------- MODULE MCParts --------------------------------
(* The parts that use no other: the two locks, and the layouts, views and  *)
(* joins made at compile time (as MCMakeReactive has them).  They have     *)
(* nothing to do with each other: a behaviour is about one of them, and    *)
(* may end only when it is about the last.                                 *)
EXTENDS MCMakeReactive, SpinLock, RwLock

VARIABLE tested

partsVars == <<vars, makeVars, spinvars, rwvars, tested>>

PartsInit ==
  /\ MakeInit /\ SpinInit /\ RwInit
  /\ \/ tested = "make"
     \/ tested \in {"spin", "rw"} /\ layout = <<<<0>>>>

PartsNext ==
  \/ tested = "make" /\ MCNext /\ UNCHANGED <<spinvars, rwvars, tested>>
  \/ tested = "make" /\ UNCHANGED partsVars
  \/ tested = "spin" /\ SpinNext /\ UNCHANGED <<vars, makeVars, rwvars, tested>>
  \/ tested = "rw" /\ RwNext /\ UNCHANGED <<vars, makeVars, spinvars, tested>>

PartsSpec == PartsInit /\ [][PartsNext]_partsVars /\ SpinFairness /\ RwFairness

=============================================================================
