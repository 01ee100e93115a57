---------------------------- MODULE MCBarrierView ----------------------------
(* Small instances of BarrierView.                                         *)
EXTENDS BarrierView, TLC

CONSTANTS k1, k2, v1, v2

(* Lists in either order, a part, one key twice.                           *)
MCKeyLists == {<<k1, k2>>, <<k2>>, <<k2, k1, k2>>}

(* Keys and values are not symmetric: the lists tell the keys apart.       *)
MCSymmetry == Permutations(Threads) \cup Permutations(Values)

=============================================================================
