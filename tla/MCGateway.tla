------------------------------ MODULE MCGateway ------------------------------
(* Small instances of Gateway: two gates with a key of their own.          *)
EXTENDS Gateway, TLC

CONSTANTS k1, k2

MCKeyLists == {<<k1>>, <<k2>>, <<k1, k2>>}
MCGateKeys == (0 :> {<<k1>>}) @@ (1 :> {<<k2>>, <<k1, k2>>})
MCBarriers == {0, 1}

MCSymmetry == Permutations(Threads)

=============================================================================
