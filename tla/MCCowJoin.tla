------------------------------ MODULE MCCowJoin ------------------------------
(* Instances of CowJoin for TLC: two sources, two values, a short counter. *)
EXTENDS CowJoin, TLC

CONSTANTS t1, t2, v1, v2, Kind0, Kind1, Dying0

MCThreads == {t1, t2}
MCValues == {v1, v2}
MCOneKey == [v \in {v1, v2} |-> "k"]

MCPolicy == [s \in Sources |-> IF s = 0 THEN Kind0 ELSE Kind1]
MCMortal == [s \in Sources |-> IF s = 0 THEN Dying0 ELSE {}]

MCSymmetry == Permutations(MCThreads) \cup Permutations(Addresses)

=============================================================================
