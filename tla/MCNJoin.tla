------------------------------ MODULE MCNJoin ------------------------------
(* Instances of NJoin for TLC: two sources, two values, a short counter.   *)
EXTENDS NJoin, TLC

CONSTANTS t1, t2, t3, v1, v2, Kind0, Kind1, Dying0

MCThreads == {t1, t2}
MCThreads3 == {t1, t2, t3}
MCValues == {v1, v2}
MCOneValue == {v1}

(* Both values have the same key, or each its own. *)
MCOneKey == [v \in {v1, v2} |-> "k"]
MCOwnKey == [v \in {v1, v2} |-> v]

MCPolicy == [s \in Sources |-> IF s = 0 THEN Kind0 ELSE Kind1]
MCMortal == [s \in Sources |-> IF s = 0 THEN Dying0 ELSE {}]

MCSymmetry == Permutations(MCThreads)
MCSymmetry3 == Permutations(MCThreads3)

(* One removal or one clearing, before the last add; it races with adds in *)
(* MCCowJoin, here it lets the last add bring a value back.                *)
MCShrink ==
  /\ gone = NoEntries /\ adds = MaxAdds - 1
  /\ \A p \in Threads : pc[p] = "idle"
  /\ \E s \in Sources : Clear(s) \/ \E v \in Values : Remove(s, v)

MCNext ==
  \/ \E p \in Threads, s \in Sources, v \in Values : TakeSeq(p, s, v)
  \/ \E p \in Threads : Step(p)
  \/ MCShrink

MCSpec == Init /\ [][MCNext]_vars

=============================================================================
