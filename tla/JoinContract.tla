---------------------------- MODULE JoinContract ----------------------------
(***************************************************************************)
(* What NJoin promises its callback: it gets combinations of entries the   *)
(* sources have accepted, one of each source, one call per combination,    *)
(* and no combination twice.  Nothing is said of when, nor that every      *)
(* combination comes.                                                      *)
(***************************************************************************)
EXTENDS Naturals

CONSTANTS Sources,
          Entry    \* the entries, records with a field seq

VARIABLES accepted,  \* the entries each source has accepted
          emitted,   \* the combinations the callback has got
          calls      \* how often it was called

Init ==
  /\ accepted = [s \in Sources |-> {}]
  /\ emitted = {}
  /\ calls = 0

(* A source accepts a value under a stamp no accepted entry has.           *)
Accept(s, e) ==
  /\ \A i \in Sources : \A f \in accepted[i] : f.seq # e.seq
  /\ accepted' = [accepted EXCEPT ![s] = @ \cup {e}]
  /\ UNCHANGED <<emitted, calls>>

(* The callback gets a combination it has not had.                         *)
Call(t) ==
  /\ \A s \in Sources : t[s] \in accepted[s]
  /\ t \notin emitted
  /\ emitted' = emitted \cup {t}
  /\ calls' = calls + 1
  /\ UNCHANGED accepted

Next ==
  \/ \E s \in Sources, e \in Entry : Accept(s, e)
  \/ \E t \in [Sources -> UNION {accepted[s] : s \in Sources}] : Call(t)

Spec == Init /\ [][Next]_<<accepted, emitted, calls>>

=============================================================================
