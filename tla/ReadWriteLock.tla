---------------------------- MODULE ReadWriteLock ----------------------------
(***************************************************************************)
(* What a reader-writer lock that prefers writers promises: readers share  *)
(* it, a writer has it alone, and once a writer has claimed it no further  *)
(* reader gets in before that writer.                                      *)
(***************************************************************************)
CONSTANTS Users, Nobody

VARIABLES readers,  \* who holds it for reading
          claimed,  \* the writer whose turn it is, or Nobody
          entered   \* does that writer hold it?

Init == readers = {} /\ claimed = Nobody /\ entered = FALSE

EnterRead(u) ==
  /\ claimed = Nobody
  /\ u \notin readers
  /\ readers' = readers \cup {u}
  /\ UNCHANGED <<claimed, entered>>

LeaveRead(u) ==
  /\ u \in readers
  /\ readers' = readers \ {u}
  /\ UNCHANGED <<claimed, entered>>

Claim(u) ==
  /\ claimed = Nobody
  /\ u \notin readers
  /\ claimed' = u
  /\ UNCHANGED <<readers, entered>>

EnterWrite(u) ==
  /\ claimed = u /\ ~entered
  /\ readers = {}
  /\ entered' = TRUE
  /\ UNCHANGED <<readers, claimed>>

LeaveWrite(u) ==
  /\ claimed = u /\ entered
  /\ claimed' = Nobody
  /\ entered' = FALSE
  /\ UNCHANGED readers

Next == \E u \in Users :
  EnterRead(u) \/ LeaveRead(u) \/ Claim(u) \/ EnterWrite(u) \/ LeaveWrite(u)

Spec == Init /\ [][Next]_<<readers, claimed, entered>>

=============================================================================
