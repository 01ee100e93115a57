-------------------------------- MODULE Mutex --------------------------------
(***************************************************************************)
(* What a lock promises: at most one thread holds it, and only the holder  *)
(* gives it back.                                                          *)
(***************************************************************************)
CONSTANTS Threads

VARIABLE holders  \* the threads that hold the lock

Init == holders = {}

Acquire(p) == holders = {} /\ holders' = {p}

Release(p) == holders = {p} /\ holders' = {}

Next == \E p \in Threads : Acquire(p) \/ Release(p)

Spec == Init /\ [][Next]_holders

=============================================================================
