------------------------------- MODULE SpinLock -------------------------------
(***************************************************************************)
(* core/spinlock.hpp: test-and-test-and-set on one atomic flag.  Each      *)
(* access of the flag is a step.  The count of spins decides only when the *)
(* thread yields its processor, and is left out.                           *)
(***************************************************************************)
EXTENDS Naturals

CONSTANTS Threads

VARIABLES flag,  \* the atomic flag
          pc     \* where each thread is in lock() or unlock()

spinvars == <<flag, pc>>

SpinInit ==
  /\ flag = FALSE
  /\ pc = [p \in Threads |-> "out"]

(* A thread calls lock(). *)
Call(p) ==
  /\ pc[p] = "out"
  /\ pc' = [pc EXCEPT ![p] = "test_and_set"]
  /\ UNCHANGED flag

(* A buggy step for mutation: the old value of the flag is not looked at.  *)
BlindTestAndSet(p) ==
  /\ pc[p] = "test_and_set"
  /\ flag' = TRUE
  /\ pc' = [pc EXCEPT ![p] = "in"]

(* flag_.test_and_set(): the flag is set in any case, and the thread is in *)
(* if it was clear.                                                        *)
TestAndSet(p) ==
  /\ pc[p] = "test_and_set"
  /\ flag' = TRUE
  /\ pc' = [pc EXCEPT ![p] = IF flag THEN "test" ELSE "in"]

(* flag_.test(): the inner loop reads until it finds the flag clear.       *)
Test(p) ==
  /\ pc[p] = "test"
  /\ ~flag
  /\ pc' = [pc EXCEPT ![p] = "test_and_set"]
  /\ UNCHANGED flag

(* A buggy step for mutation: unlock forgets the flag.                     *)
LeavesFlagSet(p) ==
  /\ pc[p] = "in"
  /\ pc' = [pc EXCEPT ![p] = "out"]
  /\ UNCHANGED flag

(* unlock(). *)
Unlock(p) ==
  /\ pc[p] = "in"
  /\ flag' = FALSE
  /\ pc' = [pc EXCEPT ![p] = "out"]

Step(p) == TestAndSet(p) \/ Test(p) \/ Unlock(p)

SpinNext == \E p \in Threads : Call(p) \/ Step(p)

SpinSpec == SpinInit /\ [][SpinNext]_spinvars

(* A thread in lock() or in its critical section is scheduled; a critical  *)
(* section ends.                                                           *)
SpinFairness == \A p \in Threads : WF_spinvars(Step(p))

-----------------------------------------------------------------------------
(* Types. *)
TypeOK ==
  /\ flag \in BOOLEAN
  /\ pc \in [Threads -> {"out", "test_and_set", "test", "in"}]

Inside == {p \in Threads : pc[p] = "in"}

(* The sections the lock guards exclude each other, and the flag is clear  *)
(* exactly when nobody is in one: what every module here that makes a      *)
(* critical section one action relies on.                                  *)
Exclusion ==
  /\ \A p, q \in Inside : p = q
  /\ flag <=> Inside # {}

(* The lock is a mutex.                                                    *)
Lock == INSTANCE Mutex WITH holders <- Inside
ImplementsMutex == Lock!Spec

(* When threads want the lock, one of them gets it (which one is left to   *)
(* the race: a thread can be overtaken forever).                           *)
SomeoneGetsIn ==
  (\E p \in Threads : pc[p] = "test_and_set" \/ pc[p] = "test") ~> Inside # {}

=============================================================================
