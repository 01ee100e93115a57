-------------------------------- MODULE RwLock --------------------------------
(***************************************************************************)
(* examples/rwlock_improved.hpp: a reader-writer spinlock in one word, the *)
(* highest bit for a writer and the rest a count of readers.  The bit is   *)
(* WriterBit (2^31 in the code), so that setting it is adding WriterBit.   *)
(* Each access of the word is a step; spinning and yielding are left out.  *)
(***************************************************************************)
EXTENDS Naturals, FiniteSets

CONSTANTS Users,
          WriterBit,    \* WRITER_BIT
          MaxSpurious,  \* bound: failures of compare_exchange_weak without cause
          Nobody

(* There are never as many readers as would carry into the writer's bit.   *)
ASSUME RwAssumption ==
  /\ IsFiniteSet(Users) /\ Nobody \notin Users
  /\ WriterBit \in Nat /\ Cardinality(Users) < WriterBit
  /\ MaxSpurious \in Nat

VARIABLES state,    \* the word
          at,       \* where each user is
          seen,     \* what a reader loaded
          spurious  \* compare_exchange_weak has failed so often without cause

rwvars == <<state, at, seen, spurious>>

Writer(w) == w >= WriterBit
ReaderCount(w) == IF Writer(w) THEN w - WriterBit ELSE w

RwInit ==
  /\ state = 0
  /\ at = [u \in Users |-> "out"]
  /\ seen = [u \in Users |-> 0]
  /\ spurious = 0

(* A user constructs a ReadLock, or a WriteLock.                           *)
WantRead(u) ==
  /\ at[u] = "out"
  /\ at' = [at EXCEPT ![u] = "load"]
  /\ UNCHANGED <<state, seen, spurious>>

WantWrite(u) ==
  /\ at[u] = "out"
  /\ at' = [at EXCEPT ![u] = "or"]
  /\ UNCHANGED <<state, seen, spurious>>

(* ReadLock: the word is loaded until no writer has set the bit.           *)
Load(u) ==
  /\ at[u] = "load"
  /\ ~Writer(state)
  /\ seen' = [seen EXCEPT ![u] = state]
  /\ at' = [at EXCEPT ![u] = "cas"]
  /\ UNCHANGED <<state, spurious>>

(* A buggy step for mutation: the reader adds itself to whatever the word  *)
(* has become.                                                             *)
BlindAdd(u) ==
  /\ at[u] = "cas"
  /\ state' = state + 1
  /\ at' = [at EXCEPT ![u] = "reading"]
  /\ seen' = [seen EXCEPT ![u] = 0]
  /\ UNCHANGED spurious

(* compare_exchange_weak finds the word it expects, and counts the reader. *)
Exchange(u) ==
  /\ at[u] = "cas"
  /\ state = seen[u]
  /\ state' = state + 1
  /\ at' = [at EXCEPT ![u] = "reading"]
  /\ seen' = [seen EXCEPT ![u] = 0]
  /\ UNCHANGED spurious

(* It finds another word, or fails for no reason; the reader starts again. *)
ExchangeFails(u) ==
  /\ at[u] = "cas"
  /\ \/ state # seen[u] /\ UNCHANGED spurious
     \/ /\ state = seen[u] /\ spurious < MaxSpurious
        /\ spurious' = spurious + 1
  /\ at' = [at EXCEPT ![u] = "load"]
  /\ seen' = [seen EXCEPT ![u] = 0]
  /\ UNCHANGED state

(* A buggy step for mutation: the reader stays counted.                    *)
StayCounted(u) ==
  /\ at[u] = "reading"
  /\ at' = [at EXCEPT ![u] = "out"]
  /\ UNCHANGED <<state, seen, spurious>>

(* ~ReadLock. *)
UnlockRead(u) ==
  /\ at[u] = "reading"
  /\ state' = state - 1
  /\ at' = [at EXCEPT ![u] = "out"]
  /\ UNCHANGED <<seen, spurious>>

(* WriteLock, phase 1: the bit is set in any case, and is this writer's if *)
(* it was clear.                                                           *)
FetchOr(u) ==
  /\ at[u] = "or"
  /\ state' = IF Writer(state) THEN state ELSE state + WriterBit
  /\ at' = [at EXCEPT ![u] = IF Writer(state) THEN "wait" ELSE "drain"]
  /\ UNCHANGED <<seen, spurious>>

(* The inner loop: the word is read until the bit is clear.                *)
AwaitClear(u) ==
  /\ at[u] = "wait"
  /\ ~Writer(state)
  /\ at' = [at EXCEPT ![u] = "or"]
  /\ UNCHANGED <<state, seen, spurious>>

(* A buggy step for mutation: the readers are not waited for.              *)
DrainNobody(u) ==
  /\ at[u] = "drain"
  /\ at' = [at EXCEPT ![u] = "writing"]
  /\ UNCHANGED <<state, seen, spurious>>

(* Phase 2: the readers leave. *)
Drain(u) ==
  /\ at[u] = "drain"
  /\ ReaderCount(state) = 0
  /\ at' = [at EXCEPT ![u] = "writing"]
  /\ UNCHANGED <<state, seen, spurious>>

(* A buggy step for mutation: the bit stays set.                           *)
StayWriter(u) ==
  /\ at[u] = "writing"
  /\ at' = [at EXCEPT ![u] = "out"]
  /\ UNCHANGED <<state, seen, spurious>>

(* ~WriteLock. *)
UnlockWrite(u) ==
  /\ at[u] = "writing"
  /\ state' = ReaderCount(state)
  /\ at' = [at EXCEPT ![u] = "out"]
  /\ UNCHANGED <<seen, spurious>>

ReadStep(u) == Load(u) \/ Exchange(u) \/ ExchangeFails(u) \/ UnlockRead(u)
WriteStep(u) == FetchOr(u) \/ AwaitClear(u) \/ Drain(u) \/ UnlockWrite(u)

RwNext == \E u \in Users :
  WantRead(u) \/ WantWrite(u) \/ ReadStep(u) \/ WriteStep(u)

RwSpec == RwInit /\ [][RwNext]_rwvars

(* Who is in a lock, or in a section it guards, is scheduled.              *)
RwFairness == \A u \in Users : WF_rwvars(ReadStep(u) \/ WriteStep(u))

-----------------------------------------------------------------------------
Reading == {u \in Users : at[u] = "reading"}
Writing == {u \in Users : at[u] = "writing"}
Claiming == {u \in Users : at[u] \in {"drain", "writing"}}

(* Types. *)
RwTypeOK ==
  /\ state \in Nat
  /\ at \in [Users -> {"out", "load", "cas", "reading",
                       "or", "wait", "drain", "writing"}]
  /\ seen \in [Users -> Nat]
  /\ spurious \in 0 .. MaxSpurious

(* While a writer is in, nobody else is, reader or writer; at any time the *)
(* two parts of the word are exactly what they are said to be, however     *)
(* loads, exchanges and fetches of several users fall between each other.  *)
RwExclusion ==
  /\ Writing # {} => Reading = {}
  /\ \A u, v \in Claiming : u = v
  /\ state = Cardinality(Reading) + (IF Claiming = {} THEN 0 ELSE WriterBit)

(* The lock keeps what ReadWriteLock promises; in particular no reader     *)
(* gets in once a writer has set the bit, although it loaded the word      *)
(* before ("Writer cannot be starved by new readers", line 24).            *)
Claimant == IF Claiming = {} THEN Nobody ELSE CHOOSE u \in Users : u \in Claiming
Entered == Writing # {}
Rw == INSTANCE ReadWriteLock WITH
        readers <- Reading, claimed <- Claimant, entered <- Entered
ImplementsRwLock == Rw!Spec

(* A writer that has set the bit gets in.                                  *)
WriterGetsIn == \A u \in Users : at[u] = "drain" ~> at[u] = "writing"

(* When users want the lock, one of them gets it.  No single user need: a  *)
(* reader can be overtaken by writers, and by other readers, forever.      *)
SomeUserGetsIn ==
  (\E u \in Users : at[u] \in {"load", "cas", "or", "wait", "drain"})
    ~> Reading \cup Writing # {}

=============================================================================
