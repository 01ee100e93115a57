----------------------------- MODULE LocksProofs -----------------------------
(***************************************************************************)
(* The spinlock is a mutex, for any set of threads; the reader-writer lock *)
(* is one for any number of users that its count of readers has room for.  *)
(***************************************************************************)
EXTENDS SpinLock, RwLock, FiniteSetTheorems, TLAPS

-----------------------------------------------------------------------------
(* The spinlock.                                                           *)

IInv == TypeOK /\ Exclusion

LEMMA InitIInv == SpinInit => IInv
BY DEF SpinInit, IInv, TypeOK, Exclusion, Inside

LEMMA StepIInv == IInv /\ [SpinNext]_spinvars => IInv'
<1> SUFFICES ASSUME IInv, [SpinNext]_spinvars
             PROVE  IInv'
  OBVIOUS
<1> USE DEF IInv, TypeOK, Exclusion, Inside
<1>1. ASSUME NEW p \in Threads, Call(p)
      PROVE  IInv'
  BY <1>1 DEF Call
<1>2. ASSUME NEW p \in Threads, TestAndSet(p)
      PROVE  IInv'
  <2>1. CASE flag
    BY <1>2, <2>1 DEF TestAndSet
  <2>2. CASE ~flag
    BY <1>2, <2>2 DEF TestAndSet
  <2> QED
    BY <2>1, <2>2
<1>3. ASSUME NEW p \in Threads, Test(p)
      PROVE  IInv'
  BY <1>3 DEF Test
<1>4. ASSUME NEW p \in Threads, Unlock(p)
      PROVE  IInv'
  BY <1>4 DEF Unlock
<1>5. CASE UNCHANGED spinvars
  BY <1>5 DEF spinvars
<1> QED
  BY <1>1, <1>2, <1>3, <1>4, <1>5 DEF SpinNext, Step

(* At most one thread is in a section the lock guards.                     *)
THEOREM MutualExclusion == SpinSpec => []Exclusion
<1>1. IInv => Exclusion
  BY DEF IInv
<1> QED
  BY <1>1, InitIInv, StepIInv, PTL DEF SpinSpec

(* Each step of the flag is a step of the mutex or none at all.            *)
THEOREM LockIsMutex == SpinSpec => ImplementsMutex
<1>1. SpinInit => Lock!Init
  BY DEF SpinInit, Lock!Init, Inside
<1>2. IInv /\ [SpinNext]_spinvars => [Lock!Next]_Inside
  <2> SUFFICES ASSUME IInv, [SpinNext]_spinvars
               PROVE  Lock!Next \/ Inside' = Inside
    BY DEF Lock!Next
  <2> USE DEF IInv, TypeOK, Exclusion
  <2>1. ASSUME NEW p \in Threads, Call(p)
        PROVE  Inside' = Inside
    BY <2>1 DEF Call, Inside
  <2>2. ASSUME NEW p \in Threads, TestAndSet(p)
        PROVE  Lock!Acquire(p) \/ Inside' = Inside
    <3>1. CASE flag
      BY <2>2, <3>1 DEF TestAndSet, Inside
    <3>2. CASE ~flag
      BY <2>2, <3>2 DEF TestAndSet, Inside, Lock!Acquire
    <3> QED
      BY <3>1, <3>2
  <2>3. ASSUME NEW p \in Threads, Test(p)
        PROVE  Inside' = Inside
    BY <2>3 DEF Test, Inside
  <2>4. ASSUME NEW p \in Threads, Unlock(p)
        PROVE  Lock!Release(p)
    BY <2>4 DEF Unlock, Inside, Lock!Release
  <2>5. CASE UNCHANGED spinvars
    BY <2>5 DEF spinvars, Inside
  <2> QED
    BY <2>1, <2>2, <2>3, <2>4, <2>5 DEF SpinNext, Step, Lock!Next
<1>3. SpinSpec => []IInv
  BY InitIInv, StepIInv, PTL DEF SpinSpec
<1> QED
  BY <1>1, <1>2, <1>3, PTL DEF SpinSpec, ImplementsMutex, Lock!Spec

-----------------------------------------------------------------------------
(* The reader-writer lock.                                                 *)

(* What a reader expects to find is a word without the writer's bit.       *)
RwInv ==
  /\ RwTypeOK
  /\ RwExclusion
  /\ \A u \in Users : at[u] = "cas" => seen[u] < WriterBit

(* The count is that of the readers, and has room for them.                *)
LEMMA Counting ==
  ASSUME NEW S \in SUBSET Users
  PROVE  /\ IsFiniteSet(S)
         /\ Cardinality(S) \in Nat
         /\ Cardinality(S) < WriterBit
         /\ Cardinality(S) = 0 <=> S = {}
<1>1. IsFiniteSet(S) /\ Cardinality(S) <= Cardinality(Users)
  BY FS_Subset, RwAssumption
<1>2. Cardinality(S) \in Nat /\ Cardinality(Users) \in Nat
  BY <1>1, FS_CardinalityType, RwAssumption
<1>3. Cardinality(S) = 0 <=> S = {}
  BY <1>1, FS_EmptySet
<1> QED
  BY <1>1, <1>2, <1>3, RwAssumption

(* The word, read as the code reads it.                                    *)
LEMMA WordParts ==
  ASSUME RwInv
  PROVE  /\ Cardinality(Reading) \in Nat
         /\ Writer(state) <=> Claiming # {}
         /\ ReaderCount(state) = Cardinality(Reading)
         /\ ReaderCount(state) = 0 <=> Reading = {}
<1>1. Reading \in SUBSET Users
  BY DEF Reading
<1>2. /\ Cardinality(Reading) \in Nat
      /\ Cardinality(Reading) < WriterBit
      /\ Cardinality(Reading) = 0 <=> Reading = {}
  BY <1>1, Counting
<1> QED
  BY <1>2, RwAssumption DEF RwInv, RwExclusion, Writer, ReaderCount

LEMMA InitRwInv == RwInit => RwInv
<1> SUFFICES ASSUME RwInit PROVE RwInv
  OBVIOUS
<1>1. Reading = {} /\ Writing = {} /\ Claiming = {}
  BY DEF RwInit, Reading, Writing, Claiming
<1>2. Cardinality(Reading) = 0
  BY <1>1, FS_EmptySet
<1> QED
  BY <1>1, <1>2, RwAssumption DEF RwInit, RwInv, RwTypeOK, RwExclusion

(* A step that moves nobody into or out of the lock and leaves the word.   *)
LEMMA QuietStep ==
  ASSUME RwInv, RwTypeOK', state' = state,
         Reading' = Reading, Writing' = Writing, Claiming' = Claiming,
         \A u \in Users : at'[u] = "cas" => seen'[u] < WriterBit
  PROVE  RwInv'
BY DEF RwInv, RwExclusion

(* What each step does to the word and to those in the lock.               *)
LEMMA ExchangeEffect ==
  ASSUME RwInv, NEW u \in Users, Exchange(u)
  PROVE  /\ Claiming = {} /\ u \notin Reading
         /\ Reading' = Reading \cup {u}
         /\ Writing' = Writing /\ Claiming' = Claiming
         /\ state' = Cardinality(Reading')
<1>1. Claiming = {}
  BY WordParts, RwAssumption DEF Exchange, RwInv, RwTypeOK, Writer
<1>2. /\ u \notin Reading /\ Reading' = Reading \cup {u}
      /\ Writing' = Writing /\ Claiming' = Claiming
  BY DEF Exchange, RwInv, RwTypeOK, Reading, Writing, Claiming
<1>3. Cardinality(Reading \cup {u}) = Cardinality(Reading) + 1
  <2>1. Reading \in SUBSET Users
    BY DEF Reading
  <2>2. IsFiniteSet(Reading)
    BY <2>1, Counting
  <2> QED
    BY <1>2, <2>2, FS_AddElement
<1>4. state' = Cardinality(Reading) + 1
  BY <1>1, WordParts DEF Exchange, RwInv, RwExclusion
<1> QED
  BY <1>1, <1>2, <1>3, <1>4

LEMMA UnlockReadEffect ==
  ASSUME RwInv, NEW u \in Users, UnlockRead(u)
  PROVE  /\ u \in Reading
         /\ Reading' = Reading \ {u}
         /\ Writing' = Writing /\ Claiming' = Claiming
         /\ state' = Cardinality(Reading') + (IF Claiming = {} THEN 0 ELSE WriterBit)
         /\ state' \in Nat
<1>1. /\ u \in Reading /\ Reading' = Reading \ {u}
      /\ Writing' = Writing /\ Claiming' = Claiming
  BY DEF UnlockRead, RwInv, RwTypeOK, Reading, Writing, Claiming
<1>2. /\ Cardinality(Reading \ {u}) = Cardinality(Reading) - 1
      /\ Cardinality(Reading) \in Nat
      /\ Cardinality(Reading \ {u}) \in Nat
  <2>1. Reading \in SUBSET Users /\ Reading \ {u} \in SUBSET Users
    BY DEF Reading
  <2>2. IsFiniteSet(Reading) /\ Cardinality(Reading) \in Nat
        /\ Cardinality(Reading \ {u}) \in Nat
    BY <2>1, Counting
  <2> QED
    BY <1>1, <2>2, FS_RemoveElement
<1> QED
  BY <1>1, <1>2, RwAssumption DEF UnlockRead, RwInv, RwExclusion

LEMMA FetchOrEffect ==
  ASSUME RwInv, NEW u \in Users, FetchOr(u)
  PROVE  /\ Reading' = Reading /\ Writing' = Writing /\ u \notin Reading
         /\ IF Claiming = {}
            THEN Claiming' = {u} /\ state' = state + WriterBit
            ELSE Claiming' = Claiming /\ state' = state
<1>1. CASE Claiming = {}
  <2>1. at' = [at EXCEPT ![u] = "drain"] /\ state' = state + WriterBit
    BY <1>1, WordParts DEF FetchOr
  <2> QED
    BY <1>1, <2>1 DEF FetchOr, RwInv, RwTypeOK, Reading, Writing, Claiming
<1>2. CASE Claiming # {}
  <2>1. at' = [at EXCEPT ![u] = "wait"] /\ state' = state
    BY <1>2, WordParts DEF FetchOr
  <2> QED
    BY <1>2, <2>1 DEF FetchOr, RwInv, RwTypeOK, Reading, Writing, Claiming
<1> QED
  BY <1>1, <1>2

LEMMA DrainEffect ==
  ASSUME RwInv, NEW u \in Users, Drain(u)
  PROVE  /\ Reading = {} /\ Reading' = {}
         /\ Writing = {} /\ Writing' = {u}
         /\ Claiming = {u} /\ Claiming' = {u}
         /\ state' = state
<1>1. Reading = {}
  BY WordParts DEF Drain
<1>2. u \in Claiming /\ u \notin Writing
  BY DEF Drain, Claiming, Writing
<1>3. Claiming = {u}
  BY <1>2 DEF RwInv, RwExclusion, Claiming
<1>4. Writing = {}
  BY <1>2, <1>3 DEF Claiming, Writing
<1> QED
  BY <1>1, <1>3, <1>4 DEF Drain, RwInv, RwTypeOK, Reading, Writing, Claiming

LEMMA UnlockWriteEffect ==
  ASSUME RwInv, NEW u \in Users, UnlockWrite(u)
  PROVE  /\ Reading = {} /\ Reading' = {}
         /\ Writing = {u} /\ Writing' = {}
         /\ Claiming = {u} /\ Claiming' = {}
         /\ state' = 0
<1>1. u \in Writing /\ u \in Claiming
  BY DEF UnlockWrite, Claiming, Writing
<1>2. Reading = {}
  BY <1>1 DEF RwInv, RwExclusion
<1>3. Claiming = {u} /\ Writing = {u}
  BY <1>1 DEF RwInv, RwExclusion, Claiming, Writing
<1>4. state' = 0
  BY <1>2, WordParts DEF UnlockWrite
<1> QED
  BY <1>2, <1>3, <1>4 DEF UnlockWrite, RwInv, RwTypeOK, Reading, Writing, Claiming

LEMMA RwTypeStep == RwInv /\ [RwNext]_rwvars => RwTypeOK'
<1> SUFFICES ASSUME RwInv, [RwNext]_rwvars PROVE RwTypeOK'
  OBVIOUS
<1> USE RwAssumption DEF RwInv, RwTypeOK
<1>1. ASSUME NEW u \in Users, WantRead(u) \/ WantWrite(u) \/ Load(u) PROVE RwTypeOK'
  BY <1>1 DEF WantRead, WantWrite, Load
<1>2. ASSUME NEW u \in Users, Exchange(u) PROVE RwTypeOK'
  BY <1>2 DEF Exchange
<1>3. ASSUME NEW u \in Users, ExchangeFails(u) PROVE RwTypeOK'
  BY <1>3 DEF ExchangeFails
<1>4. ASSUME NEW u \in Users, UnlockRead(u) PROVE RwTypeOK'
  BY <1>4, UnlockReadEffect DEF UnlockRead
<1>5. ASSUME NEW u \in Users, FetchOr(u) PROVE RwTypeOK'
  BY <1>5 DEF FetchOr, Writer
<1>6. ASSUME NEW u \in Users, AwaitClear(u) \/ Drain(u) PROVE RwTypeOK'
  BY <1>6 DEF AwaitClear, Drain
<1>7. ASSUME NEW u \in Users, UnlockWrite(u) PROVE RwTypeOK'
  <2>1. state' = 0
    BY <1>7, UnlockWriteEffect
  <2> QED
    BY <1>7, <2>1 DEF UnlockWrite
<1>8. CASE UNCHANGED rwvars
  BY <1>8 DEF rwvars
<1> QED
  BY <1>1, <1>2, <1>3, <1>4, <1>5, <1>6, <1>7, <1>8 DEF RwNext, ReadStep, WriteStep

LEMMA StepRwInv == RwInv /\ [RwNext]_rwvars => RwInv'
<1> SUFFICES ASSUME RwInv, [RwNext]_rwvars PROVE RwInv'
  OBVIOUS
<1>0. RwTypeOK'
  BY RwTypeStep
<1>1. ASSUME NEW u \in Users, WantRead(u) \/ WantWrite(u) \/ AwaitClear(u)
      PROVE  RwInv'
  <2>1. Reading' = Reading /\ Writing' = Writing /\ Claiming' = Claiming
    BY <1>1 DEF WantRead, WantWrite, AwaitClear, RwInv, RwTypeOK, Reading, Writing, Claiming
  <2>2. state' = state /\ \A v \in Users : at'[v] = "cas" => seen'[v] < WriterBit
    BY <1>1 DEF WantRead, WantWrite, AwaitClear, RwInv, RwTypeOK
  <2> QED
    BY <1>0, <2>1, <2>2, QuietStep
<1>2. ASSUME NEW u \in Users, Load(u) PROVE RwInv'
  <2>1. Reading' = Reading /\ Writing' = Writing /\ Claiming' = Claiming
    BY <1>2 DEF Load, RwInv, RwTypeOK, Reading, Writing, Claiming
  <2>2. state' = state /\ \A v \in Users : at'[v] = "cas" => seen'[v] < WriterBit
    BY <1>2, RwAssumption DEF Load, RwInv, RwTypeOK, Writer
  <2> QED
    BY <1>0, <2>1, <2>2, QuietStep
<1>3. ASSUME NEW u \in Users, ExchangeFails(u) PROVE RwInv'
  <2>1. Reading' = Reading /\ Writing' = Writing /\ Claiming' = Claiming
    BY <1>3 DEF ExchangeFails, RwInv, RwTypeOK, Reading, Writing, Claiming
  <2>2. state' = state /\ \A v \in Users : at'[v] = "cas" => seen'[v] < WriterBit
    BY <1>3 DEF ExchangeFails, RwInv, RwTypeOK
  <2> QED
    BY <1>0, <2>1, <2>2, QuietStep
<1>4. ASSUME NEW u \in Users,
             Exchange(u) \/ UnlockRead(u) \/ FetchOr(u) \/ Drain(u) \/ UnlockWrite(u)
      PROVE  \A v \in Users : at'[v] = "cas" => seen'[v] < WriterBit
  BY <1>4 DEF Exchange, UnlockRead, FetchOr, Drain, UnlockWrite, RwInv, RwTypeOK
<1>5. ASSUME NEW u \in Users, Exchange(u) PROVE RwInv'
  <2>1. Claiming' = {} /\ Writing' = {}
    BY <1>5, ExchangeEffect DEF Writing, Claiming
  <2>2. Cardinality(Reading') \in Nat /\ state' = Cardinality(Reading')
    BY <1>5, <1>0, ExchangeEffect DEF RwTypeOK
  <2> QED
    BY <1>0, <1>4, <1>5, <2>1, <2>2 DEF RwInv, RwExclusion
<1>6. ASSUME NEW u \in Users, UnlockRead(u) PROVE RwInv'
  BY <1>0, <1>4, <1>6, UnlockReadEffect DEF RwInv, RwExclusion
<1>7. ASSUME NEW u \in Users, FetchOr(u) PROVE RwInv'
  <2>1. CASE Claiming = {}
    <3>1. Writing' = {} /\ Reading' = Reading /\ Claiming' = {u}
          /\ state' = state + WriterBit
      BY <1>7, <2>1, FetchOrEffect DEF Writing, Claiming
    <3>2. state' = Cardinality(Reading') + WriterBit
      BY <2>1, <3>1, WordParts DEF RwInv, RwExclusion
    <3> QED
      BY <1>0, <1>4, <1>7, <3>1, <3>2 DEF RwInv, RwExclusion
  <2>2. CASE Claiming # {}
    BY <1>0, <1>4, <1>7, <2>2, FetchOrEffect DEF RwInv, RwExclusion
  <2> QED
    BY <2>1, <2>2
<1>8. ASSUME NEW u \in Users, Drain(u) PROVE RwInv'
  BY <1>0, <1>4, <1>8, DrainEffect DEF RwInv, RwExclusion
<1>9. ASSUME NEW u \in Users, UnlockWrite(u) PROVE RwInv'
  <2>1. Cardinality(Reading') = 0
    BY <1>9, UnlockWriteEffect, FS_EmptySet
  <2> QED
    BY <1>0, <1>4, <1>9, <2>1, UnlockWriteEffect DEF RwInv, RwExclusion
<1>10. CASE UNCHANGED rwvars
  BY <1>10 DEF rwvars, RwInv, RwTypeOK, RwExclusion, Reading, Writing, Claiming
<1> QED
  BY <1>1, <1>2, <1>3, <1>5, <1>6, <1>7, <1>8, <1>9, <1>10
     DEF RwNext, ReadStep, WriteStep

LEMMA RwInvHolds == RwSpec => []RwInv
BY InitRwInv, StepRwInv, PTL DEF RwSpec

(* A writer is alone, and the word says how many readers there are and     *)
(* whether a writer has claimed the lock.                                  *)
THEOREM WriterIsAlone == RwSpec => []RwExclusion
<1>1. RwInv => RwExclusion
  BY DEF RwInv
<1> QED
  BY <1>1, RwInvHolds, PTL

(* Who is in the lock decides what the abstract lock sees.                 *)
LEMMA SameInside ==
  ASSUME Writing' = Writing, Claiming' = Claiming
  PROVE  Claimant' = Claimant /\ Entered' = Entered
<1>1. Claimant' = Claimant
  BY DEF Claimant
<1>2. Entered' = Entered
  BY DEF Entered
<1> QED
  BY <1>1, <1>2

(* Every step of the word is a step of the abstract lock or none at all.   *)
THEOREM LockIsReadWriteLock == RwSpec => ImplementsRwLock
<1>1. RwInit => Rw!Init
  BY DEF RwInit, Rw!Init, Reading, Writing, Claiming, Claimant, Entered
<1>2. RwInv /\ RwInv' /\ [RwNext]_rwvars
        => [Rw!Next]_<<Reading, Claimant, Entered>>
  <2> SUFFICES ASSUME RwInv, [RwNext]_rwvars
               PROVE  Rw!Next \/ UNCHANGED <<Reading, Claimant, Entered>>
    OBVIOUS
  <2>1. ASSUME NEW u \in Users,
               WantRead(u) \/ WantWrite(u) \/ AwaitClear(u) \/ Load(u)
                 \/ ExchangeFails(u)
        PROVE  UNCHANGED <<Reading, Claimant, Entered>>
    <3>1. Reading' = Reading /\ Writing' = Writing /\ Claiming' = Claiming
      BY <2>1 DEF WantRead, WantWrite, AwaitClear, Load, ExchangeFails, RwInv,
                  RwTypeOK, Reading, Writing, Claiming
    <3> QED
      BY <3>1, SameInside
  <2>2. ASSUME NEW u \in Users, Exchange(u) PROVE Rw!EnterRead(u)
    <3>1. Claimant' = Claimant /\ Entered' = Entered /\ Claimant = Nobody
      BY <2>2, ExchangeEffect, SameInside DEF Claimant
    <3> QED
      BY <2>2, <3>1, ExchangeEffect DEF Rw!EnterRead
  <2>3. ASSUME NEW u \in Users, UnlockRead(u) PROVE Rw!LeaveRead(u)
    <3>1. Claimant' = Claimant /\ Entered' = Entered
      BY <2>3, UnlockReadEffect, SameInside
    <3> QED
      BY <2>3, <3>1, UnlockReadEffect DEF Rw!LeaveRead
  <2>4. ASSUME NEW u \in Users, FetchOr(u)
        PROVE  Rw!Claim(u) \/ UNCHANGED <<Reading, Claimant, Entered>>
    <3>1. CASE Claiming = {}
      <4>1. Claimant = Nobody /\ Claimant' = u
        BY <2>4, <3>1, FetchOrEffect DEF Claimant
      <4>2. Entered' = Entered
        BY <2>4, FetchOrEffect DEF Entered
      <4> QED
        BY <2>4, <4>1, <4>2, FetchOrEffect DEF Rw!Claim
    <3>2. CASE Claiming # {}
      BY <2>4, <3>2, FetchOrEffect, SameInside
    <3> QED
      BY <3>1, <3>2
  <2>5. ASSUME NEW u \in Users, Drain(u) PROVE Rw!EnterWrite(u)
    <3>1. Claimant = u /\ Claimant' = u
      BY <2>5, DrainEffect DEF Claimant
    <3>2. ~Entered /\ Entered'
      BY <2>5, DrainEffect DEF Entered
    <3> QED
      BY <2>5, <3>1, <3>2, DrainEffect, Zenon DEF Rw!EnterWrite
  <2>6. ASSUME NEW u \in Users, UnlockWrite(u) PROVE Rw!LeaveWrite(u)
    <3>1. Claimant = u /\ Claimant' = Nobody
      BY <2>6, UnlockWriteEffect DEF Claimant
    <3>2. Entered /\ ~Entered'
      BY <2>6, UnlockWriteEffect DEF Entered
    <3> QED
      BY <2>6, <3>1, <3>2, UnlockWriteEffect DEF Rw!LeaveWrite
  <2>7. CASE UNCHANGED rwvars
    BY <2>7, SameInside DEF rwvars, Reading, Writing, Claiming
  <2> QED
    BY <2>1, <2>2, <2>3, <2>4, <2>5, <2>6, <2>7
       DEF RwNext, ReadStep, WriteStep, Rw!Next
<1> QED
  BY <1>1, <1>2, RwInvHolds, PTL DEF RwSpec, ImplementsRwLock, Rw!Spec

=============================================================================
