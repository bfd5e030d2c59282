-------------------------- MODULE RWSpinlockProofs --------------------------
(***************************************************************************)
(* The read-write spinlock is a readers-writer lock, for any number of     *)
(* threads and any nesting of read locks.                                  *)
(***************************************************************************)
EXTENDS RWSpinlock, FiniteSetTheorems, TLAPS

\* The thread is between a successful test-and-set and the unlock.
Owns(t) == pc[t] \in {"locked", "unlock", "writing"}

\* The spinlock is held by at most one thread, and is set while it is.
SpinlockInv ==
  /\ \A t, u \in Thread : Owns(t) /\ Owns(u) => t = u
  /\ \A t \in Thread : Owns(t) => locked

\* The counter counts the read locks, and a writer sees none.
ReadersInv ==
  /\ readers = Cardinality(holds)
  /\ \A t \in Thread : pc[t] = "writing" => holds = {}

IInv == TypeOK /\ SpinlockInv /\ ReadersInv

(***************************************************************************)
(* rw_spinlock.readers counts finitely many read locks.                    *)
(***************************************************************************)
LEMMA HoldFinite ==
  ASSUME TypeOK
  PROVE  IsFiniteSet(holds)
  <1>1. IsFiniteSet(1 .. MaxDepth) BY FS_Interval, DepthAssumption
  <1>2. IsFiniteSet(Hold) BY <1>1, ThreadAssumption, FS_Product DEF Hold
  <1> QED BY <1>2, FS_Subset DEF TypeOK

(***************************************************************************)
(* rw_spinlock_init() establishes the invariant.                           *)
(***************************************************************************)
LEMMA InitIInv == Init => IInv
  <1> SUFFICES ASSUME Init PROVE IInv OBVIOUS
  <1>1. TypeOK
    <2>0. readers \in Int /\ holds \subseteq Hold BY DEF Init
    <2>1. locked \in BOOLEAN BY Zenon DEF Init
    <2>2. call \in [Thread -> Call] BY DEF Init, Call
    <2>3. pc \in [Thread -> {"out", "load", "tas", "locked", "unlock", "writing"}] BY DEF Init
    <2> QED BY <2>0, <2>1, <2>2, <2>3 DEF TypeOK
  <1>2. SpinlockInv BY DEF Init, SpinlockInv, Owns
  <1>3. ReadersInv BY FS_EmptySet DEF Init, ReadersInv
  <1> QED BY <1>1, <1>2, <1>3 DEF IInv

(***************************************************************************)
(* Every step of a lock function, by any thread, preserves the invariant   *)
(* and is a step of a readers-writer lock or leaves that lock unchanged.   *)
(***************************************************************************)
LEMMA NextStep ==
  ASSUME IInv, [Next]_vars
  PROVE  IInv' /\ [RW!Next]_<<holds, writers>>
  <1> USE DEF Goto, IInv
  <1>1. ASSUME NEW t \in Thread, NEW f \in Call, Enter(t, f)
        PROVE  IInv' /\ [RW!Next]_<<holds, writers>>
    <2>1. TypeOK' BY <1>1 DEF Enter, TypeOK
    <2>2. SpinlockInv' BY <1>1 DEF Enter, TypeOK, SpinlockInv, Owns
    <2>3. ReadersInv' BY <1>1 DEF Enter, TypeOK, ReadersInv
    <2>4. UNCHANGED <<holds, writers>> BY <1>1 DEF Enter, TypeOK, writers
    <2> QED BY <2>1, <2>2, <2>3, <2>4
  <1>2. ASSUME NEW t \in Thread, Load(t)
        PROVE  IInv' /\ [RW!Next]_<<holds, writers>>
    <2>1. TypeOK' BY <1>2 DEF Load, TypeOK
    <2>2. SpinlockInv' BY <1>2 DEF Load, TypeOK, SpinlockInv, Owns
    <2>3. ReadersInv' BY <1>2 DEF Load, TypeOK, ReadersInv
    <2>4. UNCHANGED <<holds, writers>> BY <1>2 DEF Load, TypeOK, writers
    <2> QED BY <2>1, <2>2, <2>3, <2>4
  <1>3. ASSUME NEW t \in Thread, TestAndSet(t)
        PROVE  IInv' /\ [RW!Next]_<<holds, writers>>
    <2>1. TypeOK' BY <1>3 DEF TestAndSet, TypeOK
    <2>2. SpinlockInv'
      <3>1. CASE locked BY <1>3, <3>1 DEF TestAndSet, TypeOK, SpinlockInv, Owns
      <3>2. CASE ~locked BY <1>3, <3>2 DEF TestAndSet, TypeOK, SpinlockInv, Owns
      <3> QED BY <3>1, <3>2
    <2>3. ReadersInv' BY <1>3 DEF TestAndSet, TypeOK, ReadersInv
    <2>4. UNCHANGED <<holds, writers>> BY <1>3 DEF TestAndSet, TypeOK, writers
    <2> QED BY <2>1, <2>2, <2>3, <2>4
  <1>4. ASSUME NEW t \in Thread, CountReader(t)
        PROVE  IInv' /\ [RW!Next]_<<holds, writers>>
    <2>1. PICK k \in 1 .. MaxDepth : Takes(t, k) /\ holds' = holds \cup {<<t, k>>}
      BY <1>4 DEF CountReader
    <2>2. <<t, k>> \in Hold /\ <<t, k>> \notin holds BY <2>1 DEF Takes
    <2>3. \A u \in Thread : pc[u] # "writing" /\ pc'[u] # "writing"
      BY <1>4 DEF CountReader, TypeOK, SpinlockInv, Owns
    <2>4. TypeOK' BY <1>4, <2>1, <2>2 DEF CountReader, TypeOK
    <2>5. SpinlockInv' BY <1>4 DEF CountReader, TypeOK, SpinlockInv, Owns
    <2>6. Cardinality(holds') = Cardinality(holds) + 1
      BY <2>1, <2>2, HoldFinite, FS_AddElement
    <2>7. ReadersInv' BY <1>4, <2>3, <2>6 DEF CountReader, ReadersInv
    <2>8. RW!LockRead(<<t, k>>) BY <2>1, <2>2, <2>3 DEF RW!LockRead, writers
    <2> QED BY <2>2, <2>4, <2>5, <2>7, <2>8 DEF RW!Next
  <1>5. ASSUME NEW t \in Thread, CheckReaders(t)
        PROVE  IInv' /\ [RW!Next]_<<holds, writers>>
    <2>1. TypeOK' BY <1>5 DEF CheckReaders, TypeOK
    <2>2. SpinlockInv' BY <1>5 DEF CheckReaders, TypeOK, SpinlockInv, Owns
    <2>3. readers = 0 => holds = {} BY HoldFinite, FS_EmptySet DEF ReadersInv
    <2>4. ReadersInv' BY <1>5, <2>3 DEF CheckReaders, TypeOK, ReadersInv
    <2>5. \A u \in Thread : pc[u] # "writing"
      BY <1>5 DEF CheckReaders, TypeOK, SpinlockInv, Owns
    <2>6. CASE readers = 0
      <3>1. writers = {} /\ writers' = {t}
        BY <1>5, <2>5, <2>6 DEF CheckReaders, TypeOK, writers
      <3>2. RW!LockWrite BY <1>5, <2>3, <2>6, <3>1 DEF CheckReaders, RW!LockWrite
      <3> QED BY <2>1, <2>2, <2>4, <3>2 DEF RW!Next
    <2>7. CASE readers # 0
      <3>1. UNCHANGED <<holds, writers>>
        BY <1>5, <2>5, <2>7 DEF CheckReaders, TypeOK, writers
      <3> QED BY <2>1, <2>2, <2>4, <3>1
    <2> QED BY <2>6, <2>7
  <1>6. ASSUME NEW t \in Thread, Unlock(t)
        PROVE  IInv' /\ [RW!Next]_<<holds, writers>>
    <2>1. TypeOK' BY <1>6 DEF Unlock, TypeOK
    <2>2. SpinlockInv' BY <1>6 DEF Unlock, TypeOK, SpinlockInv, Owns
    <2>3. ReadersInv' BY <1>6 DEF Unlock, TypeOK, ReadersInv
    <2>4. UNCHANGED <<holds, writers>> BY <1>6 DEF Unlock, TypeOK, writers
    <2> QED BY <2>1, <2>2, <2>3, <2>4
  <1>7. ASSUME NEW t \in Thread, ReadUnlock(t)
        PROVE  IInv' /\ [RW!Next]_<<holds, writers>>
    <2>1. PICK k \in 1 .. MaxDepth : <<t, k>> \in holds /\ holds' = holds \ {<<t, k>>}
      BY <1>7 DEF ReadUnlock
    <2>2. TypeOK' BY <1>7, <2>1 DEF ReadUnlock, TypeOK
    <2>3. SpinlockInv' BY <1>7 DEF ReadUnlock, SpinlockInv, Owns
    <2>4. Cardinality(holds') = Cardinality(holds) - 1
      BY <2>1, HoldFinite, FS_RemoveElement
    <2>5. ReadersInv' BY <1>7, <2>1, <2>4 DEF ReadUnlock, ReadersInv
    <2>6. writers' = writers BY <1>7 DEF ReadUnlock, writers
    <2>7. RW!UnlockRead(<<t, k>>) BY <2>1, <2>6 DEF RW!UnlockRead
    <2>8. <<t, k>> \in Hold BY <2>1 DEF TypeOK
    <2> QED BY <2>2, <2>3, <2>5, <2>7, <2>8 DEF RW!Next
  <1>8. ASSUME NEW t \in Thread, WriteUnlock(t)
        PROVE  IInv' /\ [RW!Next]_<<holds, writers>>
    <2>1. TypeOK' BY <1>8 DEF WriteUnlock, TypeOK
    <2>2. SpinlockInv' BY <1>8 DEF WriteUnlock, TypeOK, SpinlockInv, Owns
    <2>3. ReadersInv' BY <1>8 DEF WriteUnlock, TypeOK, ReadersInv
    <2>4. writers # {} /\ writers' = {}
      BY <1>8 DEF WriteUnlock, TypeOK, writers, SpinlockInv, Owns
    <2>5. RW!UnlockWrite BY <1>8, <2>4 DEF WriteUnlock, RW!UnlockWrite
    <2> QED BY <2>1, <2>2, <2>3, <2>5 DEF RW!Next
  <1>9. CASE UNCHANGED vars
    BY <1>9 DEF vars, TypeOK, SpinlockInv, ReadersInv, Owns, writers
  <1> QED BY <1>1, <1>2, <1>3, <1>4, <1>5, <1>6, <1>7, <1>8, <1>9 DEF Next, Inside

(***************************************************************************)
(* rw_spinlock_*(): a writer is alone, and the counter is exact.           *)
(***************************************************************************)
THEOREM ExclusionHolds == Spec => [](TypeOK /\ Exclusion)
  <1>1. IInv /\ [Next]_vars => IInv' BY NextStep
  <1>2. IInv => TypeOK /\ Exclusion
    BY DEF IInv, SpinlockInv, ReadersInv, Owns, Exclusion, writers
  <1> QED BY InitIInv, <1>1, <1>2, PTL DEF Spec

(***************************************************************************)
(* rw_spinlock_*(): the implementation is a readers-writer lock.           *)
(***************************************************************************)
THEOREM Refinement == Spec => RWSpec
  <1>1. Init => RW!Init BY DEF Init, RW!Init, writers
  <1>2. IInv /\ [Next]_vars => IInv' BY NextStep
  <1>3. IInv /\ [Next]_vars => [RW!Next]_<<holds, writers>> BY NextStep
  <1> QED BY InitIInv, <1>1, <1>2, <1>3, PTL DEF Spec, RW!Spec, RWSpec
=============================================================================
