----------------------------- MODULE RWSpinlock -----------------------------
(***************************************************************************)
(* libnetdata/locks/locks.c: SPINLOCK and RW_SPINLOCK, the locks of the    *)
(* dictionaries, the page cache, the metrics registry and the string       *)
(* index.  One step is one atomic access of the code.  A writer that finds *)
(* readers gives the spinlock back before it sleeps, so it waits without   *)
(* keeping readers out.  Every access is taken as sequentially consistent. *)
(***************************************************************************)
EXTENDS Integers, FiniteSets

CONSTANTS
  Thread,       \* the threads that use the lock
  MaxDepth      \* how many read locks one thread holds at once

ASSUME ThreadAssumption == IsFiniteSet(Thread)
ASSUME DepthAssumption == MaxDepth \in Nat \ {0}

\* A read lock that a thread holds: the k-th one it took.
Hold == Thread \X (1 .. MaxDepth)

Call == {"read", "write", "tryread", "trywrite"}

VARIABLES
  locked,       \* spinlock.locked
  readers,      \* rw_spinlock.readers
  call,         \* the function each thread is in, or was last in
  pc,           \* where in it
  holds         \* the read locks held, which the code only counts

vars == <<locked, readers, call, pc, holds>>

TypeOK ==
  /\ locked \in BOOLEAN
  /\ readers \in Int
  /\ call \in [Thread -> Call]
  /\ pc \in [Thread -> {"out", "load", "tas", "locked", "unlock", "writing"}]
  /\ holds \subseteq Hold

\* rw_spinlock_init()
Init ==
  /\ locked = FALSE
  /\ readers = 0
  /\ call = [t \in Thread |-> "read"]
  /\ pc = [t \in Thread |-> "out"]
  /\ holds = {}

Goto(t, where) == pc' = [pc EXCEPT ![t] = where]

ForReading(t) == call[t] \in {"read", "tryread"}
Blocking(t) == call[t] \in {"read", "write"}

\* t may take hold k next: it holds the ones below and not k.
Takes(t, k) ==
  /\ <<t, k>> \in Hold \ holds
  /\ k = 1 \/ <<t, k - 1>> \in holds
-----------------------------------------------------------------------------
\* A call of one of the four lock functions.  A thread nests read locks; it
\* asks for the write lock only when it holds nothing.
Enter(t, f) ==
  /\ pc[t] = "out"
  /\ IF f \in {"read", "tryread"} THEN \E k \in 1 .. MaxDepth : Takes(t, k)
                                  ELSE \A k \in 1 .. MaxDepth : <<t, k>> \notin holds
  /\ call' = [call EXCEPT ![t] = f]
  /\ Goto(t, "load")
  /\ UNCHANGED <<locked, readers, holds>>

\* The relaxed load in spinlock_lock() and spinlock_trylock().
Load(t) ==
  /\ pc[t] = "load"
  /\ \/ ~locked /\ Goto(t, "tas")
     \/ locked /\ ~Blocking(t) /\ Goto(t, "out")
  /\ UNCHANGED <<locked, readers, call, holds>>

\* The test-and-set: a blocking caller that loses spins from the load.
TestAndSet(t) ==
  /\ pc[t] = "tas"
  /\ locked' = TRUE
  /\ Goto(t, IF ~locked THEN "locked" ELSE IF Blocking(t) THEN "load" ELSE "out")
  /\ UNCHANGED <<readers, call, holds>>

\* rw_spinlock_read_lock(), rw_spinlock_tryread_lock(): count the reader.
CountReader(t) ==
  /\ pc[t] = "locked" /\ ForReading(t)
  /\ readers' = readers + 1
  /\ \E k \in 1 .. MaxDepth : Takes(t, k) /\ holds' = holds \cup {<<t, k>>}
  /\ Goto(t, "unlock")
  /\ UNCHANGED <<locked, call>>

\* Mutant: the writer does not look at the readers.
CheckReadersIgnored(t) ==
  /\ pc[t] = "locked" /\ ~ForReading(t)
  /\ Goto(t, "writing")
  /\ UNCHANGED <<locked, readers, call, holds>>

\* rw_spinlock_write_lock(), rw_spinlock_trywrite_lock(): the write lock is
\* the spinlock, kept, when there are no readers.
CheckReaders(t) ==
  /\ pc[t] = "locked" /\ ~ForReading(t)
  /\ Goto(t, IF readers = 0 THEN "writing" ELSE "unlock")
  /\ UNCHANGED <<locked, readers, call, holds>>

\* Mutant: a writer that finds readers keeps the spinlock while it waits.
UnlockKeptByWriter(t) ==
  /\ pc[t] = "unlock"
  /\ locked' = (call[t] = "write")
  /\ Goto(t, IF call[t] = "write" THEN "locked" ELSE "out")
  /\ UNCHANGED <<readers, call, holds>>

\* spinlock_unlock() inside the lock functions: a reader returns with its
\* lock, a writer that found readers tries again or gives up.
Unlock(t) ==
  /\ pc[t] = "unlock"
  /\ locked' = FALSE
  /\ Goto(t, IF call[t] = "write" THEN "load" ELSE "out")
  /\ UNCHANGED <<readers, call, holds>>

\* rw_spinlock_read_unlock() takes no lock.
ReadUnlock(t) ==
  /\ pc[t] = "out"
  /\ \E k \in 1 .. MaxDepth :
       /\ <<t, k>> \in holds /\ <<t, k + 1>> \notin holds
       /\ holds' = holds \ {<<t, k>>}
  /\ readers' = readers - 1
  /\ UNCHANGED <<locked, call, pc>>

\* rw_spinlock_write_unlock()
WriteUnlock(t) ==
  /\ pc[t] = "writing"
  /\ locked' = FALSE
  /\ Goto(t, "out")
  /\ UNCHANGED <<readers, call, holds>>

Inside(t) ==
  \/ Load(t) \/ TestAndSet(t) \/ CountReader(t) \/ CheckReaders(t) \/ Unlock(t)

Next ==
  \E t \in Thread :
    \/ \E f \in Call : Enter(t, f)
    \/ Inside(t)
    \/ ReadUnlock(t)
    \/ WriteUnlock(t)

Spec == Init /\ [][Next]_vars

\* A thread inside a lock function keeps running and leaves its critical
\* sections.  The spinlock itself is unfair; that a spinning thread does not
\* lose the race for it for ever is assumed, because a writer that found
\* readers sleeps before it tries again (tinysleep()) and every other holder
\* keeps it for a few instructions.
Fairness ==
  \A t \in Thread : /\ SF_vars(Inside(t))
                    /\ SF_vars(TestAndSet(t) /\ ~locked)
                    /\ WF_vars(WriteUnlock(t))
                    /\ SF_vars(ReadUnlock(t))

FairSpec == Spec /\ Fairness
-----------------------------------------------------------------------------
writers == {t \in Thread : pc[t] = "writing"}

(***************************************************************************)
(* rw_spinlock_*(): a writer excludes every reader and every other writer, *)
(* and the shared count agrees with the read locks that threads hold.      *)
(***************************************************************************)
Exclusion ==
  /\ readers = Cardinality(holds)
  /\ \A t \in writers : writers = {t} /\ holds = {}

(***************************************************************************)
(* rw_spinlock_*(): the spinlock and the counter implement a readers-      *)
(* writer lock.                                                            *)
(***************************************************************************)
RW == INSTANCE ReadersWriter

RWSpec == RW!Spec

(***************************************************************************)
(* rw_spinlock_write_lock() drops the spinlock before it sleeps, so a      *)
(* thread that takes a read lock, even while it holds one and a writer     *)
(* waits for it to leave, is given it.                                     *)
(***************************************************************************)
ReaderServed ==
  \A t \in Thread : (pc[t] = "load" /\ call[t] = "read") ~> (pc[t] = "unlock" /\ call[t] = "read")
=============================================================================
