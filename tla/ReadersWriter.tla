--------------------------- MODULE ReadersWriter ----------------------------
(***************************************************************************)
(* What users of a read-write lock rely on: read locks are shared and may  *)
(* be taken again by a thread that holds one, the write lock is exclusive. *)
(* RWSpinlock implements this specification; the modules of the structures *)
(* that are protected by an RW_SPINLOCK use it as the meaning of the lock. *)
(***************************************************************************)
CONSTANT Hold           \* the read locks that can be held, by anyone

VARIABLES
  holds,                \* the read locks that are held
  writers               \* the threads that hold the write lock

Init == holds = {} /\ writers = {}

LockRead(h) ==
  /\ writers = {} /\ h \notin holds
  /\ holds' = holds \cup {h}
  /\ UNCHANGED writers

UnlockRead(h) ==
  /\ h \in holds
  /\ holds' = holds \ {h}
  /\ UNCHANGED writers

LockWrite ==
  /\ holds = {} /\ writers = {}
  /\ \E t \in writers' : writers' = {t}
  /\ UNCHANGED holds

UnlockWrite ==
  /\ writers # {} /\ writers' = {}
  /\ UNCHANGED holds

Next ==
  \/ \E h \in Hold : LockRead(h) \/ UnlockRead(h)
  \/ LockWrite
  \/ UnlockWrite

Spec == Init /\ [][Next]_<<holds, writers>>
=============================================================================
