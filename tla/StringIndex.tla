---------------------------- MODULE StringIndex -----------------------------
(***************************************************************************)
(* libnetdata/string/string.c: interned strings.  Equal strings share one  *)
(* STRING with a reference counter, so the rest of the agent compares them *)
(* by address.  One partition of the index is modelled, with its lock; the *)
(* lock is the readers-writer lock that RWSpinlock implements, and a       *)
(* critical section is two steps: the look into the index with the lock    *)
(* just taken, then the use of what was found and the unlock.              *)
(***************************************************************************)
EXTENDS Integers, FiniteSets

CONSTANTS
  Thread,
  Name,         \* the strings
  Entry,        \* addresses mallocz() can return for a STRING
  Null,         \* the NULL pointer, and the content of memory that is free
  Slot          \* tells apart the references a thread has to one STRING

ASSUME NullAssumption == Null \notin Entry /\ Null \notin Name

VARIABLES
  index,        \* JudyHSArray: the STRING of each name
  str,          \* the name in each STRING, Null where the memory is free
  refcount,     \* refcount of each STRING
  refs,         \* the references that threads have, which the code counts
  pc,           \* where each thread is
  arg,          \* the string passed to string_strdupz()
  ptr           \* the STRING found, created or to be deleted

vars == <<index, str, refcount, refs, pc, arg, ptr>>

Reference == Thread \X Entry \X Slot

\* Sections under the read lock and under the write lock.
Reading == {"acquire"}
Writing == {"insert", "unindexed"}

TypeOK ==
  /\ index \in [Name -> Entry \cup {Null}]
  /\ str \in [Entry -> Name \cup {Null}]
  /\ refcount \in [Entry -> Int]
  /\ refs \subseteq Reference
  /\ pc \in [Thread -> {"idle", "search", "retry", "delete"} \cup Reading \cup Writing]
  /\ arg \in [Thread -> Name \cup {Null}]
  /\ ptr \in [Thread -> Entry \cup {Null}]

Init ==
  /\ index = [n \in Name |-> Null]
  /\ str = [e \in Entry |-> Null]
  /\ refcount = [e \in Entry |-> 0]
  /\ refs = {}
  /\ pc = [t \in Thread |-> "idle"]
  /\ arg = [t \in Thread |-> Null]
  /\ ptr = [t \in Thread |-> Null]

Goto(t, where) == pc' = [pc EXCEPT ![t] = where]
Points(t, e) == ptr' = [ptr EXCEPT ![t] = e]

\* The readers-writer lock of the partition.
CanRead == \A u \in Thread : pc[u] \notin Writing
CanWrite == \A u \in Thread : pc[u] \notin Writing \cup Reading

\* Thread t gets one more reference to e.
Refer(t, e) ==
  \E s \in Slot : <<t, e, s>> \notin refs /\ refs' = refs \cup {<<t, e, s>>}

CanRefer(t, n) ==
  \E s \in Slot : \A e \in Entry : str[e] = n => <<t, e, s>> \notin refs
-----------------------------------------------------------------------------
\* string_strdupz(), string_strndupz(): the call.
Strdupz(t, n) ==
  /\ pc[t] = "idle" /\ CanRefer(t, n)
  /\ arg' = [arg EXCEPT ![t] = n]
  /\ Goto(t, "search")
  /\ UNCHANGED <<index, str, refcount, refs, ptr>>

\* string_index_search(): the read lock and JudyHSGet().
Search(t) ==
  /\ pc[t] = "search" /\ CanRead
  /\ Points(t, index[arg[t]])
  /\ Goto(t, IF index[arg[t]] = Null THEN "retry" ELSE "acquire")
  /\ UNCHANGED <<index, str, refcount, refs, arg>>

\* Mutant: the counter is incremented whatever its value.
CheckAndAcquireBlindly(t, failed) ==
  LET e == ptr[t] IN
  /\ refcount' = [refcount EXCEPT ![e] = @ + 1]
  /\ Refer(t, e)
  /\ Goto(t, "idle")

\* string_entry_check_and_acquire(): the compare-and-exchange loop adds one
\* to a counter that is above zero, or gives up.  The lock is then released.
CheckAndAcquire(t, failed) ==
  LET e == ptr[t] IN
  \/ /\ refcount[e] > 0
     /\ refcount' = [refcount EXCEPT ![e] = @ + 1]
     /\ Refer(t, e)
     /\ Goto(t, "idle")
  \/ /\ refcount[e] <= 0
     /\ Goto(t, failed)
     /\ UNCHANGED <<refcount, refs>>

\* The rest of string_index_search().
SearchAcquire(t) ==
  /\ pc[t] = "acquire"
  /\ CheckAndAcquire(t, "retry")
  /\ UNCHANGED <<index, str, arg, ptr>>

\* string_index_insert(): the write lock and JudyHSIns().
Insert(t) ==
  /\ pc[t] = "retry" /\ CanWrite
  /\ Points(t, index[arg[t]])
  /\ Goto(t, "insert")
  /\ UNCHANGED <<index, str, refcount, refs, arg>>

\* Mutant: an entry that is about to be deleted is replaced in the index.
InsertCreateOverDying(t) ==
  /\ pc[t] = "insert" /\ ptr[t] \notin {e \in Entry : refcount[e] > 0}
  /\ \E e \in Entry :
       /\ str[e] = Null
       /\ str' = [str EXCEPT ![e] = arg[t]]
       /\ refcount' = [refcount EXCEPT ![e] = 1]
       /\ index' = [index EXCEPT ![arg[t]] = e]
       /\ Points(t, e)
       /\ Refer(t, e)
  /\ Goto(t, "idle")
  /\ UNCHANGED arg

\* The rest of string_index_insert(), for a name that is not in the index.
InsertCreate(t) ==
  /\ pc[t] = "insert" /\ ptr[t] = Null
  /\ \E e \in Entry :
       /\ str[e] = Null
       /\ str' = [str EXCEPT ![e] = arg[t]]
       /\ refcount' = [refcount EXCEPT ![e] = 1]
       /\ index' = [index EXCEPT ![arg[t]] = e]
       /\ Points(t, e)
       /\ Refer(t, e)
  /\ Goto(t, "idle")
  /\ UNCHANGED arg

\* Mutant: the retry does not release the write lock.
InsertAcquireKeepsLock(t) ==
  /\ pc[t] = "insert" /\ ptr[t] # Null
  /\ CheckAndAcquire(t, "insert")
  /\ UNCHANGED <<index, str, arg, ptr>>

\* The rest of string_index_insert(), for one that is: an entry that another
\* thread is deleting is let go, and string_strdupz() tries again.
InsertAcquire(t) ==
  /\ pc[t] = "insert" /\ ptr[t] # Null
  /\ CheckAndAcquire(t, "retry")
  /\ UNCHANGED <<index, str, arg, ptr>>

\* string_dup() on a string the caller has a reference to.
Dup(t, e) ==
  /\ pc[t] = "idle" /\ \E s \in Slot : <<t, e, s>> \in refs
  /\ refcount' = [refcount EXCEPT ![e] = @ + 1]
  /\ Refer(t, e)
  /\ UNCHANGED <<index, str, pc, arg, ptr>>

\* string_freez(): the release, which takes no lock.
Freez(t, e) ==
  /\ pc[t] = "idle"
  /\ \E s \in Slot : <<t, e, s>> \in refs /\ refs' = refs \ {<<t, e, s>>}
  /\ refcount' = [refcount EXCEPT ![e] = @ - 1]
  /\ Points(t, e)
  /\ Goto(t, IF refcount[e] = 1 THEN "delete" ELSE "idle")
  /\ UNCHANGED <<index, str, arg>>

\* string_index_delete(): the write lock and JudyHSDel(), by name.
Delete(t) ==
  /\ pc[t] = "delete" /\ CanWrite
  /\ index' = [index EXCEPT ![str[ptr[t]]] = Null]
  /\ Goto(t, "unindexed")
  /\ UNCHANGED <<str, refcount, refs, arg, ptr>>

\* The rest of string_index_delete(): freez().
DeleteFree(t) ==
  /\ pc[t] = "unindexed"
  /\ str' = [str EXCEPT ![ptr[t]] = Null]
  /\ Goto(t, "idle")
  /\ UNCHANGED <<index, refcount, refs, arg, ptr>>

Locked(t) == Search(t) \/ Insert(t) \/ Delete(t)
Unlocking(t) == SearchAcquire(t) \/ InsertCreate(t) \/ InsertAcquire(t) \/ DeleteFree(t)

Next ==
  \E t \in Thread :
    \/ \E n \in Name : Strdupz(t, n)
    \/ Locked(t) \/ Unlocking(t)
    \/ \E e \in Entry : Dup(t, e) \/ Freez(t, e)

Spec == Init /\ [][Next]_vars

\* Threads run, and one that wants the lock is not passed over for ever.
FairSpec ==
  Spec /\ \A t \in Thread : WF_vars(Unlocking(t)) /\ SF_vars(Delete(t)) /\ WF_vars(Locked(t))
-----------------------------------------------------------------------------
RefsTo(e) == {r \in refs : r[2] = e}

(***************************************************************************)
(* string_strdupz(), string_freez(): the counter of a STRING in memory is  *)
(* the number of references to it, and no thread has a reference to, or is *)
(* about to touch, a STRING whose memory was freed.                        *)
(***************************************************************************)
NoUseAfterFree ==
  /\ \A r \in refs : str[r[2]] # Null
  /\ \A t \in Thread :
       pc[t] \in {"acquire", "insert", "delete", "unindexed"} /\ ptr[t] # Null => str[ptr[t]] # Null
  /\ \A e \in Entry :
       str[e] # Null => refcount[e] = Cardinality(RefsTo(e))

(***************************************************************************)
(* string.c: two references to equal strings are equal pointers, also      *)
(* while one thread deletes a string and others create it again.           *)
(***************************************************************************)
Interned ==
  \A r, q \in refs : str[r[2]] = str[q[2]] => r[2] = q[2]

(***************************************************************************)
(* string_freez(): a string whose last reference is gone is freed, however *)
(* many threads spin in string_strdupz() on its name.                      *)
(***************************************************************************)
EventuallyFreed ==
  \A e \in Entry : (str[e] # Null /\ refcount[e] = 0) ~> str[e] = Null
=============================================================================
