----------------------------- MODULE Dictionary -----------------------------
(***************************************************************************)
(* libnetdata/dictionary: a multi-threaded master dictionary, its index,   *)
(* its linked list, the reference counters of its items, delayed deletion, *)
(* garbage collection and traversal.                                       *)
(*                                                                         *)
(* A step is one access of the code to the shared counters and flags of an *)
(* item, or one section under the index lock: no section keeps that lock   *)
(* while it waits for the lock of the list.  A thread runs the frame at    *)
(* the head of its stack; with an empty stack it is in the code that calls *)
(* the dictionary.  The values of the items, the callbacks, the statistics *)
(* and the version are left out.                                           *)
(***************************************************************************)
EXTENDS Integers, FiniteSets, Sequences

CONSTANTS
  Thread, Name,
  Item,         \* addresses aral_mallocz() can return for an item
  Null,
  Slot,         \* tells apart the references a thread acquired on one item
  Mode,         \* the traversals threads make, of "r", "w" and "R"
  AddInFront,   \* DICT_OPTION_ADD_IN_FRONT
  MaxCreated    \* how many items are created

ASSUME DictionaryAssumption ==
  /\ Null \notin Item \cup Name \cup Thread
  /\ Mode \subseteq {"r", "w", "R"}
  /\ AddInFront \in BOOLEAN

Deleting == -100        \* REFCOUNT_DELETING

VARIABLES
  index,        \* the item of each name
  list,         \* items.list
  name,         \* the name of each item, Null where the memory is free
  refcount, deleted, creating,          \* the counter and the flags of an item
  entries, referenced, pending,         \* the counters of the dictionary
  writer, depth, readers,               \* the recursive lock of the list
  held,         \* the references the callers have acquired
  stack,        \* what each thread is doing
  mode, cur,    \* DICTFE: the traversal of each thread and its item
  owed,         \* items that traversal has still to offer
  created       \* how many items were created

items == <<index, list, name, creating, entries, created>>
counts == <<refcount, deleted, referenced, pending>>
lock == <<writer, depth, readers>>
walk == <<mode, cur, owed>>
vars == <<items, counts, lock, walk, held, stack>>

Pointer == Item \cup {Null}

Label == {"append", "unlock", "gc", "gc_lock", "scan", "scan_cas", "free_or_mark", "mark", "unlink", "free",
          "release", "decrement", "settle", "seek", "seek_cas", "arrive",
          "release_w", "remove_w", "end",
          "callback", "step", "step_cas", "collect", "collect_cas", "sorted"}

TypeOK ==
  /\ index \in [Name -> Pointer]
  /\ list \in Seq(Item)
  /\ name \in [Item -> Name \cup {Null}]
  /\ refcount \in [Item -> Int]
  /\ deleted \in [Item -> BOOLEAN] /\ creating \in [Item -> BOOLEAN]
  /\ entries \in Int /\ referenced \in Int /\ pending \in Int
  /\ writer \in Thread \cup {Null} /\ depth \in Nat /\ readers \subseteq Thread
  /\ held \subseteq Thread \X Item \X Slot
  /\ stack \in [Thread -> Seq([at : Label, it : Pointer, v : Int])]
  /\ mode \in [Thread -> {"none"} \cup Mode]
  /\ cur \in [Thread -> Pointer]
  /\ owed \in [Thread -> SUBSET Item]
  /\ created \in 0 .. MaxCreated

\* dictionary_create_internal()
Init ==
  /\ index = [n \in Name |-> Null]
  /\ list = <<>>
  /\ name = [i \in Item |-> Null]
  /\ refcount = [i \in Item |-> 0]
  /\ deleted = [i \in Item |-> FALSE] /\ creating = [i \in Item |-> FALSE]
  /\ entries = 0 /\ referenced = 0 /\ pending = 0
  /\ writer = Null /\ depth = 0 /\ readers = {}
  /\ held = {}
  /\ stack = [t \in Thread |-> <<>>]
  /\ mode = [t \in Thread |-> "none"]
  /\ cur = [t \in Thread |-> Null]
  /\ owed = [t \in Thread |-> {}]
  /\ created = 0
-----------------------------------------------------------------------------
\* Frames: a step replaces the head of the stack by the frames still to run.
F(at, it) == [at |-> at, it |-> it, v |-> 0]
Do(t, frames) == stack' = [stack EXCEPT ![t] = frames \o Tail(@)]
Start(t, frames) == stack' = [stack EXCEPT ![t] = frames \o @]
At(t, label) == stack[t] # <<>> /\ stack[t][1].at = label
Top(t) == stack[t][1]

\* The caller of the dictionary runs, maybe in a callback, and if it traverses
\* its mode allows other calls: a read traversal forbids them.
Free(t) == (stack[t] = <<>> \/ At(t, "callback")) /\ mode[t] # "r"

First == IF list = <<>> THEN Null ELSE list[1]
After(i) ==
  LET k == CHOOSE k \in 1 .. Len(list) : list[k] = i
  IN  IF k = Len(list) THEN Null ELSE list[k + 1]

\* ll_recursive_lock(), ll_recursive_unlock() for writing: the thread that is
\* the writer only counts its nested locks.
WriteLock(t) ==
  \/ writer = t /\ depth' = depth + 1 /\ UNCHANGED <<writer, readers>>
  \/ writer = Null /\ readers = {} /\ writer' = t /\ UNCHANGED <<depth, readers>>

WriteUnlock(t) ==
  /\ writer' = IF depth > 0 THEN writer ELSE Null
  /\ depth' = IF depth > 0 THEN depth - 1 ELSE 0
  /\ UNCHANGED readers

\* The same for a traversal, which reads unless its mode is "w".
WalkLock(t, m) ==
  IF m = "w" THEN WriteLock(t)
  ELSE writer = Null /\ readers' = readers \cup {t} /\ UNCHANGED <<writer, depth>>

WalkUnlock(t) ==
  IF mode[t] = "w" THEN WriteUnlock(t)
  ELSE readers' = readers \ {t} /\ UNCHANGED <<writer, depth>>

\* item_check_and_acquire_advanced() on a master refuses these.
Usable(i) == refcount[i] >= 0 /\ ~deleted[i]

\* ... and otherwise adds a reference.
Acquire(i) ==
  /\ refcount' = [refcount EXCEPT ![i] = @ + 1]
  /\ referenced' = referenced + (IF refcount[i] = 0 THEN 1 ELSE 0)
  /\ UNCHANGED <<deleted, pending>>

\* item_is_not_referenced_and_can_be_removed(): nobody can use it any more.
CanBeRemoved(i) == refcount[i] = 0 /\ ~creating[i]

Hold(t, i) == \E s \in Slot : <<t, i, s>> \notin held /\ held' = held \cup {<<t, i, s>>}

\* dict_item_free_with_hooks()
FreeItem(i) ==
  /\ entries' = entries - (IF deleted[i] THEN 0 ELSE 1)
  /\ name' = [name EXCEPT ![i] = Null]
  /\ owed' = [t \in Thread |-> owed[t] \ {i}]
-----------------------------------------------------------------------------
\* dictionary_set_and_acquire_item(): under the index lock, a new item ...
SetNew(t, n) ==
  /\ Free(t) /\ index[n] = Null /\ created < MaxCreated
  /\ \E i \in Item :
       /\ name[i] = Null
       /\ name' = [name EXCEPT ![i] = n]
       /\ index' = [index EXCEPT ![n] = i]
       /\ refcount' = [refcount EXCEPT ![i] = 1]
       /\ deleted' = [deleted EXCEPT ![i] = FALSE]
       /\ creating' = [creating EXCEPT ![i] = TRUE]
       /\ Hold(t, i)
       /\ Start(t, <<F("append", i)>>)
  /\ entries' = entries + 1 /\ referenced' = referenced + 1 /\ created' = created + 1
  /\ UNCHANGED <<list, pending, lock, walk>>

\* ... or the item there, acquired, its value reset.  dictionary_get_and_
\* acquire_item() acquires it in the same way.
Get(t, n) ==
  /\ Free(t) /\ index[n] # Null /\ Usable(index[n])
  /\ Acquire(index[n])
  /\ Hold(t, index[n])
  /\ UNCHANGED <<items, lock, walk, stack>>

\* dictionary_acquired_item_dup(), by a caller that has the item.
Dup(t, i) ==
  /\ Free(t) /\ \E s \in Slot : <<t, i, s>> \in held
  /\ refcount' = [refcount EXCEPT ![i] = @ + 1]
  /\ Hold(t, i)
  /\ UNCHANGED <<items, deleted, referenced, pending, lock, walk, stack>>

\* Mutant: an item deleted before it was linked is not linked.
LinkedListAddSkips(t) ==
  LET i == Top(t).it IN
  /\ At(t, "append")
  /\ WriteLock(t)
  /\ list' = IF deleted[i] THEN list ELSE IF AddInFront THEN <<i>> \o list ELSE Append(list, i)
  /\ creating' = [creating EXCEPT ![i] = FALSE]
  /\ Do(t, <<F("gc", Null), F("unlock", Null)>>)
  /\ UNCHANGED <<index, name, entries, created, counts, walk, held>>

\* item_linked_list_add(): the garbage collector runs under its lock.
LinkedListAdd(t) ==
  LET i == Top(t).it IN
  /\ At(t, "append")
  /\ WriteLock(t)
  /\ list' = IF AddInFront THEN <<i>> \o list ELSE Append(list, i)
  /\ creating' = [creating EXCEPT ![i] = FALSE]
  /\ Do(t, <<F("gc", Null), F("unlock", Null)>>)
  /\ UNCHANGED <<index, name, entries, created, counts, walk, held>>

\* ll_recursive_unlock()
Unlock(t) ==
  /\ At(t, "unlock")
  /\ WriteUnlock(t)
  /\ Do(t, <<>>)
  /\ UNCHANGED <<items, counts, walk, held>>
-----------------------------------------------------------------------------
\* item_release(): the flag is read ...
Release(t) ==
  /\ At(t, "release")
  /\ Do(t, <<[at |-> "decrement", it |-> Top(t).it, v |-> IF deleted[Top(t).it] THEN 1 ELSE 0]>>)
  /\ UNCHANGED <<items, counts, lock, walk, held>>

\* ... before the counter is decremented; who drops it to zero ...
Decrement(t) ==
  LET i == Top(t).it IN
  /\ At(t, "decrement")
  /\ refcount' = [refcount EXCEPT ![i] = @ - 1]
  /\ Do(t, IF refcount[i] = 1 THEN <<[Top(t) EXCEPT !.at = "settle", !.it = Null]>> ELSE <<>>)
  /\ UNCHANGED <<items, deleted, referenced, pending, lock, walk, held>>

\* ... then updates the counters of the dictionary.
Settle(t) ==
  /\ At(t, "settle")
  /\ pending' = pending + Top(t).v
  /\ referenced' = referenced - 1
  /\ Do(t, <<>>)
  /\ UNCHANGED <<items, refcount, deleted, lock, walk, held>>

\* dictionary_acquired_item_release()
Put(t, i) ==
  /\ Free(t)
  /\ \E s \in Slot : <<t, i, s>> \in held /\ held' = held \ {<<t, i, s>>}
  /\ Start(t, <<F("release", i)>>)
  /\ UNCHANGED <<items, counts, lock, walk>>
-----------------------------------------------------------------------------
\* Mutant: the item stays in the index.
DelKeepsIndex(t, n) ==
  /\ Free(t) /\ index[n] # Null
  /\ Start(t, <<F("free_or_mark", index[n])>>)
  /\ UNCHANGED <<items, counts, lock, walk, held>>

\* dict_item_del(): out of the index, under its lock ...
Del(t, n) ==
  /\ Free(t) /\ index[n] # Null
  /\ index' = [index EXCEPT ![n] = Null]
  /\ Start(t, <<F("free_or_mark", index[n])>>)
  /\ UNCHANGED <<list, name, creating, entries, created, counts, lock, walk, held>>

\* ... then dict_item_free_or_mark_deleted() takes an item without references
\* for itself; another one ...
FreeOrMark(t) ==
  LET i == Top(t).it IN
  /\ At(t, "free_or_mark")
  /\ \/ /\ CanBeRemoved(i)
        /\ refcount' = [refcount EXCEPT ![i] = Deleting]
        /\ Do(t, <<F("unlink", i), F("free", i)>>)
     \/ /\ ~CanBeRemoved(i)
        /\ Do(t, IF refcount[i] < 0 THEN <<>> ELSE <<F("mark", i)>>)
        /\ UNCHANGED refcount
  /\ UNCHANGED <<items, deleted, referenced, pending, lock, walk, held>>

\* ... is left to its last user: dict_item_set_deleted().
Mark(t) ==
  LET i == Top(t).it IN
  /\ At(t, "mark")
  /\ deleted' = [deleted EXCEPT ![i] = TRUE]
  /\ entries' = entries - (IF deleted[i] THEN 0 ELSE 1)
  /\ Do(t, <<>>)
  /\ UNCHANGED <<index, list, name, creating, created, refcount, referenced, pending, lock, walk, held>>

\* Mutant: the lock of the list is not released.
LinkedListRemoveKeepsLock(t) ==
  /\ At(t, "unlink")
  /\ WriteLock(t)
  /\ list' = SelectSeq(list, LAMBDA i : i # Top(t).it)
  /\ Do(t, <<F("gc", Null)>>)
  /\ UNCHANGED <<index, name, creating, entries, created, counts, walk, held>>

\* item_linked_list_remove()
LinkedListRemove(t) ==
  /\ At(t, "unlink")
  /\ WriteLock(t)
  /\ list' = SelectSeq(list, LAMBDA i : i # Top(t).it)
  /\ Do(t, <<F("gc", Null), F("unlock", Null)>>)
  /\ UNCHANGED <<index, name, creating, entries, created, counts, walk, held>>

FreeUnlinked(t) ==
  /\ At(t, "free")
  /\ FreeItem(Top(t).it)
  /\ Do(t, <<>>)
  /\ UNCHANGED <<index, list, creating, created, counts, lock, mode, cur, held>>
-----------------------------------------------------------------------------
\* dictionary_garbage_collect(), which returns early when nothing is pending.
GarbageCollect(t) ==
  /\ Free(t) /\ pending > 0
  /\ Start(t, <<F("gc_lock", Null)>>)
  /\ UNCHANGED <<items, counts, lock, walk, held>>

\* garbage_collect_pending_deletes(): is there work?
Gc(t) ==
  /\ At(t, "gc")
  /\ Do(t, IF pending > 0 THEN <<F("gc_lock", Null)>> ELSE <<>>)
  /\ UNCHANGED <<items, counts, lock, walk, held>>

GcLock(t) ==
  /\ At(t, "gc_lock")
  /\ WriteLock(t)
  /\ Do(t, <<F("scan", First)>>)
  /\ UNCHANGED <<items, counts, walk, held>>

\* Mutant: marked items are freed also while they are used.
ScanRemoveReferenced(t) ==
  LET i == Top(t).it IN
  /\ At(t, "scan") /\ i # Null /\ deleted[i]
  /\ list' = SelectSeq(list, LAMBDA j : j # i)
  /\ refcount' = [refcount EXCEPT ![i] = Deleting]
  /\ FreeItem(i)
  /\ pending' = pending - 1
  /\ Do(t, <<F("scan", IF pending = 1 THEN Null ELSE After(i))>>)
  /\ UNCHANGED <<index, creating, created, deleted, referenced, lock, mode, cur, held>>

\* Its loop: an item marked for deletion that nobody uses is unlinked and
\* freed, and the loop ends with the last one pending.
ScanRemove(t) ==
  LET i == Top(t).it IN
  /\ At(t, "scan") /\ i # Null /\ deleted[i] /\ CanBeRemoved(i)
  /\ list' = SelectSeq(list, LAMBDA j : j # i)
  /\ refcount' = [refcount EXCEPT ![i] = Deleting]
  /\ FreeItem(i)
  /\ pending' = pending - 1
  /\ Do(t, <<F("scan", IF pending = 1 THEN Null ELSE After(i))>>)
  /\ UNCHANGED <<index, creating, created, deleted, referenced, lock, mode, cur, held>>

\* Other items it cannot use are passed over, and one it can is about to be
\* acquired.
ScanLoad(t) ==
  LET i == Top(t).it IN
  /\ At(t, "scan") /\ i # Null /\ ~(deleted[i] /\ CanBeRemoved(i))
  /\ Do(t, IF Usable(i) THEN <<[Top(t) EXCEPT !.at = "scan_cas", !.v = refcount[i]]>>
                         ELSE <<F("scan", After(i))>>)
  /\ UNCHANGED <<items, counts, lock, walk, held>>

\* The compare-and-exchange of item_check_and_acquire_advanced(): the item is
\* acquired and released, ...
ScanAcquire(t) ==
  LET i == Top(t).it IN
  /\ At(t, "scan_cas") /\ refcount[i] = Top(t).v
  /\ Acquire(i)
  /\ Do(t, <<F("release", i), F("scan", After(i))>>)
  /\ UNCHANGED <<items, lock, walk, held>>

\* Mutant: an item whose counter changed is passed over.
RetrySkips(t, here, again) ==
  /\ At(t, here) /\ refcount[Top(t).it] # Top(t).v
  /\ Do(t, <<F(again, After(Top(t).it))>>)
  /\ UNCHANGED <<items, counts, lock, walk, held>>

\* ... or the counter changed and is looked at again.
Retry(t, here, again) ==
  /\ At(t, here) /\ refcount[Top(t).it] # Top(t).v
  /\ Do(t, <<F(again, Top(t).it)>>)
  /\ UNCHANGED <<items, counts, lock, walk, held>>

ScanEnd(t) ==
  /\ At(t, "scan") /\ Top(t).it = Null
  /\ WriteUnlock(t)
  /\ Do(t, <<>>)
  /\ UNCHANGED <<items, counts, walk, held>>
-----------------------------------------------------------------------------
\* dictionary_foreach_start_rw()
Foreach(t, m) ==
  /\ stack[t] = <<>> /\ mode[t] = "none"
  /\ WalkLock(t, m)
  /\ mode' = [mode EXCEPT ![t] = m]
  /\ owed' = [owed EXCEPT ![t] = {list[k] : k \in {k \in DOMAIN list : Usable(list[k])}}]
  /\ Start(t, <<F("seek", First)>>)
  /\ UNCHANGED <<items, counts, cur, held>>

\* dictionary_foreach_next(), while there is an item; a reentrant traversal
\* has the lock only inside.
ForeachNext(t) ==
  /\ stack[t] = <<>> /\ cur[t] # Null
  /\ IF mode[t] = "R" THEN WalkLock(t, "R") ELSE UNCHANGED lock
  /\ Start(t, <<F("seek", After(cur[t]))>>)
  /\ UNCHANGED <<items, counts, walk, held>>

\* The release of the item the traversal is at.
ReleaseCur(t) ==
  IF cur[t] = Null THEN <<>>
  ELSE <<F(IF mode[t] = "w" THEN "release_w" ELSE "release", cur[t])>>

\* Both look for the first item that can be acquired ...
SeekLoad(t) ==
  LET i == Top(t).it IN
  /\ At(t, "seek") /\ i # Null
  /\ Do(t, IF Usable(i) THEN <<[Top(t) EXCEPT !.at = "seek_cas", !.v = refcount[i]]>>
                         ELSE <<F("seek", After(i))>>)
  /\ UNCHANGED <<items, counts, lock, walk, held>>

\* Mutant: the counter is stored without comparing.
SeekAcquireBlindly(t) ==
  LET i == Top(t).it IN
  /\ At(t, "seek_cas")
  /\ refcount' = [refcount EXCEPT ![i] = Top(t).v + 1]
  /\ Do(t, ReleaseCur(t) \o <<F("arrive", i)>>)
  /\ cur' = [cur EXCEPT ![t] = Null]
  /\ UNCHANGED <<items, deleted, referenced, pending, lock, mode, owed, held>>

\* ... and only then release the one before.
SeekAcquire(t) ==
  LET i == Top(t).it IN
  /\ At(t, "seek_cas") /\ refcount[i] = Top(t).v
  /\ Acquire(i)
  /\ Do(t, ReleaseCur(t) \o <<F("arrive", i)>>)
  /\ cur' = [cur EXCEPT ![t] = Null]
  /\ UNCHANGED <<items, lock, mode, owed, held>>

SeekEnd(t) ==
  /\ At(t, "seek") /\ Top(t).it = Null
  /\ Do(t, ReleaseCur(t) \o <<F("arrive", Null)>>)
  /\ cur' = [cur EXCEPT ![t] = Null]
  /\ UNCHANGED <<items, counts, lock, mode, owed, held>>

\* The item, or the end, is given to the caller.
Arrive(t) ==
  /\ At(t, "arrive")
  /\ cur' = [cur EXCEPT ![t] = Top(t).it]
  /\ owed' = [owed EXCEPT ![t] = @ \ {Top(t).it}]
  /\ IF mode[t] = "R" THEN WalkUnlock(t) ELSE UNCHANGED lock
  /\ Do(t, <<>>)
  /\ UNCHANGED <<items, counts, mode, held>>

\* dict_item_release_and_check_if_it_is_deleted_and_can_be_removed_under_
\* this_lock_mode(), for a traversal that writes: read the flag, release ...
ReleaseW(t) ==
  LET i == Top(t).it IN
  /\ At(t, "release_w")
  /\ Do(t, <<F("release", i)>> \o (IF deleted[i] THEN <<F("remove_w", i)>> ELSE <<>>))
  /\ UNCHANGED <<items, counts, lock, walk, held>>

\* ... and take a deleted item that nobody uses for itself.
RemoveW(t) ==
  LET i == Top(t).it IN
  /\ At(t, "remove_w")
  /\ IF CanBeRemoved(i)
     THEN /\ refcount' = [refcount EXCEPT ![i] = Deleting]
          /\ pending' = pending - 1
          /\ Do(t, <<F("unlink", i), F("free", i)>>)
     ELSE Do(t, <<>>) /\ UNCHANGED <<refcount, pending>>
  /\ UNCHANGED <<items, deleted, referenced, lock, walk, held>>

\* dictionary_foreach_done(), at the end of the items or before.
ForeachDone(t) ==
  /\ stack[t] = <<>> /\ mode[t] # "none"
  /\ Start(t, ReleaseCur(t) \o <<F("end", Null)>>)
  /\ cur' = [cur EXCEPT ![t] = Null]
  /\ owed' = [owed EXCEPT ![t] = {}]
  /\ UNCHANGED <<items, counts, lock, mode, held>>

ForeachEnd(t) ==
  /\ At(t, "end")
  /\ IF mode[t] = "R" THEN UNCHANGED lock ELSE WalkUnlock(t)
  /\ mode' = [mode EXCEPT ![t] = "none"]
  /\ Do(t, <<>>)
  /\ UNCHANGED <<items, counts, cur, owed, held>>
-----------------------------------------------------------------------------
\* What a thread does inside the dictionary ...
Inside(t) ==
  \/ LinkedListAdd(t) \/ Unlock(t)
  \/ Release(t) \/ Decrement(t) \/ Settle(t)
  \/ FreeOrMark(t) \/ Mark(t) \/ LinkedListRemove(t) \/ FreeUnlinked(t)
  \/ Gc(t) \/ GcLock(t) \/ ScanRemove(t) \/ ScanLoad(t) \/ ScanAcquire(t) \/ ScanEnd(t)
  \/ Retry(t, "scan_cas", "scan") \/ Retry(t, "seek_cas", "seek")
  \/ SeekLoad(t) \/ SeekAcquire(t) \/ SeekEnd(t) \/ Arrive(t)
  \/ ReleaseW(t) \/ RemoveW(t) \/ ForeachEnd(t)

\* ... and the calls it makes.
Calls(t) ==
  \/ \E n \in Name : SetNew(t, n) \/ Get(t, n) \/ Del(t, n)
  \/ \E i \in Item : Dup(t, i) \/ Put(t, i)
  \/ GarbageCollect(t)
  \/ \E m \in Mode : Foreach(t, m)
  \/ ForeachNext(t) \/ ForeachDone(t)

Next == \E t \in Thread : Inside(t) \/ Calls(t)

Spec == Init /\ [][Next]_vars
\* Threads run: one inside the dictionary goes on, does not lose every race
\* for the lock of the list or for the counter of an item, and the body of a
\* traversal ends.
FairSpec ==
  Spec /\ \A t \in Thread : /\ SF_vars(Inside(t)) /\ SF_vars(ForeachDone(t))
                            /\ SF_vars(ScanAcquire(t)) /\ SF_vars(SeekAcquire(t))
-----------------------------------------------------------------------------
Allocated == {i \in Item : name[i] # Null}
Frames == UNION {{<<t, k>> : k \in DOMAIN stack[t]} : t \in Thread}
FrameOf(f) == stack[f[1]][f[2]]
Quiet == \A t \in Thread : stack[t] = <<>>

(***************************************************************************)
(* item_acquire(), item_release() and those that free an item: whatever a  *)
(* caller holds, a traversal is at, or a step still has to touch, and all  *)
(* that the index and the list contain, is an item that was not freed.     *)
(***************************************************************************)
NoUseAfterFree ==
  /\ \A h \in held : h[2] \in Allocated
  /\ \A t \in Thread : cur[t] \in Allocated \cup {Null}
  /\ \A f \in Frames : FrameOf(f).it \in Allocated \cup {Null}
  /\ \A n \in Name : index[n] \in Allocated \cup {Null}
  /\ \A k \in DOMAIN list : list[k] \in Allocated

\* The references to i: those of callers, of traversals, and of steps.
References(i) ==
  {h \in held : h[2] = i} \cup {t \in Thread : cur[t] = i}
    \cup {f \in Frames : /\ FrameOf(f).it = i
                         /\ FrameOf(f).at \in {"release", "decrement", "arrive", "release_w", "callback"}}

(***************************************************************************)
(* The counter of an item is the number of references to it until the item *)
(* is taken for deletion, and then it has none.                            *)
(***************************************************************************)
CountedReferences ==
  \A i \in Allocated :
    IF refcount[i] = Deleting THEN References(i) = {}
                              ELSE refcount[i] = Cardinality(References(i))

(***************************************************************************)
(* item_linked_list_add(), item_linked_list_remove(): every item is linked *)
(* once, from its addition until it is unlinked to be freed, also when it  *)
(* is deleted before it was added.                                         *)
(***************************************************************************)
LinkedOnce ==
  /\ \A j, k \in DOMAIN list : list[j] = list[k] => j = k
  /\ {list[k] : k \in DOMAIN list} =
       {i \in Allocated : \A f \in Frames :
          FrameOf(f).it = i =>
            /\ FrameOf(f).at # "append"
            /\ FrameOf(f).at = "free" => \E g \in Frames : FrameOf(g) = F("unlink", i)}

(***************************************************************************)
(* dict_item_del() takes an item out of the index before it marks or frees *)
(* it, so what a search or an insertion finds in the index can be used:    *)
(* the retry in dict_item_add_or_reset_value_and_acquire() is never needed *)
(* on a master dictionary.  And when no thread is inside, entries is the   *)
(* number of names in the index and referenced_items the number of items   *)
(* in use, and no item is lost: one that is not in the index is marked     *)
(* deleted for the garbage collector.  (The run checks the types with it.) *)
(***************************************************************************)
Accounted ==
  /\ TypeOK
  /\ \A n \in Name : index[n] # Null => Usable(index[n]) /\ name[index[n]] = n
  /\ referenced >= Cardinality({i \in Allocated : refcount[i] > 0})
  /\ Quiet => /\ entries = Cardinality({n \in Name : index[n] # Null})
              /\ referenced = Cardinality({i \in Allocated : refcount[i] > 0})
              /\ \A i \in Allocated : deleted[i] \/ index[name[i]] = i

(***************************************************************************)
(* dictionary_foreach_next(): a traversal that reached the end has offered *)
(* every item that was there when it started and still is, whatever other  *)
(* threads, or its own loop, added and deleted meanwhile.                  *)
(***************************************************************************)
OfferedAll ==
  \A t \in Thread :
    stack[t] = <<>> /\ mode[t] # "none" /\ cur[t] = Null => \A i \in owed[t] : ~Usable(i)

(***************************************************************************)
(* ll_recursive_lock(): every call of the dictionary returns, with nested  *)
(* write locks, traversals that write, and garbage collection under them.  *)
(***************************************************************************)
CallsReturn ==
  \A t \in Thread : (stack[t] # <<>>) ~> (stack[t] = <<>>)
=============================================================================
