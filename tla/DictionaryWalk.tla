--------------------------- MODULE DictionaryWalk ---------------------------
(***************************************************************************)
(* libnetdata/dictionary/dictionary-traversal.c: the walkthroughs, which   *)
(* run a callback on every item, added to the dictionary of Dictionary.    *)
(* The plain one moves on along the list after the callback; the sorted    *)
(* one first acquires all the items, and then runs without the lock.       *)
(***************************************************************************)
EXTENDS Dictionary

CONSTANTS
  Walks,        \* modes of dictionary_walkthrough_rw() in use
  Sorts         \* modes of dictionary_sorted_walkthrough_rw() in use

ASSUME WalkAssumption == Walks \subseteq {"r", "w", "R"} /\ Sorts \subseteq {"r", "w"}

Releasing(t, i) == F(IF mode[t] = "w" THEN "release_w" ELSE "release", i)

\* dictionary_walkthrough_rw(): the lock, and the first item.
Walkthrough(t, m) ==
  /\ stack[t] = <<>> /\ mode[t] = "none"
  /\ WalkLock(t, m)
  /\ mode' = [mode EXCEPT ![t] = m]
  /\ Start(t, <<F("step", First)>>)
  /\ UNCHANGED <<items, counts, cur, owed, held>>

\* Deleted items are passed over; another one is acquired ...
StepLoad(t) ==
  LET i == Top(t).it IN
  /\ At(t, "step") /\ i # Null
  /\ Do(t, IF Usable(i) THEN <<[Top(t) EXCEPT !.at = "step_cas", !.v = refcount[i]]>>
                         ELSE <<F("step", After(i))>>)
  /\ UNCHANGED <<items, counts, lock, walk, held>>

\* ... and given to the callback, without the lock in a reentrant walk.
StepAcquire(t) ==
  LET i == Top(t).it IN
  /\ At(t, "step_cas") /\ refcount[i] = Top(t).v
  /\ Acquire(i)
  /\ IF mode[t] = "R" THEN WalkUnlock(t) ELSE UNCHANGED lock
  /\ Do(t, <<F("callback", i)>>)
  /\ UNCHANGED <<items, walk, held>>

\* Mutant: a reentrant walk does not take the lock again.
StepReturnUnlocked(t) ==
  LET i == Top(t).it IN
  /\ At(t, "callback") /\ Len(stack[t]) = 1
  /\ \E next \in {After(i), Null} : Do(t, <<Releasing(t, i), F("step", next)>>)
  /\ UNCHANGED <<items, counts, lock, walk, held>>

\* The callback returns: the next item is read from this one, which is then
\* released, or the walk is over.
StepReturn(t) ==
  LET i == Top(t).it IN
  /\ At(t, "callback") /\ Len(stack[t]) = 1
  /\ IF mode[t] = "R" THEN WalkLock(t, "R") ELSE UNCHANGED lock
  /\ \E next \in {After(i), Null} : Do(t, <<Releasing(t, i), F("step", next)>>)
  /\ UNCHANGED <<items, counts, walk, held>>

StepEnd(t) ==
  /\ At(t, "step") /\ Top(t).it = Null
  /\ WalkUnlock(t)
  /\ mode' = [mode EXCEPT ![t] = "none"]
  /\ Do(t, <<>>)
  /\ UNCHANGED <<items, counts, cur, owed, held>>
-----------------------------------------------------------------------------
\* dictionary_sorted_walkthrough_rw(): the lock, and room for entries items.
SortedWalkthrough(t, m) ==
  /\ stack[t] = <<>> /\ mode[t] = "none"
  /\ WalkLock(t, m)
  /\ mode' = [mode EXCEPT ![t] = m]
  /\ Start(t, <<F("collect", First), [at |-> "sorted", it |-> Null, v |-> entries]>>)
  /\ UNCHANGED <<items, counts, cur, owed, held>>

\* The array is the frames between the two.
Room(t) == Len(stack[t]) - 2 < stack[t][Len(stack[t])].v

CollectLoad(t) ==
  LET i == Top(t).it IN
  /\ At(t, "collect") /\ i # Null /\ Room(t)
  /\ Do(t, IF Usable(i) THEN <<[Top(t) EXCEPT !.at = "collect_cas", !.v = refcount[i]]>>
                         ELSE <<F("collect", After(i))>>)
  /\ UNCHANGED <<items, counts, lock, walk, held>>

CollectAcquire(t) ==
  LET i == Top(t).it IN
  /\ At(t, "collect_cas") /\ refcount[i] = Top(t).v
  /\ Acquire(i)
  /\ Do(t, <<F("collect", After(i)), F("callback", i)>>)
  /\ UNCHANGED <<items, lock, walk, held>>

CollectEnd(t) ==
  /\ At(t, "collect") /\ (Top(t).it = Null \/ ~Room(t))
  /\ WalkUnlock(t)
  /\ Do(t, <<>>)
  /\ UNCHANGED <<items, counts, walk, held>>

\* Each item is given to the callback, or not after one that failed, and is
\* released as if the lock was still held.
SortedReturn(t) ==
  /\ At(t, "callback") /\ Len(stack[t]) > 1
  /\ Do(t, <<Releasing(t, Top(t).it)>>)
  /\ UNCHANGED <<items, counts, lock, walk, held>>

SortedEnd(t) ==
  /\ At(t, "sorted")
  /\ mode' = [mode EXCEPT ![t] = "none"]
  /\ Do(t, <<>>)
  /\ UNCHANGED <<items, counts, lock, cur, owed, held>>
-----------------------------------------------------------------------------
WalkNext ==
  \/ Next
  \/ \E t \in Thread :
       \/ \E m \in Walks : Walkthrough(t, m)
       \/ StepLoad(t) \/ StepAcquire(t) \/ Retry(t, "step_cas", "step")
       \/ StepReturn(t) \/ StepEnd(t)
       \/ \E m \in Sorts : SortedWalkthrough(t, m)
       \/ CollectLoad(t) \/ CollectAcquire(t) \/ Retry(t, "collect_cas", "collect")
       \/ CollectEnd(t) \/ SortedReturn(t) \/ SortedEnd(t)

WalkSpec == Init /\ [][WalkNext]_vars
-----------------------------------------------------------------------------
(***************************************************************************)
(* dictionary_walkthrough_rw(), dictionary_sorted_walkthrough_rw(): while  *)
(* callbacks and other threads delete items, the item a walk is going to,  *)
(* and those it still has to release, are in memory, and are counted.      *)
(***************************************************************************)
WalkSafe == NoUseAfterFree /\ CountedReferences

(***************************************************************************)
(* dictionary-traversal.c:160, of dictionary_walkthrough_rw(): "written in *)
(* such a way, that the callback can delete the active element": the item  *)
(* after the active one is still there when the walk goes on to it.        *)
(***************************************************************************)
CallbackCanDelete ==
  \A f \in Frames : FrameOf(f).at = "step" => FrameOf(f).it \in Allocated \cup {Null}
=============================================================================
