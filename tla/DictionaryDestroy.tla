------------------------- MODULE DictionaryDestroy --------------------------
(***************************************************************************)
(* libnetdata/dictionary/dictionary.c: the destruction of dictionaries,    *)
(* at once or, when items are still referenced, left for later.  An item   *)
(* is used or not: what its counter goes through is in Dictionary.  The    *)
(* owner of a dictionary makes no other call while it destroys it; items   *)
(* that were acquired before are released whenever their users are done.   *)
(***************************************************************************)
EXTENDS Naturals, FiniteSets, Sequences

CONSTANTS
  Dict, Item,
  MaxCreated    \* how many times each dictionary is created

VARIABLES
  live,         \* the dictionaries whose memory is allocated
  destroyed,    \* DICT_FLAG_DESTROYED
  linked,       \* the items of each dictionary, in its list
  used,         \* those that are referenced: referenced_items counts them
  queue,        \* dictionaries_waiting_to_be_destroyed
  created

vars == <<live, destroyed, linked, used, queue, created>>

Init ==
  /\ live = {} /\ destroyed = {}
  /\ linked = [d \in Dict |-> {}]
  /\ used = [d \in Dict |-> {}]
  /\ queue = <<>>
  /\ created = [d \in Dict |-> 0]

\* cleanup_destroyed_dictionaries() frees these, with
\* dictionary_free_all_resources().
Cleaned == {d \in {queue[k] : k \in DOMAIN queue} : used[d] = {}}

\* What is left when the dictionaries of gone are freed.
Without(f, gone) == [d \in Dict |-> IF d \in gone THEN {} ELSE f[d]]

Cleanup == queue' = SelectSeq(queue, LAMBDA d : d \notin Cleaned)
-----------------------------------------------------------------------------
\* dictionary_create_internal()
Create(d) ==
  /\ d \notin live /\ created[d] < MaxCreated
  /\ Cleanup
  /\ live' = (live \ Cleaned) \cup {d}
  /\ destroyed' = destroyed \ (Cleaned \cup {d})
  /\ linked' = Without(linked, Cleaned)
  /\ created' = [created EXCEPT ![d] = @ + 1]
  /\ UNCHANGED used

\* dict_item_add_or_reset_value_and_acquire() refuses a destroyed dictionary.
Set(d, i) ==
  /\ d \in live \ destroyed /\ i \notin linked[d]
  /\ linked' = [linked EXCEPT ![d] = @ \cup {i}]
  /\ used' = [used EXCEPT ![d] = @ \cup {i}]
  /\ UNCHANGED <<live, destroyed, queue, created>>

\* dict_item_find_and_acquire() does too.
Get(d, i) ==
  /\ d \in live \ destroyed /\ i \in linked[d] \ used[d]
  /\ used' = [used EXCEPT ![d] = @ \cup {i}]
  /\ UNCHANGED <<live, destroyed, linked, queue, created>>

\* dictionary_acquired_item_release(), of the last reference.
Release(d, i) ==
  /\ i \in used[d]
  /\ used' = [used EXCEPT ![d] = @ \ {i}]
  /\ UNCHANGED <<live, destroyed, linked, queue, created>>

\* dictionary_queue_for_destruction(), of a dictionary with this flag.
Queued(d, flag) == IF flag THEN <<>> ELSE <<d>>

\* Mutant: an item that is referenced does not stop the destruction.
DestroyUsed(d) ==
  /\ d \in live \ destroyed
  /\ Cleanup
  /\ live' = live \ (Cleaned \cup {d})
  /\ destroyed' = (destroyed \cup {d}) \ Cleaned
  /\ linked' = Without(linked, Cleaned \cup {d})
  /\ UNCHANGED <<used, created>>

\* dictionary_destroy(): sets the flag; without references frees everything
\* at once, else flushes the dictionary, which frees the items not used and
\* marks the others, and queues it.
Destroy(d) ==
  /\ d \in live \ destroyed
  /\ destroyed' = (destroyed \cup {d}) \ Cleaned
  /\ \/ /\ used[d] = {}
        /\ Cleanup
        /\ live' = live \ (Cleaned \cup {d})
        /\ linked' = Without(linked, Cleaned \cup {d})
     \/ /\ used[d] # {}
        /\ queue' = Queued(d, TRUE) \o SelectSeq(queue, LAMBDA e : e \notin Cleaned)
        /\ live' = live \ Cleaned
        /\ linked' = [Without(linked, Cleaned) EXCEPT ![d] = used[d]]
  /\ UNCHANGED <<used, created>>

\* A dictionary is created somewhere else in the agent: here it cleans up.
CreateOther ==
  /\ Cleanup
  /\ live' = live \ Cleaned
  /\ destroyed' = destroyed \ Cleaned
  /\ linked' = Without(linked, Cleaned)
  /\ UNCHANGED <<used, created>>

Next ==
  \/ CreateOther
  \/ \E d \in Dict :
       \/ Create(d) \/ Destroy(d)
       \/ \E i \in Item : Set(d, i) \/ Get(d, i) \/ Release(d, i)

Spec == Init /\ [][Next]_vars

\* Users release what they acquired, and dictionaries go on being created.
FairSpec ==
  Spec /\ WF_vars(CreateOther) /\ \A d \in Dict, i \in Item : WF_vars(Release(d, i))
-----------------------------------------------------------------------------
(***************************************************************************)
(* dictionary_destroy(), cleanup_destroyed_dictionaries(): a dictionary is *)
(* not freed while an item of it is referenced, and an item that is in use *)
(* stays in the list of its dictionary.                                    *)
(***************************************************************************)
NotFreedInUse ==
  \A d \in Dict : used[d] # {} => d \in live /\ used[d] \subseteq linked[d]

(***************************************************************************)
(* dictionary_destroy(): every step keeps that, and once a dictionary is   *)
(* destroyed the references to its items only go away, until it is freed.  *)
(***************************************************************************)
KeptForItsUsers ==
  [][/\ NotFreedInUse'
     /\ \A d \in Dict : d \in live \cap destroyed => used'[d] \subseteq used[d]]_vars

(***************************************************************************)
(* dictionary/README.md:172: "Once the last item in the dictionary is      *)
(* released, the dictionary is automatically destroyed too."               *)
(***************************************************************************)
EventuallyFreed ==
  \A d \in Dict : d \in live \cap destroyed ~> d \notin live
=============================================================================
