---------------------------- MODULE SenderThread ----------------------------
(***************************************************************************)
(* streaming/sender.c, rrdpush.c, receiver.c and database/rrdhost.c: the   *)
(* life of the sender thread of a host that a child streams to this agent. *)
(* The receiver of the child collects, and spawns the sender when there is *)
(* none; the sender stops when the receiver leaves, and the host may then  *)
(* be archived, which frees the sender structure, and come back.  A thread *)
(* left behind by that is taken to still read its host from the structure. *)
(* What a running sender does is in StreamSender.                          *)
(***************************************************************************)
EXTENDS Naturals, FiniteSets

CONSTANTS
  Thread,       \* sender threads; one that ended can be created again
  Null

ASSUME NullAssumption == Null \notin Thread

VARIABLES
  receiver,     \* where the receiver of the child is
  orphan,       \* RRDHOST_FLAG_ORPHAN
  archived,     \* RRDHOST_FLAG_ARCHIVED
  alloc,        \* host->sender is allocated, RRDPUSH_SENDER_INITIALIZED
  enabled,      \* RRDHOST_OPTION_SENDER_ENABLED
  spawn,        \* RRDHOST_FLAG_RRDPUSH_SENDER_SPAWN
  tid,          \* sender->tid
  shutdown,     \* sender->exit.shutdown
  thread,       \* host->rrdpush_sender_thread
  cancelled,    \* the threads signalled to cancel
  life,         \* where each thread is
  stop          \* where the thread that archives the host is

sender == <<spawn, tid, shutdown, thread, cancelled, life>>

host == <<receiver, orphan, archived, alloc, enabled, stop>>

vars == <<host, sender>>

\* From rrdhost_set_sender() to rrdhost_clear_sender___while_having_sender_mutex().
Active(t) == life[t] \in {"set", "loop", "leaving"}

Init ==
  /\ receiver = "here" /\ orphan = FALSE /\ archived = FALSE
  /\ alloc = TRUE /\ enabled = TRUE
  /\ spawn = FALSE /\ tid = Null /\ shutdown = FALSE /\ thread = Null
  /\ cancelled = {}
  /\ life = [t \in Thread |-> "none"]
  /\ stop = "no"

Goto(t, l) == life' = [life EXCEPT ![t] = l]
-----------------------------------------------------------------------------
\* rrdpush_sender_thread_spawn(), by a collector that finds the host not
\* ready; a thread that cannot be created is tried again later.
Spawn(t) ==
  /\ receiver = "here" /\ enabled /\ alloc
  /\ ~spawn /\ life[t] = "none"
  /\ Goto(t, "created")
  /\ thread' = t /\ cancelled' = cancelled \ {t}
  /\ spawn' = TRUE
  /\ UNCHANGED <<host, tid, shutdown>>

\* rrdpush_sender_thread() returns at once when streaming is disabled.
Start(t) ==
  /\ life[t] = "created"
  /\ Goto(t, IF enabled /\ alloc THEN "enabled" ELSE "none")
  /\ UNCHANGED <<host, spawn, tid, shutdown, thread, cancelled>>

\* rrdhost_set_sender(): another sender may be there.
SetSender(t) ==
  /\ life[t] = "enabled"
  /\ IF alloc /\ tid = Null
     THEN tid' = t /\ spawn' = TRUE /\ Goto(t, "set")
     ELSE Goto(t, "none") /\ UNCHANGED <<tid, spawn>>
  /\ UNCHANGED <<host, shutdown, thread, cancelled>>

\* rrdpush_sender_pipe_close(), to open it: the thread returns if it cannot,
\* and stays registered; such a thread is not counted among those that ended.
OpenPipe(t) ==
  /\ life[t] = "set"
  /\ Goto(t, "loop") \/ Goto(t, "failed")
  /\ UNCHANGED <<host, spawn, tid, shutdown, thread, cancelled>>

\* rrdhost_sender_should_exit()
ShouldExit(t) == t \in cancelled \/ ~enabled \/ shutdown \/ orphan

\* Mutant: the sender is cleared before the socket and the pipe are closed.
LeaveCleared(t) ==
  /\ life[t] = "loop" /\ ShouldExit(t)
  /\ Goto(t, "leaving")
  /\ tid' = Null /\ shutdown' = FALSE /\ spawn' = FALSE
  /\ UNCHANGED <<host, thread, cancelled>>

\* The loop of rrdpush_sender_thread() ends.
Leave(t) ==
  /\ life[t] = "loop" /\ ShouldExit(t)
  /\ Goto(t, "leaving")
  /\ UNCHANGED <<host, spawn, tid, shutdown, thread, cancelled>>

\* Mutant: the spawn flag is not cleared.
ClearKeepsSpawn(t) ==
  /\ life[t] = "leaving"
  /\ tid' = Null /\ shutdown' = FALSE
  /\ Goto(t, "none")
  /\ UNCHANGED <<host, spawn, thread, cancelled>>

\* rrdhost_clear_sender___while_having_sender_mutex()
ClearSender(t) ==
  /\ life[t] = "leaving"
  /\ IF tid = t
     THEN tid' = Null /\ shutdown' = FALSE /\ spawn' = FALSE
     ELSE UNCHANGED <<tid, shutdown, spawn>>
  /\ Goto(t, "none")
  /\ UNCHANGED <<host, thread, cancelled>>
-----------------------------------------------------------------------------
\* rrdpush_sender_thread_stop(), the part under the sender lock.
Stop ==
  IF alloc /\ spawn THEN shutdown' = TRUE /\ cancelled' = cancelled \cup {thread}
  ELSE UNCHANGED <<shutdown, cancelled>>

\* rrdhost_clear_receiver() stops the sender, does not wait for it,
ReceiverLeaves ==
  /\ receiver = "here" /\ receiver' = "leaving"
  /\ Stop
  /\ UNCHANGED <<orphan, archived, alloc, enabled, stop, spawn, tid, thread, life>>

\* and later makes the host an orphan.
ReceiverGone ==
  /\ receiver = "leaving" /\ receiver' = "gone"
  /\ orphan' = TRUE
  /\ UNCHANGED <<archived, alloc, enabled, stop, sender>>

\* rrdhost_update(), for a receiver that arrives: a host that was archived
\* gets a new sender structure from rrdhost_initialize_rrdpush_sender().
Update ==
  /\ receiver = "gone" /\ receiver' = "found"
  /\ archived' = FALSE
  /\ IF archived /\ ~alloc
     THEN alloc' = TRUE /\ enabled' = TRUE /\ tid' = Null /\ shutdown' = FALSE
     ELSE UNCHANGED <<alloc, enabled, tid, shutdown>>
  /\ UNCHANGED <<orphan, stop, spawn, thread, cancelled, life>>

\* rrdhost_set_receiver()
ReceiverArrives ==
  /\ receiver = "found" /\ receiver' = "here"
  /\ orphan' = FALSE
  /\ UNCHANGED <<archived, alloc, enabled, stop, sender>>

\* rrdhost_should_be_removed(): nobody uses the host, and time is not modelled.
ShouldBeRemoved == orphan /\ receiver \in {"gone", "found"}

\* svc_rrdhost_cleanup_orphan_hosts(), for an orphan host whose time is over:
\* rrdhost_streaming_sender_structures_free() stops the sender,
Archive ==
  /\ stop = "no"
  /\ ShouldBeRemoved /\ ~archived
  /\ enabled' = FALSE
  /\ stop' = IF alloc THEN "waiting" ELSE "freed"
  /\ Stop
  /\ UNCHANGED <<receiver, orphan, archived, alloc, spawn, tid, thread, life>>

\* waits for it, and frees the structure.
Free ==
  /\ stop = "waiting" /\ tid = Null
  /\ stop' = "freed" /\ alloc' = FALSE
  /\ UNCHANGED <<receiver, orphan, archived, enabled, sender>>

\* The end of rrdhost_free___while_having_rrd_wrlock().
Archived ==
  /\ stop = "freed" /\ stop' = "no"
  /\ archived' = TRUE /\ orphan' = TRUE
  /\ UNCHANGED <<receiver, alloc, enabled, sender>>
-----------------------------------------------------------------------------
Running(t) ==
  Start(t) \/ SetSender(t) \/ OpenPipe(t) \/ Leave(t) \/ ClearSender(t)

Next ==
  \/ ReceiverLeaves \/ ReceiverGone \/ Update \/ ReceiverArrives
  \/ Archive \/ Free \/ Archived
  \/ \E t \in Thread : Spawn(t) \/ Running(t)

Spec == Init /\ [][Next]_vars

\* Threads run, a receiver that is here goes on collecting, and the thread that
\* waits looks again: it sleeps 10 ms at a time.
FairSpec ==
  /\ Spec
  /\ WF_vars(Free) /\ WF_vars(\E t \in Thread : Spawn(t))
  /\ \A t \in Thread : WF_vars(Running(t))
-----------------------------------------------------------------------------
NoneFailed == \A t \in Thread : life[t] # "failed"

(***************************************************************************)
(* rrdhost_set_sender(), rrdhost_clear_sender___while_having_sender_mutex():*)
(* a host has one sender at a time, from the moment it is registered until *)
(* it has closed its socket and its pipe, which are those of the host.     *)
(***************************************************************************)
OneSender == Cardinality({t \in Thread : Active(t)}) <= 1

(***************************************************************************)
(* rrdpush_sender_thread_stop(), which waits for the sender: the wait ends *)
(* if no sender failed to open its pipe, however the sender was starting,  *)
(* running or leaving, and whoever else told it to stop.                   *)
(***************************************************************************)
StopReturns == []NoneFailed => (stop = "waiting" ~> stop # "waiting")

(***************************************************************************)
(* rrdset_push_metric_initialize(), rrdpush_sender_thread_spawn(): once    *)
(* the receiver of a host that was not archived stays, there is a sender   *)
(* that was not told to exit, whatever was requested of the earlier ones   *)
(* while receivers came and left.                                          *)
(***************************************************************************)
SenderResumes ==
  [](NoneFailed /\ stop = "no") /\ <>[](receiver = "here") =>
    []<>(\E t \in Thread : life[t] = "loop" /\ ~ShouldExit(t))

(***************************************************************************)
(* rrdpush_sender_thread_stop() and rrdpush_sender_thread_spawn() never    *)
(* leave the host waiting for one another: a stop returns, and a host that *)
(* collects again streams again.                                           *)
(***************************************************************************)
SenderProgress == StopReturns /\ SenderResumes
=============================================================================
