------------------------- MODULE SenderThreadProofs -------------------------
(***************************************************************************)
(* A host never has two registered senders, for every set of threads, with *)
(* the host archived at any moment and pipes failing.                      *)
(***************************************************************************)
EXTENDS SenderThread, FiniteSetTheorems, TLAPS

(***************************************************************************)
(* A thread between rrdhost_set_sender() and rrdhost_clear_sender() is the *)
(* one in sender->tid, and a structure without memory has no thread: the   *)
(* structure is only freed, and a new one only made, when tid is 0.        *)
(***************************************************************************)
Registered ==
  /\ life \in [Thread -> {"none", "created", "enabled", "set", "loop", "leaving", "failed"}]
  /\ \A t \in Thread : Active(t) => tid = t
  /\ ~alloc => tid = Null

(***************************************************************************)
(* No thread is registered when the sender structure is created.           *)
(***************************************************************************)
LEMMA InitRegistered == Init => Registered
BY DEF Init, Registered, Active

(***************************************************************************)
(* What the threads, the receivers and the archiving service do keeps tid  *)
(* the only registered thread.                                             *)
(***************************************************************************)
LEMMA StepRegistered == Registered /\ [Next]_vars => Registered'
<1> SUFFICES ASSUME Registered, [Next]_vars PROVE Registered'
  OBVIOUS
<1> USE NullAssumption DEF Registered, Active, Goto, host, sender
<1>1. ASSUME NEW t \in Thread, Spawn(t) PROVE Registered'
  BY <1>1 DEF Spawn
<1>2. ASSUME NEW t \in Thread, Start(t) PROVE Registered'
  BY <1>2 DEF Start
<1>3. ASSUME NEW t \in Thread, SetSender(t) PROVE Registered'
  BY <1>3 DEF SetSender
<1>4. ASSUME NEW t \in Thread, OpenPipe(t) PROVE Registered'
  BY <1>4 DEF OpenPipe
<1>5. ASSUME NEW t \in Thread, Leave(t) PROVE Registered'
  BY <1>5 DEF Leave
<1>6. ASSUME NEW t \in Thread, ClearSender(t) PROVE Registered'
  BY <1>6 DEF ClearSender
<1>7. CASE ReceiverLeaves \/ ReceiverGone \/ ReceiverArrives
  BY <1>7 DEF ReceiverLeaves, ReceiverGone, ReceiverArrives
<1>8. CASE Update
  BY <1>8 DEF Update
<1>9. CASE Archive \/ Free \/ Archived
  BY <1>9 DEF Archive, Free, Archived
<1>10. CASE UNCHANGED vars
  BY <1>10 DEF vars
<1> QED
  BY <1>1, <1>2, <1>3, <1>4, <1>5, <1>6, <1>7, <1>8, <1>9, <1>10 DEF Next, Running

(***************************************************************************)
(* rrdhost_set_sender(), rrdhost_clear_sender___while_having_sender_mutex():*)
(* at most one sender of a host is registered, however receivers, senders  *)
(* and the archiving of the host interleave.                               *)
(***************************************************************************)
THEOREM OneSenderHolds == Spec => []OneSender
<1>1. Registered => OneSender
  <2> SUFFICES ASSUME Registered PROVE OneSender
    OBVIOUS
  <2>1. {t \in Thread : Active(t)} \subseteq {tid}
    BY DEF Registered
  <2>2. IsFiniteSet({tid}) /\ Cardinality({tid}) = 1
    BY FS_Singleton
  <2>3. Cardinality({t \in Thread : Active(t)}) <= 1
    BY <2>1, <2>2, FS_Subset
  <2> QED
    BY <2>3 DEF OneSender
<1> QED
  BY <1>1, InitRegistered, StepRegistered, PTL DEF Spec
=============================================================================
