---------------------------- MODULE AlarmsProofs ----------------------------
(***************************************************************************)
(* No entry of the alarm log is skipped, and none raises two notifications *)
(* when the answers come in order: for a log and a number of overlapping   *)
(* requests and reloads of any length, and any entries.                    *)
(***************************************************************************)
EXTENDS Alarms, SequenceTheorems, TLAPS

Entries == [kind : EntryKinds, updated : BOOLEAN]
Requests == [after : Nat, upto : Int]

(***************************************************************************)
(* The types the argument needs.                                           *)
(***************************************************************************)
Typed ==
  /\ alarmLog \in Seq(Entries)
  /\ logRequests \in Seq(Requests)
  /\ last_notification_id \in Nat /\ stored_id \in Nat

(***************************************************************************)
(* A request asks for what follows an id up to which all was considered:   *)
(* the answer then covers whatever lies between that id and its last one.  *)
(***************************************************************************)
Covered ==
  /\ Typed
  /\ NoneSkipped
  /\ \A k \in 1..Len(logRequests) : 1..logRequests[k].after \subseteq considered

(***************************************************************************)
(* With answers in order, the answered requests precede the others, each   *)
(* reaches at least as far as the one before it and as the last entry      *)
(* notified, and no entry beyond that one was notified.                    *)
(***************************************************************************)
Ordered(q, last, len) ==
  /\ \A k \in 1..Len(q) : q[k].upto = -1 \/ (last <= q[k].upto /\ q[k].upto <= len)
  /\ \A j, k \in 1..Len(q) : j < k /\ q[k].upto # -1 => q[j].upto # -1 /\ q[j].upto <= q[k].upto

Once ==
  /\ Typed
  /\ raised \in [1..MaxLogged -> Nat]
  /\ LogInOrder =>
       /\ last_notification_id <= Len(alarmLog) /\ stored_id = last_notification_id
       /\ Ordered(logRequests, last_notification_id, Len(alarmLog))
       /\ \A i \in 1..MaxLogged : raised[i] <= 1 /\ (raised[i] = 1 => i <= last_notification_id)
-----------------------------------------------------------------------------
(***************************************************************************)
(* RemoveAt(): the request that was answered leaves the queue, the others  *)
(* keep their order.                                                       *)
(***************************************************************************)
LEMMA RemoveAtProperties ==
  ASSUME NEW S, NEW s \in Seq(S), NEW k \in 1..Len(s)
  PROVE  /\ RemoveAt(s, k) \in Seq(S)
         /\ Len(RemoveAt(s, k)) = Len(s) - 1
         /\ \A i \in 1..(Len(s) - 1) : RemoveAt(s, k)[i] = IF i < k THEN s[i] ELSE s[i + 1]
<1> DEFINE a == SubSeq(s, 1, k - 1)
           b == SubSeq(s, k + 1, Len(s))
<1>0. Len(s) \in Nat /\ k \in Nat /\ \A i \in 1..Len(s) : s[i] \in S
  BY ElementOfSeq, LenProperties
<1>1. /\ a \in Seq(S) /\ Len(a) = k - 1
      /\ \A i \in 1..(k - 1) : a[i] = s[i]
  <2>1. \A i \in 1..(k - 1) : s[i] \in S
    BY <1>0
  <2>2. /\ a \in Seq(S) /\ Len(a) = IF 1 <= k - 1 THEN k - 1 - 1 + 1 ELSE 0
        /\ \A i \in 1..(k - 1 - 1 + 1) : a[i] = s[1 + i - 1]
    BY <2>1, <1>0, SubSeqProperties, 1 \in Int, k - 1 \in Int
  <2> QED
    BY <2>2, <1>0
<1>2. /\ b \in Seq(S) /\ Len(b) = Len(s) - k
      /\ \A i \in 1..(Len(s) - k) : b[i] = s[k + i]
  <2>1. \A i \in (k + 1)..Len(s) : s[i] \in S
    BY <1>0
  <2>2. /\ b \in Seq(S) /\ Len(b) = IF k + 1 <= Len(s) THEN Len(s) - (k + 1) + 1 ELSE 0
        /\ \A i \in 1..(Len(s) - (k + 1) + 1) : b[i] = s[k + 1 + i - 1]
    BY <2>1, <1>0, SubSeqProperties, k + 1 \in Int, Len(s) \in Int
  <2> QED
    BY <2>2, <1>0
<1>3. /\ a \o b \in Seq(S) /\ Len(a \o b) = Len(a) + Len(b)
      /\ \A i \in 1..(Len(a) + Len(b)) :
           (a \o b)[i] = IF i <= Len(a) THEN a[i] ELSE b[i - Len(a)]
  BY <1>1, <1>2, ConcatProperties
<1>4. RemoveAt(s, k) = a \o b
  BY DEF RemoveAt
<1> HIDE DEF a, b
<1>5. ASSUME NEW i \in 1..(Len(s) - 1)
      PROVE  RemoveAt(s, k)[i] = IF i < k THEN s[i] ELSE s[i + 1]
  <2>1. RemoveAt(s, k)[i] = IF i <= k - 1 THEN a[i] ELSE b[i - (k - 1)]
    BY <1>0, <1>1, <1>2, <1>3, <1>4
  <2>2. CASE i < k
    BY <2>1, <2>2, <1>0, <1>1
  <2>3. CASE ~(i < k)
    <3>1. i - (k - 1) \in 1..(Len(s) - k) /\ k + (i - (k - 1)) = i + 1
      BY <2>3, <1>0
    <3> QED
      BY <2>1, <2>3, <3>1, <1>0, <1>2
  <2> QED
    BY <2>2, <2>3
<1>6. Len(RemoveAt(s, k)) = Len(s) - 1
  BY <1>0, <1>1, <1>2, <1>3, <1>4
<1> QED
  BY <1>3, <1>4, <1>5, <1>6
-----------------------------------------------------------------------------
(***************************************************************************)
(* The log and the queue of requests are empty at first.                   *)
(***************************************************************************)
LEMMA InitTyped == AlarmInit => Typed
BY EmptySeq DEF AlarmInit, Typed

(***************************************************************************)
(* The agent's log grows by one entry.                                     *)
(***************************************************************************)
LEMMA LogTyped ==
  ASSUME Typed, NEW kind \in EntryKinds, NEW supersedes \in BOOLEAN, LogEntry(kind, supersedes)
  PROVE  Typed' /\ Len(alarmLog') = Len(alarmLog) + 1
<1> DEFINE old == IF supersedes THEN [alarmLog EXCEPT ![Len(alarmLog)].updated = TRUE] ELSE alarmLog
           new == [kind |-> kind, updated |-> FALSE]
<1>1. old \in Seq(Entries) /\ Len(old) = Len(alarmLog)
  <2>1. CASE supersedes
    <3>1. Len(alarmLog) \in 1..Len(alarmLog)
      BY <2>1, EmptySeq DEF LogEntry, Typed
    <3>2. [alarmLog[Len(alarmLog)] EXCEPT !.updated = TRUE] \in Entries
      <4>1. alarmLog[Len(alarmLog)] \in Entries
        BY <3>1, ElementOfSeq DEF Typed
      <4> QED
        BY <4>1 DEF Entries
    <3>3. old = [alarmLog EXCEPT ![Len(alarmLog)] = [alarmLog[Len(alarmLog)] EXCEPT !.updated = TRUE]]
      BY <2>1
    <3> QED
      BY <3>1, <3>2, <3>3, ExceptSeq DEF Typed
  <2> QED
    BY <2>1 DEF Typed
<1>2. new \in Entries
  BY DEF Entries
<1>3. alarmLog' = Append(old, new)
  BY DEF LogEntry
<1> HIDE DEF old, new
<1>4. alarmLog' \in Seq(Entries) /\ Len(alarmLog') = Len(alarmLog) + 1
  BY <1>1, <1>2, <1>3, AppendProperties
<1> QED
  BY <1>4 DEF LogEntry, pageVars, Typed

(***************************************************************************)
(* notifyAll() asks for the log after last_notification_id.                *)
(***************************************************************************)
LEMMA PolledTyped ==
  ASSUME Typed, NEW health, Polled(health)
  PROVE  /\ Typed'
         /\ UNCHANGED <<alarmLog, last_notification_id, stored_id, considered, raised>>
         /\ \/ logRequests' = logRequests
            \/ /\ Len(logRequests') = Len(logRequests) + 1
               /\ \A k \in 1..Len(logRequests) : logRequests'[k] = logRequests[k]
               /\ logRequests'[Len(logRequests) + 1] = [after |-> last_notification_id, upto |-> -1]
<1>1. UNCHANGED <<alarmLog, last_notification_id, stored_id, considered, raised>>
  BY DEF Polled
<1>2. CASE logRequests' = logRequests
  BY <1>1, <1>2 DEF Typed
<1>3. CASE logRequests' = Append(logRequests, [after |-> last_notification_id, upto |-> -1])
  <2>1. [after |-> last_notification_id, upto |-> -1] \in Requests
    BY DEF Typed, Requests
  <2> QED
    BY <1>1, <1>3, <2>1, AppendProperties DEF Typed
<1> QED
  BY <1>2, <1>3 DEF Polled

(***************************************************************************)
(* The agent answers the k-th request with its log up to now.              *)
(***************************************************************************)
LEMMA AnsweredTyped ==
  ASSUME Typed, NEW k \in 1..Len(logRequests), AnswerLog(k)
  PROVE  /\ Typed'
         /\ UNCHANGED <<alarmLog, last_notification_id, stored_id, considered, raised>>
         /\ Len(logRequests') = Len(logRequests)
         /\ \A j \in 1..Len(logRequests) :
              /\ logRequests'[j].after = logRequests[j].after
              /\ logRequests'[j].upto = IF j = k THEN Len(alarmLog) ELSE logRequests[j].upto
<1> DEFINE r == [logRequests[k] EXCEPT !.upto = Len(alarmLog)]
<1>1. logRequests[k] \in Requests /\ Len(alarmLog) \in Nat
  BY ElementOfSeq, LenProperties DEF Typed
<1>2. r \in Requests /\ r.after = logRequests[k].after /\ r.upto = Len(alarmLog)
  BY <1>1 DEF Requests
<1>3. logRequests' = [logRequests EXCEPT ![k] = r]
  BY DEF AnswerLog
<1> HIDE DEF r
<1>4. /\ logRequests' \in Seq(Requests) /\ Len(logRequests') = Len(logRequests)
      /\ \A j \in 1..Len(logRequests) : logRequests'[j] = IF j = k THEN r ELSE logRequests[j]
  BY <1>2, <1>3, ExceptSeq DEF Typed
<1>5. UNCHANGED <<alarmLog, last_notification_id, stored_id, considered, raised>>
  BY DEF AnswerLog
<1> QED
  BY <1>2, <1>4, <1>5 DEF Typed

(***************************************************************************)
(* The steps that leave the log, the requests and the notifications alone. *)
(***************************************************************************)
LEMMA OthersUnchanged ==
  ASSUME PollAlarms \/ AnswerPoll \/ PollFails \/ UNCHANGED alarmVars
  PROVE  UNCHANGED <<alarmLog, logRequests, last_notification_id, stored_id, considered, raised>>
BY DEF PollAlarms, AnswerPoll, PollFails, alarmVars
-----------------------------------------------------------------------------
(***************************************************************************)
(* Nothing is skipped before the first poll.                               *)
(***************************************************************************)
LEMMA InitCovered == AlarmInit => Covered
<1> SUFFICES ASSUME AlarmInit PROVE Covered
  OBVIOUS
<1>1. Typed /\ Len(logRequests) = 0
  BY InitTyped, EmptySeq DEF AlarmInit
<1> QED
  BY <1>1 DEF AlarmInit, Covered, NoneSkipped

(***************************************************************************)
(* An answer starts where everything was considered, and considers all it  *)
(* has beyond the last entry notified, up to which nothing is missing: so  *)
(* nothing is missing up to its end, wherever that is.                     *)
(***************************************************************************)
LEMMA StepCovered == Covered /\ [AlarmNext]_alarmVars => Covered'
<1> SUFFICES ASSUME Covered, [AlarmNext]_alarmVars PROVE Covered'
  OBVIOUS
<1>0. Typed /\ Len(logRequests) \in Nat /\ DOMAIN logRequests = 1..Len(logRequests)
  BY LenProperties DEF Covered, Typed
<1>1. ASSUME NEW kind \in EntryKinds, NEW supersedes \in BOOLEAN, LogEntry(kind, supersedes)
      PROVE  Covered'
  <2>1. Typed'
    BY <1>0, <1>1, LogTyped
  <2> QED
    BY <1>1, <2>1 DEF LogEntry, pageVars, Covered, NoneSkipped
<1>2. ASSUME PollAlarms \/ AnswerPoll \/ PollFails \/ UNCHANGED alarmVars PROVE Covered'
  BY <1>2, OthersUnchanged DEF Covered, NoneSkipped, Typed
<1>3. ASSUME NEW health \in BOOLEAN, Polled(health) PROVE Covered'
  BY <1>0, <1>3, PolledTyped DEF Covered, NoneSkipped
<1>4. ASSUME NEW k \in DOMAIN logRequests, AnswerLog(k) PROVE Covered'
  BY <1>0, <1>4, AnsweredTyped DEF Covered, NoneSkipped
<1>5. ASSUME NEW k \in DOMAIN logRequests, NotifyAll(k) \/ NoLog(k) PROVE Covered'
  <2> DEFINE r == logRequests[k]
  <2>1. r \in Requests /\ r.after \in Nat /\ r.upto \in Int /\ 1..r.after \subseteq considered
    <3>1. k \in 1..Len(logRequests)
      BY <1>0
    <3>2. r \in Requests
      BY <3>1, ElementOfSeq DEF Covered, Typed
    <3> QED
      BY <3>1, <3>2 DEF Requests, Covered
  <2>2. /\ logRequests' \in Seq(Requests) /\ Len(logRequests') = Len(logRequests) - 1
        /\ \A i \in 1..(Len(logRequests) - 1) :
             logRequests'[i] = IF i < k THEN logRequests[i] ELSE logRequests[i + 1]
    <3>1. logRequests' = RemoveAt(logRequests, k)
      BY <1>5 DEF NotifyAll, NoLog
    <3> QED
      BY <1>0, <3>1, RemoveAtProperties DEF Typed
  <2>3. considered \subseteq considered'
    BY <1>5 DEF NotifyAll, NoLog
  <2>4. \A i \in 1..Len(logRequests') : 1..logRequests'[i].after \subseteq considered'
    <3> SUFFICES ASSUME NEW i \in 1..Len(logRequests')
                 PROVE  1..logRequests'[i].after \subseteq considered'
      OBVIOUS
    <3>1. PICK j \in 1..Len(logRequests) : logRequests'[i] = logRequests[j]
      BY <1>0, <2>2
    <3> QED
      BY <2>3, <3>1 DEF Covered
  <2>5. CASE NotifyAll(k)
    <3>1. /\ r.upto > r.after /\ last_notification_id' = r.upto /\ stored_id' = r.upto
          /\ alarmLog' = alarmLog
          /\ considered' = considered \cup
               {i \in (r.after + 1)..r.upto : i > last_notification_id}
      BY <2>5 DEF NotifyAll, NewEntries
    <3>2. 1..r.upto \subseteq considered'
      <4> SUFFICES ASSUME NEW i \in 1..r.upto PROVE i \in considered'
        OBVIOUS
      <4>1. CASE i \in 1..r.after \/ i \in 1..last_notification_id
        BY <2>1, <2>3, <4>1 DEF Covered, NoneSkipped
      <4>2. CASE i > r.after /\ i > last_notification_id
        BY <2>1, <3>1, <4>2
      <4> QED
        BY <1>0, <2>1, <4>1, <4>2 DEF Typed
    <3>3. r.upto \in Nat
      BY <2>1, <3>1
    <3> HIDE DEF r
    <3> QED
      BY <1>0, <2>2, <2>4, <3>1, <3>2, <3>3 DEF Covered, NoneSkipped, Typed
  <2>6. CASE NoLog(k)
    <3>1. UNCHANGED <<alarmLog, last_notification_id, stored_id, considered>>
      BY <2>6 DEF NoLog
    <3> QED
      BY <2>2, <2>4, <3>1 DEF Covered, NoneSkipped, Typed
  <2> QED
    BY <1>5, <2>5, <2>6
<1>6. CASE Reload
  <2>1. logRequests' = << >> /\ UNCHANGED <<alarmLog, stored_id, considered>>
        /\ last_notification_id' = stored_id
    BY <1>6 DEF Reload
  <2>2. logRequests' \in Seq(Requests) /\ Len(logRequests') = 0
    BY <2>1, EmptySeq
  <2> QED
    BY <2>1, <2>2 DEF Covered, NoneSkipped, Typed
<1> QED
  BY <1>1, <1>2, <1>3, <1>4, <1>5, <1>6 DEF AlarmNext

(***************************************************************************)
(* notifyAll(), init(): no entry of the log is skipped, though requests    *)
(* overlap, fail and are answered in any order, and the page is reloaded   *)
(* at any moment.                                                          *)
(***************************************************************************)
THEOREM NoneSkippedHolds == AlarmSpec => []NoneSkipped
<1>1. Covered => NoneSkipped
  BY DEF Covered
<1> QED
  BY <1>1, InitCovered, StepCovered, PTL DEF AlarmSpec
-----------------------------------------------------------------------------
(***************************************************************************)
(* No notification was raised before the first poll.                       *)
(***************************************************************************)
LEMMA InitOnce == AlarmInit => Once
<1> SUFFICES ASSUME AlarmInit PROVE Once
  OBVIOUS
<1>1. Typed /\ Len(logRequests) = 0 /\ Len(alarmLog) = 0
  BY InitTyped, EmptySeq DEF AlarmInit
<1> QED
  BY <1>1 DEF AlarmInit, Once, Ordered

(***************************************************************************)
(* The first answered request reaches beyond every entry notified, and the *)
(* entries it notifies lie beyond the last one: when last_notification_id  *)
(* moves to its end, it moves past them and never back.                    *)
(***************************************************************************)
LEMMA StepOnce == Once /\ [AlarmNext]_alarmVars => Once'
<1> SUFFICES ASSUME Once, [AlarmNext]_alarmVars PROVE Once'
  OBVIOUS
<1>0. /\ Typed /\ Len(logRequests) \in Nat /\ DOMAIN logRequests = 1..Len(logRequests)
      /\ Len(alarmLog) \in Nat /\ last_notification_id \in Nat
      /\ \A k \in 1..Len(logRequests) : logRequests[k].upto \in Int
  <2>1. \A k \in 1..Len(logRequests) : logRequests[k] \in Requests
    BY ElementOfSeq DEF Once, Typed
  <2> QED
    BY <2>1, LenProperties DEF Once, Typed, Requests
<1>1. ASSUME NEW kind \in EntryKinds, NEW supersedes \in BOOLEAN, LogEntry(kind, supersedes)
      PROVE  Once'
  <2>1. Typed' /\ Len(alarmLog') = Len(alarmLog) + 1
    BY <1>0, <1>1, LogTyped
  <2>2. UNCHANGED <<logRequests, last_notification_id, stored_id, raised>>
    BY <1>1 DEF LogEntry, pageVars
  <2> QED
    BY <1>0, <2>1, <2>2 DEF Once, Ordered
<1>2. ASSUME PollAlarms \/ AnswerPoll \/ PollFails \/ UNCHANGED alarmVars PROVE Once'
  BY <1>2, OthersUnchanged DEF Once, Typed, Ordered
<1>3. ASSUME NEW health \in BOOLEAN, Polled(health) PROVE Once'
  <2>1. CASE logRequests' = logRequests
    BY <1>0, <1>3, <2>1, PolledTyped DEF Once, Ordered
  <2>2. CASE logRequests' # logRequests
    <3>1. /\ Typed' /\ UNCHANGED <<alarmLog, last_notification_id, stored_id, raised>>
          /\ Len(logRequests') = Len(logRequests) + 1
          /\ \A k \in 1..Len(logRequests) : logRequests'[k] = logRequests[k]
          /\ logRequests'[Len(logRequests) + 1].upto = -1
      BY <1>0, <1>3, <2>2, PolledTyped
    <3>2. ASSUME LogInOrder PROVE Ordered(logRequests', last_notification_id, Len(alarmLog))
      <4> DEFINE q == logRequests'
      <4>1. Ordered(logRequests, last_notification_id, Len(alarmLog))
        BY <3>2 DEF Once
      <4>2. \A i \in 1..Len(q) : q[i].upto # -1 => i \in 1..Len(logRequests) /\ q[i] = logRequests[i]
        BY <1>0, <3>1
      <4>3. \A i, j \in 1..Len(q) : i < j /\ j \in 1..Len(logRequests) =>
              i \in 1..Len(logRequests) /\ q[i] = logRequests[i]
        BY <1>0, <3>1
      <4> HIDE DEF q
      <4>4. ASSUME NEW i \in 1..Len(q), q[i].upto # -1
            PROVE  last_notification_id <= q[i].upto /\ q[i].upto <= Len(alarmLog)
        <5>1. i \in 1..Len(logRequests) /\ q[i] = logRequests[i]
          BY <4>2, <4>4
        <5> QED
          BY <4>1, <4>4, <5>1 DEF Ordered
      <4>5. ASSUME NEW i \in 1..Len(q), NEW j \in 1..Len(q), i < j, q[j].upto # -1
            PROVE  q[i].upto # -1 /\ q[i].upto <= q[j].upto
        <5>1. j \in 1..Len(logRequests) /\ q[j] = logRequests[j]
          BY <4>2, <4>5
        <5>2. i \in 1..Len(logRequests) /\ q[i] = logRequests[i]
          BY <4>3, <4>5, <5>1
        <5> QED
          BY <4>1, <4>5, <5>1, <5>2 DEF Ordered
      <4>6. Ordered(q, last_notification_id, Len(alarmLog))
        BY <4>4, <4>5 DEF Ordered
      <4> QED
        BY <4>6 DEF q
    <3> QED
      BY <3>1, <3>2 DEF Once
  <2> QED
    BY <2>1, <2>2
<1>4. ASSUME NEW k \in DOMAIN logRequests, AnswerLog(k) PROVE Once'
  <2>1. /\ Typed' /\ UNCHANGED <<alarmLog, last_notification_id, stored_id, raised>>
        /\ Len(logRequests') = Len(logRequests)
        /\ \A j \in 1..Len(logRequests) :
             logRequests'[j].upto = IF j = k THEN Len(alarmLog) ELSE logRequests[j].upto
    BY <1>0, <1>4, AnsweredTyped
  <2>2. LogInOrder => \A j \in 1..(k - 1) : logRequests[j].upto >= 0
    BY <1>4 DEF AnswerLog
  <2>3. LogInOrder => Ordered(logRequests', last_notification_id, Len(alarmLog))
    <3> SUFFICES ASSUME LogInOrder
                 PROVE  Ordered(logRequests', last_notification_id, Len(alarmLog))
      OBVIOUS
    <3>1. /\ last_notification_id <= Len(alarmLog)
          /\ Ordered(logRequests, last_notification_id, Len(alarmLog))
      BY DEF Once
    <3>2. logRequests[k].upto = -1
      BY <1>4 DEF AnswerLog
    <3>3. \A j \in 1..Len(logRequests) : logRequests'[j].upto = -1 \/
            (last_notification_id <= logRequests'[j].upto /\ logRequests'[j].upto <= Len(alarmLog))
      BY <1>0, <2>1, <3>1 DEF Ordered
    <3>4. ASSUME NEW i \in 1..Len(logRequests), NEW j \in 1..Len(logRequests),
                 i < j, logRequests'[j].upto # -1
          PROVE  logRequests'[i].upto # -1 /\ logRequests'[i].upto <= logRequests'[j].upto
      <4>1. CASE j = k
        <5>1. logRequests[i].upto >= 0 /\ logRequests'[i].upto = logRequests[i].upto
          BY <1>0, <2>1, <2>2, <3>4, <4>1
        <5>2. logRequests[i].upto <= Len(alarmLog)
          BY <1>0, <3>1, <5>1 DEF Ordered
        <5> QED
          BY <1>0, <2>1, <4>1, <5>1, <5>2
      <4>2. CASE j # k
        <5>1. logRequests[i].upto # -1 /\ logRequests[i].upto <= logRequests[j].upto
          BY <2>1, <3>1, <3>4, <4>2 DEF Ordered
        <5> QED
          BY <2>1, <3>2, <4>2, <5>1
      <4> QED
        BY <4>1, <4>2
    <3> QED
      BY <2>1, <3>3, <3>4 DEF Ordered
  <2> QED
    BY <2>1, <2>3 DEF Once
<1>5. ASSUME NEW k \in DOMAIN logRequests, NotifyAll(k) \/ NoLog(k) PROVE Once'
  <2> DEFINE r == logRequests[k]
  <2>0. r.after \in Nat /\ r.upto \in Int
    <3>1. r \in Requests
      BY <1>0, ElementOfSeq DEF Typed
    <3> QED
      BY <3>1 DEF Requests
  <2>1. /\ logRequests' \in Seq(Requests) /\ Len(logRequests') = Len(logRequests) - 1
        /\ \A i \in 1..(Len(logRequests) - 1) :
             logRequests'[i] = IF i < k THEN logRequests[i] ELSE logRequests[i + 1]
    <3>1. logRequests' = RemoveAt(logRequests, k)
      BY <1>5 DEF NotifyAll, NoLog
    <3> QED
      BY <1>0, <3>1, RemoveAtProperties DEF Typed
  <2>2. LogInOrder => k = 1
    BY <1>5 DEF NotifyAll, NoLog
  <2>3. LogInOrder => \A i \in 1..Len(logRequests') : logRequests'[i] = logRequests[i + 1]
    BY <1>0, <2>1, <2>2
  <2>4. CASE NotifyAll(k)
    <3>1. /\ r.upto > r.after /\ last_notification_id' = r.upto /\ stored_id' = r.upto
          /\ alarmLog' = alarmLog
          /\ raised' = [i \in DOMAIN raised |->
               IF i \in NewEntries(r) /\ Shown(i) THEN raised[i] + 1 ELSE raised[i]]
      BY <2>4 DEF NotifyAll
    <3>2. raised' \in [1..MaxLogged -> Nat]
      BY <3>1 DEF Once
    <3>3. Typed'
      BY <1>0, <2>0, <2>1, <3>1 DEF Typed
    <3>4. ASSUME LogInOrder
          PROVE  /\ r.upto <= Len(alarmLog)
                 /\ Ordered(logRequests', r.upto, Len(alarmLog))
                 /\ \A i \in 1..MaxLogged : raised'[i] <= 1 /\ (raised'[i] = 1 => i <= r.upto)
      <4>1. /\ Ordered(logRequests, last_notification_id, Len(alarmLog))
            /\ \A i \in 1..MaxLogged : raised[i] <= 1 /\ (raised[i] = 1 => i <= last_notification_id)
        BY <3>4 DEF Once
      <4>2. last_notification_id <= r.upto /\ r.upto <= Len(alarmLog) /\ r.upto # -1
        BY <1>0, <2>0, <3>1, <4>1 DEF Ordered
      <4>3. Ordered(logRequests', r.upto, Len(alarmLog))
        <5> DEFINE q == logRequests'
        <5>1. /\ \A i \in 1..Len(q) : i + 1 \in 1..Len(logRequests) /\ q[i] = logRequests[i + 1]
              /\ k = 1
          BY <1>0, <2>1, <2>2, <2>3, <3>4
        <5> HIDE DEF q
        <5>2. ASSUME NEW i \in 1..Len(q), q[i].upto # -1
              PROVE  r.upto <= q[i].upto /\ q[i].upto <= Len(alarmLog)
          <6>1. i + 1 \in 1..Len(logRequests) /\ q[i] = logRequests[i + 1] /\ 1 < i + 1
            BY <5>1
          <6>2. 1 \in 1..Len(logRequests)
            BY <1>0, <6>1
          <6> QED
            BY <4>1, <5>1, <5>2, <6>1, <6>2 DEF Ordered
        <5>3. ASSUME NEW i \in 1..Len(q), NEW j \in 1..Len(q), i < j, q[j].upto # -1
              PROVE  q[i].upto # -1 /\ q[i].upto <= q[j].upto
          <6>1. i + 1 < j + 1
            BY <5>3
          <6> QED
            BY <4>1, <5>1, <5>3, <6>1 DEF Ordered
        <5>4. Ordered(q, r.upto, Len(alarmLog))
          BY <5>2, <5>3 DEF Ordered
        <5> QED
          BY <5>4 DEF q
      <4>4. ASSUME NEW i \in 1..MaxLogged
            PROVE  raised'[i] <= 1 /\ (raised'[i] = 1 => i <= r.upto)
        <5>1. raised[i] \in Nat /\ i \in Int
          BY DEF Once
        <5>2. CASE i \in NewEntries(r)
          <6>1. i > last_notification_id /\ i <= r.upto
            BY <2>0, <5>2 DEF NewEntries
          <6>2. raised[i] = 0
            BY <1>0, <4>1, <5>1, <6>1
          <6> QED
            BY <3>1, <5>1, <6>1, <6>2 DEF Once
        <5>3. CASE i \notin NewEntries(r)
          BY <1>0, <2>0, <3>1, <4>1, <4>2, <5>1, <5>3 DEF Once
        <5> QED
          BY <5>2, <5>3
      <4> QED
        BY <4>2, <4>3, <4>4
    <3> HIDE DEF r
    <3> QED
      BY <3>1, <3>2, <3>3, <3>4 DEF Once
  <2>5. CASE NoLog(k)
    <3>1. UNCHANGED <<alarmLog, last_notification_id, stored_id, raised>>
      BY <2>5 DEF NoLog
    <3>2. Typed'
      BY <2>1, <3>1 DEF Typed, Once
    <3>3. ASSUME LogInOrder PROVE Ordered(logRequests', last_notification_id, Len(alarmLog))
      <4> DEFINE q == logRequests'
      <4>1. Ordered(logRequests, last_notification_id, Len(alarmLog))
        BY <3>3 DEF Once
      <4>2. \A i \in 1..Len(q) : i + 1 \in 1..Len(logRequests) /\ q[i] = logRequests[i + 1]
        BY <1>0, <2>1, <2>3, <3>3
      <4> HIDE DEF q
      <4>3. ASSUME NEW i \in 1..Len(q), q[i].upto # -1
            PROVE  last_notification_id <= q[i].upto /\ q[i].upto <= Len(alarmLog)
        BY <4>1, <4>2, <4>3 DEF Ordered
      <4>4. ASSUME NEW i \in 1..Len(q), NEW j \in 1..Len(q), i < j, q[j].upto # -1
            PROVE  q[i].upto # -1 /\ q[i].upto <= q[j].upto
        <5>1. i + 1 < j + 1
          BY <4>4
        <5> QED
          BY <4>1, <4>2, <4>4, <5>1 DEF Ordered
      <4>5. Ordered(q, last_notification_id, Len(alarmLog))
        BY <4>3, <4>4 DEF Ordered
      <4> QED
        BY <4>5 DEF q
    <3> QED
      BY <3>1, <3>2, <3>3 DEF Once
  <2> QED
    BY <1>5, <2>4, <2>5
<1>6. CASE Reload
  <2>1. logRequests' = << >> /\ UNCHANGED <<alarmLog, stored_id, raised>>
        /\ last_notification_id' = stored_id
    BY <1>6 DEF Reload
  <2>2. logRequests' \in Seq(Requests) /\ Len(logRequests') = 0
    BY <2>1, EmptySeq
  <2> QED
    BY <2>1, <2>2 DEF Once, Ordered, Typed
<1> QED
  BY <1>1, <1>2, <1>3, <1>4, <1>5, <1>6 DEF AlarmNext

(***************************************************************************)
(* notifyAll(): if answers come in the order of their requests, no entry   *)
(* raises two notifications, whatever requests overlap and wherever the    *)
(* page is reloaded.                                                       *)
(***************************************************************************)
THEOREM NotifiedOnceHolds == AlarmSpec => [](LogInOrder => NotifiedOnce)
<1>1. Once => (LogInOrder => NotifiedOnce)
  BY DEF Once, NotifiedOnce
<1> QED
  BY <1>1, InitOnce, StepOnce, PTL DEF AlarmSpec
=============================================================================
