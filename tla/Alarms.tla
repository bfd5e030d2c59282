------------------------------- MODULE Alarms -------------------------------
(***************************************************************************)
(* web/gui/src/dashboard.js/alarms.js: the alarms of an agent, polled by   *)
(* the dashboard, and the desktop notifications it raises from the alarm   *)
(* log.  The poll and the download of the log are separate requests that   *)
(* are answered at any time; the page can be reloaded between any two of   *)
(* its handlers, and keeps only what it saved in the local storage.  An    *)
(* entry of the log is known by its unique_id, its position in alarmLog.   *)
(***************************************************************************)
EXTENDS Integers, Sequences, SequencesExt

CONSTANTS
  EntryKinds,    \* the entries the agent may log, but for the flag "updated"
  Granted,       \* Notification.permission
  LogInOrder,    \* requests for the log are served, and answered, in order
  MaxLogged,     \* bound on the log
  MaxLogRequests,\* bound on the requests for the log that are outstanding
  MaxReloads     \* bound on how many times the page is reloaded

VARIABLES
  alarmLog,      \* the log of the agent
  alarmPoll,     \* update_forever(): "timer", "asked", or "stopped"
  alarmAnswer,   \* latest_alarm_log_unique_id of the poll's answer, -1 if none yet
  logRequests,   \* get_log(): the requests outstanding, oldest first
  last_notification_id,
  stored_id,     \* last_notification_id in the local storage
  first_notification_id,
  considered,    \* the entries that were passed to notify()
  raised,        \* how many notifications each entry raised
  reloads

alarmVars == <<alarmLog, alarmPoll, alarmAnswer, logRequests, last_notification_id,
               stored_id, first_notification_id, considered, raised, reloads>>

pageVars == <<alarmPoll, alarmAnswer, logRequests, last_notification_id,
              stored_id, first_notification_id, considered, raised, reloads>>

AlarmInit ==
  /\ alarmLog = <<>>
  /\ alarmPoll = "timer" /\ alarmAnswer = -1 /\ logRequests = <<>>
  /\ last_notification_id = 0 /\ stored_id = 0 /\ first_notification_id = 0
  /\ considered = {}
  /\ raised = [i \in 1..MaxLogged |-> 0]
  /\ reloads = 0
-----------------------------------------------------------------------------
\* The agent logs an entry, which may supersede the one before it.
LogEntry(kind, supersedes) ==
  /\ Len(alarmLog) < MaxLogged
  /\ supersedes => alarmLog # <<>>
  /\ alarmLog' = Append(IF supersedes THEN [alarmLog EXCEPT ![Len(alarmLog)].updated = TRUE]
                        ELSE alarmLog,
                        [kind |-> kind, updated |-> FALSE])
  /\ UNCHANGED pageVars

\* update_forever() runs: get() sends its request, unless a snapshot was loaded.
PollAlarms ==
  /\ alarmPoll = "timer" /\ alarmPoll' \in {"asked", "stopped"}
  /\ UNCHANGED <<alarmLog, alarmAnswer, logRequests, last_notification_id, stored_id,
                 first_notification_id, considered, raised, reloads>>

\* The agent answers the poll with the id of its latest entry.
AnswerPoll ==
  /\ alarmPoll = "asked" /\ alarmAnswer = -1
  /\ alarmAnswer' = Len(alarmLog)
  /\ UNCHANGED <<alarmLog, alarmPoll, logRequests, last_notification_id, stored_id,
                 first_notification_id, considered, raised, reloads>>

\* Mutant: one entry alone is not asked for.
CheckNotificationsLate(latest) == Granted /\ latest > last_notification_id + 1

\* check_notifications()
CheckNotifications(latest) == Granted /\ latest > last_notification_id

\* The answer of the poll: get(), and the callback of update_forever(), which
\* calls notifyAll() and sets the timer unless health monitoring is disabled.
Polled(health) ==
  /\ alarmAnswer >= 0 /\ alarmAnswer' = -1
  /\ first_notification_id' = IF first_notification_id = 0 THEN alarmAnswer
                              ELSE first_notification_id
  /\ IF CheckNotifications(alarmAnswer)
     THEN /\ Len(logRequests) < MaxLogRequests
          /\ logRequests' = Append(logRequests, [after |-> last_notification_id, upto |-> -1])
     ELSE UNCHANGED logRequests
  /\ alarmPoll' = IF health THEN "timer" ELSE "stopped"
  /\ UNCHANGED <<alarmLog, last_notification_id, stored_id, considered, raised, reloads>>

\* The poll fails: get() calls its callback with null.
PollFails ==
  /\ alarmPoll = "asked" /\ alarmAnswer' = -1
  /\ alarmPoll' = "timer"
  /\ UNCHANGED <<alarmLog, logRequests, last_notification_id, stored_id,
                 first_notification_id, considered, raised, reloads>>

\* The agent answers a request for the log with the entries after an id.
AnswerLog(k) ==
  /\ logRequests[k].upto = -1
  /\ LogInOrder => \A j \in 1..(k - 1) : logRequests[j].upto >= 0
  /\ logRequests' = [logRequests EXCEPT ![k].upto = Len(alarmLog)]
  /\ UNCHANGED <<alarmLog, alarmPoll, alarmAnswer, last_notification_id, stored_id,
                 first_notification_id, considered, raised, reloads>>

\* notify(): an entry is shown unless it was updated, its status is not one to
\* show, or it is not for the recipients of this dashboard.
Shown(i) ==
  LET entry == alarmLog[i].kind IN
  /\ ~alarmLog[i].updated
  /\ \/ entry.status \in {"WARNING", "CRITICAL"}
     \/ /\ entry.status = "CLEAR"
        /\ i >= first_notification_id
        /\ entry.old_status \notin {"UNINITIALIZED", "UNDEFINED"}
        /\ ~entry.no_clear_notification
  /\ entry.recipient

\* Mutant: every entry of the answer is passed to notify().
AllEntries(r) == (r.after + 1)..r.upto

\* The entries of an answer that notifyAll() passes to notify().
NewEntries(r) == {i \in (r.after + 1)..r.upto : i > last_notification_id}

\* Mutant: only the newest entry of the answer is passed to notify().
NotifyNewest(k) ==
  LET r == logRequests[k]
      new == {i \in NewEntries(r) : i = r.upto}
  IN /\ r.upto > r.after
     /\ LogInOrder => k = 1
     /\ logRequests' = RemoveAt(logRequests, k)
     /\ considered' = considered \cup new
     /\ raised' = [i \in DOMAIN raised |->
                     IF i \in new /\ Shown(i) THEN raised[i] + 1 ELSE raised[i]]
     /\ last_notification_id' = r.upto /\ stored_id' = r.upto
     /\ UNCHANGED <<alarmLog, alarmPoll, alarmAnswer, first_notification_id, reloads>>

\* The log arrives: the callback of notifyAll().
NotifyAll(k) ==
  LET r == logRequests[k] IN
  /\ r.upto > r.after
  /\ LogInOrder => k = 1
  /\ logRequests' = RemoveAt(logRequests, k)
  /\ considered' = considered \cup NewEntries(r)
  /\ raised' = [i \in DOMAIN raised |->
                  IF i \in NewEntries(r) /\ Shown(i) THEN raised[i] + 1 ELSE raised[i]]
  /\ last_notification_id' = r.upto /\ stored_id' = r.upto
  /\ UNCHANGED <<alarmLog, alarmPoll, alarmAnswer, first_notification_id, reloads>>

\* The request for the log fails or is answered with an empty log.
NoLog(k) ==
  /\ LogInOrder => k = 1
  /\ logRequests' = RemoveAt(logRequests, k)
  /\ UNCHANGED <<alarmLog, alarmPoll, alarmAnswer, last_notification_id, stored_id,
                 first_notification_id, considered, raised, reloads>>

\* The page is reloaded, and init() starts again from the local storage.
Reload ==
  /\ reloads < MaxReloads /\ reloads' = reloads + 1
  /\ last_notification_id' = stored_id /\ first_notification_id' = 0
  /\ alarmPoll' = "timer" /\ alarmAnswer' = -1 /\ logRequests' = <<>>
  /\ UNCHANGED <<alarmLog, stored_id, considered, raised>>
-----------------------------------------------------------------------------
AlarmNext ==
  \/ \E kind \in EntryKinds, supersedes \in BOOLEAN : LogEntry(kind, supersedes)
  \/ PollAlarms \/ AnswerPoll \/ PollFails
  \/ \E health \in BOOLEAN : Polled(health)
  \/ \E k \in DOMAIN logRequests : AnswerLog(k) \/ NotifyAll(k) \/ NoLog(k)
  \/ Reload

AlarmSpec == AlarmInit /\ [][AlarmNext]_alarmVars

\* Timers fire, the agent answers, and an agent that is asked again and again
\* while its health monitoring is enabled does not fail for ever.
AlarmFairness ==
  /\ WF_alarmVars(PollAlarms)
  /\ SF_alarmVars(AnswerPoll)
  /\ SF_alarmVars(Polled(TRUE))
  /\ SF_alarmVars(logRequests # <<>> /\ AnswerLog(1))
  /\ SF_alarmVars(logRequests # <<>> /\ NotifyAll(1))
-----------------------------------------------------------------------------
AlarmTypeOK ==
  /\ alarmLog \in Seq([kind : EntryKinds, updated : BOOLEAN])
  /\ alarmPoll \in {"timer", "asked", "stopped"}
  /\ alarmAnswer \in Int
  /\ logRequests \in Seq([after : Nat, upto : Int])
  /\ last_notification_id \in Nat /\ stored_id \in Nat /\ first_notification_id \in Nat
  /\ considered \subseteq Nat
  /\ raised \in [1..MaxLogged -> Nat]
  /\ reloads \in Nat

(***************************************************************************)
(* notifyAll(), init(): no entry of the log is skipped.  Whatever requests *)
(* overlap, fail, or arrive in another order, and wherever the page is     *)
(* reloaded, last_notification_id and its saved copy only cover entries    *)
(* that were passed to notify().                                           *)
(***************************************************************************)
NoneSkipped == 1..last_notification_id \subseteq considered /\ 1..stored_id \subseteq considered

(***************************************************************************)
(* notifyAll(): no entry raises two notifications, in this page or after   *)
(* it is reloaded, though several requests for the same part of the log    *)
(* may be outstanding, if their answers arrive in order.                   *)
(***************************************************************************)
NotifiedOnce == \A i \in 1..MaxLogged : raised[i] <= 1

(***************************************************************************)
(* update_forever(), check_notifications(): an entry that the agent logged *)
(* is passed to notify(), if health monitoring is not found disabled and   *)
(* no snapshot is loaded.                                                  *)
(***************************************************************************)
EventuallyConsidered ==
  [](alarmPoll # "stopped") =>
    \A i \in 1..MaxLogged : Len(alarmLog) >= i ~> i \in considered
=============================================================================
