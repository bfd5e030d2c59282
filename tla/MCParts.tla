------------------------------ MODULE MCParts -------------------------------
(***************************************************************************)
(* Model checking of parts of the agent and of its dashboard.              *)
(*                                                                         *)
(* The parts share no state, so checking them side by side would only      *)
(* multiply their states.  A behaviour of this module is a behaviour of    *)
(* one of them: focus names it, the others stay in an initial state.  An   *)
(* invariant of a part is checked as it stands; a property that says that  *)
(* something happens is about the behaviours of its part.                  *)
(***************************************************************************)
EXTENDS CircularBuffer, SenderThread, Alarms, CommonRange, Dials, Settings

CONSTANTS Dict, Item, MaxCreated
VARIABLES live, destroyed, linked, used, queue, created, focus

Destruction == INSTANCE DictionaryDestroy
destroyVars == <<live, destroyed, linked, used, queue, created>>
partVars == <<focus, bufferVars, vars, destroyVars, alarmVars, rangeVars, dialVars, settingVars>>

\* An alarm is raised, cleared, or first seen clear.
MCKind(status, old) == [status |-> status, old_status |-> old,
                        no_clear_notification |-> FALSE, recipient |-> TRUE]
MCKinds == {MCKind("WARNING", "CLEAR"), MCKind("CLEAR", "WARNING"),
            MCKind("CLEAR", "UNINITIALIZED")}

\* Values on both sides of zero; authors that give no range, all of it, or one end.
MCScale == {-2, 0, 3}
MCRange(min, max) == [min |-> min, max |-> max]
MCAttributes == {MCRange(Blank, Blank), MCRange(0, 3), MCRange(Blank, -2)}

\* Chunks of one to three bytes.
MCChunks == UNION {[1 .. n -> Byte] : n \in 1 .. 3}

\* A part that is not in focus stays in one of its initial states.
PartsInit ==
    /\ focus \in {"buffer", "sender", "destroy", "alarms", "range", "dials", "settings"}
    /\ BufferInit /\ Init /\ Destruction!Init /\ AlarmInit
    /\ RangeInit /\ (focus = "range" \/ extremes = CHOOSE e \in [Plots -> Extent] : TRUE)
    /\ DialInit
    /\ focus # "dials" => library = "gauge" /\ author = CHOOSE a \in Attributes : TRUE
    /\ SettingsInit
    /\ focus # "settings" => pg.storage /\ pg.server_timezone = CHOOSE z \in Zone : TRUE

\* A page that found health monitoring disabled, or shows a snapshot, does not
\* poll the alarms again; and no more settings are changed than the bound allows.
PollingStopped == focus = "alarms" /\ alarmPoll = "stopped" /\ UNCHANGED partVars
SettingsLeft == focus = "settings" /\ settings = MaxSettings /\ UNCHANGED partVars

PartsNext ==
    \/ focus = "buffer" /\ BufferNext
       /\ UNCHANGED <<focus, vars, destroyVars, alarmVars, rangeVars, dialVars, settingVars>>
    \/ focus = "sender" /\ Next
       /\ UNCHANGED <<focus, bufferVars, destroyVars, alarmVars, rangeVars, dialVars, settingVars>>
    \/ focus = "destroy" /\ Destruction!Next
       /\ UNCHANGED <<focus, bufferVars, vars, alarmVars, rangeVars, dialVars, settingVars>>
    \/ focus = "alarms" /\ AlarmNext
       /\ UNCHANGED <<focus, bufferVars, vars, destroyVars, rangeVars, dialVars, settingVars>>
    \/ focus = "range" /\ RangeNext
       /\ UNCHANGED <<focus, bufferVars, vars, destroyVars, alarmVars, dialVars, settingVars>>
    \/ focus = "dials" /\ DialNext
       /\ UNCHANGED <<focus, bufferVars, vars, destroyVars, alarmVars, rangeVars, settingVars>>
    \/ focus = "settings" /\ SettingsNext
       /\ UNCHANGED <<focus, bufferVars, vars, destroyVars, alarmVars, rangeVars, dialVars>>
    \/ PollingStopped \/ SettingsLeft

\* The fairness of each part (see its module), while the part is in focus.
PartsFairness ==
    /\ WF_vars(focus = "sender" /\ Free)
    /\ WF_vars(focus = "sender" /\ \E t \in Thread : Spawn(t))
    /\ \A t \in Thread : WF_vars(focus = "sender" /\ Running(t))
    /\ \A c \in Plots : WF_rangeVars(focus = "range" /\ Refreshed(c))
    /\ WF_alarmVars(focus = "alarms" /\ PollAlarms)
    /\ SF_alarmVars(focus = "alarms" /\ AnswerPoll)
    /\ SF_alarmVars(focus = "alarms" /\ Polled(TRUE))
    /\ SF_alarmVars(focus = "alarms" /\ logRequests # << >> /\ AnswerLog(1))
    /\ SF_alarmVars(focus = "alarms" /\ logRequests # << >> /\ NotifyAll(1))

PartsSpec == PartsInit /\ [][PartsNext]_partVars /\ PartsFairness

\* DictionaryDestroy: dictionary_destroy() frees no dictionary that is in use,
\* and after it items are only released (see KeptForItsUsers there).
KeptForItsUsers == Destruction!KeptForItsUsers

\* SenderThread: rrdpush_sender_thread_stop() returns, and while a receiver stays
\* there is a sender (see SenderProgress there).
SenderPartProgress == focus = "sender" => SenderProgress

\* CommonRange: charts that share a range come to agree (see RangesAgree).
RangePartAgrees == focus = "range" => RangesAgree
=============================================================================
