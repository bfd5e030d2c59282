---------------------------- MODULE StreamSender ----------------------------
(***************************************************************************)
(* streaming/sender.c, sender_commit.c, sender_connect.c and rrdpush.c:    *)
(* what a child sends to its parent.  Collector threads, one per chart,    *)
(* commit chart definitions and data to the buffer of the host; the sender *)
(* thread connects, empties the buffer into the socket and reconnects.     *)
(* A message takes two places in the buffer, so that send() can stop       *)
(* inside it: they stand for its bytes, or for its signature and its       *)
(* payload when it is compressed.  The buffer itself is ByteFifo, which    *)
(* CircularBuffer implements.  The life of the thread is in SenderThread.  *)
(* The parent has neither replication nor the pipe's wake-up, which only   *)
(* makes poll() return before its 50 ms.                                   *)
(***************************************************************************)
EXTENDS Naturals, Sequences, FiniteSets

CONSTANTS
  Chart,        \* the charts of the host, each collected by its own thread
  Compression,  \* whether the parent agrees to compress
  MaxSize,      \* the buffer holds less than this
  MaxConnections, MaxUpdates, MaxMessages

\* sender_commit() keeps max_size at three messages and more.
ASSUME BufferAssumption == MaxSize \in Nat /\ MaxSize > 6

VARIABLES
  sock,         \* the connection that is open, 0 when the socket is -1
  conns,        \* connections made
  connected,    \* RRDHOST_FLAG_RRDPUSH_SENDER_CONNECTED
  ready,        \* RRDHOST_FLAG_RRDPUSH_SENDER_READY_4_METRICS
  overflow,     \* SENDER_FLAG_OVERFLOW
  buf,          \* the places of the buffer in use
  received,     \* what the parent got on the last connection
  compress,     \* [on: compressor.initialized, able: not disabled]
  version,      \* version of each chart
  sent,         \* sent_version of each chart
  pc,           \* where the sender thread is
  was,          \* was_connected
  out,          \* outstanding, as read before poll()
  col,          \* the call each collector is in
  made          \* messages committed

net == <<sock, conns, connected, ready>>
data == <<overflow, buf, compress, made>>
charts == <<version, sent>>
sender == <<pc, was, out>>
vars == <<net, data, received, charts, sender, col>>

\* Stands for bytes that no commit put there.
Junk == [kind |-> "junk", chart |-> "none", born |-> 0, part |-> 0]

\* A place of a message: of a chart, or of the host; born is the connection
\* on which its sender looked at the flags.
Place == [kind : {"host", "definition", "metrics", "junk"},
          chart : Chart \cup {"none"}, born : 0 .. MaxConnections, part : 0 .. 2]

Idle == [at |-> "idle", now |-> FALSE, ver |-> 0, born |-> 0]

TypeOK ==
  /\ sock \in 0 .. MaxConnections /\ conns \in 0 .. MaxConnections
  /\ connected \in BOOLEAN /\ ready \in BOOLEAN /\ overflow \in BOOLEAN
  /\ buf \in Seq(Place) /\ Len(buf) < MaxSize
  /\ received \in Seq(Place)
  /\ compress \in [on : BOOLEAN, able : BOOLEAN]
  /\ version \in [Chart -> Nat] /\ sent \in [Chart -> Nat]
  /\ pc \in {"top", "connect", "flush", "reset", "announce", "variables",
             "labels", "ready", "poll", "after"}
  /\ was \in BOOLEAN /\ out \in BOOLEAN
  /\ col \in [Chart -> [at : {"idle", "functions", "check", "define", "commit", "expose", "fill"},
                        now : BOOLEAN, ver : Nat, born : 0 .. MaxConnections]]
  /\ made \in 0 .. MaxMessages

Init ==
  /\ sock = 0 /\ conns = 0 /\ connected = FALSE /\ ready = FALSE
  /\ overflow = FALSE /\ buf = <<>> /\ received = <<>>
  /\ compress = [on |-> FALSE, able |-> Compression]
  /\ version = [c \in Chart |-> 1] /\ sent = [c \in Chart |-> 0]
  /\ pc = "top" /\ was = FALSE /\ out = FALSE
  /\ col = [c \in Chart |-> Idle]
  /\ made = 0

\* rrdpush_sender_thread_close_socket()
CloseSocket ==
  /\ sock' = 0 /\ connected' = FALSE /\ ready' = FALSE
  /\ UNCHANGED conns
-----------------------------------------------------------------------------
(***************************************************************************)
(* sender_commit()                                                         *)
(***************************************************************************)

\* cbuffer_add_unsafe(): whole or not at all.
Fits(b, n) == Len(b) + n < MaxSize

Parts(m) == [i \in 1 .. 2 |-> [m EXCEPT !.part = i]]

\* What is in the buffer after a message: without compression all of it is
\* added at once; with it the signature and then, if that fitted, the payload.
Added(b, m) ==
  IF Fits(b, 2) THEN b \o Parts(m)
  ELSE IF compress.on /\ Fits(b, 1) THEN Append(b, Parts(m)[1])
  ELSE b

Commit(m) ==
  /\ made < MaxMessages
  /\ made' = made + 1
  /\ \/ /\ buf' = Added(buf, m)
        /\ overflow' = (overflow \/ ~Fits(buf, 2))
        /\ UNCHANGED <<compress, net>>
     \* rrdpush_compress() fails twice: rrdpush_compression_deactivate()
     \/ /\ compress.on
        /\ compress' = [compress EXCEPT !.able = FALSE]
        /\ CloseSocket
        /\ UNCHANGED <<overflow, buf>>
-----------------------------------------------------------------------------
(***************************************************************************)
(* Collectors.                                                             *)
(***************************************************************************)
At(c, l) == col[c].at = l

Goto(c, l) == col' = [col EXCEPT ![c].at = l]

Message(c, k) == [kind |-> k, chart |-> c, born |-> col[c].born, part |-> 0]

\* rrdset_push_metric_initialize(): not ready, it returns without a buffer.
PushInitialize(c) ==
  /\ At(c, "idle") /\ ready
  /\ \E l \in {"functions", "check"} :
       col' = [col EXCEPT ![c] = [Idle EXCEPT !.at = l, !.born = sock]]
  /\ UNCHANGED <<net, data, received, charts, sender>>

\* rrd_global_functions_expose_rrdpush(), when they were updated.
GlobalFunctions(c) ==
  /\ At(c, "functions")
  /\ Commit([Message(c, "host") EXCEPT !.chart = "none"])
  /\ Goto(c, "check")
  /\ UNCHANGED <<received, charts, sender>>

\* rrdset_check_upstream_exposed()
CheckExposed(c) ==
  /\ At(c, "check")
  /\ Goto(c, IF version[c] = sent[c] THEN "fill" ELSE "define")
  /\ UNCHANGED <<net, data, received, charts, sender>>

\* rrdset_push_chart_definition_now()
DefinitionNow(c) ==
  /\ At(c, "idle") /\ connected
  /\ col' = [col EXCEPT ![c] = [Idle EXCEPT !.at = "define", !.now = TRUE, !.born = sock]]
  /\ UNCHANGED <<net, data, received, charts, sender>>

\* rrdpush_send_chart_definition() reads the version of what it prints,
SendDefinition(c) ==
  /\ At(c, "define")
  /\ col' = [col EXCEPT ![c].at = "commit", ![c].ver = version[c]]
  /\ UNCHANGED <<net, data, received, charts, sender>>

\* commits it,
CommitDefinition(c) ==
  /\ At(c, "commit")
  /\ Commit(Message(c, "definition"))
  /\ Goto(c, "expose")
  /\ UNCHANGED <<received, charts, sender>>

\* Mutant: the version is read again.
ExposeCurrent(c) ==
  /\ At(c, "expose")
  /\ sent' = [sent EXCEPT ![c] = version[c]]
  /\ IF col[c].now THEN Goto(c, "idle") ELSE Goto(c, "fill")
  /\ UNCHANGED <<net, data, received, version, sender>>

\* and marks the chart with it, whatever became of the commit.
Expose(c) ==
  /\ At(c, "expose")
  /\ sent' = [sent EXCEPT ![c] = col[c].ver]
  /\ IF col[c].now THEN Goto(c, "idle") ELSE Goto(c, "fill")
  /\ UNCHANGED <<net, data, received, version, sender>>

\* rrdset_push_metrics_finished(); a buffer with no metrics is not committed.
PushFinished(c) ==
  /\ At(c, "fill")
  /\ \/ Commit(Message(c, "metrics"))
     \/ UNCHANGED <<net, data>>
  /\ Goto(c, "idle")
  /\ UNCHANGED <<received, charts, sender>>

\* rrdset_metadata_updated(): a dimension, a label or an option changed.
Update(c) ==
  /\ version[c] <= MaxUpdates
  /\ version' = [version EXCEPT ![c] = @ + 1]
  /\ UNCHANGED <<net, data, received, sent, sender, col>>
-----------------------------------------------------------------------------
(***************************************************************************)
(* The sender thread without a connection.                                 *)
(***************************************************************************)

\* rrdpush_sender_thread_reset_all_charts(): a new version is a chart that
\* has to be defined again.
ResetAllCharts == version' = [c \in Chart |-> version[c] + 1] /\ UNCHANGED sent

\* rrdpush_sender_on_disconnect()
OnDisconnect ==
  /\ pc = "top" /\ sock = 0 /\ was
  /\ ResetAllCharts
  /\ was' = FALSE
  /\ UNCHANGED <<net, data, received, pc, out, col>>

\* rrdpush_sender_cbuffer_recreate_timed() and the positions set to 0 without
\* the lock.  A collector that is storing a message then leaves its own
\* position behind, and with it bytes that are not a message.
Prepare ==
  /\ pc = "top" /\ sock = 0 /\ ~was
  /\ ready' = FALSE /\ overflow' = FALSE
  /\ buf' \in {<<>>} \cup IF \E c \in Chart : col[c].at \in {"functions", "commit", "fill"}
                          THEN {<<Junk>>} ELSE {}
  /\ pc' = "connect"
  /\ UNCHANGED <<sock, conns, connected, compress, made, received, charts, was, out, col>>

\* rrdpush_sender_thread_connect_to_parent()
Connect ==
  /\ pc = "connect"
  /\ \/ /\ conns < MaxConnections
        /\ conns' = conns + 1 /\ sock' = conns + 1 /\ received' = <<>>
        /\ compress' = [compress EXCEPT !.on = compress.able]
        /\ pc' = "flush"
     \/ pc' = "top" /\ UNCHANGED <<conns, sock, received, compress>>
  /\ UNCHANGED <<connected, ready, overflow, buf, made, charts, was, out, col>>

\* Mutant: what the buffer holds is kept for the new connection.
FlushNothing ==
  /\ pc = "flush"
  /\ pc' = "reset"
  /\ UNCHANGED <<net, data, received, charts, was, out, col>>

\* rrdpush_sender_on_connect(): rrdpush_sender_cbuffer_flush(),
Flush ==
  /\ pc = "flush"
  /\ buf' = <<>>
  /\ pc' = "reset"
  /\ UNCHANGED <<net, overflow, compress, made, received, charts, was, out, col>>

\* then rrdpush_sender_charts_and_replication_reset().
Reset ==
  /\ pc = "reset"
  /\ ResetAllCharts
  /\ pc' = "announce"
  /\ UNCHANGED <<net, data, received, was, out, col>>

\* attempt_to_connect()
Announce ==
  /\ pc = "announce"
  /\ connected' = TRUE
  /\ pc' = "variables"
  /\ UNCHANGED <<sock, conns, ready, data, received, charts, was, out, col>>

\* The sender thread commits a message of the host, when there is one.
HostMessage(here, next) ==
  /\ pc = here
  /\ pc' = next
  /\ \/ connected /\ Commit([kind |-> "host", chart |-> "none", born |-> sock, part |-> 0])
     \/ UNCHANGED <<net, data>>
  /\ UNCHANGED <<received, charts, was, out, col>>

\* rrdpush_sender_after_connect()
HostVariables == HostMessage("variables", "labels")

\* stream_path_send_to_parent(), rrdpush_sender_send_claimed_id(),
\* rrdpush_send_host_labels(), rrdpush_send_global_functions()
HostLabels == HostMessage("labels", "ready")

\* rrdpush_sender_thread(): metrics may be sent.
Ready ==
  /\ pc = "ready"
  /\ ready' = TRUE /\ was' = TRUE
  /\ pc' = "top"
  /\ UNCHANGED <<sock, conns, connected, data, received, charts, out, col>>
-----------------------------------------------------------------------------
(***************************************************************************)
(* The sender thread with a connection.                                    *)
(***************************************************************************)

\* Nothing was sent or received for s->timeout seconds.
Timeout ==
  /\ pc = "top" /\ sock # 0
  /\ CloseSocket
  /\ UNCHANGED <<data, received, charts, sender, col>>

\* cbuffer_next_unsafe()
Outstanding ==
  /\ pc = "top" /\ sock # 0
  /\ out' = (buf # <<>>)
  /\ pc' = "poll"
  /\ UNCHANGED <<net, data, received, charts, was, col>>

\* poll() times out, is interrupted, or fails.
PollNothing ==
  /\ pc = "poll"
  /\ pc' = "top"
  /\ CloseSocket \/ UNCHANGED net
  /\ UNCHANGED <<data, received, charts, was, out, col>>

\* attempt_to_send(), with as much as send() takes,
AttemptToSend ==
  /\ pc = "poll" /\ out /\ sock # 0
  /\ \E n \in 1 .. Len(buf) :
       /\ received' = received \o SubSeq(buf, 1, n)
       /\ buf' = SubSeq(buf, n + 1, Len(buf))
  /\ pc' = "after"
  /\ UNCHANGED <<net, overflow, compress, made, charts, was, out, col>>

\* with an error (also: a collector closed the socket), or with nothing sent.
NothingSent ==
  /\ pc = "poll"
  /\ \/ out /\ CloseSocket
     \/ sock # 0 /\ UNCHANGED net
     \/ ~out /\ UNCHANGED net
  /\ pc' = "after"
  /\ UNCHANGED <<data, received, charts, was, out, col>>

\* Mutant: the flag is not looked at.
AfterPollForgets ==
  /\ pc = "after"
  /\ CloseSocket \/ UNCHANGED net
  /\ pc' = "top"
  /\ UNCHANGED <<data, received, charts, was, out, col>>

\* attempt_read(), the errors of the socket, "protection from overflow".
AfterPoll ==
  /\ pc = "after"
  /\ CloseSocket \/ (~overflow /\ UNCHANGED net)
  /\ pc' = "top"
  /\ UNCHANGED <<data, received, charts, was, out, col>>
-----------------------------------------------------------------------------
Collecting(c) ==
  \/ PushInitialize(c) \/ GlobalFunctions(c) \/ CheckExposed(c) \/ DefinitionNow(c)
  \/ SendDefinition(c) \/ CommitDefinition(c) \/ Expose(c)
  \/ PushFinished(c) \/ Update(c)

Sending ==
  \/ OnDisconnect \/ Prepare \/ Connect \/ Flush \/ Reset \/ Announce
  \/ HostVariables \/ HostLabels \/ Ready
  \/ Timeout \/ Outstanding \/ PollNothing \/ AttemptToSend \/ NothingSent \/ AfterPoll

Next == Sending \/ \E c \in Chart : Collecting(c)

Spec == Init /\ [][Next]_vars

\* The thread runs, and it does not poll for ever a socket that stays silent:
\* poll() reports something or s->timeout seconds pass.
FairSpec ==
  Spec /\ WF_vars(Sending) /\ SF_vars(AttemptToSend \/ NothingSent \/ Timeout)
-----------------------------------------------------------------------------
(***************************************************************************)
(* sender_commit(), attempt_to_send(), rrdpush_sender_cbuffer_flush(): as  *)
(* long as nothing overflowed, what the parent gets on a connection is     *)
(* made of whole messages, only the last of which may be incomplete, and   *)
(* of nothing else, although the buffer is reset without the lock.  (The   *)
(* run checks the types, and the limit of the buffer, with it.)            *)
(***************************************************************************)
WholeMessages ==
  /\ TypeOK
  /\ (sock # 0 /\ ~overflow) =>
       \A i \in DOMAIN received :
         LET before == IF i = 1 THEN [received[i] EXCEPT !.part = 2] ELSE received[i - 1]
         IN  \/ received[i].part = 1 /\ before.part = 2
             \/ received[i] = [before EXCEPT !.part = 2] /\ before.part = 1

(***************************************************************************)
(* rrdpush_send_chart_definition(), rrdpush_sender_on_connect(): metrics   *)
(* of a chart that a collector began to push on a connection reach the     *)
(* parent on that connection after a definition of the chart, although     *)
(* definitions are wiped, lost and marked as sent all the while.           *)
(***************************************************************************)
DefinedFirst ==
  (sock # 0 /\ ~overflow) =>
    \A i \in DOMAIN received :
      (received[i].kind = "metrics" /\ received[i].born = sock) =>
        \E j \in 1 .. i - 1 :
          received[j].kind = "definition" /\ received[j].chart = received[i].chart

(***************************************************************************)
(* rrdpush_sender_thread(), "protection from overflow": a connection on    *)
(* which a message was lost is closed.                                     *)
(***************************************************************************)
OverflowCloses == (overflow /\ sock # 0) ~> sock = 0

(***************************************************************************)
(* streaming/rrdpush.c:699: "any spurious data is wiped on reconnection".  *)
(* Metrics that the parent gets on a connection were begun on it.          *)
(***************************************************************************)
SpuriousWiped ==
  sock # 0 => \A i \in DOMAIN received :
                received[i].kind = "metrics" => received[i].born = sock
=============================================================================
