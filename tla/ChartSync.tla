------------------------------ MODULE ChartSync -----------------------------
(***************************************************************************)
(* web/gui/src/dashboard.js/main.js and charting/dygraph.js: the charts of *)
(* a dashboard, each refreshed by its own requests, and the pan and zoom   *)
(* of one of them, the master, that all others follow.  Responses, timers, *)
(* the user and the scrolling of the page interleave at will; a response   *)
(* may also fail, or arrive after one that was requested later.            *)
(*                                                                         *)
(* Time is abstracted to what has elapsed, and a time-range to the gesture *)
(* of the user that chose it: range n is the one of the n-th gesture, and  *)
(* Live the default range of a chart, which moves on with every refresh.   *)
(* globalPanAndZoom.seq, the time of the gesture, is its number too.  The  *)
(* charts are known to the registry, the page has the focus, and selection *)
(* on hover is left to SelectionSync, but for the pause it implies.        *)
(***************************************************************************)
EXTENDS Naturals, Sequences, SequencesExt

CONSTANTS
  Chart,
  None,              \* null
  DestroyOnHide,     \* the values the user gives to destroy_on_hide
  Failing,           \* the charts that may have failed to be refreshed at first
  MaxRetries,        \* options.current.retries_on_data_failures
  MaxGestures,       \* bound on what the user does
  MaxMishaps         \* bound on charts hidden or re-created, requests failed or aborted

VARIABLES
  charts,            \* chartState of each chart
  requests,          \* its data requests in flight, oldest first
  master,            \* globalPanAndZoom.master
  seq,               \* globalPanAndZoom.seq, and the range it forces
  stopped,           \* auto_refresher_stop_until has not passed
  gestures, mishaps

bounds == <<gestures, mishaps>>

syncVars == <<charts, requests, master, seq, stopped, bounds>>

Live == 0
TimeRange == 0..MaxGestures

ChartState ==
  [enabled : BOOLEAN,
   running : BOOLEAN,                \* being refreshed by autoRefresh()
   fetching_data : BOOLEAN,
   xhr : BOOLEAN,                    \* xhr is defined, and is the last request
   chart_created : BOOLEAN,
   visible : BOOLEAN,
   paused : BOOLEAN,
   mode : {"auto", "pan", "zoom"},   \* current
   force_update_at : {"no", "later", "now"},
   force : TimeRange \cup {None},        \* force_after_ms, force_before_ms
   pan_and_zoom_seq : TimeRange,
   shown : TimeRange \cup {None},        \* the range of the data that is drawn
   due : BOOLEAN,                    \* update_every passed since last_autorefreshed
   retries : 0..MaxRetries,
   failed : BOOLEAN,                 \* the last request failed (auxiliary)
   redraw : BOOLEAN,                 \* __redraw_on_unhide
   overlapped : BOOLEAN]             \* two requests were in flight (auxiliary)

Request == [range : TimeRange, auto : BOOLEAN]

\* Charts that were drawn, on a page that is not panned; some may have
\* failed to be refreshed since, as often as is allowed.
SyncInit ==
  /\ \E fails \in SUBSET Failing : charts = [c \in Chart |->
       [enabled |-> TRUE, running |-> FALSE, fetching_data |-> FALSE, xhr |-> FALSE,
        chart_created |-> TRUE, visible |-> TRUE, paused |-> FALSE, mode |-> "auto",
        force_update_at |-> "no", force |-> None, pan_and_zoom_seq |-> 0, shown |-> Live,
        due |-> FALSE, retries |-> IF c \in fails THEN MaxRetries ELSE 0,
        failed |-> c \in fails, redraw |-> FALSE, overlapped |-> FALSE]]
  /\ requests = [c \in Chart |-> <<>>]
  /\ master = None /\ seq = 0 /\ stopped = FALSE
  /\ gestures = 0 /\ mishaps = 0
-----------------------------------------------------------------------------
(* What the functions of one chart do to its state. *)

\* setMode()
SetMode(ch, m) ==
  IF ch.mode = m THEN ch
  ELSE [ch EXCEPT !.mode = m, !.force_update_at = "no", !.force = None]

\* init(), with runtimeInit(): running and xhr stay as they are.
Initialize(ch) ==
  IF ~ch.enabled THEN ch
  ELSE SetMode([ch EXCEPT !.fetching_data = FALSE, !.chart_created = FALSE, !.paused = FALSE,
                          !.pan_and_zoom_seq = 0, !.shown = None, !.due = TRUE],
               "auto")

\* error(): the chart is left in the mode "pan", where whatever range that mode
\* still has is of no use to it: only resetChart(), which leaves the mode,
\* enables the chart again.
Disable(ch) == [SetMode(ch, "pan") EXCEPT !.enabled = FALSE]

\* Mutant: the forced range survives the reset.
ResetKeepsForce(ch) ==
  [ch EXCEPT !.pan_and_zoom_seq = 0, !.mode = "auto", !.force_update_at = "no",
             !.due = TRUE, !.paused = FALSE, !.enabled = TRUE]

\* resetChart(), without the update that may follow.
ResetChart(ch) ==
  [ch EXCEPT !.pan_and_zoom_seq = 0, !.mode = "auto", !.force_update_at = "no", !.force = None,
             !.due = TRUE, !.paused = FALSE, !.enabled = TRUE]

\* updateChart() goes on: it is not fetching, it is enabled, and canBeRendered().
CanUpdate(ch) == ~ch.fetching_data /\ ch.enabled /\ ch.visible

\* Mutant: a chart that uses its own range is marked as synchronized.
OwnRangeMarked(ch, active, s) ==
  IF active /\ ch.force # None
  THEN [ch EXCEPT !.pan_and_zoom_seq = s, !.force = None]
  ELSE [ch EXCEPT !.pan_and_zoom_seq = IF active THEN s ELSE 0]

\* chartURL(): the marks it leaves, when seq is s if a pan is active,
ChartURL(ch, active, s) ==
  IF active /\ ch.force # None
  THEN [ch EXCEPT !.pan_and_zoom_seq = 0, !.force = None]
  ELSE [ch EXCEPT !.pan_and_zoom_seq = IF active THEN s ELSE 0]

\* and the range that it requests.
Requested(ch, active, s) ==
  IF ~active THEN Live ELSE IF ch.force # None THEN ch.force ELSE s

\* The end of updateChart(), which sends the request.
Fetch(ch, active, s, inflight) ==
  [ChartURL(ch, active, s) EXCEPT !.fetching_data = TRUE, !.xhr = TRUE, !.failed = FALSE,
                                  !.overlapped = @ \/ inflight # <<>>]

Mishap == mishaps < MaxMishaps /\ mishaps' = mishaps + 1 /\ UNCHANGED gestures

\* isActive()
Active == master # None /\ seq # 0
-----------------------------------------------------------------------------
(* The refresher *)

\* Mutant: a chart that was never synchronized counts as synchronized.
NeverSynced(ch) ==
  /\ ch.enabled /\ ~ch.running /\ ch.visible
  /\ \/ ch.force_update_at = "now"
     \/ /\ ch.mode = "auto"
        /\ ~stopped
        /\ IF Active THEN ch.pan_and_zoom_seq \notin {0, seq} ELSE ~ch.paused /\ ch.due

\* canBeAutoRefreshed()
CanBeAutoRefreshed(ch) ==
  /\ ch.enabled /\ ~ch.running /\ ch.visible
  /\ \/ ch.force_update_at = "now"
     \/ /\ ch.mode = "auto"
        /\ ~stopped
        /\ IF Active THEN ch.pan_and_zoom_seq # seq ELSE ~ch.paused /\ ch.due

\* Mutant: a chart that cannot be updated keeps running.
RefreshKeepsRunning(c) ==
  LET ch == [charts[c] EXCEPT !.force_update_at = IF @ = "now" THEN "no" ELSE @,
                              !.running = TRUE]
  IN /\ CanBeAutoRefreshed(charts[c])
     /\ \/ /\ CanUpdate(ch)
           /\ charts' = [charts EXCEPT ![c] = Fetch(ch, Active, seq, requests[c])]
           /\ requests' = [requests EXCEPT ![c] =
                 Append(@, [range |-> Requested(ch, Active, seq), auto |-> TRUE])]
        \/ ~CanUpdate(ch) /\ charts' = [charts EXCEPT ![c] = ch] /\ UNCHANGED requests
     /\ UNCHANGED <<master, seq, stopped, bounds>>

\* autoRefresh(), in the timeout that chartRefresher() sets for each chart: an
\* update that was due at a given time is forgotten by canBeAutoRefreshed(),
\* even when updateChart() then finds the chart fetching and returns.
AutoRefresh(c) ==
  LET ch == [charts[c] EXCEPT !.force_update_at = IF @ = "now" THEN "no" ELSE @]
  IN /\ CanBeAutoRefreshed(charts[c])
     /\ \/ /\ CanUpdate(ch)
           /\ charts' = [charts EXCEPT ![c] =
                 Fetch([ch EXCEPT !.running = TRUE], Active, seq, requests[c])]
           /\ requests' = [requests EXCEPT ![c] =
                 Append(@, [range |-> Requested(ch, Active, seq), auto |-> TRUE])]
        \/ ~CanUpdate(ch) /\ charts' = [charts EXCEPT ![c] = ch] /\ UNCHANGED requests
     /\ UNCHANGED <<master, seq, stopped, bounds>>
-----------------------------------------------------------------------------
(* The answers *)

\* The always() handler of updateChart(), and the callback of autoRefresh().
Always(ch, auto) ==
  [ch EXCEPT !.xhr = FALSE, !.fetching_data = FALSE, !.running = IF auto THEN FALSE ELSE @]

\* updateChartWithData(): the data of range r is drawn,
Draw(ch, r) ==
  [ch EXCEPT !.retries = 0, !.shown = r, !.chart_created = TRUE, !.due = Active,
             !.redraw = @ \/ ~ch.visible]

\* or there is none to draw: noDataToShow().
NoDataToShow(ch, r) == [ch EXCEPT !.retries = 0, !.shown = r, !.due = FALSE]

\* The done() handler of updateChart(), for the k-th request of c: the data
\* is drawn or is empty, the chart was updated so often that it is initialized
\* instead, or the charting library fails and error() disables the chart.
Answered(c, k) ==
  LET r == requests[c][k]
      ch == [charts[c] EXCEPT !.retries = 0]
      Becomes(new) == charts' = [charts EXCEPT ![c] = Always(new, r.auto)]
  IN /\ requests' = [requests EXCEPT ![c] = RemoveAt(@, k)]
     /\ \/ Becomes(Draw(ch, r.range)) /\ UNCHANGED bounds
        \/ Becomes(NoDataToShow(ch, r.range)) /\ UNCHANGED bounds
        \/ ch.chart_created /\ Becomes(Initialize(ch)) /\ Mishap
        \/ Becomes(Disable([ch EXCEPT !.failed = TRUE])) /\ Mishap
     /\ UNCHANGED <<master, seq, stopped>>

\* The fail() handler of updateChart(), for the k-th request of c.
Failed(c, k) ==
  LET r == requests[c][k]
      ch == [charts[c] EXCEPT !.failed = TRUE]
  IN /\ Mishap
     /\ requests' = [requests EXCEPT ![c] = RemoveAt(@, k)]
     /\ charts' = [charts EXCEPT ![c] =
          Always(IF ch.retries = MaxRetries THEN Disable([ch EXCEPT !.retries = 0])
                 ELSE [ch EXCEPT !.retries = @ + 1, !.due = FALSE],
                 r.auto)]
     /\ UNCHANGED <<master, seq, stopped>>

\* abortAllRefreshes(), which saveSnapshot() calls: the last request of each
\* chart is aborted, and its failure does not count.
AbortAllRefreshes ==
  LET Aborted == {c \in Chart : charts[c].fetching_data /\ charts[c].xhr} IN
  /\ Mishap
  /\ Aborted # {}
  /\ requests' = [c \in Chart |-> IF c \in Aborted THEN Front(requests[c]) ELSE requests[c]]
  /\ charts' = [c \in Chart |->
       IF c \in Aborted THEN Always([charts[c] EXCEPT !.failed = TRUE], TRUE) ELSE charts[c]]
  /\ UNCHANGED <<master, seq, stopped>>
-----------------------------------------------------------------------------
(* Time *)

\* auto_refresher_stop_until passes.
StopElapses ==
  /\ stopped /\ stopped' = FALSE
  /\ UNCHANGED <<charts, requests, master, seq, bounds>>

\* force_update_at, or update_every since last_autorefreshed, passes.
Elapses(c) ==
  /\ \/ /\ charts[c].force_update_at = "later"
        /\ charts' = [charts EXCEPT ![c].force_update_at = "now"]
     \/ /\ ~charts[c].due
        /\ charts' = [charts EXCEPT ![c].due = TRUE]
  /\ UNCHANGED <<requests, master, seq, stopped, bounds>>
-----------------------------------------------------------------------------
(* The user *)

Gesture == gestures < MaxGestures /\ gestures' = gestures + 1 /\ UNCHANGED mishaps

\* globalPanAndZoom.setMaster(), where the charts are chs: the old master is
\* reset, and is not updated until autoRefresh() finds it out of sync.
SetMaster(chs, c) ==
  /\ charts' = IF master \in Chart \ {c}
               THEN [chs EXCEPT ![master] = ResetChart(@)] ELSE chs
  /\ master' = c /\ seq' = gestures + 1 /\ stopped' = TRUE

\* mousedown, in another mode, and touchstart: the chart changes mode, even if
\* it is not moved then.
Press(c, m) ==
  /\ charts[c].visible /\ charts[c].chart_created /\ charts[c].enabled
  /\ \/ charts[c].mode # m /\ charts' = [charts EXCEPT ![c] = SetMode(@, m)]
     \/ /\ m = "zoom"
        /\ charts' = [charts EXCEPT ![c] = [SetMode(@, m) EXCEPT !.paused = TRUE]]
  /\ Gesture
  /\ UNCHANGED <<requests, master, seq, stopped>>

\* mousemove with drawCallback, zoomCallback and wheel end in
\* updateChartPanOrZoom(), which accepts the range, or rejects it when it is
\* too close to the one that is shown.
UpdateChartPanOrZoom(c, m) ==
  LET ch == SetMode(charts[c], m) IN
  /\ charts[c].visible /\ charts[c].chart_created /\ charts[c].enabled
  /\ \/ SetMaster([charts EXCEPT ![c] =
          [ch EXCEPT !.force_update_at = "later", !.force = gestures + 1]], c)
     \/ charts' = [charts EXCEPT ![c] = ch] /\ stopped' = TRUE /\ UNCHANGED <<master, seq>>
  /\ Gesture
  /\ UNCHANGED requests

\* dygraphToolboxPanAndZoom(): the range becomes the one of all charts, whether
\* updateChartPanOrZoom() accepts it or not.
ToolboxPanAndZoom(c) ==
  LET ch == SetMode(charts[c], "zoom") IN
  /\ charts[c].visible /\ charts[c].chart_created /\ charts[c].enabled
  /\ \/ SetMaster([charts EXCEPT ![c] =
          [ch EXCEPT !.force_update_at = "later", !.force = gestures + 1]], c)
     \/ SetMaster([charts EXCEPT ![c] = ch], c)
  /\ Gesture
  /\ UNCHANGED requests

\* A range that comes from elsewhere: the page's URL, an alarm that is clicked,
\* a highlight, a snapshot, the page that is printed.
ForceRange(c) ==
  /\ SetMaster(charts, c)
  /\ Gesture
  /\ UNCHANGED requests

\* mouseup and touchend
Release ==
  /\ stopped /\ stopped' = FALSE
  /\ UNCHANGED <<charts, requests, master, seq, bounds>>

\* highlightCallback() and unhighlightCallback(): the mouse is over one chart.
Hover(c) ==
  /\ charts[c].visible /\ charts[c].chart_created
  /\ charts[c].paused \/ \A d \in Chart : ~charts[d].paused
  /\ charts' = [charts EXCEPT ![c].paused = ~@]
  /\ UNCHANGED <<requests, master, seq, stopped, bounds>>

\* Charts that are reset, and updated if they can be, once no pan is active.
ResetAndUpdate(reset) ==
  LET Updates(c) == c \in reset /\ CanUpdate(ResetChart(charts[c])) IN
  /\ charts' = [c \in Chart |->
       IF Updates(c) THEN Fetch(ResetChart(charts[c]), FALSE, 0, requests[c])
       ELSE IF c \in reset THEN ResetChart(charts[c]) ELSE charts[c]]
  /\ requests' = [c \in Chart |->
       IF Updates(c) THEN Append(requests[c], [range |-> Live, auto |-> FALSE]) ELSE requests[c]]

\* resetAllCharts(), from the toolbox and from dblclick: clearMaster() resets
\* the master; the chart that was clicked is reset if the mouse paused it.
ResetAllCharts(c) ==
  /\ ResetAndUpdate({d \in Chart : d = master \/ (d = c /\ charts[d].paused)})
  /\ master' = None /\ seq' = 0 /\ stopped' = FALSE
  /\ Gesture

\* The page is scrolled, or a tab is switched: hideChart()
HideChart(c) ==
  /\ Mishap
  /\ charts[c].visible
  /\ \E destroy \in DestroyOnHide :
       LET ch == [charts[c] EXCEPT !.visible = FALSE] IN
       charts' = [charts EXCEPT ![c] =
         IF ch.chart_created /\ destroy THEN Initialize(ch) ELSE ch]
  /\ UNCHANGED <<requests, master, seq, stopped>>

\* unhideChart(), with redrawChart() when there is data that was not seen.
UnhideChart(c) ==
  LET ch == [charts[c] EXCEPT !.visible = TRUE, !.redraw = FALSE] IN
  /\ ~charts[c].visible
  /\ charts' = [charts EXCEPT ![c] =
       IF ~ch.chart_created THEN Initialize(ch)
       ELSE IF charts[c].redraw THEN [ch EXCEPT !.due = Active] ELSE ch]
  /\ UNCHANGED <<requests, master, seq, stopped, bounds>>
-----------------------------------------------------------------------------
SyncNext ==
  \/ AbortAllRefreshes \/ StopElapses \/ Release
  \/ \E c \in Chart :
       \/ AutoRefresh(c) \/ Elapses(c)
       \/ \E k \in DOMAIN requests[c] : Answered(c, k) \/ Failed(c, k)
       \/ \E m \in {"pan", "zoom"} : Press(c, m) \/ UpdateChartPanOrZoom(c, m)
       \/ ToolboxPanAndZoom(c) \/ ForceRange(c) \/ Hover(c) \/ ResetAllCharts(c)
       \/ HideChart(c) \/ UnhideChart(c)

SyncSpec == SyncInit /\ [][SyncNext]_syncVars

\* Timers fire and the loop comes round (a timeout re-arms it); the server
\* answers, or fails, every request in the end.
SyncFairness ==
  /\ WF_syncVars(StopElapses)
  /\ \A c \in Chart :
       /\ WF_syncVars(Elapses(c))
       /\ WF_syncVars(AutoRefresh(c))
       /\ WF_syncVars(requests[c] # <<>> /\ (Answered(c, 1) \/ Failed(c, 1)))

SyncFairSpec == SyncSpec /\ SyncFairness
-----------------------------------------------------------------------------
\* The types of the state.
SyncTypeOK ==
  /\ charts \in [Chart -> ChartState]
  /\ \A c \in Chart : \A k \in DOMAIN requests[c] : requests[c][k] \in Request
  /\ master \in Chart \cup {None}
  /\ seq \in TimeRange
  /\ stopped \in BOOLEAN

\* Only the master of the pan has a range of its own to show (force_after_ms
\* of its mode): every way of replacing or clearing the master, of hiding it
\* and of creating it again takes that range back, so that a chart never
\* answers a later pan with the range of an earlier one.
OwnRangeOnlyMaster ==
  \A c \in Chart : charts[c].force # None => c = master

\* A chart that is marked as synchronized to the current pan (its
\* pan_and_zoom_seq is globalPanAndZoom.seq, so autoRefresh() skips it) shows
\* the range of that pan, or waits for a request for it, unless the request
\* failed or was overtaken by one that init() made the chart forget.
MarkedIsSynced ==
  \A c \in Chart :
    (Active /\ charts[c].pan_and_zoom_seq = seq /\ ~charts[c].failed /\ ~charts[c].overlapped)
      => \/ charts[c].shown = seq
         \/ \E k \in DOMAIN requests[c] : requests[c][k].range = seq

\* A chart that is running has an autoRefresh() request in flight, and one
\* that is fetching has a request in flight: no chart is left waiting for an
\* answer that was given already, or never asked for.  (The run checks the types
\* of the state with it.)
BusyHasRequest ==
  /\ SyncTypeOK
  /\ \A c \in Chart :
       /\ charts[c].running => \E k \in DOMAIN requests[c] : requests[c][k].auto
       /\ charts[c].fetching_data => requests[c] # <<>>

\* The chart is one that autoRefresh() is to keep in sync.
Follows(c) ==
  /\ charts[c].enabled /\ charts[c].visible /\ charts[c].mode = "auto"
  /\ Active => ~charts[c].failed

\* Once the user is done and the mouse has left, every chart that follows ends
\* up with the range of the pan, or with its own when there is none, and stays
\* with it, if no request of it was overtaken.
EventuallySynced ==
  \A c \in Chart :
    ([]~charts[c].overlapped /\ <>[]~charts[c].paused) =>
      <>[](Follows(c) => charts[c].shown = IF Active THEN seq ELSE Live)
=============================================================================
