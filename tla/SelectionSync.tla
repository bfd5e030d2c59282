---------------------------- MODULE SelectionSync ---------------------------
(***************************************************************************)
(* web/gui/src/dashboard.js/main.js, globalSelectionSync: the chart under  *)
(* the mouse selects a moment of its data, and a timeout selects it on all *)
(* charts that were visible when the mouse came; the refresher dispatches  *)
(* nothing meanwhile.  The mouse, the timeouts, the data that arrives and  *)
(* the charts that are destroyed or hidden interleave at will.             *)
(***************************************************************************)
EXTENDS Naturals, FiniteSets

CONSTANTS
  Plot,              \* the charts of the page
  NoPlot,            \* null
  Moment,            \* points of time, numbers above 0
  MaxDestroyed       \* bound on how many times a chart is destroyed

VARIABLES
  selecting,         \* globalSelectionSync.state
  slaves,
  last_t,
  delayed,           \* dontSyncBefore has not passed
  syncing,           \* the timeout of __syncSlaves() is pending
  selected,          \* selected, of each chart
  marks,             \* the moment its library marks, or 0
  drawn,             \* the charts that are visible and created
  destroyed

selectionVars == <<selecting, slaves, last_t, delayed, syncing, selected, marks, drawn, destroyed>>

SelectionInit ==
  /\ selecting = NoPlot /\ slaves = {} /\ last_t = 0
  /\ delayed = FALSE /\ syncing = FALSE
  /\ selected = [c \in Plot |-> FALSE]
  /\ marks = [c \in Plot |-> 0]
  /\ drawn = Plot /\ destroyed = 0

\* clearSelection() of the charts of cs, with dygraphClearSelection()
ClearSelection(cs) ==
  /\ selected' = [c \in Plot |-> selected[c] /\ c \notin cs]
  /\ marks' = [c \in Plot |-> IF c \in cs /\ selected[c] THEN 0 ELSE marks[c]]

\* Mutant: the chart under the mouse is cleared, its slaves are not.
StopMaster ==
  /\ ClearSelection({selecting})
  /\ last_t' = IF selecting = NoPlot THEN last_t ELSE 0
  /\ selecting' = NoPlot /\ slaves' = {}

\* stop()
StopSync ==
  /\ ClearSelection(slaves \cup {selecting})
  /\ last_t' = IF selecting = NoPlot THEN last_t ELSE 0
  /\ selecting' = NoPlot /\ slaves' = {}
-----------------------------------------------------------------------------
\* sync(c, t), from highlightCallback(): setMaster() stops the selection of
\* another chart, and any selection while selections are delayed; the new one
\* has as slaves the charts that globalSelectionSyncIsEligible() now.
Sync(c, t) ==
  LET stays == ~delayed /\ selecting = c
      cleared == IF stays THEN {} ELSE slaves \cup {selecting}
      last == IF stays \/ (delayed /\ selecting = NoPlot) THEN last_t ELSE 0
  IN /\ c \in drawn
     /\ selecting' = IF delayed THEN NoPlot ELSE c
     /\ slaves' = IF delayed THEN {} ELSE IF stays THEN slaves ELSE drawn \ {c}
     /\ selected' = [d \in Plot |->
          IF d = c /\ ~delayed /\ ~stays THEN TRUE ELSE selected[d] /\ d \notin cleared]
     /\ marks' = [d \in Plot |-> IF d \in cleared /\ selected[d] THEN 0 ELSE marks[d]]
     /\ last_t' = t
     /\ syncing' = (syncing \/ t # last)
     /\ UNCHANGED <<delayed, drawn, destroyed>>

\* __syncSlaves(): setSelection() on each slave, which finds the moment in the
\* data of some of them (dygraphSetSelection()).
SyncSlaves ==
  /\ syncing /\ syncing' = FALSE
  /\ \/ /\ ~delayed
        /\ \E found \in SUBSET (IF last_t = 0 THEN {} ELSE slaves \cap drawn) :
             /\ selected' = [c \in Plot |-> IF c \in slaves THEN c \in found ELSE selected[c]]
             /\ marks' = [c \in Plot |->
                  IF c \in found THEN last_t ELSE IF c \in slaves THEN 0 ELSE marks[c]]
     \/ delayed /\ UNCHANGED <<selected, marks>>
  /\ UNCHANGED <<selecting, slaves, last_t, delayed, drawn, destroyed>>

\* The mouse leaves the chart (unhighlightCallback()), or the page scrolls
\* (onscrollUpdater()); a button that is pressed delays what follows, too.
StopSelection ==
  /\ StopSync
  /\ delayed' \in {delayed, TRUE}
  /\ UNCHANGED <<syncing, drawn, destroyed>>

\* delay(), by a chart that the user moved and that is drawn again.
Delay ==
  /\ ~delayed /\ delayed' = TRUE
  /\ UNCHANGED <<selecting, slaves, last_t, syncing, selected, marks, drawn, destroyed>>

DelayElapses ==
  /\ delayed /\ delayed' = FALSE
  /\ UNCHANGED <<selecting, slaves, last_t, syncing, selected, marks, drawn, destroyed>>

\* The data of a request made before the selection arrives:
\* updateChartWithData() stops the selection of a selected chart.
DataArrives(c) ==
  /\ c \in drawn /\ selected[c]
  /\ StopSync
  /\ UNCHANGED <<delayed, syncing, drawn, destroyed>>

\* updateChart() and resetChart() clear the selection of the chart alone.
ClearedAlone(c) ==
  /\ selected[c]
  /\ ClearSelection({c})
  /\ UNCHANGED <<selecting, slaves, last_t, delayed, syncing, drawn, destroyed>>

\* The chart is hidden and destroyed, or is initialized again: runtimeInit().
Destroy(c) ==
  /\ c \in drawn /\ destroyed < MaxDestroyed /\ destroyed' = destroyed + 1
  /\ drawn' = drawn \ {c}
  /\ selected' = [selected EXCEPT ![c] = FALSE] /\ marks' = [marks EXCEPT ![c] = 0]
  /\ UNCHANGED <<selecting, slaves, last_t, delayed, syncing>>

\* Data arrives for a chart that was destroyed, and creates it.
CreateAgain(c) ==
  /\ c \notin drawn /\ drawn' = drawn \cup {c}
  /\ UNCHANGED <<selecting, slaves, last_t, delayed, syncing, selected, marks, destroyed>>
-----------------------------------------------------------------------------
SelectionNext ==
  \/ SyncSlaves \/ StopSelection \/ Delay \/ DelayElapses
  \/ \E c \in Plot :
       \/ \E t \in Moment : Sync(c, t)
       \/ DataArrives(c) \/ ClearedAlone(c) \/ Destroy(c) \/ CreateAgain(c)

SelectionSpec == SelectionInit /\ [][SelectionNext]_selectionVars
-----------------------------------------------------------------------------
\* A chart is selected only as the chart under the mouse or as one of its
\* slaves, so that stop() leaves none selected (resetAllCharts() relies on it:
\* a selected chart is not refreshed); no mark outlives the selection that set
\* it, and all slaves mark one moment, whatever timeout, data or destruction
\* came in between.
SelectedTogether ==
  \A c \in Plot :
    /\ selected[c] => c \in slaves \cup {selecting}
    /\ marks[c] # 0 => selected[c]
    /\ \A d \in Plot : marks[c] # 0 /\ marks[d] # 0 => marks[c] = marks[d]
=============================================================================
