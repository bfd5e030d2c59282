-------------------------------- MODULE Dials -------------------------------
(***************************************************************************)
(* A chart that shows one number: charting/gauge.js (a needle) and         *)
(* charting/easy-pie-chart.js (an arc), in web/gui/src/dashboard.js.       *)
(*                                                                         *)
(* The number is written in a label and drawn as a percentage of a range.  *)
(* When the mouse selects a moment on another chart the label changes at   *)
(* once and the needle in a timeout, which runs with the next animation    *)
(* frame; data that arrives, the end of the selection, a pan of the page   *)
(* and a chart that is initialized again come in between.  The units, the  *)
(* labels of the range and the charts' looks are left out.                 *)
(***************************************************************************)
EXTENDS Integers, Sequences, FiniteSetsExt

CONSTANTS
  Blank, NaN,
  Scale,             \* the values of the data, and the ends of ranges
  Attributes,        \* the ranges that authors of pages give
  MaxInitialized     \* bound on how many times the chart is initialized again

VARIABLES
  library,           \* "gauge" or "easypiechart"
  author,            \* the range in the attributes of the element, or Blank
  dial,              \* the chart
  panned,            \* globalPanAndZoom.isActive()
  orphaned,          \* a selection met a timeout that init() left behind
  initialized

dialVars == <<library, author, dial, panned, orphaned, initialized>>

\* result, the newest value first; the fields of tmp; frames counts the timeouts
\* that are pending, armed says that one is on record in the event.
NewDial == [rows |-> << >>, created |-> FALSE, selected |-> FALSE,
            event |-> Blank, armed |-> FALSE, frames |-> 0,
            label |-> Blank, needle |-> 0, animated |-> TRUE]

DialInit ==
  /\ library \in {"gauge", "easypiechart"}
  /\ author \in Attributes
  /\ dial = NewDial
  /\ panned = FALSE /\ orphaned = FALSE /\ initialized = 0

\* Ranges are zero based unless the author gave the end.
Zero(end) == IF end = Blank THEN {0} ELSE {}

\* gaugeSet(): where the needle is, in thousandths of a percent.
GaugeSet(v, lo, hi) ==
  LET min == Min({lo, v} \cup Zero(author.min))
      max == Max({hi, v} \cup Zero(author.max))
      pcent == ((v - min) * 100000) \div (IF min = max THEN 1 ELSE max - min)
  IN  Min({99999, Max({1, pcent})})

\* Math.round(a / b)
Round(a, b) == (2 * a + b) \div (2 * b)

\* easypiechartPercentFromValueMinMax(), in thousandths of a percent: an arc to
\* the right or to the left of the top, and never an empty one.
Percent(v, lo, hi) ==
  LET min == Min({lo, hi, v} \cup Zero(author.min))
      max == Max({lo, hi, v} \cup Zero(author.max))
      arc(p, least) == IF p = 0 THEN least ELSE 1000 * p
  IN  IF min < 0 /\ max > 0 THEN 1000 * Round(v * 100, Max({-min, max}))
      ELSE IF min = max THEN NaN
      ELSE IF v >= 0 /\ min >= 0 THEN arc(Round((v - min) * 100, max - min), 100)
      ELSE arc(Round((v - max) * 100, max - min), -100)

Position(v, r) ==
  LET lo == IF author.min = Blank THEN r[1] ELSE author.min
      hi == IF author.max = Blank THEN r[2] ELSE author.max
  IN  IF library = "gauge" THEN GaugeSet(v, lo, hi) ELSE Percent(v, lo, hi)

\* What commonMin.get() and commonMax.get() may return: the range of the chart,
\* or of more charts (see CommonRange).
CommonRanges(rows) ==
  {r \in Scale \X Scale : \A k \in DOMAIN rows : r[1] <= rows[k] /\ rows[k] <= r[2]}
-----------------------------------------------------------------------------
\* gaugeChartUpdate(), easypiechartChartUpdate(); these charts stay in the mode
\* auto.
ChartUpdate(d, r) ==
  IF panned THEN [d EXCEPT !.label = Blank, !.needle = 0]
  ELSE [d EXCEPT !.label = d.rows[1], !.needle = Position(d.rows[1], r)]

\* Mutant: a timeout that is pending is not cleared.
ClearShown(d, force, r) ==
  [(IF force THEN [d EXCEPT !.label = Blank, !.needle = IF library = "gauge" THEN 1 ELSE 0]
             ELSE ChartUpdate(d, r))
     EXCEPT !.animated = TRUE]

\* gaugeClearSelection(), easypiechartClearSelection()
ClearSelection(d, force, r) ==
  LET c == IF d.armed THEN [d EXCEPT !.armed = FALSE, !.frames = @ - 1] ELSE d
  IN  [(IF force THEN [c EXCEPT !.label = Blank, !.needle = IF library = "gauge" THEN 1 ELSE 0]
                 ELSE ChartUpdate(c, r))
         EXCEPT !.animated = TRUE]

\* gaugeSetSelection(), easypiechartSetSelection(): the timeout, if there is one
\* already, shows the latest selection.
SetSelection(d, v, r) ==
  LET s == [d EXCEPT !.selected = TRUE, !.label = v, !.event = [value |-> v, range |-> r]]
  IN  IF d.armed THEN s
      ELSE [s EXCEPT !.animated = FALSE, !.armed = TRUE, !.frames = @ + 1]

\* gaugeChartCreate(), easypiechartChartCreate()
ChartCreate(d, r) ==
  [d EXCEPT !.created = TRUE, !.animated = TRUE,
            !.label = d.rows[1], !.needle = Position(d.rows[1], r)]
-----------------------------------------------------------------------------
\* A moment is selected that the chart has in its data.  On a chart that is not
\* created the call ends with an exception, after it has set the event.
SelectShown ==
  \E k \in DOMAIN dial.rows : \E r \in CommonRanges(dial.rows) :
    /\ dial' = IF dial.created THEN SetSelection(dial, dial.rows[k], r)
               ELSE [dial EXCEPT !.event = [value |-> dial.rows[k], range |-> r]]
    /\ orphaned' = (orphaned \/ dial.frames > IF dial.armed THEN 1 ELSE 0)
    /\ UNCHANGED <<library, author, panned, initialized>>

\* A moment is selected that the chart does not have.
SelectHidden ==
  /\ dial.created
  /\ dial' = [ClearSelection(dial, TRUE, Blank) EXCEPT !.selected = TRUE]
  /\ UNCHANGED <<library, author, panned, orphaned, initialized>>

\* The selection ends: clearSelection() of the chart.
Deselect ==
  /\ dial.selected
  /\ \E r \in CommonRanges(dial.rows) :
       dial' = [ClearSelection(dial, FALSE, r) EXCEPT !.selected = FALSE]
  /\ UNCHANGED <<library, author, panned, orphaned, initialized>>

\* A timeout runs.  On a chart that has meanwhile been initialized again it ends
\* with an exception.
FrameFires ==
  /\ dial.frames > 0
  /\ dial' = IF dial.event = Blank THEN [dial EXCEPT !.frames = @ - 1]
             ELSE [dial EXCEPT !.frames = @ - 1, !.armed = FALSE,
                               !.needle = IF dial.created
                                          THEN Position(dial.event.value, dial.event.range) ELSE @]
  /\ UNCHANGED <<library, author, panned, orphaned, initialized>>

\* updateChartWithData(): the chart is created or updated; a chart that is
\* selected ends the selection, and one that is not and that is visible shows its
\* latest value again (legendShowUndefined, since it has no legend).
DialDataArrives(rows) ==
  /\ \E r \in CommonRanges(rows) :
       LET d == [dial EXCEPT !.rows = rows]
           drawn == IF d.created THEN ChartUpdate(d, r) ELSE ChartCreate(d, r)
       IN  IF d.selected THEN dial' = [ClearSelection(drawn, FALSE, r) EXCEPT !.selected = FALSE]
           ELSE dial' \in {drawn, ClearSelection(drawn, FALSE, r)}
  /\ UNCHANGED <<library, author, panned, orphaned, initialized>>

\* init('force'): the chart was updated often enough (its new data is kept),
\* hidden or resized; tmp, with the event, is replaced, the timeout stays.
InitializeDial(rows) ==
  /\ dial.created /\ initialized < MaxInitialized /\ initialized' = initialized + 1
  /\ dial' = [NewDial EXCEPT !.rows = rows, !.frames = dial.frames]
  /\ UNCHANGED <<library, author, panned, orphaned>>

\* A pan of the page starts or ends.
PanChanges ==
  /\ panned' = ~panned
  /\ UNCHANGED <<library, author, dial, orphaned, initialized>>

DialNext ==
  \/ SelectShown \/ SelectHidden \/ Deselect \/ FrameFires \/ PanChanges
  \/ \E rows \in UNION {[1..n -> Scale] : n \in 1..2} : DialDataArrives(rows) \/ InitializeDial(rows)

DialSpec == DialInit /\ [][DialNext]_dialVars
-----------------------------------------------------------------------------
\* The label and the needle of a gauge or of an easy pie chart tell the same
\* number once the timeouts have run, although each is set by other steps: the
\* needle is where the number in the label belongs, for a range of the data, or
\* at rest when there is no number; it never leaves the scale; and it moves at
\* once only while something is selected.  Not promised after a chart that waits
\* for its timeout is initialized again and selected before the next animation
\* frame: the timeout of before then shows the new event, whatever follows it.
LabelIsNeedle ==
  dial.created =>
    /\ dial.needle = NaN \/ dial.needle \in -100000..100000
    /\ ~dial.animated => dial.selected
    /\ dial.frames = 0 /\ ~orphaned =>
         IF dial.label = Blank THEN dial.needle \in {0, 1}
         ELSE \E r \in Scale \X Scale : dial.needle = Position(dial.label, r)
=============================================================================
