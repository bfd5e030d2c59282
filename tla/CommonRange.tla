---------------------------- MODULE CommonRange -----------------------------
(***************************************************************************)
(* Charts that share one value axis: data-common-min and data-common-max   *)
(* (src/src/web/gui/src/dashboard.js/common.js) as dygraph charts use them *)
(* (charting/dygraph.js).                                                  *)
(*                                                                         *)
(* Every chart records the extremes of its data under a common name and    *)
(* draws the extremes of them all.  A chart learns the extremes of new     *)
(* data only by drawing it, so an update first offers the extremes of the  *)
(* data it drew before, and draws a second time when the new data does not *)
(* fit.  This module is the charts of one common name.                     *)
(***************************************************************************)
EXTENDS Integers, Functions

CONSTANTS
    Plots,       \* the charts that share the common name
    Value,       \* the values the charts draw
    MaxChanges   \* bound: changes of the data, of the charts on the page

\* A finite set of values has a smallest and a largest one.
ASSUME ValueAssumption ==
    /\ Value \subseteq Int
    /\ \A S \in SUBSET Value : S # {} =>
          /\ \E m \in S : \A v \in S : v <= m
          /\ \E m \in S : \A v \in S : v >= m

VARIABLES
    commonMax,  \* keys: chart -> the maximum it recorded; latest: their maximum
    commonMin,  \* the same for the minima
    plots,      \* what each chart has drawn: its data's extremes, its axis' range
    extremes,   \* the extremes of the data the server has for each chart
    changes     \* bound counter

rangeVars == <<commonMax, commonMin, plots, extremes, changes>>

Extent == {e \in [lo : Value, hi : Value] : e.lo <= e.hi}
Nothing == [keys |-> << >>, latest |-> 0]
Undrawn == [drawn |-> FALSE, lo |-> 0, hi |-> 0, from |-> 0, to |-> 0]

Largest(S) == CHOOSE m \in S : \A v \in S : v <= m
Smallest(S) == CHOOSE m \in S : \A v \in S : v >= m

\* t[uuid] = v
Record(t, c, v) == [d \in DOMAIN t \cup {c} |-> IF d = c THEN v ELSE t[d]]

\* commonMax.get(): what it returns is always the new latest.
CommonMaxGet(g, c, v) ==
    LET t == Record(g.keys, c, v)
    IN  IF c \in DOMAIN g.keys /\ g.keys[c] = v THEN g
        ELSE IF c \in DOMAIN g.keys /\ v > g.latest THEN [keys |-> t, latest |-> v]
        ELSE [keys |-> t, latest |-> Largest(Range(t))]

\* commonMin.get()
CommonMinGet(g, c, v) ==
    LET t == Record(g.keys, c, v)
    IN  IF c \in DOMAIN g.keys /\ g.keys[c] = v THEN g
        ELSE IF c \in DOMAIN g.keys /\ v < g.latest THEN [keys |-> t, latest |-> v]
        ELSE [keys |-> t, latest |-> Smallest(Range(t))]

RangeInit ==
    /\ commonMax = Nothing /\ commonMin = Nothing
    /\ plots = [c \in Plots |-> Undrawn]
    /\ extremes \in [Plots -> Extent]
    /\ changes = 0

\* dygraphChartCreate(): the first drawing fits the axis to the chart's own data.
DygraphChartCreate(c) ==
    /\ ~plots[c].drawn
    /\ plots' = [plots EXCEPT ![c] =
                    [drawn |-> TRUE, lo |-> extremes[c].lo, hi |-> extremes[c].hi,
                     from |-> extremes[c].lo, to |-> extremes[c].hi]]
    /\ UNCHANGED <<commonMax, commonMin, extremes, changes>>

\* Mutant: the chart is not drawn again.
UpdateOnce(c) ==
    /\ plots[c].drawn
    /\ commonMin' = CommonMinGet(commonMin, c, plots[c].lo)
    /\ commonMax' = CommonMaxGet(commonMax, c, plots[c].hi)
    /\ plots' = [plots EXCEPT ![c] =
                    [drawn |-> TRUE, lo |-> extremes[c].lo, hi |-> extremes[c].hi,
                     from |-> commonMin'.latest, to |-> commonMax'.latest]]
    /\ UNCHANGED <<extremes, changes>>

\* Mutant: the chart keeps its range while its own data fits.
UpdateIfBeyond(c) ==
    /\ plots[c].drawn
    /\ commonMin' = CommonMinGet(commonMin, c, extremes[c].lo)
    /\ commonMax' = CommonMaxGet(commonMax, c, extremes[c].hi)
    /\ plots' = [plots EXCEPT ![c] =
                    [drawn |-> TRUE, lo |-> extremes[c].lo, hi |-> extremes[c].hi,
                     from |-> IF extremes[c].lo < @.from THEN commonMin'.latest ELSE @.from,
                     to |-> IF extremes[c].hi > @.to THEN commonMax'.latest ELSE @.to]]
    /\ UNCHANGED <<extremes, changes>>

\* dygraphChartUpdate(): offer the extremes drawn before, draw, and draw again
\* when the new data is beyond the range.
DygraphChartUpdate(c) ==
    LET oldMin == CommonMinGet(commonMin, c, plots[c].lo)
        oldMax == CommonMaxGet(commonMax, c, plots[c].hi)
    IN  /\ plots[c].drawn
        /\ commonMin' = IF oldMin.latest > extremes[c].lo
                        THEN CommonMinGet(oldMin, c, extremes[c].lo) ELSE oldMin
        /\ commonMax' = IF oldMax.latest < extremes[c].hi
                        THEN CommonMaxGet(oldMax, c, extremes[c].hi) ELSE oldMax
        /\ plots' = [plots EXCEPT ![c] =
                        [drawn |-> TRUE, lo |-> extremes[c].lo, hi |-> extremes[c].hi,
                         from |-> commonMin'.latest, to |-> commonMax'.latest]]
        /\ UNCHANGED <<extremes, changes>>

Changed == changes < MaxChanges /\ changes' = changes + 1

\* The server collects new data.
DataChanges(c) ==
    /\ Changed
    /\ \E e \in Extent : extremes' = [extremes EXCEPT ![c] = e]
    /\ UNCHANGED <<commonMax, commonMin, plots>>

\* destroyDOM(): the instance goes, what the chart recorded stays.
PlotDestroyed(c) ==
    /\ Changed /\ plots[c].drawn
    /\ plots' = [plots EXCEPT ![c] = Undrawn]
    /\ UNCHANGED <<commonMax, commonMin, extremes>>

\* globalReset(): a snapshot is loaded, the page gets new charts.
RangeGlobalReset ==
    /\ Changed
    /\ commonMax' = Nothing /\ commonMin' = Nothing
    /\ plots' = [c \in Plots |-> Undrawn]
    /\ UNCHANGED extremes

Refreshed(c) == DygraphChartCreate(c) \/ DygraphChartUpdate(c)
RangeNext == \/ RangeGlobalReset
             \/ \E c \in Plots : Refreshed(c) \/ DataChanges(c) \/ PlotDestroyed(c)
RangeSpec == RangeInit /\ [][RangeNext]_rangeVars
\* The refresher draws every chart of the page again and again (RefreshLoop).
RangeFairness == \A c \in Plots : WF_rangeVars(Refreshed(c))
RangeFairSpec == RangeSpec /\ RangeFairness

RangeTypeOK ==
    /\ \A g \in {commonMax, commonMin} :
          /\ DOMAIN g.keys \subseteq Plots
          /\ \A c \in DOMAIN g.keys : g.keys[c] \in Value
          /\ DOMAIN g.keys # {} => g.latest \in Value
    /\ \A c \in Plots : plots[c].drawn =>
          /\ plots[c].lo \in Value /\ plots[c].hi \in Value
          /\ plots[c].from \in Value /\ plots[c].to \in Value
    /\ extremes \in [Plots -> Extent]

\* common.js keeps the latest common value beside the charts' own and updates
\* it along three paths (unchanged, beyond the latest, searched again); on every
\* path, and with every chart that comes and goes, it is the extreme of what the
\* charts recorded: one of them, and none beyond it.
CommonIsExtreme ==
    /\ DOMAIN commonMax.keys # {} =>
          /\ commonMax.latest \in Range(commonMax.keys)
          /\ \A c \in DOMAIN commonMax.keys : commonMax.keys[c] <= commonMax.latest
    /\ DOMAIN commonMin.keys # {} =>
          /\ commonMin.latest \in Range(commonMin.keys)
          /\ \A c \in DOMAIN commonMin.keys : commonMin.keys[c] >= commonMin.latest

\* No data is cut off: what dygraphChartUpdate() draws fits the range of its
\* axis, although the range is asked for before the new data is known.
DataFits ==
    \A c \in Plots : plots[c].drawn =>
        plots[c].from <= plots[c].lo /\ plots[c].hi <= plots[c].to

\* The point of a common range: when the data and the page stop changing, all
\* its charts come to draw the same range, and keep it.
RangesAgree ==
    <>[](\A c, d \in Plots : plots[c].drawn /\ plots[c].from = plots[d].from
                                            /\ plots[c].to = plots[d].to)
=============================================================================
