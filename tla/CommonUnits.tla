---------------------------- MODULE CommonUnits -----------------------------
(***************************************************************************)
(* Automatic scaling of a chart's units                                    *)
(* (src/src/web/gui/src/dashboard.js/units-conversion.js and main.js).     *)
(*                                                                         *)
(* A chart asks unitsConversion.get() for a conversion when the range of   *)
(* its values changes.  Charts with data-common-units share one scale: get *)
(* records the divider of the chart and publishes the largest divider      *)
(* recorded, and the conversion it returns follows what is published later *)
(* by other charts.  A scale is its divider; 0 stands for the original     *)
(* units of a chart that is not converted.  A range is its maximum (the    *)
(* minimum is 0), and the conversion divides it.                           *)
(***************************************************************************)
EXTENDS Integers, Functions

CONSTANTS
    Scaled,      \* the charts, all with the same scalable units
    Dividers,    \* the scales of those units (scalableUnits[units])
    Peak,        \* the maxima a chart's data can have
    MaxPeaks     \* bound: changes of the data

VARIABLES
    wanted,      \* chart -> units_desired: Auto, Original or a divider
    shares,      \* the charts with data-common-units
    keys,        \* chart -> the divider it recorded
    latest,      \* the published divider, 0 before the first
    legend,      \* what each chart keeps for its labels (see NewLegend)
    peak,        \* the maximum of the data the server has for each chart
    peaks        \* bound counter

unitVars == <<wanted, shares, keys, latest, legend, peak, peaks>>

\* set: the range of the last unitsConversionSetup(); last: the range, converted,
\* of the last legendFormatValueDecimalsFromMinMax(); divider and common: the
\* conversion; units: units_current.  -1 stands for undefined.
Auto == -1
Original == 0
NewLegend == [set |-> -1, last |-> -1, divider |-> 0, common |-> FALSE, units |-> 0]

Greatest(S) == CHOOSE m \in S : \A v \in S : v <= m
Fitting(m) == {d \in Dividers : d <= m}
\* The division is exact for the maxima and dividers this module is used with.
Convert(d, m) == IF d = 0 THEN m ELSE m \div d

\* Mutant: the scale of other charts is not followed.
Unfollowed(l, published) == l

\* The closure get() returns, applied: a common scale follows the published one.
Follow(l, published) ==
    IF l.common /\ l.divider # published
    THEN [l EXCEPT !.divider = published, !.units = published] ELSE l

Use(l, d, common) == [l EXCEPT !.divider = d, !.common = common, !.units = d]

\* unitsConversion.get() for scalable units: the chart's conversion, and what it
\* records under the common name.
GetUnits(c, m) ==
    LET fitting == Fitting(m)
        own     == Greatest(fitting)
        joined  == [d \in DOMAIN keys \cup {c} |-> IF d = c THEN own ELSE keys[d]]
        largest == Greatest(Range(joined))
        alone(d) == [l |-> Use(legend[c], d, FALSE), keys |-> keys, latest |-> latest]
    IN  CASE wanted[c] = Original -> alone(0)
          [] wanted[c] = Auto /\ fitting = {} -> alone(0)
          [] wanted[c] = Auto /\ fitting # {} /\ c \notin shares -> alone(own)
          [] wanted[c] = Auto /\ fitting # {} /\ c \in shares ->
                [l |-> Use(legend[c], largest, TRUE), keys |-> joined, latest |-> largest]
          [] OTHER -> alone(IF wanted[c] \in Dividers THEN wanted[c] ELSE 0)

\* unitsConversionSetup(): ask again only for another range.
UnitsConversionSetup(c, m) ==
    IF m = legend[c].set THEN [l |-> legend[c], keys |-> keys, latest |-> latest]
    ELSE LET g == GetUnits(c, m) IN [g EXCEPT !.l.set = m]

\* legendFormatValueDecimalsFromMinMax(): compares the range with the converted
\* range it kept the last time.
FormatRange(c, m) ==
    LET g == UnitsConversionSetup(c, m)
        l == Follow(g.l, g.latest)
    IN  IF m = legend[c].last THEN [l |-> legend[c], keys |-> keys, latest |-> latest]
        ELSE [g EXCEPT !.l = [l EXCEPT !.last = Convert(l.divider, m)]]

UnitsInit ==
    /\ wanted \in [Scaled -> {Auto, Original} \cup {Greatest(Dividers), Greatest(Dividers) + 1}]
    /\ shares \in SUBSET Scaled
    /\ keys = << >> /\ latest = 0
    /\ legend = [c \in Scaled |-> NewLegend]
    /\ peak \in [Scaled -> Peak]
    /\ peaks = 0

\* A chart is drawn: its axis is formatted (the range, then the labels) and the
\* legend shows the latest values (legendFormatValue).
DrawScaled(c) ==
    \E g \in {FormatRange(c, peak[c])} :
        /\ keys' = g.keys /\ latest' = g.latest
        /\ legend' = [legend EXCEPT ![c] = Follow(g.l, g.latest)]
        /\ UNCHANGED <<wanted, shares, peak, peaks>>

PeakChanges(c) ==
    /\ peaks < MaxPeaks /\ peaks' = peaks + 1
    /\ \E m \in Peak : peak' = [peak EXCEPT ![c] = m]
    /\ UNCHANGED <<wanted, shares, keys, latest, legend>>

UnitsNext == \E c \in Scaled : DrawScaled(c) \/ PeakChanges(c)
UnitsSpec == UnitsInit /\ [][UnitsNext]_unitVars
\* The refresher draws every chart of the page again and again (RefreshLoop).
UnitsFairness == \A c \in Scaled : WF_unitVars(DrawScaled(c))
UnitsFairSpec == UnitsSpec /\ UnitsFairness

\* When the data stops changing, all charts that share units come to show the
\* same units, although each asks only when its own range changes; and the scale
\* of every automatically scaled chart is large enough for its data.
UnitsAgree ==
    <>[](\A c \in Scaled :
            /\ \A d \in Scaled : legend[c].common /\ legend[d].common =>
                                     legend[c].units = legend[d].units
            /\ wanted[c] = Auto => \A d \in Fitting(peak[c]) : d <= legend[c].units)
=============================================================================
