---------------------------- MODULE CommonColors ----------------------------
(***************************************************************************)
(* The colours of a chart's dimensions: commonColors of                    *)
(* src/src/web/gui/src/dashboard.js/common.js.                             *)
(*                                                                         *)
(* Charts of one palette (a context, or data-common-colors) give the same  *)
(* dimension the same colour.  Colours are taken one by one from a list    *)
(* that is filled again when it runs out: with the colours the charts'     *)
(* authors gave (data-colors), and with those of the theme unless they     *)
(* said ONLY.  This module is the charts of one palette.                   *)
(***************************************************************************)
EXTENDS Naturals, Sequences

CONSTANTS
    Painted,    \* the charts of the palette
    Label,      \* the names of their dimensions
    Theme,      \* the colours of the theme, in order
    DataColors, \* the values of data-colors: [colors, only]; no colours: none given
    MaxRecolors \* bound: times a chart colours its dimensions again

VARIABLES
    author,     \* chart -> its data-colors
    palette,    \* what commonColors.keys[name] holds
    colors,     \* chart -> label -> the colour the chart was told
    recolors    \* bound counter

colorVars == <<author, palette, colors, recolors>>

Empty == [assigned |-> << >>, available |-> << >>, custom |-> << >>,
          charts |-> {}, copyTheme |-> TRUE]

ColorsInit ==
    /\ author \in [Painted -> DataColors]
    /\ palette = Empty /\ recolors = 0
    /\ colors = [c \in Painted |-> << >>]

HasCustom(c) == author[c].colors # << >> \/ author[c].only

\* prepare() and __read_custom_colors(): a chart's own colours join the palette
\* when the chart does, in front of those already there.
Prepare(c) ==
    IF c \in palette.charts THEN palette
    ELSE [palette EXCEPT
            !.charts = @ \cup {c},
            !.custom = IF HasCustom(c) THEN author[c].colors \o @ ELSE @,
            !.copyTheme = @ /\ ~author[c].only]

\* refill()
Refill(p) ==
    IF p.available # << >> THEN p
    ELSE [p EXCEPT !.available =
            p.custom \o (IF p.copyTheme \/ p.custom = << >> THEN Theme ELSE << >>)]

\* get(): a label keeps its colour (Assign); a new one takes the first available, which
\* is undefined when there is none.
Shift(p, l) ==
    [p EXCEPT !.assigned = [k \in DOMAIN @ \cup {l} |->
                              IF k \in DOMAIN @ THEN @[k]
                              ELSE IF p.available = << >> THEN "undefined" ELSE p.available[1]],
              !.available = IF @ = << >> THEN @ ELSE Tail(@)]

\* Mutant: a label takes another colour each time.
ShiftAnyway(p, l) ==
    [p EXCEPT !.assigned = [k \in DOMAIN @ \cup {l} |-> IF k = l THEN p.available[1] ELSE @[k]],
              !.available = Tail(@)]
AlwaysShift(p, l) == ShiftAnyway(Refill(p), l)

Assign(p, l) ==
    LET r == Refill(p) IN IF l \in DOMAIN r.assigned THEN r ELSE Shift(r, l)

\* legendUpdateDOM() gives every dimension of the chart a colour.
ChartDimensionColor(c, l) ==
    /\ l \notin DOMAIN colors[c]
    /\ \E p \in {Assign(Prepare(c), l)} :
          /\ palette' = p
          /\ colors' = [colors EXCEPT ![c] = [k \in DOMAIN @ \cup {l} |-> p.assigned[k]]]
    /\ UNCHANGED <<author, recolors>>

\* A chart refreshed with another set of dimensions colours them from the start.
DimensionsChange(c) ==
    /\ colors[c] # << >> /\ recolors < MaxRecolors
    /\ colors' = [colors EXCEPT ![c] = << >>] /\ recolors' = recolors + 1
    /\ UNCHANGED <<author, palette>>

ColorsNext == \E c \in Painted : \/ \E l \in Label : ChartDimensionColor(c, l)
                                 \/ DimensionsChange(c)
ColorsSpec == ColorsInit /\ [][ColorsNext]_colorVars

\* What the palette is for: a dimension has one colour on all its charts,
\* whatever charts and dimensions came first and however often a chart asks
\* again, and it has one: the list of colours is never empty when it is needed.
\* And a colour tells its dimension: two dimensions look the same only after
\* every colour of the theme is in use, or an author asked for their own only.
ColorTellsDimension ==
    /\ \A c, d \in Painted : \A l \in DOMAIN colors[c] :
          /\ colors[c][l] # "undefined"
          /\ l \in DOMAIN colors[d] => colors[d][l] = colors[c][l]
    /\ \A k, l \in DOMAIN palette.assigned :
          k # l /\ palette.assigned[k] = palette.assigned[l] /\ palette.copyTheme =>
              \A i \in 1..Len(Theme) : \E m \in DOMAIN palette.assigned :
                  palette.assigned[m] = Theme[i]
=============================================================================
