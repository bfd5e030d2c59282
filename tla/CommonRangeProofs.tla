-------------------------- MODULE CommonRangeProofs -------------------------
(***************************************************************************)
(* The common value is the extreme of what the charts recorded, and what a *)
(* chart draws fits its range: for any set of charts and of values, and    *)
(* however the data and the page change.                                   *)
(***************************************************************************)
EXTENDS CommonRange, SequenceTheorems, TLAPS

(***************************************************************************)
(* A table of commonMax: charts with values, and the largest of them.      *)
(***************************************************************************)
MaxTable(g) ==
    /\ \E D \in SUBSET Plots : g.keys \in [D -> Value]
    /\ DOMAIN g.keys # {} =>
          /\ g.latest \in Range(g.keys)
          /\ \A c \in DOMAIN g.keys : g.keys[c] <= g.latest

(***************************************************************************)
(* A table of commonMin: charts with values, and the smallest of them.     *)
(***************************************************************************)
MinTable(g) ==
    /\ \E D \in SUBSET Plots : g.keys \in [D -> Value]
    /\ DOMAIN g.keys # {} =>
          /\ g.latest \in Range(g.keys)
          /\ \A c \in DOMAIN g.keys : g.keys[c] >= g.latest

(***************************************************************************)
(* The inductive invariant: both tables are what they should be, a chart   *)
(* that is drawn knows the extremes of its data, and they fit.             *)
(***************************************************************************)
RangeInv ==
    /\ MaxTable(commonMax) /\ MinTable(commonMin)
    /\ extremes \in [Plots -> Extent]
    /\ plots \in [Plots -> [drawn : BOOLEAN, lo : Int, hi : Int, from : Int, to : Int]]
    /\ \A c \in Plots : plots[c].drawn => plots[c].lo \in Value /\ plots[c].hi \in Value
    /\ DataFits

(***************************************************************************)
(* The values of a table that is not empty have a largest and a smallest.  *)
(***************************************************************************)
LEMMA Extremes ==
    ASSUME NEW D, NEW t \in [D -> Value], D # {}
    PROVE  /\ Largest(Range(t)) \in Range(t) /\ \A d \in D : t[d] <= Largest(Range(t))
           /\ Smallest(Range(t)) \in Range(t) /\ \A d \in D : t[d] >= Smallest(Range(t))
<1>1. Range(t) \in SUBSET Value /\ Range(t) # {} /\ \A d \in D : t[d] \in Range(t)
  BY DEF Range
<1>2. /\ \E m \in Range(t) : \A v \in Range(t) : v <= m
      /\ \E m \in Range(t) : \A v \in Range(t) : v >= m
  BY <1>1, ValueAssumption
<1>3. Largest(Range(t)) \in Range(t) /\ \A v \in Range(t) : v <= Largest(Range(t))
  BY <1>2 DEF Largest
<1>4. Smallest(Range(t)) \in Range(t) /\ \A v \in Range(t) : v >= Smallest(Range(t))
  BY <1>2 DEF Smallest
<1> QED
  BY <1>1, <1>3, <1>4

(***************************************************************************)
(* commonMax.get(): on each of its three paths the table stays what it     *)
(* should be, and what is returned is a value no smaller than the one the  *)
(* chart recorded.                                                         *)
(***************************************************************************)
LEMMA MaxGet ==
    ASSUME NEW g, MaxTable(g), NEW c \in Plots, NEW v \in Value
    PROVE  /\ MaxTable(CommonMaxGet(g, c, v))
           /\ CommonMaxGet(g, c, v).latest \in Value
           /\ v <= CommonMaxGet(g, c, v).latest
<1> DEFINE t == Record(g.keys, c, v)
           n == CommonMaxGet(g, c, v)
<1>1. PICK D \in SUBSET Plots : g.keys \in [D -> Value]
  BY DEF MaxTable
<1>2. /\ t \in [D \cup {c} -> Value] /\ t[c] = v
      /\ \A d \in D \ {c} : t[d] = g.keys[d]
  BY <1>1 DEF Record
<1>3. v \in Int /\ Value \subseteq Int
  BY ValueAssumption
<1>4. CASE c \in D /\ g.keys[c] = v
  <2>1. n = g
    BY <1>1, <1>4 DEF CommonMaxGet
  <2> QED
    BY <1>1, <1>4, <2>1 DEF MaxTable, Range
<1>5. CASE c \in D /\ g.keys[c] # v /\ v > g.latest
  <2>1. n = [keys |-> t, latest |-> v]
    BY <1>1, <1>5 DEF CommonMaxGet
  <2>2. g.latest \in Value /\ \A d \in D : g.keys[d] <= g.latest
    BY <1>1, <1>5 DEF MaxTable, Range
  <2> HIDE DEF t
  <2>3. ASSUME NEW d \in D \cup {c} PROVE t[d] <= v
    <3>1. CASE d = c
      BY <1>2, <1>3, <3>1
    <3>2. CASE d # c
      <4>1. t[d] = g.keys[d] /\ g.keys[d] \in Int /\ g.latest \in Int /\ g.keys[d] <= g.latest
        BY <1>1, <1>2, <1>3, <2>2, <3>2
      <4> QED
        BY <1>3, <1>5, <4>1
    <3> QED
      BY <3>1, <3>2
  <2>4. v \in Range(t)
    BY <1>2 DEF Range
  <2>5. n.keys = t /\ n.latest = v /\ DOMAIN t = D \cup {c} /\ D \cup {c} \in SUBSET Plots
    BY <1>2, <2>1
  <2> QED
    BY <1>2, <1>3, <2>3, <2>4, <2>5 DEF MaxTable
<1>6. CASE ~(c \in D /\ g.keys[c] = v) /\ ~(c \in D /\ v > g.latest)
  <2>1. n = [keys |-> t, latest |-> Largest(Range(t))]
    BY <1>1, <1>6 DEF CommonMaxGet
  <2>2. Largest(Range(t)) \in Range(t) /\ \A d \in D \cup {c} : t[d] <= Largest(Range(t))
    BY <1>2, Extremes
  <2>3. Range(t) \subseteq Value
    BY <1>2 DEF Range
  <2> HIDE DEF t
  <2>4. n.keys = t /\ n.latest = Largest(Range(t)) /\ DOMAIN t = D \cup {c} /\ D \cup {c} \in SUBSET Plots
    BY <1>2, <2>1
  <2> QED
    BY <1>2, <2>2, <2>3, <2>4 DEF MaxTable
<1> QED
  BY <1>4, <1>5, <1>6

(***************************************************************************)
(* commonMin.get(), likewise.                                              *)
(***************************************************************************)
LEMMA MinGet ==
    ASSUME NEW g, MinTable(g), NEW c \in Plots, NEW v \in Value
    PROVE  /\ MinTable(CommonMinGet(g, c, v))
           /\ CommonMinGet(g, c, v).latest \in Value
           /\ v >= CommonMinGet(g, c, v).latest
<1> DEFINE t == Record(g.keys, c, v)
           n == CommonMinGet(g, c, v)
<1>1. PICK D \in SUBSET Plots : g.keys \in [D -> Value]
  BY DEF MinTable
<1>2. /\ t \in [D \cup {c} -> Value] /\ t[c] = v
      /\ \A d \in D \ {c} : t[d] = g.keys[d]
  BY <1>1 DEF Record
<1>3. v \in Int /\ Value \subseteq Int
  BY ValueAssumption
<1>4. CASE c \in D /\ g.keys[c] = v
  <2>1. n = g
    BY <1>1, <1>4 DEF CommonMinGet
  <2> QED
    BY <1>1, <1>4, <2>1 DEF MinTable, Range
<1>5. CASE c \in D /\ g.keys[c] # v /\ v < g.latest
  <2>1. n = [keys |-> t, latest |-> v]
    BY <1>1, <1>5 DEF CommonMinGet
  <2>2. g.latest \in Value /\ \A d \in D : g.keys[d] >= g.latest
    BY <1>1, <1>5 DEF MinTable, Range
  <2> HIDE DEF t
  <2>3. ASSUME NEW d \in D \cup {c} PROVE t[d] >= v
    <3>1. CASE d = c
      BY <1>2, <1>3, <3>1
    <3>2. CASE d # c
      <4>1. t[d] = g.keys[d] /\ g.keys[d] \in Int /\ g.latest \in Int /\ g.keys[d] >= g.latest
        BY <1>1, <1>2, <1>3, <2>2, <3>2
      <4> QED
        BY <1>3, <1>5, <4>1
    <3> QED
      BY <3>1, <3>2
  <2>4. v \in Range(t)
    BY <1>2 DEF Range
  <2>5. n.keys = t /\ n.latest = v /\ DOMAIN t = D \cup {c} /\ D \cup {c} \in SUBSET Plots
    BY <1>2, <2>1
  <2> QED
    BY <1>2, <1>3, <2>3, <2>4, <2>5 DEF MinTable
<1>6. CASE ~(c \in D /\ g.keys[c] = v) /\ ~(c \in D /\ v < g.latest)
  <2>1. n = [keys |-> t, latest |-> Smallest(Range(t))]
    BY <1>1, <1>6 DEF CommonMinGet
  <2>2. Smallest(Range(t)) \in Range(t) /\ \A d \in D \cup {c} : t[d] >= Smallest(Range(t))
    BY <1>2, Extremes
  <2>3. Range(t) \subseteq Value
    BY <1>2 DEF Range
  <2> HIDE DEF t
  <2>4. n.keys = t /\ n.latest = Smallest(Range(t)) /\ DOMAIN t = D \cup {c} /\ D \cup {c} \in SUBSET Plots
    BY <1>2, <2>1
  <2> QED
    BY <1>2, <2>2, <2>3, <2>4 DEF MinTable
<1> QED
  BY <1>4, <1>5, <1>6
-----------------------------------------------------------------------------
(***************************************************************************)
(* A table that is empty is one of both kinds.                             *)
(***************************************************************************)
LEMMA NothingIsTable == MaxTable(Nothing) /\ MinTable(Nothing)
<1>1. << >> \in Seq(Value) /\ Len(<< >>) = 0
  BY EmptySeq
<1>2. << >> \in [1..0 -> Value] /\ 1..0 \in SUBSET Plots
  BY <1>1, LenProperties
<1>3. Nothing.keys = << >> /\ DOMAIN Nothing.keys = {}
  BY <1>2 DEF Nothing
<1> QED
  BY <1>2, <1>3 DEF MaxTable, MinTable

(***************************************************************************)
(* A chart that draws data with a range that the data fits.                *)
(***************************************************************************)
LEMMA Drawn ==
    ASSUME RangeInv, NEW c \in Plots, NEW lo \in Value, NEW hi \in Value,
           NEW from \in Value, NEW to \in Value, from <= lo, hi <= to,
           plots' = [plots EXCEPT ![c] =
                       [drawn |-> TRUE, lo |-> lo, hi |-> hi, from |-> from, to |-> to]]
    PROVE  /\ plots' \in [Plots -> [drawn : BOOLEAN, lo : Int, hi : Int, from : Int, to : Int]]
           /\ \A d \in Plots : plots'[d].drawn => plots'[d].lo \in Value /\ plots'[d].hi \in Value
           /\ DataFits'
<1> DEFINE new == [drawn |-> TRUE, lo |-> lo, hi |-> hi, from |-> from, to |-> to]
<1>1. /\ new \in [drawn : BOOLEAN, lo : Int, hi : Int, from : Int, to : Int]
      /\ new.lo = lo /\ new.hi = hi /\ new.from = from /\ new.to = to
  BY ValueAssumption
<1> HIDE DEF new
<1>2. plots' = [plots EXCEPT ![c] = new]
  BY DEF new
<1>3. \A d \in Plots : plots'[d] = IF d = c THEN new ELSE plots[d]
  BY <1>2 DEF RangeInv
<1> QED
  BY <1>1, <1>2, <1>3 DEF RangeInv, DataFits

(***************************************************************************)
(* Nothing is recorded or drawn at first.                                  *)
(***************************************************************************)
LEMMA InitRange == RangeInit => RangeInv
<1> SUFFICES ASSUME RangeInit PROVE RangeInv
  OBVIOUS
<1> QED
  BY NothingIsTable DEF RangeInit, RangeInv, DataFits, Undrawn

(***************************************************************************)
(* A chart offers values it drew or draws, and the range it draws reaches  *)
(* as far as the data, because get() was asked again when it did not.      *)
(***************************************************************************)
LEMMA StepRange == RangeInv /\ [RangeNext]_rangeVars => RangeInv'
<1> SUFFICES ASSUME RangeInv, [RangeNext]_rangeVars PROVE RangeInv'
  OBVIOUS
<1>0. /\ Value \subseteq Int
      /\ \A c \in Plots : /\ extremes[c].lo \in Value /\ extremes[c].hi \in Value
                          /\ extremes[c].lo <= extremes[c].hi
  BY ValueAssumption DEF RangeInv, Extent
<1>1. ASSUME NEW c \in Plots, DygraphChartCreate(c) PROVE RangeInv'
  <2>1. plots' = [plots EXCEPT ![c] =
           [drawn |-> TRUE, lo |-> extremes[c].lo, hi |-> extremes[c].hi,
            from |-> extremes[c].lo, to |-> extremes[c].hi]]
        /\ UNCHANGED <<commonMax, commonMin, extremes>>
    BY <1>1 DEF DygraphChartCreate
  <2>2. /\ plots' \in [Plots -> [drawn : BOOLEAN, lo : Int, hi : Int, from : Int, to : Int]]
        /\ \A d \in Plots : plots'[d].drawn => plots'[d].lo \in Value /\ plots'[d].hi \in Value
        /\ DataFits'
    <3>1. extremes[c].lo <= extremes[c].lo /\ extremes[c].hi <= extremes[c].hi
      <4>1. extremes[c].lo \in Int /\ extremes[c].hi \in Int
        BY <1>0
      <4> QED
        BY <4>1
    <3> QED
      BY <1>0, <2>1, <3>1, Drawn
  <2> QED
    BY <2>1, <2>2 DEF RangeInv, MaxTable, MinTable
<1>2. ASSUME NEW c \in Plots, DygraphChartUpdate(c) PROVE RangeInv'
  <2> DEFINE oldMin == CommonMinGet(commonMin, c, plots[c].lo)
             oldMax == CommonMaxGet(commonMax, c, plots[c].hi)
             lo == extremes[c].lo
             hi == extremes[c].hi
  <2>0. plots[c].lo \in Value /\ plots[c].hi \in Value /\ lo \in Value /\ hi \in Value
    BY <1>0, <1>2 DEF DygraphChartUpdate, RangeInv
  <2>1. MinTable(oldMin) /\ oldMin.latest \in Value
    BY <2>0, MinGet DEF RangeInv
  <2>2. MaxTable(oldMax) /\ oldMax.latest \in Value
    BY <2>0, MaxGet DEF RangeInv
  <2>3. /\ commonMin' = IF oldMin.latest > lo THEN CommonMinGet(oldMin, c, lo) ELSE oldMin
        /\ commonMax' = IF oldMax.latest < hi THEN CommonMaxGet(oldMax, c, hi) ELSE oldMax
        /\ plots' = [plots EXCEPT ![c] = [drawn |-> TRUE, lo |-> lo, hi |-> hi,
                         from |-> commonMin'.latest, to |-> commonMax'.latest]]
        /\ extremes' = extremes
    BY <1>2 DEF DygraphChartUpdate
  <2> HIDE DEF oldMin, oldMax, lo, hi
  <2>4. MinTable(commonMin') /\ commonMin'.latest \in Value /\ commonMin'.latest <= lo
    <3>1. CASE oldMin.latest > lo
      <4>1. commonMin' = CommonMinGet(oldMin, c, lo)
        BY <2>3, <3>1
      <4> QED
        BY <1>0, <2>0, <2>1, <4>1, MinGet
    <3>2. CASE ~(oldMin.latest > lo)
      <4>1. commonMin' = oldMin /\ oldMin.latest \in Int /\ lo \in Int
        BY <1>0, <2>0, <2>1, <2>3, <3>2
      <4> QED
        BY <2>1, <3>2, <4>1
    <3> QED
      BY <3>1, <3>2
  <2>5. MaxTable(commonMax') /\ commonMax'.latest \in Value /\ hi <= commonMax'.latest
    <3>1. CASE oldMax.latest < hi
      <4>1. commonMax' = CommonMaxGet(oldMax, c, hi)
        BY <2>3, <3>1
      <4> QED
        BY <1>0, <2>0, <2>2, <4>1, MaxGet
    <3>2. CASE ~(oldMax.latest < hi)
      <4>1. commonMax' = oldMax /\ oldMax.latest \in Int /\ hi \in Int
        BY <1>0, <2>0, <2>2, <2>3, <3>2
      <4> QED
        BY <2>2, <3>2, <4>1
    <3> QED
      BY <3>1, <3>2
  <2>6. MaxTable(commonMax)' /\ MinTable(commonMin)'
    BY <2>4, <2>5 DEF MaxTable, MinTable
  <2>7. /\ plots' \in [Plots -> [drawn : BOOLEAN, lo : Int, hi : Int, from : Int, to : Int]]
        /\ \A d \in Plots : plots'[d].drawn => plots'[d].lo \in Value /\ plots'[d].hi \in Value
        /\ DataFits'
    BY <2>0, <2>3, <2>4, <2>5, Drawn
  <2> QED
    BY <2>3, <2>6, <2>7 DEF RangeInv
<1>3. ASSUME NEW c \in Plots, DataChanges(c) PROVE RangeInv'
  BY <1>3 DEF DataChanges, RangeInv, MaxTable, MinTable, DataFits
<1>4. ASSUME NEW c \in Plots, PlotDestroyed(c) PROVE RangeInv'
  <2> DEFINE row == [drawn : BOOLEAN, lo : Int, hi : Int, from : Int, to : Int]
  <2>1. Undrawn \in row /\ Undrawn.drawn = FALSE
    BY DEF Undrawn
  <2>2. \A d \in Plots : plots'[d] = IF d = c THEN Undrawn ELSE plots[d]
    BY <1>4 DEF PlotDestroyed, RangeInv
  <2>3. plots' \in [Plots -> row]
    BY <1>4, <2>1 DEF PlotDestroyed, RangeInv
  <2> QED
    BY <1>4, <2>1, <2>2, <2>3 DEF PlotDestroyed, RangeInv, MaxTable, MinTable, DataFits
<1>5. CASE RangeGlobalReset
  <2> DEFINE row == [drawn : BOOLEAN, lo : Int, hi : Int, from : Int, to : Int]
  <2>1. Undrawn \in row /\ Undrawn.drawn = FALSE
    BY DEF Undrawn
  <2>2. /\ commonMax' = Nothing /\ commonMin' = Nothing /\ extremes' = extremes
        /\ plots' = [c \in Plots |-> Undrawn]
    BY <1>5 DEF RangeGlobalReset
  <2>3. MaxTable(commonMax)' /\ MinTable(commonMin)'
    BY <2>2, NothingIsTable DEF MaxTable, MinTable
  <2>4. plots' \in [Plots -> row] /\ \A c \in Plots : ~plots'[c].drawn
    BY <2>1, <2>2
  <2> QED
    BY <2>2, <2>3, <2>4 DEF RangeInv, DataFits
<1>6. CASE UNCHANGED rangeVars
  BY <1>6 DEF rangeVars, RangeInv, MaxTable, MinTable, DataFits
<1> QED
  BY <1>1, <1>2, <1>3, <1>4, <1>5, <1>6 DEF RangeNext, Refreshed

(***************************************************************************)
(* common.js: the common value that is kept beside the values of the       *)
(* charts is always the extreme of them.                                   *)
(***************************************************************************)
THEOREM CommonIsExtremeHolds == RangeSpec => []CommonIsExtreme
<1>1. RangeInv => CommonIsExtreme
  BY DEF RangeInv, MaxTable, MinTable, CommonIsExtreme
<1> QED
  BY <1>1, InitRange, StepRange, PTL DEF RangeSpec

(***************************************************************************)
(* dygraphChartUpdate(): the data a chart draws is never cut off by a      *)
(* range that was asked for before the data was known.                     *)
(***************************************************************************)
THEOREM DataFitsHolds == RangeSpec => []DataFits
<1>1. RangeInv => DataFits
  BY DEF RangeInv
<1> QED
  BY <1>1, InitRange, StepRange, PTL DEF RangeSpec
=============================================================================
