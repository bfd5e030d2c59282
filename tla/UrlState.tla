------------------------------ MODULE UrlState ------------------------------
(***************************************************************************)
(* The view of the dashboard kept in the page's address: urlOptions of     *)
(* src/src/web/gui/main.js, with the highlighted time-frame                *)
(* (globalChartUnderlay of src/dashboard.js/main.js).                      *)
(*                                                                         *)
(* parseHash() reads the view from the address when the page loads;        *)
(* callbacks of panning and highlighting, and the position of the screen,  *)
(* write it back with genHash().  Whoever reloads the page, or opens its   *)
(* address elsewhere, gets the view again.  The address is the values of   *)
(* its keys, 0 for a key that is not there; times are small numbers.       *)
(***************************************************************************)
EXTENDS Integers

CONSTANTS
    Time,        \* positive times
    Section,     \* the sections of the page (urlOptions.hash)
    Margin,      \* parseHash()'s timeMarginMs around an alarm
    MaxViews     \* bound: changes of the view

ASSUME TimeAssumption == Time \subseteq Nat \ {0} /\ Margin \in Nat /\ \A t \in Time : t > Margin

VARIABLES
    url,          \* document.location.hash: its section and the values of its keys
    urlOptions,   \* the view
    underlay,     \* globalChartUnderlay: the highlight and the view it was made in
    snapshot,     \* netdataSnapshotData # null
    views         \* bound counter

urlVars == <<url, urlOptions, underlay, snapshot, views>>

NoTimes == [after |-> 0, before |-> 0]
Spans == {NoTimes} \cup [after : Time, before : Time]
NoUnderlay == [span |-> NoTimes, view |-> NoTimes]
Given(s) == s.after > 0 /\ s.before > 0

\* parseHash()
ParseHash(u) ==
    [section |-> u.section,
     pan_and_zoom |-> Given(u.span), span |-> u.span,
     highlight |-> Given(u.mark), mark |-> u.mark,
     update_always |-> u.update_always]

\* genHash(), as hashUpdate() calls it
GenHash(o) ==
    [section |-> o.section,
     span |-> IF o.pan_and_zoom THEN o.span ELSE NoTimes,
     mark |-> IF o.highlight THEN o.mark ELSE NoTimes,
     update_always |-> o.update_always, alarm_when |-> 0]

\* netdataHighlightCallback()
HighlightCallback(o, span) ==
    LET valid == Given(span) /\ span.after < span.before
    IN  [o EXCEPT !.highlight = valid /\ ~snapshot', !.mark = IF valid THEN span ELSE NoTimes]

\* The page loads: an alarm's link becomes the minutes around the alarm and loads
\* again; the highlight is given back to the charts with the range around it.
Around(t) == [after |-> t - Margin, before |-> t + Margin]
Load(u) ==
    LET now == IF u.alarm_when > 0 THEN [u EXCEPT !.span = Around(u.alarm_when), !.alarm_when = 0] ELSE u
    IN  /\ url' = now
        /\ urlOptions' = ParseHash(now)
        /\ underlay' = IF Given(now.mark) THEN [span |-> now.mark, view |-> now.span] ELSE NoUnderlay
        /\ snapshot' = FALSE

Link == [section : Section, span : Spans, mark : Spans, update_always : BOOLEAN,
         alarm_when : {0} \cup Time]
UrlInit ==
    /\ url \in {u \in Link : u.update_always = FALSE /\ (u.span = NoTimes \/ u.alarm_when = 0)}
    /\ urlOptions = ParseHash([url EXCEPT !.span = NoTimes, !.mark = NoTimes])
    /\ underlay = NoUnderlay /\ snapshot = FALSE /\ views = -1

\* The first load, and a reload by the user.
Open ==
    /\ views = -1 /\ views' = 0
    /\ Load(url)
ReloadPage ==
    /\ views >= 0
    /\ Load(url)
    /\ UNCHANGED views

View == views >= 0 /\ views < MaxViews /\ views' = views + 1
Show(o) == urlOptions' = o /\ url' = GenHash(o)

\* Mutant: the address is not written.
PanUnsaved(status, span) ==
    IF snapshot THEN UNCHANGED <<urlOptions, url>>
    ELSE /\ urlOptions' = [urlOptions EXCEPT !.pan_and_zoom = status, !.span = span]
         /\ UNCHANGED url

\* globalPanAndZoom's callback; panning is not kept for a snapshot.
PanAndZoomCallback(status, span) ==
    IF snapshot THEN UNCHANGED <<urlOptions, url>>
    ELSE Show([urlOptions EXCEPT !.pan_and_zoom = status, !.span = span])

Pan(span) ==
    /\ View
    /\ PanAndZoomCallback(TRUE, span)
    /\ UNCHANGED <<underlay, snapshot>>
ResetPan ==
    /\ View
    /\ PanAndZoomCallback(FALSE, NoTimes)
    /\ UNCHANGED <<underlay, snapshot>>

\* globalChartUnderlay.set(): the user selects a time-frame on a chart, and the
\* page pans to what the chart shows, so that the highlight stays in view.
Ordered(s) == IF s.after > s.before THEN [after |-> s.before, before |-> s.after] ELSE s
Highlight(s, view) ==
    LET panned == IF snapshot THEN urlOptions
                  ELSE [urlOptions EXCEPT !.pan_and_zoom = TRUE, !.span = view]
    IN  /\ View /\ UNCHANGED snapshot
        /\ underlay' = [span |-> Ordered(s), view |-> view]
        /\ Show(HighlightCallback(panned, Ordered(s)))

\* clearHighlight(): the highlight goes, and the panning with it.
ClearHighlight ==
    /\ View /\ UNCHANGED snapshot
    /\ underlay' = NoUnderlay
    /\ LET cleared == HighlightCallback(urlOptions, NoTimes)
       IN  Show(IF snapshot THEN cleared
                ELSE [cleared EXCEPT !.pan_and_zoom = FALSE, !.span = NoTimes])

\* parseDom() sets the highlight up again when the page's charts change.
ParseDomHighlight ==
    /\ views >= 0 /\ UNCHANGED <<underlay, snapshot, views>>
    /\ Show(HighlightCallback(urlOptions, underlay.span))

\* showHighlight(): globalChartUnderlay.focus() pans to the view of the highlight.
ShowHighlight ==
    /\ View
    /\ Given(underlay.span) /\ Given(underlay.view)
    /\ PanAndZoomCallback(TRUE, underlay.view)
    /\ UNCHANGED <<underlay, snapshot>>

\* The screen moves to another section; the option that keeps charts updating.
Activate(h) ==
    /\ View
    /\ Show([urlOptions EXCEPT !.section = h])
    /\ UNCHANGED <<underlay, snapshot>>
SetUpdateAlways(b) ==
    /\ View
    /\ Show([urlOptions EXCEPT !.update_always = b])
    /\ UNCHANGED <<underlay, snapshot>>

\* loadSnapshot(): globalReset() ends the panning and the view becomes the
\* snapshot's; the address is written when the highlight is set up again.
LoadSnapshotView(h, span, mark) ==
    /\ View
    /\ snapshot' = TRUE
    /\ Show(HighlightCallback([urlOptions EXCEPT !.section = h, !.pan_and_zoom = FALSE,
                                                  !.span = span], mark))
    /\ underlay' = IF Given(mark) THEN [span |-> mark, view |-> span] ELSE NoUnderlay

UrlNext ==
    \/ Open \/ ReloadPage \/ ParseDomHighlight \/ ResetPan \/ ClearHighlight \/ ShowHighlight
    \/ \E s \in {x \in Spans : x.after < x.before} :
          Pan(s) \/ \E m \in Spans \ {NoTimes} : Highlight(m, s)
    \/ \E h \in Section : Activate(h)
    \/ \E b \in BOOLEAN : SetUpdateAlways(b)
    \/ \E h \in Section, s, m \in {x \in Spans : x.after <= x.before} :
          Given(s) /\ LoadSnapshotView(h, s, m)
UrlSpec == UrlInit /\ [][UrlNext]_urlVars

\* What urlOptions is for: at every moment the address gives the view back.
\* Reading the address again yields the section, the panning, the highlight and
\* the option the page has; whatever link the page was opened with, and
\* whatever the user did, except that a snapshot's time is never kept.  And the
\* highlight the address keeps is the one the charts draw: clearing it, replacing
\* it by an empty one, or loading a snapshot leaves none behind.
ViewSurvivesReload ==
    /\ views >= 0 /\ ~snapshot =>
          LET o == ParseHash(url)
          IN  /\ o.section = urlOptions.section /\ o.update_always = urlOptions.update_always
              /\ o.pan_and_zoom = urlOptions.pan_and_zoom
              /\ o.pan_and_zoom => o.span = urlOptions.span
              /\ o.highlight = urlOptions.highlight
              /\ o.highlight => o.mark = urlOptions.mark
    /\ views >= 0 /\ urlOptions.highlight => underlay.span = urlOptions.mark
=============================================================================
