---------------------------- MODULE SnapshotSave ----------------------------
(***************************************************************************)
(* Saving a snapshot of the dashboard (src/src/web/gui/main.js).           *)
(*                                                                         *)
(* saveSnapshot() borrows the page: it backs up the user's options and     *)
(* writes its own over them, pins the pan-and-zoom range when the user has *)
(* not, and turns the charts into fake ones, then downloads the charts one *)
(* after the other, each download a callback.  saveSnapshotRestore() gives *)
(* the page back.  Closing the dialog only asks a save to stop; it notices *)
(* at its next chart, and until then the user has the page, and can open   *)
(* the dialog and export again.  The pausing of the charts' refreshing     *)
(* while the dialog is open is in RefreshLoop.                             *)
(***************************************************************************)
EXTENDS Integers, FiniteSetsExt

CONSTANTS
    Targets,       \* number of charts of the page (NETDATA.options.targets)
    UserOptions,   \* the values the user can give the options save_options names
    MaxSaves,      \* bound: snapshots exported
    MaxUserSteps   \* bound: steps of the user other than exporting

ASSUME SnapshotAssumption == Targets \in Nat \ {0} /\ "save" \notin UserOptions

VARIABLES
    gui,        \* what the page's globals hold
    saves,      \* the running saveSnapshot() closures: save number -> its locals
    pakoLoaded, \* loadPako() has been called (the script itself may be on its way)
    user,       \* history: the options and the range the user last chose
    disturbed,  \* history: a save began, or the user chose, while another save ran
    userSteps   \* bound counter

saveVars == <<gui, saves, pakoLoaded, user, disturbed, userSteps>>

Save == 1..MaxSaves
NewSave == [at |-> "no", backup |-> "", clear |-> FALSE, idx |-> 0, ok |-> 0, failed |-> 0]
Underway(s) == s.at \in {"timer", "download"}

SaveInit ==
    /\ \E o \in UserOptions :
          /\ gui = [options |-> o, pan |-> "none", fake |-> FALSE, forced |-> {},
                    stop |-> FALSE, modal |-> FALSE, export |-> TRUE]
          /\ user = [options |-> o, pan |-> "none"]
    /\ saves = [n \in Save |-> NewSave]
    /\ pakoLoaded = FALSE /\ disturbed = FALSE /\ userSteps = 0

\* The page, p, and the saves, s, while a callback of save n runs: every operator
\* below takes them as w = [p, s] and returns what they become.
World == [p |-> gui, s |-> saves]
Apply(w) == gui' = w.p /\ saves' = w.s

\* Bootstrap's modal('hide'): an open dialog fires hide.bs.modal, which is
\* saveSnapshotCancel.
HideDialog(p) == [p EXCEPT !.modal = FALSE, !.stop = @ \/ p.modal]

\* Mutant: the dialog closes and nothing is restored.
RestoreNothing(w, n) == [w EXCEPT !.p = [HideDialog(w.p) EXCEPT !.export = TRUE],
                                  !.s[n].at = "done"]

\* saveSnapshotRestore() of save n.
SaveSnapshotRestore(w, n) ==
    [w EXCEPT !.p = [HideDialog(w.p) EXCEPT
                        !.options = w.s[n].backup,
                        !.pan = IF w.s[n].clear THEN "none" ELSE @,
                        !.fake = FALSE,
                        !.export = TRUE],
              !.s[n].at = "done"]

\* update_chart(idx): a save asked to stop gives the page back, another takes
\* the next chart and continues from a timer.
UpdateChart(w, n) ==
    IF w.p.stop THEN SaveSnapshotRestore(w, n)
    ELSE [w EXCEPT !.s[n].idx = @ - 1, !.s[n].at = "timer"]

\* The callback of updateChart(): the chart's range is released, the chart
\* counted, and the last chart writes the file.
ChartUpdated(w, n, ok) ==
    LET u == [w EXCEPT !.p.forced = @ \ {w.s[n].idx},
                       !.s[n].ok = IF ok THEN @ + 1 ELSE @,
                       !.s[n].failed = IF ok THEN @ ELSE @ + 1]
    IN  IF w.s[n].idx > 0 THEN UpdateChart(u, n) ELSE SaveSnapshotRestore(u, n)

\* abortAllRefreshes(): jQuery runs the callbacks of an aborted request at once.
Abort(w) ==
    FoldSet(LAMBDA n, v : ChartUpdated(v, n, FALSE), w, {n \in Save : w.s[n].at = "download"})

\* The body of saveSnapshot(), once the libraries are there.
Begin(w, n) ==
    LET begun == [w EXCEPT
            !.p.stop = FALSE,
            !.p.export = FALSE,
            !.p.options = "save",
            !.p.pan = IF @ = "none" THEN "save" ELSE @,
            !.p.fake = TRUE,
            !.s[n] = [NewSave EXCEPT !.at = "begun", !.backup = w.p.options,
                                     !.clear = w.p.pan = "none", !.idx = Targets]]
    IN  UpdateChart(Abort(begun), n)

Overlaps == \E m \in Save : Underway(saves[m])

\* The user opens the dialog (saveSnapshotModalInit), or closes it.
OpenDialog ==
    /\ ~gui.modal /\ userSteps < MaxUserSteps
    /\ gui' = [gui EXCEPT !.modal = TRUE, !.export = TRUE]
    /\ userSteps' = userSteps + 1
    /\ UNCHANGED <<saves, pakoLoaded, user, disturbed>>
SaveSnapshotCancel ==
    /\ gui.modal
    /\ gui' = HideDialog(gui)
    /\ UNCHANGED <<saves, pakoLoaded, user, disturbed, userSteps>>

\* The user clicks Export.  Only the first call waits for the library's script.
SaveSnapshot(n) ==
    /\ gui.modal /\ gui.export
    /\ saves[n].at = "no" /\ \A m \in Save : m < n => saves[m].at # "no"
    /\ IF pakoLoaded
       THEN Apply(Begin(World, n)) /\ disturbed' = (disturbed \/ Overlaps)
       ELSE saves' = [saves EXCEPT ![n].at = "loading"] /\ UNCHANGED <<gui, disturbed>>
    /\ pakoLoaded' = TRUE
    /\ UNCHANGED <<user, userSteps>>

LibraryArrives(n) ==
    /\ saves[n].at = "loading"
    /\ Apply(Begin(World, n)) /\ disturbed' = (disturbed \/ Overlaps)
    /\ UNCHANGED <<pakoLoaded, user, userSteps>>

\* The timer of update_chart(): the chart is forced to the snapshot's range and
\* downloaded; a chart that cannot be updated answers at once.
TimerFires(n) ==
    /\ saves[n].at = "timer"
    /\ LET w == [World EXCEPT !.p.forced = @ \cup {saves[n].idx}, !.s[n].at = "download"]
       IN  \/ Apply(w)
           \/ Apply(ChartUpdated(w, n, FALSE))
    /\ UNCHANGED <<pakoLoaded, user, disturbed, userSteps>>

\* The chart's request ends.
DownloadEnds(n) ==
    /\ saves[n].at = "download"
    /\ \E ok \in BOOLEAN : Apply(ChartUpdated(World, n, ok))
    /\ UNCHANGED <<pakoLoaded, user, disturbed, userSteps>>

\* Without the dialog the user pans, resets, or changes an option.
UserChooses ==
    /\ ~gui.modal /\ userSteps < MaxUserSteps
    /\ \E o \in UserOptions, p \in {"none", "user"} :
          /\ (o = user.options) # (p = user.pan)
          /\ gui' = [gui EXCEPT !.options = IF o = user.options THEN @ ELSE o,
                                !.pan = IF p = user.pan THEN @ ELSE p]
          /\ user' = [options |-> o, pan |-> p]
    /\ disturbed' = (disturbed \/ Overlaps)
    /\ userSteps' = userSteps + 1
    /\ UNCHANGED <<saves, pakoLoaded>>

SaveNext ==
    \/ OpenDialog \/ SaveSnapshotCancel \/ UserChooses
    \/ \E n \in Save : SaveSnapshot(n) \/ LibraryArrives(n) \/ TimerFires(n) \/ DownloadEnds(n)
SaveSpec == SaveInit /\ [][SaveNext]_saveVars

\* saveSnapshotRestore() gives the page back as the user left it, on every path
\* of a save: finished, cancelled at any chart, or cancelled after its last
\* check.  When no save runs, the options, the pan-and-zoom range, the charts'
\* own forced ranges and the rendering are the user's again.  And the file a
\* save writes accounts for every chart, also when another save aborts its
\* downloads: the charts it counts, downloaded and failed, and the charts still
\* to come are the charts of the page.  The user's page is not promised to a
\* user who exports again, pans or changes an option while a cancelled save
\* still waits for its last download: the options of the first save are then
\* backed up as if they were the user's.
PageGivenBack ==
    /\ (\A n \in Save : ~Underway(saves[n])) /\ ~disturbed =>
          /\ gui.options = user.options
          /\ gui.pan = user.pan
          /\ ~gui.fake /\ gui.forced = {} /\ gui.export
    /\ \A n \in Save : Underway(saves[n]) =>
          saves[n].ok + saves[n].failed + saves[n].idx + 1 = Targets
=============================================================================
