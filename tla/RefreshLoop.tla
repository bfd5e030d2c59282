----------------------------- MODULE RefreshLoop ----------------------------
(***************************************************************************)
(* web/gui/src/dashboard.js/main.js, chartRefresher() and what starts and  *)
(* stops it: every iteration arms the next one, by a timeout or as the     *)
(* callback of a library that loads or of the sequential refresher; the    *)
(* page as it is built, the modals and the my-netdata menu of              *)
(* web/gui/main.js pause it.  An iteration that is pending is a slot of    *)
(* loops.  Selections, which suspend the refresher too, are in             *)
(* SelectionSync, and what autoRefresh() does in ChartSync.                *)
(***************************************************************************)
EXTENDS Naturals, FiniteSets

CONSTANTS
  MaxLoops,          \* bound on iterations that are pending at once
  MaxSnapshots       \* bound on snapshots that are loaded

VARIABLES
  loops,             \* what each pending iteration waits for
  timeoutId,         \* chartRefresherTimeoutId
  async_on_scroll, parallel_refresher,
  page_is_visible,
  stop_until,        \* one of the two *_stop_until has not passed
  pause, pauseCallback, updated_dom,
  library,           \* the charting library is initialized
  page,              \* how far initializeDynamicDashboard() got
  modal_depth, paused_on_modal,
  menu,              \* the my-netdata menu is open
  fresh,             \* charts were refreshed since they aged (auxiliary)
  snapshots

pauseVars == <<pause, pauseCallback, updated_dom>>
builtVars == <<page, modal_depth, paused_on_modal, menu, snapshots>>
optionVars == <<async_on_scroll, parallel_refresher>>
loopVars == <<loops, timeoutId, page_is_visible, stop_until, library, fresh,
              optionVars, pauseVars, builtVars>>

Slot == 1..MaxLoops

\* start(), with initializeDynamicDashboard() in its callback.
LoopInit ==
  /\ loops = [k \in Slot |-> IF k = 1 THEN "timeout" ELSE "none"]
  /\ timeoutId = 1
  /\ async_on_scroll \in BOOLEAN /\ parallel_refresher \in BOOLEAN
  /\ page_is_visible \in BOOLEAN
  /\ stop_until = FALSE
  /\ pause = FALSE /\ pauseCallback = "page" /\ updated_dom = FALSE
  /\ library = FALSE
  /\ page = "waiting" /\ modal_depth = 0 /\ paused_on_modal = FALSE /\ menu = FALSE
  /\ fresh = FALSE /\ snapshots = 0

\* pause(callback), for a callback that does nothing when called.
Pause(who) ==
  /\ pauseCallback' = IF pause THEN pauseCallback ELSE who
  /\ UNCHANGED <<pause, updated_dom>>

\* unpause()
Unpause == pause' = FALSE /\ pauseCallback' = "none" /\ updated_dom' = TRUE
-----------------------------------------------------------------------------
(* One iteration, in slot k *)

\* The iteration ends with the next one armed, its timeout on record,
Rearm(k) == loops' = [loops EXCEPT ![k] = "timeout"] /\ timeoutId' = k

\* or waiting for something else.
Wait(k, how) == loops' = [loops EXCEPT ![k] = how] /\ UNCHANGED timeoutId

Waiting == stop_until \/ pause \/ pauseCallback # "none"

\* The iteration finds the page without focus for a while.
LostFocus(k) ==
  /\ loops[k] \in {"timeout", "idle"}
  /\ ~page_is_visible
  /\ Wait(k, "idle")
  /\ UNCHANGED <<page_is_visible, stop_until, library, fresh, optionVars, pauseVars, builtVars>>

\* Mutant: the iteration that calls pauseCallback does not go on.
IdleDropped(k) ==
  /\ loops[k] \in {"timeout", "idle"}
  /\ Waiting
  /\ IF ~stop_until /\ ~pause
     THEN /\ pause' = TRUE
          /\ page' = IF pauseCallback = "page" THEN "loading" ELSE page
          /\ Wait(k, "none")
     ELSE UNCHANGED <<pause, page>> /\ Rearm(k)
  /\ UNCHANGED <<page_is_visible, stop_until, library, fresh, optionVars, pauseCallback,
                 updated_dom, modal_depth, paused_on_modal, menu, snapshots>>

\* It is stopped or paused, or the first to find that it has to pause.
Idle(k) ==
  /\ loops[k] \in {"timeout", "idle"}
  /\ Waiting
  /\ IF ~stop_until /\ ~pause
     THEN pause' = TRUE /\ page' = IF pauseCallback = "page" THEN "loading" ELSE page
     ELSE UNCHANGED <<pause, page>>
  /\ Rearm(k)
  /\ UNCHANGED <<page_is_visible, stop_until, library, fresh, optionVars, pauseCallback,
                 updated_dom, modal_depth, paused_on_modal, menu, snapshots>>

\* parseDom() if it is needed, and the charts are refreshed, all at once; the
\* first iteration waits for the library instead.
RefreshParallel(k) ==
  /\ loops[k] \in {"timeout", "idle"}
  /\ ~Waiting /\ parallel_refresher
  /\ updated_dom' = FALSE
  /\ IF library THEN Rearm(k) /\ fresh' = TRUE
     ELSE Wait(k, "library") /\ UNCHANGED fresh
  /\ UNCHANGED <<page_is_visible, stop_until, library, optionVars, pause, pauseCallback, builtVars>>

\* Mutant: the library is not marked as initialized.
LibraryForgotten(k) ==
  /\ loops[k] = "library"
  /\ Wait(k, "idle")
  /\ UNCHANGED <<page_is_visible, stop_until, library, fresh, optionVars, pauseVars, builtVars>>

\* The callback of library.initialize() is the next iteration.
LibraryLoaded(k) ==
  /\ loops[k] = "library"
  /\ library' = TRUE
  /\ Wait(k, "idle")
  /\ UNCHANGED <<page_is_visible, stop_until, fresh, optionVars, pauseVars, builtVars>>

\* chartRefresherNoParallel(): parseDom(), or the charts one after the other.
RefreshSequence(k) ==
  /\ loops[k] \in {"timeout", "idle"}
  /\ ~Waiting /\ ~parallel_refresher
  /\ updated_dom' = FALSE
  /\ IF updated_dom THEN Rearm(k) ELSE Wait(k, "sequence")
  /\ UNCHANGED <<page_is_visible, stop_until, library, fresh, optionVars, pause, pauseCallback,
                 builtVars>>

\* The sequence ends after the last chart, or when the DOM has changed.
SequenceEnds(k) ==
  /\ loops[k] = "sequence"
  /\ Rearm(k)
  /\ fresh' = ~updated_dom
  /\ updated_dom' = FALSE
  /\ UNCHANGED <<page_is_visible, stop_until, library, optionVars, pause, pauseCallback, builtVars>>
-----------------------------------------------------------------------------
(* What happens to the page *)

\* onscroll(), with chartRefresherReschedule(): the timeout on record is
\* cleared, if it is still pending, and another one set.
Onscroll ==
  LET free == {k \in Slot : loops[k] = "none"}
      cleared == {k \in {timeoutId} : loops[k] = "timeout"}
  IN /\ async_on_scroll
     /\ stop_until' = TRUE
     /\ \E k \in free \cup cleared :
          /\ loops' = [j \in Slot |->
               IF j = k THEN "timeout" ELSE IF j \in cleared THEN "none" ELSE loops[j]]
          /\ timeoutId' = k
     /\ UNCHANGED <<page_is_visible, library, fresh, optionVars, pauseVars, builtVars>>

\* A gesture stops the refresher for a while: globalPanAndZoom.delay()
DelayRefresh ==
  /\ ~stop_until /\ stop_until' = TRUE
  /\ UNCHANGED <<loops, timeoutId, page_is_visible, library, fresh, optionVars, pauseVars, builtVars>>

StopUntilPasses ==
  /\ stop_until /\ stop_until' = FALSE
  /\ UNCHANGED <<loops, timeoutId, page_is_visible, library, fresh, optionVars, pauseVars, builtVars>>

\* The blur and focus handlers of start()
SwitchFocus ==
  /\ page_is_visible' = ~page_is_visible
  /\ UNCHANGED <<loops, timeoutId, stop_until, library, fresh, optionVars, pauseVars, builtVars>>

\* update_every passes.
ChartsAge ==
  /\ fresh /\ fresh' = FALSE
  /\ UNCHANGED <<loops, timeoutId, page_is_visible, stop_until, library, optionVars, pauseVars,
                 builtVars>>

\* finalizePage(), when all that it needs was downloaded.
FinalizePage ==
  /\ page = "loading" /\ page' = "loaded"
  /\ Unpause
  /\ UNCHANGED <<loops, timeoutId, page_is_visible, stop_until, library, fresh, optionVars,
                 modal_depth, paused_on_modal, menu, snapshots>>

\* loadSnapshot() hides its modal, resets the page and initializes it again.
LoadSnapshot ==
  /\ page = "loaded" /\ modal_depth = 1 /\ snapshots < MaxSnapshots
  /\ snapshots' = snapshots + 1
  /\ modal_depth' = 0 /\ paused_on_modal' = FALSE
  /\ pause' = FALSE /\ updated_dom' = TRUE /\ pauseCallback' = "page"
  /\ page' = "waiting"
  /\ UNCHANGED <<loops, timeoutId, page_is_visible, stop_until, library, fresh, optionVars, menu>>

\* show.bs.modal
ShowModal ==
  /\ page = "loaded" \/ snapshots > 0
  /\ modal_depth < 2 /\ modal_depth' = modal_depth + 1
  /\ IF modal_depth = 0 /\ pauseCallback = "none" THEN Pause("modal") ELSE UNCHANGED pauseVars
  /\ paused_on_modal' = IF modal_depth = 0 THEN pauseCallback = "none" ELSE paused_on_modal
  /\ UNCHANGED <<loops, timeoutId, page_is_visible, stop_until, library, fresh, optionVars,
                 page, menu, snapshots>>

\* Mutant: the last modal is taken for one of several.
HideModalOffByOne ==
  /\ modal_depth > 0 /\ modal_depth' = modal_depth - 1
  /\ IF modal_depth = 0 /\ paused_on_modal
     THEN Unpause /\ paused_on_modal' = FALSE
     ELSE UNCHANGED <<pauseVars, paused_on_modal>>
  /\ UNCHANGED <<loops, timeoutId, page_is_visible, stop_until, library, fresh, optionVars,
                 page, menu, snapshots>>

\* hide.bs.modal
HideModal ==
  /\ modal_depth > 0 /\ modal_depth' = modal_depth - 1
  /\ IF modal_depth = 1 /\ paused_on_modal
     THEN Unpause /\ paused_on_modal' = FALSE
     ELSE UNCHANGED <<pauseVars, paused_on_modal>>
  /\ UNCHANGED <<loops, timeoutId, page_is_visible, stop_until, library, fresh, optionVars,
                 page, menu, snapshots>>

\* show.bs.dropdown and hidden.bs.dropdown of the my-netdata menu
ShowMenu ==
  /\ page = "loaded" \/ snapshots > 0
  /\ ~menu /\ menu' = TRUE
  /\ Pause("menu")
  /\ UNCHANGED <<loops, timeoutId, page_is_visible, stop_until, library, fresh, optionVars,
                 page, modal_depth, paused_on_modal, snapshots>>

HideMenu ==
  /\ menu /\ menu' = FALSE
  /\ Unpause
  /\ UNCHANGED <<loops, timeoutId, page_is_visible, stop_until, library, fresh, optionVars,
                 page, modal_depth, paused_on_modal, snapshots>>
-----------------------------------------------------------------------------
Iterate(k) ==
  \/ LostFocus(k) \/ Idle(k) \/ RefreshParallel(k) \/ LibraryLoaded(k)
  \/ RefreshSequence(k) \/ SequenceEnds(k)

LoopNext ==
  \/ \E k \in Slot : Iterate(k)
  \/ Onscroll \/ DelayRefresh \/ StopUntilPasses \/ SwitchFocus \/ ChartsAge
  \/ FinalizePage \/ LoadSnapshot
  \/ ShowModal \/ HideModal \/ ShowMenu \/ HideMenu

LoopSpec == LoopInit /\ [][LoopNext]_loopVars

\* Timeouts fire, a library and a sequence of charts finish, and so does the
\* download of what the page is built from.
LoopFairness ==
  /\ \A k \in Slot : WF_loopVars(Iterate(k))
  /\ WF_loopVars(FinalizePage)

LoopFairSpec == LoopSpec /\ LoopFairness
-----------------------------------------------------------------------------
\* The refresher always has an iteration pending, whatever path the last one
\* took and however scrolling cleared timeouts; unless charts are refreshed
\* while the page is scrolled (async_on_scroll), it has only one.
LoopKept ==
  /\ \E k \in Slot : loops[k] # "none"
  /\ ~async_on_scroll => Cardinality({k \in Slot : loops[k] # "none"}) = 1

\* The refresher is paused only on behalf of someone who will resume it: the
\* page that is built, a modal that is open and knows that it paused, or the
\* menu while it is open.
PausedHasOwner ==
  pause \/ pauseCallback # "none" =>
    \/ page # "loaded"
    \/ modal_depth > 0 /\ paused_on_modal
    \/ menu

\* A page that has the focus, with nothing open on top of it, keeps refreshing
\* its charts.
KeepsRefreshing ==
  <>[](/\ page = "loaded" /\ modal_depth = 0 /\ ~menu
       /\ page_is_visible /\ ~stop_until) => []<>fresh

\* Unless the menu is opened meanwhile (its pause() replaces the callback that
\* builds the page), a page that waits to be built is built.
PageIsBuilt ==
  ([]~menu /\ <>[]~stop_until) => (page = "waiting" ~> page = "loaded")

\* chartRefresher() gets both done: the page is built and then refreshed.
LoopProgress == KeepsRefreshing /\ PageIsBuilt
=============================================================================
