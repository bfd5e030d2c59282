------------------------------ MODULE MCPage --------------------------------
(***************************************************************************)
(* Model checking of parts of the dashboard's page.                        *)
(*                                                                         *)
(* The parts share no state, so checking them side by side would only      *)
(* multiply their states.  A behaviour of this module is a behaviour of    *)
(* one of them: focus names it, the others stay in an initial state.  An   *)
(* invariant of a part is checked as it stands; a property that says that  *)
(* something happens is about the behaviours of its part.                  *)
(***************************************************************************)
EXTENDS RefreshLoop, CloudAgents, CommonUnits, SelectionSync, SnapshotSave, CommonColors,
        GotoServer, UrlState

VARIABLE focus

pageParts == <<focus, loopVars, agentVars, unitVars, selectionVars, saveVars, colorVars,
               gotoVars, urlVars>>

MCTheme == <<"red", "green">>
MCDataColors == {[colors |-> c, only |-> o] : c \in {<< >>, <<"blue">>}, o \in BOOLEAN}

\* Agents as <<machine guid, address>>.
MCCurrent == <<"g1", "u1">>
MCKnown == {<<"g1", "u2">>, <<"g2", "u3">>, <<"g2", "***">>}
MCStored == {<<"g1", "u2">>, <<"g3", "u4">>}

\* A part that is not in focus stays in one of its initial states.
PageInit ==
    /\ focus \in {"loop", "agents", "units", "selection", "save", "colors", "goto", "url"}
    /\ SelectionInit /\ GotoInit
    /\ LoopInit /\ (focus = "loop" \/ (async_on_scroll /\ parallel_refresher /\ page_is_visible))
    /\ SaveInit /\ (focus = "save" \/ user.options = CHOOSE o \in UserOptions : TRUE)
    /\ ColorsInit /\ (focus = "colors" \/ author = CHOOSE a \in [Painted -> DataColors] : TRUE)
    /\ AgentsInit /\ (focus = "agents" \/ cloud = [a \in Account |-> {}])
    /\ UnitsInit /\ (focus = "units" \/ /\ wanted = [c \in Scaled |-> Auto] /\ shares = {}
                                        /\ peak = [c \in Scaled |-> CHOOSE m \in Peak : TRUE])
    /\ UrlInit /\ (focus = "url" \/ url = CHOOSE u \in Link : u.update_always = FALSE
                                                              /\ u.alarm_when = 0)

PageNext ==
    \/ focus = "loop" /\ LoopNext
       /\ UNCHANGED <<focus, agentVars, unitVars, selectionVars, saveVars, colorVars,
                      gotoVars, urlVars>>
    \/ focus = "agents" /\ AgentsNext
       /\ UNCHANGED <<focus, loopVars, unitVars, selectionVars, saveVars, colorVars,
                      gotoVars, urlVars>>
    \/ focus = "units" /\ UnitsNext
       /\ UNCHANGED <<focus, loopVars, agentVars, selectionVars, saveVars, colorVars,
                      gotoVars, urlVars>>
    \/ focus = "selection" /\ SelectionNext
       /\ UNCHANGED <<focus, loopVars, agentVars, unitVars, saveVars, colorVars,
                      gotoVars, urlVars>>
    \/ focus = "save" /\ SaveNext
       /\ UNCHANGED <<focus, loopVars, agentVars, unitVars, selectionVars, colorVars,
                      gotoVars, urlVars>>
    \/ focus = "colors" /\ ColorsNext
       /\ UNCHANGED <<focus, loopVars, agentVars, unitVars, selectionVars, saveVars,
                      gotoVars, urlVars>>
    \/ focus = "goto" /\ GotoNext
       /\ UNCHANGED <<focus, loopVars, agentVars, unitVars, selectionVars, saveVars,
                      colorVars, urlVars>>
    \/ focus = "url" /\ UrlNext
       /\ UNCHANGED <<focus, loopVars, agentVars, unitVars, selectionVars, saveVars,
                      colorVars, gotoVars>>

\* The fairness of each part (see its module), while the part is in focus.
PageFairness ==
    /\ \A k \in Slot : WF_loopVars(focus = "loop" /\ Iterate(k))
    /\ WF_loopVars(focus = "loop" /\ FinalizePage)
    /\ \A c \in Scaled : WF_unitVars(focus = "units" /\ DrawScaled(c))

PageSpec == PageInit /\ [][PageNext]_pageParts /\ PageFairness

\* RefreshLoop: the charts of a page in front keep being refreshed, and a page
\* that waits to be built is built (see LoopProgress there).
LoopPartProgress == focus = "loop" => LoopProgress

\* CommonUnits: charts that share units come to agree (see UnitsAgree).
UnitsPartAgrees == focus = "units" => UnitsAgree
=============================================================================
