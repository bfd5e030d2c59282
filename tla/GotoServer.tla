----------------------------- MODULE GotoServer -----------------------------
(***************************************************************************)
(* Going to another agent from the nodes menu: gotoServerModalHandler() of *)
(* src/src/web/gui/main.js.                                                *)
(*                                                                         *)
(* A click asks every known URL of the agent for its identity, in          *)
(* parallel; the first that answers as the agent wanted is opened.  After  *)
(* two seconds without one the registry is asked for more URLs.  The       *)
(* bookkeeping is three globals that the callbacks of all clicks share.    *)
(***************************************************************************)
EXTENDS Integers, Sequences, FiniteSets

CONSTANTS
    Agent,       \* the agents of the menu
    KnownURL,    \* their URLs in the menu (alternate_urls)
    FoundURL,    \* the URLs the registry finds for them
    MaxClicks    \* bound: clicks on the menu

VARIABLES
    gotoServerStop, gotoServerValidateRemaining, gotoServerMiddleClick,
    agentOf,     \* click -> the agent clicked
    checked,     \* click -> the URLs handed to gotoServerValidateUrl()
    pending,     \* the validations under way: <<click, url>>
    failedURLs,  \* history: those that failed
    searching,   \* click -> the search for more URLs: "no", "timer" or "sent"
    response,    \* the dialog's last word: "", "sorry" or "opened"
    went,        \* history: click -> the agents opened
    mixed        \* history: a click came while callbacks of another were due

gotoVars == <<gotoServerStop, gotoServerValidateRemaining, gotoServerMiddleClick, agentOf,
              checked, pending, failedURLs, searching, response, went, mixed>>

Click == 1..Len(agentOf)
LastClick == Len(agentOf)
Due(c) == searching[c] # "no" \/ \E u \in checked[c] : <<c, u>> \in pending

GotoInit ==
    /\ gotoServerStop = FALSE /\ gotoServerValidateRemaining = 0 /\ gotoServerMiddleClick = FALSE
    /\ agentOf = << >> /\ checked = << >> /\ searching = << >> /\ went = << >>
    /\ pending = {} /\ failedURLs = {} /\ response = "" /\ mixed = FALSE

\* gotoServerModalHandler(), after gotoServerInit()'s click handler: every known
\* URL is validated; the registry is asked later, unless the user is signed in.
GotoServerModalHandler(a) ==
    /\ LastClick < MaxClicks
    /\ gotoServerMiddleClick' \in BOOLEAN
    /\ gotoServerStop' = FALSE
    /\ gotoServerValidateRemaining' = Cardinality(KnownURL)
    /\ agentOf' = Append(agentOf, a)
    /\ checked' = Append(checked, KnownURL)
    /\ pending' = pending \cup {<<LastClick + 1, u>> : u \in KnownURL}
    /\ \E s \in {"no", "timer"} : searching' = Append(searching, s)
    /\ went' = Append(went, {})
    /\ response' = ""
    /\ mixed' = (\E c \in Click : Due(c))
    /\ UNCHANGED failedURLs

\* Mutant: every URL that answers is opened.
OpenAnyway(c, u) ==
    /\ <<c, u>> \in pending /\ pending' = pending \ {<<c, u>>}
    /\ gotoServerStop' = TRUE
    /\ gotoServerMiddleClick' = FALSE
    /\ went' = [went EXCEPT ![c] = @ \cup {<<agentOf[c], u>>}]
    /\ response' = "opened"
    /\ UNCHANGED <<gotoServerValidateRemaining, agentOf, checked, failedURLs, searching, mixed>>

\* A URL answers as the agent it was asked for: the first of them is opened.
URLAnswers(c, u) ==
    /\ <<c, u>> \in pending /\ pending' = pending \ {<<c, u>>}
    /\ IF gotoServerStop THEN UNCHANGED <<gotoServerStop, gotoServerMiddleClick, went, response>>
       ELSE /\ gotoServerStop' = TRUE
            /\ gotoServerMiddleClick' = FALSE
            /\ went' = [went EXCEPT ![c] = @ \cup {<<agentOf[c], u>>}]
            /\ response' = "opened"
    /\ UNCHANGED <<gotoServerValidateRemaining, agentOf, checked, failedURLs, searching, mixed>>

\* It does not answer, or answers as another agent.
URLFails(c, u) ==
    /\ <<c, u>> \in pending /\ pending' = pending \ {<<c, u>>}
    /\ failedURLs' = failedURLs \cup {<<c, u>>}
    /\ gotoServerValidateRemaining' = gotoServerValidateRemaining - 1
    /\ IF gotoServerValidateRemaining' <= 0
       THEN gotoServerMiddleClick' = FALSE /\ response' = "sorry"
       ELSE UNCHANGED <<gotoServerMiddleClick, response>>
    /\ UNCHANGED <<gotoServerStop, agentOf, checked, searching, went, mixed>>

\* Two seconds later, and then the registry's answer; without one the callback
\* is an exception and nothing is added.
SearchTimer(c) ==
    /\ searching[c] = "timer"
    /\ searching' = [searching EXCEPT ![c] = IF gotoServerStop THEN "no" ELSE "sent"]
    /\ response' = IF gotoServerStop THEN response ELSE ""
    /\ UNCHANGED <<gotoServerStop, gotoServerValidateRemaining, gotoServerMiddleClick, agentOf,
                   checked, pending, failedURLs, went, mixed>>
SearchAnswers(c) ==
    /\ searching[c] = "sent"
    /\ searching' = [searching EXCEPT ![c] = "no"]
    /\ \E more \in {{}, FoundURL \ checked[c]} :
          /\ gotoServerValidateRemaining' = gotoServerValidateRemaining + Cardinality(more)
          /\ checked' = [checked EXCEPT ![c] = @ \cup more]
          /\ pending' = pending \cup {<<c, u>> : u \in more}
    /\ UNCHANGED <<gotoServerStop, gotoServerMiddleClick, agentOf, failedURLs, response, went, mixed>>

GotoNext ==
    \/ \E a \in Agent : GotoServerModalHandler(a)
    \/ \E c \in Click : \/ SearchTimer(c) \/ SearchAnswers(c)
                        \/ \E u \in checked[c] : URLAnswers(c, u) \/ URLFails(c, u)
GotoSpec == GotoInit /\ [][GotoNext]_gotoVars

\* A click opens one URL of the agent clicked at most, however many answer and
\* in whatever order.  Not promised to a second click made while the first is
\* still checking: the flag that stops the first is lowered for the second, and
\* the answers of both open pages.  And the dialog gives up only when every URL
\* it was given at the click has failed, and never after it has opened one.  URLs
\* that only the registry knows can still be on their way: the dialog may say
\* that it found none before it has asked.
OpensOneOrGivesUp ==
    ~mixed /\ LastClick > 0 =>
        /\ Cardinality(went[LastClick]) <= 1
        /\ response = "sorry" =>
              /\ went[LastClick] = {}
              /\ \A u \in checked[LastClick] :
                    <<LastClick, u>> \in failedURLs \/ u \in FoundURL \ KnownURL
=============================================================================
