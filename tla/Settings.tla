------------------------------ MODULE Settings ------------------------------
(***************************************************************************)
(* The settings of the dashboard: options and chart heights in the page    *)
(* and in the local storage of the browser (web/gui/src/dashboard.js/      *)
(* localstorage.js), the settings dialog and the timezone                  *)
(* (dateTime in dashboard.js/main.js; web/gui/main.js).                    *)
(*                                                                         *)
(* Setting an option runs a callback that moves the switches of the        *)
(* dialog, a switch that moves calls its own handler, and that may set     *)
(* options again, all inside the first call: the operators below take a    *)
(* page and give the page after the call.  Between calls another page of   *)
(* the browser may write to the same storage, and writes may fail.         *)
(***************************************************************************)
EXTENDS Naturals

CONSTANTS
  Missing,
  Zone,              \* names of timezones
  Accepted,          \* those that the browser knows
  Height,            \* heights a user may give to a chart
  AuthorHeight,      \* the height in its element
  MaxSettings        \* bound on what users and the browser do

VARIABLES
  pg,                \* the page
  settings

settingVars == <<pg, settings>>

\* Options with a switch of their own: stop_updates_when_focus_is_lost ("focus")
\* and, for the rest, destroy_on_hide.
Switch == {"focus", "destroy_on_hide"}
Key == Switch \cup {"timezone", "user_set_server_timezone"}

\* NETDATA.options.current in options.js
Default == [focus |-> TRUE, destroy_on_hide |-> FALSE,
            timezone |-> "default", user_set_server_timezone |-> "default"]

\* localStorageSet().  apart are the settings that the storage may not have as
\* the page has them: another page wrote last, or a write failed.
Save(p, k, v) ==
  IF ~p.usable THEN p
  ELSE IF p.full THEN [p EXCEPT !.apart = @ \cup {k}]
  ELSE [p EXCEPT !.store[k] = v, !.apart = @ \ {k}]

RECURSIVE SetOption(_, _, _), UpdateOptionsModal(_), DateTimeInit(_, _), LocalTimezone(_, _)

\* setOption()
SetOption(p, k, v) ==
  IF p.options[k] = v THEN p
  ELSE UpdateOptionsModal([Save(p, k, v) EXCEPT !.options[k] = v])

\* The setOptionCallback of dashboardSettingsSetup(): every switch is moved to
\* where its option is.  The handlers of the plain switches find their option set
\* already, that of stop_updates_when_focus_is_lost has also the address to change;
\* the one of local_timezone goes on.
UpdateOptionsModal(p) ==
  LET q == [p EXCEPT !.checked = [o \in Switch |-> p.options[o]], !.synced = TRUE,
                     !.update_always = IF p.checked.focus = p.options.focus
                                       THEN @ ELSE ~p.options.focus]
  IN  IF ~p.ready THEN p
      ELSE IF q.local_timezone = q.using_timezone
      THEN LocalTimezone([q EXCEPT !.local_timezone = ~q.using_timezone], ~q.using_timezone)
      ELSE q

\* dateTime.init(): a timezone the browser does not know is an exception.
DateTimeInit(p, zone) ==
  LET known == zone \in Accepted
  IN  SetOption([p EXCEPT !.using_timezone = known], "timezone",
                IF known THEN zone ELSE "default")

\* selected_server_timezone('default', checked), the handler of local_timezone.
\* user_set_server_timezone is set in the page and not saved.
LocalTimezone(p, checked) ==
  LET q == IF p.options.user_set_server_timezone = "default"
           THEN [p EXCEPT !.options.user_set_server_timezone = p.server_timezone,
                          !.apart = @ \cup {"user_set_server_timezone"}]
           ELSE p
      zone == q.options.user_set_server_timezone
      a == DateTimeInit(DateTimeInit(q, zone), "default")
      b == IF a.local_timezone THEN a ELSE LocalTimezone([a EXCEPT !.local_timezone = TRUE], TRUE)
  IN  IF checked THEN DateTimeInit(p, "default")
      ELSE IF zone \in Accepted THEN DateTimeInit(q, zone)
      ELSE SetOption(b, "user_set_server_timezone", p.server_timezone)

\* selected_server_timezone(zone): one from the menu.
SelectedServerTimezone(p, zone) ==
  LET q == DateTimeInit(SetOption(p, "user_set_server_timezone", zone), zone)
      a == DateTimeInit(q, "default")
      b == IF a.local_timezone THEN a ELSE LocalTimezone([a EXCEPT !.local_timezone = TRUE], TRUE)
  IN  IF zone \notin Accepted THEN SetOption(b, "user_set_server_timezone", p.server_timezone)
      ELSE IF q.local_timezone THEN LocalTimezone([q EXCEPT !.local_timezone = FALSE], FALSE)
      ELSE q
-----------------------------------------------------------------------------
\* localStorageGet(): what was not stored is stored with its default.
Get(p, k, default) ==
  IF p.usable /\ p.store[k] # Missing THEN p ELSE Save(p, k, default)
Loaded(p, k, default) == IF p.usable /\ p.store[k] # Missing THEN p.store[k] ELSE default

\* The page is loaded: the storage is tried, where one item may fit when others do
\* not; the options are read, stop_updates_when_focus_is_lost is set whatever was
\* stored, dates are set up; the address may ask for update_always; and the dialog
\* is set up, before its switches have handlers.
LoadPage(q, update_always, fits) ==
  LET p == [q EXCEPT !.usable = q.storage /\ (fits \/ ~q.full), !.update_always = update_always]
      blank == [p EXCEPT !.ready = FALSE, !.apart = {}, !.reset = FALSE, !.rebuilt = FALSE]
      read == [Get(Get(Get(Get(Get(blank, "focus", TRUE), "destroy_on_hide", FALSE),
                           "timezone", "default"),
                       "user_set_server_timezone", "default"), "height", AuthorHeight)
                EXCEPT !.options = [k \in Key |-> Loaded(p, k, Default[k])],
                       !.height = Loaded(p, "height", AuthorHeight)]
      dated == DateTimeInit(SetOption(read, "focus", TRUE), read.options.timezone)
      asked == IF update_always THEN SetOption(dated, "focus", FALSE) ELSE dated
  IN  [asked EXCEPT !.ready = TRUE, !.synced = TRUE,
                    !.checked = [o \in Switch |-> asked.options[o]],
                    !.local_timezone = ~asked.using_timezone]

\* resizeChartToHeight()
ResizeChartToHeight(p, h) == [Save(p, "height", h) EXCEPT !.height = h]

\* Mutant: the dates are not set up again.
ResetOptionsOnly(p) ==
  LET h == IF p.rebuilt THEN [Save(p, "height", AuthorHeight) EXCEPT !.apart = @ \cup {"height"}]
           ELSE ResizeChartToHeight(p, AuthorHeight)
      z == SetOption(SetOption(h, "timezone", "default"), "user_set_server_timezone", "default")
      o == SetOption(SetOption(z, "destroy_on_hide", FALSE), "focus", TRUE)
  IN  [o EXCEPT !.reset = TRUE, !.synced = FALSE]

\* resetOptions(): the heights, by the callback of the chart that read the height
\* first, the options in their order, and the dates; the switch of the timezone
\* is not moved after that.
ResetOptions(p) ==
  LET h == IF p.rebuilt THEN [Save(p, "height", AuthorHeight) EXCEPT !.apart = @ \cup {"height"}]
           ELSE ResizeChartToHeight(p, AuthorHeight)
      z == SetOption(SetOption(h, "timezone", "default"), "user_set_server_timezone", "default")
      o == SetOption(SetOption(z, "destroy_on_hide", FALSE), "focus", TRUE)
  IN  [DateTimeInit(o, o.options.timezone) EXCEPT !.reset = TRUE, !.synced = FALSE]

\* What the page starts from: an empty storage, or none.
SettingsInit ==
  /\ \E storage \in BOOLEAN, server_timezone \in Zone :
       pg = LoadPage([storage |-> storage, usable |-> storage, full |-> FALSE, ready |-> FALSE,
                      store |-> [k \in Key \cup {"height"} |-> Missing], apart |-> {},
                      options |-> Default, height |-> AuthorHeight, update_always |-> FALSE,
                      checked |-> [o \in Switch |-> Default[o]], local_timezone |-> TRUE,
                      using_timezone |-> FALSE, server_timezone |-> server_timezone,
                      synced |-> TRUE, reset |-> FALSE, rebuilt |-> FALSE], FALSE, TRUE)
  /\ settings = 0
-----------------------------------------------------------------------------
Change(p) == pg' = p /\ settings < MaxSettings /\ settings' = settings + 1
Chosen == [pg EXCEPT !.reset = FALSE]

\* The user moves a switch of the dialog, and its handler runs.
MoveSwitch(o) ==
  LET on == ~pg.checked[o]
  IN  Change(SetOption([Chosen EXCEPT !.checked[o] = on,
                                      !.update_always = IF o = "focus" THEN ~on ELSE @], o, on))
MoveTimezone ==
  Change(LocalTimezone([Chosen EXCEPT !.local_timezone = ~@], ~pg.local_timezone))
SelectTimezone(z) == Change(SelectedServerTimezone(Chosen, z))

\* resizeHandler(): the handle of a chart is dragged, one step of it, or clicked twice,
\* which gives one of several heights, that of the element among them.
Resize(h) == Change(ResizeChartToHeight(Chosen, h))

\* resetDashboardOptions(): the page is reloaded when the theme, or the option that
\* shows the help, was not the default.
ResetDashboardOptions ==
  LET p == ResetOptions(pg)
  IN  Change(p) \/ \E fits \in BOOLEAN : Change(LoadPage(p, p.update_always, fits))

\* The page is opened at some address.
Open == \E update_always, fits \in BOOLEAN : Change(LoadPage(pg, update_always, fits))

\* loadSnapshot() builds the charts of the page again.
RebuildCharts ==
  LET p == [pg EXCEPT !.apart = @ \ {"height"}, !.reset = FALSE, !.rebuilt = TRUE,
                      !.height = Loaded(pg, "height", AuthorHeight)]
  IN  Change(Get(p, "height", AuthorHeight))

\* Another page of the same browser stores a setting.
OtherPageStores(k, v) ==
  /\ pg.storage /\ pg.store[k] # v
  /\ Change([pg EXCEPT !.store[k] = v, !.apart = @ \cup {k}])
\* The storage fills up, or space is made.
StorageFills == pg.storage /\ Change([pg EXCEPT !.full = ~@])

SettingsNext ==
  \/ MoveTimezone \/ ResetDashboardOptions \/ Open \/ RebuildCharts \/ StorageFills
  \/ \E o \in Switch : MoveSwitch(o) \/ \E b \in BOOLEAN : OtherPageStores(o, b)
  \/ \E z \in Zone : SelectTimezone(z) \/ OtherPageStores("user_set_server_timezone", z)
  \/ \E z \in Accepted : OtherPageStores("timezone", z)
  \/ \E h \in Height : Resize(h) \/ OtherPageStores("height", h)

SettingsSpec == SettingsInit /\ [][SettingsNext]_settingVars
-----------------------------------------------------------------------------
\* What the page does is what its dialog shows, and what a reload gives back.
\* However the handlers of the switches, of the menu and of the reset button call
\* one another: every setting is stored as the page has it (unless another page
\* stored it since, or the storage is full); dates use a timezone just when the
\* option names one, which the browser knows; the switches and the address say what
\* the options do, the switch of the timezone until a reset (resetOptions() sets the dates up last
\* and calls nobody then); and after a reset everything has its default.
SettingsKept ==
  /\ pg.usable => /\ \A k \in Key \ pg.apart : pg.store[k] = pg.options[k]
                  /\ "height" \notin pg.apart => pg.store["height"] = pg.height
  /\ IF pg.using_timezone THEN pg.options.timezone \in Accepted
                          ELSE pg.options.timezone = "default"
  /\ pg.checked = [o \in Switch |-> pg.options[o]] /\ pg.update_always = ~pg.options.focus
  /\ pg.synced => pg.local_timezone = ~pg.using_timezone
  /\ pg.reset => pg.options = Default /\ (pg.rebuilt \/ pg.height = AuthorHeight)
=============================================================================
