--------------------------- MODULE WeatherProvider ---------------------------
(***************************************************************************)
(* core/weather_provider's poll task, the web UI's WeatherSettings page,   *)
(* which stores a location as three settings, and the dashboard's widget.  *)
(*                                                                         *)
(* A place stands for its latitude, its longitude and its label.  The page *)
(* stores the three one request at a time and the poll reads them one call *)
(* at a time, so a poll may see a mixture; a reading is tagged with the    *)
(* pair of coordinates it was fetched for.                                 *)
(***************************************************************************)
EXTENDS Naturals, Sequences

CONSTANTS WeatherPlaces, NoPlace,
          MaxLocationSaves,        \* bound: locations selected on the page
          MaxRestarts      \* bound: restarts of the device

ASSUME WeatherAssumption ==
    /\ NoPlace \notin WeatherPlaces \cup (WeatherPlaces \X WeatherPlaces)
    /\ MaxLocationSaves \in Nat /\ MaxRestarts \in Nat

VARIABLES location,        \* the settings, by key
          weather_page,            \* WeatherSettings.svelte; refreshed: its last
                           \* selection is stored and its refresh was served
          poll,            \* PollLoop() and PollOnce()
          wake_requested,
          weather_cache,   \* the coordinates the cached reading is for
          weather,         \* state_
          widget,          \* the state its labels show
          widget_pending,  \* a WeatherUpdatedEvent is queued for the UI thread
          saves_left, restarts_left

weather_vars == <<location, weather_page, poll, wake_requested, weather_cache, weather,
                  widget, widget_pending, saves_left, restarts_left>>

Keys == <<"latitude", "longitude", "display_name">>
LocationKeys == {Keys[i] : i \in 1..3}
Unconfigured == [configured |-> FALSE, has_reading |-> FALSE, live |-> FALSE,
                 of |-> NoPlace, name |-> NoPlace]
IdlePage == [pc |-> "idle", results |-> {}, place |-> NoPlace, key |-> 1,
             failed |-> FALSE, refreshed |-> FALSE]
IdlePoll == [pc |-> "latitude", latitude |-> NoPlace, longitude |-> NoPlace,
             display_name |-> NoPlace]

-----------------------------------------------------------------------------
(***************************************************************************)
(* The settings page.                                                      *)
(***************************************************************************)
\* GET /api/weather/geocode: the service's matches, malformed ones dropped.
Geocode == WeatherPlaces

\* An error, or no match, leaves the page as it was.
SearchLocation ==
    /\ weather_page.pc = "idle" /\ weather_page.results = {}
    /\ weather_page' = [weather_page EXCEPT !.results = Geocode]
    /\ UNCHANGED <<location, poll, wake_requested, weather_cache, weather, widget,
                   widget_pending, saves_left, restarts_left>>

SelectLocation(p) ==
    /\ weather_page.pc = "idle" /\ p \in weather_page.results /\ saves_left > 0
    /\ weather_page' = [weather_page EXCEPT !.pc = "saving", !.place = p, !.key = 1, !.failed = FALSE,
                          !.refreshed = FALSE]
    /\ saves_left' = saves_left - 1
    /\ UNCHANGED <<location, poll, wake_requested, weather_cache, weather, widget,
                   widget_pending, restarts_left>>

\* One key; a failure is remembered and the next key is tried.  With a
\* failure the results stay, to be selected again, and nothing is refreshed.
PostKey ==
    /\ weather_page.pc = "saving"
    /\ \E ok \in BOOLEAN :
          LET failed == weather_page.failed \/ ~ok
          IN  /\ location' = IF ok THEN [location EXCEPT ![Keys[weather_page.key]] = weather_page.place]
                             ELSE location
              /\ weather_page' = IF weather_page.key < 3
                         THEN [weather_page EXCEPT !.key = @ + 1, !.failed = failed]
                         ELSE IF failed THEN [weather_page EXCEPT !.pc = "idle", !.failed = TRUE]
                         ELSE [IdlePage EXCEPT !.pc = "refresh"]
    /\ UNCHANGED <<poll, wake_requested, weather_cache, weather, widget,
                   widget_pending, saves_left, restarts_left>>

\* Mutant of TriggerPoll: the condition variable is notified, no flag is set.
TriggerPollUnflagged == wake_requested' = (poll.pc = "waiting" \/ wake_requested)

TriggerPoll == wake_requested' = TRUE

\* POST /api/weather/refresh, whose answer the page ignores.
Refresh ==
    /\ weather_page.pc = "refresh" /\ weather_page' = [weather_page EXCEPT !.pc = "idle", !.refreshed = TRUE]
    /\ TriggerPoll
    /\ UNCHANGED <<location, poll, weather_cache, weather, widget,
                   widget_pending, saves_left, restarts_left>>

RefreshLost ==
    /\ weather_page.pc = "refresh" /\ weather_page' = [weather_page EXCEPT !.pc = "idle"]
    /\ UNCHANGED <<location, poll, wake_requested, weather_cache, weather, widget,
                   widget_pending, saves_left, restarts_left>>

-----------------------------------------------------------------------------
(***************************************************************************)
(* The poll task.                                                          *)
(***************************************************************************)
\* wait_for() ends with the flag set or at the poll interval.
PollLoop ==
    /\ poll.pc = "waiting"
    /\ poll' = IdlePoll /\ wake_requested' = FALSE
    /\ UNCHANGED <<location, weather_page, weather_cache, weather, widget, widget_pending,
                   saves_left, restarts_left>>

AfterReading(key) ==
    CASE key = "latitude" -> "longitude"
      [] key = "longitude" -> "display_name"
      [] key = "display_name" -> "fetch"

ReadSetting ==
    /\ poll.pc \in LocationKeys
    /\ poll' = [poll EXCEPT ![poll.pc] = location[poll.pc], !.pc = AfterReading(poll.pc)]
    /\ UNCHANGED <<location, weather_page, wake_requested, weather_cache, weather, widget,
                   widget_pending, saves_left, restarts_left>>

Polled == <<poll.latitude, poll.longitude>>
Configured == poll.latitude # NoPlace /\ poll.longitude # NoPlace

\* state_ is written under the mutex, then WeatherUpdatedEvent published.
Stores(state) ==
    /\ weather' = state /\ poll' = [poll EXCEPT !.pc = "publish"]
    /\ UNCHANGED widget_pending

PollUnconfigured ==
    /\ poll.pc = "fetch" /\ ~Configured /\ Stores(Unconfigured)
    /\ UNCHANGED <<location, weather_page, wake_requested, weather_cache, widget,
                   saves_left, restarts_left>>

\* A valid answer: the reading replaces the cached one, a write that may
\* fail or leave a file that does not parse.
FetchSucceeds ==
    /\ poll.pc = "fetch" /\ Configured
    /\ Stores([configured |-> TRUE, has_reading |-> TRUE, live |-> TRUE,
               of |-> Polled, name |-> poll.display_name])
    /\ weather_cache' \in {Polled, weather_cache, NoPlace}
    /\ UNCHANGED <<location, weather_page, wake_requested, widget, saves_left, restarts_left>>

\* No answer: the cached reading, whatever place it is of.
Fallback ==
    [configured |-> TRUE, has_reading |-> weather_cache # NoPlace, live |-> FALSE,
     of |-> weather_cache, name |-> poll.display_name]

FetchFails ==
    /\ poll.pc = "fetch" /\ Configured /\ Stores(Fallback)
    /\ UNCHANGED <<location, weather_page, wake_requested, weather_cache, widget,
                   saves_left, restarts_left>>

PublishUpdate ==
    /\ poll.pc = "publish" /\ poll' = [poll EXCEPT !.pc = "waiting"]
    /\ widget_pending' = TRUE
    /\ UNCHANGED <<location, weather_page, wake_requested, weather_cache, weather, widget,
                   saves_left, restarts_left>>

\* What the two labels show of a state.
RefreshWeatherLabels(state) ==
    IF ~state.configured THEN Unconfigured
    ELSE IF ~state.has_reading THEN [state EXCEPT !.live = FALSE, !.of = NoPlace]
    ELSE state

\* The widget's handler on the UI thread.
WidgetUpdate ==
    /\ widget_pending /\ widget_pending' = FALSE
    /\ widget' = RefreshWeatherLabels(weather)
    /\ UNCHANGED <<location, weather_page, poll, wake_requested, weather_cache, weather,
                   saves_left, restarts_left>>

WeatherRestart ==
    /\ restarts_left > 0 /\ restarts_left' = restarts_left - 1
    /\ poll' = IdlePoll /\ wake_requested' = FALSE
    /\ weather' = Unconfigured /\ widget' = Unconfigured /\ widget_pending' = FALSE
    /\ UNCHANGED <<location, weather_page, weather_cache, saves_left>>

\* A start of the device, with what it kept from before.
WeatherInit ==
    /\ \E p \in WeatherPlaces \cup {NoPlace} :
          /\ location = [k \in LocationKeys |-> p]
          /\ weather_cache \in {NoPlace} \cup ({<<p, p>>} \ {<<NoPlace, NoPlace>>})
    /\ weather_page = IdlePage /\ poll = IdlePoll /\ wake_requested = FALSE
    /\ weather = Unconfigured /\ widget = Unconfigured /\ widget_pending = FALSE
    /\ saves_left = MaxLocationSaves /\ restarts_left = MaxRestarts

PollStep == PollLoop \/ ReadSetting \/ PollUnconfigured \/ FetchSucceeds \/ FetchFails
            \/ PublishUpdate

WeatherNext ==
    \/ SearchLocation \/ PostKey \/ Refresh \/ RefreshLost
    \/ \E p \in WeatherPlaces : SelectLocation(p)
    \/ PollStep \/ WidgetUpdate \/ WeatherRestart

\* The poll task never stops polling, the UI thread drains its queue.
WeatherSpec ==
    WeatherInit /\ [][WeatherNext]_weather_vars
    /\ WF_weather_vars(PollStep) /\ WF_weather_vars(WidgetUpdate)

-----------------------------------------------------------------------------
(***************************************************************************)
(* Properties.                                                             *)
(***************************************************************************)
StoredPlace == <<location["latitude"], location["longitude"]>>
Shown(state) == [name |-> state.name, of |-> IF state.live THEN state.of ELSE NoPlace]

\* Types; the labels and the state agree on what a reading is.
WeatherTypeOK ==
    /\ location \in [LocationKeys -> WeatherPlaces \cup {NoPlace}]
    /\ poll.pc \in LocationKeys \cup {"fetch", "publish", "waiting"}
    /\ weather.live => weather.has_reading /\ weather.of # NoPlace
    /\ weather.has_reading => weather.configured
    /\ widget.live => widget.of # NoPlace

\* A location that was stored and refreshed is the one the last poll used,
\* or another poll is due at once: the refresh is not lost in a poll that
\* was running, and no poll that mixed two places has the last word.
RefreshNotLost ==
    weather_page.pc = "idle" /\ weather_page.refreshed /\ poll.pc = "waiting" /\ ~wake_requested
    => Polled = StoredPlace /\ poll.display_name = location["display_name"]

\* With no update queued, and none being published, the widget shows the
\* provider's state.
WidgetNotBehind ==
    ~widget_pending /\ poll.pc \notin {"publish"} => widget = RefreshWeatherLabels(weather)

\* A location that is saved while a poll reads, fetches or publishes is not
\* lost, and the widget is never left behind the provider.
WeatherSafe == WeatherTypeOK /\ RefreshNotLost /\ WidgetNotBehind

\* A reading on the dashboard that is of another place than the one stored
\* is not shown as live for good: the reading of a settled location is live
\* only if it is of that location, and carries its name.
SettledShown ==
    \A p \in WeatherPlaces :
       <>[](location = [k \in LocationKeys |-> p])
       => <>[](widget.name = p /\ (widget.live => widget.of = <<p, p>>))
=============================================================================
