-------------------------- MODULE ActivitiesScreen --------------------------
(***************************************************************************)
(* The Activities screen (ui/screens/activities_screen.cpp) with its       *)
(* ActivityStartTracker and timeout timer, against HarmonyConnection cut   *)
(* down to what it publishes: its state, configuration and current         *)
(* activity, and commands that are dropped.  Events reach the screen       *)
(* through the UI thread's queue; its handlers then read Snapshot(), which *)
(* may have moved on.  What the hub itself holds is separate from what the *)
(* connection last read.                                                   *)
(***************************************************************************)
EXTENDS Naturals, Sequences, SequencesExt

CONSTANTS Activities, NoActivity,
          MaxActivityTaps, MaxHubEvents     \* bounds

ASSUME ActivitiesAssumption ==
    NoActivity \notin Activities /\ MaxActivityTaps \in Nat /\ MaxHubEvents \in Nat

VARIABLES hub_config, hub_activity,         \* the hub's own
          hub_state, has_activities, listed, current_activity,  \* Snapshot()
          start_queue,                      \* pending_commands_, with their age
          act_events,                       \* posted to the UI thread
          act_buttons, highlighted,         \* activity_buttons_, the green one
          starting, command_failed,         \* the tracker
          act_status,                       \* status_label_: its kind, whose
          start_timer,                      \* which tap armed it, 0 if paused
          tap_number,                       \* taps so far
          unreported,                       \* the last tap was dropped, and
                                            \* nothing came of it since
          hub_events_left

hub_vars == <<hub_config, hub_activity>>
snapshot_vars == <<hub_state, has_activities, listed, current_activity>>
screen_vars == <<act_buttons, highlighted, starting, command_failed, act_status,
                 start_timer>>
activities_vars == <<hub_vars, snapshot_vars, start_queue, act_events, screen_vars,
                     tap_number, unreported, hub_events_left>>

HubEvent == hub_events_left > 0 /\ hub_events_left' = hub_events_left - 1
Offline == hub_state # "connected"
PostActivities(events) == act_events' = act_events \o events
StateEvent(state) == [kind |-> "state", connected |-> state = "connected"]
Event(kind) == [kind |-> kind]
Text(kind, activity) == [kind |-> kind, of |-> activity]

-----------------------------------------------------------------------------
(***************************************************************************)
(* The hub, and other remotes.                                             *)
(***************************************************************************)
\* Another client, or a start the hub was still carrying out.
HubSwitches(activity) ==
    /\ HubEvent /\ activity \in hub_config \cup {NoActivity} /\ activity # hub_activity
    /\ hub_activity' = activity
    /\ UNCHANGED <<hub_config, snapshot_vars, start_queue, act_events, screen_vars,
                   tap_number, unreported>>

HubReconfigured ==
    /\ HubEvent
    /\ \E config \in (SUBSET Activities) \ {{}} :
          /\ config # hub_config /\ hub_config' = config
          /\ hub_activity' \in {hub_activity, NoActivity} \cap (config \cup {NoActivity})
    /\ UNCHANGED <<snapshot_vars, start_queue, act_events, screen_vars, tap_number,
                   unreported>>

-----------------------------------------------------------------------------
(***************************************************************************)
(* HarmonyConnection.                                                      *)
(***************************************************************************)
\* FetchCurrentActivity(): the event is published only for a change.
FetchCurrentActivity(events) ==
    /\ current_activity' = hub_activity
    /\ PostActivities((IF current_activity # hub_activity THEN <<Event("activity")>> ELSE <<>>) \o events)

\* The liveness probe.
Probe ==
    /\ hub_state = "connected" /\ current_activity # hub_activity
    /\ FetchCurrentActivity(<<>>)
    /\ UNCHANGED <<hub_vars, hub_state, has_activities, listed, start_queue, screen_vars,
                   tap_number, unreported, hub_events_left>>

\* The transport is lost: the loop goes round to kConnecting.
ConnectionLost ==
    /\ hub_state = "connected" /\ HubEvent
    /\ hub_state' = "connecting" /\ PostActivities(<<StateEvent("connecting")>>)
    /\ UNCHANGED <<hub_vars, has_activities, listed, current_activity, start_queue,
                   screen_vars, tap_number, unreported>>

\* A failed attempt, and the next one after the backoff.
HubConnectFails ==
    /\ hub_state = "connecting" /\ HubEvent
    /\ hub_state' = "error" /\ PostActivities(<<StateEvent("error")>>)
    /\ UNCHANGED <<hub_vars, has_activities, listed, current_activity, start_queue,
                   screen_vars, tap_number, unreported>>

ConnectAgain ==
    /\ hub_state \in {"error", "disconnected"}
    /\ hub_state' = "connecting" /\ PostActivities(<<StateEvent("connecting")>>)
    /\ UNCHANGED <<hub_vars, has_activities, listed, current_activity, start_queue,
                   screen_vars, tap_number, unreported, hub_events_left>>

\* ConnectAndFetchConfig(): the snapshot changes before the events that
\* announce it. An answer of the probe at its end that does not parse leaves
\* the current activity as it was.
FetchConfig ==
    /\ hub_state = "connecting" /\ hub_state' = "fetched"
    /\ has_activities' = TRUE /\ listed' = hub_config
    /\ FetchCurrentActivity(<<>>) \/ UNCHANGED <<current_activity, act_events>>
    /\ UNCHANGED <<hub_vars, start_queue, screen_vars, tap_number, unreported,
                   hub_events_left>>

\* The transport dies under that probe: the attempt fails with the new
\* configuration stored and not announced.
FetchConfigFails ==
    /\ hub_state = "connecting" /\ HubEvent
    /\ has_activities' = TRUE /\ listed' = hub_config
    /\ hub_state' = "error" /\ PostActivities(<<StateEvent("error")>>)
    /\ UNCHANGED <<hub_vars, current_activity, start_queue, screen_vars, tap_number,
                   unreported>>

Connected ==
    /\ hub_state = "fetched" /\ hub_state' = "connected"
    /\ PostActivities(<<StateEvent("connected"), Event("config")>>)
    /\ UNCHANGED <<hub_vars, has_activities, listed, current_activity, start_queue,
                   screen_vars, tap_number, unreported, hub_events_left>>

\* hub_host is cleared: ClearConfigIfPresent(), ClearPendingCommandsIfAny().
HubRemoved ==
    /\ hub_state \in {"connected", "error"} /\ HubEvent
    /\ hub_state' = "disconnected" /\ has_activities' = FALSE /\ listed' = {}
    /\ current_activity' = NoActivity /\ start_queue' = <<>>
    /\ PostActivities((IF has_activities THEN <<Event("config")>> ELSE <<>>)
            \o (IF start_queue # <<>> THEN <<Event("dropped")>> ELSE <<>>)
            \o <<StateEvent("disconnected")>>)
    /\ UNCHANGED <<hub_vars, screen_vars, tap_number, unreported>>

\* A long outage, in which the UI thread keeps up: what is queued passes
\* max_pending_command_age_.
CommandsAge ==
    /\ Offline /\ start_queue # <<>> /\ act_events = <<>>
    /\ start_queue' = [i \in DOMAIN start_queue |-> [start_queue[i] EXCEPT !.aged = TRUE]]
    /\ start_queue' # start_queue
    /\ UNCHANGED <<hub_vars, snapshot_vars, act_events, screen_vars, tap_number,
                   unreported, hub_events_left>>

Aged(queue) == SelectSeq(queue, LAMBDA c : c.aged)
Fresh(queue) == SelectSeq(queue, LAMBDA c : ~c.aged)

\* SendPendingCommands(): aged commands are dropped, the others reach the
\* hub, which carries out the last or ignores it; the probe behind them may
\* still read the old activity.
SendPendingCommands ==
    /\ hub_state = "connected" /\ start_queue # <<>> /\ start_queue' = <<>>
    /\ LET aged == Aged(start_queue)
           sent == Fresh(start_queue)
           report == IF aged # <<>> THEN <<Event("dropped")>> ELSE <<>>
       IN  /\ IF sent = <<>> THEN hub_activity' = hub_activity /\ PostActivities(report)
                                  /\ UNCHANGED current_activity
              ELSE /\ hub_activity' \in {hub_activity} \cup ({Last(sent).activity} \cap hub_config)
                   /\ \E read \in {hub_activity, hub_activity'} :
                        /\ current_activity' = read
                        /\ PostActivities((IF read # current_activity THEN <<Event("activity")>>
                                 ELSE <<>>) \o report)
           /\ unreported' = (unreported \/ \E i \in DOMAIN aged : aged[i].tap = tap_number)
    /\ UNCHANGED <<hub_config, hub_state, has_activities, listed, screen_vars, tap_number,
                   hub_events_left>>

\* A send of the batch fails: those before it may have reached the hub, the
\* rest is dropped, and the loop goes round to kConnecting.
SendFails ==
    /\ hub_state = "connected" /\ Fresh(start_queue) # <<>> /\ start_queue' = <<>> /\ HubEvent
    /\ hub_activity' \in {hub_activity}
           \cup ({c.activity : c \in ToSet(Front(Fresh(start_queue)))} \cap hub_config)
    /\ hub_state' = "connecting"
    /\ PostActivities(<<Event("dropped"), StateEvent("connecting")>>)
    /\ unreported' = (unreported \/ Last(start_queue).tap = tap_number)
    /\ UNCHANGED <<hub_config, has_activities, listed, current_activity, screen_vars,
                   tap_number>>

-----------------------------------------------------------------------------
(***************************************************************************)
(* The screen.                                                             *)
(***************************************************************************)
\* RestyleButtons(), given the tracker it finds: `buttons` are recoloured,
\* and the status line is left to a tap or failure that is showing.
RestyleButtons(buttons) ==
    /\ highlighted' = {current_activity} \cap buttons
    /\ act_status' = IF starting' # NoActivity \/ command_failed' THEN act_status
                     ELSE Text(IF Offline THEN "offline" ELSE "blank", NoActivity)

\* Mutants of SetTimer: a resend leaves the timer of an earlier start
\* running; a start after a failure does not arm it.
SetTimerKept(activity) == IF activity = current_activity THEN start_timer ELSE tap_number'
SetTimerOnce(activity) == IF activity = current_activity \/ command_failed THEN 0 ELSE tap_number'

\* A fresh start arms the timer anew, a resend pauses it.
SetTimer(activity) == IF activity = current_activity THEN 0 ELSE tap_number'

\* OnActivityButtonClicked() and the tracker's OnActivityTapped().
OnActivityTapped(activity) ==
    /\ tap_number < MaxActivityTaps /\ tap_number' = tap_number + 1
    /\ activity \in act_buttons
    /\ start_queue' = Append(start_queue, [activity |-> activity, aged |-> FALSE, tap |-> tap_number'])
    /\ starting' = activity /\ command_failed' = FALSE /\ unreported' = FALSE
    /\ act_status' = Text(IF activity = current_activity THEN "resent" ELSE "starting", activity)
    /\ start_timer' = SetTimer(activity)
    /\ highlighted' = {current_activity} \cap act_buttons
    /\ UNCHANGED <<hub_vars, snapshot_vars, act_events, act_buttons, hub_events_left>>

NextActivitiesEvent(kind) ==
    /\ act_events # <<>> /\ Head(act_events).kind = kind
    /\ act_events' = Tail(act_events)
    /\ UNCHANGED <<hub_vars, snapshot_vars, start_queue, tap_number, hub_events_left>>

\* Rebuild(), for HarmonyConfigUpdatedEvent.
RebuildActivities ==
    /\ NextActivitiesEvent("config")
    /\ act_buttons' = IF has_activities THEN listed ELSE {}
    /\ IF has_activities
       THEN /\ IF starting # NoActivity /\ starting \notin listed
               THEN starting' = NoActivity /\ command_failed' = FALSE /\ start_timer' = 0
                    /\ unreported' = FALSE
               ELSE UNCHANGED <<starting, command_failed, start_timer, unreported>>
            /\ RestyleButtons(listed)
       ELSE highlighted' = {} /\ UNCHANGED <<starting, command_failed, start_timer, act_status, unreported>>

\* HarmonyCurrentActivityChangedEvent: ClearPending().
OnCurrentActivityChanged ==
    /\ NextActivitiesEvent("activity")
    /\ starting' = NoActivity /\ command_failed' = FALSE /\ unreported' = FALSE
    /\ RestyleButtons(act_buttons) /\ UNCHANGED <<act_buttons, start_timer>>

\* OnConnectionStateChanged(): an offline state ends the wait, a connected
\* one takes the failure message back.
OnConnectionStateChanged ==
    /\ NextActivitiesEvent("state")
    /\ IF ~Head(act_events).connected /\ starting # NoActivity
       THEN starting' = NoActivity /\ start_timer' = 0 /\ UNCHANGED command_failed
       ELSE /\ command_failed' = (command_failed /\ ~Head(act_events).connected)
            /\ UNCHANGED <<starting, start_timer>>
    /\ RestyleButtons(act_buttons) /\ UNCHANGED <<act_buttons, unreported>>

\* OnCommandDropped(): the event does not say which command it was.
OnCommandDropped ==
    /\ NextActivitiesEvent("dropped")
    /\ IF starting = NoActivity THEN UNCHANGED <<starting, command_failed, act_status>>
       ELSE /\ starting' = NoActivity /\ command_failed' = TRUE
            /\ act_status' = Text("failed", starting)
    /\ UNCHANGED <<act_buttons, highlighted, start_timer, unreported>>

\* OnStartingTimeout() and OnStartingTimedOut().
OnStartingTimedOut ==
    /\ start_timer # 0 /\ start_timer' = 0
    /\ IF starting = NoActivity THEN UNCHANGED <<starting, command_failed, act_status>>
       ELSE /\ starting' = NoActivity /\ command_failed' = TRUE
            /\ act_status' = Text("no response", starting)
    /\ UNCHANGED <<hub_vars, snapshot_vars, start_queue, act_events, act_buttons,
                   highlighted, tap_number, unreported, hub_events_left>>

ActivitiesInit ==
    /\ hub_config \in (SUBSET Activities) \ {{}} /\ hub_activity = NoActivity
    /\ hub_state = "disconnected" /\ has_activities = FALSE /\ listed = {}
    /\ current_activity = NoActivity /\ start_queue = <<>> /\ act_events = <<>>
    /\ act_buttons = {} /\ highlighted = {} /\ starting = NoActivity
    /\ command_failed = FALSE /\ act_status = Text("blank", NoActivity) /\ start_timer = 0
    /\ tap_number = 0 /\ unreported = FALSE /\ hub_events_left = MaxHubEvents

HandleActivitiesEvent == \/ RebuildActivities \/ OnCurrentActivityChanged
                         \/ OnConnectionStateChanged \/ OnCommandDropped

ActivitiesNext ==
    \/ \E activity \in Activities \cup {NoActivity} : HubSwitches(activity)
    \/ HubReconfigured \/ Probe \/ ConnectionLost \/ HubConnectFails \/ ConnectAgain
    \/ FetchConfig \/ FetchConfigFails \/ Connected \/ HubRemoved
    \/ CommandsAge \/ SendPendingCommands \/ SendFails
    \/ \E activity \in Activities : OnActivityTapped(activity)
    \/ HandleActivitiesEvent \/ OnStartingTimedOut

\* The UI thread keeps draining its queue and running its timers.
ActivitiesSpec ==
    /\ ActivitiesInit /\ [][ActivitiesNext]_activities_vars
    /\ WF_activities_vars(HandleActivitiesEvent) /\ WF_activities_vars(OnStartingTimedOut)

-----------------------------------------------------------------------------
(***************************************************************************)
(* Properties.                                                             *)
(***************************************************************************)
\* Types, and the timer was armed by a tap that was a fresh start.
ActivitiesTypeOK ==
    /\ act_buttons \subseteq Activities /\ highlighted \subseteq act_buttons
    /\ starting \in Activities \cup {NoActivity} /\ start_timer \in 0..tap_number
    /\ starting # NoActivity /\ has_activities /\ act_events = <<>> /\ hub_state = "connected"
       => starting \in act_buttons

\* The status line and the tracker tell one story: a wait is shown exactly
\* while a tap is pending, a failure exactly while one is remembered.
StatusAgrees ==
    /\ (act_status.kind \in {"starting", "resent"}) = (starting # NoActivity)
    /\ starting # NoActivity => act_status.of = starting
    /\ (act_status.kind \in {"failed", "no response"}) = command_failed

\* The timeout only ever reports on the tap that armed it.
TimeoutOwnTap == start_timer # 0 /\ starting # NoActivity => start_timer = tap_number

\* Connected, and with every event handled, the screen lists the hub's
\* activities as last read and marks the current one.
ScreenShowsSnapshot ==
    hub_state = "connected" /\ act_events = <<>>
    => act_buttons = listed /\ highlighted = {current_activity} \cap listed

\* Taps, hub events and the start timer in any order: the status line tells
\* what the tracker knows, a timeout blames the tap it belongs to, and the
\* buttons are those of the hub.
ActivitiesSafe == ActivitiesTypeOK /\ StatusAgrees /\ TimeoutOwnTap /\ ScreenShowsSnapshot

\* "Starting ..." never stays: an activity change, a disconnect, a drop, the
\* next tap or the timer ends it.
StartingEnds == []<>(act_status.kind # "starting")

\* activities_screen.h says of a queued tap that ages out that it gets "an
\* explicit "couldn't start" message, not a silently-cleared one that leaves
\* the user with no idea the tap never took effect".
DropReported ==
    unreported /\ act_events = <<>> => act_status.kind \in {"failed", "no response"}
=============================================================================
