----------------------------- MODULE WifiSetup -----------------------------
(***************************************************************************)
(* Wi-Fi bring-up and recovery: firmware/main/wifi_setup.cpp with the      *)
(* WifiReconnectPolicy and PendingWifiCredentials it is built on, the      *)
(* Touch UI's WifiSetupScreen and the callbacks homedeck.cpp puts between  *)
(* them.                                                                   *)
(*                                                                         *)
(* Four tasks share the state: the ESP-IDF event loop (OnEvent), the       *)
(* esp_timer task (reconnect and recovery timers), the setup form's httpd  *)
(* worker and the UI task.  g_state_mutex is never held across a blocking  *)
(* call, so a handler is one step per locked section, and whatever it does *)
(* after the unlock is a later step taken on values that may be stale.     *)
(* The esp_wifi driver on the co-processor is external: its events arrive  *)
(* through the event loop, in order.                                       *)
(***************************************************************************)
EXTENDS Naturals, Sequences

CONSTANTS FormCreds,        \* what a visitor or the user may submit
          ValidCreds,       \* ... that passes IsValidWifiCredentials()
          GoodCreds,        \* ... that the home network accepts
          NoCreds,          \* empty configuration, no request
          MaxSetupAttempts, \* kMaxSetupReconnectAttempts
          RecoveryAttempts, \* kNormalModeRecoveryAttempts
          MaxQueued,        \* bound: events and UI posts the tasks lag behind
          MaxDisturbances   \* bound: submissions, phones joining, outages,
                            \* failing calls and resets, together

ASSUME WifiSetupAssumption ==
    /\ GoodCreds \subseteq ValidCreds /\ ValidCreds \subseteq FormCreds
    /\ NoCreds \notin FormCreds
    /\ MaxSetupAttempts \in Nat /\ RecoveryAttempts \in Nat
    /\ MaxSetupAttempts < RecoveryAttempts
    /\ MaxQueued \in Nat /\ MaxDisturbances \in Nat

VARIABLES
    stored_creds,      \* station configuration in the co-processor's flash
    radio,             \* "off", "sta" or "apsta": the driver's mode
    station,           \* "idle", "trying" or "up"
    ap_station,        \* a phone is joined to our access point
    wifi_events,       \* queue of the default event loop
    handling,          \* OnEvent() after it released g_state_mutex
    attempts,          \* WifiReconnectPolicy::attempts_
    ap_client_count, initial_provisioning, setup_server,
    reconnect_timer, recovery_timer,   \* armed?
    recovery,          \* where StartRecoveryAccessPoint() is
    boot,              \* where ConnectToWifi() is
    applying,          \* ApplyWifiCredentials() per calling task
    pending, last_id,  \* PendingWifiCredentials
    wifi_ui,           \* PostToUiThread() work for the setup screen
    prompt,            \* the request WifiSetupScreen shows
    connect_error,     \* error_label_ is not empty
    wifi_screen,       \* the setup screen is the one shown
    unretried,         \* esp_wifi_connect() failed where nothing retries it
    wifi_budget        \* what is left of MaxDisturbances

g_state  == <<attempts, ap_client_count, initial_provisioning, setup_server>>
timers   == <<reconnect_timer, recovery_timer>>
requests == <<pending, last_id>>
screen   == <<prompt, connect_error, wifi_screen>>
driver   == <<stored_creds, radio, station>>
wifi_vars == <<driver, ap_station, wifi_events, handling, g_state, timers, recovery,
               boot, applying, requests, wifi_ui, screen, unretried,
               wifi_budget>>

Nothing == [kind |-> "none"]
Tasks == {"httpd", "ui"}      \* callers of ApplyWifiCredentials()

\* WifiUiCallbacks
UiCallbacks == {"setup_needed", "connected", "failed", "pending"}

Disturb == wifi_budget > 0 /\ wifi_budget' = wifi_budget - 1

-----------------------------------------------------------------------------
\* WifiReconnectPolicy.  attempts_ is only compared with the two thresholds,
\* so it is counted up to one past the larger.
IsValidWifiCredentials(c) == c \in ValidCreds

GivesUp == initial_provisioning /\ attempts >= MaxSetupAttempts

Counted == IF attempts > RecoveryAttempts THEN attempts ELSE attempts + 1

ShouldOfferRecovery(n) == ~initial_provisioning /\ n = RecoveryAttempts

RecoveryRetriesAreSlowed == ~initial_provisioning /\ setup_server # "none"

RetryDelay(n, clients) ==
    IF ~RecoveryRetriesAreSlowed \/ n <= MaxSetupAttempts THEN "normal"
    ELSE IF clients > 0 THEN "hold" ELSE "slow"

-----------------------------------------------------------------------------
\* esp_wifi_connect(): refused by a stopped driver or an empty configuration,
\* and an RPC that may time out; a no-op while an attempt or a link exists.
esp_wifi_connect_ok ==
    /\ radio # "off" /\ stored_creds # NoCreds
    /\ station' = IF station = "idle" THEN "trying" ELSE station
    /\ unretried' = FALSE /\ UNCHANGED wifi_budget

esp_wifi_connect_fails ==
    /\ \/ (radio = "off" \/ stored_creds = NoCreds) /\ UNCHANGED wifi_budget
       \/ Disturb
    /\ UNCHANGED station

\* The driver takes far longer for any of its steps than the tasks take to
\* handle an event or a post, so they are never more than MaxQueued behind.
TasksKeepUp == Len(wifi_events) < MaxQueued /\ Len(wifi_ui) < MaxQueued

\* The driver's side of an attempt, of an outage and of our access point.
AttemptSucceeds ==
    /\ station = "trying" /\ stored_creds \in GoodCreds /\ TasksKeepUp
    /\ station' = "up"
    /\ wifi_events' = Append(wifi_events, "got_ip")
    /\ UNCHANGED <<stored_creds, radio, ap_station, handling, g_state, timers,
                   recovery, boot, applying, requests, wifi_ui, screen,
                   unretried, wifi_budget>>

\* Any attempt may fail: the network may be off the air.
AttemptFails ==
    /\ station = "trying" /\ TasksKeepUp
    /\ station' = "idle"
    /\ wifi_events' = Append(wifi_events, "disconnected")
    /\ UNCHANGED <<stored_creds, radio, ap_station, handling, g_state, timers,
                   recovery, boot, applying, requests, wifi_ui, screen,
                   unretried, wifi_budget>>

LinkLost ==
    /\ station = "up" /\ TasksKeepUp /\ Disturb
    /\ station' = "idle"
    /\ wifi_events' = Append(wifi_events, "disconnected")
    /\ UNCHANGED <<stored_creds, radio, ap_station, handling, g_state, timers,
                   recovery, boot, applying, requests, wifi_ui, screen,
                   unretried>>

PhoneJoins ==
    /\ radio = "apsta" /\ ~ap_station /\ TasksKeepUp /\ Disturb
    /\ ap_station' = TRUE
    /\ wifi_events' = Append(wifi_events, "ap_joined")
    /\ UNCHANGED <<driver, handling, g_state, timers, recovery,
                   boot, applying, requests, wifi_ui, screen, unretried>>

PhoneLeaves ==
    /\ ap_station /\ ap_station' = FALSE /\ TasksKeepUp
    /\ wifi_events' = Append(wifi_events, "ap_left")
    /\ UNCHANGED <<driver, handling, g_state, timers, recovery,
                   boot, applying, requests, wifi_ui, screen, unretried,
                   wifi_budget>>

\* A mode without the access point, or a stopped driver, drops its client.
DropPhone(more) ==
    /\ ap_station' = FALSE
    /\ wifi_events' = (IF ap_station THEN Append(wifi_events, "ap_left")
                                     ELSE wifi_events) \o more

-----------------------------------------------------------------------------
\* OnEvent(), on the event-loop task: the locked section of each case ...
NextEvent(e) == /\ handling = Nothing /\ wifi_events # <<>>
                /\ Head(wifi_events) = e
                /\ wifi_events' = Tail(wifi_events)

OnStaStart ==
    /\ NextEvent("sta_start")
    /\ \/ esp_wifi_connect_ok
       \/ esp_wifi_connect_fails /\ unretried' = TRUE
    /\ UNCHANGED <<stored_creds, radio, ap_station, handling, g_state, timers,
                   recovery, boot, applying, requests, wifi_ui, screen>>

OnDisconnected ==
    /\ NextEvent("disconnected")
    /\ LET n == IF GivesUp THEN attempts ELSE Counted
       IN  /\ attempts' = n
           /\ handling' = [kind    |-> "disconnected",
                           give_up |-> GivesUp,
                           offer   |-> ~GivesUp /\ setup_server = "none"
                                       /\ ShouldOfferRecovery(n),
                           delay   |-> RetryDelay(n, ap_client_count)]
    /\ UNCHANGED <<driver, ap_station, ap_client_count, initial_provisioning,
                   setup_server, timers, recovery, boot, applying, requests,
                   wifi_ui, screen, unretried, wifi_budget>>

OnApJoined ==
    /\ NextEvent("ap_joined")
    /\ ap_client_count' = ap_client_count + 1
    /\ handling' = [kind |-> "ap_joined"]
    /\ UNCHANGED <<driver, ap_station, attempts, initial_provisioning, setup_server,
                   timers, recovery, boot, applying, requests, wifi_ui, screen,
                   unretried, wifi_budget>>

OnApLeft ==
    /\ NextEvent("ap_left")
    /\ LET n == IF ap_client_count = 0 THEN 0 ELSE ap_client_count - 1
       IN  /\ ap_client_count' = n
           /\ handling' = [kind |-> "ap_left", resume |-> n = 0]
    /\ UNCHANGED <<driver, ap_station, attempts, initial_provisioning, setup_server,
                   timers, recovery, boot, applying, requests, wifi_ui, screen,
                   unretried, wifi_budget>>

OnGotIp ==
    /\ NextEvent("got_ip")
    /\ handling' = [kind |-> "got_ip", stop |-> setup_server # "none"]
    /\ attempts' = 0 /\ ap_client_count' = 0
    /\ initial_provisioning' = FALSE /\ setup_server' = "none"
    /\ reconnect_timer' = FALSE
    /\ UNCHANGED <<driver, ap_station, recovery_timer, recovery, boot, applying,
                   requests, wifi_ui, screen, unretried, wifi_budget>>

\* ... and what it does after the unlock.
AfterDisconnected ==
    /\ handling.kind = "disconnected"
    /\ IF handling.give_up
       THEN wifi_ui' = Append(wifi_ui, [kind |-> "failed"]) /\ UNCHANGED timers
       ELSE /\ recovery_timer' = (recovery_timer \/ handling.offer)
            /\ reconnect_timer' = (handling.delay # "hold")
            /\ UNCHANGED wifi_ui
    /\ handling' = Nothing
    /\ UNCHANGED <<driver, ap_station, wifi_events, g_state, recovery, boot, applying,
                   requests, screen, unretried, wifi_budget>>

AfterApJoined ==
    /\ handling.kind = "ap_joined"
    /\ reconnect_timer' = (reconnect_timer /\ ~RecoveryRetriesAreSlowed)
    /\ handling' = Nothing
    /\ UNCHANGED <<driver, ap_station, wifi_events, g_state, recovery_timer, recovery,
                   boot, applying, requests, wifi_ui, screen, unretried,
                   wifi_budget>>

AfterApLeft ==
    /\ handling.kind = "ap_left"
    /\ reconnect_timer' = (\/ reconnect_timer
                           \/ handling.resume /\ RecoveryRetriesAreSlowed)
    /\ handling' = Nothing
    /\ UNCHANGED <<driver, ap_station, wifi_events, g_state, recovery_timer, recovery,
                   boot, applying, requests, wifi_ui, screen, unretried,
                   wifi_budget>>

\* httpd_stop() waits for the form's worker; leaving AP+STA may fail.  Then
\* the pending request is dropped and on_connected() posted.
AfterGotIp ==
    /\ handling.kind = "got_ip"
    /\ handling.stop => applying["httpd"] = Nothing
    /\ \/ /\ handling.stop
          /\ radio' = "sta" /\ DropPhone(<<>>) /\ UNCHANGED wifi_budget
       \/ /\ IF handling.stop THEN Disturb ELSE UNCHANGED wifi_budget
          /\ UNCHANGED <<radio, ap_station, wifi_events>>
    /\ pending' = NoCreds
    /\ wifi_ui' = Append(wifi_ui, [kind |-> "connected"])
    /\ handling' = Nothing
    /\ UNCHANGED <<stored_creds, station, g_state, timers, recovery,
                   boot, applying, last_id, screen, unretried>>

OnEvent == \/ OnStaStart \/ OnDisconnected \/ OnApJoined \/ OnApLeft \/ OnGotIp
           \/ AfterDisconnected \/ AfterApJoined \/ AfterApLeft \/ AfterGotIp

-----------------------------------------------------------------------------
\* The esp_timer task runs both callbacks, one at a time and in the order of
\* their deadlines: the recovery timer, started with no delay in the step
\* that also restarts the reconnect timer, comes first.
\* Mutant of ReconnectTimerCallback: a failed call is not rescheduled.
ReconnectTimerOnce ==
    /\ recovery = "idle" /\ reconnect_timer /\ ~recovery_timer
    /\ reconnect_timer' = FALSE
    /\ \/ esp_wifi_connect_ok
       \/ esp_wifi_connect_fails /\ UNCHANGED unretried
    /\ UNCHANGED <<stored_creds, radio, ap_station, wifi_events, handling, g_state,
                   recovery_timer, recovery, boot, applying, requests, wifi_ui,
                   screen>>

ReconnectTimerCallback ==
    /\ recovery = "idle" /\ reconnect_timer /\ ~recovery_timer
    /\ \/ reconnect_timer' = FALSE /\ esp_wifi_connect_ok
       \/ /\ reconnect_timer' = TRUE
          /\ esp_wifi_connect_fails /\ UNCHANGED unretried
    /\ UNCHANGED <<stored_creds, radio, ap_station, wifi_events, handling, g_state,
                   recovery_timer, recovery, boot, applying, requests, wifi_ui,
                   screen>>

\* StartRecoveryAccessPoint(): stop the driver, ...
RecoveryStop ==
    /\ recovery = "idle" /\ recovery_timer
    /\ recovery_timer' = FALSE
    /\ \/ Disturb /\ UNCHANGED <<radio, station, ap_station, wifi_events, recovery>>
       \/ /\ radio' = "off" /\ recovery' = "stopped" /\ UNCHANGED wifi_budget
          /\ station' = "idle"
          /\ DropPhone(IF station = "idle" THEN <<>> ELSE <<"disconnected">>)
    /\ UNCHANGED <<stored_creds, handling, g_state, reconnect_timer,
                   boot, applying, requests, wifi_ui, screen, unretried>>

\* ... start it again as access point and station (a failure leaves it
\* stopped), ...
RecoveryStart ==
    /\ recovery = "stopped"
    /\ \/ /\ radio' = "apsta" /\ recovery' = "started" /\ UNCHANGED wifi_budget
          /\ wifi_events' = Append(wifi_events, "sta_start")
       \/ Disturb /\ recovery' = "idle" /\ UNCHANGED <<radio, wifi_events>>
    /\ UNCHANGED <<stored_creds, station, ap_station, handling, g_state, timers, boot,
                   applying, requests, wifi_ui, screen, unretried>>

\* ... serve the form and tell the Touch UI, or drop the access point.
RecoveryServe ==
    /\ recovery = "started" /\ recovery' = "idle"
    /\ \/ /\ setup_server' = "recovery"
          /\ wifi_ui' = Append(wifi_ui, [kind |-> "setup_needed"])
          /\ UNCHANGED <<radio, ap_station, wifi_events, wifi_budget>>
       \/ /\ Disturb /\ radio' = "sta" /\ DropPhone(<<>>)
          /\ UNCHANGED <<setup_server, wifi_ui>>
    /\ UNCHANGED <<stored_creds, station, handling, attempts,
                   ap_client_count, initial_provisioning, timers, boot,
                   applying, requests, screen, unretried>>

-----------------------------------------------------------------------------
\* HandlePostConnect(), on the form's httpd worker: initial_provisioning is
\* read under the lock, and acted on after it.
HandlePostConnect(c) ==
    /\ setup_server # "none" /\ ap_station /\ applying["httpd"] = Nothing
    /\ IsValidWifiCredentials(c) /\ Disturb
    /\ applying' = [applying EXCEPT !["httpd"] =
                      [kind |-> IF initial_provisioning THEN "config" ELSE "submit",
                       creds |-> c, shown |-> c]]
    /\ UNCHANGED <<driver, ap_station, wifi_events, handling, g_state, timers,
                   recovery, boot, requests, wifi_ui, screen, unretried>>

HandleRecoveryRequest ==
    /\ applying["httpd"].kind = "submit"
    /\ pending' = applying["httpd"].creds /\ last_id' = last_id + 1
    /\ wifi_ui' = Append(wifi_ui, [kind |-> "pending", id |-> last_id + 1,
                                   creds |-> pending'])
    /\ applying' = [applying EXCEPT !["httpd"] = Nothing]
    /\ UNCHANGED <<driver, ap_station, wifi_events, handling, g_state, timers,
                   recovery, boot, screen, unretried, wifi_budget>>

\* ApplyWifiCredentials(): esp_wifi_set_config() and, if it succeeds, the
\* locked reset of the attempt count; a failure is reported to the caller ...
ApplyConfig(t) ==
    /\ applying[t].kind = "config"
    /\ \/ /\ stored_creds' = applying[t].creds /\ attempts' = 0
          /\ applying' = [applying EXCEPT ![t].kind = "connect"]
          /\ UNCHANGED <<connect_error, wifi_budget>>
       \/ /\ Disturb
          /\ applying' = [applying EXCEPT ![t] = Nothing]
          /\ connect_error' = (connect_error \/ t = "ui")
          /\ UNCHANGED <<stored_creds, attempts>>
    /\ UNCHANGED <<radio, station, ap_station, wifi_events, handling, ap_client_count,
                   initial_provisioning, setup_server, timers, recovery, boot,
                   requests, wifi_ui, prompt, wifi_screen, unretried>>

\* ... then the pending retry is cancelled and a connection attempted.
ApplyConnect(t) ==
    /\ applying[t].kind = "connect"
    /\ reconnect_timer' = FALSE
    /\ \/ esp_wifi_connect_ok
       \/ esp_wifi_connect_fails /\ unretried' = TRUE
    /\ applying' = [applying EXCEPT ![t] = Nothing]
    /\ UNCHANGED <<stored_creds, radio, ap_station, wifi_events, handling, g_state,
                   recovery_timer, recovery, boot, requests, wifi_ui, screen>>

-----------------------------------------------------------------------------
\* The UI task: what the callbacks posted, in order, and the person's taps.
UiIdle == applying["ui"] = Nothing

\* ShowPendingRequest() and ClearPendingRequest()
PromptAfter(post) == CASE post.kind = "pending"   -> post
                       [] post.kind = "connected" -> Nothing
                       [] OTHER                   -> prompt

\* Navigation: GoTo(kWifiSetup) and GoHome()
ScreenAfter(post) == CASE post.kind \in {"pending", "setup_needed"} -> TRUE
                       [] post.kind = "connected"                   -> FALSE
                       [] OTHER                                     -> wifi_screen

UiRuns ==
    /\ UiIdle /\ wifi_ui # <<>> /\ wifi_ui' = Tail(wifi_ui)
    /\ prompt' = PromptAfter(Head(wifi_ui))
    /\ wifi_screen' = ScreenAfter(Head(wifi_ui))
    /\ connect_error' = (connect_error \/ Head(wifi_ui).kind = "failed")
    /\ UNCHANGED <<driver, ap_station, wifi_events, handling, g_state, timers,
                   recovery, boot, applying, requests, unretried, wifi_budget>>

\* OnConnectClicked(): the person enters credentials on the device itself.
OnConnectClicked(c) ==
    /\ UiIdle /\ wifi_screen /\ Disturb
    /\ connect_error' = ~IsValidWifiCredentials(c)
    /\ applying' = IF IsValidWifiCredentials(c)
                   THEN [applying EXCEPT !["ui"] = [kind |-> "config",
                                                    creds |-> c, shown |-> c]]
                   ELSE applying
    /\ UNCHANGED <<driver, ap_station, wifi_events, handling, g_state, timers,
                   recovery, boot, requests, wifi_ui, prompt, wifi_screen,
                   unretried>>

\* Mutant of Taken: whatever is pending is taken.
TakenWhatever == pending

\* Decide(true) and ApproveRecoveryCredentials(): PendingWifiCredentials::
\* Take() hands the request out only under the id that was shown.
Taken == IF pending # NoCreds /\ prompt.id = last_id THEN pending ELSE NoCreds

OnAllowClicked ==
    /\ UiIdle /\ prompt # Nothing /\ wifi_screen
    /\ prompt' = Nothing
    /\ IF Taken = NoCreds THEN UNCHANGED <<pending, applying>>
       ELSE /\ pending' = NoCreds
            /\ applying' = [applying EXCEPT !["ui"] =
                              [kind |-> "config", creds |-> Taken,
                               shown |-> prompt.creds]]
    /\ UNCHANGED <<driver, ap_station, wifi_events, handling, g_state, timers,
                   recovery, boot, last_id, wifi_ui, connect_error,
                   wifi_screen, unretried, wifi_budget>>

OnDenyClicked ==
    /\ UiIdle /\ prompt # Nothing /\ wifi_screen
    /\ prompt' = Nothing /\ pending' = NoCreds
    /\ UNCHANGED <<driver, ap_station, wifi_events, handling, g_state, timers,
                   recovery, boot, applying, last_id, wifi_ui, connect_error,
                   wifi_screen, unretried, wifi_budget>>

-----------------------------------------------------------------------------
\* ConnectToWifi(): connect with what is stored, or start the access point
\* and then its form; both leave the event loop to do the rest.
ConnectToWifi ==
    /\ boot = "start"
    /\ IF stored_creds # NoCreds
       THEN radio' = "sta" /\ boot' = "done" /\ UNCHANGED initial_provisioning
       ELSE radio' = "apsta" /\ boot' = "serve" /\ initial_provisioning' = TRUE
    /\ wifi_events' = Append(wifi_events, "sta_start")
    /\ UNCHANGED <<stored_creds, station, ap_station, handling, attempts,
                   ap_client_count, setup_server, timers, recovery, applying,
                   requests, wifi_ui, screen, unretried, wifi_budget>>

StartSetupAccessPoint ==
    /\ boot = "serve" /\ boot' = "done"
    /\ setup_server' = "setup"
    /\ wifi_ui' = Append(wifi_ui, [kind |-> "setup_needed"])
    /\ UNCHANGED <<driver, ap_station, wifi_events, handling, attempts,
                   ap_client_count, initial_provisioning, timers, recovery,
                   applying, requests, screen, unretried, wifi_budget>>

\* Everything but the co-processor's flash is lost in a restart.
Booted(creds) ==
    /\ stored_creds' = creds /\ wifi_screen' = (creds = NoCreds)
    /\ radio' = "off" /\ station' = "idle" /\ ap_station' = FALSE
    /\ wifi_events' = <<>> /\ handling' = Nothing
    /\ attempts' = 0 /\ ap_client_count' = 0
    /\ initial_provisioning' = FALSE /\ setup_server' = "none"
    /\ reconnect_timer' = FALSE /\ recovery_timer' = FALSE
    /\ recovery' = "idle" /\ boot' = "start"
    /\ applying' = [t \in Tasks |-> Nothing]
    /\ pending' = NoCreds /\ last_id' = 0
    /\ wifi_ui' = <<>> /\ prompt' = Nothing
    /\ connect_error' = FALSE /\ unretried' = FALSE

\* POST /api/wifi/reset: esp_wifi_restore(), which may fail, and a restart,
\* from a timer that clears the response.  The Web UI is up once connected.
WifiResetAndReboot ==
    /\ station = "up" /\ Disturb
    /\ \/ Booted(NoCreds)
       \/ Booted(stored_creds)

-----------------------------------------------------------------------------
WifiInit ==
    /\ stored_creds \in GoodCreds \cup {NoCreds}
    /\ wifi_screen = (stored_creds = NoCreds)
    /\ radio = "off" /\ station = "idle" /\ ap_station = FALSE
    /\ wifi_events = <<>> /\ handling = Nothing
    /\ attempts = 0 /\ ap_client_count = 0
    /\ initial_provisioning = FALSE /\ setup_server = "none"
    /\ reconnect_timer = FALSE /\ recovery_timer = FALSE
    /\ recovery = "idle" /\ boot = "start"
    /\ applying = [t \in Tasks |-> Nothing]
    /\ pending = NoCreds /\ last_id = 0
    /\ wifi_ui = <<>> /\ prompt = Nothing
    /\ connect_error = FALSE /\ unretried = FALSE
    /\ wifi_budget = MaxDisturbances

DriverStep == AttemptSucceeds \/ AttemptFails
TimerStep == ReconnectTimerCallback \/ RecoveryStop \/ RecoveryStart \/ RecoveryServe
ApplyStep(t) == ApplyConfig(t) \/ ApplyConnect(t)
WifiUiTask == UiRuns \/ ApplyStep("ui")
HttpdTask == HandleRecoveryRequest \/ ApplyStep("httpd")
BootStep == ConnectToWifi \/ StartSetupAccessPoint

WifiNext ==
    \/ DriverStep \/ OnEvent \/ TimerStep \/ WifiUiTask \/ HttpdTask \/ BootStep
    \/ LinkLost \/ PhoneJoins \/ PhoneLeaves
    \/ \E c \in FormCreds : HandlePostConnect(c) \/ OnConnectClicked(c)
    \/ OnAllowClicked \/ OnDenyClicked \/ WifiResetAndReboot

WifiFairness ==
    /\ WF_wifi_vars(DriverStep) /\ WF_wifi_vars(OnEvent)
    /\ WF_wifi_vars(TimerStep) /\ WF_wifi_vars(WifiUiTask)
    /\ WF_wifi_vars(HttpdTask) /\ WF_wifi_vars(BootStep)
    /\ WF_wifi_vars(PhoneLeaves)

WifiSpec == WifiInit /\ [][WifiNext]_wifi_vars /\ WifiFairness

-----------------------------------------------------------------------------
(***************************************************************************)
(* Properties.                                                             *)
(***************************************************************************)
WifiTypeOK ==
    /\ stored_creds \in ValidCreds \cup {NoCreds}
    /\ radio \in {"off", "sta", "apsta"} /\ station \in {"idle", "trying", "up"}
    /\ {ap_station, initial_provisioning, reconnect_timer,
        recovery_timer, connect_error, wifi_screen, unretried} \subseteq BOOLEAN
    /\ attempts \in 0..(RecoveryAttempts + 1) /\ ap_client_count \in Nat
    /\ setup_server \in {"none", "setup", "recovery"}
    /\ recovery \in {"idle", "stopped", "started"}
    /\ \A i \in DOMAIN wifi_ui : wifi_ui[i].kind \in UiCallbacks
    /\ boot \in {"start", "serve", "done"}
    /\ pending \in ValidCreds \cup {NoCreds} /\ last_id \in 0..MaxDisturbances

\* Nothing of the Wi-Fi code is in progress on any task.
WifiQuiet == /\ boot = "done" /\ wifi_events = <<>> /\ handling = Nothing
             /\ recovery = "idle" /\ ~recovery_timer
             /\ applying = [t \in Tasks |-> Nothing] /\ wifi_ui = <<>>

\* Allow applies the network the person was shown, never one submitted to
\* the open recovery form between the prompt and the tap.
ApprovedAsShown ==
    applying["ui"] # Nothing => applying["ui"].creds = applying["ui"].shown

\* With no form up, no request stays pending and no prompt stays on screen.
NoOrphanRequest ==
    WifiQuiet /\ setup_server = "none" => pending = NoCreds /\ prompt = Nothing

\* A device that is not connected is never silently idle: a retry is armed,
\* or a joined phone holds it, or first-run setup gave up and says so.  The
\* only exceptions are the two calls of esp_wifi_connect() whose failure is
\* logged and not retried.
NeverSilentlyIdle ==
    WifiQuiet /\ station = "idle"
        => \/ reconnect_timer \/ unretried
           \/ ap_station /\ setup_server # "none"
           \/ initial_provisioning /\ (connect_error \/ stored_creds = NoCreds)

\* Setup, recovery and reconnects of wifi_setup.cpp and wifi_recovery.cpp,
\* whose handlers run on five tasks: what is applied is what was approved, no
\* request outlives its form, and the station is never left idle in silence.
WifiSafe == WifiTypeOK /\ ApprovedAsShown /\ NoOrphanRequest /\ NeverSilentlyIdle

\* A provisioned device keeps trying until it is connected, if its driver
\* runs and no unretried failure ended the retries; a phone that joins the
\* recovery network, which holds the retries, is assumed to leave it. A radio
\* that StartRecoveryAccessPoint() stopped and could not start again is left
\* out, although wifi_setup.cpp:471-476 expects retries in the background.
KeepsTrying ==
    <>[](/\ stored_creds # NoCreds /\ radio # "off"
         /\ ~initial_provisioning /\ ~unretried)
        => []<>(station # "idle")
=============================================================================
