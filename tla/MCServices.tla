----------------------------- MODULE MCServices -----------------------------
(***************************************************************************)
(* The components that run beside the Harmony connection and KodiClient,   *)
(* one at a time: a behaviour chooses a subject and moves only its         *)
(* variables, so that the instance is the sum of theirs and not the        *)
(* product.  No property is about the state of two of them; what one needs *)
(* of another is part of its own module.                                   *)
(***************************************************************************)
EXTENDS PowerManager, DeviceBoot, WifiSetup, AppLifecycle, Logger, AdminAuth,
        SettingsApi, SettingsPages, WebSocketClient, WeatherProvider, KodiDiscovery,
        ActivitiesScreen

CONSTANT Subjects     \* the components to look at

VARIABLE subject      \* the one this behaviour is about

\* A critical battery, and the same one on a charger: the monitor and the OTA
\* gate tell no others apart, but for a closed gate, and UploadGate() may
\* refuse an upload anyway.
OnCharger == [percent |-> "critical", present |-> TRUE, external |-> TRUE]
MCBatteryReadings == {OnCharger, [OnCharger EXCEPT !.external = FALSE]}

\* Edits of a backup file, with entries a restore has to refuse and with two
\* entries for one key.
FileEntry(key, value) == [key |-> key, value |-> value]
MCEditedFiles ==
    {<<FileEntry("hub_host", "odd"), FileEntry("admin_pw_hash", "v1"),
       FileEntry("device_name", "odd")>>,
     <<Junk, FileEntry("../x", "v1"), FileEntry("hub_host", "v1")>>,
     <<FileEntry("device_name", "odd"), FileEntry("device_name", "v1")>>}

\* hub_host has a validator that refuses one of the two values.
MCValidFor ==
    [k \in SettingKeys \cup {ReservedKey} |->
        IF k = "hub_host" THEN {"v1"} ELSE SettingValues]

\* Which client runs on which target, for which service.
MCWsClients == {"host", "firmware"} \X {"harmony", "kodi"}

\* A browse hears one Kodi over IPv4, over IPv6, by hostname only and without
\* its TXT record, and a second one over IPv4 or with an unusable record.
Record(d, txt, a) == [device |-> d, uuid |-> txt, address |-> a]
MCRecords ==
    {Record("den", TRUE, a) : a \in {"v4", "v6", "hostname"}}
        \cup {Record("den", FALSE, "v4"),
              Record("hall", TRUE, "v4"), Record("hall", TRUE, "bad")}

\* The components that are not the subject start, and stay, in one state.
ServicesInit ==
    /\ subject \in Subjects
    /\ Init /\ (subject # "power" => reading = OnCharger)
    /\ BootInit
    /\ WifiInit /\ (subject # "wifi" => stored_creds = NoCreds)
    /\ LifeInit /\ (subject # "lifecycle" => life_target = "firmware")
    /\ LogInit
    /\ AuthInit /\ (subject # "auth" => stored_password = NoPassword)
    /\ SettingsInit
    /\ PagesInit
    /\ subject # "pages" => page_kind = "harmony" /\ device_stored = <<Empty>>
    /\ WsInit /\ (subject # "websocket" => ws_client = <<"firmware", "harmony">>)
    /\ WeatherInit
    /\ subject # "weather" =>
           location = [k \in LocationKeys |-> NoPlace] /\ weather_cache = NoPlace
    /\ DiscoveryInit
    /\ subject # "discovery" => host = None /\ instance_uuid = None
    /\ ActivitiesInit /\ (subject # "activities" => hub_config = Activities)

\* The subject is s, and nothing but s moves.
Only(s) ==
    /\ subject = s /\ UNCHANGED subject
    /\ s # "power" => UNCHANGED vars
    /\ s # "boot" => UNCHANGED boot_vars
    /\ s # "wifi" => UNCHANGED wifi_vars
    /\ s # "lifecycle" => UNCHANGED life_vars
    /\ s # "log" => UNCHANGED log_vars
    /\ s # "auth" => UNCHANGED auth_vars
    /\ s # "settings" => UNCHANGED settings_vars
    /\ s # "pages" => UNCHANGED page_vars
    /\ s # "websocket" => UNCHANGED ws_vars
    /\ s # "weather" => UNCHANGED weather_vars
    /\ s # "discovery" => UNCHANGED discovery_vars
    /\ s # "activities" => UNCHANGED activities_vars

ServicesNext ==
    \/ Only("power") /\ Next
    \/ Only("boot") /\ BootNext
    \/ Only("wifi") /\ WifiNext
    \/ Only("lifecycle") /\ LifeNext
    \/ Only("log") /\ LogNext
    \/ Only("auth") /\ AuthNext
    \/ Only("settings") /\ SettingsNext
    \/ Only("pages") /\ PagesNext
    \/ Only("websocket") /\ WsNext
    \/ Only("weather") /\ WeatherNext
    \/ Only("discovery") /\ DiscoveryNext
    \/ Only("activities") /\ ActivitiesNext

services_vars == <<subject, vars, boot_vars, wifi_vars, life_vars, log_vars, auth_vars,
                   settings_vars, page_vars, ws_vars, weather_vars, discovery_vars,
                   activities_vars>>

ServicesSpec == ServicesInit /\ [][ServicesNext]_services_vars

\* The fairness of each component, for the behaviours about it.
PowerFair ==
    /\ WF_vars(subject = "power" /\ TickStep(Timer))
    /\ \A t \in Tickers \ {Timer} : SF_vars(subject = "power" /\ TickStep(t))
    /\ WF_vars(subject = "power" /\ DrainQueue)
WifiFair ==
    /\ WF_wifi_vars(subject = "wifi" /\ DriverStep)
    /\ WF_wifi_vars(subject = "wifi" /\ OnEvent)
    /\ WF_wifi_vars(subject = "wifi" /\ TimerStep)
    /\ WF_wifi_vars(subject = "wifi" /\ WifiUiTask)
    /\ WF_wifi_vars(subject = "wifi" /\ HttpdTask)
    /\ WF_wifi_vars(subject = "wifi" /\ BootStep)
    /\ WF_wifi_vars(subject = "wifi" /\ PhoneLeaves)
LifecycleFair ==
    /\ \A thread \in BusThreads : WF_life_vars(subject = "lifecycle" /\ Deliver(thread))
    /\ WF_life_vars(subject = "lifecycle" /\ TimerStops)
    /\ WF_life_vars(subject = "lifecycle" /\ TaskFinishes)
    /\ WF_life_vars(subject = "lifecycle" /\ DestructorStep)
AuthFair ==
    /\ WF_auth_vars(subject = "auth" /\ ServeStatus)
    /\ WF_auth_vars(subject = "auth" /\ ApplyStatus)
WeatherFair ==
    /\ WF_weather_vars(subject = "weather" /\ PollStep)
    /\ WF_weather_vars(subject = "weather" /\ WidgetUpdate)
ActivitiesFair ==
    /\ WF_activities_vars(subject = "activities" /\ HandleActivitiesEvent)
    /\ WF_activities_vars(subject = "activities" /\ OnStartingTimedOut)

ServicesFairSpec ==
    /\ ServicesSpec
    /\ PowerFair /\ WifiFair /\ LifecycleFair /\ AuthFair /\ WeatherFair
    /\ ActivitiesFair
    /\ WF_log_vars(subject = "log" /\ WorkerStep)
    /\ WF_discovery_vars(subject = "discovery" /\ LoopNext)

\* A device that is left alone ends up connected to what was configured: the
\* Wi-Fi code keeps trying, the weather shown becomes that of the stored
\* place, and KodiClient tries the stored host.
ConnectivityProgress == KeepsTrying /\ SettledShown /\ SavedHostTried

\* Nobody waits for good: ~AppCore() for its threads, ReadAll() for the
\* worker, a page with a dead session in the app, a tap for its activity.
WaitersAnswered == TearDownEnds /\ FlushAnswered /\ RefusedLeavesApp /\ StartingEnds
=============================================================================
