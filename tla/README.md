# HomeDeck: TLA+ models, checks and proofs

HomeDeck is the firmware (and desktop simulator) of a wall-mounted home
controller: an LVGL touch UI, a Web UI served by an embedded HTTP server, and
modules that talk to a Logitech Harmony hub, a Kodi media centre and a weather
service.  This directory holds TLA+ models of its core logic, TLC
configurations that check them on small instances, and TLAPS proofs of the
most important invariants.

Paths below are relative to the repository; `core/`, `ui/` and `platform/` are
directories of its `src/`.

## The system

| Component | State it keeps | Operations | Talks to |
|---|---|---|---|
| EventBus, UI dispatch (`core/event_bus.cpp`, `ui/ui_dispatch.cpp`) | subscriber lists, FIFO of posted closures | Subscribe, SubscribeUi, Publish, DrainQueue | everybody |
| HarmonyConnection (`core/harmony_connection.cpp`) | state, hub config, current activity, command queue, socket, last address | Start/Stop, StartActivity, Press/Hold/Release, TriggerReconnect, one connection thread | Storage, hub, UI and Web UI |
| ConnectionWake, RetryBackoff | trigger flag; current delay | Trigger, Wait, ClearTriggerLocked; NextDelay, ResetAttempts | both connection loops |
| HarmonyNotificationBridge | one latch | two event handlers | notifications |
| DevicesScreen, ActivitiesScreen, press and start trackers | list shown, command view, pending tap | rebuild, show, press handlers | HarmonyConnection |
| KodiClient (`core/kodi_client.cpp`) | snapshot (connection, now playing, volume, busy flag, discovered instances), command and library queues, socket, poll and notification bookkeeping | Start/Stop, playback commands, library requests, TriggerReconnect, one connection thread with JSON-RPC correlation, reconcile polls and paged listings | Storage, mDNS, Kodi, screens and Web UI |
| PowerManager (`core/power_manager.cpp`) | power state, brightness, sleep veto, OTA flag | three event handlers, brightness slider | clock, monitors, OTA, display |
| Clock, battery and network monitors | one latch each | the tick | PowerManager, notifications |
| OTA routes and gate, boot | a process-wide upload mutex, two flash slots, a reboot timer | upload, reboot, boot, confirm | PowerManager through events, the bootloader |
| AdminAuthService, Web UI shell | sessions, failed attempts, lockout; the page shown | setup, Login, Logout, Validate, ChangePassword, status | every route |
| Storage, settings routes, settings pages | settings, cache; forms and requests in flight | get, set, erase, backup, restore; load, save, reconnect | modules |
| Logger | queue, current and rotated log | Log, worker, rotation, ReadAll | Storage |
| Weather provider | last reading, cache, location | poll, refresh | Storage, widget |
| Wi-Fi setup, reconnect policy, pending credentials | attempts, pending credentials, access point, two timers | events of the driver, submit, allow, deny | Storage, setup screen |
| WebSocket clients | partial message, bounded queue, open or closed | Connect, SendText, ReceiveText, Close | both connection threads |
| AppCore, Task, Timer | members in order of declaration | construction, Start, destruction | everybody |
| Kodi widget, now-playing and remote screens | what each displays | Refresh at an event, buttons, taps | KodiClient |
| Kodi browse screens, LazyLoad, virtual list | what is open, rows, staleness; button pool | show, tap, back, answers; fill, scroll, tap | KodiClient |
| Quick settings, notification sound and banner | slider positions, stored values; playing flag; dismiss timer | drag, release, notify | PowerManager, Storage |
| Battery sensor | last ambiguous voltage sample | percent, external power, battery present | monitors, OTA gate, status bar |
| Dashboard grid | occupied cells, row template, widget cells | AddWidget | widgets, LVGL |

What is hard about it: four kinds of threads meet (the UI thread, a background
thread per module, HTTP workers, the clock's timer thread).  Synchronous
subscribers run on the publisher's thread, UI subscribers later on the UI
thread, and most event handlers re-read shared state instead of using the
event's content.  The connection loops block for seconds in network calls
while settings and queues change under them.  `PROJECT.json` lists these
hazards line by line with the properties that cover them.

## Modules

| Module | Models | Composes |
|---|---|---|
| `ConnectionWake` | `core/connection_wake.h`: the trigger flag and the precedence of wake reasons | |
| `RetryBackoff` | `core/retry_backoff.h` | |
| `HarmonyConnection` | `core/harmony_connection.cpp`, with the Web UI's save and reconnect requests | extends both above |
| `CommandChannel` | abstract specification of what becomes of a command | refined by `HarmonyConnection` and `KodiClient` |
| `HarmonyNotificationBridge` | `core/harmony_notification_bridge.cpp` | extends `HarmonyConnection` |
| `DevicesScreen` | `ui/screens/devices_screen.cpp` behind the UI dispatch queue | extends `HarmonyConnection` |
| `PowerManager` | `core/power_manager.cpp`, `clock.cpp`, `latched_threshold_monitor.cpp`, `critical_battery_monitor.cpp`, `ota_routes.cpp`, `ota_gate.h` and the queue between them | |
| `KodiClient` | `core/kodi_client.cpp` on a connection: loop, calls, polls, notifications, commands, library requests | extends `ConnectionWake`, `RetryBackoff` |
| `KodiListing` | the page loop of `CallLibrary()` | |
| `KodiDiscovery` | `ResolveTarget()`, `DeduplicateInstances()` and the Web UI's save (`webui/src/lib/KodiSettings.svelte`) | extends `ConnectionWake` |
| `DeviceBoot` | `firmware/main/homedeck.cpp`: slots, upload, scheduled reboot, boot and confirmation | |
| `WifiSetup` | `firmware/main/wifi_setup.cpp`, `core/wifi_reconnect_policy.h`, `core/pending_wifi_credentials.h`, `ui/screens/wifi_setup_screen.cpp` | |
| `AppLifecycle` | `core/event_bus.cpp`, `ui/ui_dispatch.cpp`, `ui/app_core.cpp`, tasks and timers of both platforms | |
| `Logger` | `core/logger.cpp` over the cache store | |
| `AdminAuth` | `core/admin_auth_service.cpp`, `webui/src/App.svelte`, `PasswordForm.svelte`, `api.ts` | |
| `SettingsApi` | `core/settings_routes.cpp`, `core/storage.cpp`, the stores, `BackupSettings.svelte` | |
| `SettingsPages` | `DeviceNameSettings.svelte`, `HarmonySettings.svelte`, `KodiSettings.svelte`, `core/harmony_routes.cpp`, `core/kodi_routes.cpp` | |
| `WebSocketClient` | `platform/host/websocket_client.cpp`, `platform/firmware/websocket_client.cpp`, `platform/websocket_message_assembler.h` | |
| `WeatherProvider` | `core/weather_provider.cpp`, `ui/weather_widget.cpp`, `WeatherSettings.svelte` | |
| `ActivitiesScreen` | `ui/screens/activities_screen.cpp`, `ui/activity_start_tracker.cpp` | |
| `CommandButtons` | the command view of `ui/screens/devices_screen.cpp`, `ui/command_button_press_tracker.cpp` | |
| `KodiBrowse` | the five Kodi browse screens, `ui/lazy_load.h`, `ui/screen_loader.cpp`, the client's library queue | |
| `KodiControls` | `ui/kodi_widget.cpp`, `ui/screens/now_playing_screen.cpp`, `ui/screens/kodi_remote_screen.cpp` over the client's snapshot and events | |
| `VirtualList` | `ui/virtual_list.cpp`, `ui/virtual_list_window.h` | |
| `QuickSettings` | `ui/quick_settings_panel.cpp`, `core/notification_sound.cpp`, `ui/notification_banner.cpp` | |
| `DashboardGrid` | `ui/dashboard_grid.cpp`, `ui/grid_occupancy.h` | |
| `BatteryReader` | `platform/firmware/battery_reader.cpp`, `core/latched_threshold_monitor.cpp` with both monitors, `core/ota_gate.h`, the battery part of `ui/status_bar.cpp` | |
| `MCKodi` | `KodiClient`'s two queues for TLC, one per behaviour | extends it |
| `MCServices`, `MCScreens` | instances of the modules above for TLC, one component per behaviour | extend them |
| `HarmonyProofs` | theorems about `HarmonyConnection`, the bridge and the devices screen | extends them |
| `KodiClientProofs`, `WebSocketProofs` | theorems about `KodiClient` and about `WebSocketClient` | extend it |
| `KodiLibraryProofs` | theorems about `KodiListing` and `KodiBrowse` | extends them |
| `LayoutProofs` | theorems about `DashboardGrid`, `VirtualList` and `CommandButtons` | extends them |
| `DeviceProofs` | theorems about `PowerManager`, `WifiSetup` and `AppLifecycle` | extends them |
| `ServicesProofs` | theorems about `DeviceBoot`, `AdminAuth`, `SettingsApi`, `WeatherProvider`, `SettingsPages`, `Logger` and `KodiDiscovery` | extends them |
| `ScreensProofs` | theorems about `KodiControls`, `QuickSettings`, `ActivitiesScreen`, `BatteryReader` | extends them |

The variables keep the code's names (`last_hub_host` is `last_hub_host_`).
Definitions introduced by "Mutant of ..." are faulty variants used to show that
a property notices the fault; no specification uses them.

### HarmonyConnection

One step is one critical section or one blocking network call of
`ConnectionLoop()`; `pc` says where the thread is.  `host` is the address read
at the top of the pass, `last_hub_host` the one last attempted.  A hub is
represented by its address: `devices` is the hub the device list came from,
`ws` the hub the socket is open to, `hub_id` the hub whose handshake was
answered.  JSON building and parsing is abstracted to these, with an
unparseable or missing answer as a possible outcome of every receive.  Other
threads act between any two steps: the UI thread enqueues commands, Web UI
workers save `hub_host` and trigger a reconnect (two separate requests, so
`dirty` remembers a save whose trigger has not arrived), the owner starts and
stops the thread.  Time is abstracted: a wait may end by its timeout at any
moment, and `stale`, chosen when a batch is taken, says how many commands at
its head are older than `max_pending_command_age_`.

The history variables `delivered`, `superseded`, `owed` and `told` record the
fate of each command.  They are what `CommandChannel` is about: a command is
accepted once, and delivered in order and at most once, or superseded by newer
ones at the cap, or lost and announced by a `HarmonyCommandDroppedEvent`.

### PowerManager

The tick runs on the timer thread (and once on the main thread, in
`Clock::Start()`): evaluating the battery, testing the latch, setting it,
publishing and posting the tick are separate steps, because nothing locks the
latch.  `overlap` is a history variable: whether one thread has found an edge
while another was between its test and its publishing of one, and whether the
last edge found was such a one.  Upload handlers run on HTTP workers, serialised
by a mutex taken with `try_to_lock`.  Everything reaches PowerManager through
`ui_queue`; its handlers run whole, on the UI thread.  A `reading` is what the
battery reader reports: a level (`ok` opens the OTA gate, `critical` is below
the critical threshold), a pack or none, external power or none.  Inactivity
has three levels (below the idle timeout, past it, past the sleep timeout).

### KodiClient, KodiListing, KodiDiscovery

`KodiClient` is the thread on and around one connection.  A step is one frame
received, one send or one wait.  Kodi is part of the environment: it plays,
pauses, stops and changes its volume at any moment, pushing a notification each
time, and answers requests in order with its state at that moment, as late as
it likes.  `Call()` recognises its reply by id; the model tags a request
`awaited` as long as the running call waits for it and `other` afterwards, so a
reply that comes after its call was given up is one nobody waits for.
`call` names the call in progress and with it the caller to return to.
`now_playing` keeps title, show and playback state; season, episode and media
type behave like the show, positions like nothing the properties tell apart.
`stop_seen` stands for comparing `player_stop_count_` with its earlier value.
How a target is resolved and which items a page holds is left to the other two
modules: here a target is found or not, and a page is the last or not.

`KodiListing` is one listing: a library of `size` items and a Kodi that honours
`limits`, rejects them with an error or ignores them, and reports a total or
not.  A first reply that holds no list at all (`refused`) is passed on and
parses to an empty listing; the properties leave it out, because the code
treats it so deliberately (line 501).

`KodiDiscovery` is the choice of a target while a save is under way.  The Web UI
writes `host`, then `instance_uuid`, then asks for a reconnect; each request may
be the one that fails.  The loop reads `host` before the browse and
`instance_uuid` after it.  A record heard by the browse is one step
(`HearRecord`), in which `DeduplicateInstances()` folds it into what was heard
before, so no recursion over the whole answer is needed.

### DeviceBoot and WifiSetup

`DeviceBoot` is the life of two flash slots.  An upload writes the other slot,
verifies it and selects it, three steps with power failing between any two; a
reboot is scheduled by one request and may fire during the next upload.  The
bootloader tries a selected slot once; `FinalizeBootAfterWifiConnected()`
confirms it when the Web UI is up, which an image in `Serving` reaches and one
that is merely `Complete` does not.

`WifiSetup` has one step per section locked by `g_state_mutex`; `handling`,
`applying` and `recovery` hold what a task decided under the lock and does
after it.  The driver's events come in order, at any time, and its calls may
fail.  `unretried` remembers the two calls of `esp_wifi_connect()` whose
failure nothing retries.

### AppLifecycle

A publish copies the subscribers, then calls them one by one; a UI subscriber
is posted, and looked up again when the UI thread gets to it.  Callbacks of two
subscribers publish themselves.  `bus_late` records calls of subscribers that
no longer exist, with the thread that made them.  The entry points never
destroy `AppCore`; tests do, and the destructors' promises are about them.

### Logger, SettingsApi, SettingsPages, WeatherProvider

Every store write is a step that may fail; the cache file of the firmware is
written in place, so it may also be left cut off.  `Logger` numbers entries and
gives each one unit of the cap; its worker takes the queue one item at a time,
as `Pop()` and `TryPop()` do, so entries and flush requests may arrive in the
middle of a batch.  `SettingsApi` answers requests in steps, a
restore entry by entry, and `disturbed` says whose entries another writer
touched.  `SettingsPages` follows one page: a request is sent, served by the
device and answered in separate steps and may be lost in between; a click may
fire twice.  `WeatherProvider` tags a reading with the coordinates it was
fetched for, so that mixtures of two places can be told apart.

### AdminAuth and WebSocketClient

`AdminAuth` counts `guesses` since the last success, with the time of the last
one, independently of the service's own counter.  Time advances in units of
which the lockout and a session last two.  `WebSocketClient` cuts a frame in
two cells on the wire, so that a read may find half a frame; `returned` is the
last message handed to the caller, or `Garbage` if it was no message of the
peer.

### The screens

`ActivitiesScreen` keeps apart what the hub holds, what the connection last
read and what the screen shows.  `CommandButtons` identifies a button by its
position, as a recycled LVGL object is to the press tracker; a touch may go on
or be dropped by LVGL (`TouchLost`) when the view is hidden under it.  `KodiBrowse`
follows one of the five screens; a row set remembers what it answers (`of`) and
the connection it came from (`session`).  `VirtualList` computes which rows are
inside the view independently of the code's window arithmetic.  `QuickSettings`
lets the power state change at will; how it changes is `PowerManager`'s
subject.  `DashboardGrid` makes every turn of the placement loop a step, so that
a loop that would not end is a scan that leaves the grid.

`KodiControls` keeps of the client the order in which the connection loop writes
its snapshot, and which writes are followed by an event; a write and its event
are two steps.  `kc_pointless` records a press of a control that the client
could not act on while no event was on its way to the screen.

`BatteryReader` puts a world of cable, charger and pack under the three queries
of the sensor and takes every I2C read as a step that may fail.  A pack that
neither charges nor discharges carries no current; with no pack the charger's
output reads anything.  The timer's tick runs the low and then the critical
monitor; any two of timer, HTTP worker and UI thread meet in a behaviour.
`PowerManager` starts from what the critical monitor says.

## Runs

| Run | Checks |
|---|---|
| `harmony_commands` | `NoSilentLoss`, `ImplementsChannel` (refinement of `CommandChannel`), `LossAnnounced` |
| `harmony_address` | `SocketMatchesPhase`, `SnapshotOfOneHub`, `SaveNotStranded`, the bridge's `OutageAnnounced` and `RetriesStayQuiet`, and `HarmonyProgress` (`StopCompletes`, `SavedHostTried`) |
| `kodi_now_playing` | `NowPlayingAgrees`, `ScreenNotBehind` while playback and volume change |
| `kodi_queues` | `CommandsImplementChannel` (refinement of `CommandChannel`), and `LibrarySafe`: `BusyMeansUnanswered`, `SilenceEndsConnection`, and `ScreenNotBehind` with error replies |
| `kodi_liveness` | `KodiProgress` (`StopCompletes`, `DeadLinkNoticed`) |
| `services` | the safety of ten components: `PowerManager`, `DeviceBoot`, `WifiSetup`, `AppLifecycle`, `Logger`, `AdminAuth`, `SettingsApi`, `SettingsPages`, `WebSocketClient`, `ActivitiesScreen` |
| `progress` | the liveness of six of them, and liveness and safety of `WeatherProvider` and `KodiDiscovery` |
| `screens` | the safety of `DevicesScreen`, `CommandButtons`, `VirtualList`, `KodiBrowse`, `QuickSettings`, `KodiControls`, `KodiListing`, `DashboardGrid`, and of `BatteryReader` |
| `log_view` | finds `ViewComplete` violated |
| `kodi_songs` | finds `SongsOfOpenAlbum` violated |
| `kodi_widget` | finds `OfflineReadsNotReachable` violated |
| `quick_brightness` | finds `BrightnessReadBack` violated |

`services`, `progress` and `screens` look at one component at a time: a
behaviour picks a `subject` and moves only its variables, so the instance is
the sum of the components' and not their product.  A component that is not the
subject rests in one of its initial states, where its invariants hold.
Components whose interaction matters are composed in a module of their own
instead (the bridge and the devices screen with `HarmonyConnection`; queue,
monitors, uploads and `PowerManager`; the browse screens with the client's
queue; pages with routes and a service).  Deadlock is not checked there: with
its bounds used up, a component stops.

The three runs check one conjunction of named parts per component; besides the
parts listed, those of a component with a type invariant hold it too.

| Component | Property | Parts |
|---|---|---|
| power | `PowerSafe` | `ErrorMirrorsBattery` (but for an overlap of the last edges), `UpdatingMirrorsUpload`, `ScreenUsable` |
| | `PowerSteps` | `RealTransitions` (until edges overlap), `DimmingDims` |
| | `PowerProgress` | `CriticalReached`, `ErrorCleared`, `SleeperWakes` |
| boot | `BootSafe` | `WorkingImageKept`, `UnusableRollsBack`: no upload, power failure or dead image leaves the device without a working image that is reached |
| Wi-Fi | `WifiSafe` | `ApprovedAsShown`, `NoOrphanRequest`, `NeverSilentlyIdle` |
| lifetime | `LifeSafe` | `UiNeverLate`, `TimerNeverLate`, `FirstTickReachesAll`, `UiInOrder` |
| log | `LogSafe` | `LogInOrder`, `NewestStored`, `FlushComplete` |
| sign-in | `AuthSafe` | `OneSetupWins`, `LoginLiftsLockout` |
| | `GuessesThrottled` | |
| settings | `SettingsSafe` | `StoredValid`, `RestoreAccounts`, `RestoreReproduces`, `NameNeverAhead` |
| pages | `PagesSafe` | `SavedIsStored`, `PartialIsTold` (after a save that failed half-way, its first key is in effect), `SaveIsHeard` |
| WebSocket | `MessagesIntact` | whole messages only, `InOrder`, but for what `ReadsFailed`; the bounds always |
| weather | `WeatherSafe` | `RefreshNotLost`, `WidgetNotBehind` |
| discovery | `DiscoverySafe` | `NeverGuesses`, `SelectedFound`, `SavedTargetUsed` |
| activities | `ActivitiesSafe` | `StatusAgrees`, `TimeoutOwnTap`, `ScreenShowsSnapshot` |
| several | `ConnectivityProgress` | `KeepsTrying` (Wi-Fi), `SettledShown` (weather), `SavedHostTried` (discovery) |
| | `WaitersAnswered` | `TearDownEnds` (lifetime), `FlushAnswered` (log), `RefusedLeavesApp` (sign-in), `StartingEnds` (activities) |
| device list | `ListOfCurrentHub` | |
| command buttons | `ButtonsSafe` | `EveryCommandOnce`, `TouchSends` (complete when released; only a beginning when dropped by LVGL) |
| list rows | `VListSafe` | `RowsBound`, `TapSelectsShown`, `OneAnswer` |
| Kodi browse | `BrowseSafe` | `LoadingIsComing`, `RowsOfOpened`, `RowsOfSession`, `TimeoutRetried` |
| quick settings | `QuickSafe` | `BacklightAgrees` (fully lit from a boot to the first change), `SlidersTrue`, `ChoiceSurvives`, `NoEcho`, `FullWindow` |
| Kodi controls | `ControlsSafe` | `ScreensCurrent`, `NoPointlessPress` of the now-playing and remote screens |
| Kodi listing | `ListingSafe` | `WholeOrMarked`, `NoItemTwice` |
| dashboard | `GridSafe` | `WidgetsApart`, `ScanBounded`, `RowsDescribed`, `FirstFit` |
| battery | `ReadingsTrue` | `PackSeenAgain`, `GateJustified`, `LatchesTrue`, `LabelTrue`, of installed packs |

Bounds.  `harmony_commands` has one hub, a cap of 2 and 3 commands of three
kinds: enough for an eviction, for a batch with a head and a tail on both sides
of a stop or a failure, for a release behind a failed press, and for a command
arriving while another batch is in flight.  `harmony_address` needs two hubs
and one command; saves are unbounded.  It runs the connection together with
the bridge, which only reads what the connection publishes.

`kodi_now_playing` has a movie that only its notification names (add-on
playback) and an episode with a show, any initial playback, two changes (such
as a stop and another start within one poll) and two tolerated timeouts, so
that a poll may be abandoned, its late replies arrive in the next one, and the
connection survive.  In `kodi_queues` a behaviour issues either three commands of
all four kinds (needs the player or not, exempt from staleness or not) into a
queue of two, to a Kodi that plays or is idle at the client's initial volume, or
a listing of up to two pages, twice, with error replies, of one that pauses or is
idle at another volume; the two queues meet in `kodi_liveness` only.
`kodi_liveness` has one command and one request for a paged or an unpaged
listing, so that a stop meets every kind of call.

`services`: two ticking threads, so that edges of the battery overlap; two upload
workers, so that the mutex matters, and two places in the UI queue besides the
clock's; two readings, a critical battery with and without a charger (the
monitor and the gate tell no others apart but for a closed gate, and
`UploadGate` may refuse an upload anyway); three uploads of four images into two slots,
so that a slot is overwritten after a rollback; three disturbances of the
Wi-Fi (lost links, joining phones, submissions), which a prompt, a second
submission and a tap need, with tasks one event behind; four publishes, so that a nested one waits behind
another thread's; five entries in two files of three, with two faults, so that
both files rotate and a second rotation meets what a failed one left behind; two
workers, three logins and a limit of two failures, so that a lockout starts
during a hash; two writes around a restore of three entries; three clicks and
faults on a page; four frames, two to a message, into a queue of two, by either
backend and for either caller; two taps and two changes of the hub.
`progress` has smaller numbers of the same, because liveness costs more per
state, and ticks on the timer's thread alone, but two fetches of the sign-in
state where `services` has one, Wi-Fi tasks that lag two events behind, and
sleep vetoes, which no module asks for yet; one change of location from any
earlier one, with a restart; two records of six heard by a browse, and one save.
`screens`: a UI thread that lags one event behind; four commands with keys of
both layouts and two touches, the second of which meets what a dropped first one
left; seven rows in a view of two; four taps, one reconnect, one request of
another screen and a queue of two; a slider position that only the volume has
(0) and one that both have, and stored values below and above what the sliders
allow; every library size up to one beyond the cap of four pages of three, with
every kind of server; four widgets of every footprint up to two rows, and ones
that are too small or too wide; items told apart by playback and seeking (the
theorem covers titles too), and a UI thread that lags one event behind each Kodi
screen; packs that are critical, low for an update and full, two changes of the
supply and one failing read.  The Harmony commands, which the device list does
not depend on, are left to `harmony_commands`.

Fairness.  `HarmonyConnection`: weak fairness of the connection thread only.
Every network call has a timeout and every wait a delay, so the thread always
goes on; nothing is assumed of users, the Web UI or the owner.
`KodiClient`: weak fairness of the thread as for Harmony, and strong fairness
of starting a poll, because the reconcile interval elapses again and again
while the loop waits; nothing is assumed of Kodi, not even that it answers.
`PowerManager`: weak fairness of the timer thread, whose timer is periodic, and
of the draining of the dispatch queue, which an LVGL timer of period 0 does;
strong fairness of the one tick of any other thread, because posting never waits
in the program while the model's bounded queue may hold it up.  Nothing is
assumed of uploads, the battery or the user.
`WifiSetup`: the tasks go on, armed timers fire, an attempt ends one way or
the other, and a phone that joined the recovery network leaves it some day.
`AppLifecycle`: threads go on with a delivery they have begun, and the main
thread with its destructors.  `Logger`: the worker.  `AdminAuth`: status
requests are served and their answers applied.  `WeatherProvider`: the poll
task, whose interval elapses, and the widget's update.  `KodiDiscovery`: the
loop.  `ActivitiesScreen`: the UI thread handles its queue, and its timer
fires.  Nothing is assumed of users, hubs, servers or the network.

`PowerProgress` is checked with the ticks of the timer thread alone; the overlap
of its edges with the main thread's at start-up is in `services`.

## Where code and documentation disagree

`log_view` shows that `ReadAll()` may return a view without entries that were
logged before the call: it reads the two files in two calls, and a rotation in
between moves entries behind its back (`core/logger.cpp:116`).

`kodi_songs` shows songs of an album left before under the album that is open:
albums are filtered by artist, songs by nothing
(`ui/screens/kodi_music_screen.cpp:60`).

`kodi_widget` shows the dashboard's tile reading "Not configured" for as long as
a saved Kodi stays off after a boot: resolving the target writes
`target_configured` without an event, and setting the state it already has
publishes none either (`core/kodi_client.cpp:157`).

`quick_brightness` shows that a reboot lights the display fully, whatever
brightness was chosen and stored: the constructor of `PowerManager` only keeps
the value (`core/power_manager.cpp:36`), and nothing sets the backlight, switched
on at 100 % before (`firmware/main/homedeck.cpp:431`), until the slider is dragged
or the power state changes.  `docs/architecture/power-management.md:238-241` says
that the brightness is read back on boot rather than reset to 100 %.

Met while modelling, without a run of their own:
* Two threads test, set and publish the critical-battery latch at start-up
  without a lock (`core/latched_threshold_monitor.cpp:19`).  If both find the same
  edge it is published twice, and PowerManager publishes a `kError` that is no
  change, against "publishes only on a real transition"
  (`core/power_manager.h:31`).  If they find opposite edges these may be published
  in the other order than they were set: the main thread sets the latch, the
  timer's clears it and publishes that, then the main thread publishes the first
  edge; `kError` then stays although the battery has recovered, until the next
  edge, against `docs/architecture/power-management.md:186-190`.  `overlap` in
  `RealTransitions` and in `ErrorMirrorsBattery` excepts these edges and no others.
* An open command view stays when the hub is changed under it, so its buttons
  send the old hub's actions to the new one; `ui/screens/devices_screen.h:57-62`
  accepts that, and no property is about it.
* A pending start of an activity is cleared by the disconnect that makes its
  command wait, so when the command ages out the drop is not reported
  (`ui/activity_start_tracker.cpp:22`), against the "explicit "couldn't start"
  message" of `ui/screens/activities_screen.h:46`: `DropReported`.
* After a save, `loadStatus()` returns at once if an earlier status request is
  in flight, and that one's answer, taken before the save, is shown
  (`webui/src/lib/HarmonySettings.svelte:132`): `StatusOfSaved`.
* When the second write of a save fails, the Kodi page says "Saved the new
  selection, but failed to clear the previous one"
  (`webui/src/lib/KodiSettings.svelte:140`).  With a discovered instance chosen it
  is the other way round: the first write cleared the host, the selection was
  not stored.  `SelectionIsSaved` takes the message at its word and fails;
  `PartialIsTold` says what is true in either case.
* A host WebSocket client that failed still reads when asked
  (`platform/host/websocket_client.cpp:468`), and `KodiClient`'s pump does not
  look at `IsOpen()` between frames, so in the simulator the rest of a frame
  that was lost may be taken for a message: `ReadsFailed` in `MessagesIntact`.
* A failing `esp_wifi_connect()` on station start or after accepted credentials
  ends the retries (`firmware/main/wifi_setup.cpp:761`): `unretried`.
* `StartRecoveryAccessPoint()` stops the driver before it sets it up again; if
  that fails the radio stays off, where `firmware/main/wifi_setup.cpp:471-476`
  expects retries in the background: `radio = "off"` in `KeepsTrying`.
* A touch that LVGL reports as lost, as it may when the hub's removal hides the
  view under the finger, sends no release (`ui/screens/devices_screen.cpp:366`
  registers no handler for it), and a long press stays pressed, although
  `ui/screens/devices_screen.h:129-133` says that a release always gets sent:
  `finger.lost` in `TouchSends`.
* A module's own task may call a copied synchronous subscriber after it is gone
  while `AppCore` is destroyed, which the entry points never do
  (`core/event_bus.cpp:85`): `LifeSafe` is about the UI thread and the timer.
* An evicted library request leaves its screen loading until it is shown again
  (`core/kodi_client.cpp:890`): `evicted` in `LoadingIsComing`.
* A rotation whose second write fails leaves the entries of the backup in the
  current file too, where newer ones then follow them, and a write that is cut
  off loses entries: `LogInOrder` allows such a common beginning and such gaps
  and nothing else (`core/logger.cpp:200`).
* A queued stop command, documented as exempt from being dropped, is dropped
  if Kodi is too busy to name its active player in time
  (`core/kodi_client.cpp:975`): `SendNext` with `player_id = "unanswered"`.
* A poll that was answered at first and timed out later counts as one of the
  three "that get no answer at all" (`core/kodi_client.cpp:535`): compare
  `consecutive_poll_timeouts` with `silent_polls` in `PollCallFails`.
* From a Kodi that ignores `limits`, more items than the cap are cut without
  `truncated` (`Oversized`), and exactly one page without a total is merged
  again and again up to the cap (`Repeats`); `WholeOrMarked` and `NoItemTwice`
  except these two cases and no others.
* When the current sensor cannot be read, `IsBatteryPresent()` answers no and
  `IsExternalPowerConnected()` therefore yes, documented as "confirmed present"
  (`platform/battery_reader.h:17`), so the OTA gate opens whatever the charge
  (`core/ota_gate.h:34`): `excused` in `GateJustified`.
* That a missing pack is not taken for an installed one rests on the open rail
  moving half a volt between any two samples, also between those of one tick,
  which the monitors take within milliseconds
  (`platform/firmware/battery_reader.cpp:164`).  The properties of
  `BatteryReader` are about installed packs only; with none, two close samples
  make the status bar show the charge symbol that `ui/status_bar.cpp:48-55`
  means to avoid.
* `FindPlacement()` is documented as sparse placement, "not the denser packing
  that would backfill gaps" (`ui/grid_occupancy.h:92`).  It scans from row 0 for
  every widget and so does backfill: `FirstFit`.

## Proofs

The theorems hold for every value of the constants allowed by the named
assumptions of the modules (`HarmonyAssumption`, `KodiAssumption`, ...), which
TLC evaluates in every run.  Each one has the same shape: an inductive
invariant, a lemma per action that may disturb it, and a last step that
combines them.  What the invariants add to the properties is this.

`HarmonyProofs`
* `TypeCorrect`: `TypeOK` is inductive.
* `NoSilentLossHolds`: the invariant needed is `LossInv`: a lost command is
  unannounced only inside `SendPendingCommands()`, and then one of the two
  flags that make it report is set; outside, both flags are clear and the batch
  is empty.
* `SocketMatchesPhaseHolds`: `SocketInv` adds that between reading the setting
  and `Connect()` the address of the pass is the one attempted, and that
  `hub_id` is set by the handshake of this pass.
* `SnapshotOfOneHubHolds`: `SnapshotInv` adds what holds in the window between
  reading a changed address and clearing the old hub's data; it rests on
  `SocketInv`.
* `SaveNotStrandedHolds`: the property is inductive together with `TypeOK`.
* `ImplementsChannelHolds`: initial states map to initial states and every step
  to a step or a stutter of `CommandChannel`.  `FateInv` says that queue and
  batch are in order, the batch older than the queue and newer than everything
  delivered, and that `SwapPending()` never finds a batch that is not through.
* `OutageAnnouncedHolds`, `RetriesStayQuietHolds`: by `BridgeInv` a set latch
  stands for an announcement of the address last attempted, and is reset before
  another is attempted; between two passes the last announcement is of that
  address or was overtaken by a connection.
* `ListOfCurrentHubHolds`: by `ListInv` a UI thread that has caught up lists
  nothing or the snapshot's devices, and exactly those once the configuration
  was announced.

`DeviceProofs`
* `TypeCorrect`, `ScreenUsableHolds`.
* `UpdatingMirrorsUploadHolds`: `UploadInv` adds that only the holder of the
  mutex is past `try_to_lock`, so an upload that announces its end is the only
  one writing.  Lemmas on `Settles` say what appending to and taking from the
  queue do to the value its events lead to.
* `ErrorMirrorsBatteryHolds`, for any number of ticking threads: `BatteryInv` adds,
  of an execution whose last edge overlapped no other, that at most one thread is
  on an edge and one about to publish agrees with the latch (`LatchInv`), and,
  until the first overlap, that the queue settles on the last edge published and
  an edge under way differs from it (`EdgeInv`).  When a thread finds an edge
  with no other thread on one, the first is established again from nothing.
* `PowerSafeHolds` puts them together.
* `PowerStepsHold`: `EdgesInv` says that the queued edges of one kind alternate,
  starting with the opposite of what PowerManager knows (`Alternates`), those of
  the battery until two overlap, so none of them is handled as a repetition.
* `LifeSafeHolds`: by `LifeInv` the subscriber lists are a function of the members
  that exist; a thread has at most two deliveries nested, the inner one of a
  notification; an armed timer or a tick in flight means that every member
  exists; the first tick was heard or has the rest of its subscribers still to
  reach; and of one thread's events those delivered to a UI subscriber are older
  than those queued, and these older than the ones it still has to post.
* `WifiSafeHolds`: a request shown, or about to be, is the pending one if it has
  its id (`ShownInv`); requests exist only while a form is up or `OnEvent()`
  takes it down, and then a "connected" is posted behind them (`OrphanInv`).
  `IdleInv` lists what sets an idle station going again, an event, a timer or a
  call on its way, or says why it is idle.  It rests on three facts about the
  event queue: what `OnEvent()` decided under the lock still holds when it acts
  (`HandlingInv`), a link that is announced and gone has its end queued behind
  it (`LinkInv`), and the phone's events alternate, so a client count with no
  event left to handle is a phone that is still joined (`PhoneInv`).

`KodiClientProofs`
* `SilenceEndsConnectionHolds`: `SilenceInv` says that polls without an answer
  are among those that timed out, and that reaching the limit makes the loop
  leave.
* `ScreenNotBehindHolds`: `ScreenInv` says that the snapshot differs from what
  screens were told to read only while a connection is primed, which ends with
  a change of state, or while a poll owes an event.
* `LibrarySafeHolds`: the types of the whole client, and `BusyInv`, that a call
  in progress on an open socket has its request with Kodi or its reply on the
  way (`Awaiting`).
* `CommandsImplementChannelHolds`: as for Harmony, with the same `FateInv`.
* `NowPlayingAgreesHolds`, under `BadReplies = FALSE`, as in `kodi_now_playing`:
  an error reply to Player.GetActivePlayers shows nothing while something plays.
  By `PlayInv` a frame on its way tells what Kodi still plays unless a later one
  says otherwise, and two frames agree on the item unless playback starts or
  stops between them (`Faithful`); title and show on the screens are those of the
  item the next frames are about, or blank (`Identified`); what a poll has read
  stays true until its end, or a notification or `stop_seen` tells it otherwise
  (`PollInv`); and outside a poll, with nothing about playback on its way, the
  screens agree with Kodi (`ShownInv`).

`ServicesProofs`
* `BootSafeHolds`: `BootInv` says which slot is confirmed while the other one is
  new, on trial or being written, and that `write_image()` runs only in a
  confirmed image, into the other slot.
* `AuthSafeHolds`, `GuessesThrottledHolds`: `ThrottleInv` says that every
  attempt admitted to the hash is counted and that at the limit the lockout
  dates from the last of them.
* `SettingsSafeHolds`: `RestoreSound` relates a restore in progress to the store:
  the entries before the next one are accounted for, and if all were applied
  and nobody else wrote, the store holds them, of several entries for one key
  the last.
* `WeatherSafeHolds`: `WeatherInv` says that after a refresh which no poll has
  to answer any more, what the poll has read so far is what is stored.
* `PagesSafeHolds`: `SaveProgress` says that the writes before the one in flight,
  and that one once it is served, are stored; `SaveHeard` that the reconnect
  request of the last save was served or is on its way.
* `LogSafeHolds`: by `LogInv` the current file begins with a part of the backup
  and is newer from there on (`Joined`), the queue is newer than the worker's
  batch and this newer than everything handled, the newest entry is written, in
  the batch or queued, and a flush request stands behind what it was asked for.
  The proof did not go through for an earlier `LogInOrder`, which two failed
  rotations with three entries to a file do break; property and bounds are those
  corrected since.
* `DiscoverySafeHolds`: by `DiscoveryInv` the instances are distinct, were heard,
  and one of them is as good as every usable record heard (`Folded`); with no
  save under way and its trigger consumed, a resolution that has read `host`
  works on what is saved (`ResolvesSaved`).

`ScreensProofs`
* `ControlsSafeHolds`: the silent write of `ConnectAndPrime()` happens only
  while the state is kConnecting (`ConnectingPhase`), when the screens show no
  controls.
* `QuickSafeHolds`, for any positions in the two sliders' ranges: a stored choice
  is what the next boot reads (`ChoiceStored`), the backlight is fully lit until
  the first change after a boot and follows the value in effect from then on,
  nothing is pending behind a tone (`SoundInv`), and every running timer was
  started by the last `Show()` (`BannerInv`).
* `ActivitiesSafeHolds`: buttons, pending tap and highlight follow the list last
  read, or the event that repairs them is on its way or comes before the
  connection is up again (`ListInv`); at most one of
  a pending tap and a remembered failure exists (`OneStory`).
* `ReadingsTrueHolds`: `CallsInv` says of every call in progress that has no
  excuse what its reads so far have told it of the world as it is (`Knows`: a
  gate was never safe, a caller behind the lock saw no current, one past the pin
  saw no charger, one past the percentage knows the charge).  `SampleInv` says
  that a pack missed once is the one whose voltage was remembered, which makes
  the next verdict right; `LockInv` that one caller at a time is between the two
  reads of `IsBatteryPresent()`.

`KodiLibraryProofs`
* `ListingWholeOrMarked`, `ListingNoItemTwice`: `Inv` says that while the loop
  runs with a Kodi that honours `limits`, `merged` is the first `start` items
  and `start` a whole number of pages below the cap; with one that ignores them
  the first page is the last, unless `Repeats`.  That the cap is a multiple of
  the page size, as in the code (10,000 and 500), is what makes a page always
  fit (`PageFits`).  `ListingSafeHolds` puts them together.
* `BrowseSafeHolds`: by `EventsInv` an answer of an earlier connection has the
  reconnect queued behind it, and a queued disconnect the "up" that followed it;
  by `PathInv` a list is shown only after a choice in every list above it, none
  of which is loading; by `CurrentInv`, once the link's events are handled, every
  list down to the one shown is filled from this connection or has an answer
  coming, while the top list may be stale as long as it is not shown.

`LayoutProofs`, for any columns, ceiling, footprints, rows, views and touches
* `GridTypes`, `GridKeepsWidgetsApart`, `GridScanBounded`, `GridRowsDescribed`:
  `GridInv` adds that the occupancy holds every cell of every placed widget
  (`Marked`), that one row past the declared ones the scan is at column 0, where
  every clamped footprint fits (`ScanStops`), and that the row template is one
  entry longer than the occupancy (`Lockstep`).
* `GridFirstFit`: `FirstFitInv` adds the converse of `Marked`, that nothing but a
  widget takes a cell (`OnlyMarked`), so a place the scan passed is taken by one.
* `GridSafeHolds` puts them together.
* `VListSafeHolds`: by `VListInv` the pool has a button for each row, up to
  `MaxVisibleRows` and never more (`PoolInv`), every button shows what its slot
  is bound to, with the text of the last fill (`BindInv`), and a list that is
  shown was bound where it now stands (`PlaceInv`).  `WindowFacts` and `SlotFacts`
  say of the code's window arithmetic that it covers the rows in the view and
  gives no two of them one slot.
* `TouchSendsHolds`, the second part of `ButtonsSafe`: by `TouchInv` a touch under
  way has sent nothing, or a press and holds if the tracker has its button for
  long pressed, so its release completes it, whichever view is up by then; what a
  dropped touch left in the tracker is gone when the next one can begin.

`WebSocketProofs`, for any number of frames and any bounds
* `MessagesIntactHolds`: the frames of all messages are numbered in the order
  sent (`MessagesOK`) and the wire holds consecutive ones (`WireOK`); the client
  holds some whole messages and the start of the next, and the frames from the
  next one on the wire on are exactly the rest (`ReadOK`).  A client that lost
  its place in the frames is `closed_` and asked no more, except by `KodiClient`
  on the host, of which only the types and the bounds remain (`FailedInv`):
  `ClientInv` is the one or the other.

Only model-checked:
* all liveness properties (`LossAnnounced`, `HarmonyProgress`, `KodiProgress`,
  `PowerProgress`, `ConnectivityProgress`, `WaitersAnswered`): fairness and
  ENABLED are out of the prover's reach;
* `EveryCommandOnce`, the other part of `ButtonsSafe`: a command's buttons are
  counted in sequences filtered with `SelectSeq`, and what that yields for every
  input takes an induction over data which the prover cannot do.

Every other property of a passing run is a theorem.

## Extending the project

Modelled are the two connection managers and everything around them that keeps
state of its own.  A change of a modelled function changes the definition that
`PROJECT.json` maps to its lines; the run that checks the component shows
whether its properties survive, and the lemma named after the action where the
invariant has to change.

## Not modelled

LVGL rendering and formatting, JSON text, drivers and sockets, cryptography and
the flash write itself.  The other widgets and the status bar only show a
snapshot; what they rely on is checked at the components they read.  HTTP
servers are thin layers over libraries.
`PROJECT.json` gives the reason for each component left out.
