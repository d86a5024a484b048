---------------------------- MODULE PowerManager ----------------------------
(***************************************************************************)
(* The power state (core/power_manager.cpp) with everything that drives    *)
(* it: the clock's tick and the critical-battery monitor evaluated inside  *)
(* it (core/clock.cpp, core/latched_threshold_monitor.cpp,                 *)
(* core/critical_battery_monitor.cpp), the firmware upload handler         *)
(* (core/ota_routes.cpp) and the UI thread's FIFO of posted events         *)
(* (core/event_bus.cpp, ui/ui_dispatch.cpp).                               *)
(*                                                                         *)
(* The monitor runs on whichever thread publishes the tick: the timer's,   *)
(* and once, from Clock::Start(), the main thread's.  The monitor tests    *)
(* and sets its latch and then publishes, all of it unlocked, so the two   *)
(* threads' edges can overlap.  PowerManager's three handlers run on the   *)
(* UI thread.  Times are abstracted to the thresholds the code compares    *)
(* them with.                                                              *)
(***************************************************************************)
EXTENDS Naturals, Sequences, FiniteSets

CONSTANTS Timer,         \* the clock's timer thread
          Tickers,       \* the threads that publish ticks: Timer and others
                         \* that publish one, as Clock::Start()'s caller does
          Uploads,       \* HTTP worker threads serving POST /api/ota/upload
          NoUpload,      \* upload_mutex is free
          BatteryReadings,  \* what the battery reader may report
          Percents,      \* brightness values a setting or the slider may hold
          SleepVetoes,   \* whether some module calls RequestSleepVeto()
          MaxUiQueue     \* bound: events the UI thread may lag behind

\* ReadPercent(), as the thresholds tell it apart ("ok" passes the OTA gate),
\* IsBatteryPresent() and IsExternalPowerConnected().
PossibleReadings == [percent : {"ok", "low", "critical"},
                     present : BOOLEAN, external : BOOLEAN]

ASSUME PowerAssumption ==
    /\ BatteryReadings \subseteq PossibleReadings
    /\ Timer \in Tickers
    /\ NoUpload \notin Uploads
    /\ Percents \subseteq Nat
    /\ SleepVetoes \in BOOLEAN
    /\ MaxUiQueue \in Nat \ {0}

VARIABLES
    reading,           \* what the battery reader reports
    inactivity,        \* MillisecondsSinceLastActivity(): below the idle
                       \* timeout, past it, or past the sleep timeout
    already_bad,       \* the critical monitor's latch already_bad_
    ticker,            \* where each ticking thread is
    bad,               \* its local: the condition it evaluated
    overlap,           \* history: of the edges found so far, none overlapped
                       \* another, the last one did, or one in the past did
    upload,            \* where each upload handler is
    upload_mutex,      \* who holds the handler's static mutex
    ui_queue,          \* the events posted to PowerManager, in order
    state,             \* state_
    ota_in_progress,   \* ota_in_progress_
    active_brightness, \* active_brightness_percent_
    display,           \* what DisplayBrightness was last set to
    sleep_veto,        \* sleep_veto_until_ lies in the future
    changed            \* the last step published PowerStateChangedEvent

tickVars == <<already_bad, ticker, bad, overlap>>
uploadVars == <<upload, upload_mutex>>
managerVars == <<state, ota_in_progress, active_brightness, display>>
vars == <<reading, inactivity, tickVars, uploadVars, ui_queue,
          managerVars, sleep_veto, changed>>

PowerStates == {"kActive", "kIdle", "kSleeping", "kUpdating", "kError"}

\* The events PowerManager subscribes to; a tick carries nothing it reads.
Tick == [kind |-> "tick", on |-> FALSE]
Ota(in_progress) == [kind |-> "ota", on |-> in_progress]
Critical(critical) == [kind |-> "critical", on |-> critical]

\* SubscribeUi(): the event joins the dispatch queue.
Post(event) ==
    /\ Len(ui_queue) < MaxUiQueue
    /\ ui_queue' = Append(ui_queue, event)

\* Posting never waits in the program.  Of the bound, one place is kept for
\* the clock, so that uploads cannot hold up its thread in the model.
RoomForUpload == Len(ui_queue) + 1 < MaxUiQueue

Quiet == changed' = FALSE

-----------------------------------------------------------------------------
(* The environment: battery, charger, user and time. *)

BatteryChanges ==
    /\ reading' \in BatteryReadings \ {reading}
    /\ Quiet
    /\ UNCHANGED <<inactivity, tickVars, uploadVars, ui_queue, managerVars,
                   sleep_veto>>

UserTouches ==
    /\ inactivity # "fresh"
    /\ inactivity' = "fresh"
    /\ Quiet
    /\ UNCHANGED <<reading, tickVars, uploadVars, ui_queue, managerVars,
                   sleep_veto>>

TimePasses ==
    /\ \/ /\ inactivity # "past_sleep"
          /\ inactivity' = IF inactivity = "fresh" THEN "past_idle"
                                                   ELSE "past_sleep"
          /\ UNCHANGED sleep_veto
       \/ /\ sleep_veto
          /\ sleep_veto' = FALSE
          /\ UNCHANGED inactivity
    /\ Quiet
    /\ UNCHANGED <<reading, tickVars, uploadVars, ui_queue, managerVars>>

-----------------------------------------------------------------------------
(* A clock tick on thread t, and the critical-battery monitor inside it.   *)
(* The monitor subscribed before PowerManager did, so its event is posted  *)
(* before the tick is.                                                     *)

\* No battery counts as recovered, and so does a charger.
IsCritical == reading.present /\ reading.percent = "critical" /\ ~reading.external

TickEvaluate(t) ==
    /\ ticker[t] = "idle"
    /\ bad' = [bad EXCEPT ![t] = IsCritical]
    /\ ticker' = [ticker EXCEPT ![t] = "check"]
    /\ Quiet
    /\ UNCHANGED <<reading, inactivity, already_bad, overlap, uploadVars,
                   ui_queue, managerVars, sleep_veto>>

\* Between a thread's test of the latch and its publishing of the edge.
OnEdge(t) == ticker[t] \in {"set", "publish"}

\* The history variable, when thread t finds an edge.
Overlaps(t) ==
    IF \E other \in Tickers \ {t} : OnEdge(other) THEN "last"
    ELSE IF overlap = "none" THEN "none"
    ELSE "past"

\* Only an edge of the condition is published.
TickCheck(t) ==
    /\ ticker[t] = "check"
    /\ ticker' = [ticker EXCEPT ![t] =
                     IF bad[t] # already_bad THEN "set" ELSE "post"]
    /\ overlap' = IF bad[t] # already_bad THEN Overlaps(t) ELSE overlap
    /\ Quiet
    /\ UNCHANGED <<reading, inactivity, already_bad, bad, uploadVars,
                   ui_queue, managerVars, sleep_veto>>

TickSet(t) ==
    /\ ticker[t] = "set"
    /\ already_bad' = bad[t]
    /\ ticker' = [ticker EXCEPT ![t] = "publish"]
    /\ Quiet
    /\ UNCHANGED <<reading, inactivity, bad, overlap, uploadVars, ui_queue,
                   managerVars, sleep_veto>>

\* on_entering() and on_leaving()
TickPublish(t) ==
    /\ ticker[t] = "publish"
    /\ Post(Critical(bad[t]))
    /\ ticker' = [ticker EXCEPT ![t] = "post"]
    /\ Quiet
    /\ UNCHANGED <<reading, inactivity, already_bad, bad, overlap,
                   uploadVars, managerVars, sleep_veto>>

\* The timer goes on ticking; Clock::Start() publishes one tick.  The local
\* is gone.
TickPost(t) ==
    /\ ticker[t] = "post"
    /\ Post(Tick)
    /\ ticker' = [ticker EXCEPT ![t] = IF t = Timer THEN "idle" ELSE "done"]
    /\ bad' = [bad EXCEPT ![t] = FALSE]
    /\ Quiet
    /\ UNCHANGED <<reading, inactivity, already_bad, overlap, uploadVars,
                   managerVars, sleep_veto>>

TickStep(t) == \/ TickEvaluate(t) \/ TickCheck(t) \/ TickSet(t)
               \/ TickPublish(t) \/ TickPost(t)

-----------------------------------------------------------------------------
(* POST /api/ota/upload on worker thread u. *)

\* try_to_lock; a busy mutex answers 409 and changes nothing.
UploadLock(u) ==
    /\ upload[u] = "idle" /\ upload_mutex = NoUpload
    /\ upload_mutex' = u
    /\ upload' = [upload EXCEPT ![u] = "gate"]
    /\ Quiet
    /\ UNCHANGED <<reading, inactivity, tickVars, ui_queue, managerVars,
                   sleep_veto>>

\* EvaluateOtaGate().open
OtaGateOpen == reading.percent = "ok" \/ reading.external

\* A closed gate answers 403, too large an image 400.
UploadGate(u) ==
    /\ upload[u] = "gate"
    /\ \/ /\ OtaGateOpen
          /\ upload' = [upload EXCEPT ![u] = "begin"]
       \/ upload' = [upload EXCEPT ![u] = "unlock"]
    /\ Quiet
    /\ UNCHANGED <<reading, inactivity, tickVars, upload_mutex, ui_queue,
                   managerVars, sleep_veto>>

UploadBegin(u) ==
    /\ upload[u] = "begin"
    /\ RoomForUpload /\ Post(Ota(TRUE))
    /\ upload' = [upload EXCEPT ![u] = "write"]
    /\ Quiet
    /\ UNCHANGED <<reading, inactivity, tickVars, upload_mutex,
                   managerVars, sleep_veto>>

\* write_image() returns, successful or not.
UploadWrite(u) ==
    /\ upload[u] = "write"
    /\ upload' = [upload EXCEPT ![u] = "end"]
    /\ Quiet
    /\ UNCHANGED <<reading, inactivity, tickVars, upload_mutex, ui_queue,
                   managerVars, sleep_veto>>

UploadEnd(u) ==
    /\ upload[u] = "end"
    /\ RoomForUpload /\ Post(Ota(FALSE))
    /\ upload' = [upload EXCEPT ![u] = "unlock"]
    /\ Quiet
    /\ UNCHANGED <<reading, inactivity, tickVars, upload_mutex,
                   managerVars, sleep_veto>>

\* The lock guard goes out of scope, on every return of the handler.
UploadUnlock(u) ==
    /\ upload[u] = "unlock"
    /\ upload_mutex' = NoUpload
    /\ upload' = [upload EXCEPT ![u] = "idle"]
    /\ Quiet
    /\ UNCHANGED <<reading, inactivity, tickVars, ui_queue, managerVars,
                   sleep_veto>>

UploadStep(u) == \/ UploadLock(u) \/ UploadGate(u) \/ UploadBegin(u)
                 \/ UploadWrite(u) \/ UploadEnd(u) \/ UploadUnlock(u)

-----------------------------------------------------------------------------
(* PowerManager, on the UI thread. *)

kMinActiveBrightnessPercent == 5
kDimBrightnessPercent == 20
kSleepBrightnessPercent == 0

Clamp(percent) ==
    IF percent < kMinActiveBrightnessPercent THEN kMinActiveBrightnessPercent
    ELSE IF percent > 100 THEN 100
    ELSE percent

BrightnessOf(s) ==
    IF s = "kSleeping" THEN kSleepBrightnessPercent
    ELSE IF s = "kIdle" /\ kDimBrightnessPercent < active_brightness
         THEN kDimBrightnessPercent
    ELSE active_brightness

TransitionTo(s) ==
    /\ state' = s
    /\ display' = BrightnessOf(s)
    /\ changed' = TRUE

Stay == Quiet /\ UNCHANGED <<state, display>>

PastIdle == inactivity # "fresh"
MaySleep == inactivity = "past_sleep" /\ ~sleep_veto

\* OnTick(): in kUpdating and kError it does nothing.
OnTick ==
    /\ IF state = "kActive" /\ PastIdle THEN TransitionTo("kIdle")
       ELSE IF state \in {"kIdle", "kSleeping"} /\ ~PastIdle
            THEN TransitionTo("kActive")
       ELSE IF state = "kIdle" /\ MaySleep THEN TransitionTo("kSleeping")
       ELSE Stay
    /\ UNCHANGED ota_in_progress

\* Where inactivity calls for the state to be once a write has finished.
RestingState == IF MaySleep THEN "kSleeping"
                ELSE IF PastIdle THEN "kIdle"
                ELSE "kActive"

\* Mutant of OnOtaUpdateStateChanged: a finished write clobbers kError.
OnOtaClobberingError(in_progress) ==
    /\ ota_in_progress' = in_progress
    /\ TransitionTo(IF in_progress THEN "kUpdating" ELSE RestingState)

\* The OtaUpdateStateChangedEvent subscription.
OnOtaUpdateStateChanged(in_progress) ==
    /\ ota_in_progress' = in_progress
    /\ IF state = "kError" THEN Stay
       ELSE TransitionTo(IF in_progress THEN "kUpdating" ELSE RestingState)

\* Mutant of RecoveredState: the write in flight is forgotten.
RecoverToActive == "kActive"

\* Recovery lands on the state the write in flight, if any, calls for.
RecoveredState == IF ota_in_progress THEN "kUpdating" ELSE "kActive"

\* Mutant of OnCriticalBatteryStateChanged: a write is not preempted.
OnCriticalAfterUpdate(critical) ==
    /\ IF critical /\ state # "kUpdating" THEN TransitionTo("kError")
       ELSE IF ~critical /\ state = "kError" THEN TransitionTo(RecoveredState)
       ELSE Stay
    /\ UNCHANGED ota_in_progress

\* The CriticalBatteryStateChangedEvent subscription.
OnCriticalBatteryStateChanged(critical) ==
    /\ IF critical THEN TransitionTo("kError")
       ELSE IF state = "kError" THEN TransitionTo(RecoveredState)
       ELSE Stay
    /\ UNCHANGED ota_in_progress

\* DrainQueue() runs the oldest posted event's handler.
DrainQueue ==
    LET event == Head(ui_queue)
    IN  /\ ui_queue # <<>>
        /\ ui_queue' = Tail(ui_queue)
        /\ \/ event.kind = "tick" /\ OnTick
           \/ event.kind = "ota" /\ OnOtaUpdateStateChanged(event.on)
           \/ event.kind = "critical" /\ OnCriticalBatteryStateChanged(event.on)
        /\ UNCHANGED <<reading, inactivity, tickVars, uploadVars,
                       active_brightness, sleep_veto>>

\* SetActiveBrightnessPercent(), from the quick settings slider.
SetActiveBrightnessPercent(percent) ==
    /\ active_brightness' = Clamp(percent)
    /\ display' = IF state = "kActive" THEN Clamp(percent) ELSE display
    /\ Quiet
    /\ UNCHANGED <<reading, inactivity, tickVars, uploadVars, ui_queue,
                   state, ota_in_progress, sleep_veto>>

\* RequestSleepVeto(): offered to modules, none of which asks for it yet.
RequestSleepVeto ==
    /\ SleepVetoes /\ ~sleep_veto
    /\ sleep_veto' = TRUE
    /\ Quiet
    /\ UNCHANGED <<reading, inactivity, tickVars, uploadVars, ui_queue,
                   managerVars>>

-----------------------------------------------------------------------------
\* The constructor clamps the stored brightness and touches no hardware; the
\* backlight was switched fully on before.
Init ==
    /\ reading \in BatteryReadings
    /\ inactivity = "fresh"
    /\ already_bad = FALSE
    /\ ticker = [t \in Tickers |-> "idle"]
    /\ bad = [t \in Tickers |-> FALSE]
    /\ overlap = "none"
    /\ upload = [u \in Uploads |-> "idle"]
    /\ upload_mutex = NoUpload
    /\ ui_queue = <<>>
    /\ state = "kActive"
    /\ ota_in_progress = FALSE
    /\ \E percent \in Percents : active_brightness = Clamp(percent)
    /\ display = 100
    /\ sleep_veto = FALSE
    /\ changed = FALSE

Next ==
    \/ BatteryChanges \/ UserTouches \/ TimePasses
    \/ \E t \in Tickers : TickStep(t)
    \/ \E u \in Uploads : UploadStep(u)
    \/ DrainQueue
    \/ \E percent \in Percents : SetActiveBrightnessPercent(percent)
    \/ RequestSleepVeto

Spec == Init /\ [][Next]_vars

\* The timer is periodic, Clock::Start() is called and returns, and the
\* dispatch queue is drained by an LVGL timer of period 0; users, batteries
\* and uploads need not act.  Posting never waits in the program: the main
\* thread's fairness is strong because here the bounded queue holds it up.
FairSpec ==
    /\ Spec
    /\ WF_vars(TickStep(Timer))
    /\ \A t \in Tickers \ {Timer} : SF_vars(TickStep(t))
    /\ WF_vars(DrainQueue)

-----------------------------------------------------------------------------
(* Correctness *)

Events == [kind : {"tick", "ota", "critical"}, on : BOOLEAN]

EnvironmentTypeOK ==
    /\ reading \in BatteryReadings
    /\ inactivity \in {"fresh", "past_idle", "past_sleep"}
    /\ sleep_veto \in BOOLEAN

TickTypeOK ==
    /\ already_bad \in BOOLEAN
    /\ ticker \in [Tickers ->
                     {"idle", "check", "set", "publish", "post", "done"}]
    /\ bad \in [Tickers -> BOOLEAN]
    /\ overlap \in {"none", "last", "past"}

UploadTypeOK ==
    /\ upload \in [Uploads ->
                     {"idle", "gate", "begin", "write", "end", "unlock"}]
    /\ upload_mutex \in Uploads \cup {NoUpload}

QueueTypeOK ==
    /\ ui_queue \in Seq(Events)
    /\ Len(ui_queue) <= MaxUiQueue

ManagerTypeOK ==
    /\ state \in PowerStates
    /\ ota_in_progress \in BOOLEAN
    /\ active_brightness \in kMinActiveBrightnessPercent..100
    /\ display \in 0..100

\* Every variable stays in its type.
TypeOK ==
    /\ EnvironmentTypeOK /\ TickTypeOK /\ UploadTypeOK /\ QueueTypeOK
    /\ ManagerTypeOK
    /\ changed \in BOOLEAN

\* The places of a queue that hold an event of this kind.
Places(queue, kind) == {i \in 1..Len(queue) : queue[i].kind = kind}

\* Handling every event in the queue leaves a flag, which the handlers set to
\* what an event of this kind says and whose value is now, at value.
Settles(queue, kind, now, value) ==
    /\ Places(queue, kind) = {} => now = value
    /\ \A i \in Places(queue, kind) :
          (\A j \in Places(queue, kind) : j <= i) => queue[i].on = value

\* The two sides of the critical-battery latch agree: once no thread is on an
\* edge and the UI thread has handled what is queued, PowerManager is in
\* kError exactly if the monitor's latch is set, whatever uploads and ticks
\* happened in between.  The monitor is not locked, so an edge that overlaps
\* another thread's may be published in the other order and leave the two
\* apart; the next edge that overlaps none brings them together again.
ErrorMirrorsBattery ==
    (\A t \in Tickers : ~OnEdge(t)) /\ overlap # "last" =>
        Settles(ui_queue, "critical", state = "kError", already_bad)

\* Where an image is being written, or its end is not announced yet.
Writing == \E u \in Uploads : upload[u] \in {"write", "end"}

\* An image being written keeps the display from dimming and sleeping: the
\* queued events leave ota_in_progress_ at whether a write is running, and
\* kUpdating is left for kError only, to be resumed when the battery
\* recovers.  Uploads of several HTTP workers never interleave their events.
UpdatingMirrorsUpload ==
    /\ Settles(ui_queue, "ota", ota_in_progress, Writing)
    /\ state # "kError" => (state = "kUpdating" <=> ota_in_progress)

\* The screen is off exactly in kSleeping, so the user always finds
\* something to tap otherwise (the floor of the chosen brightness), and Idle
\* never sets more than the dimmed level.
ScreenUsable ==
    /\ display = 0 <=> state = "kSleeping"
    /\ state = "kIdle" => display <= kDimBrightnessPercent

\* Dimming never brightens: no step into Idle or Sleeping sets the display
\* above the brightness the user chose.
DimmingDims ==
    state' \in {"kIdle", "kSleeping"} /\ state' # state => display' <= active_brightness

\* PowerStateChangedEvent means a change: power_manager.h says it is
\* published on every real transition, and only on one.  Two threads that
\* find the same edge of the battery publish it twice, so this is said of a
\* device on which no two edges have overlapped.
RealTransitions == overlap = "none" /\ changed' => state' # state

\* What OnTick(), the battery's edges and the uploads make of the state and
\* the display, in whatever order the UI thread handles them: until two
\* threads' edges overlap every published change is one, and dimming always
\* only dims.
PowerSteps == [][RealTransitions /\ DimmingDims]_vars

\* However the ticks of both threads, uploads and queued events interleave,
\* kError follows the battery monitor's latch, except after an overlap of
\* two edges and until the next edge, kUpdating follows the upload being
\* written, and the display is never left dark or bright where the state
\* calls for the other.
PowerSafe == TypeOK /\ ErrorMirrorsBattery /\ UpdatingMirrorsUpload /\ ScreenUsable

\* A battery that stays critical takes the device to kError, even during a
\* write, unless its last edges overlapped.
CriticalReached == []<>(IsCritical => state = "kError" \/ overlap = "last")

\* kError is left again when the battery recovers, is removed or charged,
\* unless its last edges overlapped.
ErrorCleared == []<>(state = "kError" => IsCritical \/ overlap = "last")

\* A touch wakes a sleeping device.
SleeperWakes == []<>(state = "kSleeping" => inactivity # "fresh")

\* Once the battery and the user stop changing things PowerManager catches
\* up: kError is entered while critical, also during a write, left again
\* after it (but for an overlap of the last two edges), and a touch ends the
\* sleep.
PowerProgress == CriticalReached /\ ErrorCleared /\ SleeperWakes
=============================================================================
