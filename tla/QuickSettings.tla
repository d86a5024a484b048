--------------------------- MODULE QuickSettings ---------------------------
(***************************************************************************)
(* Brightness, volume and the presentation of notifications: the quick     *)
(* settings panel (ui/quick_settings_panel.cpp) over PowerManager's active *)
(* brightness and NotificationSound's volume, the two settings AppCore     *)
(* reads back at the next boot, NotificationSound's own task               *)
(* (core/notification_sound.cpp), and NotificationBanner with its one      *)
(* dismiss timer (ui/notification_banner.cpp).                             *)
(*                                                                         *)
(* PowerManager's own rules for changing its state are the subject of the  *)
(* module PowerManager; here it may change whenever it likes.  A setting   *)
(* is a number, NotSet or NotANumber: the settings API accepts any text    *)
(* for these two keys, which have no validator.                            *)
(***************************************************************************)
EXTENDS Integers, Sequences

CONSTANTS SliderValues,       \* positions the user drags a slider to
          WebValues,          \* numbers written through the settings API
          Messages,           \* notifications
          NoMessage,
          kAutoDismiss,       \* the banner's window, in ticks
          MaxNotifications,   \* bound: notifications published
          MaxQuickEvents      \* bound: drags, writes, changes of state, reboots

NotSet == -1
NotANumber == -2
Controls == {"brightness", "volume"}
PowerStates == {"kActive", "kIdle", "kSleeping", "kUpdating", "kError"}

ASSUME QuickAssumption ==
    /\ SliderValues \subseteq 0..100
    /\ WebValues \subseteq Nat
    /\ NoMessage \notin Messages
    /\ kAutoDismiss \in Nat \ {0}
    /\ MaxNotifications \in Nat /\ MaxQuickEvents \in Nat

VARIABLES
    qs_stored,     \* by control: the stored setting
    qs_value,      \* active_brightness_percent_ and volume_percent_
    qs_power,      \* PowerManager's state_
    qs_display,    \* the panel's backlight, in percent
    qs_applied,    \* history: the backlight has been set since the boot
    qs_requested,  \* a QuickSettingsRequestedEvent waits for the UI thread
    qs_open,       \* panel_ and scrim_ are shown
    qs_slider,     \* by control: the slider's position
    qs_dragged,    \* the control under the user's finger, or "none"
    qs_chosen,     \* history: the last position a release stored, or NotSet
    qs_unmoved,    \* history: the controls not dragged since the boot
    sound_pending, sound_playing,  \* pending_, playing_
    sound_level,   \* the volume the codec was given for the current tone
    sound_news,    \* history: a notification since the last tone ended
    sound_echo,    \* history: a tone began for no such notification
    banner_queue,  \* NotificationEvents posted to the UI thread
    banner_text,   \* what the banner shows, NoMessage when hidden
    banner_timers, \* ticks left of each running dismiss timer
    banner_age,    \* history: ticks since the last Show()
    banner_cut,    \* history: a message was hidden before its window ended
    notifications, quick_events   \* history: what the bounds bound

control_vars == <<qs_stored, qs_value, qs_chosen, qs_unmoved>>
power_vars == <<qs_power, qs_display, qs_applied>>
panel_vars == <<qs_requested, qs_open, qs_slider, qs_dragged>>
sound_vars == <<sound_pending, sound_playing, sound_level, sound_news, sound_echo>>
banner_vars == <<banner_queue, banner_text, banner_timers, banner_age, banner_cut>>
quick_vars == <<control_vars, power_vars, panel_vars, sound_vars, banner_vars,
                notifications, quick_events>>

Counted == quick_events < MaxQuickEvents /\ quick_events' = quick_events + 1

Clamp(v, low, high) == IF v < low THEN low ELSE IF v > high THEN high ELSE v

\* kMinActiveBrightnessPercent keeps the display from going dark.
Lowest(c) == IF c = "brightness" THEN 5 ELSE 0

-----------------------------------------------------------------------------
(* PowerManager's part *)

\* TransitionTo(): what the backlight shows in a state.
BrightnessIn(state, active) ==
    IF state = "kIdle" THEN Clamp(active, 0, 20)
    ELSE IF state = "kSleeping" THEN 0
    ELSE active

TransitionTo(state) ==
    /\ Counted
    /\ state # qs_power
    /\ qs_power' = state
    /\ qs_display' = BrightnessIn(state, qs_value["brightness"])
    /\ qs_applied' = TRUE
    /\ UNCHANGED <<control_vars, panel_vars, sound_vars, banner_vars, notifications>>

\* SetActiveBrightnessPercent(), applied at once only in kActive, and
\* SetVolumePercent(), read by the next tone.
SetValue(c, v) ==
    LET value == Clamp(v, Lowest(c), 100)
        now   == c = "brightness" /\ qs_power = "kActive"
    IN  /\ qs_value' = [qs_value EXCEPT ![c] = value]
        /\ qs_display' = IF now THEN value ELSE qs_display
        /\ qs_applied' = (qs_applied \/ now)

-----------------------------------------------------------------------------
(* QuickSettingsPanel *)

\* OnSettingsIconClicked() of a status bar; an open panel's scrim covers it.
OnSettingsIconClicked ==
    /\ ~qs_open /\ ~qs_requested
    /\ qs_requested' = TRUE
    /\ UNCHANGED <<control_vars, power_vars, qs_open, qs_slider, qs_dragged,
                   sound_vars, banner_vars, notifications, quick_events>>

\* Mutant of SliderPositions: the positions of the last time stay.
SliderPositionsKept == qs_slider

SliderPositions == qs_value

\* Show(), from the UI thread's queue.
ShowPanel ==
    /\ qs_requested
    /\ qs_requested' = FALSE
    /\ qs_slider' = SliderPositions
    /\ qs_open' = TRUE
    /\ UNCHANGED <<control_vars, power_vars, qs_dragged, sound_vars, banner_vars,
                   notifications, quick_events>>

\* OnScrimClicked(), Hide().
HidePanel ==
    /\ qs_open /\ qs_dragged = "none"
    /\ qs_open' = FALSE
    /\ UNCHANGED <<control_vars, power_vars, qs_requested, qs_slider, qs_dragged,
                   sound_vars, banner_vars, notifications, quick_events>>

\* The ranges of the two sliders.
SliderRange(c) == {v \in SliderValues : v >= Lowest(c)}

\* OnBrightnessChanged(), OnVolumeChanged(): every step of a drag.
OnValueChanged(c, v) ==
    /\ Counted
    /\ qs_open /\ qs_dragged \in {"none", c}
    /\ qs_slider' = [qs_slider EXCEPT ![c] = v]
    /\ qs_dragged' = c
    /\ SetValue(c, v)
    /\ qs_unmoved' = qs_unmoved \ {c}
    /\ UNCHANGED <<qs_stored, qs_power, qs_chosen, qs_requested, qs_open,
                   sound_vars, banner_vars, notifications>>

\* The module and key a slider's value is stored under.
KeyOf(c) == c

\* OnBrightnessReleased(), OnVolumeReleased(): the write may fail, and is
\* then only reported on the console.
OnReleased(written) ==
    /\ qs_dragged # "none"
    /\ qs_dragged' = "none"
    /\ \/ /\ written
          /\ qs_stored' = [qs_stored EXCEPT ![KeyOf(qs_dragged)] = qs_slider[qs_dragged]]
          /\ qs_chosen' = [qs_chosen EXCEPT ![qs_dragged] = qs_slider[qs_dragged]]
       \/ /\ ~written
          /\ UNCHANGED <<qs_stored, qs_chosen>>
    /\ UNCHANGED <<qs_value, qs_unmoved, power_vars, qs_requested, qs_open,
                   qs_slider, sound_vars, banner_vars, notifications, quick_events>>

\* POST /api/settings for one of the two keys: stored, read at the next boot.
PostQuickSetting(c, v) ==
    /\ Counted
    /\ qs_stored' = [qs_stored EXCEPT ![c] = v]
    /\ qs_chosen' = [qs_chosen EXCEPT ![c] = NotSet]
    /\ UNCHANGED <<qs_value, qs_unmoved, power_vars, panel_vars, sound_vars,
                   banner_vars, notifications>>

-----------------------------------------------------------------------------
(* Boot *)

\* ReadIntSetting(): the fallback for a missing or malformed setting.
ReadIntSetting(stored, fallback) ==
    IF stored \in {NotSet, NotANumber} THEN fallback ELSE stored

Fallback(c) == IF c = "brightness" THEN 100 ELSE 70

\* The constructors of NotificationSound and PowerManager clamp it.
InitialValue(c) ==
    Clamp(ReadIntSetting(qs_stored[c], Fallback(c)), Lowest(c), 100)

\* A reboot.  bsp_display_backlight_on() lights the display fully; the stored
\* brightness is only kept for the next transition or drag.
QuickReboot ==
    /\ Counted
    /\ qs_value' = [c \in Controls |-> InitialValue(c)]
    /\ qs_unmoved' = Controls
    /\ qs_power' = "kActive" /\ qs_display' = 100 /\ qs_applied' = FALSE
    /\ qs_requested' = FALSE /\ qs_open' = FALSE /\ qs_dragged' = "none"
    /\ qs_slider' = [c \in Controls |-> Lowest(c)]
    /\ sound_pending' = FALSE /\ sound_playing' = FALSE
    /\ sound_level' = 0 /\ sound_news' = FALSE
    /\ banner_queue' = <<>> /\ banner_text' = NoMessage
    /\ banner_timers' = {} /\ banner_age' = 0
    /\ UNCHANGED <<qs_stored, qs_chosen, sound_echo, banner_cut, notifications>>

-----------------------------------------------------------------------------
(* NotificationSound *)

\* The subscription's callback: nothing is queued behind a tone.
Pends == sound_pending \/ ~sound_playing

\* A NotificationEvent: the sound's callback runs on the publishing thread,
\* the banner's is posted.
Notify(message) ==
    /\ notifications < MaxNotifications
    /\ notifications' = notifications + 1
    /\ sound_pending' = Pends
    /\ sound_news' = (sound_news \/ ~sound_playing)
    /\ banner_queue' = Append(banner_queue, message)
    /\ UNCHANGED <<control_vars, power_vars, panel_vars, sound_playing, sound_level,
                   sound_echo, banner_text, banner_timers, banner_age, banner_cut,
                   quick_events>>

\* PlayLoop() wakes, takes the volume and plays.
PlayBegins ==
    /\ sound_pending /\ ~sound_playing
    /\ sound_pending' = FALSE /\ sound_playing' = TRUE
    /\ sound_level' = qs_value["volume"]
    /\ sound_echo' = (sound_echo \/ ~sound_news)
    /\ UNCHANGED <<control_vars, power_vars, panel_vars, sound_news, banner_vars,
                   notifications, quick_events>>

\* Play() returns when the tone has been played, or failed.
PlayEnds ==
    /\ sound_playing
    /\ sound_playing' = FALSE
    /\ sound_news' = FALSE
    /\ UNCHANGED <<control_vars, power_vars, panel_vars, sound_pending, sound_level,
                   sound_echo, banner_vars, notifications, quick_events>>

-----------------------------------------------------------------------------
(* NotificationBanner *)

\* The one timer is re-armed, reset and resumed.
DismissTimers == {kAutoDismiss}

\* NotificationBanner::Show(), from the UI thread's queue.
ShowBanner ==
    /\ banner_queue # <<>>
    /\ banner_queue' = Tail(banner_queue)
    /\ banner_text' = Head(banner_queue)
    /\ banner_timers' = DismissTimers
    /\ banner_age' = 0
    /\ UNCHANGED <<control_vars, power_vars, panel_vars, sound_vars, banner_cut,
                   notifications, quick_events>>

\* A tick of the running timers; OnAutoDismiss() hides the banner and the
\* timer, which repeats once, pauses.
BannerTick ==
    /\ banner_timers # {}
    /\ LET left == {n - 1 : n \in banner_timers}
           due  == 0 \in left
       IN  /\ banner_timers' = left \ {0}
           /\ banner_text' = IF due THEN NoMessage ELSE banner_text
           /\ banner_age' = banner_age + 1
           /\ banner_cut' = (banner_cut \/ (due /\ banner_age + 1 < kAutoDismiss))
    /\ UNCHANGED <<control_vars, power_vars, panel_vars, sound_vars, banner_queue,
                   notifications, quick_events>>

-----------------------------------------------------------------------------
\* QuickSettingsPanel's constructor: hidden, the sliders at their lowest.
PanelInit ==
    /\ qs_requested = FALSE /\ qs_open = FALSE /\ qs_dragged = "none"
    /\ qs_slider = [c \in Controls |-> Lowest(c)]

\* NotificationBanner's constructor: hidden, the timer paused.
BannerInit ==
    /\ banner_queue = <<>> /\ banner_text = NoMessage /\ banner_timers = {}
    /\ banner_age = 0 /\ banner_cut = FALSE

QuickInit ==
    /\ qs_stored = [c \in Controls |-> NotSet]
    /\ qs_value = [c \in Controls |-> Fallback(c)]
    /\ qs_chosen = [c \in Controls |-> NotSet]
    /\ qs_unmoved = Controls
    /\ qs_power = "kActive" /\ qs_display = 100 /\ qs_applied = FALSE
    /\ sound_pending = FALSE /\ sound_playing = FALSE
    /\ sound_level = 0 /\ sound_news = FALSE /\ sound_echo = FALSE
    /\ PanelInit /\ BannerInit
    /\ notifications = 0 /\ quick_events = 0

QuickNext ==
    \/ \E state \in PowerStates : TransitionTo(state)
    \/ OnSettingsIconClicked \/ ShowPanel \/ HidePanel
    \/ \E c \in Controls : \E v \in SliderRange(c) : OnValueChanged(c, v)
    \/ \E written \in BOOLEAN : OnReleased(written)
    \/ \E c \in Controls, v \in WebValues \cup {NotANumber} : PostQuickSetting(c, v)
    \/ QuickReboot
    \/ \E message \in Messages : Notify(message)
    \/ PlayBegins \/ PlayEnds \/ ShowBanner \/ BannerTick

QuickSpec == QuickInit /\ [][QuickNext]_quick_vars

-----------------------------------------------------------------------------
(* Properties *)

\* Types; whatever is stored, the brightness stays above the floor that
\* leaves something on the display to tap, and the volume within the codec's
\* range.
QuickTypeOK ==
    /\ qs_stored \in [Controls -> Nat \cup {NotSet, NotANumber}]
    /\ \A c \in Controls : qs_value[c] \in Lowest(c)..100
    /\ qs_power \in PowerStates /\ qs_display \in 0..100
    /\ qs_requested \in BOOLEAN /\ qs_open \in BOOLEAN
    /\ qs_dragged \in Controls \cup {"none"}
    /\ \A c \in Controls : qs_slider[c] \in Lowest(c)..100
    /\ sound_pending \in BOOLEAN /\ sound_playing \in BOOLEAN
    /\ sound_level \in 0..100
    /\ banner_queue \in Seq(Messages) /\ banner_text \in Messages \cup {NoMessage}

\* power_manager.cpp: once the backlight has been set since the boot it shows
\* what the state calls for.  A drag in a dimmed or dark state does not light
\* the display, and is not lost when activity is noticed.  From the boot to the
\* first change it is fully lit, whatever brightness is stored and whatever the
\* slider shows.
BacklightAgrees ==
    IF qs_applied
    THEN /\ qs_power = "kActive" => qs_display = qs_value["brightness"]
         /\ qs_power = "kIdle" => qs_display <= 20
         /\ qs_power = "kSleeping" => qs_display = 0
    ELSE qs_power = "kActive" /\ qs_display = 100

\* quick_settings_panel.cpp: the open panel's sliders stand at the values in
\* effect, also the first time it opens after a boot.
SlidersTrue == qs_open => qs_slider = qs_value

\* app_core.cpp, OnBrightnessReleased(): a position whose write succeeded is
\* the value in effect after a reboot, until the slider is dragged again.
ChoiceSurvives ==
    \A c \in Controls :
        /\ qs_chosen[c] # NotSet /\ c \in qs_unmoved
        => qs_value[c] = qs_chosen[c]

\* notification_sound.cpp: a notification that arrives during a tone is not
\* given a tone of its own afterwards.
NoEcho == ~sound_echo

\* notification_banner.cpp: a message that arrives while the banner shows
\* another keeps its own full window.
FullWindow == ~banner_cut

\* Drags, Web UI writes, failed writes, reboots, power states and
\* notifications in any order: sliders, volume, tone and banner show and keep
\* what the user chose last, the value in effect also through reboots, and the
\* backlight follows it from the first change after a boot on.
QuickSafe ==
    /\ QuickTypeOK /\ BacklightAgrees /\ SlidersTrue /\ ChoiceSurvives
    /\ NoEcho /\ FullWindow

\* power-management.md says that the brightness a slider's release stored is
\* "read back on boot rather than resetting to the previous hardcoded 100%"; so
\* the active display shows the stored choice after a boot too.
BrightnessReadBack ==
    qs_power = "kActive" /\ qs_chosen["brightness"] # NotSet /\ "brightness" \in qs_unmoved
        => qs_display = qs_chosen["brightness"]
=============================================================================
