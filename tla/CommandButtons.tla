--------------------------- MODULE CommandButtons ---------------------------
(***************************************************************************)
(* The command view of the Devices screen (ui/screens/devices_screen.cpp): *)
(* which buttons a device's control groups become, and which press, hold   *)
(* and release commands a touch on one sends, as CommandButtonPressTracker *)
(* decides.  A button is its position in the view, as a recycled address   *)
(* is to the tracker; one finger touches the screen at a time.             *)
(***************************************************************************)
EXTENDS Naturals, Sequences, SequencesExt

CONSTANTS DeviceCommands,        \* names a group may hold, among them some of the
                           \* keypad's and the D-pad's
          MaxGroupSize, MaxTouches, MaxHolds   \* bounds

kKeypadOrder == <<"Number1", "Number2", "Number3", "Number4", "Number5", "Number6",
                  "Number7", "Number8", "Number9", "Clear", "Number0", "Dot">>
kDPadOrder == <<"DirectionUp", "DirectionLeft", "Select", "DirectionRight", "DirectionDown">>
GroupNames == {"NumericBasic", "NavigationBasic", "Volume"}

ASSUME CommandButtonsAssumption ==
    MaxGroupSize \in Nat /\ MaxTouches \in Nat /\ MaxHolds \in Nat

\* A group's commands, each with a name of its own.
Groups == [name : GroupNames,
           commands : {s \in SeqOf(DeviceCommands, MaxGroupSize) : IsInjective(s)}]

VARIABLES device,          \* the device's two control groups
          configured,      \* Snapshot().has_config
          config_event,    \* a HarmonyConfigUpdatedEvent is queued
          devices_view,    \* "hint", "list" or "detail"
          command_buttons, \* command_button_actions_, by position
          long_presses,    \* long_press_active_buttons_
          finger,          \* the touch: down, on which button, long, scrolling, lost
          commands_sent,            \* what this touch has sent
          touches_left

button_vars == <<device, configured, config_event, devices_view, command_buttons,
                 long_presses, finger, commands_sent, touches_left>>

NoTouch == [down |-> FALSE, button |-> 0, long |-> FALSE, scrolling |-> FALSE, lost |-> FALSE]

-----------------------------------------------------------------------------
(***************************************************************************)
(* Rendering.                                                              *)
(***************************************************************************)
RenderUnmatchedCommands(commands, matched) == SelectSeq(commands, LAMBDA c : c \notin matched)

RenderDPad(commands) ==
    SelectSeq(kDPadOrder, LAMBDA c : c \in ToSet(commands))
    \o RenderUnmatchedCommands(commands, ToSet(kDPadOrder))

RenderNumericKeypad(commands) ==
    LET placed == SelectSeq(kKeypadOrder, LAMBDA c : c \in ToSet(commands))
    IN  placed \o RenderUnmatchedCommands(commands, ToSet(placed))

RenderControlGroup(group) ==
    IF group.name = "NumericBasic" THEN RenderNumericKeypad(group.commands)
    ELSE IF group.name = "NavigationBasic" THEN RenderDPad(group.commands)
    ELSE group.commands

-----------------------------------------------------------------------------
(***************************************************************************)
(* The views.                                                              *)
(***************************************************************************)
\* The hub is removed or configured, on the connection's thread.
HubConfigured ==
    /\ ~config_event /\ touches_left > 0 /\ touches_left' = touches_left - 1
    /\ configured' = ~configured /\ config_event' = TRUE
    /\ UNCHANGED <<device, devices_view, command_buttons, long_presses, finger, commands_sent>>

\* RebuildDeviceList(): a hub that is gone hides the command view, under the
\* finger too; the buttons and the tracker stay as they are.
OnConfigUpdated ==
    /\ config_event /\ config_event' = FALSE
    /\ devices_view' = IF ~configured THEN "hint"
                       ELSE IF devices_view = "hint" THEN "list" ELSE devices_view
    /\ UNCHANGED <<device, configured, command_buttons, long_presses, finger, commands_sent,
                   touches_left>>

\* OnDeviceButtonClicked() and ShowDeviceDetail(): the buttons are built anew.
OpenDeviceDetail ==
    /\ devices_view = "list" /\ configured /\ ~finger.down /\ devices_view' = "detail"
    /\ command_buttons' = RenderControlGroup(device[1]) \o RenderControlGroup(device[2])
    /\ long_presses' = {}
    /\ UNCHANGED <<device, configured, config_event, finger, commands_sent, touches_left>>

\* OnBackButtonClicked() and ShowDeviceList(); another device may be next.
BackToDeviceList ==
    /\ devices_view = "detail" /\ ~finger.down
    /\ devices_view' = IF configured THEN "list" ELSE "hint"
    /\ device' \in {device, <<device[2], device[1]>>}
    /\ UNCHANGED <<configured, config_event, command_buttons, long_presses, finger, commands_sent,
                   touches_left>>

-----------------------------------------------------------------------------
(***************************************************************************)
(* A touch on a command button, as LVGL reports it.                        *)
(***************************************************************************)
TouchDown(button) ==
    /\ devices_view = "detail" /\ ~finger.down
    /\ touches_left > 0 /\ touches_left' = touches_left - 1
    /\ finger' = [NoTouch EXCEPT !.down = TRUE, !.button = button] /\ commands_sent' = <<>>
    /\ UNCHANGED <<device, configured, config_event, devices_view, command_buttons, long_presses>>

\* The touch becomes a scroll.
Scroll ==
    /\ finger.down /\ ~finger.scrolling /\ finger' = [finger EXCEPT !.scrolling = TRUE]
    /\ UNCHANGED <<device, configured, config_event, devices_view, command_buttons,
                   long_presses, commands_sent, touches_left>>

\* LVGL may go on reporting a touch whose button was hidden under it, or drop
\* it: no handler is registered for LV_EVENT_PRESS_LOST.  On a button that is
\* visible its press lock keeps the touch.
TouchLost ==
    /\ finger.down /\ devices_view # "detail"
    /\ finger' = [finger EXCEPT !.down = FALSE, !.lost = TRUE]
    /\ UNCHANGED <<device, configured, config_event, devices_view, command_buttons,
                   long_presses, commands_sent, touches_left>>

\* OnLongPressed(): never once the touch is a scroll.
OnLongPressed ==
    /\ finger.down /\ ~finger.scrolling /\ ~finger.long
    /\ finger' = [finger EXCEPT !.long = TRUE]
    /\ long_presses' = long_presses \cup {finger.button} /\ commands_sent' = Append(commands_sent, "press")
    /\ UNCHANGED <<device, configured, config_event, devices_view, command_buttons, touches_left>>

OnLongPressRepeat ==
    /\ finger.down /\ ~finger.scrolling /\ finger.long /\ Len(commands_sent) <= MaxHolds
    /\ commands_sent' = Append(commands_sent, "hold")
    /\ UNCHANGED <<device, configured, config_event, devices_view, command_buttons,
                   long_presses, finger, touches_left>>

\* Mutant of OnCommandButtonReleased: a scroll never sends anything.
OnCommandButtonReleasedScrollFirst ==
    /\ finger.down /\ finger' = [finger EXCEPT !.down = FALSE]
    /\ commands_sent' = commands_sent \o (IF finger.scrolling THEN <<>>
                        ELSE IF finger.button \in long_presses THEN <<"release">>
                        ELSE <<"press", "release">>)
    /\ long_presses' = long_presses \ {finger.button}
    /\ UNCHANGED <<device, configured, config_event, devices_view, command_buttons, touches_left>>

\* OnReleased(): a long press is released whatever became of the touch.
OnCommandButtonReleased ==
    /\ finger.down /\ finger' = [finger EXCEPT !.down = FALSE]
    /\ commands_sent' = commands_sent \o (IF finger.button \in long_presses THEN <<"release">>
                        ELSE IF finger.scrolling THEN <<>> ELSE <<"press", "release">>)
    /\ long_presses' = long_presses \ {finger.button}
    /\ UNCHANGED <<device, configured, config_event, devices_view, command_buttons, touches_left>>

ButtonsInit ==
    /\ device \in {<<g, [name |-> "Volume", commands |-> <<"Mute">>]>> : g \in Groups}
    /\ configured = TRUE /\ config_event = FALSE /\ devices_view = "list"
    /\ command_buttons = <<>> /\ long_presses = {} /\ finger = NoTouch /\ commands_sent = <<>>
    /\ touches_left = MaxTouches

ButtonsNext ==
    \/ HubConfigured \/ OnConfigUpdated \/ OpenDeviceDetail \/ BackToDeviceList
    \/ \E button \in DOMAIN command_buttons : TouchDown(button)
    \/ Scroll \/ TouchLost \/ OnLongPressed \/ OnLongPressRepeat \/ OnCommandButtonReleased

ButtonsSpec == ButtonsInit /\ [][ButtonsNext]_button_vars

-----------------------------------------------------------------------------
(***************************************************************************)
(* Properties.                                                             *)
(***************************************************************************)
\* The command view has exactly one button for every command of the device:
\* the keypad and the cross lose none and repeat none.
EveryCommandOnce ==
    devices_view = "detail" =>
        LET all == device[1].commands \o device[2].commands
        IN  \A c \in ToSet(all) :
              Len(SelectSeq(command_buttons, LAMBDA b : b = c))
                = Len(SelectSeq(all, LAMBDA b : b = c))

\* A press and then only holds.
Held(s) == /\ Len(s) >= 1 /\ s[1] = "press"
           /\ \A i \in 2..Len(s) : s[i] = "hold"

\* A touch that is released, also one whose view was hidden under it meanwhile,
\* has sent a tap's press and release, a long press's press, holds and release,
\* or, when it was a scroll, nothing.  A touch that LVGL drops has sent no more
\* than the beginning of one, which may leave a long press pressed; what it left
\* in the tracker never makes a later touch send a release without a press.
TouchSends ==
    ~finger.down /\ finger.button # 0 =>
        IF finger.lost THEN IF finger.long THEN Held(commands_sent) ELSE commands_sent = <<>>
        ELSE IF finger.long THEN Held(Front(commands_sent)) /\ Last(commands_sent) = "release"
        ELSE commands_sent = IF finger.scrolling THEN <<>> ELSE <<"press", "release">>

\* The device detail of devices_screen.cpp: the buttons are the device's
\* commands and every touch on one sends a complete sequence, or the beginning
\* of one when LVGL drops it.
ButtonsSafe == EveryCommandOnce /\ TouchSends
=============================================================================
