---------------------------- MODULE KodiControls ----------------------------
(***************************************************************************)
(* The parts of the Touch UI that show what Kodi does and control it: the  *)
(* dashboard's KodiWidget, NowPlayingScreen and KodiRemoteScreen.  All     *)
(* three live as long as the application, subscribe to the client's two    *)
(* events and re-read Snapshot() when one reaches the UI thread; none      *)
(* refreshes when it is opened.                                            *)
(*                                                                         *)
(* Of the client (KodiClient, KodiDiscovery) this module keeps what a      *)
(* subscriber can tell apart: the order in which the connection loop       *)
(* writes the snapshot, and which of its writes are followed by an event.  *)
(* A write and its event are two steps, since Publish() runs after mutex_  *)
(* is released.  Position, duration and layout are left out.               *)
(***************************************************************************)
EXTENDS Naturals

CONSTANTS PlayedTitles,  \* what Kodi can play
          NoTitle,       \* a title not known, of add-on playback
          MaxPosted      \* bound: events waiting for the UI thread

ASSUME ControlsAssumption ==
    /\ NoTitle \notin PlayedTitles
    /\ MaxPosted \in Nat \ {0}

VARIABLES
    kc_pc,          \* where the connection loop is
    kc_snapshot,    \* state_
    kc_untold,      \* state_ was written, its event is about to be published
    kc_posted,      \* by subscriber: events waiting for the UI thread
    kc_shown,       \* by subscriber: what it displays
    kc_route,       \* the screen in front
    kc_pointless    \* history: a press that could do nothing, without news

control_shared == <<kc_pc, kc_snapshot, kc_untold>>
controls_vars == <<control_shared, kc_posted, kc_shown, kc_route, kc_pointless>>

-----------------------------------------------------------------------------
(* What is displayed. *)

\* KodiNowPlaying, and what is left of it when nothing plays.
NothingPlays == [playback |-> "kInactive", title |-> NoTitle, can_seek |-> FALSE]
KodiNowPlaying ==
    {NothingPlays} \cup [playback : {"kPlaying", "kPaused"},
                         title : PlayedTitles \cup {NoTitle}, can_seek : BOOLEAN]

KodiSnapshot ==
    [state : {"kDisconnected", "kConnecting", "kConnected", "kError"},
     target_configured : BOOLEAN,
     several : BOOLEAN,             \* discovered.size() > 1
     now_playing : KodiNowPlaying,
     library_busy : BOOLEAN]

KodiWidgetLine(s) ==
    CASE s.state = "kConnecting" -> <<"Connecting...">>
      [] s.state = "kError" -> <<"Not reachable">>
      [] s.state = "kDisconnected" ->
            IF s.target_configured THEN <<"Not reachable">>
            ELSE IF s.several THEN <<"Choose a Kodi in settings">>
            ELSE <<"Not configured">>
      [] s.state = "kConnected" ->
            IF s.now_playing.playback = "kInactive" THEN <<"Idle">>
            ELSE <<s.now_playing.playback, s.now_playing.title>>

KodiNowPlayingSubtitle(np) ==
    IF np.playback = "kInactive" THEN <<"Nothing playing">> ELSE <<np.title>>

\* NowPlayingScreen::Refresh(): while hidden, its controls keep what they were.
RefreshNowPlaying(s, old) ==
    IF s.state # "kConnected" THEN [old EXCEPT !.content = FALSE]
    ELSE [content  |-> TRUE,
          busy     |-> s.library_busy,
          subtitle |-> KodiNowPlayingSubtitle(s.now_playing),
          glyph    |-> IF s.now_playing.playback = "kPlaying" THEN "PAUSE" ELSE "PLAY",
          seek     |-> s.now_playing.can_seek]

\* KodiRemoteScreen::Refresh().
RefreshRemote(s, old) ==
    [content |-> s.state = "kConnected", busy |-> s.library_busy]

KodiSubscribers == {"widget", "now_playing", "remote"}

RefreshOf(who, s, old) ==
    CASE who = "widget" -> KodiWidgetLine(s)
      [] who = "now_playing" -> RefreshNowPlaying(s, old)
      [] who = "remote" -> RefreshRemote(s, old)

\* The two screens' controls as they are created, before the first Refresh().
BlankNowPlaying == [content |-> TRUE, busy |-> FALSE, subtitle |-> <<NoTitle>>,
                    glyph |-> "PLAY", seek |-> TRUE]
BlankRemote == [content |-> TRUE, busy |-> FALSE]

-----------------------------------------------------------------------------
(* The connection loop. *)

Loop(from, to) == kc_pc = from /\ kc_pc' = to /\ ~kc_untold

ScreensRest == UNCHANGED <<kc_posted, kc_shown, kc_route, kc_pointless>>

\* ResolveTarget(): a host override, or a browse.  It tells nobody.
ResolveTarget(configured, several, found) ==
    /\ Loop("resolve", IF found THEN "found" ELSE "no_target")
    /\ several /\ ~configured => ~found
    /\ kc_snapshot' = [kc_snapshot EXCEPT !.target_configured = configured,
                                          !.several = several]
    /\ UNCHANGED kc_untold /\ ScreensRest

\* KodiClient::SetState(): only a transition is published.
SetClientState(s) ==
    /\ kc_snapshot' = [kc_snapshot EXCEPT !.state = s]
    /\ kc_untold' = (kc_snapshot.state # s)

NoTargetFound == Loop("no_target", "asleep") /\ SetClientState("kDisconnected") /\ ScreensRest

Connecting == Loop("found", "connect") /\ SetClientState("kConnecting") /\ ScreensRest

\* ConnectAndPrime() forgets what the last connection knew, without an event.
Forgets ==
    /\ Loop("connect", "priming")
    /\ kc_snapshot' = [kc_snapshot EXCEPT !.now_playing = NothingPlays]
    /\ UNCHANGED kc_untold /\ ScreensRest

\* It fails; SetLibraryBusy(false) found nothing to clear.
ConnectionFails ==
    /\ kc_pc \in {"connect", "priming"} /\ ~kc_untold
    /\ kc_pc' = "asleep"
    /\ SetClientState("kError") /\ ScreensRest

Primed == Loop("priming", "connected") /\ SetClientState("kConnected") /\ ScreensRest

\* A poll or a notification that changed something.
NowPlayingChanges(np) ==
    /\ kc_pc \in {"priming", "connected"} /\ ~kc_untold
    /\ np # kc_snapshot.now_playing
    /\ kc_snapshot' = [kc_snapshot EXCEPT !.now_playing = np]
    /\ kc_untold' = TRUE
    /\ UNCHANGED kc_pc /\ ScreensRest

\* SetLibraryBusy().
SetLibraryBusy ==
    /\ kc_pc = "connected" /\ ~kc_untold
    /\ kc_snapshot' = [kc_snapshot EXCEPT !.library_busy = ~@]
    /\ kc_untold' = TRUE
    /\ UNCHANGED kc_pc /\ ScreensRest

\* Mutant of Leaves: library_busy is cleared without an event.
LeavesUntold ==
    /\ Loop("connected", "resolve")
    /\ kc_snapshot' = [kc_snapshot EXCEPT !.library_busy = FALSE]
    /\ UNCHANGED kc_untold /\ ScreensRest

\* The connection ends, or another target is to be resolved: the state stays
\* kConnected until the next SetState().
Leaves ==
    /\ Loop("connected", "resolve")
    /\ kc_snapshot' = [kc_snapshot EXCEPT !.library_busy = FALSE]
    /\ kc_untold' = kc_snapshot.library_busy
    /\ ScreensRest

Wakes == Loop("asleep", "resolve") /\ UNCHANGED <<kc_snapshot, kc_untold>> /\ ScreensRest

\* Publish(): one call per subscriber is posted to the UI thread.
Publish ==
    /\ kc_untold
    /\ \A who \in KodiSubscribers : kc_posted[who] < MaxPosted
    /\ kc_untold' = FALSE
    /\ kc_posted' = [who \in KodiSubscribers |-> kc_posted[who] + 1]
    /\ UNCHANGED <<kc_pc, kc_snapshot, kc_shown, kc_route, kc_pointless>>

-----------------------------------------------------------------------------
(* The UI thread. *)

\* A posted call reaches its subscriber, which re-reads the snapshot.
Dispatch(who) ==
    /\ kc_posted[who] > 0
    /\ kc_posted' = [kc_posted EXCEPT ![who] = @ - 1]
    /\ kc_shown' = [kc_shown EXCEPT ![who] = RefreshOf(who, kc_snapshot, @)]
    /\ UNCHANGED <<control_shared, kc_route, kc_pointless>>

\* Nothing is on its way that the subscriber does not know.
NoNews(who) == ~kc_untold /\ kc_posted[who] = 0

\* KodiWidget::OnTap(), the Remote button and the Home button.
GoTo(from, to) ==
    /\ kc_route = from
    /\ from = "now_playing" /\ to = "remote" => kc_shown["now_playing"].content
    /\ kc_route' = to
    /\ UNCHANGED <<control_shared, kc_posted, kc_shown, kc_pointless>>

Pressed(who, useful) ==
    /\ kc_route = who /\ kc_shown[who].content
    /\ kc_pointless' = (kc_pointless \/ (NoNews(who) /\ ~useful))
    /\ UNCHANGED <<control_shared, kc_posted, kc_shown, kc_route>>

\* NowPlayingScreen::OnActionClicked(), for the actions that queue a command.
OnActionClicked(action) ==
    /\ action = "seek" => kc_shown["now_playing"].seek
    /\ Pressed("now_playing", /\ kc_snapshot.state = "kConnected"
                              /\ action = "seek" => kc_snapshot.now_playing.can_seek)

\* KodiRemoteScreen::OnInputClicked().
OnInputClicked == Pressed("remote", kc_snapshot.state = "kConnected")

-----------------------------------------------------------------------------
FirstSnapshot == [state |-> "kDisconnected", target_configured |-> FALSE,
                  several |-> FALSE, now_playing |-> NothingPlays,
                  library_busy |-> FALSE]

\* The constructors, before AppCore::Start() starts the client.
ControlsInit ==
    /\ kc_pc = "resolve" /\ kc_snapshot = FirstSnapshot /\ kc_untold = FALSE
    /\ kc_posted = [who \in KodiSubscribers |-> 0]
    /\ kc_shown = [who \in KodiSubscribers |->
                      RefreshOf(who, FirstSnapshot,
                              IF who = "remote" THEN BlankRemote ELSE BlankNowPlaying)]
    /\ kc_route = "dashboard" /\ kc_pointless = FALSE

ControlsNext ==
    \/ \E configured, several, found \in BOOLEAN :
          ResolveTarget(configured, several, found)
    \/ NoTargetFound \/ Connecting \/ Forgets \/ ConnectionFails \/ Primed
    \/ \E np \in KodiNowPlaying : NowPlayingChanges(np)
    \/ SetLibraryBusy \/ Leaves \/ Wakes \/ Publish
    \/ \E who \in KodiSubscribers : Dispatch(who)
    \/ GoTo("dashboard", "now_playing") \/ GoTo("now_playing", "remote")
    \/ \E from \in {"now_playing", "remote"} : GoTo(from, "dashboard")
    \/ \E action \in {"seek", "other"} : OnActionClicked(action)
    \/ OnInputClicked

ControlsSpec == ControlsInit /\ [][ControlsNext]_controls_vars

-----------------------------------------------------------------------------
(* Properties *)

Subtitles == {<<"Nothing playing">>} \cup {<<t>> : t \in PlayedTitles \cup {NoTitle}}
NowPlayingControls == [content : BOOLEAN, busy : BOOLEAN, subtitle : Subtitles,
                       glyph : {"PLAY", "PAUSE"}, seek : BOOLEAN]
RemoteControls == [content : BOOLEAN, busy : BOOLEAN]

\* The snapshot and the display of each subscriber have their types.
ControlsTypeOK ==
    /\ kc_pc \in {"resolve", "no_target", "found", "connect", "priming",
                  "connected", "asleep"}
    /\ kc_snapshot \in KodiSnapshot
    /\ kc_untold \in BOOLEAN /\ kc_pointless \in BOOLEAN
    /\ kc_posted \in [KodiSubscribers -> 0..MaxPosted]
    /\ DOMAIN kc_shown = KodiSubscribers
    /\ kc_shown["now_playing"] \in NowPlayingControls
    /\ kc_shown["remote"] \in RemoteControls
    /\ kc_route \in {"dashboard", "now_playing", "remote"}

\* Two displays of a screen the user cannot tell apart: hidden controls do not
\* matter.
LooksLike(a, b) == a.content = b.content /\ (a.content => a = b)

\* now_playing_screen.cpp, kodi_remote_screen.cpp: with no event on its way, a
\* screen looks as if it had been refreshed this moment, in front or not, and
\* although the client forgets, resolves and reconnects without an event and
\* the hidden controls are left as they were.
ScreensCurrent ==
    \A who \in {"now_playing", "remote"} :
        NoNews(who) =>
            LooksLike(kc_shown[who], RefreshOf(who, kc_snapshot, kc_shown[who]))

\* kodi.md: the seek buttons are disabled where a seek would be a silent no-op,
\* and no control is offered without a connection.
NoPointlessPress == ~kc_pointless

\* Whatever the client does between two events, the two screens show it and
\* offer only what it can act on.
ControlsSafe == ControlsTypeOK /\ ScreensCurrent /\ NoPointlessPress

\* docs/architecture/kodi.md: for a saved instance whose Kodi is not running,
\* "KodiSnapshot::target_configured makes the widget read "Not reachable"
\* rather than "Not configured"".
OfflineReadsNotReachable ==
    /\ kc_pc = "asleep" /\ NoNews("widget")
    /\ kc_snapshot.state = "kDisconnected" /\ kc_snapshot.target_configured
    => kc_shown["widget"] = <<"Not reachable">>
=============================================================================
