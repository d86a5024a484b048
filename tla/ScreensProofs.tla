--------------------------- MODULE ScreensProofs ---------------------------
(***************************************************************************)
(* Proofs about the screens and what they are shown from: that they agree  *)
(* with the state behind them, and that the battery is reported as it is,  *)
(* for every value of the constants.                                       *)
(***************************************************************************)
EXTENDS KodiControls, QuickSettings, ActivitiesScreen, BatteryReader, TLAPS

-----------------------------------------------------------------------------
(* KodiControls *)

\* What the silent write of ConnectAndPrime() relies on.
ConnectingPhase ==
    kc_pc \in {"connect", "priming"} => kc_snapshot.state = "kConnecting"

ControlsInv == ControlsTypeOK /\ ConnectingPhase /\ ScreensCurrent /\ NoPointlessPress

\* A screen's Refresh() yields controls, and a second one changes nothing.
LEMMA RefreshNowPlayingTwice ==
    ASSUME NEW s \in KodiSnapshot, NEW old \in NowPlayingControls
    PROVE  /\ RefreshNowPlaying(s, old) \in NowPlayingControls
           /\ LooksLike(RefreshNowPlaying(s, old),
                        RefreshNowPlaying(s, RefreshNowPlaying(s, old)))
  <1>1. /\ s.state \in {"kDisconnected", "kConnecting", "kConnected", "kError"}
        /\ s.now_playing \in KodiNowPlaying /\ s.library_busy \in BOOLEAN
    BY DEF KodiSnapshot
  <1>2. /\ s.now_playing.title \in PlayedTitles \cup {NoTitle}
        /\ s.now_playing.can_seek \in BOOLEAN
    <2>1. CASE s.now_playing = NothingPlays
      BY <2>1 DEF NothingPlays
    <2>2. CASE s.now_playing \in [playback : {"kPlaying", "kPaused"},
                                  title : PlayedTitles \cup {NoTitle}, can_seek : BOOLEAN]
      BY <2>2
    <2>. QED  BY <1>1, <2>1, <2>2 DEF KodiNowPlaying
  <1>3. CASE s.state = "kConnected"
    <2>1. KodiNowPlayingSubtitle(s.now_playing) \in Subtitles
      BY <1>2 DEF KodiNowPlayingSubtitle, Subtitles
    <2>. QED  BY <1>1, <1>2, <1>3, <2>1 DEF RefreshNowPlaying, NowPlayingControls, LooksLike
  <1>4. CASE s.state # "kConnected"
    <2>1. RefreshNowPlaying(s, old) = [old EXCEPT !.content = FALSE]
      BY <1>4 DEF RefreshNowPlaying
    <2>2. RefreshNowPlaying(s, old) \in NowPlayingControls
      BY <2>1 DEF NowPlayingControls
    <2>3. /\ RefreshNowPlaying(s, old).content = FALSE
          /\ RefreshNowPlaying(s, RefreshNowPlaying(s, old)).content = FALSE
      BY <1>4, <2>1, <2>2 DEF RefreshNowPlaying, NowPlayingControls
    <2>. QED  BY <2>2, <2>3 DEF LooksLike
  <1>. QED  BY <1>3, <1>4

LEMMA RefreshRemoteTwice ==
    ASSUME NEW s \in KodiSnapshot, NEW old \in RemoteControls
    PROVE  /\ RefreshRemote(s, old) \in RemoteControls
           /\ LooksLike(RefreshRemote(s, old), RefreshRemote(s, RefreshRemote(s, old)))
  BY DEF KodiSnapshot, RefreshRemote, RemoteControls, LooksLike

\* A write of the snapshot that leaves the three fields a screen reads, or
\* changes them while there is no connection before and after it, cannot be
\* seen.
SameToScreens(s, t) ==
    /\ s.state = t.state
    /\ s.state = "kConnected" => s.now_playing = t.now_playing
    /\ s.library_busy = t.library_busy

LEMMA UnseenWrite ==
    ASSUME NEW s \in KodiSnapshot, NEW t \in KodiSnapshot, SameToScreens(s, t),
           NEW n \in NowPlayingControls, NEW r \in RemoteControls
    PROVE  /\ LooksLike(n, RefreshNowPlaying(s, n)) => LooksLike(n, RefreshNowPlaying(t, n))
           /\ LooksLike(r, RefreshRemote(s, r)) => LooksLike(r, RefreshRemote(t, r))
  <1>1. RefreshRemote(s, r) = RefreshRemote(t, r)
    BY DEF SameToScreens, RefreshRemote
  <1>2. RefreshNowPlaying(s, n) = RefreshNowPlaying(t, n)
    BY DEF SameToScreens, RefreshNowPlaying
  <1>. QED  BY <1>1, <1>2

\* Steps of the loop: either an event follows, or nothing a screen shows was
\* written.
LEMMA LoopStepCurrent ==
    ASSUME ControlsInv, ControlsTypeOK', UNCHANGED <<kc_posted, kc_shown>>,
           kc_untold' \/ (~kc_untold /\ SameToScreens(kc_snapshot, kc_snapshot'))
    PROVE  ScreensCurrent'
  <1>1. CASE kc_untold'
    BY <1>1 DEF ScreensCurrent, NoNews
  <1>2. CASE ~kc_untold /\ SameToScreens(kc_snapshot, kc_snapshot')
    <2>1. /\ kc_snapshot \in KodiSnapshot /\ kc_snapshot' \in KodiSnapshot
          /\ kc_shown["now_playing"] \in NowPlayingControls
          /\ kc_shown["remote"] \in RemoteControls
      BY DEF ControlsInv, ControlsTypeOK
    <2>2. \A who \in {"now_playing", "remote"} : NoNews(who)' => NoNews(who)
      BY <1>2 DEF NoNews
    <2>. QED  BY <1>2, <2>1, <2>2, UnseenWrite DEF ScreensCurrent, RefreshOf, ControlsInv
  <1>. QED  BY <1>1, <1>2

LEMMA PressStep ==
    ASSUME ControlsInv, NEW who \in {"now_playing", "remote"}, NEW useful \in BOOLEAN,
           Pressed(who, useful), NoNews(who) => useful
    PROVE  ControlsInv'
  <1>1. kc_pointless' = FALSE
    BY DEF ControlsInv, NoPointlessPress, Pressed
  <1>2. UNCHANGED <<control_shared, kc_posted, kc_shown, kc_route>>
    BY DEF Pressed
  <1>. QED
    BY <1>1, <1>2 DEF ControlsInv, ControlsTypeOK, ConnectingPhase, ScreensCurrent, NoNews,
                      NoPointlessPress, control_shared

\* kodi_remote_screen.cpp, now_playing_screen.cpp: in every reachable state,
\* whatever the number of events under way, both screens show what the client
\* holds as soon as no event is on its way to them, and no press that could do
\* nothing is possible without one.
THEOREM ControlsSafeHolds == ControlsSpec => []ControlsSafe
<1>1. ControlsInit => ControlsInv
  <2> SUFFICES ASSUME ControlsInit PROVE ControlsInv
    OBVIOUS
  <2>0. /\ kc_shown["now_playing"] = RefreshOf("now_playing", FirstSnapshot, BlankNowPlaying)
        /\ kc_shown["remote"] = RefreshOf("remote", FirstSnapshot, BlankRemote)
        /\ DOMAIN kc_shown = KodiSubscribers
    BY DEF ControlsInit, KodiSubscribers
  <2>1. /\ kc_shown["now_playing"] = [BlankNowPlaying EXCEPT !.content = FALSE]
        /\ kc_shown["remote"] = [content |-> FALSE, busy |-> FALSE]
    BY <2>0 DEF RefreshOf, RefreshNowPlaying, RefreshRemote, FirstSnapshot
  <2>2. /\ kc_shown["now_playing"] \in NowPlayingControls
        /\ kc_shown["now_playing"].content = FALSE
        /\ kc_shown["remote"] \in RemoteControls
    <3>1. <<NoTitle>> \in Subtitles
      BY DEF Subtitles
    <3>2. BlankNowPlaying \in NowPlayingControls
      BY <3>1 DEF BlankNowPlaying, NowPlayingControls
    <3>3. kc_shown["remote"] \in RemoteControls
      BY <2>1 DEF RemoteControls
    <3>4. kc_shown["now_playing"] \in NowPlayingControls
          /\ kc_shown["now_playing"].content = FALSE
      BY <2>1, <3>2 DEF NowPlayingControls
    <3>. QED  BY <3>3, <3>4
  <2>3. kc_snapshot \in KodiSnapshot /\ kc_snapshot.state = "kDisconnected"
    BY DEF ControlsInit, FirstSnapshot, KodiSnapshot, KodiNowPlaying, NothingPlays
  <2>4. ControlsTypeOK
    <3>1. kc_posted \in [KodiSubscribers -> 0..MaxPosted]
      BY ControlsAssumption DEF ControlsInit
    <3>. QED  BY <2>0, <2>2, <2>3, <3>1 DEF ControlsInit, ControlsTypeOK
  <2>5. ScreensCurrent
    <3>1. LooksLike(kc_shown["now_playing"],
                    RefreshNowPlaying(kc_snapshot, kc_shown["now_playing"]))
      <4>1. RefreshNowPlaying(kc_snapshot, kc_shown["now_playing"])
            = [kc_shown["now_playing"] EXCEPT !.content = FALSE]
        BY <2>3 DEF RefreshNowPlaying
      <4>2. [kc_shown["now_playing"] EXCEPT !.content = FALSE].content = FALSE
        BY <2>2 DEF NowPlayingControls
      <4>. QED  BY <4>1, <4>2, <2>2 DEF LooksLike
    <3>2. LooksLike(kc_shown["remote"], RefreshRemote(kc_snapshot, kc_shown["remote"]))
      <4>1. kc_shown["remote"].content = FALSE
        BY <2>1
      <4>2. RefreshRemote(kc_snapshot, kc_shown["remote"]).content
            = (kc_snapshot.state = "kConnected")
        BY DEF RefreshRemote
      <4>3. RefreshRemote(kc_snapshot, kc_shown["remote"]).content = FALSE
        BY <4>2, <2>3, Zenon
      <4>. QED  BY <4>1, <4>3 DEF LooksLike
    <3>. QED  BY <3>1, <3>2 DEF ScreensCurrent, RefreshOf
  <2>. QED
    BY <2>4, <2>5 DEF ControlsInit, ControlsInv, ConnectingPhase, NoPointlessPress
<1>2. ControlsInv /\ [ControlsNext]_controls_vars => ControlsInv'
  <2> SUFFICES ASSUME ControlsInv, [ControlsNext]_controls_vars PROVE ControlsInv'
    OBVIOUS
  <2>t. /\ kc_snapshot \in KodiSnapshot
        /\ kc_shown["now_playing"] \in NowPlayingControls
        /\ kc_shown["remote"] \in RemoteControls
        /\ kc_posted \in [KodiSubscribers -> 0..MaxPosted] /\ MaxPosted \in Nat \ {0}
        /\ DOMAIN kc_shown = KodiSubscribers
    BY ControlsAssumption DEF ControlsInv, ControlsTypeOK
  <2>1. ASSUME NEW configured \in BOOLEAN, NEW several \in BOOLEAN, NEW found \in BOOLEAN,
               ResolveTarget(configured, several, found)
        PROVE  ControlsInv'
    <3>1. kc_snapshot' \in KodiSnapshot /\ SameToScreens(kc_snapshot, kc_snapshot')
      BY <2>1, <2>t DEF ResolveTarget, KodiSnapshot, SameToScreens
    <3>2. ControlsTypeOK'
      BY <2>1, <3>1 DEF ResolveTarget, Loop, ScreensRest, ControlsInv, ControlsTypeOK
    <3>3. ScreensCurrent'
      BY <2>1, <3>1, <3>2, LoopStepCurrent DEF ResolveTarget, Loop, ScreensRest
    <3>. QED
      BY <2>1, <3>2, <3>3
         DEF ResolveTarget, Loop, ScreensRest, ControlsInv, ConnectingPhase, NoPointlessPress
  <2>s. ASSUME NEW s \in {"kDisconnected", "kConnecting", "kConnected", "kError"},
               SetClientState(s), ScreensRest, ~kc_untold,
               kc_pc' \in {"connect", "connected", "asleep"},
               kc_pc' = "connect" => s = "kConnecting"
        PROVE  ControlsInv'
    <3>1. kc_snapshot' \in KodiSnapshot /\ kc_snapshot'.state = s
      BY <2>s, <2>t DEF SetClientState, KodiSnapshot
    <3>2. kc_untold' \in BOOLEAN /\ (kc_untold' \/ SameToScreens(kc_snapshot, kc_snapshot'))
      BY <2>s, <2>t DEF SetClientState, SameToScreens, KodiSnapshot
    <3>3. ControlsTypeOK'
      BY <2>s, <3>1, <3>2 DEF ScreensRest, ControlsInv, ControlsTypeOK
    <3>4. ScreensCurrent'
      BY <2>s, <3>2, <3>3, LoopStepCurrent DEF ScreensRest
    <3>. QED
      BY <2>s, <3>1, <3>3, <3>4 DEF ScreensRest, ControlsInv, ConnectingPhase, NoPointlessPress
  <2>2. CASE NoTargetFound
    BY <2>2, <2>s DEF NoTargetFound, Loop
  <2>3. CASE Connecting
    BY <2>3, <2>s DEF Connecting, Loop
  <2>4. CASE ConnectionFails
    BY <2>4, <2>s DEF ConnectionFails
  <2>5. CASE Primed
    BY <2>5, <2>s DEF Primed, Loop
  <2>6. CASE Forgets
    <3>1. kc_snapshot' \in KodiSnapshot /\ SameToScreens(kc_snapshot, kc_snapshot')
          /\ kc_snapshot'.state = "kConnecting"
      BY <2>6, <2>t DEF Forgets, Loop, KodiSnapshot, SameToScreens, ControlsInv,
                        ConnectingPhase, KodiNowPlaying
    <3>2. ControlsTypeOK'
      BY <2>6, <3>1 DEF Forgets, Loop, ScreensRest, ControlsInv, ControlsTypeOK
    <3>3. ScreensCurrent'
      BY <2>6, <3>1, <3>2, LoopStepCurrent DEF Forgets, Loop, ScreensRest
    <3>. QED
      BY <2>6, <3>1, <3>2, <3>3
         DEF Forgets, Loop, ScreensRest, ControlsInv, ConnectingPhase, NoPointlessPress
  <2>7. ASSUME NEW np \in KodiNowPlaying, NowPlayingChanges(np) PROVE ControlsInv'
    <3>1. kc_snapshot' \in KodiSnapshot /\ kc_snapshot'.state = kc_snapshot.state
      BY <2>7, <2>t DEF NowPlayingChanges, KodiSnapshot
    <3>2. ControlsTypeOK'
      BY <2>7, <3>1 DEF NowPlayingChanges, ScreensRest, ControlsInv, ControlsTypeOK
    <3>3. ScreensCurrent'
      BY <2>7, <3>2, LoopStepCurrent DEF NowPlayingChanges, ScreensRest
    <3>. QED
      BY <2>7, <3>1, <3>2, <3>3
         DEF NowPlayingChanges, ScreensRest, ControlsInv, ConnectingPhase, NoPointlessPress
  <2>8. CASE SetLibraryBusy
    <3>1. kc_snapshot' \in KodiSnapshot
      BY <2>8, <2>t DEF SetLibraryBusy, KodiSnapshot
    <3>2. ControlsTypeOK'
      BY <2>8, <3>1 DEF SetLibraryBusy, ScreensRest, ControlsInv, ControlsTypeOK
    <3>3. ScreensCurrent'
      BY <2>8, <3>2, LoopStepCurrent DEF SetLibraryBusy, ScreensRest
    <3>. QED
      BY <2>8, <3>2, <3>3
         DEF SetLibraryBusy, ScreensRest, ControlsInv, ConnectingPhase, NoPointlessPress
  <2>9. CASE Leaves
    <3>1. kc_snapshot' \in KodiSnapshot /\ kc_untold' \in BOOLEAN
      BY <2>9, <2>t DEF Leaves, KodiSnapshot
    <3>2. kc_untold' \/ SameToScreens(kc_snapshot, kc_snapshot')
      BY <2>9, <2>t DEF Leaves, KodiSnapshot, SameToScreens
    <3>3. ControlsTypeOK'
      BY <2>9, <3>1 DEF Leaves, Loop, ScreensRest, ControlsInv, ControlsTypeOK
    <3>4. ScreensCurrent'
      BY <2>9, <3>2, <3>3, LoopStepCurrent DEF Leaves, Loop, ScreensRest
    <3>. QED
      BY <2>9, <3>3, <3>4
         DEF Leaves, Loop, ScreensRest, ControlsInv, ConnectingPhase, NoPointlessPress
  <2>10. CASE Wakes
    BY <2>10 DEF Wakes, Loop, ScreensRest, ControlsInv, ControlsTypeOK, ConnectingPhase,
                 ScreensCurrent, NoNews, NoPointlessPress
  <2>11. CASE Publish
    <3>1. kc_posted' \in [KodiSubscribers -> 0..MaxPosted]
          /\ \A who \in KodiSubscribers : kc_posted'[who] > 0
      BY <2>11, <2>t DEF Publish
    <3>2. ScreensCurrent'
      BY <3>1 DEF ScreensCurrent, NoNews, KodiSubscribers
    <3>. QED
      BY <2>11, <3>1, <3>2 DEF Publish, ControlsInv, ControlsTypeOK, ConnectingPhase,
                               NoPointlessPress
  <2>12. ASSUME NEW who \in KodiSubscribers, Dispatch(who) PROVE ControlsInv'
    <3> DEFINE old == kc_shown[who]
    <3>1. kc_posted' \in [KodiSubscribers -> 0..MaxPosted]
          /\ \A w \in KodiSubscribers : w # who => kc_posted'[w] = kc_posted[w]
      BY <2>12, <2>t DEF Dispatch
    <3>2. /\ DOMAIN kc_shown' = KodiSubscribers
          /\ kc_shown'[who] = RefreshOf(who, kc_snapshot, kc_shown[who])
          /\ \A w \in KodiSubscribers : w # who => kc_shown'[w] = kc_shown[w]
      BY <2>12, <2>t DEF Dispatch
    <3>3. UNCHANGED <<kc_pc, kc_snapshot, kc_untold, kc_route, kc_pointless>>
      BY <2>12 DEF Dispatch, control_shared
    <3>4. kc_shown'["now_playing"] \in NowPlayingControls
          /\ (NoNews("now_playing")' =>
                LooksLike(kc_shown'["now_playing"],
                          RefreshNowPlaying(kc_snapshot, kc_shown'["now_playing"])))
      <4>1. CASE who = "now_playing"
        BY <4>1, <3>2, <2>t, RefreshNowPlayingTwice DEF RefreshOf
      <4>2. CASE who # "now_playing"
        BY <4>2, <3>1, <3>2, <3>3, <2>t DEF KodiSubscribers, ControlsInv, ScreensCurrent,
                                            NoNews, RefreshOf
      <4>. QED  BY <4>1, <4>2
    <3>5. kc_shown'["remote"] \in RemoteControls
          /\ (NoNews("remote")' =>
                LooksLike(kc_shown'["remote"],
                          RefreshRemote(kc_snapshot, kc_shown'["remote"])))
      <4>1. CASE who = "remote"
        BY <4>1, <3>2, <2>t, RefreshRemoteTwice DEF RefreshOf
      <4>2. CASE who # "remote"
        BY <4>2, <3>1, <3>2, <3>3, <2>t DEF KodiSubscribers, ControlsInv, ScreensCurrent,
                                            NoNews, RefreshOf
      <4>. QED  BY <4>1, <4>2
    <3>6. ScreensCurrent'
      BY <3>3, <3>4, <3>5 DEF ScreensCurrent, RefreshOf
    <3>. QED
      BY <3>1, <3>2, <3>3, <3>4, <3>5, <3>6
         DEF ControlsInv, ControlsTypeOK, ConnectingPhase, NoPointlessPress
  <2>13. ASSUME NEW from, NEW to \in {"dashboard", "now_playing", "remote"}, GoTo(from, to)
         PROVE  ControlsInv'
    BY <2>13 DEF GoTo, control_shared, ControlsInv, ControlsTypeOK, ConnectingPhase,
                 ScreensCurrent, NoNews, NoPointlessPress
  <2>14. ASSUME NEW action \in {"seek", "other"}, OnActionClicked(action) PROVE ControlsInv'
    <3> DEFINE useful == /\ kc_snapshot.state = "kConnected"
                         /\ action = "seek" => kc_snapshot.now_playing.can_seek
               shown  == kc_shown["now_playing"]
    <3>1. /\ action = "seek" => shown.seek
          /\ shown.content
          /\ Pressed("now_playing", useful)
      BY <2>14 DEF OnActionClicked, Pressed
    <3>2. ASSUME NoNews("now_playing") PROVE useful
      <4>1. LooksLike(shown, RefreshNowPlaying(kc_snapshot, shown))
        BY <3>2 DEF ControlsInv, ScreensCurrent, RefreshOf
      <4>2. RefreshNowPlaying(kc_snapshot, shown).content
            /\ shown = RefreshNowPlaying(kc_snapshot, shown)
        BY <3>1, <4>1 DEF LooksLike
      <4>3. kc_snapshot.state = "kConnected"
        BY <4>2, <2>t DEF RefreshNowPlaying, NowPlayingControls
      <4>4. shown.seek = kc_snapshot.now_playing.can_seek
        BY <4>2, <4>3 DEF RefreshNowPlaying
      <4>. QED  BY <3>1, <4>3, <4>4
    <3>3. useful \in BOOLEAN
      OBVIOUS
    <3> HIDE DEF useful
    <3>. QED  BY <3>1, <3>2, <3>3, PressStep
  <2>15. CASE OnInputClicked
    <3> DEFINE useful == kc_snapshot.state = "kConnected"
               shown  == kc_shown["remote"]
    <3>1. shown.content /\ Pressed("remote", useful)
      BY <2>15 DEF OnInputClicked, Pressed
    <3>2. ASSUME NoNews("remote") PROVE useful
      <4>1. LooksLike(shown, RefreshRemote(kc_snapshot, shown))
        BY <3>2 DEF ControlsInv, ScreensCurrent, RefreshOf
      <4>. QED  BY <3>1, <4>1 DEF LooksLike, RefreshRemote
    <3>3. useful \in BOOLEAN
      OBVIOUS
    <3> HIDE DEF useful
    <3>. QED  BY <3>1, <3>2, <3>3, PressStep
  <2>16. CASE UNCHANGED controls_vars
    BY <2>16 DEF controls_vars, control_shared, ControlsInv, ControlsTypeOK, ConnectingPhase,
                 ScreensCurrent, NoNews, NoPointlessPress
  <2>. QED
    BY <2>1, <2>2, <2>3, <2>4, <2>5, <2>6, <2>7, <2>8, <2>9, <2>10, <2>11, <2>12, <2>13,
       <2>14, <2>15, <2>16
       DEF ControlsNext
<1>3. ControlsInv => ControlsSafe
  BY DEF ControlsInv, ControlsSafe
<1>. QED  BY <1>1, <1>2, <1>3, PTL DEF ControlsSpec

-----------------------------------------------------------------------------
(* QuickSettings *)

\* The two controls: their types; a stored choice is what the next boot reads;
\* a control under the finger counts as moved.
ControlTypes ==
    /\ qs_stored \in [Controls -> Nat \cup {NotSet, NotANumber}]
    /\ qs_value \in [Controls -> 0..100] /\ qs_value["brightness"] >= 5
    /\ qs_slider \in [Controls -> 0..100] /\ qs_slider["brightness"] >= 5
    /\ qs_chosen \in [Controls -> 0..100 \cup {NotSet}]
    /\ qs_unmoved \subseteq Controls
    /\ qs_power \in PowerStates /\ qs_display \in 0..100 /\ qs_applied \in BOOLEAN
    /\ qs_requested \in BOOLEAN /\ qs_open \in BOOLEAN
    /\ qs_dragged \in Controls \cup {"none"}

ChoiceStored ==
    \A c \in Controls :
        qs_chosen[c] # NotSet => /\ qs_stored[c] = qs_chosen[c]
                                 /\ qs_chosen[c] \in Lowest(c)..100

DraggedMoved == qs_dragged \notin qs_unmoved

ControlInv == /\ ControlTypes /\ ChoiceStored /\ DraggedMoved
              /\ BacklightAgrees /\ SlidersTrue /\ ChoiceSurvives

\* The sound's task: what is pending was news, and nothing is pending behind a
\* tone.
SoundInv ==
    /\ sound_pending \in BOOLEAN /\ sound_playing \in BOOLEAN
    /\ sound_news \in BOOLEAN /\ sound_level \in 0..100
    /\ sound_pending => sound_news
    /\ sound_playing => ~sound_pending
    /\ NoEcho

\* The banner: every running timer was started by the last Show().
BannerInv ==
    /\ banner_queue \in Seq(Messages) /\ banner_text \in Messages \cup {NoMessage}
    /\ banner_age \in Nat /\ banner_timers \subseteq Nat \ {0}
    /\ \A n \in banner_timers : n + banner_age = kAutoDismiss
    /\ FullWindow

QuickInv == ControlInv /\ SoundInv /\ BannerInv

LEMMA ClampRange ==
    ASSUME NEW v \in Int, NEW low \in 0..100
    PROVE  Clamp(v, low, 100) \in low..100 /\ (v \in low..100 => Clamp(v, low, 100) = v)
  BY DEF Clamp

LEMMA ControlFrame ==
    ASSUME ControlInv, UNCHANGED <<control_vars, power_vars, panel_vars>>
    PROVE  ControlInv'
  BY DEF ControlInv, ControlTypes, ChoiceStored, DraggedMoved, BacklightAgrees, SlidersTrue,
         ChoiceSurvives, control_vars, power_vars, panel_vars

LEMMA SoundFrame ==
    ASSUME SoundInv, UNCHANGED sound_vars
    PROVE  SoundInv'
  BY DEF SoundInv, NoEcho, sound_vars

LEMMA BannerFrame ==
    ASSUME BannerInv, UNCHANGED banner_vars
    PROVE  BannerInv'
  BY DEF BannerInv, FullWindow, banner_vars

\* What TransitionTo() puts on the backlight is right for the new state.
LEMMA TransitionStep ==
    ASSUME ControlInv, NEW state \in PowerStates, TransitionTo(state)
    PROVE  ControlInv'
  <1>1. BrightnessIn(state, qs_value["brightness"]) \in 0..100
    BY DEF ControlInv, ControlTypes, Controls, BrightnessIn, Clamp
  <1>2. BacklightAgrees'
    BY DEF TransitionTo, BacklightAgrees, BrightnessIn, Clamp, control_vars, ControlInv,
           ControlTypes, Controls
  <1>. QED
    BY <1>1, <1>2 DEF TransitionTo, ControlInv, ControlTypes, ChoiceStored, DraggedMoved,
                      SlidersTrue, ChoiceSurvives, control_vars, panel_vars

\* A drag: slider and value move together, and the control counts as moved.
LEMMA DragStep ==
    ASSUME ControlInv, NEW c \in Controls, NEW v \in SliderRange(c), OnValueChanged(c, v)
    PROVE  ControlInv'
  <1>1. v \in 0..100 /\ v \in Lowest(c)..100
    BY QuickAssumption DEF SliderRange, Lowest
  <1>2. Clamp(v, Lowest(c), 100) = v
    BY <1>1 DEF Lowest, Clamp
  <1>3. /\ qs_value' = [qs_value EXCEPT ![c] = v]
        /\ qs_slider' = [qs_slider EXCEPT ![c] = v]
        /\ qs_unmoved' = qs_unmoved \ {c} /\ qs_dragged' = c
        /\ UNCHANGED <<qs_stored, qs_power, qs_chosen, qs_requested, qs_open>>
        /\ qs_open
    BY <1>2 DEF OnValueChanged, SetValue
  <1>4. /\ qs_display' = IF c = "brightness" /\ qs_power = "kActive" THEN v ELSE qs_display
        /\ qs_applied' = (qs_applied \/ (c = "brightness" /\ qs_power = "kActive"))
    BY <1>2 DEF OnValueChanged, SetValue
  <1>5. ControlTypes'
    <2>1. /\ qs_value' \in [Controls -> 0..100] /\ qs_value'["brightness"] >= 5
          /\ qs_slider' \in [Controls -> 0..100] /\ qs_slider'["brightness"] >= 5
      BY <1>1, <1>3 DEF ControlInv, ControlTypes, Controls, Lowest
    <2>2. qs_display' \in 0..100 /\ qs_applied' \in BOOLEAN
      BY <1>1, <1>4 DEF ControlInv, ControlTypes
    <2>. QED  BY <1>3, <2>1, <2>2 DEF ControlInv, ControlTypes
  <1>6. ChoiceStored' /\ DraggedMoved'
    BY <1>3 DEF ControlInv, ChoiceStored, DraggedMoved
  <1>7. SlidersTrue'
    BY <1>3 DEF ControlInv, SlidersTrue
  <1>8. ChoiceSurvives'
    BY <1>3 DEF ControlInv, ControlTypes, ChoiceSurvives
  <1>9. BacklightAgrees'
    <2>1. CASE c = "brightness"
      BY <2>1, <1>1, <1>3, <1>4 DEF ControlInv, ControlTypes, BacklightAgrees, Controls
    <2>2. CASE c # "brightness"
      BY <2>2, <1>3, <1>4 DEF ControlInv, ControlTypes, BacklightAgrees, Controls
    <2>. QED  BY <2>1, <2>2
  <1>. QED  BY <1>5, <1>6, <1>7, <1>8, <1>9 DEF ControlInv

\* A release: what is written is the slider's position, of a control moved.
LEMMA ReleaseStep ==
    ASSUME ControlInv, NEW written \in BOOLEAN, OnReleased(written)
    PROVE  ControlInv'
  <1> DEFINE c == qs_dragged
  <1>1. c \in Controls /\ qs_slider[c] \in Lowest(c)..100 /\ c \notin qs_unmoved
    BY DEF OnReleased, ControlInv, ControlTypes, Controls, DraggedMoved, Lowest
  <1>2. /\ qs_dragged' = "none" /\ "none" \notin Controls
        /\ UNCHANGED <<qs_value, qs_unmoved, power_vars, qs_requested, qs_open, qs_slider>>
    BY DEF OnReleased, Controls
  <1>3. CASE written
    <2>1. /\ qs_stored' = [qs_stored EXCEPT ![c] = qs_slider[c]]
          /\ qs_chosen' = [qs_chosen EXCEPT ![c] = qs_slider[c]]
      BY <1>3 DEF OnReleased, KeyOf
    <2>2. ControlTypes'
      BY <1>1, <1>2, <2>1 DEF ControlInv, ControlTypes, power_vars, Lowest
    <2>3. ChoiceStored' /\ ChoiceSurvives'
      BY <1>1, <1>2, <2>1 DEF ControlInv, ControlTypes, ChoiceStored, ChoiceSurvives
    <2>. QED
      BY <1>2, <2>2, <2>3 DEF ControlInv, ControlTypes, DraggedMoved, BacklightAgrees,
                              SlidersTrue, power_vars
  <1>4. CASE ~written
    <2>1. UNCHANGED <<qs_stored, qs_chosen>>
      BY <1>4 DEF OnReleased
    <2>. QED
      BY <1>2, <2>1 DEF ControlInv, ControlTypes, ChoiceStored, ChoiceSurvives, DraggedMoved,
                        BacklightAgrees, SlidersTrue, power_vars
  <1>. QED  BY <1>3, <1>4

\* A boot: the value in effect is the stored one, clamped.
LEMMA RebootStep ==
    ASSUME ControlInv, QuickReboot
    PROVE  ControlInv'
  <1>1. ASSUME NEW c \in Controls
        PROVE  /\ InitialValue(c) \in Lowest(c)..100
               /\ qs_chosen[c] # NotSet => InitialValue(c) = qs_chosen[c]
    <2>1. qs_stored[c] \in Nat \cup {NotSet, NotANumber} /\ Lowest(c) \in 0..100
      BY DEF ControlInv, ControlTypes, Lowest
    <2>2. ReadIntSetting(qs_stored[c], Fallback(c)) \in Int
      BY <2>1 DEF ReadIntSetting, Fallback
    <2>3. InitialValue(c) \in Lowest(c)..100
      BY <2>1, <2>2, ClampRange DEF InitialValue
    <2>4. ASSUME qs_chosen[c] # NotSet PROVE InitialValue(c) = qs_chosen[c]
      <3>1. qs_stored[c] = qs_chosen[c] /\ qs_chosen[c] \in Lowest(c)..100
        BY <2>4 DEF ControlInv, ChoiceStored
      <3>2. ReadIntSetting(qs_stored[c], Fallback(c)) = qs_chosen[c]
        BY <2>1, <3>1 DEF ReadIntSetting, NotSet, NotANumber
      <3>3. InitialValue(c) = Clamp(qs_chosen[c], Lowest(c), 100)
        BY <3>2 DEF InitialValue
      <3>4. qs_chosen[c] \in Int
        BY <2>1, <3>1
      <3>. QED  BY <2>1, <3>1, <3>3, <3>4, ClampRange
    <2>. QED  BY <2>3, <2>4
  <1>2. /\ qs_value' = [c \in Controls |-> InitialValue(c)]
        /\ qs_slider' = [c \in Controls |-> Lowest(c)]
        /\ qs_unmoved' = Controls /\ qs_dragged' = "none"
        /\ qs_power' = "kActive" /\ qs_display' = 100 /\ qs_applied' = FALSE
        /\ qs_requested' = FALSE /\ qs_open' = FALSE
        /\ UNCHANGED <<qs_stored, qs_chosen>>
    BY DEF QuickReboot
  <1>3. ControlTypes'
    <2>1. \A c \in Controls : Lowest(c) \in 0..100 /\ InitialValue(c) \in 0..100
      BY <1>1 DEF Lowest
    <2>2. InitialValue("brightness") >= 5
      BY <1>1 DEF Lowest, Controls
    <2>3. qs_value' \in [Controls -> 0..100] /\ qs_slider' \in [Controls -> 0..100]
      BY <1>2, <2>1
    <2>4. qs_value'["brightness"] >= 5 /\ qs_slider'["brightness"] >= 5
      BY <1>2, <2>2 DEF Controls, Lowest
    <2>5. /\ qs_applied' \in BOOLEAN /\ qs_requested' \in BOOLEAN /\ qs_open' \in BOOLEAN
          /\ qs_dragged' \in Controls \cup {"none"}
      BY <1>2, Zenon
    <2>6. qs_display' \in 0..100 /\ qs_power' \in PowerStates /\ qs_unmoved' \subseteq Controls
      BY <1>2 DEF PowerStates
    <2>. QED  BY <1>2, <2>3, <2>4, <2>5, <2>6 DEF ControlInv, ControlTypes
  <1>4. ChoiceSurvives'
    BY <1>1, <1>2 DEF ChoiceSurvives
  <1>. QED
    BY <1>2, <1>3, <1>4 DEF ControlInv, ChoiceStored, DraggedMoved, BacklightAgrees,
                            SlidersTrue, Controls

\* quick_settings_panel.cpp, power_manager.cpp, notification_sound.cpp,
\* notification_banner.cpp: for every set of slider positions, stored numbers
\* and messages and every window of the banner, sliders, volume, tone and banner
\* show and keep what the user chose last, through reboots too, and the backlight
\* follows from the first change after a boot on, fully lit until then.
THEOREM QuickSafeHolds == QuickSpec => []QuickSafe
<1>1. QuickInit => QuickInv
  <2> SUFFICES ASSUME QuickInit PROVE QuickInv
    OBVIOUS
  <2>1. ControlInv
    <3>1. ControlTypes
      <4>1. /\ qs_value \in [Controls -> 0..100] /\ qs_value["brightness"] >= 5
            /\ qs_slider \in [Controls -> 0..100] /\ qs_slider["brightness"] >= 5
        BY DEF QuickInit, PanelInit, Controls, Fallback, Lowest
      <4>2. /\ qs_stored \in [Controls -> Nat \cup {NotSet, NotANumber}]
            /\ qs_chosen \in [Controls -> 0..100 \cup {NotSet}]
            /\ qs_unmoved \subseteq Controls
            /\ qs_display \in 0..100 /\ qs_power \in PowerStates
        BY DEF QuickInit, PowerStates
      <4>3. /\ qs_applied \in BOOLEAN /\ qs_requested \in BOOLEAN /\ qs_open \in BOOLEAN
            /\ qs_dragged \in Controls \cup {"none"}
        BY Zenon DEF QuickInit, PanelInit
      <4>. QED  BY <4>1, <4>2, <4>3 DEF ControlTypes
    <3>. QED
      BY <3>1 DEF QuickInit, PanelInit, ControlInv, ChoiceStored, DraggedMoved,
                  BacklightAgrees, SlidersTrue, ChoiceSurvives, Controls
  <2>2. SoundInv
    <3>1. sound_level \in 0..100
      BY DEF QuickInit
    <3>. QED  BY <3>1, Zenon DEF QuickInit, SoundInv, NoEcho
  <2>3. BannerInv
    BY DEF QuickInit, BannerInit, BannerInv, FullWindow
  <2>. QED  BY <2>1, <2>2, <2>3 DEF QuickInv
<1>2. QuickInv /\ [QuickNext]_quick_vars => QuickInv'
  <2> SUFFICES ASSUME QuickInv, [QuickNext]_quick_vars PROVE QuickInv'
    OBVIOUS
  <2>i. ControlInv /\ SoundInv /\ BannerInv
    BY DEF QuickInv
  <2>1. ASSUME NEW state \in PowerStates, TransitionTo(state) PROVE QuickInv'
    BY <2>i, <2>1, TransitionStep, SoundFrame, BannerFrame DEF QuickInv, TransitionTo
  <2>2. CASE OnSettingsIconClicked
    <3>1. ControlInv'
      BY <2>i, <2>2 DEF OnSettingsIconClicked, ControlInv, ControlTypes, ChoiceStored,
                        DraggedMoved, BacklightAgrees, SlidersTrue, ChoiceSurvives,
                        control_vars, power_vars
    <3>. QED  BY <2>i, <2>2, <3>1, SoundFrame, BannerFrame DEF QuickInv, OnSettingsIconClicked
  <2>3. CASE ShowPanel
    <3>1. ControlInv'
      BY <2>i, <2>3 DEF ShowPanel, SliderPositions, ControlInv, ControlTypes, ChoiceStored,
                        DraggedMoved, BacklightAgrees, SlidersTrue, ChoiceSurvives,
                        control_vars, power_vars
    <3>. QED  BY <2>i, <2>3, <3>1, SoundFrame, BannerFrame DEF QuickInv, ShowPanel
  <2>4. CASE HidePanel
    <3>1. ControlInv'
      BY <2>i, <2>4 DEF HidePanel, ControlInv, ControlTypes, ChoiceStored,
                        DraggedMoved, BacklightAgrees, SlidersTrue, ChoiceSurvives,
                        control_vars, power_vars
    <3>. QED  BY <2>i, <2>4, <3>1, SoundFrame, BannerFrame DEF QuickInv, HidePanel
  <2>5. ASSUME NEW c \in Controls, NEW v \in SliderRange(c), OnValueChanged(c, v)
        PROVE  QuickInv'
    BY <2>i, <2>5, DragStep, SoundFrame, BannerFrame DEF QuickInv, OnValueChanged
  <2>6. ASSUME NEW written \in BOOLEAN, OnReleased(written) PROVE QuickInv'
    BY <2>i, <2>6, ReleaseStep, SoundFrame, BannerFrame DEF QuickInv, OnReleased
  <2>7. ASSUME NEW c \in Controls, NEW v \in WebValues \cup {NotANumber},
               PostQuickSetting(c, v)
        PROVE  QuickInv'
    <3>1. v \in Nat \cup {NotSet, NotANumber}
      BY QuickAssumption
    <3>2. ControlTypes'
      BY <2>i, <2>7, <3>1 DEF PostQuickSetting, ControlInv, ControlTypes, power_vars, panel_vars
    <3>3. ChoiceStored' /\ ChoiceSurvives'
      BY <2>i, <2>7 DEF PostQuickSetting, ControlInv, ControlTypes, ChoiceStored, ChoiceSurvives
    <3>4. ControlInv'
      BY <2>i, <2>7, <3>2, <3>3 DEF PostQuickSetting, ControlInv, DraggedMoved,
                                    BacklightAgrees, SlidersTrue, power_vars, panel_vars
    <3>. QED  BY <2>i, <2>7, <3>4, SoundFrame, BannerFrame DEF QuickInv, PostQuickSetting
  <2>8. CASE QuickReboot
    <3>1. SoundInv'
      <4>1. sound_level' \in 0..100
        BY <2>8 DEF QuickReboot
      <4>. QED  BY <2>i, <2>8, <4>1, Zenon DEF QuickReboot, SoundInv, NoEcho
    <3>2. BannerInv'
      BY <2>i, <2>8 DEF QuickReboot, BannerInv, FullWindow
    <3>. QED  BY <2>i, <2>8, <3>1, <3>2, RebootStep DEF QuickInv
  <2>9. ASSUME NEW message \in Messages, Notify(message) PROVE QuickInv'
    <3>1. SoundInv'
      BY <2>i, <2>9 DEF Notify, Pends, SoundInv, NoEcho
    <3>2. BannerInv'
      BY <2>i, <2>9 DEF Notify, BannerInv, FullWindow
    <3>. QED  BY <2>i, <2>9, <3>1, <3>2, ControlFrame DEF QuickInv, Notify
  <2>10. CASE PlayBegins
    <3>1. qs_value["volume"] \in 0..100
      BY <2>i DEF ControlInv, ControlTypes, Controls
    <3>2. SoundInv'
      BY <2>i, <2>10, <3>1 DEF PlayBegins, SoundInv, NoEcho
    <3>. QED  BY <2>i, <2>10, <3>2, ControlFrame, BannerFrame DEF QuickInv, PlayBegins
  <2>11. CASE PlayEnds
    <3>1. SoundInv'
      BY <2>i, <2>11 DEF PlayEnds, SoundInv, NoEcho
    <3>. QED  BY <2>i, <2>11, <3>1, ControlFrame, BannerFrame DEF QuickInv, PlayEnds
  <2>12. CASE ShowBanner
    <3>1. Head(banner_queue) \in Messages /\ Tail(banner_queue) \in Seq(Messages)
      BY <2>i, <2>12 DEF ShowBanner, BannerInv
    <3>2. BannerInv'
      BY <2>i, <2>12, <3>1, QuickAssumption DEF ShowBanner, DismissTimers, BannerInv, FullWindow
    <3>. QED  BY <2>i, <2>12, <3>2, ControlFrame, SoundFrame DEF QuickInv, ShowBanner
  <2>13. CASE BannerTick
    <3> DEFINE left == {n - 1 : n \in banner_timers}
    <3>1. /\ banner_timers' = left \ {0} /\ banner_age' = banner_age + 1
          /\ banner_text' = IF 0 \in left THEN NoMessage ELSE banner_text
          /\ banner_cut' = (banner_cut \/ (0 \in left /\ banner_age + 1 < kAutoDismiss))
          /\ UNCHANGED banner_queue
      BY <2>13 DEF BannerTick
    <3>2. \A m \in left : m \in Nat /\ m + (banner_age + 1) = kAutoDismiss
      BY <2>i DEF BannerInv
    <3>3. 0 \in left => banner_age + 1 = kAutoDismiss
      BY <3>2, <2>i DEF BannerInv
    <3>4. left \ {0} \subseteq Nat \ {0}
      BY <2>i DEF BannerInv
    <3>5. \A n \in banner_timers' : n + banner_age' = kAutoDismiss
      BY <3>1, <3>2
    <3>6. BannerInv'
      <4> HIDE DEF left
      <4>1. banner_age' \in Nat /\ ~(0 \in left /\ banner_age + 1 < kAutoDismiss)
        BY <2>i, <3>1, <3>3 DEF BannerInv
      <4>2. FullWindow'
        BY <2>i, <3>1, <4>1, Zenon DEF BannerInv, FullWindow
      <4>. QED  BY <2>i, <3>1, <3>4, <3>5, <4>1, <4>2 DEF BannerInv
    <3>. QED  BY <2>i, <2>13, <3>6, ControlFrame, SoundFrame DEF QuickInv, BannerTick
  <2>14. CASE UNCHANGED quick_vars
    BY <2>i, <2>14, ControlFrame, SoundFrame, BannerFrame DEF QuickInv, quick_vars
  <2>. QED
    BY <2>1, <2>2, <2>3, <2>4, <2>5, <2>6, <2>7, <2>8, <2>9, <2>10, <2>11, <2>12, <2>13,
       <2>14
       DEF QuickNext
<1>3. QuickInv => QuickSafe
  <2> SUFFICES ASSUME QuickInv PROVE QuickSafe
    OBVIOUS
  <2>1. QuickTypeOK
    <3>1. \A c \in Controls : qs_value[c] \in Lowest(c)..100 /\ qs_slider[c] \in Lowest(c)..100
      BY DEF QuickInv, ControlInv, ControlTypes, Controls, Lowest
    <3>. QED
      BY <3>1, Zenon DEF QuickInv, ControlInv, ControlTypes, SoundInv, BannerInv, QuickTypeOK
  <2>. QED  BY <2>1 DEF QuickInv, ControlInv, SoundInv, BannerInv, QuickSafe
<1>. QED  BY <1>1, <1>2, <1>3, PTL DEF QuickSpec

-----------------------------------------------------------------------------
(* ActivitiesScreen *)

ActivityEvents == [kind : {"state"}, connected : BOOLEAN]
                  \cup [kind : {"activity", "config", "dropped"}]

\* An event of one of the kinds is on its way to the screen.
OnItsWay(kinds, events) == \E i \in DOMAIN events : events[i].kind \in kinds

\* The handlers of these recolour the buttons.
Restyling == {"state", "activity", "config"}

ActivityTypes ==
    /\ hub_config \subseteq Activities /\ listed \subseteq Activities
    /\ has_activities \in BOOLEAN /\ (~has_activities => listed = {})
    /\ act_events \in Seq(ActivityEvents)
    /\ act_buttons \subseteq Activities
    /\ starting \in Activities \cup {NoActivity} /\ command_failed \in BOOLEAN
    /\ tap_number \in Nat /\ start_timer \in 0..tap_number

\* The buttons are the list last read, or the event that rebuilds them is on
\* its way or posted before the connection is up again.
ButtonsFollow ==
    act_buttons = listed \/ hub_state # "connected" \/ OnItsWay({"config"}, act_events)

\* So is a tap's button.
StartingListed ==
    starting # NoActivity =>
        \/ starting \in act_buttons
        \/ ~has_activities \/ hub_state # "connected" \/ OnItsWay({"config"}, act_events)

HighlightFollows ==
    /\ highlighted \subseteq act_buttons
    /\ highlighted = {current_activity} \cap act_buttons \/ OnItsWay(Restyling, act_events)

\* At most one of a pending tap and a remembered failure.
OneStory == starting # NoActivity => ~command_failed

TrackerInv == OneStory /\ StatusAgrees /\ TimeoutOwnTap

ListInv == ButtonsFollow /\ StartingListed /\ HighlightFollows

ActivitiesInv == ActivityTypes /\ TrackerInv /\ ListInv

LEMMA EventsTyped ==
    /\ \A s \in {"connected", "connecting", "error", "disconnected"} :
          StateEvent(s) \in ActivityEvents /\ StateEvent(s).kind = "state"
    /\ \A k \in {"activity", "config", "dropped"} :
          Event(k) \in ActivityEvents /\ Event(k).kind = k
  <1>1. ASSUME NEW s \in {"connected", "connecting", "error", "disconnected"}
        PROVE  StateEvent(s) \in ActivityEvents /\ StateEvent(s).kind = "state"
    <2>1. (s = "connected") \in BOOLEAN
      BY Zenon
    <2>2. ASSUME NEW b \in BOOLEAN PROVE [kind |-> "state", connected |-> b] \in ActivityEvents
      BY DEF ActivityEvents
    <2>. QED  BY <2>1, <2>2, Zenon DEF StateEvent
  <1>2. ASSUME NEW k \in {"activity", "config", "dropped"}
        PROVE  Event(k) \in ActivityEvents /\ Event(k).kind = k
    BY DEF Event, ActivityEvents
  <1>. QED  BY <1>1, <1>2

\* Posting events keeps what is on its way and adds what is posted.
LEMMA Posting ==
    ASSUME NEW E, NEW old \in Seq(E), NEW new \in Seq(E), NEW kinds
    PROVE  /\ old \o new \in Seq(E)
           /\ OnItsWay(kinds, old) => OnItsWay(kinds, old \o new)
           /\ OnItsWay(kinds, new) => OnItsWay(kinds, old \o new)
  <1>1. /\ old \o new \in Seq(E) /\ Len(old \o new) = Len(old) + Len(new)
        /\ \A i \in 1..Len(old) : (old \o new)[i] = old[i]
        /\ \A i \in 1..Len(new) : (old \o new)[Len(old) + i] = new[i]
    OBVIOUS
  <1>2. ASSUME NEW i \in DOMAIN old, old[i].kind \in kinds PROVE OnItsWay(kinds, old \o new)
    BY <1>1, <1>2 DEF OnItsWay
  <1>3. ASSUME NEW i \in DOMAIN new, new[i].kind \in kinds PROVE OnItsWay(kinds, old \o new)
    <2>1. Len(old) + i \in DOMAIN (old \o new) /\ (old \o new)[Len(old) + i] = new[i]
      BY <1>1
    <2>. QED  BY <2>1, <1>3 DEF OnItsWay
  <1>. QED  BY <1>1, <1>2, <1>3 DEF OnItsWay

\* Handling an event of another kind leaves what is on its way.
LEMMA Handling ==
    ASSUME NEW E, NEW events \in Seq(E), events # <<>>, NEW kinds
    PROVE  /\ Tail(events) \in Seq(E) /\ Head(events) \in E
           /\ OnItsWay(kinds, events) /\ Head(events).kind \notin kinds
              => OnItsWay(kinds, Tail(events))
  <1>1. ASSUME NEW i \in DOMAIN events, events[i].kind \in kinds,
               Head(events).kind \notin kinds
        PROVE  OnItsWay(kinds, Tail(events))
    <2>1. i # 1 /\ i \in 2..Len(events)
      BY <1>1
    <2>2. i - 1 \in DOMAIN Tail(events) /\ Tail(events)[i - 1] = events[i]
      BY <2>1
    <2>. QED  BY <1>1, <2>2 DEF OnItsWay
  <1>. QED  BY <1>1 DEF OnItsWay

\* What is on its way when one, two or three events are posted.
LEMMA Posted ==
    ASSUME NEW a \in ActivityEvents, NEW b \in ActivityEvents, NEW kinds
    PROVE  /\ <<a>> \in Seq(ActivityEvents) /\ <<a, b>> \in Seq(ActivityEvents)
           /\ a.kind \in kinds => OnItsWay(kinds, <<a>>) /\ OnItsWay(kinds, <<a, b>>)
           /\ b.kind \in kinds => OnItsWay(kinds, <<a, b>>)
  <1>1. 1 \in DOMAIN <<a>> /\ <<a>>[1] = a /\ 1 \in DOMAIN <<a, b>> /\ 2 \in DOMAIN <<a, b>>
        /\ <<a, b>>[1] = a /\ <<a, b>>[2] = b
    OBVIOUS
  <1>. QED  BY <1>1 DEF OnItsWay

\* A step of the connection leaves the screen alone and posts what announces
\* a new list or a new current activity.
LEMMA HubStep ==
    ASSUME ActivitiesInv, NEW posted \in Seq(ActivityEvents),
           act_events' = act_events \o posted, UNCHANGED <<screen_vars, tap_number>>,
           hub_config' \subseteq Activities, listed' \subseteq Activities,
           has_activities' \in BOOLEAN, ~has_activities' => listed' = {},
           \/ hub_state' # "connected" \/ OnItsWay({"config"}, posted)
           \/ listed' = listed /\ hub_state = "connected" /\ (has_activities' => has_activities),
           current_activity' = current_activity \/ OnItsWay(Restyling, posted)
    PROVE  ActivitiesInv'
  <1>1. ActivityTypes'
    BY Posting DEF ActivitiesInv, ActivityTypes, screen_vars
  <1>2. TrackerInv'
    BY DEF ActivitiesInv, TrackerInv, OneStory, StatusAgrees, TimeoutOwnTap, screen_vars
  <1>3. \A kinds : OnItsWay(kinds, act_events) \/ OnItsWay(kinds, posted)
                  => OnItsWay(kinds, act_events')
    BY Posting, Zenon DEF ActivitiesInv, ActivityTypes
  <1>4. ButtonsFollow' /\ StartingListed'
    BY <1>3, Zenon DEF ActivitiesInv, ListInv, ButtonsFollow, StartingListed, screen_vars
  <1>5. HighlightFollows'
    BY <1>3, Zenon DEF ActivitiesInv, ListInv, HighlightFollows, screen_vars
  <1>. QED  BY <1>1, <1>2, <1>4, <1>5 DEF ActivitiesInv, ListInv

\* A step that posts nothing.
LEMMA QuietStep ==
    ASSUME ActivitiesInv, UNCHANGED <<snapshot_vars, act_events, screen_vars, tap_number>>,
           hub_config' \subseteq Activities
    PROVE  ActivitiesInv'
  <1>1. ActivityTypes'
    BY DEF ActivitiesInv, ActivityTypes, screen_vars, snapshot_vars
  <1>2. TrackerInv'
    BY DEF ActivitiesInv, TrackerInv, OneStory, StatusAgrees, TimeoutOwnTap, screen_vars
  <1>3. ListInv'
    BY DEF ActivitiesInv, ListInv, ButtonsFollow, StartingListed, HighlightFollows,
           screen_vars, snapshot_vars, OnItsWay
  <1>. QED  BY <1>1, <1>2, <1>3 DEF ActivitiesInv

\* A handler that leaves the list of buttons: it takes its event off the
\* queue, ends the wait or leaves it, and colours the buttons if its event
\* asked for that.
LEMMA HandlerStep ==
    ASSUME ActivitiesInv, NEW kind, kind # "config", NextActivitiesEvent(kind),
           UNCHANGED act_buttons, starting' \in {starting, NoActivity},
           \/ highlighted' = {current_activity} \cap act_buttons
           \/ kind \notin Restyling /\ UNCHANGED highlighted
    PROVE  ListInv' /\ act_events' \in Seq(ActivityEvents)
  <1>1. act_events' \in Seq(ActivityEvents)
    BY Handling, Zenon DEF ActivitiesInv, ActivityTypes, NextActivitiesEvent
  <1>2. \A kinds : OnItsWay(kinds, act_events) /\ kind \notin kinds
                  => OnItsWay(kinds, act_events')
    BY Handling, Zenon DEF ActivitiesInv, ActivityTypes, NextActivitiesEvent
  <1>3. UNCHANGED <<hub_state, has_activities, listed, current_activity>>
    BY DEF NextActivitiesEvent, snapshot_vars
  <1>4. OnItsWay({"config"}, act_events) => OnItsWay({"config"}, act_events')
    BY <1>2
  <1>5. ButtonsFollow' /\ StartingListed'
    BY <1>3, <1>4, Zenon DEF ActivitiesInv, ListInv, ButtonsFollow, StartingListed
  <1>6. HighlightFollows'
    <2>1. CASE highlighted' = {current_activity} \cap act_buttons
      BY <2>1, <1>3 DEF HighlightFollows
    <2>2. CASE kind \notin Restyling /\ UNCHANGED highlighted
      BY <2>2, <1>2, <1>3, Zenon DEF ActivitiesInv, ListInv, HighlightFollows
    <2>. QED  BY <2>1, <2>2
  <1>. QED  BY <1>1, <1>5, <1>6 DEF ListInv

\* The kinds of status line that show a wait, and a failure.
Waiting == {"starting", "resent"}
Failing == {"failed", "no response"}

\* The form of StatusAgrees that steps establish.
LEMMA Told ==
    ASSUME NEW kind, NEW tap, NEW failed \in BOOLEAN,
           (kind \in Waiting) <=> (tap # NoActivity), (kind \in Failing) <=> failed
    PROVE  /\ (kind \in {"starting", "resent"}) = (tap # NoActivity)
           /\ (kind \in {"failed", "no response"}) = failed
  <1>1. (kind \in Waiting) = (tap # NoActivity)
    BY SMT
  <1>2. (kind \in Failing) = failed
    BY SMT
  <1>. QED  BY <1>1, <1>2, Zenon DEF Waiting, Failing

\* What RestyleButtons leaves on the status line agrees with the tracker it
\* finds, when the tracker kept its tap or failure or gave it up.
LEMMA RestyleAgrees ==
    ASSUME StatusAgrees, OneStory, command_failed \in BOOLEAN, NEW buttons, RestyleButtons(buttons),
           starting' \in {starting, NoActivity},
           command_failed' \in BOOLEAN, command_failed' => command_failed,
           starting' # NoActivity => ~command_failed'
    PROVE  StatusAgrees' /\ OneStory'
  <1>1. CASE starting' # NoActivity \/ command_failed'
    <2>1. act_status' = act_status
      BY <1>1 DEF RestyleButtons
    <2>2. starting' = starting
      BY <1>1, Zenon DEF OneStory
    <2>3. command_failed' = command_failed
      BY <1>1, <2>2, Zenon DEF OneStory
    <2>. QED  BY <2>1, <2>2, <2>3, Zenon DEF StatusAgrees, OneStory
  <1>2. CASE ~(starting' # NoActivity \/ command_failed')
    <2>1. act_status' = Text(IF Offline THEN "offline" ELSE "blank", NoActivity)
      BY <1>2 DEF RestyleButtons
    <2>2. act_status'.kind \notin Waiting /\ act_status'.kind \notin Failing
      BY <2>1 DEF Text, Waiting, Failing
    <2>. QED  BY <2>2, <1>2, Told, Zenon DEF StatusAgrees, OneStory
  <1>. QED  BY <1>1, <1>2

\* In every interleaving of taps, hub events, drops and the start timer, the
\* Activities screen's status line agrees with its tracker, a timeout blames
\* the tap that armed it, and a screen that has handled every event shows the
\* activities and the current one as last read from the hub.
THEOREM ActivitiesSafeHolds == ActivitiesSpec => []ActivitiesSafe
<1>1. ActivitiesInit => ActivitiesInv
  <2> SUFFICES ASSUME ActivitiesInit PROVE ActivitiesInv
    OBVIOUS
  <2>1. ActivityTypes
    <3>1. /\ hub_config \subseteq Activities /\ act_events \in Seq(ActivityEvents)
          /\ tap_number \in Nat /\ start_timer \in 0..tap_number
      BY DEF ActivitiesInit
    <3>. QED  BY <3>1, Zenon DEF ActivitiesInit, ActivityTypes
  <2>2. TrackerInv
    <3>1. act_status.kind \notin Waiting /\ act_status.kind \notin Failing
      BY DEF ActivitiesInit, Text, Waiting, Failing
    <3>2. starting = NoActivity /\ start_timer = 0 /\ ~command_failed /\ command_failed \in BOOLEAN
      BY Zenon DEF ActivitiesInit
    <3>. QED
      BY <3>1, <3>2, Told, Zenon DEF TrackerInv, OneStory, StatusAgrees, TimeoutOwnTap
  <2>3. ListInv
    BY DEF ActivitiesInit, ListInv, ButtonsFollow, StartingListed, HighlightFollows
  <2>. QED  BY <2>1, <2>2, <2>3 DEF ActivitiesInv
<1>2. ActivitiesInv /\ [ActivitiesNext]_activities_vars => ActivitiesInv'
  <2> SUFFICES ASSUME ActivitiesInv, [ActivitiesNext]_activities_vars PROVE ActivitiesInv'
    OBVIOUS
  <2>n. <<>> \in Seq(ActivityEvents) /\ act_events \in Seq(ActivityEvents)
    BY DEF ActivitiesInv, ActivityTypes
  <2>k. /\ hub_config \subseteq Activities /\ listed \subseteq Activities
        /\ has_activities \in BOOLEAN /\ (~has_activities => listed = {})
    BY DEF ActivitiesInv, ActivityTypes
  <2>e. /\ StateEvent("connected") \in ActivityEvents /\ StateEvent("connecting") \in ActivityEvents
        /\ StateEvent("error") \in ActivityEvents /\ StateEvent("disconnected") \in ActivityEvents
        /\ Event("activity") \in ActivityEvents /\ Event("config") \in ActivityEvents
        /\ Event("dropped") \in ActivityEvents
        /\ Event("activity").kind = "activity" /\ Event("config").kind = "config"
        /\ StateEvent("disconnected").kind = "state"
    BY EventsTyped
  <2>f. ASSUME NEW activity, NEW events \in Seq(ActivityEvents),
               NEW posted,
               posted = (IF current_activity # activity THEN <<Event("activity")>> ELSE <<>>) \o events
        PROVE  /\ posted \in Seq(ActivityEvents)
               /\ current_activity # activity => OnItsWay(Restyling, posted)
    <3> DEFINE first == IF current_activity # activity THEN <<Event("activity")>> ELSE <<>>
    <3>1. first \in Seq(ActivityEvents)
      BY <2>e, <2>n, Posted, Zenon
    <3>2. current_activity # activity => OnItsWay(Restyling, first)
      BY <2>e, Posted DEF Restyling
    <3>. HIDE DEF first
    <3>3. posted = first \o events
      BY <2>f DEF first
    <3>. QED  BY <3>1, <3>2, <3>3, Posting, Zenon
  <2>1. ASSUME NEW activity \in Activities \cup {NoActivity}, HubSwitches(activity)
        PROVE  ActivitiesInv'
    BY <2>1, <2>k, QuietStep DEF HubSwitches
  <2>2. CASE HubReconfigured
    <3>1. hub_config' \subseteq Activities
      BY <2>2 DEF HubReconfigured
    <3>. QED  BY <2>2, <3>1, QuietStep DEF HubReconfigured
  <2>3. CASE Probe
    <3> DEFINE posted == (IF current_activity # hub_activity THEN <<Event("activity")>> ELSE <<>>)
                         \o <<>>
    <3>1. posted \in Seq(ActivityEvents)
          /\ (current_activity # hub_activity => OnItsWay(Restyling, posted))
      BY <2>f, <2>n
    <3>2. /\ act_events' = act_events \o posted /\ current_activity' = hub_activity
          /\ hub_state = "connected" /\ UNCHANGED <<hub_vars, has_activities, listed>>
          /\ UNCHANGED <<screen_vars, tap_number>>
      BY <2>3 DEF Probe, FetchCurrentActivity, PostActivities
    <3>. HIDE DEF posted
    <3>. QED  BY <2>k, <3>1, <3>2, HubStep, Zenon DEF hub_vars
  <2>4. ASSUME NEW state \in {"connecting", "error"}, hub_state' = state,
               PostActivities(<<StateEvent(state)>>),
               \/ UNCHANGED <<has_activities, listed>>
               \/ has_activities' = TRUE /\ listed' = hub_config,
               UNCHANGED <<hub_vars, current_activity, screen_vars, tap_number>>
        PROVE  ActivitiesInv'
    <3>1. <<StateEvent(state)>> \in Seq(ActivityEvents) /\ hub_state' # "connected"
      BY <2>4, <2>e
    <3>. QED  BY <2>4, <2>k, <3>1, HubStep, Zenon DEF hub_vars, PostActivities
  <2>5. CASE ConnectionLost
    BY <2>4, <2>5 DEF ConnectionLost
  <2>6. CASE HubConnectFails
    BY <2>4, <2>6 DEF HubConnectFails
  <2>7. CASE ConnectAgain
    BY <2>4, <2>7 DEF ConnectAgain
  <2>8. CASE FetchConfig
    <3> DEFINE posted == (IF current_activity # hub_activity THEN <<Event("activity")>> ELSE <<>>)
                         \o <<>>
    <3>1. posted \in Seq(ActivityEvents)
          /\ (current_activity # hub_activity => OnItsWay(Restyling, posted))
      BY <2>f, <2>n
    <3>2. /\ \/ act_events' = act_events \o posted /\ current_activity' = hub_activity
             \/ act_events' = act_events \o <<>> /\ current_activity' = current_activity
          /\ hub_state' # "connected" /\ has_activities' = TRUE /\ listed' = hub_config
          /\ UNCHANGED hub_vars /\ UNCHANGED <<screen_vars, tap_number>>
      BY <2>8, <2>n DEF FetchConfig, FetchCurrentActivity, PostActivities
    <3>. HIDE DEF posted
    <3>. QED  BY <2>k, <2>n, <3>1, <3>2, HubStep, Zenon DEF hub_vars
  <2>8a. CASE FetchConfigFails
    BY <2>4, <2>8a DEF FetchConfigFails
  <2>9. CASE Connected
    <3>1. /\ <<StateEvent("connected"), Event("config")>> \in Seq(ActivityEvents)
          /\ OnItsWay({"config"}, <<StateEvent("connected"), Event("config")>>)
      BY <2>e, Posted
    <3>. QED  BY <2>9, <2>k, <3>1, HubStep, Zenon DEF Connected, PostActivities, hub_vars
  <2>10. CASE HubRemoved
    <3> DEFINE first == IF has_activities THEN <<Event("config")>> ELSE <<>>
               second == IF start_queue # <<>> THEN <<Event("dropped")>> ELSE <<>>
               third == <<StateEvent("disconnected")>>
    <3>1. /\ first \in Seq(ActivityEvents) /\ second \in Seq(ActivityEvents)
          /\ third \in Seq(ActivityEvents)
          /\ (has_activities => OnItsWay({"config"}, first))
          /\ OnItsWay(Restyling, third)
      BY <2>e, <2>n, Posted DEF Restyling
    <3>2. /\ act_events' = act_events \o (first \o second \o third)
          /\ current_activity' = NoActivity /\ hub_state' = "disconnected"
          /\ has_activities' = FALSE /\ listed' = {} /\ hub_state' # "connected"
          /\ UNCHANGED <<hub_vars, screen_vars, tap_number>>
      BY <2>10 DEF HubRemoved, PostActivities
    <3>. HIDE DEF first, second, third
    <3>3. /\ first \o second \in Seq(ActivityEvents)
          /\ (has_activities => OnItsWay({"config"}, first \o second))
      BY <3>1, Posting, Zenon
    <3>4. /\ first \o second \o third \in Seq(ActivityEvents)
          /\ (has_activities => OnItsWay({"config"}, first \o second \o third))
          /\ OnItsWay(Restyling, first \o second \o third)
      BY <3>1, <3>3, Posting, Zenon
    <3>. QED  BY <2>k, <3>2, <3>4, HubStep, Zenon DEF hub_vars
  <2>11. CASE CommandsAge
    BY <2>11, <2>k, QuietStep DEF CommandsAge, hub_vars
  <2>12. CASE SendPendingCommands
    <3> DEFINE report == IF Aged(start_queue) # <<>> THEN <<Event("dropped")>> ELSE <<>>
    <3>1. report \in Seq(ActivityEvents)
      BY <2>e, <2>n, Posted, Zenon
    <3>2. /\ hub_state = "connected"
          /\ UNCHANGED <<hub_config, has_activities, listed>>
          /\ UNCHANGED <<screen_vars, tap_number>>
      BY <2>12 DEF SendPendingCommands
    <3>3. \/ UNCHANGED current_activity /\ act_events' = act_events \o report
          \/ \E read : /\ current_activity' = read
                       /\ act_events' = act_events
                            \o ((IF read # current_activity THEN <<Event("activity")>> ELSE <<>>)
                                \o report)
      BY <2>12, Zenon DEF SendPendingCommands, PostActivities
    <3>. HIDE DEF report
    <3>4. CASE UNCHANGED current_activity /\ act_events' = act_events \o report
      BY <2>k, <3>1, <3>2, <3>4, HubStep, Zenon
    <3>5. ASSUME NEW read, current_activity' = read,
                 act_events' = act_events
                    \o ((IF read # current_activity THEN <<Event("activity")>> ELSE <<>>) \o report)
          PROVE  ActivitiesInv'
      <4> DEFINE posted == (IF current_activity # read THEN <<Event("activity")>> ELSE <<>>)
                           \o report
      <4>1. posted \in Seq(ActivityEvents)
            /\ (current_activity # read => OnItsWay(Restyling, posted))
        BY <2>f, <3>1
      <4>2. act_events' = act_events \o posted
        BY <3>5
      <4>. HIDE DEF posted
      <4>. QED  BY <2>k, <3>2, <3>5, <4>1, <4>2, HubStep, Zenon
    <3>. QED  BY <3>3, <3>4, <3>5
  <2>12a. CASE SendFails
    <3>1. /\ <<Event("dropped"), StateEvent("connecting")>> \in Seq(ActivityEvents)
          /\ act_events' = act_events \o <<Event("dropped"), StateEvent("connecting")>>
          /\ hub_state' # "connected"
          /\ UNCHANGED <<hub_config, has_activities, listed, current_activity>>
          /\ UNCHANGED <<screen_vars, tap_number>>
      BY <2>12a, <2>e DEF SendFails, PostActivities
    <3>. QED  BY <2>k, <3>1, HubStep, Zenon
  <2>13. ASSUME NEW activity \in Activities, OnActivityTapped(activity) PROVE ActivitiesInv'
    <3>1. /\ activity \in act_buttons /\ activity # NoActivity
          /\ starting' = activity /\ command_failed' = FALSE /\ tap_number' = tap_number + 1
          /\ act_status' = Text(IF activity = current_activity THEN "resent" ELSE "starting", activity)
          /\ start_timer' \in {0, tap_number'}
          /\ highlighted' = {current_activity} \cap act_buttons
          /\ UNCHANGED <<hub_config, hub_state, has_activities, listed, current_activity,
                         act_events, act_buttons>>
      BY <2>13, ActivitiesAssumption DEF OnActivityTapped, SetTimer, hub_vars, snapshot_vars
    <3>2. ActivityTypes'
      <4>1. tap_number' \in Nat /\ start_timer' \in 0..tap_number'
        BY <3>1 DEF ActivitiesInv, ActivityTypes
      <4>. QED  BY <3>1, <4>1, Zenon DEF ActivitiesInv, ActivityTypes
    <3>3. TrackerInv'
      <4>1. /\ act_status'.kind \in Waiting /\ act_status'.kind \notin Failing
            /\ act_status'.of = activity
        BY <3>1 DEF Text, Waiting, Failing
      <4>2. ~command_failed' /\ command_failed' \in BOOLEAN
        BY <3>1, Zenon
      <4>3. TimeoutOwnTap'
        BY <3>1 DEF TimeoutOwnTap
      <4>4. starting' = activity /\ activity # NoActivity
        BY <3>1
      <4>5. starting' # NoActivity /\ act_status'.of = starting'
        BY <4>1, <4>4
      <4>6. StatusAgrees'
        <5>1. (act_status'.kind \in Waiting) = (starting' # NoActivity)
          BY <4>1, <4>5, SMT
        <5>2. (act_status'.kind \in Failing) = command_failed'
          BY <4>1, <4>2, SMT
        <5>. QED  BY <4>5, <5>1, <5>2, Zenon DEF StatusAgrees, Waiting, Failing
      <4>. QED  BY <4>2, <4>3, <4>6 DEF TrackerInv, OneStory
    <3>4. ListInv'
      BY <3>1 DEF ActivitiesInv, ListInv, ButtonsFollow, StartingListed, HighlightFollows, OnItsWay
    <3>. QED  BY <3>2, <3>3, <3>4 DEF ActivitiesInv
  <2>14. CASE RebuildActivities
    <3>1. /\ act_buttons' = listed /\ highlighted' = {current_activity} \cap listed
          /\ UNCHANGED <<hub_config, hub_state, has_activities, listed, current_activity, tap_number>>
          /\ act_events # <<>> /\ act_events' = Tail(act_events)
      BY <2>14, <2>k DEF RebuildActivities, NextActivitiesEvent, RestyleButtons, hub_vars, snapshot_vars
    <3>2. /\ starting' \in {starting, NoActivity}
          /\ command_failed' \in BOOLEAN /\ (command_failed' => command_failed)
          /\ (starting' # NoActivity => ~command_failed')
          /\ start_timer' \in {0, start_timer}
          /\ (starting' # NoActivity /\ has_activities => starting' \in listed)
      BY <2>14, Zenon DEF RebuildActivities, ActivitiesInv, ActivityTypes, TrackerInv, OneStory
    <3>3. ActivityTypes'
      <4>1. act_events' \in Seq(ActivityEvents)
        BY <2>n, <3>1, Handling, Zenon
      <4>2. start_timer' \in 0..tap_number' /\ tap_number' \in Nat
        BY <3>1, <3>2 DEF ActivitiesInv, ActivityTypes
      <4>. QED  BY <3>1, <3>2, <4>1, <4>2, Zenon DEF ActivitiesInv, ActivityTypes
    <3>4. StatusAgrees' /\ OneStory'
      <4>1. CASE has_activities
        BY <2>14, <4>1, <3>2, RestyleAgrees
           DEF RebuildActivities, ActivitiesInv, ActivityTypes, TrackerInv
      <4>2. CASE ~has_activities
        BY <2>14, <4>2
           DEF RebuildActivities, ActivitiesInv, TrackerInv, StatusAgrees, OneStory
      <4>. QED  BY <4>1, <4>2
    <3>5. TimeoutOwnTap'
      BY <3>1, <3>2 DEF ActivitiesInv, TrackerInv, TimeoutOwnTap
    <3>6. ListInv'
      BY <3>1, <3>2 DEF ListInv, ButtonsFollow, StartingListed, HighlightFollows
    <3>. QED  BY <3>3, <3>4, <3>5, <3>6 DEF ActivitiesInv, TrackerInv
  <2>15. ASSUME NEW kind \in {"activity", "state", "dropped"}, NextActivitiesEvent(kind),
                UNCHANGED act_buttons, starting' \in {starting, NoActivity},
                \/ highlighted' = {current_activity} \cap act_buttons
                \/ kind \notin Restyling /\ UNCHANGED highlighted,
                command_failed' \in BOOLEAN, start_timer' \in {0, start_timer},
                StatusAgrees', OneStory'
         PROVE  ActivitiesInv'
    <3>1. ListInv' /\ act_events' \in Seq(ActivityEvents)
      BY <2>15, HandlerStep
    <3>2. UNCHANGED <<hub_config, has_activities, listed, tap_number>>
      BY <2>15 DEF NextActivitiesEvent, hub_vars, snapshot_vars
    <3>3. ActivityTypes'
      <4>1. start_timer' \in 0..tap_number' /\ tap_number' \in Nat
        BY <2>15, <3>2 DEF ActivitiesInv, ActivityTypes
      <4>. QED  BY <2>15, <3>1, <3>2, <4>1, Zenon DEF ActivitiesInv, ActivityTypes
    <3>4. TimeoutOwnTap'
      BY <2>15, <3>2 DEF ActivitiesInv, TrackerInv, TimeoutOwnTap
    <3>. QED  BY <2>15, <3>1, <3>3, <3>4 DEF ActivitiesInv, TrackerInv
  <2>16. CASE OnCurrentActivityChanged
    <3>1. StatusAgrees' /\ OneStory'
      <4>1. starting' = NoActivity /\ ~command_failed' /\ command_failed' \in BOOLEAN
        BY <2>16, Zenon DEF OnCurrentActivityChanged
      <4>. QED
        BY <2>16, <4>1, RestyleAgrees
           DEF OnCurrentActivityChanged, ActivitiesInv, ActivityTypes, TrackerInv
    <3>. QED  BY <2>15, <2>16, <3>1 DEF OnCurrentActivityChanged, RestyleButtons
  <2>17. CASE OnConnectionStateChanged
    <3>1. /\ starting' \in {starting, NoActivity} /\ start_timer' \in {0, start_timer}
          /\ command_failed' \in BOOLEAN /\ (command_failed' => command_failed)
          /\ (starting' # NoActivity => ~command_failed')
      BY <2>17, Zenon
         DEF OnConnectionStateChanged, ActivitiesInv, ActivityTypes, TrackerInv, OneStory
    <3>2. StatusAgrees' /\ OneStory'
      BY <2>17, <3>1, RestyleAgrees
         DEF OnConnectionStateChanged, ActivitiesInv, ActivityTypes, TrackerInv
    <3>3. /\ NextActivitiesEvent("state") /\ UNCHANGED act_buttons
          /\ highlighted' = {current_activity} \cap act_buttons
      BY <2>17 DEF OnConnectionStateChanged, RestyleButtons
    <3>. QED  BY <2>15, <3>1, <3>2, <3>3
  <2>18. CASE OnCommandDropped
    <3>1. CASE starting = NoActivity
      <4>1. UNCHANGED <<starting, command_failed, act_status, act_buttons, highlighted, start_timer>>
        BY <2>18, <3>1 DEF OnCommandDropped
      <4>2. StatusAgrees' /\ OneStory' /\ command_failed' \in BOOLEAN
        BY <4>1 DEF ActivitiesInv, ActivityTypes, TrackerInv, StatusAgrees, OneStory
      <4>. QED  BY <2>15, <2>18, <4>1, <4>2 DEF OnCommandDropped, Restyling
    <3>2. CASE starting # NoActivity
      <4>1. /\ starting' = NoActivity /\ command_failed' = TRUE
            /\ act_status' = Text("failed", starting)
            /\ UNCHANGED <<act_buttons, highlighted, start_timer>>
        BY <2>18, <3>2 DEF OnCommandDropped
      <4>2. StatusAgrees' /\ OneStory' /\ command_failed' \in BOOLEAN
        <5>1. act_status'.kind \in Failing /\ act_status'.kind \notin Waiting
          BY <4>1 DEF Text, Waiting, Failing
        <5>2. starting' = NoActivity /\ command_failed' /\ command_failed' \in BOOLEAN
          BY <4>1, Zenon
        <5>. QED  BY <5>1, <5>2, Told, Zenon DEF StatusAgrees, OneStory
      <4>. QED  BY <2>15, <2>18, <4>1, <4>2 DEF OnCommandDropped, Restyling
    <3>. QED  BY <3>1, <3>2
  <2>19. CASE OnStartingTimedOut
    <3>1. /\ start_timer' = 0 /\ starting' = NoActivity
          /\ UNCHANGED <<hub_config, hub_state, has_activities, listed, current_activity,
                         act_events, act_buttons, highlighted, tap_number>>
      BY <2>19 DEF OnStartingTimedOut, hub_vars, snapshot_vars
    <3>2. StatusAgrees' /\ OneStory' /\ command_failed' \in BOOLEAN
      <4>1. CASE starting = NoActivity
        BY <2>19, <3>1, <4>1
           DEF OnStartingTimedOut, ActivitiesInv, ActivityTypes, TrackerInv, StatusAgrees, OneStory
      <4>2. CASE starting # NoActivity
        <5>1. command_failed' = TRUE /\ act_status' = Text("no response", starting)
          BY <2>19, <4>2 DEF OnStartingTimedOut
        <5>2. act_status'.kind \in Failing /\ act_status'.kind \notin Waiting
          BY <5>1 DEF Text, Waiting, Failing
        <5>3. command_failed' /\ command_failed' \in BOOLEAN
          BY <5>1, Zenon
        <5>. QED  BY <3>1, <5>2, <5>3, Told, Zenon DEF StatusAgrees, OneStory
      <4>. QED  BY <4>1, <4>2
    <3>3. ActivityTypes' /\ TimeoutOwnTap'
      BY <3>1, <3>2 DEF ActivitiesInv, ActivityTypes, TimeoutOwnTap
    <3>4. ListInv'
      BY <3>1 DEF ActivitiesInv, ListInv, ButtonsFollow, StartingListed, HighlightFollows, OnItsWay
    <3>. QED  BY <3>2, <3>3, <3>4 DEF ActivitiesInv, TrackerInv
  <2>20. CASE UNCHANGED activities_vars
    BY <2>20, <2>k, QuietStep DEF activities_vars, hub_vars
  <2>. QED
    BY <2>1, <2>2, <2>3, <2>5, <2>6, <2>7, <2>8, <2>8a, <2>9, <2>10, <2>11, <2>12, <2>12a, <2>13,
       <2>14, <2>16, <2>17, <2>18, <2>19, <2>20
       DEF ActivitiesNext, HandleActivitiesEvent
<1>3. ActivitiesInv => ActivitiesSafe
  <2> SUFFICES ASSUME ActivitiesInv PROVE ActivitiesSafe
    OBVIOUS
  <2>1. act_events = <<>> => \A kinds : ~OnItsWay(kinds, act_events)
    BY DEF OnItsWay
  <2>2. ActivitiesTypeOK
    BY <2>1 DEF ActivitiesInv, ActivityTypes, ListInv, StartingListed, HighlightFollows,
                ActivitiesTypeOK
  <2>3. ScreenShowsSnapshot
    BY <2>1 DEF ActivitiesInv, ListInv, ButtonsFollow, HighlightFollows, ScreenShowsSnapshot
  <2>. QED  BY <2>2, <2>3 DEF ActivitiesInv, TrackerInv, ActivitiesSafe
<1>. QED  BY <1>1, <1>2, <1>3, PTL DEF ActivitiesSpec

-----------------------------------------------------------------------------
(* BatteryReader *)

Supplies == {"discharging", "charging", "full", "no_pack"}

Jobs == {"none", "low", "critical", "gate", "bar"}
Steps == {"idle", "present", "voltage", "percent", "pin", "ext", "ext_voltage"}
CallStates == [job : Jobs, step : Steps, present : BOOLEAN, full : BOOLEAN,
               excused : BOOLEAN]

\* Which caller runs which job, and the steps a job consists of.
JobOf(t, job) == \/ job = "none"
                 \/ t = "timer" /\ job \in {"low", "critical"}
                 \/ t = "worker" /\ job = "gate"
                 \/ t = "ui" /\ job = "bar"

StepsOf(job) ==
    CASE job = "none" -> {"idle"}
      [] job = "low" -> {"present", "voltage", "percent"}
      [] job = "gate" -> {"percent", "pin", "ext", "ext_voltage"}
      [] OTHER -> {"present", "voltage", "percent", "pin", "ext", "ext_voltage"}

\* What a caller without an excuse knows, at c, of a world with supply s and
\* voltage v: a gate that was never safe; a pack without current behind a
\* voltage read; what the percentage and the pin have told.
Knows(c, s, v) ==
    /\ c.job = "gate" => ~Safe(s, v) /\ c.step # "ext_voltage"
    /\ c.job # "gate" /\ c.step \in {"voltage", "ext_voltage"}
          => s \in {"full", "no_pack"}
    /\ c.step = "ext" => s # "charging"
    /\ c.job = "critical" /\ c.step \in {"pin", "ext", "ext_voltage"} /\ s # "no_pack"
          => PercentOf(v) < kCriticalThresholdPercent
    /\ c.job = "bar" /\ s \in {"discharging", "charging"} /\ c.step # "present"
          => c.present
    /\ c.job = "bar" /\ s \in {"discharging", "charging"} /\ c.step \in {"pin", "ext"}
          => (c.full <=> PercentOf(v) = 100)

CallSound(t, c, s, v) ==
    /\ c \in CallStates
    /\ JobOf(t, c.job) /\ c.step \in StepsOf(c.job)
    /\ c.job = "none" => c = NoCall
    /\ ~c.excused => Knows(c, s, v)

\* What makes ReadingsTrue inductive: what each caller knows is still so, and
\* a pack that was missed once is the one whose voltage was remembered.
WorldInv ==
    /\ supply \in Supplies /\ volts \in PackVolts
    /\ supply = "full" => volts = kMaxVoltage
    /\ changes_left \in Nat /\ faults_left \in Nat

SampleInv ==
    /\ last_voltage \in PackVolts \cup RailVolts \cup {0}
    /\ misses \in 0..1
    /\ misses = 1 => Installed /\ last_voltage = volts

LockInv ==
    /\ holder \in Callers \cup {"nobody"}
    /\ \A t \in Callers : (call[t].step \in {"voltage", "ext_voltage"}) <=> (holder = t)

CallsInv ==
    /\ call = [t \in Callers |-> call[t]] /\ Callers \subseteq {"timer", "worker", "ui"}
    /\ \A t \in Callers : CallSound(t, call[t], supply, volts)

OutcomeTypes ==
    /\ low_bad \in BOOLEAN /\ critical_bad \in BOOLEAN /\ gate_open \in BOOLEAN
    /\ label \in {"usb", "charging", "level"}

ReadingsInv == WorldInv /\ SampleInv /\ LockInv /\ CallsInv /\ OutcomeTypes

LEMMA VoltsTyped ==
    /\ \A v \in PackVolts : v \in Nat /\ v >= kMinVoltage /\ v <= kMaxVoltage
    /\ kMaxVoltage \in PackVolts
    /\ \A v \in RailVolts : v \in Nat /\ v # 0
    /\ kMinVoltage = 640 /\ kMaxVoltage = 840
  BY BatteryAssumption DEF kMinVoltage, kMaxVoltage

LEMMA PercentBounds ==
    /\ \A v \in PackVolts \cup RailVolts : PercentOf(v) \in 0..100
    /\ PercentOf(kMaxVoltage) = 100
  BY VoltsTyped DEF PercentOf

LEMMA NoCallTyped ==
    /\ NoCall \in CallStates /\ NoCall.job = "none" /\ NoCall.step = "idle"
    /\ ~NoCall.excused
    /\ \A t, s, v : CallSound(t, NoCall, s, v)
  BY DEF NoCall, CallStates, Jobs, Steps, CallSound, JobOf, StepsOf, Knows

LEMMA ReadingsInvInit == BatteryInit => ReadingsInv
  <1> SUFFICES ASSUME BatteryInit PROVE ReadingsInv
    OBVIOUS
  <1>1. WorldInv
    BY BatteryAssumption DEF BatteryInit, WorldInv, Supplies
  <1>2. PICK S \in CallerSets : call = [t \in S |-> NoCall]
    BY DEF BatteryInit
  <1>3. Callers = S /\ \A t \in S : call[t] = NoCall
    BY <1>2 DEF Callers
  <1>4. S \subseteq {"timer", "worker", "ui"}
    BY BatteryAssumption
  <1>5. CallsInv
    BY <1>2, <1>3, <1>4, NoCallTyped DEF CallsInv
  <1>6. LockInv
    <2>1. holder = "nobody" /\ "nobody" \notin S
      BY <1>4 DEF BatteryInit
    <2>2. \A t \in S : call[t].step = "idle"
      BY <1>3, NoCallTyped, Zenon
    <2>3. \A t \in S : call[t].step \notin {"voltage", "ext_voltage"} /\ holder # t
      BY <2>1, <2>2
    <2>. QED  BY <1>3, <2>1, <2>3 DEF LockInv
  <1>7. SampleInv
    BY DEF BatteryInit, SampleInv
  <1>8. OutcomeTypes
    BY Zenon DEF BatteryInit, OutcomeTypes
  <1>. QED  BY <1>1, <1>5, <1>6, <1>7, <1>8 DEF ReadingsInv

\* What a change of the world excuses.
Excused(c, s, v) ==
    IF c = NoCall THEN NoCall
    ELSE [c EXCEPT !.excused = @ \/ c.job # "gate" \/ Safe(s, v)]

LEMMA ExcusedSound ==
    ASSUME NEW t, NEW c, NEW s, NEW v, NEW s1, NEW v1, CallSound(t, c, s, v)
    PROVE  CallSound(t, Excused(c, s1, v1), s1, v1) /\ Excused(c, s1, v1).step = c.step
  <1>1. CASE c = NoCall
    BY <1>1, NoCallTyped DEF Excused
  <1>2. CASE c # NoCall
    <2> DEFINE d == Excused(c, s1, v1)
    <2>1. c \in CallStates /\ c.job # "none"
      BY <1>2 DEF CallSound
    <2>2. /\ d \in CallStates /\ d.job = c.job /\ d.step = c.step
          /\ d.excused = (c.excused \/ c.job # "gate" \/ Safe(s1, v1))
      BY <1>2, <2>1 DEF Excused, CallStates, Safe
    <2>3. JobOf(t, d.job) /\ d.step \in StepsOf(d.job)
      BY <2>2 DEF CallSound
    <2>4. ~d.excused => Knows(d, s1, v1)
      <3> SUFFICES ASSUME ~d.excused PROVE Knows(d, s1, v1)
        OBVIOUS
      <3>1. ~c.excused /\ c.job = "gate" /\ ~Safe(s1, v1)
        BY <2>2
      <3>2. c.step # "ext_voltage"
        BY <3>1 DEF CallSound, Knows
      <3>3. s1 # "charging"
        BY <3>1 DEF Safe
      <3>. QED  BY <2>2, <3>1, <3>2, <3>3 DEF Knows
    <2>. QED  BY <2>1, <2>2, <2>3, <2>4 DEF CallSound
  <1>. QED  BY <1>1, <1>2

LEMMA ChangeKeeps ==
    ASSUME ReadingsInv, NEW s \in Supplies, NEW v \in PackVolts, Change(s, v),
           s = "full" => v = kMaxVoltage
    PROVE  ReadingsInv'
  <1>1. WorldInv'
    BY DEF ReadingsInv, WorldInv, Change
  <1>2. SampleInv' /\ OutcomeTypes'
    BY DEF ReadingsInv, SampleInv, OutcomeTypes, outcomes, Change
  <1>3. call' = [t \in Callers |-> Excused(call[t], s, v)]
    BY DEF Change, Excused
  <1>4. Callers' = Callers /\ \A t \in Callers : call'[t] = Excused(call[t], s, v)
    BY <1>3 DEF Callers
  <1>5. supply' = s /\ volts' = v /\ holder' = holder
    BY DEF Change
  <1>6. \A t \in Callers : /\ CallSound(t, call'[t], supply', volts')
                           /\ call'[t].step = call[t].step
    <2> TAKE t \in Callers
    <2>1. CallSound(t, call[t], supply, volts)
      BY DEF ReadingsInv, CallsInv
    <2>. QED  BY <1>4, <1>5, <2>1, ExcusedSound
  <1>7. CallsInv'
    BY <1>3, <1>4, <1>6 DEF ReadingsInv, CallsInv
  <1>8. LockInv'
    BY <1>4, <1>5, <1>6 DEF ReadingsInv, LockInv
  <1>. QED  BY <1>1, <1>2, <1>7, <1>8 DEF ReadingsInv

LEMMA ChangesKeep ==
    ASSUME ReadingsInv,
           Drains \/ Charges \/ ChargeEnds \/ PlugCable \/ UnplugCable \/ RemovePack \/ InsertPack
    PROVE  ReadingsInv' /\ \E s, v : Change(s, v)
  <1>1. PICK s \in Supplies, v \in PackVolts : Change(s, v) /\ (s = "full" => v = kMaxVoltage)
    BY VoltsTyped DEF ReadingsInv, WorldInv, Supplies, Drains, Charges, ChargeEnds, PlugCable,
       UnplugCable, RemovePack, InsertPack
  <1>. QED  BY <1>1, ChangeKeeps

\* A step of one caller: the others keep what they know.
LEMMA StepKeepsCalls ==
    ASSUME ReadingsInv, NEW t \in Callers, NEW c, CallSound(t, c, supply, volts),
           call' = [call EXCEPT ![t] = c], UNCHANGED <<supply, volts>>
    PROVE  /\ CallsInv' /\ Callers' = Callers
           /\ call'[t] = c /\ \A u \in Callers \ {t} : call'[u] = call[u]
  <1>1. Callers' = Callers
    BY DEF Callers
  <1>2. call'[t] = c /\ \A u \in Callers \ {t} : call'[u] = call[u]
    BY DEF Callers
  <1>3. \A u \in Callers : CallSound(u, call'[u], supply', volts')
    BY <1>2, Zenon DEF ReadingsInv, CallsInv
  <1>4. call' = [u \in Callers' |-> call'[u]]
    BY <1>1 DEF Callers
  <1>. QED  BY <1>1, <1>2, <1>3, <1>4 DEF ReadingsInv, CallsInv

\* ... and the lock is its own business.
LEMMA StepKeepsLock ==
    ASSUME ReadingsInv, NEW t \in Callers, Callers' = Callers,
           \A u \in Callers \ {t} : call'[u] = call[u],
           \/ holder' = t /\ holder \in {t, "nobody"} /\ call'[t].step \in {"voltage", "ext_voltage"}
           \/ /\ holder' = "nobody" /\ holder \in {t, "nobody"}
              /\ call'[t].step \notin {"voltage", "ext_voltage"}
           \/ /\ holder' = holder
              /\ call[t].step \notin {"voltage", "ext_voltage"}
              /\ call'[t].step \notin {"voltage", "ext_voltage"}
    PROVE  LockInv'
  <1>1. Callers \subseteq {"timer", "worker", "ui"}
    BY DEF ReadingsInv, CallsInv
  <1>2. "nobody" \notin Callers
    BY <1>1
  <1>. QED  BY <1>2 DEF ReadingsInv, LockInv

\* What ReadingsTrue says of the end of a call.
Truthful == GateJustified /\ LatchesTrue /\ LabelTrue

\* Only the end of a call can break it.
LEMMA NoneEnds ==
    ASSUME \A u \in Callers : call[u].job = "none" \/ call'[u].job = call[u].job
    PROVE  Truthful
  <1>1. ~Ends("worker", "gate") /\ ~Ends("timer", "low") /\ ~Ends("timer", "critical")
        /\ ~Ends("ui", "bar")
    BY DEF Ends
  <1>. QED  BY <1>1 DEF Truthful, GateJustified, LatchesTrue, LabelTrue

\* The outcome of a call that ended without an excuse.
TrueOf(job) ==
    /\ job = "gate" => ~gate_open'
    /\ job = "low" /\ Installed => (low_bad' <=> PercentOf(volts) < kThresholdPercent)
    /\ job = "critical" /\ Installed =>
          (critical_bad' <=> /\ supply = "discharging"
                             /\ PercentOf(volts) < kCriticalThresholdPercent)
    /\ job = "bar" /\ CurrentFlows =>
          label' = IF supply = "charging" /\ PercentOf(volts) < 100 THEN "charging" ELSE "level"

LEMMA OneEnds ==
    ASSUME NEW t \in Callers, \A u \in Callers \ {t} : call'[u] = call[u],
           ~call[t].excused /\ faults_left' = faults_left => TrueOf(call[t].job)
    PROVE  Truthful
  <1>1. \A u, job : Ends(u, job) => u = t /\ job = call[t].job /\ TrueOf(job)
    BY DEF Ends
  <1>. QED  BY <1>1 DEF Truthful, GateJustified, LatchesTrue, LabelTrue, TrueOf

LEMMA BeginKeeps ==
    ASSUME ReadingsInv, NEW t, NEW job, NEW step, Begin(t, job, step),
           \/ t = "timer" /\ job = "low" /\ step = "present"
           \/ t = "worker" /\ job = "gate" /\ step = "percent"
           \/ t = "ui" /\ job = "bar" /\ step = "present"
    PROVE  ReadingsInv' /\ Truthful
  <1> DEFINE c == [NoCall EXCEPT !.job = job, !.step = step,
                                 !.excused = job = "gate" /\ Safe(supply, volts)]
  <1>1. t \in Callers /\ call[t] = NoCall /\ call' = [call EXCEPT ![t] = c]
    BY DEF Begin
  <1>2. /\ c \in CallStates /\ c.job = job /\ c.step = step
        /\ c.excused <=> (job = "gate" /\ Safe(supply, volts))
    BY DEF NoCall, CallStates, Jobs, Steps, Safe
  <1> HIDE DEF c
  <1>3. CallSound(t, c, supply, volts)
    BY <1>2 DEF CallSound, JobOf, StepsOf, Knows
  <1>4. UNCHANGED <<supply, volts, changes_left, faults_left, last_voltage, misses, holder,
                    low_bad, critical_bad, label>>
    BY DEF Begin, physical
  <1>5. /\ CallsInv' /\ Callers' = Callers
        /\ call'[t] = c /\ \A u \in Callers \ {t} : call'[u] = call[u]
    BY <1>1, <1>3, <1>4, StepKeepsCalls
  <1>6. LockInv'
    BY <1>1, <1>2, <1>4, <1>5, NoCallTyped, StepKeepsLock
  <1>7. WorldInv' /\ SampleInv'
    BY <1>4 DEF ReadingsInv, WorldInv, SampleInv, Installed
  <1>8. gate_open' \in BOOLEAN
    BY Zenon DEF Begin
  <1>9. OutcomeTypes'
    BY <1>4, <1>8, Zenon DEF ReadingsInv, OutcomeTypes
  <1>10. Truthful
    BY <1>1, <1>5, NoCallTyped, NoneEnds
  <1>. QED  BY <1>5, <1>6, <1>7, <1>9, <1>10 DEF ReadingsInv

\* Where a caller goes that has decided.
LEMMA DecideKeeps ==
    ASSUME ReadingsInv, NEW t \in Callers, NEW c \in CallStates, c.job = call[t].job,
           c.job # "none", NEW bad \in BOOLEAN, NEW open \in BOOLEAN,
           NEW text \in {"usb", "charging", "level"}, Decide(t, c, bad, open, text)
    PROVE  /\ OutcomeTypes'
           /\ \E d : /\ call' = [call EXCEPT ![t] = d] /\ CallSound(t, d, supply, volts)
                     /\ d.step \in {"idle", "present"}
           /\ c.job = "low" => low_bad' = bad
           /\ c.job = "critical" => critical_bad' = bad
           /\ c.job = "gate" => gate_open' = open
           /\ c.job = "bar" => label' = text
  <1>1. OutcomeTypes'
    BY Zenon DEF ReadingsInv, OutcomeTypes, Decide, Latched
  <1> DEFINE d == IF c.job # "low" THEN NoCall
                  ELSE [NoCall EXCEPT !.job = "critical", !.step = "present"]
  <1>2. call' = [call EXCEPT ![t] = d]
    BY DEF Decide, Finish
  <1>3. CallSound(t, d, supply, volts) /\ d.step \in {"idle", "present"}
    <2>1. CASE c.job # "low"
      BY <2>1, NoCallTyped
    <2>2. CASE c.job = "low"
      <3>1. CallSound(t, call[t], supply, volts)
        BY DEF ReadingsInv, CallsInv
      <3>2. t = "timer"
        BY <2>2, <3>1 DEF CallSound, JobOf
      <3>3. d \in CallStates /\ d.job = "critical" /\ d.step = "present"
        BY <2>2 DEF NoCall, CallStates, Jobs, Steps
      <3>. QED  BY <3>2, <3>3 DEF CallSound, JobOf, StepsOf, Knows
    <2>. QED  BY <2>1, <2>2
  <1>4. /\ c.job = "low" => low_bad' = bad
        /\ c.job = "critical" => critical_bad' = bad
        /\ c.job = "gate" => gate_open' = open
        /\ c.job = "bar" => label' = text
    BY Zenon DEF Decide, Latched
  <1> HIDE DEF d
  <1>. QED  BY <1>1, <1>2, <1>3, <1>4

LEMMA GoesKeeps ==
    ASSUME ReadingsInv, NEW t \in Callers, NEW c \in CallStates, NEW step \in Steps,
           JobOf(t, c.job), step \in StepsOf(c.job), c.job # "none",
           ~c.excused => Knows([c EXCEPT !.step = step], supply, volts), Goes(t, c, step)
    PROVE  /\ OutcomeTypes'
           /\ \E d : /\ call' = [call EXCEPT ![t] = d] /\ CallSound(t, d, supply, volts)
                     /\ d.step = step /\ d.job = c.job
  <1> DEFINE d == [c EXCEPT !.step = step]
  <1>1. d \in CallStates /\ d.step = step /\ d.job = c.job /\ d.excused = c.excused
    BY DEF CallStates
  <1>2. CallSound(t, d, supply, volts)
    BY <1>1 DEF CallSound
  <1>3. call' = [call EXCEPT ![t] = d]
    BY DEF Goes
  <1>4. OutcomeTypes'
    BY Zenon DEF ReadingsInv, OutcomeTypes, Goes, outcomes
  <1> HIDE DEF d
  <1>. QED  BY <1>1, <1>2, <1>3, <1>4

\* A read that failed excuses, and changes the number of faults left.
LEMMA AfterRead ==
    ASSUME ReadingsInv, NEW t \in Callers, NEW ok \in BOOLEAN, Read(ok),
           call[t].step # "idle"
    PROVE  /\ After(t, ok) \in CallStates
           /\ After(t, ok).job = call[t].job /\ After(t, ok).step = call[t].step
           /\ After(t, ok).present = call[t].present /\ After(t, ok).full = call[t].full
           /\ After(t, ok).excused <=> call[t].excused \/ ~ok
           /\ call[t] \in CallStates /\ JobOf(t, call[t].job)
           /\ call[t].step \in StepsOf(call[t].job) /\ call[t].job # "none"
           /\ ~call[t].excused => Knows(call[t], supply, volts)
           /\ faults_left' \in Nat /\ (faults_left' = faults_left => ok)
  <1>1. CallSound(t, call[t], supply, volts)
    BY DEF ReadingsInv, CallsInv
  <1>2. /\ call[t] \in CallStates /\ JobOf(t, call[t].job)
        /\ call[t].step \in StepsOf(call[t].job)
        /\ ~call[t].excused => Knows(call[t], supply, volts)
    BY <1>1 DEF CallSound
  <1>3. call[t].job # "none"
    BY <1>2 DEF StepsOf
  <1>4. /\ After(t, ok) \in CallStates
        /\ After(t, ok).job = call[t].job /\ After(t, ok).step = call[t].step
        /\ After(t, ok).present = call[t].present /\ After(t, ok).full = call[t].full
        /\ After(t, ok).excused <=> call[t].excused \/ ~ok
    BY <1>2 DEF After, CallStates
  <1>5. faults_left' \in Nat /\ (faults_left' = faults_left => ok)
    BY DEF Read, ReadingsInv, WorldInv
  <1>. QED  BY <1>2, <1>3, <1>4, <1>5

\* A read of t keeps the invariant if what t goes on with is sound, and is
\* truthful if t goes on with its job or ends it well.
LEMMA ReadKeeps ==
    ASSUME ReadingsInv, NEW t \in Callers, NEW d, call' = [call EXCEPT ![t] = d],
           CallSound(t, d, supply, volts), UNCHANGED physical, faults_left' \in Nat,
           OutcomeTypes', SampleInv',
           \/ holder' = t /\ holder \in {t, "nobody"} /\ d.step \in {"voltage", "ext_voltage"}
           \/ /\ holder' = "nobody" /\ holder \in {t, "nobody"}
              /\ d.step \notin {"voltage", "ext_voltage"}
           \/ /\ holder' = holder
              /\ call[t].step \notin {"voltage", "ext_voltage"}
              /\ d.step \notin {"voltage", "ext_voltage"},
           \/ d.job = call[t].job
           \/ ~call[t].excused /\ faults_left' = faults_left => TrueOf(call[t].job)
    PROVE  ReadingsInv' /\ Truthful
  <1>1. UNCHANGED <<supply, volts, changes_left>>
    BY DEF physical
  <1>2. /\ CallsInv' /\ Callers' = Callers
        /\ call'[t] = d /\ \A u \in Callers \ {t} : call'[u] = call[u]
    BY <1>1, StepKeepsCalls
  <1>3. LockInv'
    BY <1>2, StepKeepsLock
  <1>4. WorldInv'
    BY <1>1 DEF ReadingsInv, WorldInv
  <1>5. Truthful
    <2>1. CASE d.job = call[t].job
      BY <1>2, <2>1, NoneEnds
    <2>2. CASE ~call[t].excused /\ faults_left' = faults_left => TrueOf(call[t].job)
      BY <1>2, <2>2, OneEnds
    <2>. QED  BY <2>1, <2>2
  <1>. QED  BY <1>2, <1>3, <1>4, <1>5 DEF ReadingsInv

\* IsBatteryPresent() has returned p.
LEMMA PresentKeeps ==
    ASSUME ReadingsInv, NEW t \in Callers, NEW ok \in BOOLEAN, NEW p \in BOOLEAN, Read(ok),
           call[t].step \in {"present", "ext", "voltage", "ext_voltage"},
           Present(t, After(t, ok), p), UNCHANGED physical, SampleInv',
           ok /\ call[t].step \in {"present", "ext"} => CurrentFlows /\ p,
           \/ holder' = "nobody" /\ holder \in {t, "nobody"}
           \/ holder' = holder /\ call[t].step \notin {"voltage", "ext_voltage"}
    PROVE  ReadingsInv' /\ Truthful
  <1> DEFINE c == After(t, ok)
  <1>1. /\ c \in CallStates /\ c.job = call[t].job /\ c.step = call[t].step
        /\ c.present = call[t].present /\ c.full = call[t].full
        /\ c.excused <=> call[t].excused \/ ~ok
        /\ call[t] \in CallStates /\ JobOf(t, call[t].job)
        /\ call[t].step \in StepsOf(call[t].job) /\ call[t].job # "none"
        /\ ~call[t].excused => Knows(call[t], supply, volts)
        /\ faults_left' \in Nat /\ (faults_left' = faults_left => ok)
    BY AfterRead
  <1>2. Present(t, c, p)
    OBVIOUS
  <1> HIDE DEF c
  \* Without an excuse, a current flows or a pack rests or is missing.
  <1>3. ASSUME ~call[t].excused, ok
        PROVE  \/ CurrentFlows /\ p /\ call[t].step \in {"present", "ext"}
               \/ /\ supply \in {"full", "no_pack"}
                  /\ call[t].step \in {"voltage", "ext_voltage"} /\ call[t].job # "gate"
    BY <1>1, <1>3 DEF Knows, StepsOf
  <1>4. Installed /\ supply \in {"full", "no_pack"} =>
           PercentOf(volts) = 100 /\ supply = "full"
    BY PercentBounds DEF ReadingsInv, WorldInv, Installed
  <1>5. CASE call[t].step \in {"ext", "ext_voltage"}
    <2> DEFINE text == IF ~p /\ ~c.full THEN "charging" ELSE "level"
    <2>1. Decide(t, c, ~~p, ~p, text)
      BY <1>1, <1>2, <1>5, Zenon DEF Present, External
    <2>2. (~~p) \in BOOLEAN /\ (~p) \in BOOLEAN
      BY Zenon
    <2>3. text \in {"usb", "charging", "level"}
      OBVIOUS
    <2>4. PICK d : /\ call' = [call EXCEPT ![t] = d] /\ CallSound(t, d, supply, volts)
                   /\ d.step \in {"idle", "present"}
      BY <1>1, <2>1, <2>2, <2>3, DecideKeeps
    <2>5. /\ OutcomeTypes'
          /\ c.job = "critical" => critical_bad' = ~~p
          /\ c.job = "gate" => gate_open' = ~p
          /\ c.job = "bar" => label' = text
      BY <1>1, <2>1, <2>2, <2>3, DecideKeeps
    <2>6. ASSUME ~call[t].excused, ok PROVE TrueOf(call[t].job)
      <3>1. Knows(call[t], supply, volts) /\ call[t].job # "low"
        BY <1>1, <1>5, <2>6 DEF StepsOf
      <3>2. CASE CurrentFlows /\ p /\ call[t].step \in {"present", "ext"}
        <4>1. supply = "discharging"
          BY <1>5, <3>1, <3>2 DEF Knows, CurrentFlows
        <4>2. call[t].job = "gate" => ~gate_open'
          BY <1>1, <2>5, <3>2
        <4>3. call[t].job = "critical" =>
                 critical_bad' /\ PercentOf(volts) < kCriticalThresholdPercent
          BY <1>1, <1>5, <2>5, <3>1, <3>2, <4>1 DEF Knows
        <4>4. call[t].job = "bar" => label' = "level"
          BY <1>1, <2>5, <3>2
        <4>. QED  BY <3>1, <4>1, <4>2, <4>3, <4>4 DEF TrueOf
      <3>3. CASE /\ supply \in {"full", "no_pack"}
                 /\ call[t].step \in {"voltage", "ext_voltage"} /\ call[t].job # "gate"
        <4>1. call[t].job = "critical" => ~Installed
          BY <1>4, <1>5, <3>1, <3>3 DEF Knows, Installed, kCriticalThresholdPercent
        <4>. QED  BY <3>1, <3>3, <4>1 DEF TrueOf, CurrentFlows
      <3>. QED  BY <1>3, <2>6, <3>2, <3>3
    <2>. QED  BY <1>1, <2>4, <2>5, <2>6, ReadKeeps
  <1>6. CASE call[t].step \in {"present", "voltage"} /\ (p \/ call[t].job = "bar")
    <2> DEFINE e == [c EXCEPT !.present = p]
    <2>1. Goes(t, e, "percent")
      BY <1>1, <1>2, <1>6, Zenon DEF Present
    <2>2. /\ e \in CallStates /\ e.job = c.job /\ e.present = p
          /\ e.excused = c.excused
      BY <1>1 DEF CallStates
    <2> HIDE DEF e
    <2>3. call[t].job \in {"low", "critical", "bar"} /\ "percent" \in Steps
          /\ "percent" \in StepsOf(call[t].job)
      BY <1>1, <1>6 DEF StepsOf, CallStates, Jobs, Steps
    <2>4. ~e.excused => Knows([e EXCEPT !.step = "percent"], supply, volts)
      <3> DEFINE q == [e EXCEPT !.step = "percent"]
      <3>1. q.job = c.job /\ q.step = "percent" /\ q.present = p
        BY <2>2 DEF CallStates
      <3> HIDE DEF q
      <3>2. ~e.excused => Knows(q, supply, volts)
        BY <1>1, <1>3, <2>2, <2>3, <3>1 DEF Knows
      <3>. QED  BY <3>2 DEF q
    <2>5. OutcomeTypes' /\ \E d : /\ call' = [call EXCEPT ![t] = d]
                                  /\ CallSound(t, d, supply, volts)
                                  /\ d.step = "percent" /\ d.job = e.job
      BY <1>1, <2>1, <2>2, <2>3, <2>4, GoesKeeps
    <2>6. PICK d : /\ call' = [call EXCEPT ![t] = d] /\ CallSound(t, d, supply, volts)
                   /\ d.step = "percent" /\ d.job = e.job
      BY <2>5
    <2>. QED  BY <1>1, <2>2, <2>5, <2>6, ReadKeeps
  <1>7. CASE call[t].step \in {"present", "voltage"} /\ ~p /\ call[t].job # "bar"
    <2>1. Decide(t, c, FALSE, FALSE, "usb")
      BY <1>1, <1>2, <1>7, Zenon DEF Present
    <2>2. PICK d : /\ call' = [call EXCEPT ![t] = d] /\ CallSound(t, d, supply, volts)
                   /\ d.step \in {"idle", "present"}
      BY <1>1, <2>1, DecideKeeps
    <2>3. OutcomeTypes' /\ (c.job = "low" => low_bad' = FALSE)
                        /\ (c.job = "critical" => critical_bad' = FALSE)
      BY <1>1, <2>1, DecideKeeps
    <2>4. ASSUME ~call[t].excused, ok PROVE TrueOf(call[t].job)
      <3>1. supply \in {"full", "no_pack"} /\ call[t].job # "gate"
        BY <1>3, <1>7, <2>4
      <3>2. Installed => PercentOf(volts) = 100 /\ supply = "full"
        BY <1>4, <3>1
      <3>. QED  BY <1>1, <1>7, <2>3, <3>1, <3>2 DEF TrueOf, kThresholdPercent
    <2>. QED  BY <1>1, <2>2, <2>3, <2>4, ReadKeeps
  <1>. QED  BY <1>5, <1>6, <1>7

LEMMA ReadCurrentKeeps ==
    ASSUME ReadingsInv, NEW t \in Callers, ReadCurrent(t)
    PROVE  ReadingsInv' /\ Truthful
  <1>1. PICK ok \in BOOLEAN :
           /\ Read(ok)
           /\ \/ /\ ~ok \/ CurrentTells
                 /\ Present(t, After(t, ok), ok)
                 /\ misses' = IF ok THEN 0 ELSE misses
                 /\ UNCHANGED holder
              \/ /\ ok /\ ~CurrentTells
                 /\ Goes(t, call[t], IF call[t].step = "ext" THEN "ext_voltage" ELSE "voltage")
                 /\ holder' = t
                 /\ UNCHANGED misses
    BY Zenon DEF ReadCurrent
  <1>2. /\ call[t].step \in {"present", "ext"} /\ holder = "nobody"
        /\ UNCHANGED physical /\ UNCHANGED last_voltage
    BY DEF ReadCurrent
  <1>3. SampleInv'
    <2>1. misses' \in {0, misses}
      BY <1>1
    <2>. QED  BY <1>2, <2>1 DEF ReadingsInv, SampleInv, physical, Installed
  <1>4. CASE /\ ~ok \/ CurrentTells
             /\ Present(t, After(t, ok), ok) /\ UNCHANGED holder
    BY <1>1, <1>2, <1>3, <1>4, PresentKeeps DEF CurrentTells
  <1>5. CASE /\ ok /\ ~CurrentTells /\ holder' = t
             /\ Goes(t, call[t], IF call[t].step = "ext" THEN "ext_voltage" ELSE "voltage")
    <2> DEFINE step == IF call[t].step = "ext" THEN "ext_voltage" ELSE "voltage"
    <2>1. /\ call[t] \in CallStates /\ JobOf(t, call[t].job)
          /\ call[t].step \in StepsOf(call[t].job) /\ call[t].job # "none"
          /\ ~call[t].excused => Knows(call[t], supply, volts)
          /\ faults_left' \in Nat
      BY <1>1, <1>2, AfterRead
    <2>2. step \in {"voltage", "ext_voltage"} /\ step \in Steps
          /\ step \in StepsOf(call[t].job)
      BY <1>2, <2>1 DEF Steps, StepsOf
    <2>3. supply \in {"full", "no_pack"}
      BY <1>5 DEF CurrentTells, CurrentFlows, ReadingsInv, WorldInv, Supplies
    <2>4. ~call[t].excused => Knows([call[t] EXCEPT !.step = step], supply, volts)
      <3> DEFINE q == [call[t] EXCEPT !.step = step]
      <3>1. q.job = call[t].job /\ q.step = step /\ q.present = call[t].present
        BY <2>1 DEF CallStates
      <3> HIDE DEF q
      <3>2. ~call[t].excused => Knows(q, supply, volts)
        BY <1>2, <2>1, <2>3, <3>1 DEF Knows, Safe
      <3>. QED  BY <3>2 DEF q
    <2>5. Goes(t, call[t], step)
      BY <1>5
    <2> HIDE DEF step
    <2>6. OutcomeTypes' /\ \E d : /\ call' = [call EXCEPT ![t] = d]
                                  /\ CallSound(t, d, supply, volts)
                                  /\ d.step = step /\ d.job = call[t].job
      BY <2>1, <2>2, <2>4, <2>5, GoesKeeps
    <2>7. PICK d : /\ call' = [call EXCEPT ![t] = d] /\ CallSound(t, d, supply, volts)
                   /\ d.step = step /\ d.job = call[t].job
      BY <2>6
    <2>. QED  BY <1>2, <1>3, <1>5, <2>1, <2>2, <2>6, <2>7, ReadKeeps
  <1>. QED  BY <1>1, <1>4, <1>5

LEMMA ReadVoltageKeeps ==
    ASSUME ReadingsInv, NEW t \in Callers, ReadVoltage(t)
    PROVE  ReadingsInv' /\ Truthful
  <1>1. PICK ok \in BOOLEAN, v \in BusVolts :
           /\ Read(ok)
           /\ Present(t, After(t, ok), ok /\ Stable(v))
           /\ last_voltage' = IF ok THEN Remember(v) ELSE last_voltage
           /\ misses' = IF ~ok THEN misses
                        ELSE IF Installed /\ ~Stable(v) THEN misses + 1 ELSE 0
           /\ holder' = Released(t, ok)
    BY Zenon DEF ReadVoltage
  <1>2. call[t].step \in {"voltage", "ext_voltage"} /\ UNCHANGED physical
    BY DEF ReadVoltage
  <1>3. holder = t /\ holder' = "nobody"
    BY <1>1, <1>2 DEF ReadingsInv, LockInv, Released
  <1>4. v \in PackVolts \cup RailVolts /\ (Installed => v = volts)
    BY DEF BusVolts, ReadingsInv, WorldInv
  <1>5. misses = 1 => Stable(v)
    <2>1. misses = 1 => last_voltage = v /\ v \in PackVolts
      BY <1>4 DEF ReadingsInv, SampleInv, WorldInv
    <2>2. v \in PackVolts => v \in Nat /\ v # 0
      BY VoltsTyped
    <2>3. v \in Nat => Distance(v, v) = 0
      BY DEF Distance
    <2>. QED  BY <2>1, <2>2, <2>3 DEF Stable, kVoltageStabilityThreshold
  <1>6. SampleInv'
    BY <1>1, <1>2, <1>4, <1>5 DEF ReadingsInv, SampleInv, physical, Installed, Remember
  <1> DEFINE p == ok /\ Stable(v)
  <1>7. Present(t, After(t, ok), p) /\ p \in BOOLEAN
    BY <1>1, Zenon
  <1> HIDE DEF p
  <1>. QED  BY <1>1, <1>2, <1>3, <1>6, <1>7, PresentKeeps

\* A record of a call after its percentage was read.
LEMMA FullTyped ==
    ASSUME NEW a \in CallStates, NEW b \in BOOLEAN
    PROVE  LET c == [a EXCEPT !.full = b]
           IN  /\ c \in CallStates /\ c.job = a.job /\ c.step = a.step
               /\ c.present = a.present /\ c.full = b /\ c.excused = a.excused
  BY DEF CallStates

LEMMA ReadPercentKeeps ==
    ASSUME ReadingsInv, NEW t \in Callers, ReadPercent(t)
    PROVE  ReadingsInv' /\ Truthful
  <1>1. PICK ok \in BOOLEAN, v \in BusVolts :
           LET percent == IF ok THEN PercentOf(v) ELSE FallbackPercent
               e == [After(t, ok) EXCEPT !.full = percent = 100]
           IN  /\ Read(ok)
               /\ IF AsksForPower(e, percent) THEN Goes(t, e, "pin")
                  ELSE Decide(t, e, e.job = "low" /\ percent < kThresholdPercent, TRUE, "usb")
    BY Zenon DEF ReadPercent
  <1>2. /\ call[t].step = "percent" /\ UNCHANGED physical
        /\ UNCHANGED <<last_voltage, holder, misses>>
    BY DEF ReadPercent
  <1> DEFINE percent == IF ok THEN PercentOf(v) ELSE FallbackPercent
             c == [After(t, ok) EXCEPT !.full = percent = 100]
  <1>3. v \in PackVolts \cup RailVolts /\ (Installed => v = volts)
    BY DEF BusVolts, ReadingsInv, WorldInv
  <1>4. percent \in 0..100 /\ (ok /\ Installed => percent = PercentOf(volts))
    BY <1>3, PercentBounds DEF FallbackPercent
  <1>5. Read(ok)
    BY <1>1
  <1>6. /\ call[t] \in CallStates /\ JobOf(t, call[t].job)
        /\ call[t].step \in StepsOf(call[t].job) /\ call[t].job # "none"
        /\ ~call[t].excused => Knows(call[t], supply, volts)
        /\ faults_left' \in Nat /\ (faults_left' = faults_left => ok)
    BY <1>2, <1>5, AfterRead
  <1>7. /\ c \in CallStates /\ c.job = call[t].job /\ c.present = call[t].present
        /\ (c.full <=> percent = 100) /\ (c.excused <=> call[t].excused \/ ~ok)
    <2> DEFINE b == percent = 100
    <2>1. b \in BOOLEAN /\ c = [After(t, ok) EXCEPT !.full = b]
      BY Zenon
    <2>2. /\ After(t, ok) \in CallStates /\ After(t, ok).job = call[t].job
          /\ After(t, ok).present = call[t].present
          /\ After(t, ok).excused <=> call[t].excused \/ ~ok
      BY <1>2, <1>5, AfterRead
    <2>3. /\ c \in CallStates /\ c.job = After(t, ok).job
          /\ c.present = After(t, ok).present /\ c.full = b
          /\ c.excused = After(t, ok).excused
      <3> HIDE DEF b
      <3> HIDE DEF c
      <3>. QED  BY <2>1, <2>2, FullTyped, Zenon
    <2> HIDE DEF c, percent
    <2>4. c.full <=> percent = 100
      BY <2>3, Zenon
    <2>5. c.excused <=> call[t].excused \/ ~ok
      BY <2>2, <2>3, Zenon
    <2>. QED  BY <2>2, <2>3, <2>4, <2>5, Zenon
  <1>8. IF AsksForPower(c, percent) THEN Goes(t, c, "pin")
        ELSE Decide(t, c, c.job = "low" /\ percent < kThresholdPercent, TRUE, "usb")
    BY <1>1
  <1> HIDE DEF c, percent
  <1>9. SampleInv'
    BY <1>2 DEF ReadingsInv, SampleInv, physical, Installed
  <1>10. CASE AsksForPower(c, percent)
    <2>1. "pin" \in Steps /\ "pin" \in StepsOf(c.job)
      BY <1>6, <1>7, <1>10 DEF AsksForPower, Steps, StepsOf
    <2>2. ~c.excused => Knows([c EXCEPT !.step = "pin"], supply, volts)
      <3> DEFINE q == [c EXCEPT !.step = "pin"]
      <3>1. q.job = c.job /\ q.step = "pin" /\ q.present = c.present /\ q.full = c.full
        BY <1>7 DEF CallStates
      <3> HIDE DEF q
      <3>2. ~c.excused => Knows(q, supply, volts)
        BY <1>2, <1>4, <1>6, <1>7, <1>10, <3>1
           DEF Knows, AsksForPower, Installed
      <3>. QED  BY <3>2 DEF q
    <2>3. OutcomeTypes' /\ \E d : /\ call' = [call EXCEPT ![t] = d]
                                  /\ CallSound(t, d, supply, volts)
                                  /\ d.step = "pin" /\ d.job = c.job
      BY <1>6, <1>7, <1>8, <1>10, <2>1, <2>2, GoesKeeps
    <2>4. PICK d : /\ call' = [call EXCEPT ![t] = d] /\ CallSound(t, d, supply, volts)
                   /\ d.step = "pin" /\ d.job = c.job
      BY <2>3
    <2>. QED  BY <1>2, <1>6, <1>7, <1>9, <2>3, <2>4, ReadKeeps
  <1>11. CASE ~AsksForPower(c, percent)
    <2>1. PICK bad \in BOOLEAN :
             /\ Decide(t, c, bad, TRUE, "usb")
             /\ bad <=> c.job = "low" /\ percent < kThresholdPercent
      BY <1>8, <1>11, Zenon
    <2>2. bad <=> c.job = "low" /\ percent < kThresholdPercent
      BY <2>1
    <2>3. PICK d : /\ call' = [call EXCEPT ![t] = d] /\ CallSound(t, d, supply, volts)
                   /\ d.step \in {"idle", "present"}
      BY <1>6, <1>7, <2>1, DecideKeeps
    <2>4. /\ OutcomeTypes'
          /\ c.job = "low" => low_bad' = bad
          /\ c.job = "critical" => critical_bad' = bad
      <3>1. OutcomeTypes'
        BY <2>1, Zenon DEF ReadingsInv, OutcomeTypes, Decide, Latched
      <3>2. /\ c.job = "low" => low_bad' = bad
            /\ c.job = "critical" => critical_bad' = bad
        BY <2>1, Zenon DEF Decide, Latched
      <3>. QED  BY <3>1, <3>2
    <2>5. ASSUME ~call[t].excused, ok PROVE TrueOf(call[t].job)
      <3>1. Knows(call[t], supply, volts)
        BY <1>6, <2>5
      <3>2. call[t].job # "gate"
        BY <1>4, <1>7, <1>11, <2>5, <3>1 DEF Knows, AsksForPower, Safe, Installed,
           kMinBatteryPercent
      <3>3. call[t].job = "bar" => ~CurrentFlows
        BY <1>2, <1>7, <1>11, <3>1 DEF Knows, AsksForPower, CurrentFlows
      <3>4. call[t].job = "low" /\ Installed =>
               (low_bad' <=> PercentOf(volts) < kThresholdPercent)
        BY <1>4, <1>7, <2>2, <2>4, <2>5
      <3>5. call[t].job = "critical" /\ Installed =>
               ~critical_bad' /\ ~(PercentOf(volts) < kCriticalThresholdPercent)
        BY <1>4, <1>7, <1>11, <2>2, <2>4, <2>5 DEF AsksForPower
      <3>. QED  BY <3>2, <3>3, <3>4, <3>5 DEF TrueOf
    <2>. QED  BY <1>2, <1>6, <1>9, <2>3, <2>4, <2>5, ReadKeeps
  <1>. QED  BY <1>10, <1>11

LEMMA ReadPinKeeps ==
    ASSUME ReadingsInv, NEW t \in Callers, ReadPin(t)
    PROVE  ReadingsInv' /\ Truthful
  <1>1. PICK ok \in BOOLEAN :
           /\ Read(ok)
           /\ IF ok /\ supply = "charging" THEN External(t, After(t, ok), TRUE)
              ELSE Goes(t, After(t, ok), "ext")
    BY Zenon DEF ReadPin
  <1>2. /\ call[t].step = "pin" /\ UNCHANGED physical
        /\ UNCHANGED <<last_voltage, holder, misses>>
    BY DEF ReadPin
  <1> DEFINE c == After(t, ok)
  <1>3. /\ c \in CallStates /\ c.job = call[t].job /\ c.step = call[t].step
        /\ c.present = call[t].present /\ c.full = call[t].full
        /\ c.excused <=> call[t].excused \/ ~ok
        /\ call[t] \in CallStates /\ JobOf(t, call[t].job)
        /\ call[t].step \in StepsOf(call[t].job) /\ call[t].job # "none"
        /\ ~call[t].excused => Knows(call[t], supply, volts)
        /\ faults_left' \in Nat /\ (faults_left' = faults_left => ok)
    BY <1>1, <1>2, AfterRead
  <1>4. IF ok /\ supply = "charging" THEN External(t, c, TRUE) ELSE Goes(t, c, "ext")
    BY <1>1
  <1> HIDE DEF c
  <1>5. SampleInv'
    BY <1>2 DEF ReadingsInv, SampleInv, physical, Installed
  <1>6. CASE ok /\ supply = "charging"
    <2> DEFINE text == IF ~c.full THEN "charging" ELSE "level"
    <2>1. Decide(t, c, FALSE, TRUE, text) /\ text \in {"usb", "charging", "level"}
      BY <1>4, <1>6 DEF External
    <2>2. PICK d : /\ call' = [call EXCEPT ![t] = d] /\ CallSound(t, d, supply, volts)
                   /\ d.step \in {"idle", "present"}
      BY <1>3, <2>1, DecideKeeps
    <2>3. /\ OutcomeTypes'
          /\ c.job = "critical" => critical_bad' = FALSE
          /\ c.job = "bar" => label' = text
      BY <1>3, <2>1, DecideKeeps
    <2>4. ASSUME ~call[t].excused PROVE TrueOf(call[t].job)
      <3>1. Knows(call[t], supply, volts)
        BY <1>3, <2>4
      <3>2. call[t].job \notin {"gate", "low"}
        BY <1>2, <1>3, <1>6, <3>1 DEF Knows, Safe, StepsOf
      <3>3. PercentOf(volts) \in 0..100
        BY PercentBounds DEF ReadingsInv, WorldInv
      <3>4. call[t].job = "bar" => (c.full <=> PercentOf(volts) = 100)
        BY <1>2, <1>3, <1>6, <3>1 DEF Knows
      <3>5. call[t].job = "bar" =>
               label' = IF PercentOf(volts) < 100 THEN "charging" ELSE "level"
        BY <1>3, <2>3, <3>3, <3>4
      <3>. QED  BY <1>3, <1>6, <2>3, <3>2, <3>5 DEF TrueOf
    <2>. QED  BY <1>2, <1>3, <1>5, <2>2, <2>3, <2>4, ReadKeeps
  <1>7. CASE ~(ok /\ supply = "charging")
    <2>1. "ext" \in Steps /\ "ext" \in StepsOf(c.job)
      BY <1>2, <1>3 DEF Steps, StepsOf
    <2>2. ~c.excused => Knows([c EXCEPT !.step = "ext"], supply, volts)
      <3> DEFINE q == [c EXCEPT !.step = "ext"]
      <3>1. q.job = c.job /\ q.step = "ext" /\ q.present = c.present /\ q.full = c.full
        BY <1>3 DEF CallStates
      <3> HIDE DEF q
      <3>2. ~c.excused => Knows(q, supply, volts)
        BY <1>2, <1>3, <1>7, <3>1 DEF Knows
      <3>. QED  BY <3>2 DEF q
    <2>3. OutcomeTypes' /\ \E d : /\ call' = [call EXCEPT ![t] = d]
                                  /\ CallSound(t, d, supply, volts)
                                  /\ d.step = "ext" /\ d.job = c.job
      <3>1. Goes(t, c, "ext")
        BY <1>4, <1>7, Zenon
      <3>2. JobOf(t, c.job) /\ c.job # "none" /\ c \in CallStates
        BY <1>3
      <3>. QED  BY <2>1, <2>2, <3>1, <3>2, GoesKeeps
    <2>4. PICK d : /\ call' = [call EXCEPT ![t] = d] /\ CallSound(t, d, supply, volts)
                   /\ d.step = "ext" /\ d.job = c.job
      BY <2>3
    <2>. QED  BY <1>2, <1>3, <1>5, <2>3, <2>4, ReadKeeps
  <1>. QED  BY <1>6, <1>7

LEMMA ReadingsStep ==
    ASSUME ReadingsInv, [BatteryNext]_battery_vars
    PROVE  ReadingsInv' /\ (BatteryNext => Truthful)
  <1>1. CASE Drains \/ Charges \/ ChargeEnds \/ PlugCable \/ UnplugCable \/ RemovePack
             \/ InsertPack
    <2>1. ReadingsInv'
      BY <1>1, ChangesKeep
    <2>2. PICK s, v : Change(s, v)
      BY <1>1, ChangesKeep
    <2>3. call' = [t \in Callers |-> Excused(call[t], s, v)]
      BY <2>2 DEF Change, Excused
    <2>4. \A t \in Callers : call'[t].job = call[t].job
      <3> TAKE t \in Callers
      <3>1. call[t] \in CallStates /\ call'[t] = Excused(call[t], s, v)
        BY <2>3 DEF ReadingsInv, CallsInv, CallSound
      <3>. QED  BY <3>1 DEF Excused, CallStates
    <2>. QED  BY <2>1, <2>4, NoneEnds
  <1>2. CASE ClockTick \/ EvaluateOtaGate \/ RefreshStatusLabel
    BY <1>2, BeginKeeps DEF ClockTick, EvaluateOtaGate, RefreshStatusLabel
  <1>3. CASE \E t \in Callers : ReadCurrent(t) \/ ReadVoltage(t) \/ ReadPercent(t) \/ ReadPin(t)
    BY <1>3, ReadCurrentKeeps, ReadVoltageKeeps, ReadPercentKeeps, ReadPinKeeps
  <1>4. CASE UNCHANGED battery_vars /\ ~BatteryNext
    BY <1>4 DEF battery_vars, ReadingsInv, WorldInv, SampleInv, LockInv, CallsInv,
                OutcomeTypes, Installed, Callers
  <1>. QED  BY <1>1, <1>2, <1>3, <1>4, Zenon DEF BatteryNext

LEMMA ReadingsTyped == ReadingsInv => BatteryTypeOK /\ PackSeenAgain
  <1> SUFFICES ASSUME ReadingsInv PROVE BatteryTypeOK /\ PackSeenAgain
    OBVIOUS
  <1>1. PackSeenAgain /\ misses \in Nat
    BY DEF ReadingsInv, SampleInv, PackSeenAgain
  <1>. QED
    BY <1>1, Zenon DEF ReadingsInv, WorldInv, SampleInv, LockInv, OutcomeTypes, Supplies,
                       BatteryTypeOK

\* ReadingsTrue for any packs, rails, callers and faults: what the monitors,
\* the OTA gate and the status bar make of battery_reader.cpp's three queries
\* was true of cable and pack, and a resting pack is missed once at most.
THEOREM ReadingsTrueHolds == BatterySpec => ReadingsTrue
<1>1. ReadingsInv /\ [BatteryNext]_battery_vars => ReadingsInv'
  BY ReadingsStep
<1>2. ReadingsInv /\ [BatteryNext]_battery_vars =>
         [BatteryTypeOK' /\ PackSeenAgain' /\ GateJustified /\ LatchesTrue /\ LabelTrue
           ]_battery_vars
  <2> SUFFICES ASSUME ReadingsInv, BatteryNext
               PROVE  BatteryTypeOK' /\ PackSeenAgain' /\ GateJustified /\ LatchesTrue
                      /\ LabelTrue
    OBVIOUS
  <2>1. ReadingsInv' /\ Truthful
    BY ReadingsStep
  <2>2. BatteryTypeOK' /\ PackSeenAgain'
    BY <2>1, ReadingsTyped, PTL
  <2>. QED  BY <2>1, <2>2 DEF Truthful
<1>. QED  BY <1>1, <1>2, ReadingsInvInit, PTL DEF BatterySpec, ReadingsTrue

=============================================================================
