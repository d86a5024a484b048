-------------------------- MODULE KodiClientProofs --------------------------
(***************************************************************************)
(* Proofs about KodiClient, for every set of items, listings and commands  *)
(* and every value of the limits: a silent Kodi is given up, a screen that *)
(* re-reads the snapshot at every event is never behind, "Kodi is busy"    *)
(* has a cause, the command queue implements CommandChannel, and what is   *)
(* shown agrees with what Kodi plays once everything it sent is applied.   *)
(***************************************************************************)
EXTENDS KodiClient, SequenceTheorems, TLAPS

-----------------------------------------------------------------------------
(***************************************************************************)
(* Silence.                                                                *)
(***************************************************************************)
\* The connection is being left or made anew, up to the first answer.
Leaving ==
    \/ pc \in {"disconnect", "top", "sleep", "connect", "connect_failed", "idle", "exited"}
    \/ pc = "receive" /\ call = "App" /\ ~tolerate

\* Polls without any answer are among those that timed out, and the last
\* timeout that is tolerated makes the loop leave.
SilenceInv ==
    /\ silent_polls \in Nat /\ consecutive_poll_timeouts \in Nat
    /\ silent_polls <= consecutive_poll_timeouts
    /\ consecutive_poll_timeouts <= kMaxToleratedPollTimeouts
    /\ consecutive_poll_timeouts = kMaxToleratedPollTimeouts => Leaving

\* Most steps count nothing.
LEMMA SilenceKept ==
    ASSUME SilenceInv, UNCHANGED <<silent_polls, consecutive_poll_timeouts>>,
           Leaving => Leaving'
    PROVE  SilenceInv'
  BY DEF SilenceInv

LEMMA SilencePollFails ==
    ASSUME SilenceInv, PollCallFails
    PROVE  SilenceInv'
  <1> USE KodiAssumption
  <1>1. CASE CountsAsTimeout
    <2>1. tolerate /\ pc = "receive"
      BY <1>1 DEF CountsAsTimeout, PollCallFails
    <2>2. consecutive_poll_timeouts < kMaxToleratedPollTimeouts
      BY <2>1 DEF SilenceInv, Leaving
    <2>3. /\ consecutive_poll_timeouts' = consecutive_poll_timeouts + 1
          /\ silent_polls' \in {silent_polls, silent_polls + 1}
      BY <1>1 DEF PollCallFails
    <2>4. consecutive_poll_timeouts' = kMaxToleratedPollTimeouts => pc' = "disconnect"
      BY <1>1, <2>1 DEF PollCallFails, PollReturns, PollSurvives, Goto
    <2>. QED  BY <2>2, <2>3, <2>4 DEF SilenceInv, Leaving
  <1>2. CASE ~CountsAsTimeout
    <2>1. UNCHANGED <<silent_polls, consecutive_poll_timeouts>>
      BY <1>2 DEF PollCallFails
    <2>2. pc' \in {"disconnect", "connect_failed"}
      BY <1>2 DEF PollCallFails, PollReturns, PollSurvives, Goto
    <2>. QED  BY <2>1, <2>2, SilenceKept DEF Leaving
  <1>. QED  BY <1>1, <1>2

LEMMA SilenceLoop ==
    ASSUME SilenceInv, LoopNext
    PROVE  SilenceInv'
  <1> USE KodiAssumption
  <1>1. CASE LoopExit \/ NoTargetFound \/ TargetFound \/ SleepUnwatched
             \/ ConnectFails \/ ConnectFailed \/ Primed \/ Disconnect
    BY <1>1, SilenceKept
       DEF LoopExit, NoTargetFound, TargetFound, SleepUnwatched, ConnectFails,
           ConnectFailed, Primed, Disconnect, Goto, Leaving, pollVars, callVars
  <1>2. CASE ConnectSucceeds
    BY <1>2, SilenceKept DEF ConnectSucceeds, Goto, Leaving
  <1>3. CASE ConnectedWait \/ PumpFrame \/ PumpDone \/ ActOnReason
    BY <1>3, SilenceKept
       DEF ConnectedWait, PumpFrame, PumpDone, ActOnReason, Goto, Leaving, pollVars, callVars
  <1>4. CASE ReceiveOther \/ ReportBusy
    BY <1>4, SilenceKept DEF ReceiveOther, ReportBusy, Leaving, pollVars, callVars
  <1>5. CASE StartPoll
    BY <1>5, SilenceKept DEF StartPoll, Leaving
  <1>6. CASE ReceiveApp
    BY <1>6 DEF ReceiveApp, SilenceInv
  <1>7. CASE ReceiveNoPlayers \/ ReceiveBadPlayer \/ ReceivePlayers \/ ReceiveProps
             \/ ReceiveItem
    BY <1>7, SilenceKept
       DEF ReceiveNoPlayers, ReceiveBadPlayer, ReceivePlayers, ReceiveProps, ReceiveItem,
           TakeReply, Leaving, pollVars
  <1>8. CASE PollCallFails
    BY <1>8, SilencePollFails
  <1>9. CASE NothingToSend \/ SwapCommands \/ PlayerResolved \/ PlayerUnresolved
    BY <1>9, SilenceKept
       DEF NothingToSend, SwapCommands, PlayerResolved, PlayerUnresolved, TakeReply, Leaving,
           pollVars
  <1>10. CASE SendNext \/ AbandonBatch \/ BatchSent
    BY <1>10, SilenceKept DEF SendNext, AbandonBatch, BatchSent, Leaving, pollVars
  <1>11. CASE SwapLibraryRequests \/ NextListing \/ RequestPage \/ PublishListing
    BY <1>11, SilenceKept
       DEF SwapLibraryRequests, NextListing, RequestPage, PublishListing, Leaving, pollVars
  <1>12. CASE ReceivePage \/ ReceiveBadPage \/ ReceiveUnpaged \/ ListingCallFails
    BY <1>12, SilenceKept
       DEF ReceivePage, ReceiveBadPage, ReceiveUnpaged, ListingCallFails, TakeReply,
           LibraryCalls, Leaving, pollVars
  <1>. QED
    BY <1>1, <1>2, <1>3, <1>4, <1>5, <1>6, <1>7, <1>8, <1>9, <1>10, <1>11, <1>12 DEF LoopNext

\* The steps of Kodi and of the other threads leave the connection thread
\* where it is, or start and join it.
LEMMA OthersThread ==
    ASSUME KodiNext \/ OthersNext
    PROVE  /\ UNCHANGED <<callVars, state, library_busy, trackVars, pollVars, batchVars,
                          listingVars>>
           /\ \/ UNCHANGED pc
              \/ pc = "idle" /\ pc' = "top"
              \/ pc = "exited" /\ pc' = "idle"
           /\ published' = NoEvent
  <1>1. CASE KodiNext
    BY <1>1 DEF KodiNext, KodiPlays, KodiPausesOrResumes, KodiStops, KodiVolume, KodiChanges,
                KodiAnswers, LinkDies, ClientFrame, Silent
  <1>2. CASE OthersNext
    BY <1>2 DEF OthersNext, Start, RequestStop, JoinThread, TriggerReconnect, EnqueueCommand,
                EnqueueLibraryRequest, Goto, Silent
  <1>. QED  BY <1>1, <1>2

LEMMA SilenceStep == SilenceInv /\ [Next]_vars => SilenceInv'
  <1> SUFFICES ASSUME SilenceInv, [Next]_vars PROVE SilenceInv'
    OBVIOUS
  <1>1. CASE LoopNext
    BY <1>1, SilenceLoop
  <1>2. CASE KodiNext \/ OthersNext
    BY <1>2, OthersThread, SilenceKept DEF Leaving, pollVars, callVars
  <1>3. CASE UNCHANGED vars
    BY <1>3, SilenceKept DEF Leaving, vars, pollVars, callVars
  <1>. QED  BY <1>1, <1>2, <1>3 DEF Next

\* A Kodi that answers nothing is not kept: SilenceEndsConnection for every
\* kMaxToleratedPollTimeouts, however polls that are cut short and polls that
\* are not answered at all alternate.
THEOREM SilenceEndsConnectionHolds == Spec => []SilenceEndsConnection
<1>1. Init => SilenceInv
  BY KodiAssumption DEF Init, SilenceInv
<1>2. SilenceInv => SilenceEndsConnection
  BY DEF SilenceInv, SilenceEndsConnection, Leaving
<1>. QED  BY <1>1, <1>2, SilenceStep, PTL DEF Spec

-----------------------------------------------------------------------------
(***************************************************************************)
(* The screens.                                                            *)
(***************************************************************************)
\* From the reset in ConnectAndPrime() to the state that ends it.
Priming ==
    \/ pc = "receive" /\ call \in PollCalls /\ ~tolerate
    \/ pc \in {"primed", "connect_failed"}

\* A poll that will publish what it read.
Owing == pc = "receive" /\ call \in PollCalls /\ changed

\* The snapshot differs from what the screens were last told to read only
\* while a connection is being primed, which ends with a change of state, or
\* while a poll owes an event.
ScreenInv ==
    /\ library_busy \in BOOLEAN
    /\ pc = "connect" \/ Priming => state = "kConnecting"
    /\ shown = Snapshot \/ Priming \/ Owing

LEMMA EventsDiffer ==
    /\ NowPlayingChanged # NoEvent
    /\ \A s : StateChanged(s) # NoEvent
    /\ \A r, c, e : Fetched(r, c, e) # NoEvent
  BY DEF NowPlayingChanged, NoEvent, StateChanged, Fetched

\* A step that publishes brings the screens up to date, a step that does not
\* and changes nothing they read leaves them as they were.
LEMMA Told ==
    ASSUME Observe
    PROVE  /\ published' # NoEvent => shown' = Snapshot'
           /\ published' = NoEvent => shown' = shown
           /\ shown = Snapshot /\ UNCHANGED Snapshot => shown' = Snapshot'
  BY DEF Observe

\* A step outside priming and polls, which tells what it changes.
LEMMA ScreenStep ==
    ASSUME ScreenInv, Observe, library_busy' \in BOOLEAN,
           Snapshot' = Snapshot \/ published' # NoEvent,
           pc' = "connect" \/ Priming' => state' = "kConnecting",
           Priming => Priming' \/ published' # NoEvent,
           Owing => Owing' \/ published' # NoEvent
    PROVE  ScreenInv'
  BY Told DEF ScreenInv

\* One frame that is not the awaited reply.
LEMMA FrameTold ==
    ASSUME NEW f, HandleFrame(f), library_busy \in BOOLEAN, UNCHANGED state
    PROVE  /\ library_busy' \in BOOLEAN
           /\ Snapshot' = Snapshot \/ published' # NoEvent
  <1>0. library_busy' \in BOOLEAN
    BY DEF HandleFrame
  <1>1. CASE f.kind = "OnVolumeChanged"
    BY <1>1, EventsDiffer DEF HandleFrame
  <1>2. CASE f.kind = "OnStop"
    <2>1. library_busy' = library_busy
      BY <1>2 DEF HandleFrame, IsReply
    <2>2. now_playing' = Inactive /\ published' = StopEvent /\ UNCHANGED volume
      BY <1>2 DEF HandleFrame
    <2>. QED  BY <1>0, <2>1, <2>2, EventsDiffer DEF StopEvent, Snapshot
  <1>3. CASE f.kind \in {"OnPlay", "OnSpeedChanged"}
    BY <1>0, <1>3, EventsDiffer DEF HandleFrame
  <1>4. CASE f.kind \notin {"OnPlay", "OnSpeedChanged", "OnStop", "OnVolumeChanged"}
    <2>1. /\ UNCHANGED trackVars
          /\ published' = IF library_busy' # library_busy THEN NowPlayingChanged ELSE NoEvent
      BY <1>4 DEF HandleFrame
    <2>. QED  BY <1>0, <2>1, EventsDiffer DEF Snapshot, trackVars
  <1>. QED  BY <1>0, <1>1, <1>2, <1>3, <1>4

\* The steps that neither change what screens read nor enter priming.
LEMMA ScreenQuiet ==
    ASSUME ScreenInv, Observe, UNCHANGED Snapshot,
           pc' = "connect" \/ Priming' => pc = "connect" \/ Priming,
           Priming => Priming', Owing => Owing'
    PROVE  ScreenInv'
  BY ScreenStep DEF ScreenInv, Snapshot

LEMMA ScreenOutside ==
    ASSUME ScreenInv, Observe,
           \/ LoopExit \/ NoTargetFound \/ TargetFound \/ SleepUnwatched \/ ConnectFails
           \/ ConnectSucceeds \/ ConnectFailed \/ Primed \/ Disconnect
    PROVE  ScreenInv'
  <1>1. CASE LoopExit \/ NoTargetFound
    <2>1. /\ pc = "top" /\ pc' \in {"exited", "sleep"}
          /\ UNCHANGED <<now_playing, volume, library_busy>>
          /\ published' = IF state = "kDisconnected" THEN NoEvent ELSE StateChanged("kDisconnected")
          /\ state' = "kDisconnected"
      BY <1>1 DEF LoopExit, NoTargetFound, SetState, Goto, trackVars
    <2>. QED
      BY <2>1, ScreenStep, EventsDiffer DEF Priming, Owing, Snapshot, ScreenInv
  <1>2. CASE TargetFound
    <2>1. /\ pc = "top" /\ pc' = "connect" /\ UNCHANGED <<now_playing, volume, library_busy>>
          /\ published' = IF state = "kConnecting" THEN NoEvent ELSE StateChanged("kConnecting")
          /\ state' = "kConnecting"
      BY <1>2 DEF TargetFound, SetState, Goto, trackVars
    <2>. QED
      BY <2>1, ScreenStep, EventsDiffer DEF Priming, Owing, Snapshot, ScreenInv
  <1>3. CASE SleepUnwatched
    BY <1>3, ScreenQuiet DEF SleepUnwatched, Goto, Priming, Owing, Snapshot, trackVars
  <1>4. CASE ConnectFails
    <2>1. /\ pc = "connect" /\ pc' = "connect_failed"
          /\ UNCHANGED <<state, now_playing, volume, library_busy>>
      BY <1>4 DEF ConnectFails, Goto, trackVars
    <2>. QED  BY <2>1 DEF ScreenInv, Priming
  <1>5. CASE ConnectSucceeds
    <2>1. /\ pc = "connect" /\ pc' = "receive" /\ call' = "App" /\ ~tolerate'
          /\ UNCHANGED <<state, library_busy>>
      BY <1>5 DEF ConnectSucceeds, Goto
    <2>. QED  BY <2>1 DEF ScreenInv, Priming, PollCalls
  <1>6. CASE ConnectFailed \/ Primed
    <2>1. /\ Priming /\ pc' \in {"sleep", "wait"} /\ state' \in {"kError", "kConnected"}
          /\ library_busy' \in {library_busy, FALSE}
          /\ published' = IF state = state' THEN NoEvent ELSE StateChanged(state')
      BY <1>6 DEF ConnectFailed, Primed, SetState, Goto, Priming
    <2>2. library_busy' \in BOOLEAN
      BY <2>1, Zenon DEF ScreenInv
    <2>3. published' # NoEvent
      BY <2>1, EventsDiffer DEF ScreenInv
    <2>4. ~Priming'
      BY <2>1 DEF Priming
    <2>. QED  BY <2>1, <2>2, <2>3, <2>4, Told DEF ScreenInv
  <1>7. CASE Disconnect
    <2>1. /\ pc = "disconnect" /\ pc' = "top" /\ UNCHANGED <<state, now_playing, volume>>
          /\ library_busy' = FALSE
          /\ published' = IF library_busy THEN NowPlayingChanged ELSE NoEvent
      BY <1>7 DEF Disconnect, ClearLibraryBusy, Goto, trackVars
    <2>2. /\ library_busy' \in BOOLEAN /\ (~library_busy => library_busy' = library_busy)
      BY <2>1, Zenon DEF ScreenInv
    <2>. QED
      BY <2>1, <2>2, ScreenStep, EventsDiffer DEF Priming, Owing, Snapshot, ScreenInv
  <1>. QED  BY <1>1, <1>2, <1>3, <1>4, <1>5, <1>6, <1>7

LEMMA ScreenFrames ==
    ASSUME ScreenInv, Observe, PumpFrame \/ ReceiveOther \/ ReportBusy
    PROVE  ScreenInv'
  <1>1. CASE PumpFrame \/ ReceiveOther
    <2>1. HandleFrame(Head(inbox)) /\ UNCHANGED <<pc, state, callVars, pollVars>>
      BY <1>1 DEF PumpFrame, ReceiveOther
    <2>2. /\ library_busy' \in BOOLEAN
          /\ Snapshot' = Snapshot \/ published' # NoEvent
      BY <2>1, FrameTold DEF ScreenInv
    <2>3. Priming' = Priming /\ Owing' = Owing
      BY <2>1 DEF Priming, Owing, callVars, pollVars
    <2>. QED  BY <2>1, <2>2, <2>3, ScreenStep DEF ScreenInv
  <1>2. CASE ReportBusy
    <2>1. /\ library_busy' = TRUE /\ published' = NowPlayingChanged
          /\ UNCHANGED <<pc, state, call, pollVars>>
      BY <1>2 DEF ReportBusy
    <2>2. library_busy' \in BOOLEAN
      BY <2>1, Zenon
    <2>. QED
      BY <2>1, <2>2, ScreenStep, EventsDiffer DEF ScreenInv, Priming, Owing, pollVars
  <1>. QED  BY <1>1, <1>2

\* A step of a poll stays in its phase, and owes an event or publishes one
\* when it changed what screens read.
LEMMA ScreenPoll ==
    ASSUME ScreenInv, Observe,
           ReceiveApp \/ ReceiveNoPlayers \/ ReceiveBadPlayer \/ ReceivePlayers
           \/ ReceiveProps \/ ReceiveItem \/ PollCallFails
    PROVE  ScreenInv'
  <1>1. pc = "receive" /\ call \in PollCalls /\ UNCHANGED <<state, tolerate>>
    BY DEF ReceiveApp, ReceiveNoPlayers, ReceiveBadPlayer, ReceivePlayers, ReceiveProps,
           ReceiveItem, PollCallFails, TakeReply, PollCalls, pollVars
  <1>2. (pc' = "connect" \/ Priming' => Priming) /\ (Priming => Priming')
    <2>1. CASE ReceiveApp \/ ReceivePlayers \/ ReceiveProps
      BY <1>1, <2>1
         DEF ReceiveApp, ReceivePlayers, ReceiveProps, SendCall, Goto, PollCalls, Priming
    <2>2. CASE ReceiveNoPlayers \/ ReceiveBadPlayer \/ ReceiveItem
      BY <1>1, <2>2
         DEF ReceiveNoPlayers, ReceiveBadPlayer, ReceiveItem, PollReturns, Goto, Priming
    <2>3. CASE PollCallFails
      BY <1>1, <2>3
         DEF PollCallFails, PollReturns, PollSurvives, CountsAsTimeout, Goto, Priming
    <2>. QED  BY <2>1, <2>2, <2>3
  <1>3. library_busy' \in BOOLEAN
        /\ (~library_busy => library_busy' = library_busy)
    <2>1. CASE library_busy' = FALSE
      BY <2>1, Zenon DEF ScreenInv
    <2>2. CASE UNCHANGED library_busy
      BY <2>2, Zenon DEF ScreenInv
    <2>. QED
      BY <2>1, <2>2
         DEF ReceiveApp, ReceiveNoPlayers, ReceiveBadPlayer, ReceivePlayers, ReceiveProps,
             ReceiveItem, PollCallFails, TakeReply
  <1>4. \/ published' # NoEvent
        \/ Owing'
        \/ Snapshot' = Snapshot /\ (Owing => Owing')
    <2>1. CASE ReceiveApp
      <3>1. /\ pc' = "receive" /\ call' = "Players" /\ changed' = (changed \/ volume' # volume)
            /\ published' = (IF library_busy THEN NowPlayingChanged ELSE NoEvent)
            /\ UNCHANGED now_playing
        BY <2>1 DEF ReceiveApp, SendCall, Goto, PublishIf
      <3>. QED  BY <1>1, <1>3, <3>1, EventsDiffer DEF Owing, PollCalls, Snapshot
    <2>2. CASE ReceivePlayers \/ ReceiveProps
      <3>1. /\ pc' = "receive" /\ call' \in PollCalls
            /\ published' = (IF library_busy THEN NowPlayingChanged ELSE NoEvent)
            /\ UNCHANGED <<now_playing, volume, changed>>
        BY <2>2 DEF ReceivePlayers, ReceiveProps, SendCall, Goto, PublishIf, PollCalls,
                    trackVars, pollVars
      <3>. QED  BY <1>1, <1>3, <3>1, EventsDiffer DEF Owing, Snapshot
    <2>3. CASE ReceiveNoPlayers \/ ReceiveBadPlayer \/ ReceiveItem
      <3>1. /\ published' = (IF changed \/ now_playing' # now_playing \/ library_busy
                             THEN NowPlayingChanged ELSE NoEvent)
            /\ UNCHANGED volume
        <4>1. CASE ReceiveNoPlayers
          BY <4>1 DEF ReceiveNoPlayers, PublishIf
        <4>2. CASE ReceiveBadPlayer
          BY <4>2 DEF ReceiveBadPlayer, PublishIf, trackVars
        <4>3. CASE ReceiveItem
          BY <4>3 DEF ReceiveItem, PublishIf
        <4>. QED  BY <2>3, <4>1, <4>2, <4>3
      <3>. QED  BY <1>1, <1>3, <3>1, EventsDiffer DEF Owing, Snapshot
    <2>4. CASE PollCallFails
      <3>1. /\ published' = (IF changed THEN NowPlayingChanged ELSE NoEvent)
            /\ UNCHANGED <<now_playing, volume, library_busy>>
        BY <2>4 DEF PollCallFails, PublishWhatWasRead, PublishIf, trackVars
      <3>. QED  BY <1>1, <3>1, EventsDiffer DEF Owing, Snapshot
    <2>. QED  BY <2>1, <2>2, <2>3, <2>4
  <1>. QED  BY <1>1, <1>2, <1>3, <1>4, Told DEF ScreenInv

\* A reply to another call clears "busy" with an event.
LEMMA ScreenReply ==
    ASSUME ScreenInv, Observe,
           PlayerResolved \/ ReceivePage \/ ReceiveBadPage \/ ReceiveUnpaged
    PROVE  ScreenInv'
  <1>1. /\ pc = "receive" /\ call \notin PollCalls /\ library_busy' = FALSE
        /\ published' = (IF library_busy THEN NowPlayingChanged ELSE NoEvent)
        /\ UNCHANGED <<state, now_playing, volume>>
    BY DEF PlayerResolved, ReceivePage, ReceiveBadPage, ReceiveUnpaged, TakeReply, PollCalls,
           PublishIf, trackVars
  <1>2. /\ library_busy' \in BOOLEAN /\ (~library_busy => library_busy' = library_busy)
    BY <1>1, Zenon DEF ScreenInv
  <1>3. ~Priming' /\ pc' # "connect"
    BY DEF PlayerResolved, ReceivePage, ReceiveBadPage, ReceiveUnpaged, SendCall, Goto, Priming,
           PollCalls
  <1>. QED
    BY <1>1, <1>2, <1>3, ScreenStep, EventsDiffer DEF ScreenInv, Priming, Owing, Snapshot

LEMMA ScreenOthers ==
    ASSUME ScreenInv, Observe,
           \/ ConnectedWait \/ PumpDone \/ ActOnReason \/ StartPoll
           \/ NothingToSend \/ SwapCommands \/ PlayerUnresolved
           \/ SendNext \/ AbandonBatch \/ BatchSent
           \/ SwapLibraryRequests \/ NextListing \/ RequestPage \/ ListingCallFails
           \/ PublishListing
    PROVE  ScreenInv'
  <1>1. UNCHANGED Snapshot
    BY DEF ConnectedWait, PumpDone, ActOnReason, StartPoll, NothingToSend, SwapCommands,
           PlayerUnresolved, SendNext, AbandonBatch, BatchSent, SwapLibraryRequests,
           NextListing, RequestPage, ListingCallFails, PublishListing, Snapshot, trackVars
  <1>2. ~Priming /\ ~Owing
    BY DEF ConnectedWait, PumpDone, ActOnReason, StartPoll, NothingToSend, SwapCommands,
           PlayerUnresolved, SendNext, AbandonBatch, BatchSent, SwapLibraryRequests,
           NextListing, RequestPage, ListingCallFails, PublishListing, Priming, Owing,
           PollCalls, LibraryCalls
  <1>3. pc' # "connect" /\ ~Priming'
    <2>1. CASE StartPoll
      <3>1. pc' = "receive" /\ tolerate'
        BY <2>1 DEF StartPoll, SendCall, Goto
      <3>. QED  BY <3>1 DEF Priming
    <2>2. CASE ConnectedWait \/ PumpDone \/ ActOnReason \/ NothingToSend \/ PlayerUnresolved
               \/ AbandonBatch \/ BatchSent \/ SwapLibraryRequests \/ NextListing
               \/ ListingCallFails \/ PublishListing
      BY <2>2 DEF ConnectedWait, PumpDone, ActOnReason, NothingToSend, PlayerUnresolved,
                  AbandonBatch, BatchSent, SwapLibraryRequests, NextListing,
                  ListingCallFails, PublishListing, AfterWait, CommandsSent, Goto, Priming
    <2>3. CASE SwapCommands \/ SendNext \/ RequestPage
      BY <2>3 DEF SwapCommands, SendNext, RequestPage, SendCall, Goto, Priming, PollCalls
    <2>. QED  BY <2>1, <2>2, <2>3
  <1>. QED  BY <1>1, <1>2, <1>3, ScreenQuiet

LEMMA ScreenInvInit == Init => ScreenInv
  BY DEF Init, ScreenInv, Priming

LEMMA ScreenInvStep == ScreenInv /\ [Next]_vars => ScreenInv'
  <1> SUFFICES ASSUME ScreenInv, [Next]_vars PROVE ScreenInv'
    OBVIOUS
  <1>1. CASE LoopNext /\ Observe
    BY <1>1, ScreenOutside, ScreenFrames, ScreenPoll, ScreenReply, ScreenOthers DEF LoopNext
  <1>2. CASE (KodiNext \/ OthersNext) /\ Observe
    BY <1>2, OthersThread, ScreenQuiet
       DEF Priming, Owing, Snapshot, pollVars, callVars, trackVars
  <1>3. CASE UNCHANGED vars
    BY <1>3 DEF vars, ScreenInv, Priming, Owing, Snapshot, pollVars, callVars, trackVars
  <1>. QED  BY <1>1, <1>2, <1>3 DEF Next

\* The widget and the screens read Snapshot() at an event and at no other
\* time, and in the connected loop's wait they have read the newest: whatever
\* notifications, replies, timeouts and polls that were cut short came in
\* whatever order, SetState(), HandleNotification(), SetLibraryBusy() and
\* ReconcilePoll() published an event for every change between them.
THEOREM ScreenNotBehindHolds == Spec => []ScreenNotBehind
<1>1. ScreenInv => ScreenNotBehind
  BY DEF ScreenInv, ScreenNotBehind, Priming, Owing
<1>. QED  BY <1>1, ScreenInvInit, ScreenInvStep, PTL DEF Spec

-----------------------------------------------------------------------------
(***************************************************************************)
(* Types, one part per group of variables.                                 *)
(***************************************************************************)
Requests == {"awaited", "other"}
Frames == [kind : Requests \cup Notifications, ok : BOOLEAN, data : KodiStates]

LinkTypes ==
    /\ kodi \in KodiStates /\ changes \in 0..MaxChanges
    /\ ws \in {"none", "open", "dead"}
    /\ requests \in Seq(Requests) /\ inbox \in Seq(Frames)

\* What becomes of the link in a step of the connection thread.
LinkMove ==
    /\ UNCHANGED kodiVars /\ ws' \in {ws, "open", "none"}
    /\ requests' \in {requests, <<>>, <<"awaited">>, Append(requests, "awaited"),
                      Append(requests, "other"), Unawaited(requests)}
    /\ \/ inbox' \in {inbox, <<>>, UnawaitedFrames(inbox)}
       \/ inbox # <<>> /\ inbox' = Tail(inbox)

LEMMA LinkMoves == LoopNext => LinkMove
  <1> SUFFICES ASSUME LoopNext PROVE LinkMove
    OBVIOUS
  <1> USE DEF ThreadFrame, linkVars
  <1>1. CASE LoopExit \/ NoTargetFound \/ TargetFound \/ SleepUnwatched \/ ConnectFails
             \/ Primed \/ ConnectedWait \/ PumpDone \/ ActOnReason \/ ReportBusy
             \/ NothingToSend \/ AbandonBatch \/ BatchSent \/ SwapLibraryRequests
             \/ NextListing \/ PublishListing
    <2>1. UNCHANGED kodiVars /\ UNCHANGED linkVars
      BY <1>1 DEF LoopExit, NoTargetFound, TargetFound, SleepUnwatched, ConnectFails,
                  Primed, ConnectedWait, PumpDone, ActOnReason, ReportBusy, NothingToSend,
                  AbandonBatch, BatchSent, SwapLibraryRequests, NextListing, PublishListing
    <2>. QED  BY <2>1 DEF LinkMove
  <1>2. CASE ConnectSucceeds \/ ConnectFailed \/ Disconnect
    BY <1>2 DEF ConnectSucceeds, ConnectFailed, Disconnect, CloseSocket, LinkMove
  <1>3. CASE PumpFrame \/ ReceiveOther \/ ReceiveApp \/ ReceiveNoPlayers \/ ReceiveBadPlayer
             \/ ReceivePlayers \/ ReceiveProps \/ ReceiveItem
    <2>1. inbox # <<>> /\ inbox' = Tail(inbox) /\ UNCHANGED kodiVars /\ UNCHANGED ws
      BY <1>3 DEF PumpFrame, ReceiveOther, ReceiveApp, ReceiveNoPlayers, ReceiveBadPlayer,
                  ReceivePlayers, ReceiveProps, ReceiveItem, TakeReply, MyReply
    <2>2. requests' \in {requests, Append(requests, "awaited")}
      BY <1>3 DEF PumpFrame, ReceiveOther, ReceiveApp, ReceiveNoPlayers, ReceiveBadPlayer,
                  ReceivePlayers, ReceiveProps, ReceiveItem, SendCall
    <2>. QED  BY <2>1, <2>2 DEF LinkMove
  <1>4. CASE PlayerResolved \/ ReceivePage \/ ReceiveBadPage \/ ReceiveUnpaged
    <2>1. inbox # <<>> /\ inbox' = Tail(inbox) /\ UNCHANGED kodiVars /\ UNCHANGED ws
      BY <1>4 DEF PlayerResolved, ReceivePage, ReceiveBadPage, ReceiveUnpaged, TakeReply, MyReply
    <2>2. requests' \in {requests, Append(requests, "awaited")}
      BY <1>4 DEF PlayerResolved, ReceivePage, ReceiveBadPage, ReceiveUnpaged, SendCall
    <2>. QED  BY <2>1, <2>2 DEF LinkMove
  <1>5. CASE StartPoll \/ SwapCommands \/ RequestPage \/ SendNext
    <2>1. UNCHANGED <<kodiVars, ws, inbox>>
      BY <1>5 DEF StartPoll, SwapCommands, RequestPage, SendNext
    <2>2. requests' \in {requests, Append(requests, "awaited"), Append(requests, "other")}
      BY <1>5 DEF StartPoll, SwapCommands, RequestPage, SendNext, SendCall
    <2>. QED  BY <2>1, <2>2 DEF LinkMove
  <1>6. CASE PollCallFails \/ PlayerUnresolved \/ ListingCallFails
    BY <1>6 DEF PollCallFails, PlayerUnresolved, ListingCallFails, EndCall, LinkMove
  <1>. QED  BY <1>1, <1>2, <1>3, <1>4, <1>5, <1>6 DEF LoopNext

LEMMA UnawaitedTyped ==
    ASSUME NEW queue \in Seq(Requests), NEW frames \in Seq(Frames)
    PROVE  /\ Unawaited(queue) \in Seq(Requests) /\ Len(Unawaited(queue)) = Len(queue)
           /\ UnawaitedFrames(frames) \in Seq(Frames)
           /\ DOMAIN UnawaitedFrames(frames) = DOMAIN frames
           /\ \A i \in DOMAIN frames : IsReply(UnawaitedFrames(frames)[i]) <=> IsReply(frames[i])
  <1>1. /\ DOMAIN queue = 1..Len(queue) /\ Len(queue) \in Nat
        /\ DOMAIN frames = 1..Len(frames) /\ Len(frames) \in Nat
        /\ \A i \in DOMAIN frames : frames[i] \in Frames
    OBVIOUS
  <1>2. /\ Unawaited(queue) \in Seq(Requests) /\ Len(Unawaited(queue)) = Len(queue)
    BY <1>1, IsASeq DEF Unawaited, Requests
  <1>3. ASSUME NEW f \in Frames
        PROVE  /\ (IF f.kind = "awaited" THEN [f EXCEPT !.kind = "other"] ELSE f) \in Frames
               /\ IsReply(IF f.kind = "awaited" THEN [f EXCEPT !.kind = "other"] ELSE f)
                  <=> IsReply(f)
    BY <1>3 DEF Frames, Requests, IsReply
  <1>4. UnawaitedFrames(frames) \in [1..Len(frames) -> Frames]
    BY <1>1, <1>3 DEF UnawaitedFrames
  <1>5. UnawaitedFrames(frames) \in Seq(Frames)
    BY <1>1, <1>4, IsASeq
  <1>. QED  BY <1>1, <1>2, <1>3, <1>5 DEF UnawaitedFrames

LEMMA LinkTyped ==
    ASSUME LinkTypes, LinkMove
    PROVE  LinkTypes'
  <1>1. kodi' \in KodiStates /\ changes' \in 0..MaxChanges /\ ws' \in {"none", "open", "dead"}
    BY DEF LinkTypes, LinkMove, kodiVars
  <1>2. requests' \in Seq(Requests)
    <2>1. requests \in Seq(Requests) /\ inbox \in Seq(Frames)
      BY DEF LinkTypes
    <2>2. Unawaited(requests) \in Seq(Requests)
      BY <2>1, UnawaitedTyped
    <2>3. /\ <<>> \in Seq(Requests) /\ <<"awaited">> \in Seq(Requests)
          /\ Append(requests, "awaited") \in Seq(Requests)
          /\ Append(requests, "other") \in Seq(Requests)
      BY <2>1 DEF Requests
    <2>. QED  BY <2>1, <2>2, <2>3, Zenon DEF LinkMove
  <1>3. inbox' \in Seq(Frames)
    <2>1. requests \in Seq(Requests) /\ inbox \in Seq(Frames) /\ <<>> \in Seq(Frames)
      BY DEF LinkTypes
    <2>2. UnawaitedFrames(inbox) \in Seq(Frames)
      BY <2>1, UnawaitedTyped
    <2>3. inbox # <<>> => Tail(inbox) \in Seq(Frames)
      BY <2>1
    <2>. QED  BY <2>1, <2>2, <2>3, Zenon DEF LinkMove
  <1>. QED  BY <1>1, <1>2, <1>3 DEF LinkTypes

\* Kodi's own steps: what it sends is a frame with one of its states.
LEMMA KodiTyped ==
    ASSUME LinkTypes, KodiNext
    PROVE  LinkTypes'
  <1> USE KodiAssumption
  <1>1. ASSUME NEW kind \in Notifications, NEW new \in KodiStates, KodiChanges(kind, new)
        PROVE  LinkTypes'
    <2>1. Frame(kind, TRUE, new) \in Frames
      BY <1>1 DEF Frame, Frames
    <2>2. /\ inbox' = inbox \/ inbox' = Append(inbox, Frame(kind, TRUE, new))
          /\ changes < MaxChanges /\ changes' = changes + 1 /\ kodi' = new
          /\ UNCHANGED <<ws, requests>>
      BY <1>1, Zenon DEF KodiChanges
    <2>3. inbox' \in Seq(Frames)
      <3>1. inbox \in Seq(Frames)
        BY DEF LinkTypes
      <3> DEFINE f == Frame(kind, TRUE, new)
      <3>2. f \in Frames /\ (inbox' = inbox \/ inbox' = Append(inbox, f))
        BY <2>1, <2>2
      <3>. HIDE DEF f
      <3>. QED  BY <3>1, <3>2
    <2>. QED  BY <2>2, <2>3 DEF LinkTypes
  <1>2. kodi \in KodiStates /\ kodi.speed \in {0, 1}
    BY DEF LinkTypes, KodiStates
  <1>3. ASSUME NEW item \in Items, KodiPlays(item) PROVE LinkTypes'
    <2>1. [kodi EXCEPT !.item = item, !.speed = 1] \in KodiStates
      BY <1>2 DEF KodiStates, Titles
    <2>. QED  BY <1>1, <1>3, <2>1 DEF KodiPlays, Notifications
  <1>4. CASE KodiPausesOrResumes
    <2>1. [kodi EXCEPT !.speed = 1 - @] \in KodiStates
      BY <1>2 DEF KodiStates
    <2>. QED  BY <1>1, <1>4, <2>1 DEF KodiPausesOrResumes, Notifications
  <1>5. CASE KodiStops
    <2>1. [kodi EXCEPT !.item = NoItem, !.speed = 0] \in KodiStates
      BY <1>2 DEF KodiStates, Titles
    <2>. QED  BY <1>1, <1>5, <2>1 DEF KodiStops, Notifications
  <1>6. ASSUME NEW v \in Volumes, KodiVolume(v) PROVE LinkTypes'
    <2>1. [kodi EXCEPT !.volume = v] \in KodiStates
      BY <1>2 DEF KodiStates
    <2>. QED  BY <1>1, <1>6, <2>1 DEF KodiVolume, Notifications
  <1>7. CASE KodiAnswers
    <2>1. PICK ok \in BOOLEAN : inbox' = Append(inbox, Frame(Head(requests), ok, kodi))
      BY <1>7 DEF KodiAnswers
    <2>2. /\ requests # <<>> /\ requests \in Seq(Requests) /\ requests' = Tail(requests)
          /\ UNCHANGED <<kodiVars, ws>>
      BY <1>7 DEF KodiAnswers, LinkTypes
    <2>3. Head(requests) \in Requests /\ requests' \in Seq(Requests)
      BY <2>2
    <2>4. Frame(Head(requests), ok, kodi) \in Frames
      BY <1>2, <2>3 DEF Frame, Frames
    <2>5. inbox' \in Seq(Frames)
      BY <2>1, <2>4 DEF LinkTypes
    <2>. QED  BY <2>2, <2>3, <2>5 DEF LinkTypes, kodiVars
  <1>8. CASE LinkDies
    BY <1>8 DEF LinkDies, LinkTypes, kodiVars
  <1>. QED  BY <1>3, <1>4, <1>5, <1>6, <1>7, <1>8 DEF KodiNext

Calls == PollCalls \cup LibraryCalls \cup {"Resolve", "none"}

LoopTypes ==
    /\ pc \in Pcs /\ reason \in WakeReasons
    /\ current_delay \in InitialDelay..MaxDelay /\ no_target_delay \in InitialDelay..MaxDelay
    /\ call \in Calls /\ state \in States

BooleanTypes ==
    /\ stop \in BOOLEAN /\ requested \in BOOLEAN /\ busy_due \in BOOLEAN
    /\ identity_from_notification \in BOOLEAN /\ needs_immediate_poll \in BOOLEAN
    /\ stop_seen \in BOOLEAN /\ tolerate \in BOOLEAN /\ changed \in BOOLEAN
    /\ poll_abandoned \in BOOLEAN /\ transport_failed \in BOOLEAN /\ truncated \in BOOLEAN

PlayTypes ==
    now_playing \in NowPlayings /\ volume \in Volumes /\ props \in [speed : {0, 1}, ok : BOOLEAN]

LEMMA DelaysTyped ==
    /\ InitialDelay \in InitialDelay..MaxDelay
    /\ \A d \in InitialDelay..MaxDelay :
          (IF d * 2 < MaxDelay THEN d * 2 ELSE MaxDelay) \in InitialDelay..MaxDelay
  BY DelayAssumption

LEMMA LoopTyped ==
    ASSUME LoopTypes, LoopNext
    PROVE  LoopTypes'
  <1>1. /\ current_delay' \in {current_delay, InitialDelay,
                               IF current_delay * 2 < MaxDelay THEN current_delay * 2 ELSE MaxDelay}
        /\ no_target_delay' \in {no_target_delay, InitialDelay,
                               IF no_target_delay * 2 < MaxDelay THEN no_target_delay * 2 ELSE MaxDelay}
    <2>1. CASE NoTargetFound \/ TargetFound \/ ConnectFailed \/ Primed
      BY <2>1 DEF NoTargetFound, TargetFound, ConnectFailed, Primed, NextDelay, ResetAttempts,
                  NoTarget!NextDelay, NoTarget!ResetAttempts
    <2>2. CASE UNCHANGED <<current_delay, no_target_delay>>
      BY <2>2
    <2>3. CASE LoopExit \/ SleepUnwatched \/ ConnectFails \/ ConnectSucceeds
               \/ Disconnect \/ ConnectedWait \/ PumpFrame \/ PumpDone \/ ActOnReason
               \/ ReceiveOther \/ ReportBusy
      BY <2>2, <2>3 DEF LoopExit, SleepUnwatched, ConnectFails, ConnectSucceeds, Disconnect,
                  ConnectedWait, PumpFrame, PumpDone, ActOnReason, ReceiveOther, ReportBusy, waitVars
    <2>4. CASE StartPoll \/ ReceiveApp \/ ReceiveNoPlayers \/ ReceiveBadPlayer
               \/ ReceivePlayers \/ ReceiveProps \/ ReceiveItem \/ PollCallFails
      BY <2>2, <2>4 DEF StartPoll, ReceiveApp, ReceiveNoPlayers, ReceiveBadPlayer,
                  ReceivePlayers, ReceiveProps, ReceiveItem, PollCallFails, waitVars
    <2>5. CASE NothingToSend \/ SwapCommands \/ PlayerResolved \/ PlayerUnresolved
               \/ SendNext \/ AbandonBatch \/ BatchSent
      BY <2>2, <2>5 DEF NothingToSend, SwapCommands, PlayerResolved, PlayerUnresolved, SendNext,
                  AbandonBatch, BatchSent, waitVars
    <2>6. CASE SwapLibraryRequests \/ NextListing \/ RequestPage \/ ReceivePage
               \/ ReceiveBadPage \/ ReceiveUnpaged \/ ListingCallFails \/ PublishListing
      BY <2>2, <2>6 DEF SwapLibraryRequests, NextListing, RequestPage, ReceivePage, ReceiveBadPage,
                  ReceiveUnpaged, ListingCallFails, PublishListing, waitVars
    <2>. QED  BY <2>1, <2>3, <2>4, <2>5, <2>6 DEF LoopNext
  <1>2. current_delay' \in InitialDelay..MaxDelay /\ no_target_delay' \in InitialDelay..MaxDelay
    BY <1>1, DelaysTyped, Zenon DEF LoopTypes
  <1>3. state' \in States /\ reason' \in WakeReasons /\ pc' \in Pcs /\ call' \in Calls
    <2>1. CASE LoopExit \/ NoTargetFound \/ TargetFound \/ SleepUnwatched \/ ConnectFails
               \/ ConnectSucceeds \/ ConnectFailed \/ Primed \/ Disconnect
      BY <2>1 DEF LoopTypes, LoopExit, NoTargetFound, TargetFound, SleepUnwatched, ConnectFails,
                  ConnectSucceeds, ConnectFailed, Primed, Disconnect, SetState, Goto, States, Pcs,
                  Calls, PollCalls, waitVars, callVars
    <2>2. CASE ConnectedWait \/ PumpFrame \/ PumpDone \/ ActOnReason \/ ReceiveOther
               \/ ReportBusy \/ StartPoll
      BY <2>2 DEF LoopTypes, ConnectedWait, PumpFrame, PumpDone, ActOnReason, ReceiveOther,
                  ReportBusy, StartPoll, SendCall, AfterWait, WakeReason, WakeReasons, Goto, Pcs,
                  Calls, PollCalls, waitVars, callVars
    <2>3. CASE ReceiveApp \/ ReceiveNoPlayers \/ ReceiveBadPlayer \/ ReceivePlayers
               \/ ReceiveProps \/ ReceiveItem \/ PollCallFails
      BY <2>3 DEF LoopTypes, ReceiveApp, ReceiveNoPlayers, ReceiveBadPlayer, ReceivePlayers,
                  ReceiveProps, ReceiveItem, PollCallFails, SendCall, PollReturns, EndCall, Goto,
                  Pcs, Calls, PollCalls, waitVars
    <2>4. CASE NothingToSend \/ SwapCommands \/ PlayerResolved \/ PlayerUnresolved
               \/ SendNext \/ AbandonBatch \/ BatchSent
      BY <2>4 DEF LoopTypes, NothingToSend, SwapCommands, PlayerResolved, PlayerUnresolved,
                  SendNext, AbandonBatch, BatchSent, SendCall, CommandsSent, EndCall, Goto,
                  Pcs, Calls, waitVars, callVars
    <2>5. CASE SwapLibraryRequests \/ NextListing \/ RequestPage \/ ReceivePage
               \/ ReceiveBadPage \/ ReceiveUnpaged \/ ListingCallFails \/ PublishListing
      BY <2>5 DEF LoopTypes, SwapLibraryRequests, NextListing, RequestPage, ReceivePage,
                  ReceiveBadPage, ReceiveUnpaged, ListingCallFails, PublishListing, SendCall,
                  EndCall, Goto, Pcs, Calls, LibraryCalls, waitVars, callVars
    <2>. QED  BY <2>1, <2>2, <2>3, <2>4, <2>5 DEF LoopNext
  <1>. QED  BY <1>2, <1>3 DEF LoopTypes

LEMMA SendTyped ==
    ASSUME NEW method, SendCall(method)
    PROVE  busy_due' \in BOOLEAN
  BY DEF SendCall

LEMMA BooleansTyped ==
    ASSUME BooleanTypes, LoopNext
    PROVE  BooleanTypes'
  <1> USE DEF BooleanTypes, ThreadFrame, waitVars, callVars, trackVars, pollVars, batchVars,
              listingVars
  <1>1. CASE LoopExit
    BY <1>1, Zenon DEF LoopExit
  <1>2. CASE NoTargetFound
    BY <1>2, Zenon DEF NoTargetFound
  <1>3. CASE TargetFound
    BY <1>3, Zenon DEF TargetFound
  <1>4. CASE SleepUnwatched
    BY <1>4, Zenon DEF SleepUnwatched, WaitReturns
  <1>5. CASE ConnectFails
    BY <1>5, Zenon DEF ConnectFails
  <1>6. CASE ConnectSucceeds
    BY <1>6, Zenon DEF ConnectSucceeds
  <1>7. CASE ConnectFailed
    BY <1>7, Zenon DEF ConnectFailed
  <1>8. CASE Primed
    BY <1>8, Zenon DEF Primed
  <1>9. CASE Disconnect
    BY <1>9, Zenon DEF Disconnect
  <1>10. CASE ConnectedWait
    BY <1>10, Zenon DEF ConnectedWait, WaitReturns
  <1>11. CASE PumpFrame
    BY <1>11, ZenonT(40) DEF PumpFrame, HandleFrame
  <1>12. CASE ReceiveOther
    BY <1>12, Zenon DEF ReceiveOther, HandleFrame
  <1>13. CASE PumpDone
    BY <1>13, Zenon DEF PumpDone
  <1>14. CASE ActOnReason
    BY <1>14, Zenon DEF ActOnReason
  <1>15. CASE ReportBusy
    BY <1>15, Zenon DEF ReportBusy
  <1>16. CASE StartPoll
    BY <1>16, SendTyped, Zenon DEF StartPoll
  <1>17. CASE ReceiveApp
    BY <1>17, SendTyped, Zenon DEF ReceiveApp
  <1>18. CASE ReceivePlayers
    BY <1>18, SendTyped, Zenon DEF ReceivePlayers
  <1>19. CASE ReceiveProps
    BY <1>19, SendTyped, Zenon DEF ReceiveProps
  <1>20. CASE ReceiveNoPlayers
    BY <1>20, Zenon DEF ReceiveNoPlayers, PollReturns
  <1>21. CASE ReceiveBadPlayer
    BY <1>21, Zenon DEF ReceiveBadPlayer, PollReturns
  <1>22. CASE ReceiveItem
    BY <1>22, Zenon DEF ReceiveItem, PollReturns
  <1>23. CASE PollCallFails
    BY <1>23, Zenon DEF PollCallFails, EndCall, PollReturns
  <1>24. CASE NothingToSend
    BY <1>24, Zenon DEF NothingToSend
  <1>25. CASE SwapCommands
    BY <1>25, SendTyped, Zenon DEF SwapCommands
  <1>26. CASE PlayerResolved
    BY <1>26, Zenon DEF PlayerResolved
  <1>27. CASE PlayerUnresolved
    BY <1>27, Zenon DEF PlayerUnresolved, EndCall
  <1>28. CASE SendNext
    BY <1>28, Zenon DEF SendNext
  <1>29. CASE AbandonBatch
    BY <1>29, Zenon DEF AbandonBatch
  <1>30. CASE BatchSent
    BY <1>30, Zenon DEF BatchSent
  <1>31. CASE SwapLibraryRequests
    BY <1>31, Zenon DEF SwapLibraryRequests
  <1>32. CASE NextListing
    BY <1>32, Zenon DEF NextListing
  <1>33. CASE RequestPage
    BY <1>33, SendTyped, Zenon DEF RequestPage
  <1>34. CASE ReceivePage
    BY <1>34, Zenon DEF ReceivePage
  <1>35. CASE ReceiveBadPage
    <2>1. truncated' \in BOOLEAN
      BY <1>35 DEF ReceiveBadPage
    <2>. QED  BY <1>35, <2>1, SendTyped, Zenon DEF ReceiveBadPage
  <1>36. CASE ReceiveUnpaged
    BY <1>36, Zenon DEF ReceiveUnpaged
  <1>37. CASE ListingCallFails
    BY <1>37, Zenon DEF ListingCallFails, EndCall
  <1>38. CASE PublishListing
    BY <1>38, Zenon DEF PublishListing
  <1>. QED
    BY <1>1, <1>2, <1>3, <1>4, <1>5, <1>6, <1>7, <1>8, <1>9, <1>10, <1>11, <1>12,
       <1>13, <1>14, <1>15, <1>16, <1>17, <1>18, <1>19, <1>20, <1>21, <1>22, <1>23, <1>24,
       <1>25, <1>26, <1>27, <1>28, <1>29, <1>30, <1>31, <1>32, <1>33, <1>34, <1>35, <1>36,
       <1>37, <1>38
       DEF LoopNext

-----------------------------------------------------------------------------
LEMMA ItemFieldsTyped ==
    ASSUME NEW item \in Titles, NEW np \in NowPlayings
    PROVE  ApplyItemFields(item, np) \in NowPlayings
  <1>1. ShowOf(item) \in Titles /\ np.title \in Titles /\ np.show \in Titles
    BY DEF ShowOf, Titles, NowPlayings
  <1>2. Filled(item, np.title) \in Titles /\ Filled(ShowOf(item), np.show) \in Titles
    BY <1>1 DEF Filled
  <1>. QED  BY <1>2 DEF ApplyItemFields, NowPlayings

\* A frame applied to the snapshot.
LEMMA FramePlayTyped ==
    ASSUME PlayTypes, NEW f \in Frames, HandleFrame(f), UNCHANGED props
    PROVE  PlayTypes'
  <1>1. f.data \in KodiStates /\ f.data.item \in Titles /\ f.data.volume \in Volumes
        /\ f.data.speed \in {0, 1}
    BY DEF Frames, KodiStates
  <1>2. volume' \in {volume, f.data.volume}
    BY DEF HandleFrame, trackVars
  <1>3. now_playing' \in {now_playing, Inactive,
                          [Identity(f) EXCEPT !.playback = PlaybackFromSpeed(f.data.speed)]}
    BY DEF HandleFrame, trackVars
  <1>4. Inactive \in NowPlayings
    BY DEF Inactive, NowPlayings, Titles
  <1>5. Identity(f) \in NowPlayings
    <2>1. [now_playing EXCEPT !.title = NoItem, !.show = NoItem] \in NowPlayings
      BY DEF PlayTypes, NowPlayings, Titles
    <2>. QED  BY <1>1, <2>1, ItemFieldsTyped DEF Identity, PlayTypes
  <1>6. [Identity(f) EXCEPT !.playback = PlaybackFromSpeed(f.data.speed)] \in NowPlayings
    BY <1>5 DEF NowPlayings, PlaybackFromSpeed
  <1>. QED  BY <1>1, <1>2, <1>3, <1>4, <1>6, Zenon DEF PlayTypes

LEMMA PlayTyped ==
    ASSUME PlayTypes, LinkTypes, LoopNext
    PROVE  PlayTypes'
  <1>0. Inactive \in NowPlayings /\ NoProps \in [speed : {0, 1}, ok : BOOLEAN]
    BY DEF Inactive, NowPlayings, Titles, NoProps
  <1>h. ASSUME inbox # <<>>
        PROVE  /\ Head(inbox) \in Frames /\ Head(inbox).data \in KodiStates
               /\ Head(inbox).data.volume \in Volumes /\ Head(inbox).data.speed \in {0, 1}
               /\ Head(inbox).data.item \in Titles /\ Head(inbox).ok \in BOOLEAN
    <2>1. Head(inbox) \in Frames
      BY <1>h DEF LinkTypes
    <2>2. \A f \in Frames : f.data \in KodiStates /\ f.ok \in BOOLEAN
      BY DEF Frames
    <2>3. \A k \in KodiStates : k.volume \in Volumes /\ k.speed \in {0, 1} /\ k.item \in Titles
      BY DEF KodiStates
    <2>. QED  BY <2>1, <2>2, <2>3, Zenon
  <1>1. CASE PumpFrame \/ ReceiveOther
    <2>1. inbox # <<>> /\ HandleFrame(Head(inbox)) /\ UNCHANGED props
      BY <1>1 DEF PumpFrame, ReceiveOther, pollVars
    <2>. QED  BY <1>h, <2>1, FramePlayTyped
  <1>2. CASE ReceiveApp
    <2>1. /\ volume' \in {volume, Head(inbox).data.volume} /\ UNCHANGED <<now_playing, props>>
          /\ inbox # <<>>
      BY <1>2 DEF ReceiveApp, TakeReply, MyReply
    <2>. QED  BY <1>h, <2>1 DEF PlayTypes
  <1>3. CASE ReceiveNoPlayers \/ ReceiveBadPlayer \/ PollCallFails \/ ConnectSucceeds
    BY <1>3, <1>0 DEF ReceiveNoPlayers, ReceiveBadPlayer, PollCallFails, ConnectSucceeds,
                      PollReturns, PlayTypes, trackVars
  <1>4. CASE ReceiveProps
    <2>1. props' = [speed |-> Head(inbox).data.speed,
                    ok    |-> Head(inbox).ok /\ Head(inbox).data.item # NoItem]
          /\ UNCHANGED <<now_playing, volume>>
      BY <1>4 DEF ReceiveProps, trackVars
    <2>2. Head(inbox).data.speed \in {0, 1}
      BY <1>4, <1>h DEF ReceiveProps, TakeReply, MyReply
    <2>3. ASSUME NEW speed \in {0, 1}, NEW ok \in BOOLEAN
          PROVE  [speed |-> speed, ok |-> ok] \in [speed : {0, 1}, ok : BOOLEAN]
      OBVIOUS
    <2>4. (Head(inbox).ok /\ Head(inbox).data.item # NoItem) \in BOOLEAN
      BY Zenon
    <2>. QED  BY <2>1, <2>2, <2>3, <2>4, Zenon DEF PlayTypes
  <1>5. CASE ReceiveItem
    <2> DEFINE timed == IF props.ok
                        THEN [now_playing EXCEPT !.playback = PlaybackFromSpeed(props.speed)]
                        ELSE now_playing
               named == IF Head(inbox).ok /\ ~identity_from_notification
                        THEN ApplyItemFields(GetItem(Head(inbox).data.item), timed)
                        ELSE timed
    <2>1. timed \in NowPlayings
      BY DEF PlayTypes, NowPlayings, PlaybackFromSpeed
    <2>2. GetItem(Head(inbox).data.item) \in Titles
      BY <1>5, <1>h DEF ReceiveItem, TakeReply, MyReply, GetItem, Titles
    <2>3. now_playing' \in {now_playing, named} /\ UNCHANGED volume /\ props' = NoProps
      BY <1>5 DEF ReceiveItem, PollReturns
    <2>. HIDE DEF timed
    <2>4. named \in NowPlayings
      BY <2>1, <2>2, ItemFieldsTyped
    <2>. HIDE DEF named
    <2>. QED  BY <1>0, <2>3, <2>4 DEF PlayTypes
  <1>6. CASE LoopExit \/ NoTargetFound \/ TargetFound \/ SleepUnwatched \/ ConnectFails
             \/ ConnectFailed \/ Primed \/ Disconnect \/ ConnectedWait \/ PumpDone
             \/ ActOnReason \/ ReportBusy \/ StartPoll \/ ReceivePlayers
    BY <1>6 DEF LoopExit, NoTargetFound, TargetFound, SleepUnwatched, ConnectFails, ConnectFailed,
                Primed, Disconnect, ConnectedWait, PumpDone, ActOnReason, ReportBusy, StartPoll,
                ReceivePlayers, PlayTypes, trackVars, pollVars
  <1>7. CASE NothingToSend \/ SwapCommands \/ PlayerResolved \/ PlayerUnresolved
             \/ SendNext \/ AbandonBatch \/ BatchSent
    BY <1>7 DEF NothingToSend, SwapCommands, PlayerResolved, PlayerUnresolved, SendNext,
                AbandonBatch, BatchSent, PlayTypes, trackVars, pollVars
  <1>8. CASE SwapLibraryRequests \/ NextListing \/ RequestPage \/ ReceivePage
             \/ ReceiveBadPage \/ ReceiveUnpaged \/ ListingCallFails \/ PublishListing
    BY <1>8 DEF SwapLibraryRequests, NextListing, RequestPage, ReceivePage, ReceiveBadPage,
                ReceiveUnpaged, ListingCallFails, PublishListing, PlayTypes, trackVars, pollVars
  <1>. QED  BY <1>1, <1>2, <1>3, <1>4, <1>5, <1>6, <1>7, <1>8 DEF LoopNext

-----------------------------------------------------------------------------
(***************************************************************************)
(* The command queue and the batch.                                        *)
(***************************************************************************)
\* SendPendingCommands() is under way with a batch.
Sending == pc = "sending" \/ (pc = "receive" /\ call = "Resolve")

QueueTypes ==
    /\ pending_commands \in Seq(Commands) /\ Len(pending_commands) <= kMaxPendingCommands
    /\ batch \in Seq(Commands) /\ stale \in 0..Len(batch)
    /\ batch # <<>> => Sending
    /\ caller \in {"commands", "list_commands"}
    /\ player_id \in {"some", "none", "unanswered"}
    /\ accepted \in 0..MaxCommands
    /\ sent \subseteq 1..MaxCommands /\ evicted \subseteq 1..MaxCommands
    /\ lost \subseteq 1..MaxCommands

\* The steps that touch neither the queue nor the batch.
LEMMA QueueQuiet ==
    ASSUME LoopNext,
           ~(SwapCommands \/ PlayerResolved \/ PlayerUnresolved \/ SendNext \/ AbandonBatch
             \/ BatchSent)
    PROVE  /\ UNCHANGED <<batchVars, pending_commands, accepted, evicted>>
           /\ Sending => Sending'
  <1> USE DEF ThreadFrame, queueVars
  <1>1. CASE LoopExit \/ NoTargetFound \/ TargetFound \/ SleepUnwatched \/ ConnectFails
             \/ ConnectSucceeds \/ ConnectFailed \/ Primed \/ Disconnect \/ ConnectedWait
             \/ PumpDone \/ ActOnReason \/ StartPoll
    BY <1>1 DEF LoopExit, NoTargetFound, TargetFound, SleepUnwatched, ConnectFails,
                ConnectSucceeds, ConnectFailed, Primed, Disconnect, ConnectedWait, PumpDone,
                ActOnReason, StartPoll, Sending
  <1>2. CASE PumpFrame \/ ReceiveOther \/ ReportBusy
    BY <1>2 DEF PumpFrame, ReceiveOther, ReportBusy, callVars, Sending
  <1>3. CASE ReceiveApp \/ ReceiveNoPlayers \/ ReceiveBadPlayer
             \/ ReceivePlayers \/ ReceiveProps \/ ReceiveItem \/ PollCallFails
    BY <1>3 DEF ReceiveApp, ReceiveNoPlayers, ReceiveBadPlayer, ReceivePlayers, ReceiveProps,
                ReceiveItem, PollCallFails, PollCalls, TakeReply, Sending
  <1>4. CASE NothingToSend \/ SwapLibraryRequests \/ NextListing \/ RequestPage \/ ReceivePage
             \/ ReceiveBadPage \/ ReceiveUnpaged \/ ListingCallFails \/ PublishListing
    BY <1>4 DEF NothingToSend, SwapLibraryRequests, NextListing, RequestPage, ReceivePage,
                ReceiveBadPage, ReceiveUnpaged, ListingCallFails, PublishListing, LibraryCalls,
                TakeReply, Sending
  <1>. QED  BY <1>1, <1>2, <1>3, <1>4 DEF LoopNext

LEMMA IdsTyped ==
    ASSUME NEW queue \in Seq(Commands)
    PROVE  Ids(queue) \subseteq 1..MaxCommands
  <1>1. \A i \in DOMAIN queue : queue[i] \in Commands
    OBVIOUS
  <1>2. \A c \in Commands : c.id \in 1..MaxCommands
    BY DEF Commands
  <1>. QED  BY <1>1, <1>2 DEF Ids

LEMMA QueueTyped ==
    ASSUME QueueTypes, LoopNext
    PROVE  QueueTypes'
  <1> USE KodiAssumption
  <1>1. CASE ~(SwapCommands \/ PlayerResolved \/ PlayerUnresolved \/ SendNext \/ AbandonBatch
               \/ BatchSent)
    BY <1>1, QueueQuiet DEF QueueTypes, batchVars
  <1>2. CASE SwapCommands
    <2>1. pc \in {"commands", "list_commands"} /\ ~Sending
      BY <1>2 DEF SwapCommands, Sending
    <2>2. batch = <<>> /\ stale = 0
      BY <2>1 DEF QueueTypes
    <2>3. /\ batch' = pending_commands /\ pending_commands' = <<>> /\ caller' = pc
          /\ player_id' = "none" /\ UNCHANGED <<sent, lost, accepted, evicted>>
          /\ stale' = stale \/ stale' \in 0..Len(batch')
          /\ Sending'
      BY <1>2 DEF SwapCommands, Swapped, SendCall, Goto, Sending
    <2>. QED  BY <2>1, <2>2, <2>3 DEF QueueTypes
  <1>3. CASE PlayerResolved \/ PlayerUnresolved
    <2>1. /\ player_id' \in {"some", "none", "unanswered"} /\ stale' \in 0..Len(batch)
          /\ Sending'
          /\ UNCHANGED <<batch, caller, sent, lost, pending_commands, accepted, evicted>>
      BY <1>3 DEF PlayerResolved, PlayerUnresolved, Goto, Sending, ThreadFrame, queueVars
    <2>. QED  BY <2>1 DEF QueueTypes
  <1>4. CASE SendNext
    <2>1. /\ batch # <<>> /\ batch' = Tail(batch) /\ pc' = "sending"
          /\ stale' = (IF stale > 0 THEN stale - 1 ELSE 0)
          /\ UNCHANGED <<caller, player_id, pending_commands, accepted, evicted>>
      BY <1>4 DEF SendNext, ThreadFrame, queueVars
    <2>2. /\ sent' \subseteq sent \cup {Head(batch).id} /\ lost' \subseteq lost \cup {Head(batch).id}
      BY <1>4 DEF SendNext
    <2>3. Head(batch).id \in 1..MaxCommands
      <3>1. Head(batch) \in Commands
        BY <2>1 DEF QueueTypes
      <3>. QED  BY <3>1 DEF Commands
    <2>4. batch' \in Seq(Commands) /\ Len(batch') = Len(batch) - 1 /\ Len(batch) \in Nat
      BY <2>1 DEF QueueTypes
    <2>5. stale' \in 0..Len(batch')
      BY <2>1, <2>4 DEF QueueTypes
    <2>6. sent' \subseteq 1..MaxCommands /\ lost' \subseteq 1..MaxCommands
      BY <2>2, <2>3 DEF QueueTypes
    <2>. QED  BY <2>1, <2>4, <2>5, <2>6 DEF QueueTypes, Sending
  <1>5. CASE AbandonBatch
    <2>1. /\ lost' = lost \cup Ids(batch) /\ batch' = <<>> /\ stale' = 0
          /\ caller' = "commands" /\ player_id' = "none"
          /\ UNCHANGED <<sent, pending_commands, accepted, evicted>>
      BY <1>5 DEF AbandonBatch, ThreadFrame, queueVars
    <2>2. Ids(batch) \subseteq 1..MaxCommands
      BY IdsTyped DEF QueueTypes
    <2>3. lost' \subseteq 1..MaxCommands
      BY <2>1, <2>2, Zenon DEF QueueTypes
    <2>4. batch' \in Seq(Commands) /\ stale' \in 0..Len(batch') /\ ~(batch' # <<>>)
      BY <2>1
    <2>. QED  BY <2>1, <2>3, <2>4, Zenon DEF QueueTypes
  <1>6. CASE BatchSent
    <2>1. /\ batch = <<>> /\ caller' = "commands" /\ player_id' = "none"
          /\ UNCHANGED <<batch, stale, sent, lost, pending_commands, accepted, evicted>>
      BY <1>6 DEF BatchSent, ThreadFrame, queueVars
    <2>. QED  BY <2>1 DEF QueueTypes
  <1>. QED  BY <1>1, <1>2, <1>3, <1>4, <1>5, <1>6 DEF LoopNext

-----------------------------------------------------------------------------
(***************************************************************************)
(* The library requests and the listing under way.                         *)
(***************************************************************************)
\* Between NextListing and the listing's event.
Listing ==
    \/ pc \in {"list_commands", "page_send", "publish_listing"}
    \/ pc = "receive" /\ call \in LibraryCalls
    \/ Sending /\ caller = "list_commands"

ListTypes ==
    /\ pending_library_requests \in Seq(Listings)
    /\ Len(pending_library_requests) <= kMaxPendingLibraryRequests
    /\ \A i, j \in DOMAIN pending_library_requests :
          pending_library_requests[i] = pending_library_requests[j] => i = j
    /\ library_batch \in Seq(Listings) /\ (Listing => library_batch # <<>>)
    /\ page \in 0..MaxPages /\ (page = MaxPages => pc = "publish_listing")
    /\ issued \in 0..MaxRequests

\* The steps outside SendPendingLibraryRequests().
LEMMA ListQuiet ==
    ASSUME LoopNext, QueueTypes,
           ~(Disconnect \/ SwapLibraryRequests \/ NextListing \/ ReceivePage \/ ReceiveBadPage
             \/ ReceiveUnpaged \/ ListingCallFails \/ PublishListing)
    PROVE  /\ UNCHANGED <<pending_library_requests, issued, library_batch, page>>
           /\ Listing' => Listing
           /\ pc # "publish_listing"
  <1> USE DEF ThreadFrame, queueVars, listingVars
  <1>1. CASE LoopExit \/ NoTargetFound \/ TargetFound \/ SleepUnwatched \/ ConnectFails
             \/ ConnectSucceeds \/ ConnectFailed \/ Primed
    BY <1>1 DEF LoopExit, NoTargetFound, TargetFound, SleepUnwatched, ConnectFails,
                ConnectSucceeds, ConnectFailed, Primed, Goto, Listing, LibraryCalls, Sending
  <1>2. CASE ConnectedWait \/ PumpDone \/ ActOnReason \/ StartPoll
    BY <1>2 DEF ConnectedWait, AfterWait, PumpDone, ActOnReason, StartPoll, SendCall, Goto,
                Listing, LibraryCalls, Sending
  <1>3. CASE PumpFrame \/ ReceiveOther \/ ReportBusy
    BY <1>3 DEF PumpFrame, ReceiveOther, ReportBusy, callVars, batchVars, Listing, Sending
  <1>4. CASE ReceiveApp \/ ReceiveNoPlayers \/ ReceiveBadPlayer
             \/ ReceivePlayers \/ ReceiveProps \/ ReceiveItem \/ PollCallFails
    BY <1>4 DEF ReceiveApp, ReceiveNoPlayers, ReceiveBadPlayer, ReceivePlayers, ReceiveProps,
                ReceiveItem, PollCallFails, PollReturns, SendCall, TakeReply, Goto, Listing,
                LibraryCalls, Sending
  <1>5. CASE NothingToSend \/ RequestPage
    BY <1>5 DEF NothingToSend, CommandsSent, RequestPage, SendCall, Goto, Listing, LibraryCalls,
                Sending
  <1>6. CASE SwapCommands \/ PlayerResolved \/ PlayerUnresolved
    BY <1>6 DEF SwapCommands, PlayerResolved, PlayerUnresolved, TakeReply, SendCall, Goto,
                Listing, LibraryCalls, Sending
  <1>7. CASE SendNext \/ AbandonBatch
    BY <1>7 DEF SendNext, AbandonBatch, Goto, callVars, Listing, LibraryCalls, Sending
  <1>8. CASE BatchSent
    BY <1>8 DEF BatchSent, CommandsSent, Goto, QueueTypes, Listing, LibraryCalls, Sending
  <1>. QED  BY <1>1, <1>2, <1>3, <1>4, <1>5, <1>6, <1>7, <1>8 DEF LoopNext

LEMMA ListTyped ==
    ASSUME ListTypes, QueueTypes, LoopNext
    PROVE  ListTypes'
  <1> USE KodiAssumption
  <1>1. CASE ~(Disconnect \/ SwapLibraryRequests \/ NextListing \/ ReceivePage \/ ReceiveBadPage
               \/ ReceiveUnpaged \/ ListingCallFails \/ PublishListing)
    BY <1>1, ListQuiet DEF ListTypes
  <1>2. CASE Disconnect
    BY <1>2 DEF Disconnect, Goto, ThreadFrame, queueVars, ListTypes, Listing, Sending
  <1>3. CASE SwapLibraryRequests
    BY <1>3 DEF SwapLibraryRequests, Goto, ListTypes, Listing, Sending
  <1>4. CASE NextListing
    <2>1. /\ pc = "library_next" /\ pc' \in {"act_on_reason", "disconnect", "list_commands"}
          /\ pc' = "list_commands" => library_batch # <<>>
          /\ UNCHANGED <<pending_library_requests, issued, library_batch, page>>
      BY <1>4 DEF NextListing, Goto, ThreadFrame, queueVars, listingVars
    <2>. QED  BY <2>1 DEF ListTypes, Listing, Sending
  <1>5. CASE ReceivePage
    <2>1. /\ Listing /\ page' = page + 1 /\ pc = "receive"
          /\ pc' = "publish_listing" \/ page' < MaxPages
          /\ UNCHANGED <<pending_library_requests, issued, library_batch>>
      BY <1>5 DEF ReceivePage, TakeReply, Goto, ThreadFrame, queueVars, Listing, LibraryCalls
    <2>. QED  BY <2>1 DEF ListTypes
  <1>6. CASE ReceiveBadPage
    <2>1. /\ Listing /\ pc = "receive"
          /\ UNCHANGED <<pending_library_requests, issued, library_batch, page>>
      BY <1>6 DEF ReceiveBadPage, TakeReply, ThreadFrame, queueVars, Listing, LibraryCalls
    <2>. QED  BY <2>1 DEF ListTypes
  <1>7. CASE ReceiveUnpaged
    <2>1. /\ Listing /\ page' \in {0, 1} /\ pc' = "publish_listing"
          /\ UNCHANGED <<pending_library_requests, issued, library_batch>>
      BY <1>7 DEF ReceiveUnpaged, TakeReply, Goto, ThreadFrame, queueVars, Listing, LibraryCalls
    <2>. QED  BY <2>1 DEF ListTypes
  <1>8. CASE ListingCallFails
    <2>1. /\ Listing /\ pc = "receive"
          /\ UNCHANGED <<pending_library_requests, issued, library_batch, page>>
      BY <1>8 DEF ListingCallFails, ThreadFrame, queueVars, Listing, LibraryCalls
    <2>. QED  BY <2>1 DEF ListTypes
  <1>9. CASE PublishListing
    <2>1. /\ Listing /\ pc' = "library_next" /\ page' = 0 /\ library_batch' = Tail(library_batch)
          /\ UNCHANGED <<pending_library_requests, issued>>
      BY <1>9 DEF PublishListing, Goto, ThreadFrame, queueVars, Listing
    <2>2. library_batch' \in Seq(Listings)
      BY <2>1 DEF ListTypes
    <2>. QED  BY <2>1, <2>2 DEF ListTypes, Listing, Sending
  <1>. QED  BY <1>1, <1>2, <1>3, <1>4, <1>5, <1>6, <1>7, <1>8, <1>9

-----------------------------------------------------------------------------
(***************************************************************************)
(* "Kodi is busy".                                                         *)
(***************************************************************************)
Among(kinds, frames) == \E i \in DOMAIN frames : frames[i].kind \in kinds

\* The running Call()'s request is with Kodi, or its reply on the way back.
Awaiting ==
    \/ \E i \in DOMAIN requests : requests[i] = "awaited"
    \/ Among({"awaited"}, inbox)

BusyInv ==
    /\ BusyMeansUnanswered
    /\ pc = "receive" /\ ws = "open" => Awaiting

LEMMA AmongAppend ==
    ASSUME NEW frames \in Seq(Frames), NEW f \in Frames, NEW kinds
    PROVE  /\ Among(kinds, frames) => Among(kinds, Append(frames, f))
           /\ f.kind \in kinds => Among(kinds, Append(frames, f))
  <1>1. /\ DOMAIN Append(frames, f) = 1..(Len(frames) + 1) /\ DOMAIN frames = 1..Len(frames)
        /\ Len(frames) \in Nat
        /\ \A i \in 1..Len(frames) : Append(frames, f)[i] = frames[i]
        /\ Append(frames, f)[Len(frames) + 1] = f
    OBVIOUS
  <1>2. f.kind \in kinds => Among(kinds, Append(frames, f))
    <2>1. Len(frames) + 1 \in DOMAIN Append(frames, f)
      BY <1>1
    <2>. QED  BY <1>1, <2>1, Zenon DEF Among
  <1>3. Among(kinds, frames) => Among(kinds, Append(frames, f))
    BY <1>1 DEF Among
  <1>. QED  BY <1>2, <1>3

LEMMA AmongTail ==
    ASSUME NEW frames \in Seq(Frames), frames # <<>>, NEW kinds, Head(frames).kind \notin kinds,
           Among(kinds, frames)
    PROVE  Among(kinds, Tail(frames))
  <1>1. PICK i \in DOMAIN frames : frames[i].kind \in kinds
    BY DEF Among
  <1>2. i \in 2..Len(frames)
    BY <1>1
  <1>3. i - 1 \in DOMAIN Tail(frames) /\ Tail(frames)[i - 1] = frames[i]
    BY <1>2
  <1>. QED  BY <1>1, <1>3 DEF Among

LEMMA AmongUnawaited ==
    ASSUME NEW queue \in Seq(Requests), NEW frames \in Seq(Frames)
    PROVE  /\ Among(Requests, frames) => Among(Requests, UnawaitedFrames(frames))
           /\ queue # <<>> => Unawaited(queue) # <<>>
  <1>1. Among(Requests, frames) => Among(Requests, UnawaitedFrames(frames))
    BY UnawaitedTyped DEF Among, IsReply, Requests
  <1>2. queue # <<>> => Unawaited(queue) # <<>>
    <2>1. Unawaited(queue) \in Seq(Requests) /\ Len(Unawaited(queue)) = Len(queue)
      BY UnawaitedTyped
    <2>. QED  BY <2>1
  <1>. QED  BY <1>1, <1>2

LEMMA RequestAppended ==
    ASSUME NEW queue \in Seq(Requests), NEW r \in Requests
    PROVE  /\ Append(queue, r) # <<>>
           /\ r = "awaited" => \E i \in DOMAIN Append(queue, r) : Append(queue, r)[i] = "awaited"
  <1>1. Len(queue) + 1 \in DOMAIN Append(queue, r) /\ Append(queue, r)[Len(queue) + 1] = r
    OBVIOUS
  <1>. QED  BY <1>1

\* Kodi's steps keep every request or its reply.
LEMMA BusyKodi ==
    ASSUME BusyInv, LinkTypes, KodiNext
    PROVE  BusyInv'
  <1>0. UNCHANGED <<pc, library_busy>> /\ UNCHANGED callVars
    BY DEF KodiNext, KodiPlays, KodiPausesOrResumes, KodiStops, KodiVolume, KodiChanges,
           KodiAnswers, LinkDies, ClientFrame
  <1>1. ASSUME NEW kind, NEW new, KodiChanges(kind, new), inbox' \in Seq(Frames)
        PROVE  BusyInv'
    <2>1. UNCHANGED <<requests, ws>>
      BY <1>1 DEF KodiChanges
    <2>2. inbox \in Seq(Frames) /\ Len(inbox) \in Nat
      BY DEF LinkTypes
    <2>3. \A i \in DOMAIN inbox : i \in DOMAIN inbox' /\ inbox'[i] = inbox[i]
      <3>1. CASE inbox' = inbox
        BY <3>1
      <3>2. CASE inbox' = Append(inbox, Frame(kind, TRUE, new))
        <4> DEFINE f == Frame(kind, TRUE, new)
        <4>1. inbox' = Append(inbox, f)
          BY <3>2
        <4>. HIDE DEF f
        <4>. QED  BY <2>2, <4>1
      <3>. QED  BY <1>1, <3>1, <3>2 DEF KodiChanges
    <2>4. \A kinds : Among(kinds, inbox) => Among(kinds, inbox')
      BY <2>3 DEF Among
    <2>5. BusyMeansUnanswered'
      BY <1>0, <2>1, <2>3 DEF BusyInv, BusyMeansUnanswered, IsReply
    <2>. QED  BY <1>0, <2>1, <2>4, <2>5 DEF BusyInv, Awaiting
  <1>2. inbox' \in Seq(Frames)
    BY KodiTyped DEF LinkTypes
  <1>3. CASE KodiAnswers
    <2>1. PICK ok \in BOOLEAN : inbox' = Append(inbox, Frame(Head(requests), ok, kodi))
      BY <1>3 DEF KodiAnswers
    <2>2. /\ requests # <<>> /\ requests \in Seq(Requests) /\ requests' = Tail(requests)
          /\ kodi \in KodiStates /\ inbox \in Seq(Frames) /\ UNCHANGED ws
      BY <1>3 DEF KodiAnswers, LinkTypes
    <2>3. Head(requests) \in Requests
      BY <2>2
    <2>4. /\ Frame(Head(requests), ok, kodi) \in Frames
          /\ Frame(Head(requests), ok, kodi).kind = Head(requests)
      BY <2>2, <2>3 DEF Frame, Frames
    <2>5. Among(Requests, inbox')
      BY <2>1, <2>2, <2>3, <2>4, AmongAppend
    <2>6. Awaiting => Awaiting'
      <3>1. CASE Among({"awaited"}, inbox)
        BY <2>1, <2>2, <2>4, <3>1, AmongAppend DEF Awaiting
      <3>2. ASSUME NEW i \in DOMAIN requests, requests[i] = "awaited" PROVE Awaiting'
        <4>1. CASE i = 1
          <5>1. Head(requests) = "awaited"
            BY <2>2, <3>2, <4>1
          <5>. QED  BY <2>1, <2>2, <2>4, <5>1, AmongAppend DEF Awaiting
        <4>2. CASE i # 1
          <5>1. i - 1 \in DOMAIN Tail(requests) /\ Tail(requests)[i - 1] = requests[i]
            BY <2>2, <4>2
          <5>. QED  BY <2>2, <3>2, <5>1 DEF Awaiting
        <4>. QED  BY <4>1, <4>2
      <3>. QED  BY <3>1, <3>2 DEF Awaiting
    <2>7. BusyMeansUnanswered'
      BY <2>5 DEF BusyMeansUnanswered, Among, IsReply, Requests
    <2>. QED  BY <1>0, <2>2, <2>6, <2>7 DEF BusyInv
  <1>4. CASE LinkDies
    BY <1>4 DEF LinkDies, BusyInv, BusyMeansUnanswered
  <1>. QED
    BY <1>1, <1>2, <1>3, <1>4
       DEF KodiNext, KodiPlays, KodiPausesOrResumes, KodiStops, KodiVolume

\* BusyMeansUnanswered in terms of Among, before and after a step.
LEMMA BusyBefore ==
    ASSUME BusyInv
    PROVE  library_busy => requests # <<>> \/ Among(Requests, inbox) \/ ws = "dead"
  BY DEF BusyInv, BusyMeansUnanswered, Among, IsReply, Requests

LEMMA BusyAfter ==
    ASSUME library_busy' => requests' # <<>> \/ Among(Requests, inbox') \/ ws' = "dead",
           pc' = "receive" /\ ws' = "open" => Awaiting'
    PROVE  BusyInv'
  BY DEF BusyInv, BusyMeansUnanswered, Among, IsReply, Requests

\* A call that is sent awaits its answer.
LEMMA CallAwaits ==
    ASSUME LinkTypes, NEW method, SendCall(method), UNCHANGED ws
    PROVE  /\ requests # <<>> => requests' # <<>>
           /\ ws' = "open" => Awaiting'
  <1>1. requests \in Seq(Requests) /\ "awaited" \in Requests
    BY DEF LinkTypes, Requests
  <1>2. requests' = IF ws = "open" THEN Append(requests, "awaited") ELSE requests
    BY DEF SendCall
  <1>3. /\ Append(requests, "awaited") # <<>>
        /\ \E i \in DOMAIN Append(requests, "awaited") : Append(requests, "awaited")[i] = "awaited"
    BY <1>1, RequestAppended
  <1>. QED  BY <1>2, <1>3 DEF Awaiting

LEMMA BusyLoop ==
    ASSUME BusyInv, LinkTypes, LoopNext
    PROVE  BusyInv'
  <1>0. requests \in Seq(Requests) /\ inbox \in Seq(Frames)
    BY DEF LinkTypes
  <1>1. ASSUME ~library_busy', pc' # "receive" PROVE BusyInv'
    BY <1>1, BusyAfter
  <1>2. CASE ConnectFailed \/ Disconnect
    <2>1. ~library_busy' /\ pc' # "receive"
      BY <1>2 DEF ConnectFailed, Disconnect, ClearLibraryBusy, Goto
    <2>. QED  BY <1>1, <2>1
  <1>3. CASE \/ LoopExit \/ NoTargetFound \/ TargetFound \/ SleepUnwatched \/ ConnectFails
             \/ Primed \/ ConnectedWait \/ PumpDone \/ ActOnReason \/ NothingToSend
             \/ AbandonBatch \/ BatchSent \/ SwapLibraryRequests \/ NextListing \/ PublishListing
    <2>1. UNCHANGED <<linkVars, library_busy>> /\ pc' # "receive"
      BY <1>3 DEF LoopExit, NoTargetFound, TargetFound, SleepUnwatched, ConnectFails,
                  Primed, ConnectedWait, AfterWait, PumpDone, ActOnReason, NothingToSend,
                  CommandsSent, AbandonBatch, BatchSent, SwapLibraryRequests, NextListing,
                  PublishListing, Goto
    <2>. QED  BY <2>1, BusyBefore, BusyAfter DEF linkVars
  <1>4. CASE ConnectSucceeds
    <2>1. requests' = <<"awaited">>
      BY <1>4 DEF ConnectSucceeds
    <2>2. requests' # <<>> /\ 1 \in DOMAIN requests' /\ requests'[1] = "awaited"
      BY <2>1
    <2>. QED  BY <2>2, BusyAfter DEF Awaiting
  <1>5. CASE PumpFrame \/ ReceiveOther
    <2>1. /\ inbox # <<>> /\ inbox' = Tail(inbox)
          /\ library_busy' = (library_busy /\ ~IsReply(Head(inbox)))
          /\ UNCHANGED <<pc, ws, requests>>
          /\ pc = "receive" => Head(inbox).kind # "awaited"
      BY <1>5 DEF PumpFrame, ReceiveOther, HandleFrame, MyReply
    <2>2. library_busy' => library_busy /\ Head(inbox).kind \notin Requests
      BY <2>1 DEF IsReply, Requests
    <2>3. library_busy' /\ Among(Requests, inbox) => Among(Requests, inbox')
      BY <1>0, <2>1, <2>2, AmongTail
    <2>4. pc = "receive" /\ Awaiting => Awaiting'
      <3>1. CASE Among({"awaited"}, inbox)
        BY <1>0, <2>1, <3>1, AmongTail DEF Awaiting
      <3>2. CASE \E i \in DOMAIN requests : requests[i] = "awaited"
        BY <2>1, <3>2 DEF Awaiting
      <3>. QED  BY <3>1, <3>2 DEF Awaiting
    <2>. QED  BY <2>1, <2>2, <2>3, <2>4, BusyBefore, BusyAfter DEF BusyInv
  <1>6. CASE ReportBusy
    <2>1. pc = "receive" /\ ws = "open" /\ UNCHANGED <<ws, requests, inbox>>
      BY <1>6 DEF ReportBusy, linkVars
    <2>2. Awaiting /\ Awaiting'
      BY <2>1 DEF BusyInv, Awaiting
    <2>3. requests # <<>> \/ Among(Requests, inbox)
      BY <1>0, <2>2 DEF Awaiting, Among, Requests
    <2>. QED  BY <2>1, <2>2, <2>3, BusyAfter
  <1>7. CASE StartPoll \/ RequestPage \/ SwapCommands
    <2>1. UNCHANGED <<ws, inbox, library_busy>>
      BY <1>7 DEF StartPoll, RequestPage, SwapCommands
    <2>2. \/ \E method : SendCall(method)
          \/ UNCHANGED requests /\ pc' = "sending"
      BY <1>7, Zenon DEF StartPoll, RequestPage, SwapCommands, Goto
    <2>3. CASE \E method : SendCall(method)
      BY <2>1, <2>3, CallAwaits, BusyBefore, BusyAfter
    <2>4. CASE UNCHANGED requests /\ pc' = "sending"
      BY <2>1, <2>4, BusyBefore, BusyAfter
    <2>. QED  BY <2>2, <2>3, <2>4
  <1>8. CASE ReceiveApp \/ ReceivePlayers \/ ReceiveProps \/ ReceiveBadPage
    <2>1. ~library_busy' /\ UNCHANGED ws
      BY <1>8 DEF ReceiveApp, ReceivePlayers, ReceiveProps, ReceiveBadPage, TakeReply
    <2>2. (\E method : SendCall(method)) \/ pc' # "receive"
      BY <1>8 DEF ReceiveApp, ReceivePlayers, ReceiveProps, ReceiveBadPage, Goto
    <2>. QED  BY <1>1, <2>1, <2>2, CallAwaits, BusyAfter
  <1>9. CASE ReceiveNoPlayers \/ ReceiveBadPlayer \/ ReceiveItem \/ PlayerResolved
             \/ ReceivePage \/ ReceiveUnpaged
    <2>1. ~library_busy' /\ pc' # "receive"
      BY <1>9 DEF ReceiveNoPlayers, ReceiveBadPlayer, ReceiveItem, PlayerResolved, ReceivePage,
                  ReceiveUnpaged, TakeReply, PollReturns, Goto
    <2>. QED  BY <1>1, <2>1
  <1>10. CASE PollCallFails \/ PlayerUnresolved \/ ListingCallFails
    <2>1. /\ EndCall /\ pc' # "receive" /\ UNCHANGED library_busy
      BY <1>10 DEF PollCallFails, PlayerUnresolved, ListingCallFails, PollReturns, Goto
    <2>2. /\ requests' = Unawaited(requests) /\ inbox' = UnawaitedFrames(inbox) /\ UNCHANGED ws
      BY <2>1 DEF EndCall
    <2>3. /\ requests # <<>> => requests' # <<>>
          /\ Among(Requests, inbox) => Among(Requests, inbox')
      BY <1>0, <2>2, AmongUnawaited
    <2>. QED  BY <2>1, <2>2, <2>3, BusyBefore, BusyAfter
  <1>11. CASE SendNext
    <2>1. /\ UNCHANGED <<ws, inbox, library_busy>> /\ pc' # "receive"
          /\ requests' = requests \/ requests' = Append(requests, "other")
      BY <1>11 DEF SendNext
    <2>2. Append(requests, "other") # <<>>
      BY <1>0
    <2>. QED  BY <2>1, <2>2, BusyBefore, BusyAfter
  <1>. QED
    BY <1>2, <1>3, <1>4, <1>5, <1>6, <1>7, <1>8, <1>9, <1>10, <1>11 DEF LoopNext

-----------------------------------------------------------------------------
(***************************************************************************)
(* LibrarySafe.                                                            *)
(***************************************************************************)
\* Start(), Stop() and the join, the triggers and the two queues.
LEMMA OthersTyped ==
    ASSUME LinkTypes, LoopTypes, BooleanTypes, PlayTypes, QueueTypes, ListTypes, OthersNext
    PROVE  LinkTypes' /\ LoopTypes' /\ BooleanTypes' /\ PlayTypes' /\ QueueTypes' /\ ListTypes'
  <1> USE KodiAssumption
  <1>1. /\ UNCHANGED kodiVars /\ UNCHANGED linkVars
        /\ UNCHANGED <<reason, current_delay, no_target_delay>>
        /\ UNCHANGED <<callVars, state, library_busy, trackVars, pollVars, batchVars,
                       listingVars>>
        /\ \/ UNCHANGED pc
           \/ pc = "idle" /\ pc' = "top"
           \/ pc = "exited" /\ pc' = "idle"
    <2>1. UNCHANGED kodiVars /\ UNCHANGED linkVars
      BY DEF OthersNext, Start, RequestStop, JoinThread, TriggerReconnect, EnqueueCommand,
             EnqueueLibraryRequest
    <2>2. UNCHANGED <<reason, current_delay, no_target_delay>>
      BY DEF OthersNext, Start, RequestStop, JoinThread, TriggerReconnect, EnqueueCommand,
             EnqueueLibraryRequest, waitVars
    <2>. QED  BY <2>1, <2>2, OthersThread
  <1>2. LinkTypes' /\ LoopTypes'
    BY <1>1 DEF LinkTypes, LoopTypes, Pcs, kodiVars, linkVars, callVars
  <1>3. BooleanTypes' /\ PlayTypes'
    <2>1. stop' \in BOOLEAN /\ requested' \in BOOLEAN
      BY Zenon DEF OthersNext, Start, RequestStop, JoinThread, TriggerReconnect, Trigger,
                   EnqueueCommand, EnqueueLibraryRequest, waitVars, BooleanTypes
    <2>. QED
      BY <1>1, <2>1
         DEF BooleanTypes, PlayTypes, callVars, trackVars, pollVars, batchVars, listingVars
  <1>4. Sending' = Sending /\ Listing' = Listing
    BY <1>1 DEF Sending, Listing, callVars, batchVars
  <1>5. QueueTypes'
    <2>1. ASSUME NEW kind \in CommandKinds, EnqueueCommand(kind) PROVE QueueTypes'
      <3> DEFINE command == [id |-> accepted + 1, kind |-> kind]
                 queue == Append(pending_commands, command)
      <3>1. /\ accepted < MaxCommands /\ accepted' = accepted + 1
            /\ IF CapExceeded(queue)
               THEN pending_commands' = Tail(queue) /\ evicted' = evicted \cup {Head(queue).id}
               ELSE pending_commands' = queue /\ evicted' = evicted
        BY <2>1 DEF EnqueueCommand
      <3>2. command \in Commands /\ pending_commands \in Seq(Commands) /\ accepted \in Nat
            /\ Len(pending_commands) <= kMaxPendingCommands
        BY <3>1 DEF Commands, QueueTypes
      <3>. HIDE DEF command
      <3>3. /\ queue \in Seq(Commands) /\ queue # <<>> /\ Len(queue) <= kMaxPendingCommands + 1
            /\ Tail(queue) \in Seq(Commands) /\ Len(Tail(queue)) = Len(queue) - 1
            /\ Head(queue) \in Commands
        BY <3>2
      <3>4. Head(queue).id \in 1..MaxCommands
        BY <3>3 DEF Commands
      <3>. HIDE DEF queue
      <3>5. /\ pending_commands' \in Seq(Commands) /\ Len(pending_commands') <= kMaxPendingCommands
            /\ evicted' \subseteq 1..MaxCommands /\ accepted' \in 0..MaxCommands
        <4>1. accepted' \in 0..MaxCommands
          BY <3>1, <3>2
        <4>2. CASE CapExceeded(queue)
          <5>1. /\ pending_commands' = Tail(queue) /\ evicted' = evicted \cup {Head(queue).id}
            BY <3>1, <4>2
          <5>2. evicted' \subseteq 1..MaxCommands
            BY <3>4, <5>1, Zenon DEF QueueTypes
          <5>. QED  BY <3>3, <4>1, <5>1, <5>2
        <4>3. CASE ~CapExceeded(queue)
          <5>1. pending_commands' = queue /\ evicted' = evicted
            BY <3>1, <4>3
          <5>. QED  BY <3>3, <4>1, <4>3, <5>1 DEF CapExceeded, QueueTypes
        <4>. QED  BY <4>2, <4>3
      <3>. QED  BY <1>1, <1>4, <3>5 DEF QueueTypes, batchVars
    <2>2. CASE UNCHANGED <<pending_commands, accepted, evicted>>
      BY <1>1, <1>4, <2>2 DEF QueueTypes, batchVars
    <2>3. (\E kind \in CommandKinds : EnqueueCommand(kind))
          \/ UNCHANGED <<pending_commands, accepted, evicted>>
      BY DEF OthersNext, Start, RequestStop, JoinThread, TriggerReconnect, EnqueueLibraryRequest,
             queueVars
    <2>. QED  BY <2>1, <2>2, <2>3
  <1>6. ListTypes'
    <2>0. (page = MaxPages => pc' = "publish_listing") /\ UNCHANGED <<page, library_batch>>
      BY <1>1 DEF ListTypes, listingVars
    <2>1. ASSUME NEW request \in Listings, EnqueueLibraryRequest(request) PROVE ListTypes'
      <3> DEFINE queue == Append(pending_library_requests, request)
      <3>1. /\ issued < MaxRequests /\ issued' = issued + 1
            /\ pending_library_requests' =
                 IF IsWaiting(request) THEN pending_library_requests
                 ELSE IF Len(queue) > kMaxPendingLibraryRequests THEN Tail(queue) ELSE queue
        BY <2>1 DEF EnqueueLibraryRequest
      <3>2. /\ pending_library_requests \in Seq(Listings)
            /\ Len(pending_library_requests) <= kMaxPendingLibraryRequests
            /\ \A i, j \in DOMAIN pending_library_requests :
                  pending_library_requests[i] = pending_library_requests[j] => i = j
        BY DEF ListTypes
      <3>3. CASE IsWaiting(request)
        BY <1>4, <2>0, <3>1, <3>2, <3>3 DEF ListTypes
      <3>4. CASE ~IsWaiting(request)
        <4>1. /\ queue \in Seq(Listings) /\ Len(queue) = Len(pending_library_requests) + 1
              /\ \A i \in 1..Len(pending_library_requests) : queue[i] = pending_library_requests[i]
              /\ queue[Len(queue)] = request /\ Len(queue) \in Nat /\ DOMAIN queue = 1..Len(queue)
          BY <3>2
        <4>2. \A i \in 1..Len(pending_library_requests) : pending_library_requests[i] # request
          BY <3>2, <3>4 DEF IsWaiting
        <4>. HIDE DEF queue
        <4>3. \A i, j \in 1..Len(queue) : queue[i] = queue[j] => i = j
          BY <3>2, <4>1, <4>2
        <4>4. /\ Tail(queue) \in Seq(Listings) /\ Len(Tail(queue)) = Len(queue) - 1
              /\ DOMAIN Tail(queue) = 1..(Len(queue) - 1)
              /\ \A i \in 1..(Len(queue) - 1) : Tail(queue)[i] = queue[i + 1]
          BY <3>2, <4>1
        <4>5. \A i, j \in DOMAIN Tail(queue) : Tail(queue)[i] = Tail(queue)[j] => i = j
          BY <4>1, <4>3, <4>4
        <4>6. /\ pending_library_requests' \in Seq(Listings)
              /\ Len(pending_library_requests') <= kMaxPendingLibraryRequests
              /\ \A i, j \in DOMAIN pending_library_requests' :
                    pending_library_requests'[i] = pending_library_requests'[j] => i = j
          <5>1. CASE Len(queue) > kMaxPendingLibraryRequests
            <6>1. pending_library_requests' = Tail(queue)
              BY <3>1, <3>4, <5>1
            <6>. QED  BY <3>2, <4>1, <4>4, <4>5, <6>1
          <5>2. CASE ~(Len(queue) > kMaxPendingLibraryRequests)
            <6>1. pending_library_requests' = queue
              BY <3>1, <3>4, <5>2
            <6>. QED  BY <4>1, <4>3, <5>2, <6>1
          <5>. QED  BY <5>1, <5>2
        <4>7. issued' \in 0..MaxRequests
          BY <3>1 DEF ListTypes
        <4>. QED  BY <1>4, <2>0, <4>6, <4>7 DEF ListTypes
      <3>. QED  BY <3>3, <3>4
    <2>2. CASE UNCHANGED <<pending_library_requests, issued>>
      BY <1>4, <2>0, <2>2 DEF ListTypes
    <2>3. (\E request \in Listings : EnqueueLibraryRequest(request))
          \/ UNCHANGED <<pending_library_requests, issued>>
      BY DEF OthersNext, Start, RequestStop, JoinThread, TriggerReconnect, EnqueueCommand,
             queueVars
    <2>. QED  BY <2>1, <2>2, <2>3
  <1>. QED  BY <1>2, <1>3, <1>5, <1>6

TypeParts ==
    LinkTypes /\ LoopTypes /\ BooleanTypes /\ PlayTypes /\ QueueTypes /\ ListTypes

LEMMA TypePartsInit == Init => TypeParts
  <1> SUFFICES ASSUME Init PROVE TypeParts
    OBVIOUS
  <1> USE KodiAssumption DEF Init
  <1>1. LinkTypes
    <2>1. kodi \in KodiStates
      BY DEF KodiStates, Titles
    <2>. QED  BY <2>1 DEF LinkTypes
  <1>2. LoopTypes
    BY DelayAssumption
       DEF LoopTypes, Pcs, WakeReasons, BackoffInit, NoTarget!BackoffInit, Calls, States
  <1>3. BooleanTypes
    BY Zenon DEF BooleanTypes
  <1>4. PlayTypes
    BY DEF PlayTypes, NowPlayings, Inactive, Titles, NoProps
  <1>5. QueueTypes
    BY DEF QueueTypes
  <1>6. ListTypes
    BY DEF ListTypes, Listing, Sending
  <1>. QED  BY <1>1, <1>2, <1>3, <1>4, <1>5, <1>6 DEF TypeParts

LEMMA TypePartsStep == TypeParts /\ [Next]_vars => TypeParts'
  <1> SUFFICES ASSUME TypeParts, [Next]_vars PROVE TypeParts'
    OBVIOUS
  <1>1. CASE LoopNext
    BY <1>1, LinkMoves, LinkTyped, LoopTyped, BooleansTyped, PlayTyped, QueueTyped, ListTyped
       DEF TypeParts
  <1>2. CASE KodiNext
    <2>1. ClientFrame
      BY <1>2 DEF KodiNext, KodiPlays, KodiPausesOrResumes, KodiStops, KodiVolume, KodiChanges,
                  KodiAnswers, LinkDies
    <2>2. LinkTypes'
      BY <1>2, KodiTyped DEF TypeParts
    <2>3. LoopTypes' /\ BooleanTypes' /\ PlayTypes'
      BY <2>1 DEF TypeParts, ClientFrame, LoopTypes, BooleanTypes, PlayTypes, waitVars, callVars,
                  trackVars, pollVars, batchVars, listingVars
    <2>4. QueueTypes' /\ ListTypes'
      BY <2>1 DEF TypeParts, ClientFrame, QueueTypes, ListTypes, Sending, Listing, callVars,
                  batchVars, queueVars, listingVars
    <2>. QED  BY <2>2, <2>3, <2>4 DEF TypeParts
  <1>3. CASE OthersNext
    BY <1>3, OthersTyped DEF TypeParts
  <1>4. CASE UNCHANGED vars
    <2>1. LinkTypes' /\ LoopTypes' /\ BooleanTypes' /\ PlayTypes'
      BY <1>4 DEF TypeParts, vars, LinkTypes, LoopTypes, BooleanTypes, PlayTypes, kodiVars,
                  linkVars, waitVars, callVars, trackVars, pollVars, batchVars, listingVars
    <2>2. QueueTypes' /\ ListTypes'
      BY <1>4 DEF TypeParts, vars, QueueTypes, ListTypes, Sending, Listing, callVars, batchVars,
                  queueVars, listingVars
    <2>. QED  BY <2>1, <2>2 DEF TypeParts
  <1>. QED  BY <1>1, <1>2, <1>3, <1>4 DEF Next

\* The parts give the module's type invariant.
LEMMA TypeFromParts == TypeParts /\ SilenceInv /\ ScreenInv => TypeOK
  <1> SUFFICES ASSUME TypeParts, SilenceInv, ScreenInv PROVE TypeOK
    OBVIOUS
  <1>1. /\ consecutive_poll_timeouts \in 0..kMaxToleratedPollTimeouts
        /\ silent_polls \in 0..kMaxToleratedPollTimeouts
    BY KodiAssumption DEF SilenceInv
  <1>2. sent \cup evicted \cup lost \subseteq 1..MaxCommands
    BY DEF TypeParts, QueueTypes
  <1>. QED
    BY <1>1, <1>2, Zenon
       DEF TypeOK, TypeParts, ScreenInv, LinkTypes, Requests, Frames, LoopTypes, Calls,
           BooleanTypes, PlayTypes, QueueTypes, ListTypes

LEMMA BusyOthers ==
    ASSUME BusyInv, OthersNext
    PROVE  BusyInv'
  <1>1. UNCHANGED linkVars
    BY DEF OthersNext, Start, RequestStop, JoinThread, TriggerReconnect, EnqueueCommand,
           EnqueueLibraryRequest
  <1>2. UNCHANGED library_busy /\ (pc' = "receive" => pc = "receive")
    BY OthersThread
  <1>. QED  BY <1>1, <1>2 DEF BusyInv, BusyMeansUnanswered, Awaiting, Among, linkVars

\* LibrarySafe for every listing, page bound, queue cap and order of answers,
\* late answers, timeouts, error replies, stops and disconnects: the types
\* and the caps of both queues hold, no library request waits twice,
\* "Kodi is busy" is only said of a client with an unanswered request, and no
\* call leaves the screens behind.
THEOREM LibrarySafeHolds == Spec => []LibrarySafe
<1> DEFINE LibraryInv == TypeParts /\ SilenceInv /\ ScreenInv /\ BusyInv
<1>1. Init => LibraryInv
  <2> SUFFICES ASSUME Init PROVE LibraryInv
    OBVIOUS
  <2>1. SilenceInv
    BY KodiAssumption DEF Init, SilenceInv
  <2>2. ~library_busy /\ pc # "receive"
    BY DEF Init
  <2>. QED
    BY <2>1, <2>2, TypePartsInit, ScreenInvInit DEF BusyInv, BusyMeansUnanswered
<1>2. LibraryInv /\ [Next]_vars => LibraryInv'
  <2> SUFFICES ASSUME LibraryInv, [Next]_vars PROVE LibraryInv'
    OBVIOUS
  <2>1. TypeParts' /\ ScreenInv'
    BY TypePartsStep, ScreenInvStep
  <2>2. SilenceInv'
    BY SilenceStep
  <2>3. BusyInv'
    <3>1. CASE LoopNext
      BY <3>1, BusyLoop DEF TypeParts
    <3>2. CASE KodiNext
      BY <3>2, BusyKodi DEF TypeParts
    <3>3. CASE OthersNext
      BY <3>3, BusyOthers
    <3>4. CASE UNCHANGED vars
      BY <3>4 DEF vars, linkVars, BusyInv, BusyMeansUnanswered, Awaiting, Among
    <3>. QED  BY <3>1, <3>2, <3>3, <3>4 DEF Next
  <2>. QED  BY <2>1, <2>2, <2>3
<1>3. LibraryInv => TypeOK /\ BusyMeansUnanswered /\ ScreenNotBehind
  <2> SUFFICES ASSUME LibraryInv
               PROVE  TypeOK /\ BusyMeansUnanswered /\ ScreenNotBehind
    OBVIOUS
  <2>1. ScreenNotBehind
    BY DEF ScreenInv, ScreenNotBehind, Priming, Owing
  <2>. QED  BY <2>1, TypeFromParts DEF BusyInv
<1>. QED
  BY <1>1, <1>2, <1>3, SilenceEndsConnectionHolds, PTL DEF Spec, LibrarySafe

-----------------------------------------------------------------------------
(***************************************************************************)
(* The command queue implements CommandChannel.                            *)
(***************************************************************************)
\* Commands stand in a queue in the order they were issued.
Ordered(queue) ==
    \A i, j \in 1..Len(queue) : i < j => queue[i].id < queue[j].id

\* The batch is older than the queue, both are in order, and both are newer
\* than everything sent.
FateInv ==
    /\ Ordered(pending_commands) /\ Ordered(batch)
    /\ \A b \in Ids(batch), p \in Ids(pending_commands) : b < p
    /\ \A d \in sent, w \in Ids(batch) \cup Ids(pending_commands) : d < w
    /\ \A w \in sent \cup Ids(batch) \cup Ids(pending_commands) : w <= accepted

LEMMA IdsEmpty == Ids(<<>>) = {}
  BY DEF Ids

LEMMA IdsAppend ==
    ASSUME NEW queue \in Seq(Commands), NEW command \in Commands
    PROVE  Ids(Append(queue, command)) = Ids(queue) \cup {command.id}
  <1> DEFINE longer == Append(queue, command)
  <1>1. /\ DOMAIN longer = DOMAIN queue \cup {Len(queue) + 1}
        /\ DOMAIN queue = 1..Len(queue)
        /\ \A i \in DOMAIN queue : longer[i] = queue[i]
        /\ longer[Len(queue) + 1] = command
    OBVIOUS
  <1>. QED  BY <1>1 DEF Ids

\* Taking the head of an ordered queue leaves the newer commands.
LEMMA IdsTail ==
    ASSUME NEW queue \in Seq(Commands), queue # <<>>, Ordered(queue)
    PROVE  /\ Head(queue) \in Commands /\ Head(queue).id \in Ids(queue)
           /\ Ids(Tail(queue)) = Ids(queue) \ {Head(queue).id}
           /\ \A w \in Ids(Tail(queue)) : Head(queue).id < w
           /\ Ordered(Tail(queue))
  <1> DEFINE rest == Tail(queue)
  <1>1. /\ Len(queue) \in Nat \ {0} /\ DOMAIN queue = 1..Len(queue)
        /\ rest \in Seq(Commands) /\ Len(rest) = Len(queue) - 1
        /\ DOMAIN rest = 1..Len(rest)
        /\ \A i \in 1..Len(rest) : rest[i] = queue[i + 1]
        /\ Head(queue) = queue[1] /\ queue[1] \in Commands
    OBVIOUS
  <1> HIDE DEF rest
  <1>2. \A i \in 2..Len(queue) : i - 1 \in 1..Len(rest) /\ rest[i - 1] = queue[i]
    BY <1>1
  <1>3. \A i \in 1..Len(queue) : queue[i].id \in Nat
    <2>1. \A i \in 1..Len(queue) : queue[i] \in Commands
      OBVIOUS
    <2>2. \A c \in Commands : c.id \in Nat
      BY DEF Commands
    <2>. QED  BY <2>1, <2>2
  <1>4. \A i \in 2..Len(queue) : queue[1].id < queue[i].id
    BY <1>1 DEF Ordered
  <1>5. Ids(rest) = {queue[i].id : i \in 2..Len(queue)}
    BY <1>1, <1>2, SMTT(30) DEF Ids
  <1>6. Ids(queue) = {queue[1].id} \cup {queue[i].id : i \in 2..Len(queue)}
    BY <1>1 DEF Ids
  <1>7. queue[1].id \notin {queue[i].id : i \in 2..Len(queue)}
    BY <1>1, <1>3, <1>4
  <1>8. Ordered(rest)
    BY <1>1 DEF Ordered
  <1>. QED  BY <1>1, <1>4, <1>5, <1>6, <1>7, <1>8 DEF rest

\* Queueing a command, which may evict the oldest one.
LEMMA FateEnqueue ==
    ASSUME QueueTypes, FateInv, NEW kind \in CommandKinds, EnqueueCommand(kind)
    PROVE  FateInv' /\ Channel!Accept
  <1> DEFINE command == [id |-> accepted + 1, kind |-> kind]
             queue == Append(pending_commands, command)
  <1> USE KodiAssumption
  <1>1. /\ command \in Commands /\ command.id = accepted + 1
        /\ pending_commands \in Seq(Commands) /\ batch \in Seq(Commands)
        /\ accepted \in Nat /\ accepted < MaxCommands /\ accepted' = accepted + 1
    BY DEF QueueTypes, EnqueueCommand, Commands
  <1>2. /\ queue \in Seq(Commands) /\ queue # <<>>
        /\ Ids(queue) = Ids(pending_commands) \cup {accepted + 1}
    BY <1>1, IdsAppend
  <1>3. /\ Ids(pending_commands) \subseteq Nat /\ Ids(batch) \subseteq Nat
        /\ sent \subseteq Nat
    BY <1>1, IdsTyped DEF QueueTypes
  <1>4. Ordered(queue)
    <2>1. \A i \in 1..Len(pending_commands) : pending_commands[i].id <= accepted
      BY <1>1 DEF FateInv, Ids
    <2>2. /\ Len(queue) = Len(pending_commands) + 1
          /\ \A i \in 1..Len(pending_commands) : queue[i] = pending_commands[i]
          /\ queue[Len(queue)].id = accepted + 1
      BY <1>1
    <2>3. \A i \in 1..Len(pending_commands) : pending_commands[i].id \in Nat
      BY <1>1, <1>3 DEF Ids
    <2> HIDE DEF queue, command
    <2>. QED  BY <1>1, <2>1, <2>2, <2>3 DEF Ordered, FateInv
  <1>5. UNCHANGED <<batch, sent, lost>>
    BY DEF EnqueueCommand, batchVars
  <1>6. CASE ~CapExceeded(queue)
    <2>1. pending_commands' = queue /\ evicted' = evicted
      BY <1>6 DEF EnqueueCommand
    <2>2. FateInv'
      BY <1>1, <1>2, <1>3, <1>4, <1>5, <2>1 DEF FateInv
    <2>. QED  BY <1>1, <1>2, <1>5, <2>1, <2>2 DEF Channel!Accept
  <1>7. CASE CapExceeded(queue)
    <2> DEFINE oldest == Head(queue).id
    <2>1. pending_commands' = Tail(queue) /\ evicted' = evicted \cup {oldest}
      BY <1>7 DEF EnqueueCommand
    <2>2. pending_commands # <<>>
      BY <1>1, <1>7 DEF CapExceeded
    <2>3. Head(queue) = Head(pending_commands)
      BY <1>1, <2>2
    <2>4. oldest \in Ids(pending_commands)
      BY <1>1, <2>2, <2>3, IdsTail DEF FateInv
    <2>5. Ids(Tail(queue)) = Ids(queue) \ {oldest} /\ Ordered(Tail(queue))
      BY <1>2, <1>4, IdsTail
    <2> HIDE DEF queue, command
    <2>6. oldest <= accepted /\ oldest \in Nat /\ oldest \notin Ids(batch)
      BY <1>3, <2>4 DEF FateInv
    <2>7. Ids(pending_commands') = (Ids(pending_commands) \ {oldest}) \cup {accepted + 1}
      BY <1>1, <1>2, <2>1, <2>5, <2>6
    <2> HIDE DEF oldest
    <2>8. FateInv'
      <3>1. Ordered(pending_commands)' /\ Ordered(batch)'
        BY <1>5, <2>1, <2>5 DEF FateInv, Ordered
      <3>2. Ids(batch)' = Ids(batch) /\ sent' = sent
        BY <1>5
      <3>3. \A d \in sent \cup Ids(batch) : d <= accepted /\ d \in Nat
        BY <1>3 DEF FateInv
      <3>4. \A p \in Ids(pending_commands') : p = accepted + 1 \/ p \in Ids(pending_commands)
        BY <2>7
      <3>5. \A d \in sent \cup Ids(batch), p \in Ids(pending_commands') : d < p
        BY <1>1, <3>3, <3>4 DEF FateInv
      <3>6. \A w \in sent \cup Ids(batch) \cup Ids(pending_commands') : w <= accepted + 1
        BY <1>1, <1>3, <3>3, <3>4 DEF FateInv
      <3>7. \A d \in sent, w \in Ids(batch) : d < w
        BY DEF FateInv
      <3>. QED  BY <1>1, <3>1, <3>2, <3>5, <3>6, <3>7 DEF FateInv
    <2>9. Ids(pending_commands') \cup Ids(batch)' =
             ((Ids(pending_commands) \cup Ids(batch)) \ {oldest}) \cup {accepted + 1}
      BY <1>5, <2>6, <2>7
    <2>. QED  BY <1>1, <1>5, <2>1, <2>4, <2>8, <2>9 DEF Channel!Accept
  <1>. QED  BY <1>6, <1>7

\* The head of the batch is sent, or skipped and lost.
LEMMA FateSendNext ==
    ASSUME QueueTypes, FateInv, SendNext
    PROVE  FateInv' /\ Channel!Next
  <1> DEFINE c == Head(batch).id
  <1>1. /\ batch \in Seq(Commands) /\ batch # <<>> /\ batch' = Tail(batch)
        /\ UNCHANGED <<pending_commands, accepted, evicted>>
    BY DEF QueueTypes, SendNext, ThreadFrame, queueVars
  <1>2. /\ c \in Ids(batch) /\ Ids(batch') = Ids(batch) \ {c}
        /\ \A w \in Ids(batch') : c < w
        /\ Ordered(batch')
    BY <1>1, IdsTail DEF FateInv
  <1>3. \/ sent' = sent \cup {c} /\ lost' = lost
        \/ sent' = sent /\ lost' = lost \cup {c}
    BY DEF SendNext
  <1>4. /\ Ids(pending_commands) \subseteq Nat /\ Ids(batch) \subseteq Nat
        /\ sent \subseteq Nat
    BY IdsTyped DEF QueueTypes
  <1> HIDE DEF c
  <1>5. c \notin Ids(pending_commands) /\ \A d \in sent : d < c
    BY <1>2, <1>4 DEF FateInv
  <1>6. \A p \in Ids(pending_commands) : c < p
    BY <1>2 DEF FateInv
  <1>7. FateInv'
    <2>1. \A d \in sent', w \in Ids(batch') \cup Ids(pending_commands) : d < w
      BY <1>2, <1>3, <1>6 DEF FateInv
    <2>2. \A w \in sent' \cup Ids(batch') : w <= accepted
      BY <1>2, <1>3 DEF FateInv
    <2>. QED  BY <1>1, <1>2, <2>1, <2>2 DEF FateInv
  <1>8. Ids(pending_commands') \cup Ids(batch') = (Ids(pending_commands) \cup Ids(batch)) \ {c}
    BY <1>1, <1>2, <1>5
  <1>9. Channel!Deliver(c) \/ Channel!Announce({c})
    BY <1>1, <1>3, <1>5, <1>8 DEF Channel!Deliver, Channel!Announce
  <1>10. {c} \in SUBSET (Ids(pending_commands) \cup Ids(batch))
    BY <1>2
  <1>. QED  BY <1>2, <1>7, <1>9, <1>10 DEF Channel!Next

\* A stop between two sends loses the rest of the batch.
LEMMA FateAbandon ==
    ASSUME QueueTypes, FateInv, AbandonBatch
    PROVE  FateInv' /\ Channel!Next
  <1>1. /\ batch' = <<>> /\ lost' = lost \cup Ids(batch)
        /\ UNCHANGED <<pending_commands, accepted, sent, evicted>>
    BY DEF AbandonBatch, ThreadFrame, queueVars
  <1>2. Ids(batch') = {}
    BY <1>1, IdsEmpty
  <1>3. Ids(pending_commands) \subseteq Nat /\ Ids(batch) \subseteq Nat
    BY IdsTyped DEF QueueTypes
  <1>4. FateInv'
    BY <1>1, <1>2 DEF FateInv, Ordered
  <1>5. \A p \in Ids(pending_commands) : p \notin Ids(batch)
    BY <1>3 DEF FateInv
  <1>6. Channel!Announce(Ids(batch))
    BY <1>1, <1>2, <1>5 DEF Channel!Announce
  <1>7. Ids(batch) \in SUBSET (Ids(pending_commands) \cup Ids(batch))
    OBVIOUS
  <1>. QED  BY <1>4, <1>6, <1>7 DEF Channel!Next

\* Taking the queue as a batch settles no command.
LEMMA FateSwap ==
    ASSUME QueueTypes, FateInv, SwapCommands
    PROVE  FateInv' /\ UNCHANGED Channel!channelVars
  <1>1. ~Sending
    BY DEF SwapCommands, Sending
  <1>2. /\ batch = <<>> /\ batch' = pending_commands /\ pending_commands' = <<>>
        /\ UNCHANGED <<accepted, sent, evicted, lost>>
    BY <1>1 DEF SwapCommands, Swapped, QueueTypes
  <1>3. /\ Ids(batch) = {} /\ Ids(pending_commands') = {}
        /\ Ids(batch') = Ids(pending_commands)
    BY <1>2, IdsEmpty
  <1>4. FateInv'
    BY <1>2, <1>3 DEF FateInv, Ordered
  <1>. QED  BY <1>2, <1>3, <1>4 DEF Channel!channelVars

LEMMA FateUntouched ==
    ASSUME FateInv, UNCHANGED <<pending_commands, batch, accepted, sent, evicted, lost>>
    PROVE  FateInv' /\ UNCHANGED Channel!channelVars
  BY DEF FateInv, Ordered, Channel!channelVars

LEMMA FateStep ==
    ASSUME QueueTypes, FateInv, [Next]_vars
    PROVE  FateInv' /\ [Channel!Next]_(Channel!channelVars)
  <1> DEFINE Untouched == UNCHANGED <<pending_commands, batch, accepted, sent, evicted, lost>>
  <1>1. CASE LoopNext
    <2>1. CASE SendNext
      BY <2>1, FateSendNext
    <2>2. CASE AbandonBatch
      BY <2>2, FateAbandon
    <2>3. CASE SwapCommands
      BY <2>3, FateSwap
    <2>4. CASE PlayerResolved \/ PlayerUnresolved \/ BatchSent
      <3>1. Untouched
        BY <2>4 DEF PlayerResolved, PlayerUnresolved, BatchSent, ThreadFrame, queueVars
      <3>. QED  BY <3>1, FateUntouched
    <2>5. CASE ~(SwapCommands \/ PlayerResolved \/ PlayerUnresolved \/ SendNext \/ AbandonBatch
                 \/ BatchSent)
      <3>1. Untouched
        BY <1>1, <2>5, QueueQuiet DEF batchVars
      <3>. QED  BY <3>1, FateUntouched
    <2>. QED  BY <2>1, <2>2, <2>3, <2>4, <2>5
  <1>2. CASE KodiNext
    <2>1. ClientFrame
      BY <1>2 DEF KodiNext, KodiPlays, KodiPausesOrResumes, KodiStops, KodiVolume, KodiChanges,
                  KodiAnswers, LinkDies
    <2>2. Untouched
      BY <2>1 DEF ClientFrame, batchVars, queueVars
    <2>. QED  BY <2>2, FateUntouched
  <1>3. CASE OthersNext
    <2>1. CASE \E kind \in CommandKinds : EnqueueCommand(kind)
      BY <2>1, FateEnqueue DEF Channel!Next
    <2>2. CASE ~\E kind \in CommandKinds : EnqueueCommand(kind)
      <3>1. Untouched
        BY <1>3, <2>2 DEF OthersNext, Start, RequestStop, JoinThread, TriggerReconnect,
                          EnqueueLibraryRequest, batchVars, queueVars
      <3>. QED  BY <3>1, FateUntouched
    <2>. QED  BY <2>1, <2>2
  <1>4. CASE UNCHANGED vars
    <2>1. Untouched
      BY <1>4 DEF vars, batchVars, queueVars
    <2>. QED  BY <2>1, FateUntouched
  <1>. QED  BY <1>1, <1>2, <1>3, <1>4 DEF Next

\* CommandsImplementChannel for every queue cap and number of commands: each
\* step of the client is a step of CommandChannel or changes nothing in it,
\* so every command the remote issues is sent once and in order, evicted for
\* a newer one, or lost, and never two of these.
THEOREM CommandsImplementChannelHolds == Spec => CommandsImplementChannel
<1>1. Init => Channel!Init /\ FateInv
  BY IdsEmpty DEF Init, Channel!Init, FateInv, Ordered
<1>2. TypeParts => QueueTypes
  BY DEF TypeParts
<1>3. QueueTypes /\ FateInv /\ [Next]_vars => FateInv' /\ [Channel!Next]_(Channel!channelVars)
  BY FateStep
<1>. QED
  BY <1>1, <1>2, <1>3, TypePartsInit, TypePartsStep, PTL
     DEF Spec, CommandsImplementChannel, Channel!Spec

-----------------------------------------------------------------------------
(***************************************************************************)
(* Now playing: what is shown, what is on its way and what Kodi plays.     *)
(***************************************************************************)
\* The notifications that change which item plays, those that change anything
\* about playback, and those that change the volume.
Starts == {"OnPlay", "OnStop"}
Moves == {"OnPlay", "OnStop", "OnSpeedChanged"}
Sounds == {"OnVolumeChanged"}

\* One of these kinds comes after the i-th frame, or after it and up to the
\* j-th one.
After(q, i, kinds) == \E j \in DOMAIN q : j > i /\ q[j].kind \in kinds
Within(q, i, j, kinds) == \E m \in DOMAIN q : i < m /\ m <= j /\ q[m].kind \in kinds

\* What a frame that is about to be sent says, measured by Kodi's state
\* before it.
Reports(f, k) ==
    /\ f.ok = TRUE
    /\ f.kind \in {"OnPlay", "OnSpeedChanged"} => f.data.item # NoItem
    /\ f.kind = "OnStop" => f.data.item = NoItem
    /\ f.kind \notin Sounds => f.data.volume = k.volume
    /\ f.kind \notin Starts => f.data.item = k.item
    /\ f.kind \notin Moves => f.data.speed = k.speed

\* Every frame on its way tells what Kodi still plays unless a later frame
\* says otherwise, and any two agree on the item unless one that starts or
\* stops playback comes between.
Faithful(q, k) ==
    /\ \A i \in DOMAIN q :
          /\ q[i].ok = TRUE
          /\ q[i].kind \in {"OnPlay", "OnSpeedChanged"} => q[i].data.item # NoItem
          /\ q[i].kind = "OnStop" => q[i].data.item = NoItem
          /\ ~After(q, i, Sounds) => q[i].data.volume = k.volume
          /\ ~After(q, i, Starts) => q[i].data.item = k.item
          /\ ~After(q, i, Moves) => q[i].data.speed = k.speed
    /\ \A i, j \in DOMAIN q :
          i < j /\ ~Within(q, i, j, Starts) => q[i].data.item = q[j].data.item

\* Nothing is shown of an item, or the item in full.
Named(np, item) == \/ np.title = NoItem /\ np.show = NoItem
                   \/ np.title = item /\ np.show = ShowOf(item)

InFull(np, item) == np.title = item /\ np.show = ShowOf(item)

\* What is shown belongs to the item the next frames are about, in full if a
\* notification supplied it.
Identified(q, k, np, supplied) ==
    /\ \A i \in DOMAIN q :
          q[i].kind = "OnSpeedChanged" /\ ~Within(q, 0, i, Starts) => Named(np, q[i].data.item)
    /\ ~Among(Starts, q) => Named(np, k.item)
    /\ supplied /\ ~Among(Starts, q) => InFull(np, k.item)

LEMMA Longer ==
    ASSUME NEW q \in Seq(Frames), NEW f \in Frames
    PROVE  LET q2 == Append(q, f) IN
           /\ Len(q) \in Nat /\ DOMAIN q = 1..Len(q) /\ DOMAIN q2 = 1..(Len(q) + 1)
           /\ \A i \in 1..Len(q) : q2[i] = q[i]
           /\ q2[Len(q) + 1] = f
  OBVIOUS

LEMMA Shorter ==
    ASSUME NEW q \in Seq(Frames), q # <<>>
    PROVE  LET t == Tail(q) IN
           /\ Len(q) \in Nat \ {0} /\ DOMAIN q = 1..Len(q) /\ DOMAIN t = 1..(Len(q) - 1)
           /\ \A i \in 1..(Len(q) - 1) : t[i] = q[i + 1]
           /\ Head(q) = q[1] /\ q[1] \in Frames
           /\ t \in Seq(Frames)
  OBVIOUS

\* A frame at the end hides nothing, and stands after all others.
LEMMA AfterAppend ==
    ASSUME NEW q \in Seq(Frames), NEW f \in Frames, NEW kinds
    PROVE  LET q2 == Append(q, f) IN
           /\ \A i \in DOMAIN q : ~After(q2, i, kinds) => ~After(q, i, kinds) /\ f.kind \notin kinds
           /\ \A i, j \in DOMAIN q : ~Within(q2, i, j, kinds) => ~Within(q, i, j, kinds)
           /\ \A i \in DOMAIN q : ~Within(q2, i, Len(q) + 1, kinds)
                                    => ~After(q, i, kinds) /\ f.kind \notin kinds
           /\ \A j \in DOMAIN q : ~Within(q2, 0, j, kinds) => ~Within(q, 0, j, kinds)
           /\ ~Within(q2, 0, Len(q) + 1, kinds) => ~Among(kinds, q) /\ f.kind \notin kinds
           /\ ~Among(kinds, q2) => ~Among(kinds, q) /\ f.kind \notin kinds
  <1> DEFINE q2 == Append(q, f)
             n == Len(q)
  <1>1. /\ n \in Nat /\ DOMAIN q = 1..n /\ DOMAIN q2 = 1..(n + 1)
        /\ \A i \in 1..n : q2[i] = q[i]
        /\ q2[n + 1] = f
    BY Longer
  <1> HIDE DEF q2, n
  <1>2. \A i \in DOMAIN q : ~After(q2, i, kinds) => ~After(q, i, kinds) /\ f.kind \notin kinds
    <2> SUFFICES ASSUME NEW i \in DOMAIN q, ~After(q2, i, kinds)
                 PROVE  ~After(q, i, kinds) /\ f.kind \notin kinds
      OBVIOUS
    <2>1. n + 1 \in DOMAIN q2 /\ n + 1 > i
      BY <1>1
    <2>2. \A j \in DOMAIN q : j \in DOMAIN q2 /\ q2[j] = q[j]
      BY <1>1
    <2>. QED  BY <1>1, <2>1, <2>2 DEF After
  <1>3. \A i, j \in DOMAIN q : ~Within(q2, i, j, kinds) => ~Within(q, i, j, kinds)
    <2>1. \A m \in DOMAIN q : m \in DOMAIN q2 /\ q2[m] = q[m]
      BY <1>1
    <2>. QED  BY <2>1 DEF Within
  <1>4. \A i \in DOMAIN q : ~Within(q2, i, n + 1, kinds)
                              => ~After(q, i, kinds) /\ f.kind \notin kinds
    <2> SUFFICES ASSUME NEW i \in DOMAIN q, ~Within(q2, i, n + 1, kinds)
                 PROVE  ~After(q, i, kinds) /\ f.kind \notin kinds
      OBVIOUS
    <2>1. n + 1 \in DOMAIN q2 /\ i < n + 1 /\ n + 1 <= n + 1
      BY <1>1
    <2>2. \A j \in DOMAIN q : j \in DOMAIN q2 /\ q2[j] = q[j] /\ j <= n + 1 /\ (j > i => i < j)
      BY <1>1
    <2>. QED  BY <1>1, <2>1, <2>2, Zenon DEF After, Within
  <1>5. \A j \in DOMAIN q : ~Within(q2, 0, j, kinds) => ~Within(q, 0, j, kinds)
    <2>1. \A m \in DOMAIN q : m \in DOMAIN q2 /\ q2[m] = q[m]
      BY <1>1
    <2>. QED  BY <2>1 DEF Within
  <1>6. /\ \A j \in DOMAIN q : j \in DOMAIN q2 /\ q2[j] = q[j] /\ j <= n + 1 /\ 0 < j
        /\ n + 1 \in DOMAIN q2 /\ n + 1 <= n + 1 /\ 0 < n + 1
    BY <1>1
  <1>7. ~Within(q2, 0, n + 1, kinds) => ~Among(kinds, q) /\ f.kind \notin kinds
    BY <1>1, <1>6, Zenon DEF Among, Within
  <1>8. ~Among(kinds, q2) => ~Among(kinds, q) /\ f.kind \notin kinds
    BY <1>1, <1>6, Zenon DEF Among
  <1>. QED  BY <1>2, <1>3, <1>4, <1>5, <1>7, <1>8 DEF q2, n

\* What holds of a frame of the tail holds of it in the whole queue.
LEMMA AfterTail ==
    ASSUME NEW q \in Seq(Frames), q # <<>>, NEW kinds
    PROVE  LET t == Tail(q) IN
           /\ \A i \in DOMAIN t : ~After(t, i, kinds) => ~After(q, i + 1, kinds)
           /\ \A i, j \in DOMAIN t : ~Within(t, i, j, kinds) => ~Within(q, i + 1, j + 1, kinds)
           /\ ~Among(kinds, t) => ~After(q, 1, kinds)
           /\ \A j \in DOMAIN t : ~Within(t, 0, j, kinds) => ~Within(q, 1, j + 1, kinds)
           /\ \A j \in DOMAIN t : ~Within(t, 0, j, kinds) /\ Head(q).kind \notin kinds
                                    => ~Within(q, 0, j + 1, kinds)
           /\ ~Among(kinds, t) /\ Head(q).kind \notin kinds => ~Among(kinds, q)
  <1> DEFINE t == Tail(q)
             n == Len(q)
  <1>1. /\ n \in Nat \ {0} /\ DOMAIN q = 1..n /\ DOMAIN t = 1..(n - 1)
        /\ \A i \in 1..(n - 1) : t[i] = q[i + 1]
        /\ Head(q) = q[1]
    BY Shorter
  <1> HIDE DEF t, n
  <1>2. \A m \in DOMAIN q : m = 1 \/ (m - 1 \in DOMAIN t /\ t[m - 1] = q[m])
    BY <1>1
  <1>3. \A i \in DOMAIN t : ~After(t, i, kinds) => ~After(q, i + 1, kinds)
    <2> SUFFICES ASSUME NEW i \in DOMAIN t, After(q, i + 1, kinds)
                 PROVE  After(t, i, kinds)
      OBVIOUS
    <2>1. PICK j \in DOMAIN q : j > i + 1 /\ q[j].kind \in kinds
      BY DEF After
    <2>2. j - 1 \in DOMAIN t /\ t[j - 1] = q[j] /\ j - 1 > i
      BY <1>1, <1>2, <2>1
    <2>. QED  BY <2>1, <2>2, Zenon DEF After
  <1>4. ASSUME NEW i \in 0..(n - 1), NEW j \in DOMAIN t, Within(q, i + 1, j + 1, kinds)
        PROVE  Within(t, i, j, kinds)
    <2>1. PICK m \in DOMAIN q : i + 1 < m /\ m <= j + 1 /\ q[m].kind \in kinds
      BY <1>4 DEF Within
    <2>2. m - 1 \in DOMAIN t /\ t[m - 1] = q[m] /\ i < m - 1 /\ m - 1 <= j
      BY <1>1, <1>2, <1>4, <2>1
    <2>. QED  BY <2>1, <2>2, Zenon DEF Within
  <1>5. ~Among(kinds, t) => ~After(q, 1, kinds)
    BY <1>1, <1>2 DEF After, Among
  <1>6. /\ \A i, j \in DOMAIN t : ~Within(t, i, j, kinds) => ~Within(q, i + 1, j + 1, kinds)
        /\ \A j \in DOMAIN t : ~Within(t, 0, j, kinds) => ~Within(q, 1, j + 1, kinds)
    <2>1. 0 + 1 = 1 /\ 0 \in 0..(n - 1) /\ \A i \in DOMAIN t : i \in 0..(n - 1)
      BY <1>1
    <2>. QED  BY <1>4, <2>1
  <1>7. ASSUME NEW j \in DOMAIN t, Head(q).kind \notin kinds, Within(q, 0, j + 1, kinds)
        PROVE  Within(t, 0, j, kinds)
    <2>1. PICK m \in DOMAIN q : 0 < m /\ m <= j + 1 /\ q[m].kind \in kinds
      BY <1>7 DEF Within
    <2>2. m - 1 \in DOMAIN t /\ t[m - 1] = q[m] /\ 0 < m - 1 /\ m - 1 <= j
      BY <1>1, <1>2, <1>7, <2>1
    <2>. QED  BY <2>1, <2>2, Zenon DEF Within
  <1>8. ~Among(kinds, t) /\ Head(q).kind \notin kinds => ~Among(kinds, q)
    BY <1>1, <1>2 DEF Among
  <1>. QED  BY <1>3, <1>5, <1>6, <1>7, <1>8 DEF t, n

\* A frame is sent: what Kodi plays afterwards is what it says.
LEMMA FaithfulAppend ==
    ASSUME NEW q \in Seq(Frames), NEW f \in Frames, NEW k, Faithful(q, k), Reports(f, k)
    PROVE  Faithful(Append(q, f), f.data)
  <1> DEFINE q2 == Append(q, f)
             n == Len(q)
  <1>1. /\ n \in Nat /\ DOMAIN q = 1..n /\ DOMAIN q2 = 1..(n + 1)
        /\ \A i \in 1..n : q2[i] = q[i]
        /\ q2[n + 1] = f
    BY Longer
  <1>2. \A kinds : \A i \in DOMAIN q : ~After(q2, i, kinds) => ~After(q, i, kinds) /\ f.kind \notin kinds
    BY AfterAppend
  <1>3. \A i, j \in DOMAIN q : ~Within(q2, i, j, Starts) => ~Within(q, i, j, Starts)
    BY AfterAppend
  <1>4. \A i \in DOMAIN q : ~Within(q2, i, n + 1, Starts) => ~After(q, i, Starts) /\ f.kind \notin Starts
    BY AfterAppend
  <1> HIDE DEF q2, n
  <1>5. ASSUME NEW i \in DOMAIN q2
        PROVE  /\ q2[i].ok = TRUE
               /\ q2[i].kind \in {"OnPlay", "OnSpeedChanged"} => q2[i].data.item # NoItem
               /\ q2[i].kind = "OnStop" => q2[i].data.item = NoItem
               /\ ~After(q2, i, Sounds) => q2[i].data.volume = f.data.volume
               /\ ~After(q2, i, Starts) => q2[i].data.item = f.data.item
               /\ ~After(q2, i, Moves) => q2[i].data.speed = f.data.speed
    <2>1. CASE i \in DOMAIN q
      <3>1. q2[i] = q[i]
        BY <1>1, <2>1
      <3>2. /\ ~After(q2, i, Sounds) => ~After(q, i, Sounds) /\ f.kind \notin Sounds
            /\ ~After(q2, i, Starts) => ~After(q, i, Starts) /\ f.kind \notin Starts
            /\ ~After(q2, i, Moves) => ~After(q, i, Moves) /\ f.kind \notin Moves
        BY <1>2, <2>1
      <3>. QED  BY <2>1, <3>1, <3>2 DEF Faithful, Reports
    <2>2. CASE i = n + 1
      BY <1>1, <2>2 DEF Reports
    <2>3. i \in DOMAIN q \/ i = n + 1
      BY <1>1
    <2>. QED  BY <2>1, <2>2, <2>3
  <1>6. ASSUME NEW i \in DOMAIN q2, NEW j \in DOMAIN q2, i < j, ~Within(q2, i, j, Starts)
        PROVE  q2[i].data.item = q2[j].data.item
    <2>1. i \in DOMAIN q /\ q2[i] = q[i]
      BY <1>1, <1>6
    <2>2. CASE j \in DOMAIN q
      <3>1. q2[j] = q[j] /\ ~Within(q, i, j, Starts)
        BY <1>1, <1>3, <1>6, <2>1, <2>2
      <3>. QED  BY <1>6, <2>1, <2>2, <3>1 DEF Faithful
    <2>3. CASE j = n + 1
      <3>1. q2[j] = f /\ ~After(q, i, Starts) /\ f.kind \notin Starts
        BY <1>1, <1>4, <1>6, <2>1, <2>3
      <3>. QED  BY <2>1, <3>1 DEF Faithful, Reports
    <2>. QED  BY <1>1, <2>2, <2>3
  <1>7. Faithful(q2, f.data)
    BY <1>5, <1>6 DEF Faithful
  <1>. QED  BY <1>7 DEF q2

LEMMA FaithfulTail ==
    ASSUME NEW q \in Seq(Frames), q # <<>>, NEW k, Faithful(q, k)
    PROVE  Faithful(Tail(q), k)
  <1> DEFINE t == Tail(q)
             n == Len(q)
  <1>1. /\ n \in Nat \ {0} /\ DOMAIN q = 1..n /\ DOMAIN t = 1..(n - 1)
        /\ \A i \in 1..(n - 1) : t[i] = q[i + 1]
    BY Shorter
  <1>2. \A kinds : \A i \in DOMAIN t : ~After(t, i, kinds) => ~After(q, i + 1, kinds)
    BY AfterTail
  <1>3. \A i, j \in DOMAIN t : ~Within(t, i, j, Starts) => ~Within(q, i + 1, j + 1, Starts)
    BY AfterTail
  <1> HIDE DEF t, n
  <1>4. ASSUME NEW i \in DOMAIN t
        PROVE  i + 1 \in DOMAIN q /\ t[i] = q[i + 1]
    BY <1>1, <1>4
  <1>5. ASSUME NEW i \in DOMAIN t
        PROVE  /\ t[i].ok = TRUE
               /\ t[i].kind \in {"OnPlay", "OnSpeedChanged"} => t[i].data.item # NoItem
               /\ t[i].kind = "OnStop" => t[i].data.item = NoItem
               /\ ~After(t, i, Sounds) => t[i].data.volume = k.volume
               /\ ~After(t, i, Starts) => t[i].data.item = k.item
               /\ ~After(t, i, Moves) => t[i].data.speed = k.speed
    <2>1. i + 1 \in DOMAIN q /\ t[i] = q[i + 1]
      BY <1>4
    <2>2. /\ ~After(t, i, Sounds) => ~After(q, i + 1, Sounds)
          /\ ~After(t, i, Starts) => ~After(q, i + 1, Starts)
          /\ ~After(t, i, Moves) => ~After(q, i + 1, Moves)
      BY <1>2
    <2>. QED  BY <2>1, <2>2 DEF Faithful
  <1>6. ASSUME NEW i \in DOMAIN t, NEW j \in DOMAIN t, i < j, ~Within(t, i, j, Starts)
        PROVE  t[i].data.item = t[j].data.item
    <2>1. i + 1 < j + 1 /\ ~Within(q, i + 1, j + 1, Starts)
      BY <1>1, <1>3, <1>6
    <2>2. /\ i + 1 \in DOMAIN q /\ t[i] = q[i + 1]
          /\ j + 1 \in DOMAIN q /\ t[j] = q[j + 1]
      BY <1>4
    <2>. QED  BY <2>1, <2>2 DEF Faithful
  <1>7. Faithful(t, k)
    BY <1>5, <1>6 DEF Faithful
  <1>. QED  BY <1>7 DEF t

\* What the frame at the head says is what Kodi plays, unless a frame behind
\* it says otherwise.
LEMMA HeadTells ==
    ASSUME NEW q \in Seq(Frames), q # <<>>, NEW k, Faithful(q, k)
    PROVE  /\ Head(q) \in Frames /\ Head(q).ok = TRUE
           /\ Head(q).kind \in {"OnPlay", "OnSpeedChanged"} => Head(q).data.item # NoItem
           /\ Head(q).kind = "OnStop" => Head(q).data.item = NoItem
           /\ ~Among(Sounds, Tail(q)) => Head(q).data.volume = k.volume
           /\ ~Among(Starts, Tail(q)) => Head(q).data.item = k.item
           /\ ~Among(Moves, Tail(q)) => Head(q).data.speed = k.speed
           /\ \A i \in DOMAIN Tail(q) : ~Within(Tail(q), 0, i, Starts)
                                          => Tail(q)[i].data.item = Head(q).data.item
  <1> DEFINE t == Tail(q)
             h == Head(q)
             n == Len(q)
  <1>1. /\ n \in Nat \ {0} /\ DOMAIN q = 1..n /\ DOMAIN t = 1..(n - 1)
        /\ \A i \in 1..(n - 1) : t[i] = q[i + 1]
        /\ h = q[1] /\ h \in Frames
    BY Shorter
  <1>2. \A kinds : ~Among(kinds, t) => ~After(q, 1, kinds)
    BY AfterTail
  <1>3. \A j \in DOMAIN t : ~Within(t, 0, j, Starts) => ~Within(q, 1, j + 1, Starts)
    BY AfterTail
  <1> HIDE DEF t, h, n
  <1>4. 1 \in DOMAIN q
    BY <1>1
  <1>5. /\ h.ok = TRUE
        /\ h.kind \in {"OnPlay", "OnSpeedChanged"} => h.data.item # NoItem
        /\ h.kind = "OnStop" => h.data.item = NoItem
        /\ ~Among(Sounds, t) => h.data.volume = k.volume
        /\ ~Among(Starts, t) => h.data.item = k.item
        /\ ~Among(Moves, t) => h.data.speed = k.speed
    BY <1>1, <1>2, <1>4, Zenon DEF Faithful
  <1>6. ASSUME NEW i \in DOMAIN t, ~Within(t, 0, i, Starts)
        PROVE  t[i].data.item = h.data.item
    <2>1. i + 1 \in DOMAIN q /\ 1 < i + 1 /\ t[i] = q[i + 1] /\ ~Within(q, 1, i + 1, Starts)
      BY <1>1, <1>3, <1>6
    <2>2. q[1].data.item = q[i + 1].data.item
      BY <1>4, <2>1, Zenon DEF Faithful
    <2>. QED  BY <1>1, <2>1, <2>2
  <1>. QED  BY <1>1, <1>5, <1>6 DEF t, h

LEMMA IdentifiedAppend ==
    ASSUME NEW q \in Seq(Frames), NEW f \in Frames, NEW k, NEW np, NEW supplied \in BOOLEAN,
           Identified(q, k, np, supplied), Reports(f, k)
    PROVE  Identified(Append(q, f), f.data, np, supplied)
  <1> DEFINE q2 == Append(q, f)
             n == Len(q)
  <1>1. /\ n \in Nat /\ DOMAIN q = 1..n /\ DOMAIN q2 = 1..(n + 1)
        /\ \A i \in 1..n : q2[i] = q[i]
        /\ q2[n + 1] = f
    BY Longer
  <1>2. /\ \A j \in DOMAIN q : ~Within(q2, 0, j, Starts) => ~Within(q, 0, j, Starts)
        /\ ~Within(q2, 0, n + 1, Starts) => ~Among(Starts, q) /\ f.kind \notin Starts
        /\ ~Among(Starts, q2) => ~Among(Starts, q) /\ f.kind \notin Starts
    BY AfterAppend
  <1> HIDE DEF q2, n
  <1>3. ASSUME NEW i \in DOMAIN q2, q2[i].kind = "OnSpeedChanged", ~Within(q2, 0, i, Starts)
        PROVE  Named(np, q2[i].data.item)
    <2>1. CASE i \in DOMAIN q
      <3>1. q2[i] = q[i] /\ ~Within(q, 0, i, Starts)
        BY <1>1, <1>2, <1>3, <2>1
      <3>. QED  BY <1>3, <2>1, <3>1, Zenon DEF Identified
    <2>2. CASE i = n + 1
      <3>1. q2[i] = f /\ ~Among(Starts, q) /\ f.kind \notin Starts
        BY <1>1, <1>2, <1>3, <2>2
      <3>2. f.data.item = k.item
        BY <3>1 DEF Reports
      <3>3. Named(np, k.item)
        BY <3>1, Zenon DEF Identified
      <3>. QED  BY <3>1, <3>2, <3>3
    <2>. QED  BY <1>1, <2>1, <2>2
  <1>4. ASSUME ~Among(Starts, q2)
        PROVE  Named(np, f.data.item) /\ (supplied => InFull(np, f.data.item))
    <2>1. f.data.item = k.item /\ ~Among(Starts, q)
      BY <1>2, <1>4 DEF Reports
    <2>2. Named(np, k.item) /\ (supplied => InFull(np, k.item))
      BY <2>1, Zenon DEF Identified
    <2>. QED  BY <2>1, <2>2
  <1>5. Identified(q2, f.data, np, supplied)
    BY <1>3, <1>4, Zenon DEF Identified
  <1>. QED  BY <1>5 DEF q2

\* A frame that neither starts nor stops playback leaves the identity.
LEMMA IdentifiedTail ==
    ASSUME NEW q \in Seq(Frames), q # <<>>, NEW k, NEW np, NEW supplied \in BOOLEAN,
           Identified(q, k, np, supplied), Head(q).kind \notin Starts
    PROVE  Identified(Tail(q), k, np, supplied)
  <1> DEFINE t == Tail(q)
             n == Len(q)
  <1>1. /\ n \in Nat \ {0} /\ DOMAIN q = 1..n /\ DOMAIN t = 1..(n - 1)
        /\ \A i \in 1..(n - 1) : t[i] = q[i + 1]
    BY Shorter
  <1>2. /\ \A j \in DOMAIN t : ~Within(t, 0, j, Starts) => ~Within(q, 0, j + 1, Starts)
        /\ ~Among(Starts, t) => ~Among(Starts, q)
    BY AfterTail
  <1> HIDE DEF t, n
  <1>3. ASSUME NEW i \in DOMAIN t, t[i].kind = "OnSpeedChanged", ~Within(t, 0, i, Starts)
        PROVE  Named(np, t[i].data.item)
    <2>1. i + 1 \in DOMAIN q /\ t[i] = q[i + 1]
      BY <1>1, <1>3
    <2>2. ~Within(q, 0, i + 1, Starts)
      BY <1>2, <1>3
    <2>. QED  BY <1>3, <2>1, <2>2, Zenon DEF Identified
  <1>4. Identified(t, k, np, supplied)
    BY <1>2, <1>3, Zenon DEF Identified
  <1>. QED  BY <1>4 DEF t

\* Once what is shown is the item the head was about, or nothing, it is what
\* the frames behind it are about.
LEMMA IdentifiedAnew ==
    ASSUME NEW q \in Seq(Frames), q # <<>>, NEW k, Faithful(q, k), NEW np,
           NEW supplied \in BOOLEAN,
           Named(np, Head(q).data.item), supplied => InFull(np, Head(q).data.item)
    PROVE  Identified(Tail(q), k, np, supplied)
  <1> DEFINE t == Tail(q)
             item == Head(q).data.item
  <1>1. /\ ~Among(Starts, t) => item = k.item
        /\ \A i \in DOMAIN t : ~Within(t, 0, i, Starts) => t[i].data.item = item
    BY HeadTells
  <1>2. Named(np, item) /\ (supplied => InFull(np, item))
    OBVIOUS
  <1> HIDE DEF t, item
  <1>3. Identified(t, k, np, supplied)
    BY <1>1, <1>2, Zenon DEF Identified
  <1>. QED  BY <1>3 DEF t

\* Giving up a call renames replies and touches nothing else.
LEMMA UnawaitedSame ==
    ASSUME NEW q \in Seq(Frames), NEW k, NEW np, NEW supplied \in BOOLEAN
    PROVE  LET q2 == UnawaitedFrames(q) IN
           /\ Faithful(q, k) => Faithful(q2, k)
           /\ Identified(q, k, np, supplied) => Identified(q2, k, np, supplied)
           /\ \A kinds \in {Starts, Moves, Sounds} : Among(kinds, q) => Among(kinds, q2)
  <1> DEFINE q2 == UnawaitedFrames(q)
  <1>1. ASSUME NEW f \in Frames
        PROVE  LET g == IF f.kind = "awaited" THEN [f EXCEPT !.kind = "other"] ELSE f
               IN  /\ g.ok = f.ok /\ g.data = f.data
                   /\ g.kind = f.kind \/ (g.kind = "other" /\ f.kind = "awaited")
    BY <1>1 DEF Frames
  <1>2. DOMAIN q2 = DOMAIN q /\ \A i \in DOMAIN q : q[i] \in Frames
    BY DEF UnawaitedFrames
  <1>3. \A i \in DOMAIN q : q2[i] = IF q[i].kind = "awaited" THEN [q[i] EXCEPT !.kind = "other"]
                                                         ELSE q[i]
    BY DEF UnawaitedFrames
  <1> HIDE DEF q2
  <1>4. \A i \in DOMAIN q : /\ q2[i].ok = q[i].ok /\ q2[i].data = q[i].data
                            /\ \/ q2[i].kind = q[i].kind
                               \/ q2[i].kind = "other" /\ q[i].kind = "awaited"
    <2> SUFFICES ASSUME NEW i \in DOMAIN q
                 PROVE  /\ q2[i].ok = q[i].ok /\ q2[i].data = q[i].data
                        /\ \/ q2[i].kind = q[i].kind
                           \/ q2[i].kind = "other" /\ q[i].kind = "awaited"
      OBVIOUS
    <2>1. q[i] \in Frames
      BY <1>2
    <2>2. q2[i] = IF q[i].kind = "awaited" THEN [q[i] EXCEPT !.kind = "other"] ELSE q[i]
      BY <1>3
    <2>. QED  BY <2>1, <2>2, <1>1, Zenon
  <1>5. \A i \in DOMAIN q : /\ q2[i].kind \in Starts <=> q[i].kind \in Starts
                            /\ q2[i].kind \in Moves <=> q[i].kind \in Moves
                            /\ q2[i].kind \in Sounds <=> q[i].kind \in Sounds
                            /\ q2[i].kind \in {"OnPlay", "OnSpeedChanged"}
                                 <=> q[i].kind \in {"OnPlay", "OnSpeedChanged"}
                            /\ q2[i].kind = "OnStop" <=> q[i].kind = "OnStop"
                            /\ q2[i].kind = "OnSpeedChanged" <=> q[i].kind = "OnSpeedChanged"
    BY <1>4 DEF Starts, Moves, Sounds
  <1>6. \A i : /\ After(q2, i, Starts) <=> After(q, i, Starts)
               /\ After(q2, i, Moves) <=> After(q, i, Moves)
               /\ After(q2, i, Sounds) <=> After(q, i, Sounds)
    BY <1>2, <1>5, Zenon DEF After
  <1>7. \A i, j : Within(q2, i, j, Starts) <=> Within(q, i, j, Starts)
    BY <1>2, <1>5, Zenon DEF Within
  <1>8. /\ Among(Starts, q2) <=> Among(Starts, q)
        /\ Among(Moves, q2) <=> Among(Moves, q)
        /\ Among(Sounds, q2) <=> Among(Sounds, q)
    BY <1>2, <1>5, Zenon DEF Among
  <1>9. Faithful(q, k) => Faithful(q2, k)
    <2> SUFFICES ASSUME Faithful(q, k) PROVE Faithful(q2, k)
      OBVIOUS
    <2>1. ASSUME NEW i \in DOMAIN q
          PROVE  /\ q2[i].ok = TRUE
                 /\ q2[i].kind \in {"OnPlay", "OnSpeedChanged"} => q2[i].data.item # NoItem
                 /\ q2[i].kind = "OnStop" => q2[i].data.item = NoItem
                 /\ ~After(q2, i, Sounds) => q2[i].data.volume = k.volume
                 /\ ~After(q2, i, Starts) => q2[i].data.item = k.item
                 /\ ~After(q2, i, Moves) => q2[i].data.speed = k.speed
      BY <1>4, <1>5, <1>6, <2>1 DEF Faithful
    <2>2. ASSUME NEW i \in DOMAIN q, NEW j \in DOMAIN q, i < j, ~Within(q2, i, j, Starts)
          PROVE  q2[i].data.item = q2[j].data.item
      BY <1>4, <1>7, <2>2 DEF Faithful
    <2>. QED  BY <1>2, <2>1, <2>2 DEF Faithful
  <1>10. Identified(q, k, np, supplied) => Identified(q2, k, np, supplied)
    BY <1>2, <1>4, <1>5, <1>7, <1>8 DEF Identified
  <1>. QED  BY <1>8, <1>9, <1>10 DEF q2

\* What NowPlayingAgrees asks of the item, its show and the playback state.
Agrees(np, k) ==
    IF k.item = NoItem THEN np = Inactive
    ELSE /\ np.playback = PlaybackFromSpeed(k.speed)
         /\ \/ np.title = k.item /\ np.show = ShowOf(k.item)
            \/ np.title = NoItem /\ np.show = NoItem /\ k.item \in AddonItems

\* No notification about playback is on its way or waits for its poll.
Undisturbed == ~needs_immediate_poll /\ ~Among(Moves, inbox)

HeardInv ==
    /\ Faithful(inbox, kodi)
    /\ Identified(inbox, kodi, now_playing, identity_from_notification)

\* The volume is known after the first reply of the first poll.
VolumeInv ==
    (pc # "connect_failed" /\ (call # "App" \/ tolerate) /\ ~Among(Sounds, inbox))
      => volume = kodi.volume

\* What a poll has read is still true when it ends, or it will know better.
PollInv ==
    Undisturbed /\ ~stop_seen =>
        /\ call \in {"Props", "Item"} => kodi.item # NoItem
        /\ call = "Item" => props = [speed |-> kodi.speed, ok |-> TRUE]

ShownInv ==
    Undisturbed /\ call \notin PollCalls /\ ~poll_abandoned => Agrees(now_playing, kodi)

PlayInv ==
    /\ pc # "receive" => call = "none"
    /\ ws = "open" => HeardInv /\ VolumeInv /\ PollInv /\ ShownInv

\* The inbox holds the same notifications in the same order.
SameNotifications ==
    \/ inbox' = inbox
    \/ inbox' = UnawaitedFrames(inbox)
    \/ inbox # <<>> /\ Head(inbox).kind \in Requests /\ inbox' = Tail(inbox)

LEMMA NotificationsKept ==
    ASSUME inbox \in Seq(Frames), identity_from_notification \in BOOLEAN, SameNotifications,
           HeardInv, UNCHANGED <<kodi, now_playing, identity_from_notification>>
    PROVE  /\ HeardInv'
           /\ \A kinds \in {Starts, Moves, Sounds} : Among(kinds, inbox) => Among(kinds, inbox')
  <1>1. CASE inbox' = inbox
    BY <1>1, Zenon DEF HeardInv
  <1>2. CASE inbox' = UnawaitedFrames(inbox)
    <2>1. Faithful(inbox', kodi)
      BY <1>2, UnawaitedSame DEF HeardInv
    <2>2. Identified(inbox', kodi, now_playing, identity_from_notification)
      BY <1>2, UnawaitedSame DEF HeardInv
    <2>3. \A kinds \in {Starts, Moves, Sounds} : Among(kinds, inbox) => Among(kinds, inbox')
      BY <1>2, UnawaitedSame
    <2>. QED  BY <2>1, <2>2, <2>3, Zenon DEF HeardInv
  <1>3. CASE inbox # <<>> /\ Head(inbox).kind \in Requests /\ inbox' = Tail(inbox)
    <2>1. /\ Head(inbox).kind \notin Starts /\ Head(inbox).kind \notin Moves
          /\ Head(inbox).kind \notin Sounds
      BY <1>3 DEF Requests, Starts, Moves, Sounds
    <2>2. Faithful(inbox', kodi)
      BY <1>3, FaithfulTail DEF HeardInv
    <2>3. Identified(inbox', kodi, now_playing, identity_from_notification)
      BY <1>3, <2>1, IdentifiedTail DEF HeardInv
    <2>4. \A kinds \in {Starts, Moves, Sounds} : Among(kinds, inbox) => Among(kinds, inbox')
      BY <1>3, <2>1, AmongTail
    <2>. QED  BY <2>2, <2>3, <2>4, Zenon DEF HeardInv
  <1>. QED  BY <1>1, <1>2, <1>3 DEF SameNotifications

\* A step that has nothing to do with playback.
Aside ==
    /\ UNCHANGED <<kodi, trackVars, pollVars>>
    /\ SameNotifications
    /\ ws' = "open" => ws = "open"
    /\ call' = call \/ (call \notin PollCalls /\ call' \notin PollCalls)
    /\ pc' # "receive" => call' = "none"
    /\ pc = "connect_failed" => pc' = "connect_failed" \/ ws' # "open"

LEMMA PlayAside ==
    ASSUME LinkTypes, BooleanTypes, PlayInv, Aside
    PROVE  PlayInv'
  <1> SUFFICES ASSUME ws' = "open" PROVE (HeardInv /\ VolumeInv /\ PollInv /\ ShownInv)'
    BY DEF PlayInv, Aside
  <1>1. HeardInv /\ VolumeInv /\ PollInv /\ ShownInv
    BY DEF PlayInv, Aside
  <1>2. /\ UNCHANGED <<kodi, now_playing, volume, identity_from_notification,
                       needs_immediate_poll, stop_seen, tolerate, props, poll_abandoned>>
        /\ call' = call \/ (call \notin PollCalls /\ call' \notin PollCalls)
        /\ pc = "connect_failed" => pc' = "connect_failed"
    BY DEF Aside, trackVars, pollVars
  <1>3. /\ HeardInv'
        /\ \A kinds \in {Starts, Moves, Sounds} : Among(kinds, inbox) => Among(kinds, inbox')
    BY <1>1, <1>2, NotificationsKept DEF LinkTypes, BooleanTypes, Aside
  <1>4. /\ ~Among(Sounds, inbox') => ~Among(Sounds, inbox)
        /\ ~Among(Moves, inbox') => ~Among(Moves, inbox)
    BY <1>3
  <1>5. VolumeInv'
    BY <1>1, <1>2, <1>4 DEF VolumeInv, PollCalls
  <1>6. PollInv' /\ ShownInv'
    BY <1>1, <1>2, <1>4 DEF PollInv, ShownInv, Undisturbed, PollCalls
  <1>. QED  BY <1>3, <1>5, <1>6

\* A link that is not open promises nothing.
LEMMA PlayClosed ==
    ASSUME PlayInv, ws' # "open", UNCHANGED call, pc = "receive" => pc' = "receive"
    PROVE  PlayInv'
  BY DEF PlayInv

\* Kodi sends a frame.
LEMMA PlaySends ==
    ASSUME LinkTypes, BooleanTypes, PlayInv, NEW f \in Frames, ws = "open" => Reports(f, kodi),
           ws = "open" => inbox' = Append(inbox, f), kodi' = f.data,
           UNCHANGED <<ws, pc, call, trackVars, pollVars>>
    PROVE  PlayInv'
  <1> SUFFICES ASSUME ws = "open" PROVE (HeardInv /\ VolumeInv /\ PollInv /\ ShownInv)'
    BY DEF PlayInv
  <1>1. HeardInv /\ VolumeInv /\ PollInv /\ ShownInv
    BY DEF PlayInv
  <1>2. UNCHANGED <<pc, call, now_playing, volume, identity_from_notification,
                    needs_immediate_poll, stop_seen, tolerate, props, poll_abandoned>>
    BY DEF trackVars, pollVars
  <1>3. inbox \in Seq(Frames) /\ inbox' = Append(inbox, f) /\ Reports(f, kodi)
    BY DEF LinkTypes
  <1>4. HeardInv'
    <2>1. Faithful(inbox', kodi')
      BY <1>1, <1>3, FaithfulAppend DEF HeardInv
    <2>2. Identified(inbox', kodi', now_playing, identity_from_notification)
      BY <1>1, <1>3, IdentifiedAppend DEF HeardInv, BooleanTypes
    <2>. QED  BY <1>2, <2>1, <2>2, Zenon DEF HeardInv
  <1>5. /\ ~Among(Sounds, inbox') => ~Among(Sounds, inbox) /\ f.kind \notin Sounds
        /\ ~Among(Moves, inbox') => ~Among(Moves, inbox) /\ f.kind \notin Moves
    BY <1>3, AfterAppend
  <1>6. /\ ~Among(Sounds, inbox') => kodi'.volume = kodi.volume
        /\ ~Among(Moves, inbox') => kodi'.item = kodi.item /\ kodi'.speed = kodi.speed
    BY <1>3, <1>5 DEF Reports, Starts, Moves
  <1>7. VolumeInv'
    BY <1>1, <1>2, <1>5, <1>6 DEF VolumeInv
  <1>8. PollInv'
    BY <1>1, <1>2, <1>5, <1>6 DEF PollInv, Undisturbed
  <1>9. ShownInv'
    BY <1>1, <1>2, <1>5, <1>6 DEF ShownInv, Undisturbed, Agrees
  <1>. QED  BY <1>4, <1>7, <1>8, <1>9

LEMMA PlayKodi ==
    ASSUME BadReplies = FALSE, LinkTypes, BooleanTypes, PlayInv, KodiNext
    PROVE  PlayInv'
  <1> USE KodiAssumption
  <1>0. /\ kodi \in KodiStates /\ kodi.item \in Titles /\ kodi.speed \in {0, 1}
        /\ kodi.volume \in Volumes
    BY DEF LinkTypes, KodiStates
  <1>1. ASSUME NEW kind \in Notifications, NEW new \in KodiStates, KodiChanges(kind, new),
               Reports(Frame(kind, TRUE, new), kodi)
        PROVE  PlayInv'
    <2> DEFINE f == Frame(kind, TRUE, new)
    <2>1. f \in Frames /\ f.data = new
      BY <1>1 DEF Frame, Frames
    <2>2. ws = "open" => inbox' = Append(inbox, f)
      BY <1>1 DEF KodiChanges
    <2>3. kodi' = new /\ UNCHANGED <<ws, pc, call, trackVars, pollVars>>
      BY <1>1 DEF KodiChanges, ClientFrame, callVars
    <2>4. Reports(f, kodi)
      BY <1>1
    <2> HIDE DEF f
    <2>. QED  BY <2>1, <2>2, <2>3, <2>4, PlaySends
  <1>2. ASSUME NEW item \in Items, KodiPlays(item)
        PROVE  PlayInv'
    <2> DEFINE new == [kodi EXCEPT !.item = item, !.speed = 1]
    <2>1. new \in KodiStates /\ new.item = item /\ new.volume = kodi.volume
      BY <1>0, <1>2 DEF KodiStates, Titles
    <2>2. item # NoItem
      BY <1>2
    <2>3. KodiChanges("OnPlay", new)
      BY <1>2 DEF KodiPlays
    <2> HIDE DEF new
    <2>4. Reports(Frame("OnPlay", TRUE, new), kodi)
      BY <2>1, <2>2 DEF Reports, Frame, Starts, Moves, Sounds
    <2>. QED  BY <1>1, <2>1, <2>3, <2>4 DEF Notifications
  <1>3. CASE KodiPausesOrResumes
    <2> DEFINE new == [kodi EXCEPT !.speed = 1 - @]
    <2>1. new \in KodiStates /\ new.item = kodi.item /\ new.volume = kodi.volume
      BY <1>0 DEF KodiStates
    <2>2. kodi.item # NoItem /\ KodiChanges("OnSpeedChanged", new)
      BY <1>3 DEF KodiPausesOrResumes
    <2> HIDE DEF new
    <2>3. Reports(Frame("OnSpeedChanged", TRUE, new), kodi)
      BY <2>1, <2>2 DEF Reports, Frame, Starts, Moves, Sounds
    <2>. QED  BY <1>1, <2>1, <2>2, <2>3 DEF Notifications
  <1>4. CASE KodiStops
    <2> DEFINE new == [kodi EXCEPT !.item = NoItem, !.speed = 0]
    <2>1. new \in KodiStates /\ new.item = NoItem /\ new.volume = kodi.volume
      BY <1>0 DEF KodiStates, Titles
    <2>2. KodiChanges("OnStop", new)
      BY <1>4 DEF KodiStops
    <2> HIDE DEF new
    <2>3. Reports(Frame("OnStop", TRUE, new), kodi)
      BY <2>1 DEF Reports, Frame, Starts, Moves, Sounds
    <2>. QED  BY <1>1, <2>1, <2>2, <2>3 DEF Notifications
  <1>5. ASSUME NEW v \in Volumes, KodiVolume(v)
        PROVE  PlayInv'
    <2> DEFINE new == [kodi EXCEPT !.volume = v]
    <2>1. new \in KodiStates /\ new.item = kodi.item /\ new.speed = kodi.speed
      BY <1>0, <1>5 DEF KodiStates
    <2>2. KodiChanges("OnVolumeChanged", new)
      BY <1>5 DEF KodiVolume
    <2> HIDE DEF new
    <2>3. Reports(Frame("OnVolumeChanged", TRUE, new), kodi)
      BY <2>1 DEF Reports, Frame, Starts, Moves, Sounds
    <2>. QED  BY <1>1, <2>1, <2>2, <2>3 DEF Notifications
  <1>6. CASE KodiAnswers
    <2> DEFINE f == Frame(Head(requests), TRUE, kodi)
    <2>1. Head(requests) \in Requests
      BY <1>6 DEF KodiAnswers, LinkTypes
    <2>2. f \in Frames /\ f.data = kodi
      BY <1>0, <2>1 DEF Frame, Frames
    <2>3. inbox' = Append(inbox, f)
      BY <1>6 DEF KodiAnswers
    <2>4. kodi' = kodi /\ UNCHANGED <<ws, pc, call, trackVars, pollVars>>
      BY <1>6 DEF KodiAnswers, ClientFrame, callVars, kodiVars
    <2>5. Reports(f, kodi)
      BY <2>1 DEF Reports, Frame, Requests
    <2> HIDE DEF f
    <2>. QED  BY <2>2, <2>3, <2>4, <2>5, PlaySends
  <1>7. CASE LinkDies
    <2>1. ws' # "open" /\ UNCHANGED <<call, pc>>
      BY <1>7 DEF LinkDies, ClientFrame, callVars
    <2>. QED  BY <2>1, PlayClosed
  <1>. QED  BY <1>2, <1>3, <1>4, <1>5, <1>6, <1>7 DEF KodiNext

\* The fields of an item that is not blank, over what was shown of the same
\* item or over nothing.
LEMMA FieldsName ==
    ASSUME NEW item \in Titles, NEW np \in NowPlayings, Named(np, item)
    PROVE  /\ ApplyItemFields(item, np) \in NowPlayings
           /\ item # NoItem => InFull(ApplyItemFields(item, np), item)
           /\ ApplyItemFields(NoItem, np) = np
           /\ ApplyItemFields(item, np).playback = np.playback
  <1> USE KodiAssumption
  <1>1. ApplyItemFields(item, np) \in NowPlayings
    BY ItemFieldsTyped
  <1>2. /\ ApplyItemFields(item, np).title = Filled(item, np.title)
        /\ ApplyItemFields(item, np).show = Filled(ShowOf(item), np.show)
        /\ ApplyItemFields(item, np).playback = np.playback
    BY DEF ApplyItemFields, NowPlayings
  <1>3. item # NoItem => InFull(ApplyItemFields(item, np), item)
    BY <1>2 DEF InFull, Named, Filled, ShowOf
  <1>4. ApplyItemFields(NoItem, np) = np
    <2>1. NoItem \notin Episodes
      OBVIOUS
    <2>. QED  BY <2>1 DEF ApplyItemFields, NowPlayings, Filled, ShowOf
  <1>. QED  BY <1>1, <1>2, <1>3, <1>4

LEMMA PlaybackKeepsName ==
    ASSUME NEW np \in NowPlayings, NEW playback, NEW item
    PROVE  LET timed == [np EXCEPT !.playback = playback] IN
           /\ Named(np, item) => Named(timed, item)
           /\ InFull(np, item) => InFull(timed, item)
           /\ timed.playback = playback
  BY DEF NowPlayings, Named, InFull

LEMMA InFullNamed == \A np, item : InFull(np, item) => Named(np, item)
  BY DEF InFull, Named

LEMMA InactiveNamed == \A item : Named(Inactive, item)
  BY DEF Inactive, Named

\* One frame that is not the awaited reply is applied to the snapshot.
LEMMA PlayFrame ==
    ASSUME LinkTypes, BooleanTypes, PlayTypes, PlayInv, inbox # <<>>, HandleFrame(Head(inbox)),
           inbox' = Tail(inbox), UNCHANGED <<kodi, ws, pc, call, pollVars>>
    PROVE  PlayInv'
  <1> SUFFICES ASSUME ws = "open" PROVE (HeardInv /\ VolumeInv /\ PollInv /\ ShownInv)'
    BY DEF PlayInv
  <1> DEFINE h == Head(inbox)
             t == Tail(inbox)
  <1>1. HeardInv /\ VolumeInv /\ PollInv /\ ShownInv
    BY DEF PlayInv
  <1>2. inbox \in Seq(Frames) /\ Faithful(inbox, kodi)
    BY <1>1 DEF LinkTypes, HeardInv
  <1>3. /\ h \in Frames
        /\ h.kind \in {"OnPlay", "OnSpeedChanged"} => h.data.item # NoItem
        /\ h.kind = "OnStop" => h.data.item = NoItem
        /\ ~Among(Sounds, t) => h.data.volume = kodi.volume
        /\ ~Among(Starts, t) => h.data.item = kodi.item
    BY <1>2, HeadTells
  <1>4. Faithful(t, kodi)
    BY <1>2, FaithfulTail
  <1>5. /\ h.kind \notin Sounds /\ ~Among(Sounds, t) => ~Among(Sounds, inbox)
        /\ h.kind \notin Moves /\ ~Among(Moves, t) => ~Among(Moves, inbox)
    BY <1>2, AmongTail
  <1>6. UNCHANGED <<kodi, pc, call, tolerate, props, poll_abandoned>>
    BY DEF pollVars
  <1>7. HandleFrame(h) /\ inbox' = t
    OBVIOUS
  <1>8. now_playing \in NowPlayings /\ identity_from_notification \in BOOLEAN
    BY DEF PlayTypes, BooleanTypes
  <1>9. ~Among(Moves, t) => ~Among(Starts, t)
    BY DEF Among, Moves, Starts
  <1>10. h.kind \notin Starts =>
            Identified(t, kodi, now_playing, identity_from_notification)
    BY <1>1, <1>2, <1>8, IdentifiedTail DEF HeardInv
  <1>11. ASSUME NEW np, NEW supplied \in BOOLEAN, Named(np, h.data.item),
                supplied => InFull(np, h.data.item)
         PROVE  Identified(t, kodi, np, supplied)
    BY <1>2, <1>11, IdentifiedAnew
  <1>12. CASE h.kind = "OnVolumeChanged"
    <2>1. /\ volume' = h.data.volume
          /\ UNCHANGED <<now_playing, identity_from_notification, needs_immediate_poll, stop_seen>>
      BY <1>7, <1>12 DEF HandleFrame
    <2>2. h.kind \notin Starts /\ h.kind \notin Moves
      BY <1>12 DEF Starts, Moves
    <2> HIDE DEF h, t
    <2>3. HeardInv'
      BY <1>4, <1>6, <1>7, <1>10, <2>1, <2>2, Zenon DEF HeardInv
    <2>4. VolumeInv'
      BY <1>3, <1>6, <1>7, <2>1 DEF VolumeInv
    <2>5. PollInv' /\ ShownInv'
      BY <1>1, <1>5, <1>6, <1>7, <2>1, <2>2 DEF PollInv, ShownInv, Undisturbed
    <2>. QED  BY <2>3, <2>4, <2>5
  <1>13. CASE h.kind = "OnStop"
    <2>1. /\ stop_seen' = TRUE /\ now_playing' = Inactive
          /\ identity_from_notification' = FALSE /\ UNCHANGED <<volume, needs_immediate_poll>>
      BY <1>7, <1>13 DEF HandleFrame
    <2>2. h.kind \notin Sounds
      BY <1>13 DEF Sounds
    <2>3. Identified(t, kodi, Inactive, FALSE)
      BY <1>11, InactiveNamed
    <2> HIDE DEF h, t
    <2>4. HeardInv'
      BY <1>4, <1>6, <1>7, <2>1, <2>3, Zenon DEF HeardInv
    <2>5. VolumeInv'
      BY <1>1, <1>5, <1>6, <1>7, <2>1, <2>2 DEF VolumeInv
    <2>6. PollInv'
      BY <2>1 DEF PollInv
    <2>7. ShownInv'
      BY <1>3, <1>6, <1>7, <1>9, <1>13, <2>1 DEF ShownInv, Undisturbed, Agrees
    <2>. QED  BY <2>4, <2>5, <2>6, <2>7
  <1>14. CASE h.kind \in {"OnPlay", "OnSpeedChanged"}
    <2>1. /\ now_playing' = [Identity(h) EXCEPT !.playback = PlaybackFromSpeed(h.data.speed)]
          /\ identity_from_notification' = TRUE /\ needs_immediate_poll' = TRUE
          /\ UNCHANGED <<volume, stop_seen>>
      BY <1>7, <1>14 DEF HandleFrame
    <2>2. h.kind \notin Sounds
      BY <1>14 DEF Sounds
    <2>3. h.data.item \in Titles /\ h.data.item # NoItem
      BY <1>3, <1>14 DEF Frames, KodiStates
    <2>4. Identity(h) \in NowPlayings /\ InFull(Identity(h), h.data.item)
      <3>1. CASE h.kind = "OnPlay"
        <4> DEFINE blank == [now_playing EXCEPT !.title = NoItem, !.show = NoItem]
        <4>1. blank \in NowPlayings /\ Named(blank, h.data.item)
          BY <1>8 DEF NowPlayings, Titles, Named
        <4>2. Identity(h) = ApplyItemFields(h.data.item, blank)
          BY <3>1 DEF Identity
        <4> HIDE DEF blank, h
        <4>. QED  BY <2>3, <4>1, <4>2, FieldsName
      <3>2. CASE h.kind = "OnSpeedChanged"
        <4>1. 1 \in DOMAIN inbox /\ inbox[1] = h
          BY <1>2
        <4>2. ~Within(inbox, 0, 1, Starts)
          <5>1. \A m \in DOMAIN inbox : 0 < m /\ m <= 1 => m = 1
            BY <1>2
          <5>2. inbox[1].kind \notin Starts
            BY <3>2, <4>1 DEF Starts
          <5>. QED  BY <5>1, <5>2, Zenon DEF Within
        <4>3. inbox[1].kind = "OnSpeedChanged"
          BY <3>2, <4>1
        <4>4. Named(now_playing, inbox[1].data.item)
          BY <1>1, <4>1, <4>2, <4>3, Zenon DEF HeardInv, Identified
        <4>5. Identity(h) = ApplyItemFields(h.data.item, now_playing)
          BY <3>2 DEF Identity
        <4> HIDE DEF h
        <4>. QED  BY <1>8, <2>3, <4>1, <4>4, <4>5, FieldsName
      <3>. QED  BY <1>14, <3>1, <3>2
    <2>5. InFull(now_playing', h.data.item)
      BY <2>1, <2>4, PlaybackKeepsName
    <2>6. Identified(t, kodi, now_playing', TRUE)
      BY <1>11, <2>5, InFullNamed
    <2> HIDE DEF h, t
    <2>7. HeardInv'
      BY <1>4, <1>6, <1>7, <2>1, <2>6, Zenon DEF HeardInv
    <2>8. VolumeInv'
      BY <1>1, <1>5, <1>6, <1>7, <2>1, <2>2 DEF VolumeInv
    <2>9. PollInv' /\ ShownInv'
      BY <2>1 DEF PollInv, ShownInv, Undisturbed
    <2>. QED  BY <2>7, <2>8, <2>9
  <1>15. CASE h.kind \notin {"OnVolumeChanged", "OnStop", "OnPlay", "OnSpeedChanged"}
    <2>1. UNCHANGED <<now_playing, volume, identity_from_notification, needs_immediate_poll,
                      stop_seen>>
      BY <1>7, <1>15 DEF HandleFrame, trackVars
    <2>2. h.kind \notin Starts /\ h.kind \notin Moves /\ h.kind \notin Sounds
      BY <1>15 DEF Starts, Moves, Sounds
    <2> HIDE DEF h, t
    <2>3. HeardInv'
      BY <1>4, <1>6, <1>7, <1>10, <2>1, <2>2, Zenon DEF HeardInv
    <2>4. VolumeInv' /\ PollInv' /\ ShownInv'
      BY <1>1, <1>5, <1>6, <1>7, <2>1, <2>2 DEF VolumeInv, PollInv, ShownInv, Undisturbed
    <2>. QED  BY <2>3, <2>4
  <1>. QED  BY <1>12, <1>13, <1>14, <1>15, Zenon

\* What the awaited reply at the head says, and the queue behind it.
LEMMA ReplyTells ==
    ASSUME LinkTypes, BooleanTypes, PlayInv, ws = "open", TakeReply, inbox' = Tail(inbox),
           UNCHANGED kodi
    PROVE  /\ Head(inbox) \in Frames /\ Head(inbox).ok = TRUE
           /\ ~Among(Sounds, inbox') => ~Among(Sounds, inbox) /\ Head(inbox).data.volume = kodi.volume
           /\ ~Among(Moves, inbox') => /\ ~Among(Moves, inbox)
                                       /\ Head(inbox).data.item = kodi.item
                                       /\ Head(inbox).data.speed = kodi.speed
           /\ Faithful(inbox', kodi')
           /\ Identified(inbox', kodi', now_playing, identity_from_notification)
  <1>1. /\ inbox \in Seq(Frames) /\ inbox # <<>> /\ Head(inbox).kind = "awaited"
        /\ Faithful(inbox, kodi) /\ identity_from_notification \in BOOLEAN
        /\ Identified(inbox, kodi, now_playing, identity_from_notification)
    BY DEF LinkTypes, BooleanTypes, PlayInv, HeardInv, TakeReply, MyReply
  <1>2. /\ Head(inbox) \in Frames /\ Head(inbox).ok = TRUE
        /\ ~Among(Sounds, Tail(inbox)) => Head(inbox).data.volume = kodi.volume
        /\ ~Among(Starts, Tail(inbox)) => Head(inbox).data.item = kodi.item
        /\ ~Among(Moves, Tail(inbox)) => Head(inbox).data.speed = kodi.speed
    BY <1>1, HeadTells
  <1>3. /\ Head(inbox).kind \notin Sounds /\ Head(inbox).kind \notin Moves
        /\ Head(inbox).kind \notin Starts
    BY <1>1 DEF Sounds, Moves, Starts
  <1>4. /\ ~Among(Sounds, Tail(inbox)) => ~Among(Sounds, inbox)
        /\ ~Among(Moves, Tail(inbox)) => ~Among(Moves, inbox)
    BY <1>1, <1>3, AmongTail
  <1>5. ~Among(Moves, Tail(inbox)) => ~Among(Starts, Tail(inbox))
    BY DEF Among, Moves, Starts
  <1>6. Faithful(Tail(inbox), kodi)
    BY <1>1, FaithfulTail
  <1>7. Identified(Tail(inbox), kodi, now_playing, identity_from_notification)
    BY <1>1, <1>3, IdentifiedTail
  <1>. QED  BY <1>2, <1>4, <1>5, <1>6, <1>7

\* The poll's first two replies, and the two steps that begin a poll.
LEMMA PlayPollBegins ==
    ASSUME PlayInv, ConnectSucceeds \/ StartPoll
    PROVE  PlayInv'
  <1>1. CASE ConnectSucceeds
    <2>1. /\ inbox' = <<>> /\ now_playing' = Inactive /\ identity_from_notification' = FALSE
          /\ tolerate' = FALSE /\ call' = "App" /\ pc' = "receive"
      BY <1>1 DEF ConnectSucceeds, Goto
    <2>2. DOMAIN inbox' = {}
      BY <2>1
    <2>3. HeardInv'
      BY <2>1, <2>2, InactiveNamed DEF HeardInv, Faithful, Identified
    <2>4. VolumeInv' /\ PollInv' /\ ShownInv'
      BY <2>1 DEF VolumeInv, PollInv, ShownInv, PollCalls
    <2>. QED  BY <2>1, <2>3, <2>4 DEF PlayInv
  <1>2. CASE StartPoll
    <2>1. /\ pc = "act_on_reason" /\ pc' = "receive" /\ call' = "App"
          /\ UNCHANGED <<kodi, ws, inbox, now_playing, volume, identity_from_notification>>
      BY <1>2 DEF StartPoll, SendCall, Goto, ThreadFrame, kodiVars
    <2>2. call = "none"
      BY <2>1 DEF PlayInv
    <2>3. ws = "open" => HeardInv'
      BY <2>1, Zenon DEF PlayInv, HeardInv
    <2>4. ws = "open" => VolumeInv'
      BY <2>1, <2>2 DEF PlayInv, VolumeInv
    <2>5. PollInv' /\ ShownInv'
      BY <2>1 DEF PollInv, ShownInv, PollCalls
    <2>. QED  BY <2>1, <2>3, <2>4, <2>5 DEF PlayInv
  <1>. QED  BY <1>1, <1>2

LEMMA PlayPollGoesOn ==
    ASSUME LinkTypes, BooleanTypes, PlayInv, ReceiveApp \/ ReceivePlayers \/ ReceiveProps
    PROVE  PlayInv'
  <1> DEFINE f == Head(inbox)
  <1>1. /\ TakeReply /\ inbox' = Tail(inbox) /\ UNCHANGED <<kodi, ws, now_playing>>
        /\ UNCHANGED <<identity_from_notification, needs_immediate_poll, poll_abandoned>>
        /\ pc' = "receive" /\ pc = "receive"
    BY DEF ReceiveApp, ReceivePlayers, ReceiveProps, ThreadFrame, kodiVars, trackVars, pollVars,
           SendCall, Goto, TakeReply
  <1> SUFFICES ASSUME ws = "open" PROVE (HeardInv /\ VolumeInv /\ PollInv /\ ShownInv)'
    BY <1>1 DEF PlayInv
  <1>2. /\ f \in Frames /\ f.ok = TRUE
        /\ ~Among(Sounds, inbox') => ~Among(Sounds, inbox) /\ f.data.volume = kodi.volume
        /\ ~Among(Moves, inbox') => ~Among(Moves, inbox) /\ f.data.item = kodi.item
                                    /\ f.data.speed = kodi.speed
        /\ Faithful(inbox', kodi')
        /\ Identified(inbox', kodi', now_playing, identity_from_notification)
    BY <1>1, ReplyTells
  <1>3. HeardInv'
    BY <1>1, <1>2, Zenon DEF HeardInv
  <1>4. VolumeInv /\ PollInv
    BY DEF PlayInv
  <1>5. CASE ReceiveApp
    <2>1. volume' = (IF f.ok THEN f.data.volume ELSE volume) /\ call' = "Players"
      BY <1>5 DEF ReceiveApp, SendCall
    <2>2. volume' = f.data.volume
      BY <1>2, <2>1
    <2> HIDE DEF f
    <2>. QED
      BY <1>1, <1>2, <1>3, <2>1, <2>2 DEF VolumeInv, PollInv, ShownInv, PollCalls
  <1>6. CASE ReceivePlayers
    <2>1. call = "Players" /\ call' = "Props" /\ f.data.item # NoItem /\ UNCHANGED volume
      BY <1>6 DEF ReceivePlayers, SendCall
    <2> HIDE DEF f
    <2>2. VolumeInv'
      BY <1>1, <1>2, <1>4, <2>1 DEF VolumeInv
    <2>. QED
      BY <1>1, <1>2, <1>3, <2>1, <2>2 DEF PollInv, ShownInv, PollCalls, Undisturbed
  <1>7. CASE ReceiveProps
    <2>1. /\ call = "Props" /\ call' = "Item" /\ UNCHANGED <<volume, stop_seen, tolerate>>
          /\ props' = [speed |-> f.data.speed, ok |-> f.ok /\ f.data.item # NoItem]
      BY <1>7 DEF ReceiveProps, SendCall, trackVars
    <2>2. f.data.item # NoItem => props' = [speed |-> f.data.speed, ok |-> TRUE]
      BY <1>2, <2>1
    <2> HIDE DEF f
    <2>3. VolumeInv'
      BY <1>1, <1>2, <1>4, <2>1 DEF VolumeInv
    <2>4. PollInv'
      BY <1>1, <1>2, <1>4, <2>1, <2>2 DEF PollInv, Undisturbed
    <2>. QED  BY <1>3, <2>1, <2>3, <2>4 DEF ShownInv, PollCalls
  <1>. QED  BY <1>5, <1>6, <1>7

\* Nothing plays, or what was read is applied.
LEMMA PlayPollEnds ==
    ASSUME LinkTypes, BooleanTypes, PlayTypes, PlayInv, ReceiveNoPlayers \/ ReceiveItem
    PROVE  PlayInv'
  <1> DEFINE f == Head(inbox)
  <1>1. /\ TakeReply /\ inbox' = Tail(inbox) /\ UNCHANGED <<kodi, ws, volume>>
        /\ pc = "receive" /\ pc' # "receive" /\ call' = "none" /\ call \in {"Players", "Item"}
    BY DEF ReceiveNoPlayers, ReceiveItem, ThreadFrame, kodiVars, PollReturns, Goto, TakeReply
  <1> SUFFICES ASSUME ws = "open" PROVE (HeardInv /\ VolumeInv /\ PollInv /\ ShownInv)'
    BY <1>1 DEF PlayInv
  <1>2. /\ f \in Frames /\ f.ok = TRUE
        /\ ~Among(Sounds, inbox') => ~Among(Sounds, inbox)
        /\ ~Among(Moves, inbox') => ~Among(Moves, inbox) /\ f.data.item = kodi.item
        /\ Faithful(inbox', kodi')
        /\ Identified(inbox', kodi', now_playing, identity_from_notification)
    BY <1>1, ReplyTells
  <1>3. inbox \in Seq(Frames) /\ inbox # <<>> /\ f.kind = "awaited"
    BY <1>1 DEF LinkTypes, TakeReply, MyReply
  <1>4. HeardInv /\ VolumeInv /\ PollInv
    BY DEF PlayInv
  <1>5. VolumeInv'
    BY <1>1, <1>2, <1>4 DEF VolumeInv
  <1>6. PollInv'
    BY <1>1 DEF PollInv
  <1>7. ASSUME NEW np, NEW supplied \in BOOLEAN, Named(np, f.data.item),
               supplied => InFull(np, f.data.item)
        PROVE  Identified(inbox', kodi', np, supplied)
    BY <1>1, <1>3, <1>4, <1>7, IdentifiedAnew DEF HeardInv
  <1>8. CASE ReceiveNoPlayers
    <2>1. /\ now_playing' = Inactive /\ identity_from_notification' = FALSE
          /\ f.data.item = NoItem \/ ~f.ok
      BY <1>8 DEF ReceiveNoPlayers
    <2>2. Identified(inbox', kodi', Inactive, FALSE)
      BY <1>7, InactiveNamed
    <2>3. HeardInv'
      BY <1>2, <2>1, <2>2, Zenon DEF HeardInv
    <2> HIDE DEF f
    <2>4. ShownInv'
      BY <1>1, <1>2, <2>1 DEF ShownInv, Undisturbed, Agrees
    <2>. QED  BY <1>5, <1>6, <2>3, <2>4
  <1>9. CASE ReceiveItem
    <2> DEFINE timed == IF props.ok
                        THEN [now_playing EXCEPT !.playback = PlaybackFromSpeed(props.speed)]
                        ELSE now_playing
               named == IF f.ok /\ ~identity_from_notification
                        THEN ApplyItemFields(GetItem(f.data.item), timed)
                        ELSE timed
    <2>1. /\ now_playing' = (IF stop_seen THEN now_playing ELSE named)
          /\ needs_immediate_poll' = (needs_immediate_poll \/ stop_seen)
          /\ UNCHANGED identity_from_notification /\ call = "Item"
      BY <1>9 DEF ReceiveItem, RepliesOutdated
    <2>2. /\ now_playing \in NowPlayings /\ props \in [speed : {0, 1}, ok : BOOLEAN]
          /\ identity_from_notification \in BOOLEAN /\ stop_seen \in BOOLEAN
          /\ needs_immediate_poll \in BOOLEAN
          /\ f.data.item \in Titles /\ kodi.item \in Titles
      BY <1>2 DEF PlayTypes, BooleanTypes, Frames, KodiStates, LinkTypes
    <2>3. CASE stop_seen
      <3>1. now_playing' = now_playing /\ needs_immediate_poll' = TRUE
        BY <2>1, <2>3
      <3>2. HeardInv'
        BY <1>2, <2>1, <3>1, Zenon DEF HeardInv
      <3>3. ShownInv'
        BY <3>1 DEF ShownInv, Undisturbed
      <3>. QED  BY <1>5, <1>6, <3>2, <3>3
    <2>4. CASE ~stop_seen
      <3>1. now_playing' = named /\ needs_immediate_poll' = needs_immediate_poll
        BY <2>1, <2>2, <2>4
      <3> DEFINE item == GetItem(f.data.item)
      <3>2. /\ item \in {NoItem, f.data.item}
            /\ f.data.item \notin AddonItems => item = f.data.item
            /\ item \in Titles
        BY <2>2 DEF GetItem, Titles
      <3>3. timed \in NowPlayings
        BY <2>2 DEF NowPlayings, PlaybackFromSpeed
      <3>4. \A x : /\ Named(now_playing, x) => Named(timed, x)
                   /\ InFull(now_playing, x) => InFull(timed, x)
        BY <2>2, PlaybackKeepsName
      <3>5. named = IF identity_from_notification THEN timed ELSE ApplyItemFields(item, timed)
        BY <1>2, <2>2
      <3> HIDE DEF timed, named, item, f
      <3>6. Identified(inbox', kodi', timed, identity_from_notification)
        BY <1>2, <3>4, Zenon DEF Identified
      <3>7. ~identity_from_notification /\ item = NoItem => named = timed
        <4>1. ApplyItemFields(NoItem, timed) = timed
          BY <3>3, KodiAssumption DEF ApplyItemFields, NowPlayings, Filled, ShowOf
        <4>. QED  BY <3>5, <4>1
      <3>8. CASE identity_from_notification \/ item = NoItem
        <4>1. named = timed
          BY <3>5, <3>7, <3>8
        <4>2. HeardInv'
          BY <1>2, <2>1, <3>1, <3>6, <4>1, Zenon DEF HeardInv
        <4>3. ShownInv'
          <5> SUFFICES ASSUME Undisturbed' PROVE Agrees(timed, kodi)
            BY <1>1, <3>1, <4>1 DEF ShownInv
          <5>1. Undisturbed /\ f.data.item = kodi.item /\ ~Among(Moves, inbox')
            BY <1>2, <3>1 DEF Undisturbed
          <5>2. kodi.item # NoItem /\ props = [speed |-> kodi.speed, ok |-> TRUE]
            BY <1>4, <2>1, <2>4, <5>1 DEF PollInv
          <5>3. timed.playback = PlaybackFromSpeed(kodi.speed)
            <6>1. props.ok /\ props.speed = kodi.speed
              BY <5>2
            <6>. QED  BY <2>2, <6>1, PlaybackKeepsName DEF timed
          <5>4. ~Among(Starts, inbox')
            BY <5>1 DEF Among, Moves, Starts
          <5>5. Named(timed, kodi.item) /\ (identity_from_notification => InFull(timed, kodi.item))
            BY <1>1, <3>6, <5>4, Zenon DEF Identified
          <5>6. ~identity_from_notification => kodi.item \in AddonItems
            BY <3>2, <3>8, <5>1, <5>2
          <5>. QED  BY <5>2, <5>3, <5>5, <5>6 DEF Agrees, Named, InFull
        <4>. QED  BY <1>5, <1>6, <4>2, <4>3
      <3>9. CASE ~identity_from_notification /\ item # NoItem
        <4>1. item = f.data.item /\ named = ApplyItemFields(item, timed)
          BY <3>2, <3>5, <3>9
        <4>2. ASSUME Named(timed, item)
              PROVE  named \in NowPlayings /\ InFull(named, item)
                     /\ named.playback = timed.playback
          BY <3>2, <3>3, <3>9, <4>1, <4>2, FieldsName
        <4>3. ASSUME NEW i \in DOMAIN inbox', inbox'[i].kind = "OnSpeedChanged",
                     ~Within(inbox', 0, i, Starts)
              PROVE  Named(named, inbox'[i].data.item)
          <5>1. inbox'[i].data.item = item
            BY <1>1, <1>3, <1>4, <4>1, <4>3, HeadTells DEF HeardInv, f
          <5>2. Named(timed, inbox'[i].data.item)
            BY <3>6, <4>3, Zenon DEF Identified
          <5>. QED  BY <4>2, <5>1, <5>2, InFullNamed
        <4>4. ASSUME ~Among(Starts, inbox')
              PROVE  kodi.item = item /\ Named(timed, item)
          <5>1. f.data.item = kodi.item
            BY <1>1, <1>3, <1>4, <4>4, HeadTells DEF HeardInv, f
          <5>2. Named(timed, kodi'.item)
            BY <3>6, <4>4, Zenon DEF Identified
          <5>. QED  BY <1>1, <4>1, <5>1, <5>2
        <4>5. HeardInv'
          <5>1. ~Among(Starts, inbox') => Named(named, kodi'.item)
            BY <1>1, <4>2, <4>4, InFullNamed
          <5>2. Identified(inbox', kodi', named, FALSE)
            BY <4>3, <5>1, Zenon DEF Identified
          <5>3. identity_from_notification' = FALSE
            BY <2>1, <2>2, <3>9
          <5>. QED  BY <1>2, <3>1, <5>2, <5>3, Zenon DEF HeardInv
        <4>6. ShownInv'
          <5> SUFFICES ASSUME Undisturbed' PROVE Agrees(named, kodi)
            BY <1>1, <3>1 DEF ShownInv
          <5>1. Undisturbed /\ ~Among(Moves, inbox')
            BY <1>2, <3>1 DEF Undisturbed
          <5>2. kodi.item # NoItem /\ props = [speed |-> kodi.speed, ok |-> TRUE]
            BY <1>4, <2>1, <2>4, <5>1 DEF PollInv
          <5>3. timed.playback = PlaybackFromSpeed(kodi.speed)
            <6>1. props.ok /\ props.speed = kodi.speed
              BY <5>2
            <6>. QED  BY <2>2, <6>1, PlaybackKeepsName DEF timed
          <5>4. ~Among(Starts, inbox')
            BY <5>1 DEF Among, Moves, Starts
          <5>. QED  BY <4>2, <4>4, <5>2, <5>3, <5>4 DEF Agrees, InFull
        <4>. QED  BY <1>5, <1>6, <4>5, <4>6
      <3>. QED  BY <3>8, <3>9
    <2>. QED  BY <2>3, <2>4
  <1>. QED  BY <1>8, <1>9

\* A poll that is given up promises nothing but the volume it began with.
LEMMA PlayPollFails ==
    ASSUME LinkTypes, BooleanTypes, PlayInv, PollCallFails
    PROVE  PlayInv'
  <1>1. /\ inbox' = UnawaitedFrames(inbox) /\ call' = "none" /\ poll_abandoned' = TRUE
        /\ UNCHANGED <<kodi, ws, trackVars, tolerate>> /\ pc = "receive"
    BY DEF PollCallFails, EndCall, ThreadFrame, kodiVars
  <1>2. ~tolerate => pc' = "connect_failed"
    BY DEF PollCallFails, PollReturns, PollSurvives, CountsAsTimeout, Goto
  <1> SUFFICES ASSUME ws = "open" PROVE (HeardInv /\ VolumeInv /\ PollInv /\ ShownInv)'
    BY <1>1 DEF PlayInv
  <1>3. HeardInv /\ VolumeInv
    BY DEF PlayInv
  <1>4. /\ HeardInv'
        /\ \A kinds \in {Starts, Moves, Sounds} : Among(kinds, inbox) => Among(kinds, inbox')
    BY <1>1, <1>3, NotificationsKept DEF LinkTypes, BooleanTypes, SameNotifications, trackVars
  <1>5. VolumeInv'
    BY <1>1, <1>2, <1>3, <1>4 DEF VolumeInv, trackVars
  <1>. QED  BY <1>1, <1>4, <1>5 DEF PollInv, ShownInv

\* Kodi sends no error reply, so an active player has an id.
LEMMA PlayBadPlayer ==
    ASSUME LinkTypes, BooleanTypes, PlayInv, ReceiveBadPlayer
    PROVE  PlayInv'
  <1>1. /\ TakeReply /\ inbox' = Tail(inbox) /\ UNCHANGED <<kodi, ws>> /\ ~Head(inbox).ok
        /\ call' = "none"
    BY DEF ReceiveBadPlayer, ThreadFrame, kodiVars
  <1>2. ws # "open"
    BY <1>1, ReplyTells
  <1>. QED  BY <1>1, <1>2 DEF PlayInv

\* The steps of the thread that are not about playback.
LEMMA LoopAside ==
    ASSUME LinkTypes, PlayInv,
           \/ LoopExit \/ NoTargetFound \/ TargetFound \/ SleepUnwatched \/ ConnectFails
           \/ Primed \/ ConnectedWait \/ PumpDone \/ ActOnReason \/ ReportBusy \/ NothingToSend
           \/ SwapCommands \/ PlayerResolved \/ PlayerUnresolved \/ SendNext \/ AbandonBatch
           \/ BatchSent \/ SwapLibraryRequests \/ NextListing \/ RequestPage \/ ReceivePage
           \/ ReceiveBadPage \/ ReceiveUnpaged \/ ListingCallFails \/ PublishListing
    PROVE  Aside
  <1> USE DEF ThreadFrame, kodiVars, linkVars, callVars, Goto, Aside, SameNotifications
  <1>1. CASE LoopExit \/ NoTargetFound \/ TargetFound \/ SleepUnwatched \/ ConnectFails
             \/ Primed \/ ConnectedWait \/ PumpDone \/ ActOnReason
    <2>1. /\ UNCHANGED <<kodi, trackVars, pollVars, inbox, ws, call>>
          /\ pc \notin {"receive", "connect_failed"}
      BY <1>1 DEF LoopExit, NoTargetFound, TargetFound, SleepUnwatched, ConnectFails, Primed,
                  ConnectedWait, PumpDone, ActOnReason
    <2>. QED  BY <2>1 DEF PlayInv
  <1>2. CASE ReportBusy
    BY <1>2 DEF ReportBusy
  <1>3. CASE NothingToSend \/ AbandonBatch \/ BatchSent \/ SwapLibraryRequests \/ NextListing
             \/ PublishListing \/ SendNext
    <2>1. /\ UNCHANGED <<kodi, trackVars, pollVars, inbox, ws, call>>
          /\ pc \notin {"receive", "connect_failed"}
      BY <1>3 DEF NothingToSend, AbandonBatch, BatchSent, SwapLibraryRequests, NextListing,
                  PublishListing, SendNext
    <2>. QED  BY <2>1 DEF PlayInv
  <1>4. CASE SwapCommands \/ RequestPage
    <2>1. /\ UNCHANGED <<kodi, trackVars, pollVars, inbox, ws>>
          /\ pc \notin {"receive", "connect_failed"}
          /\ \/ pc' = "receive" /\ call' \in {"Resolve", "Page", "Unpaged"}
             \/ UNCHANGED call
      BY <1>4 DEF SwapCommands, RequestPage, SendCall
    <2>2. call = "none"
      BY <2>1 DEF PlayInv
    <2>. QED  BY <2>1, <2>2 DEF PollCalls
  <1>5. CASE PlayerResolved \/ ReceivePage \/ ReceiveBadPage \/ ReceiveUnpaged
    <2>1. /\ UNCHANGED <<kodi, trackVars, pollVars, ws>>
          /\ TakeReply /\ inbox' = Tail(inbox)
          /\ call \in {"Resolve", "Page", "Unpaged"}
          /\ \/ pc' = "receive" /\ call' = "Unpaged"
             \/ call' = "none"
      BY <1>5 DEF PlayerResolved, ReceivePage, ReceiveBadPage, ReceiveUnpaged, SendCall
    <2>2. inbox # <<>> /\ Head(inbox).kind \in Requests /\ pc = "receive"
      BY <2>1 DEF TakeReply, MyReply, Requests
    <2>. QED  BY <2>1, <2>2 DEF PollCalls
  <1>6. CASE PlayerUnresolved \/ ListingCallFails
    <2>1. /\ UNCHANGED <<kodi, trackVars, pollVars, ws>> /\ pc = "receive"
          /\ inbox' = UnawaitedFrames(inbox) /\ call' = "none"
          /\ call \in {"Resolve", "Page", "Unpaged"}
      BY <1>6 DEF PlayerUnresolved, ListingCallFails, EndCall, LibraryCalls
    <2>. QED  BY <2>1 DEF PollCalls
  <1>. QED  BY <1>1, <1>2, <1>3, <1>4, <1>5, <1>6

LEMMA PlayLoop ==
    ASSUME LinkTypes, BooleanTypes, PlayTypes, PlayInv, LoopNext
    PROVE  PlayInv'
  <1>1. CASE PumpFrame \/ ReceiveOther
    <2>1. /\ inbox # <<>> /\ HandleFrame(Head(inbox)) /\ inbox' = Tail(inbox)
          /\ UNCHANGED <<kodi, ws, pc, call, pollVars>>
      BY <1>1 DEF PumpFrame, ReceiveOther, ThreadFrame, kodiVars, callVars
    <2>. QED  BY <2>1, PlayFrame
  <1>2. CASE ConnectFailed \/ Disconnect
    <2>1. ws' # "open" /\ UNCHANGED call /\ pc # "receive"
      BY <1>2 DEF ConnectFailed, Disconnect, CloseSocket, callVars
    <2>. QED  BY <2>1, PlayClosed
  <1>3. CASE ConnectSucceeds \/ StartPoll
    BY <1>3, PlayPollBegins
  <1>4. CASE ReceiveApp \/ ReceivePlayers \/ ReceiveProps
    BY <1>4, PlayPollGoesOn
  <1>5. CASE ReceiveNoPlayers \/ ReceiveItem
    BY <1>5, PlayPollEnds
  <1>6. CASE ReceiveBadPlayer
    BY <1>6, PlayBadPlayer
  <1>7. CASE PollCallFails
    BY <1>7, PlayPollFails
  <1>8. CASE \/ LoopExit \/ NoTargetFound \/ TargetFound \/ SleepUnwatched \/ ConnectFails
             \/ Primed \/ ConnectedWait \/ PumpDone \/ ActOnReason \/ ReportBusy
             \/ NothingToSend \/ SwapCommands \/ PlayerResolved \/ PlayerUnresolved
             \/ SendNext \/ AbandonBatch \/ BatchSent \/ SwapLibraryRequests \/ NextListing
             \/ RequestPage \/ ReceivePage \/ ReceiveBadPage \/ ReceiveUnpaged
             \/ ListingCallFails \/ PublishListing
    <2>1. Aside
      BY <1>8, LoopAside
    <2>. QED  BY <2>1, PlayAside
  <1>. QED
    BY <1>1, <1>2, <1>3, <1>4, <1>5, <1>6, <1>7, <1>8 DEF LoopNext

LEMMA PlayStep ==
    ASSUME BadReplies = FALSE, TypeParts, PlayInv, [Next]_vars
    PROVE  PlayInv'
  <1>0. LinkTypes /\ BooleanTypes /\ PlayTypes
    BY DEF TypeParts
  <1>1. CASE LoopNext
    BY <1>0, <1>1, PlayLoop
  <1>2. CASE KodiNext
    BY <1>0, <1>2, PlayKodi
  <1>3. CASE OthersNext
    <2>1. UNCHANGED <<kodiVars, linkVars>>
      BY <1>3 DEF OthersNext, Start, RequestStop, JoinThread, TriggerReconnect, EnqueueCommand,
                  EnqueueLibraryRequest
    <2>2. /\ UNCHANGED <<callVars, trackVars, pollVars>>
          /\ UNCHANGED pc \/ (pc = "idle" /\ pc' = "top") \/ (pc = "exited" /\ pc' = "idle")
      BY <1>3, OthersThread
    <2>3. Aside
      BY <2>1, <2>2 DEF Aside, SameNotifications, PlayInv, kodiVars, linkVars, callVars
    <2>. QED  BY <1>0, <2>3, PlayAside
  <1>4. CASE UNCHANGED vars
    <2>1. Aside
      BY <1>4 DEF Aside, SameNotifications, PlayInv, vars, kodiVars, linkVars, callVars
    <2>. QED  BY <1>0, <2>1, PlayAside
  <1>. QED  BY <1>1, <1>2, <1>3, <1>4 DEF Next

\* NowPlayingAgrees for every set of items, volumes and bounds, as long as
\* Kodi answers a poll with a result and not with an error.
THEOREM NowPlayingAgreesHolds ==
    ASSUME BadReplies = FALSE
    PROVE  Spec => []NowPlayingAgrees
<1>1. Init => PlayInv
  BY DEF Init, PlayInv
<1>2. TypeParts /\ PlayInv /\ [Next]_vars => PlayInv'
  BY PlayStep
<1>3. PlayInv => NowPlayingAgrees
  <2> SUFFICES ASSUME PlayInv, Settled PROVE NowPlayingAgrees
    BY DEF NowPlayingAgrees
  <2>1. /\ pc = "wait" /\ ws = "open" /\ inbox = <<>> /\ call = "none"
        /\ ~needs_immediate_poll /\ ~poll_abandoned
    BY DEF Settled, PlayInv
  <2>2. ~Among(Moves, inbox) /\ ~Among(Sounds, inbox)
    BY <2>1 DEF Among
  <2>3. volume = kodi.volume
    BY <2>1, <2>2 DEF PlayInv, VolumeInv
  <2>4. Agrees(now_playing, kodi)
    BY <2>1, <2>2 DEF PlayInv, ShownInv, Undisturbed, PollCalls
  <2>. QED  BY <2>3, <2>4 DEF NowPlayingAgrees, Agrees
<1>. QED
  BY <1>1, <1>2, <1>3, TypePartsInit, TypePartsStep, PTL DEF Spec
=============================================================================
