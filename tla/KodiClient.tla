----------------------------- MODULE KodiClient -----------------------------
(***************************************************************************)
(* The Kodi module's connection manager (core/kodi_client.cpp).  One       *)
(* thread runs ConnectionLoop() and owns the WebSocket; the UI thread      *)
(* queues playback commands and library requests.  The thread correlates   *)
(* its own calls with Kodi's replies by id while it applies notifications  *)
(* that arrive in between, so a step is one frame, one send or one wait.   *)
(*                                                                         *)
(* Kodi is external: it changes what it plays whenever it likes, pushes a  *)
(* notification when it does, and answers requests one at a time and in    *)
(* order, as late as it likes.  A frame carries Kodi's state at the moment *)
(* it was sent.  Instead of numeric ids a request is "awaited" while the   *)
(* running Call() waits for it and "other" once nobody does.  Identity is  *)
(* abstracted to a title and a show, time to the choice of when a wait,    *)
(* a call or a command's age runs out.  Resolving a target is the subject  *)
(* of KodiDiscovery and merging the pages of a listing that of             *)
(* KodiListing; here a target resolves or does not, and a page is followed *)
(* by another one or not.                                                  *)
(***************************************************************************)
EXTENDS Naturals, Sequences, ConnectionWake, RetryBackoff

CONSTANTS Items,                       \* what Kodi can play
          NoItem,                      \* nothing, an empty title or show
          Episodes,                    \* the items that belong to a show
          AddonItems,                  \* the items Player.GetItem leaves blank
          Volumes,                     \* volume and mute settings
          Listings,                    \* the library requests screens make
          UnpagedListings,             \* those without a result_key
          CommandKinds,                \* which kinds of command are issued
          kMaxPendingCommands,
          kMaxPendingLibraryRequests,
          kMaxToleratedPollTimeouts,
          MaxPages,                    \* pages up to kMaxLibraryItems
          BadReplies,                  \* whether Kodi sends error replies
          MaxChanges,                  \* bound: changes of Kodi's state
          MaxCommands,                 \* bound: commands issued
          MaxRequests                  \* bound: library requests issued

ASSUME KodiAssumption ==
    /\ NoItem \notin Items
    /\ Episodes \subseteq Items /\ AddonItems \subseteq Items
    /\ Volumes \subseteq Nat /\ 0 \in Volumes
    /\ UnpagedListings \subseteq Listings
    /\ CommandKinds \subseteq {"player", "stop", "mute", "other"}
    /\ kMaxPendingCommands \in Nat \ {0}
    /\ kMaxPendingLibraryRequests \in Nat \ {0}
    /\ kMaxToleratedPollTimeouts \in Nat \ {0}
    /\ MaxPages \in Nat \ {0}
    /\ BadReplies \in BOOLEAN
    /\ MaxChanges \in Nat /\ MaxCommands \in Nat /\ MaxRequests \in Nat

VARIABLES
    kodi,                        \* Kodi: item, speed and volume
    changes,                     \* how often it changed
    ws,                          \* ws_client_: "none", "open" or "dead"
    requests,                    \* sent and not yet answered by Kodi
    inbox,                       \* frames on their way to the client
    stop,                        \* the task's stop token
    pc,                          \* where the connection thread is
    reason,                      \* what ended the connected loop's last wait
    no_target_delay,             \* no_target_backoff_
    call,                        \* the method Call() waits for, or "none"
    busy_due,                    \* that call has not reached busy_at yet
    state,                       \* state_.state
    now_playing,                 \* state_.now_playing
    volume,                      \* state_.volume and state_.muted
    library_busy,                \* library_busy_ and state_.library_busy
    identity_from_notification,
    needs_immediate_poll,
    stop_seen,                   \* player_stop_count_ moved since Players
    consecutive_poll_timeouts,
    tolerate,                    \* ReconcilePoll()'s tolerate_timeout
    changed,                     \* ReconcilePoll()'s local of that name
    props,                       \* props_text: the speed it reports
    pending_commands,
    batch,                       \* what SendPendingCommands() swapped out
    stale,                       \* how many at the head of batch are too old
    caller,                      \* where SendPendingCommands() returns to
    player_id,                   \* "some", "none", or "unanswered"
    transport_failed,
    pending_library_requests,
    library_batch,               \* SendPendingLibraryRequests()'s batch
    page,                        \* pages merged by the running CallLibrary()
    truncated,                   \* CallLibrary()'s result of that name
    published,                   \* the event the last step published
    shown,                       \* history: what Snapshot() held at the last event
    accepted,                    \* history: commands issued
    issued,                      \* history: library requests issued
    sent, evicted, lost,         \* history: what became of the commands
    silent_polls,                \* history: polls in a row without any answer
    poll_abandoned               \* history: the last poll was not finished

kodiVars == <<kodi, changes>>
linkVars == <<ws, requests, inbox>>
callVars == <<call, busy_due>>
waitVars == <<requested, reason, current_delay, no_target_delay>>
trackVars == <<now_playing, volume, identity_from_notification,
               needs_immediate_poll, stop_seen>>
pollVars == <<consecutive_poll_timeouts, tolerate, changed, props,
              silent_polls, poll_abandoned>>
batchVars == <<batch, stale, caller, player_id, transport_failed, sent, lost>>
queueVars == <<pending_commands, accepted, evicted, pending_library_requests,
               issued>>
listingVars == <<library_batch, page, truncated>>
vars == <<kodiVars, linkVars, stop, pc, waitVars, callVars, state,
          library_busy, trackVars, pollVars, batchVars, queueVars,
          listingVars, published, shown>>

-----------------------------------------------------------------------------
States == {"kDisconnected", "kConnecting", "kConnected", "kError"}

NoEvent == <<"none">>
NowPlayingChanged == <<"now_playing">>
StateChanged(s) == <<"state", s>>
Fetched(request, cut, empty) == <<"fetched", request, cut, empty>>

Silent == published' = NoEvent

Goto(label) == pc' = label

\* SetState(): an event is a transition, not a restatement.
SetState(s) ==
    /\ state' = s
    /\ published' = IF state = s THEN NoEvent ELSE StateChanged(s)

\* What Snapshot() returns to a screen.
Snapshot == <<state, now_playing, volume, library_busy>>

Inactive == [title |-> NoItem, show |-> NoItem, playback |-> "kInactive"]

PlaybackFromSpeed(speed) == IF speed = 0 THEN "kPaused" ELSE "kPlaying"

ShowOf(item) == IF item \in Episodes THEN item ELSE NoItem

Filled(new, old) == IF new = NoItem THEN old ELSE new

\* ApplyItemFields(): blank fields keep their value.
ApplyItemFields(item, np) ==
    [np EXCEPT !.title = Filled(item, @), !.show = Filled(ShowOf(item), @)]

\* What Player.GetItem says of the item: nothing for add-on playback.
GetItem(item) == IF item \in AddonItems THEN NoItem ELSE item

-----------------------------------------------------------------------------
(* Kodi and the network. *)

Frame(kind, ok, data) == [kind |-> kind, ok |-> ok, data |-> data]

\* What the thread and the user's thread own.
ClientFrame == UNCHANGED <<stop, pc, waitVars, callVars, state, library_busy,
                           trackVars, pollVars, batchVars, queueVars,
                           listingVars>>

\* Kodi changes state and tells every connected client.
KodiChanges(kind, new) ==
    /\ changes < MaxChanges
    /\ changes' = changes + 1
    /\ kodi' = new
    /\ inbox' = IF ws = "open" THEN Append(inbox, Frame(kind, TRUE, new))
                               ELSE inbox
    /\ Silent /\ ClientFrame /\ UNCHANGED <<ws, requests>>

KodiPlays(item) ==
    KodiChanges("OnPlay", [kodi EXCEPT !.item = item, !.speed = 1])

KodiPausesOrResumes ==
    /\ kodi.item # NoItem
    /\ KodiChanges("OnSpeedChanged", [kodi EXCEPT !.speed = 1 - @])

KodiStops ==
    /\ kodi.item # NoItem
    /\ KodiChanges("OnStop", [kodi EXCEPT !.item = NoItem, !.speed = 0])

KodiVolume(v) ==
    /\ v # kodi.volume
    /\ KodiChanges("OnVolumeChanged", [kodi EXCEPT !.volume = v])

\* Kodi answers the oldest request, with its state at this moment.
KodiAnswers ==
    /\ requests # <<>>
    /\ requests' = Tail(requests)
    /\ \E ok \in (IF BadReplies THEN BOOLEAN ELSE {TRUE}) :
            inbox' = Append(inbox, Frame(Head(requests), ok, kodi))
    /\ Silent /\ ClientFrame /\ UNCHANGED <<kodiVars, ws>>

\* The transport fails; the thread finds out at its next send or receive.
LinkDies ==
    /\ ws = "open"
    /\ ws' = "dead" /\ requests' = <<>> /\ inbox' = <<>>
    /\ Silent /\ ClientFrame /\ UNCHANGED kodiVars

-----------------------------------------------------------------------------
(* The other threads: Start(), Stop(), TriggerReconnect(), the commands     *)
(* and the library requests.                                                *)

Start ==
    /\ pc = "idle"
    /\ Goto("top")
    /\ Silent
    /\ UNCHANGED <<kodiVars, linkVars, stop, waitVars, callVars, state,
                   library_busy, trackVars, pollVars, batchVars, queueVars,
                   listingVars>>

RequestStop ==
    /\ pc # "idle" /\ ~stop
    /\ stop' = TRUE
    /\ Silent
    /\ UNCHANGED <<kodiVars, linkVars, pc, waitVars, callVars, state,
                   library_busy, trackVars, pollVars, batchVars, queueVars,
                   listingVars>>

JoinThread ==
    /\ stop /\ pc = "exited"
    /\ stop' = FALSE
    /\ Goto("idle")
    /\ Silent
    /\ UNCHANGED <<kodiVars, linkVars, waitVars, callVars, state,
                   library_busy, trackVars, pollVars, batchVars, queueVars,
                   listingVars>>

TriggerReconnect ==
    /\ Trigger
    /\ Silent
    /\ UNCHANGED <<kodiVars, linkVars, stop, pc, reason, current_delay,
                   no_target_delay, callVars, state, library_busy, trackVars,
                   pollVars, batchVars, queueVars, listingVars>>

Ids(queue) == {queue[i].id : i \in DOMAIN queue}

CapExceeded(queue) == Len(queue) > kMaxPendingCommands

\* EnqueueCommand(), under PlayPause(), StopPlayback() and the others.
EnqueueCommand(kind) ==
    LET command == [id |-> accepted + 1, kind |-> kind]
        queue   == Append(pending_commands, command)
        over    == CapExceeded(queue)
    IN  /\ accepted < MaxCommands
        /\ accepted' = accepted + 1
        /\ pending_commands' = IF over THEN Tail(queue) ELSE queue
        /\ evicted' = IF over THEN evicted \cup {Head(queue).id} ELSE evicted
        /\ Silent
        /\ UNCHANGED <<kodiVars, linkVars, stop, pc, waitVars, callVars,
                       state, library_busy, trackVars, pollVars, batchVars,
                       pending_library_requests, issued, listingVars>>

IsWaiting(request) ==
    \E i \in DOMAIN pending_library_requests :
        pending_library_requests[i] = request

\* EnqueueLibraryRequest(): a request identical to one that still waits is
\* answered together with it.
EnqueueLibraryRequest(request) ==
    LET queue == Append(pending_library_requests, request)
    IN  /\ issued < MaxRequests
        /\ issued' = issued + 1
        /\ pending_library_requests' =
              IF IsWaiting(request) THEN pending_library_requests
              ELSE IF Len(queue) > kMaxPendingLibraryRequests THEN Tail(queue)
              ELSE queue
        /\ Silent
        /\ UNCHANGED <<kodiVars, linkVars, stop, pc, waitVars, callVars,
                       state, library_busy, trackVars, pollVars, batchVars,
                       pending_commands, accepted, evicted, listingVars>>

-----------------------------------------------------------------------------
(* ConnectionLoop() outside a connection. *)

NoTarget == INSTANCE RetryBackoff WITH current_delay <- no_target_delay

ThreadFrame == UNCHANGED <<kodiVars, stop, queueVars>>

LoopExit ==
    /\ pc = "top" /\ stop
    /\ SetState("kDisconnected")
    /\ Goto("exited")
    /\ ThreadFrame
    /\ UNCHANGED <<linkVars, waitVars, callVars, library_busy, trackVars,
                   pollVars, batchVars, listingVars>>

\* ResolveTarget() finds nothing to connect to.
NoTargetFound ==
    /\ pc = "top" /\ ~stop
    /\ SetState("kDisconnected")
    /\ NoTarget!NextDelay
    /\ Goto("sleep")
    /\ ThreadFrame
    /\ UNCHANGED <<linkVars, requested, reason, current_delay, callVars,
                   library_busy, trackVars, pollVars, batchVars, listingVars>>

TargetFound ==
    /\ pc = "top" /\ ~stop
    /\ NoTarget!ResetAttempts
    /\ SetState("kConnecting")
    /\ Goto("connect")
    /\ ThreadFrame
    /\ UNCHANGED <<linkVars, requested, reason, current_delay, callVars,
                   library_busy, trackVars, pollVars, batchVars, listingVars>>

\* Sleep() without watching the queues.
SleepUnwatched ==
    /\ pc = "sleep"
    /\ WaitReturns(stop, FALSE)
    /\ Goto("top")
    /\ Silent /\ ThreadFrame
    /\ UNCHANGED <<linkVars, reason, current_delay, no_target_delay, callVars,
                   state, library_busy, trackVars, pollVars, batchVars,
                   listingVars>>

\* Connect() fails, or a stop was requested meanwhile.
ConnectFails ==
    /\ pc = "connect"
    /\ Goto("connect_failed")
    /\ Silent /\ ThreadFrame
    /\ UNCHANGED <<linkVars, waitVars, callVars, state, library_busy,
                   trackVars, pollVars, batchVars, listingVars>>

\* ConnectAndPrime(): what the last connection knew is forgotten without an
\* event, and the first poll, which tolerates no timeout, begins.
ConnectSucceeds ==
    /\ pc = "connect" /\ ~stop
    /\ ws' = "open" /\ requests' = <<"awaited">> /\ inbox' = <<>>
    /\ now_playing' = Inactive
    /\ identity_from_notification' = FALSE
    /\ tolerate' = FALSE
    /\ call' = "App" /\ busy_due' = FALSE
    /\ Goto("receive")
    /\ Silent /\ ThreadFrame
    /\ UNCHANGED <<waitVars, state, library_busy, volume,
                   needs_immediate_poll, stop_seen, consecutive_poll_timeouts,
                   changed, props, silent_polls, poll_abandoned, batchVars,
                   listingVars>>

CloseSocket == ws' = "none" /\ requests' = <<>> /\ inbox' = <<>>

ConnectFailed ==
    /\ pc = "connect_failed"
    /\ CloseSocket
    /\ library_busy' = FALSE
    /\ SetState("kError")
    /\ NextDelay
    /\ Goto("sleep")
    /\ ThreadFrame
    /\ UNCHANGED <<requested, reason, no_target_delay, callVars, trackVars,
                   pollVars, batchVars, listingVars>>

Primed ==
    /\ pc = "primed"
    /\ ResetAttempts
    /\ SetState("kConnected")
    /\ Goto("wait")
    /\ ThreadFrame
    /\ UNCHANGED <<linkVars, requested, reason, no_target_delay, callVars,
                   library_busy, trackVars, pollVars, batchVars, listingVars>>

\* SetLibraryBusy(false), which is an event if it was set.
ClearLibraryBusy ==
    /\ library_busy' = FALSE
    /\ published' = IF library_busy THEN NowPlayingChanged ELSE NoEvent

\* The connected loop was left: the socket is closed, and the requests of a
\* batch that was under way are gone with it.
Disconnect ==
    /\ pc = "disconnect"
    /\ CloseSocket
    /\ ClearLibraryBusy
    /\ library_batch' = <<>> /\ page' = 0 /\ truncated' = FALSE
    /\ Goto("top")
    /\ ThreadFrame
    /\ UNCHANGED <<waitVars, callVars, state, trackVars, pollVars, batchVars>>

-----------------------------------------------------------------------------
(* The connected loop. *)

WorkPending == pending_commands # <<>> \/ pending_library_requests # <<>>

AfterWait(woken) == IF woken = "kStopRequested" THEN "disconnect" ELSE "pump"

ConnectedWait ==
    LET woken == WakeReason(stop, WorkPending)
    IN  /\ pc = "wait"
        /\ WaitReturns(stop, WorkPending)
        /\ reason' = woken
        /\ Goto(AfterWait(woken))
        /\ Silent /\ ThreadFrame
        /\ UNCHANGED <<linkVars, current_delay, no_target_delay, callVars,
                       state, library_busy, trackVars, pollVars, batchVars,
                       listingVars>>

\* The notification's new identity: OnPlay starts from nothing.
Identity(f) ==
    ApplyItemFields(f.data.item,
        IF f.kind = "OnPlay"
        THEN [now_playing EXCEPT !.title = NoItem, !.show = NoItem]
        ELSE now_playing)

\* Mutant of IsReply: a late reply is discarded without looking at its id.
IsAwaitedReply(f) == f.kind = "awaited"

\* A frame with an id answers some request of ours.
IsReply(f) == f.kind \in {"awaited", "other"}

\* Mutant of StopEvent: only a stop of running playback is told.
StopEventIfPlaying ==
    IF now_playing.playback = "kPlaying" THEN NowPlayingChanged ELSE NoEvent

\* OnStop is told unless nothing was shown anyway.
StopEvent == IF now_playing = Inactive THEN NoEvent ELSE NowPlayingChanged

\* SetLibraryBusy(false) on any reply, then HandleNotification(): one frame
\* applied to the snapshot, with the event it publishes.
HandleFrame(f) ==
    /\ library_busy' = (library_busy /\ ~IsReply(f))
    /\ CASE f.kind = "OnVolumeChanged" ->
              /\ volume' = f.data.volume
              /\ published' = NowPlayingChanged
              /\ UNCHANGED <<now_playing, identity_from_notification,
                             needs_immediate_poll, stop_seen>>
         [] f.kind = "OnStop" ->
              /\ stop_seen' = TRUE
              /\ now_playing' = Inactive
              /\ identity_from_notification' = FALSE
              /\ published' = StopEvent
              /\ UNCHANGED <<volume, needs_immediate_poll>>
         [] f.kind \in {"OnPlay", "OnSpeedChanged"} ->
              /\ now_playing' = [Identity(f) EXCEPT
                                    !.playback = PlaybackFromSpeed(f.data.speed)]
              /\ identity_from_notification' = TRUE
              /\ needs_immediate_poll' = TRUE
              /\ published' = NowPlayingChanged
              /\ UNCHANGED <<volume, stop_seen>>
         [] OTHER ->
              /\ published' = IF library_busy' # library_busy
                              THEN NowPlayingChanged ELSE NoEvent
              /\ UNCHANGED trackVars

\* PumpNotifications() takes every frame that is already there; the bound
\* of 32 on one drain is never reached here.
PumpFrame ==
    /\ pc = "pump" /\ inbox # <<>>
    /\ HandleFrame(Head(inbox))
    /\ inbox' = Tail(inbox)
    /\ ThreadFrame
    /\ UNCHANGED <<pc, ws, requests, waitVars, callVars, state, pollVars,
                   batchVars, listingVars>>

PumpDone ==
    /\ pc = "pump" /\ inbox = <<>>
    /\ Goto("commands")
    /\ Silent /\ ThreadFrame
    /\ UNCHANGED <<linkVars, waitVars, callVars, state, library_busy,
                   trackVars, pollVars, batchVars, listingVars>>

\* Reconnect on a trigger, wait again after queued work or when no poll is
\* due.
ActOnReason ==
    /\ pc = "act_on_reason"
    /\ \/ reason = "kTriggered" /\ Goto("disconnect")
       \/ reason = "kCommandPending" /\ Goto("wait")
       \/ reason = "kTimeout" /\ ~needs_immediate_poll /\ Goto("wait")
    /\ Silent /\ ThreadFrame
    /\ UNCHANGED <<linkVars, waitVars, callVars, state, library_busy,
                   trackVars, pollVars, batchVars, listingVars>>

-----------------------------------------------------------------------------
(* Call(): send a request and receive until its reply, the timeout, a dead  *)
(* transport or a stop.  A send that fails ends like a receive that does.   *)

LibraryCalls == {"Page", "Unpaged"}

SendCall(method) ==
    /\ call' = method
    /\ busy_due' = (method \in LibraryCalls)
    /\ requests' = IF ws = "open" THEN Append(requests, "awaited")
                                  ELSE requests
    /\ Goto("receive")

\* Nobody waits for an answer any more.
Unawaited(queue) == [i \in DOMAIN queue |-> "other"]
UnawaitedFrames(frames) ==
    [i \in DOMAIN frames |->
        IF frames[i].kind = "awaited" THEN [frames[i] EXCEPT !.kind = "other"]
                                      ELSE frames[i]]

\* How a Call() may end without its reply.
Outcome == IF stop THEN "stop" ELSE IF ws = "dead" THEN "dead" ELSE "timeout"

EndCall ==
    /\ call' = "none" /\ busy_due' = FALSE
    /\ requests' = Unawaited(requests)
    /\ inbox' = UnawaitedFrames(inbox)
    /\ UNCHANGED ws

\* The reply to this call is next.
MyReply == inbox # <<>> /\ Head(inbox).kind = "awaited"

\* A frame that is not this call's reply.
ReceiveOther ==
    /\ pc = "receive" /\ ~stop /\ inbox # <<>> /\ ~MyReply
    /\ HandleFrame(Head(inbox))
    /\ inbox' = Tail(inbox)
    /\ ThreadFrame
    /\ UNCHANGED <<pc, ws, requests, waitVars, callVars, state, pollVars,
                   batchVars, listingVars>>

\* library_busy_after_ passed without a reply to a library request.
ReportBusy ==
    /\ pc = "receive" /\ ~stop /\ ws = "open"
    /\ busy_due /\ ~library_busy
    /\ busy_due' = FALSE
    /\ library_busy' = TRUE
    /\ published' = NowPlayingChanged
    /\ ThreadFrame
    /\ UNCHANGED <<linkVars, pc, waitVars, call, state, trackVars, pollVars,
                   batchVars, listingVars>>

-----------------------------------------------------------------------------
(* ReconcilePoll() *)

PollCalls == {"App", "Players", "Props", "Item"}

NoProps == [speed |-> 0, ok |-> FALSE]

\* The loop's poll, when asked for or when reconcile_interval_ is over.
StartPoll ==
    /\ pc = "act_on_reason" /\ reason = "kTimeout"
    /\ needs_immediate_poll' = FALSE
    /\ tolerate' = TRUE
    /\ SendCall("App")
    /\ Silent /\ ThreadFrame
    /\ UNCHANGED <<ws, inbox, waitVars, state, library_busy, now_playing,
                   volume, identity_from_notification, stop_seen,
                   consecutive_poll_timeouts, changed, props, silent_polls,
                   poll_abandoned, batchVars, listingVars>>

\* Where a poll returns to, with the answer whether the link is alive.
PollReturns(alive) ==
    /\ changed' = FALSE /\ props' = NoProps
    /\ Goto(IF tolerate THEN IF alive THEN "wait" ELSE "disconnect"
                        ELSE IF alive THEN "primed" ELSE "connect_failed")

PublishIf(anything) == published' = IF anything THEN NowPlayingChanged
                                                ELSE NoEvent

\* What every reply does first: it is consumed, and Kodi is not stuck.
TakeReply ==
    /\ pc = "receive" /\ ~stop /\ MyReply
    /\ library_busy' = FALSE

\* Application.GetProperties: volume, and proof that Kodi answers.
ReceiveApp ==
    LET f == Head(inbox)
    IN  /\ call = "App" /\ TakeReply
        /\ consecutive_poll_timeouts' = 0 /\ silent_polls' = 0
        /\ volume' = IF f.ok THEN f.data.volume ELSE volume
        /\ changed' = (changed \/ volume' # volume)
        /\ inbox' = Tail(inbox)
        /\ SendCall("Players")
        /\ PublishIf(library_busy)
        /\ ThreadFrame
        /\ UNCHANGED <<ws, waitVars, state, now_playing, props, tolerate,
                       identity_from_notification, needs_immediate_poll,
                       stop_seen, poll_abandoned, batchVars, listingVars>>

\* Player.GetActivePlayers: nothing plays, so nothing is shown.
ReceiveNoPlayers ==
    LET f == Head(inbox)
    IN  /\ call = "Players" /\ TakeReply
        /\ f.data.item = NoItem \/ ~f.ok
        /\ now_playing' = Inactive
        /\ identity_from_notification' = FALSE
        /\ inbox' = Tail(inbox)
        /\ call' = "none" /\ poll_abandoned' = FALSE
        /\ PollReturns(TRUE)
        /\ PublishIf(changed \/ now_playing # Inactive \/ library_busy)
        /\ ThreadFrame
        /\ UNCHANGED <<ws, requests, waitVars, busy_due, state, volume,
                       needs_immediate_poll, stop_seen, tolerate,
                       consecutive_poll_timeouts, silent_polls, batchVars,
                       listingVars>>

\* An active player without a usable id ends the poll early.
ReceiveBadPlayer ==
    LET f == Head(inbox)
    IN  /\ call = "Players" /\ TakeReply
        /\ f.data.item # NoItem /\ ~f.ok
        /\ inbox' = Tail(inbox)
        /\ call' = "none" /\ poll_abandoned' = TRUE
        /\ PollReturns(TRUE)
        /\ PublishIf(changed \/ library_busy)
        /\ ThreadFrame
        /\ UNCHANGED <<ws, requests, waitVars, busy_due, state, trackVars,
                       tolerate, consecutive_poll_timeouts, silent_polls,
                       batchVars, listingVars>>

ReceivePlayers ==
    LET f == Head(inbox)
    IN  /\ call = "Players" /\ TakeReply
        /\ f.data.item # NoItem /\ f.ok
        /\ stop_seen' = FALSE
        /\ inbox' = Tail(inbox)
        /\ SendCall("Props")
        /\ PublishIf(library_busy)
        /\ ThreadFrame
        /\ UNCHANGED <<ws, waitVars, state, now_playing, volume,
                       identity_from_notification, needs_immediate_poll,
                       pollVars, batchVars, listingVars>>

\* Player.GetProperties: kept until the item is known too.
ReceiveProps ==
    LET f == Head(inbox)
    IN  /\ call = "Props" /\ TakeReply
        /\ props' = [speed |-> f.data.speed,
                     ok    |-> f.ok /\ f.data.item # NoItem]
        /\ inbox' = Tail(inbox)
        /\ SendCall("Item")
        /\ PublishIf(library_busy)
        /\ ThreadFrame
        /\ UNCHANGED <<ws, waitVars, state, trackVars, tolerate, changed,
                       consecutive_poll_timeouts, silent_polls,
                       poll_abandoned, batchVars, listingVars>>

\* Mutant of RepliesOutdated: the replies are always used.
NeverOutdated == FALSE

\* Playback stopped while the two replies were in flight.
RepliesOutdated == stop_seen

\* Player.GetItem: the replies are applied, the identity only if no
\* notification supplied one; or they are discarded and the poll repeated.
ReceiveItem ==
    LET f     == Head(inbox)
        timed == IF props.ok
                 THEN [now_playing EXCEPT
                          !.playback = PlaybackFromSpeed(props.speed)]
                 ELSE now_playing
        named == IF f.ok /\ ~identity_from_notification
                 THEN ApplyItemFields(GetItem(f.data.item), timed)
                 ELSE timed
    IN  /\ call = "Item" /\ TakeReply
        /\ now_playing' = IF RepliesOutdated THEN now_playing ELSE named
        /\ needs_immediate_poll' = (needs_immediate_poll \/ RepliesOutdated)
        /\ inbox' = Tail(inbox)
        /\ call' = "none" /\ poll_abandoned' = FALSE
        /\ PollReturns(TRUE)
        /\ PublishIf(changed \/ now_playing' # now_playing \/ library_busy)
        /\ ThreadFrame
        /\ UNCHANGED <<ws, requests, waitVars, busy_due, state, volume,
                       identity_from_notification, stop_seen, tolerate,
                       consecutive_poll_timeouts, silent_polls, batchVars,
                       listingVars>>

\* A timeout on an open link, in a poll that tolerates them.
CountsAsTimeout == tolerate /\ Outcome = "timeout"

\* Mutant of PollSurvives: a dead link is not told from a slow Kodi.
SurvivesDead(timeouts) ==
    tolerate /\ (CountsAsTimeout => timeouts < kMaxToleratedPollTimeouts)

\* What call_failed() returns: whether the connection is kept.
PollSurvives(timeouts) ==
    CountsAsTimeout /\ timeouts < kMaxToleratedPollTimeouts

\* An abandoned poll leaves what it had read in the snapshot.
PublishWhatWasRead == PublishIf(changed)

\* call_failed(): what was read stays and is published; a timeout on an
\* open link is tolerated a few times.
PollCallFails ==
    LET plus(n, counts) == IF counts THEN n + 1 ELSE n
    IN  /\ pc = "receive" /\ call \in PollCalls
        /\ EndCall
        /\ consecutive_poll_timeouts' =
              plus(consecutive_poll_timeouts, CountsAsTimeout)
        /\ silent_polls' =
              plus(silent_polls, CountsAsTimeout /\ call = "App")
        /\ poll_abandoned' = TRUE
        /\ PollReturns(PollSurvives(consecutive_poll_timeouts'))
        /\ PublishWhatWasRead
        /\ ThreadFrame
        /\ UNCHANGED <<waitVars, state, library_busy, trackVars, tolerate,
                       batchVars, listingVars>>

-----------------------------------------------------------------------------
(* SendPendingCommands(), called by the loop and before each page of a      *)
(* listing.                                                                 *)

IsPlayerCommand(c) == c.kind \in {"player", "stop"}

\* keep_when_stale: StopPlayback() and ToggleMute().
KeepWhenStale(c) == c.kind \in {"stop", "mute"}

\* What follows SendPendingCommands() at its two call sites.
CommandsSent(from) == Goto(IF from = "commands" THEN "library"
                                                ELSE "page_send")

NothingToSend ==
    /\ pc \in {"commands", "list_commands"} /\ pending_commands = <<>>
    /\ CommandsSent(pc)
    /\ Silent /\ ThreadFrame
    /\ UNCHANGED <<linkVars, waitVars, callVars, state, library_busy,
                   trackVars, pollVars, batchVars, listingVars>>

\* Mutant of Swapped: the queue is copied, not swapped.
Copied == pending_commands

\* What the queue holds once the batch is taken.
Swapped == <<>>

\* The batch is taken; a player command needs the active player's id first.
SwapCommands ==
    LET needs_player_id == \E i \in DOMAIN pending_commands :
                              IsPlayerCommand(pending_commands[i])
    IN  /\ pc \in {"commands", "list_commands"} /\ pending_commands # <<>>
        /\ batch' = pending_commands
        /\ pending_commands' = Swapped
        /\ caller' = pc
        /\ player_id' = "none"
        /\ \/ /\ needs_player_id
              /\ SendCall("Resolve")
              /\ UNCHANGED stale
           \/ /\ ~needs_player_id
              /\ stale' \in 0..Len(batch')
              /\ Goto("sending")
              /\ UNCHANGED <<callVars, requests>>
        /\ Silent
        /\ UNCHANGED <<kodiVars, stop, ws, inbox, waitVars, state,
                       library_busy, trackVars, pollVars, transport_failed,
                       sent, lost, accepted, evicted,
                       pending_library_requests, issued, listingVars>>

\* ResolveActivePlayerId() got its answer; only now is the age compared.
PlayerResolved ==
    /\ call = "Resolve" /\ TakeReply
    /\ player_id' = IF Head(inbox).ok /\ Head(inbox).data.item # NoItem
                    THEN "some" ELSE "none"
    /\ stale' \in 0..Len(batch)
    /\ inbox' = Tail(inbox)
    /\ call' = "none"
    /\ Goto("sending")
    /\ PublishIf(library_busy)
    /\ ThreadFrame
    /\ UNCHANGED <<ws, requests, waitVars, busy_due, state, trackVars,
                   pollVars, batch, caller, transport_failed, sent, lost,
                   listingVars>>

PlayerUnresolved ==
    /\ pc = "receive" /\ call = "Resolve"
    /\ player_id' = IF Outcome = "timeout" THEN "unanswered" ELSE "none"
    /\ stale' \in 0..Len(batch)
    /\ EndCall
    /\ Goto("sending")
    /\ Silent /\ ThreadFrame
    /\ UNCHANGED <<waitVars, state, library_busy, trackVars, pollVars, batch,
                   caller, transport_failed, sent, lost,
                   listingVars>>

\* The head of the batch: too old, pointless on a dead transport, without a
\* player to address, sent, or the send that finds the transport dead.
SendNext ==
    LET command == Head(batch)
        keep    == KeepWhenStale(command)
        skipped == \/ ~keep /\ (stale > 0 \/ transport_failed)
                   \/ IsPlayerCommand(command) /\ player_id # "some"
        fails   == ~skipped /\ ws # "open"
    IN  /\ pc = "sending" /\ batch # <<>> /\ ~stop
        /\ batch' = Tail(batch)
        /\ stale' = IF stale > 0 THEN stale - 1 ELSE 0
        /\ transport_failed' = (transport_failed \/ fails)
        /\ IF skipped \/ fails
           THEN lost' = lost \cup {command.id} /\ UNCHANGED <<requests, sent>>
           ELSE /\ sent' = sent \cup {command.id}
                /\ requests' = Append(requests, "other")
                /\ UNCHANGED lost
        /\ Silent /\ ThreadFrame
        /\ UNCHANGED <<pc, ws, inbox, waitVars, callVars, state, library_busy,
                       trackVars, pollVars, caller, player_id, listingVars>>

\* A stop between two sends loses the rest of the batch.
AbandonBatch ==
    /\ pc = "sending" /\ batch # <<>> /\ stop
    /\ lost' = lost \cup Ids(batch)
    /\ batch' = <<>> /\ stale' = 0 /\ transport_failed' = FALSE
    /\ caller' = "commands" /\ player_id' = "none"
    /\ Goto("disconnect")
    /\ Silent /\ ThreadFrame
    /\ UNCHANGED <<linkVars, waitVars, callVars, state, library_busy,
                   trackVars, pollVars, sent, listingVars>>

BatchSent ==
    /\ pc = "sending" /\ batch = <<>>
    /\ IF transport_failed THEN Goto("disconnect") ELSE CommandsSent(caller)
    /\ transport_failed' = FALSE
    /\ caller' = "commands" /\ player_id' = "none"
    /\ Silent /\ ThreadFrame
    /\ UNCHANGED <<linkVars, waitVars, callVars, state, library_busy,
                   trackVars, pollVars, batch, stale, sent, lost,
                   listingVars>>

-----------------------------------------------------------------------------
(* SendPendingLibraryRequests() and CallLibrary() *)

SwapLibraryRequests ==
    /\ pc = "library"
    /\ library_batch' = pending_library_requests
    /\ pending_library_requests' = <<>>
    /\ Goto("library_next")
    /\ Silent
    /\ UNCHANGED <<kodiVars, stop, linkVars, waitVars, callVars, state,
                   library_busy, trackVars, pollVars, batchVars,
                   pending_commands, accepted, evicted, issued, page,
                   truncated>>

\* The next request of the batch, or the end of it, or a stop.
NextListing ==
    /\ pc = "library_next"
    /\ Goto(IF library_batch = <<>> THEN "act_on_reason"
            ELSE IF stop THEN "disconnect" ELSE "list_commands")
    /\ Silent /\ ThreadFrame
    /\ UNCHANGED <<linkVars, waitVars, callVars, state, library_busy,
                   trackVars, pollVars, batchVars, listingVars>>

RequestPage ==
    /\ pc = "page_send"
    /\ SendCall(IF Head(library_batch) \in UnpagedListings THEN "Unpaged"
                                                           ELSE "Page")
    /\ Silent /\ ThreadFrame
    /\ UNCHANGED <<ws, inbox, waitVars, state, library_busy, trackVars,
                   pollVars, batchVars, listingVars>>

\* A page arrived: it was the last, or another follows unless the cap on
\* merged items is reached.
ReceivePage ==
    /\ call = "Page" /\ TakeReply /\ Head(inbox).ok
    /\ page' = page + 1
    /\ \/ Goto("publish_listing") /\ truncated' \in {truncated, page' = MaxPages}
       \/ page' < MaxPages /\ Goto("list_commands") /\ UNCHANGED truncated
    /\ inbox' = Tail(inbox)
    /\ call' = "none" /\ busy_due' = FALSE
    /\ PublishIf(library_busy)
    /\ ThreadFrame
    /\ UNCHANGED <<ws, requests, waitVars, state, trackVars, pollVars,
                   batchVars, library_batch>>

\* A reply without a list: the first page is asked for once more without
\* limits if Kodi sent an error, a later one cuts the listing short.
ReceiveBadPage ==
    /\ call = "Page" /\ TakeReply /\ ~Head(inbox).ok
    /\ inbox' = Tail(inbox)
    /\ truncated' = (page > 0)
    /\ \/ /\ page = 0
          /\ SendCall("Unpaged")
       \/ /\ Goto("publish_listing")
          /\ call' = "none" /\ busy_due' = FALSE
          /\ UNCHANGED requests
    /\ PublishIf(library_busy)
    /\ ThreadFrame
    /\ UNCHANGED <<ws, waitVars, state, trackVars, pollVars, batchVars,
                   library_batch, page>>

ReceiveUnpaged ==
    /\ call = "Unpaged" /\ TakeReply
    /\ page' = IF Head(inbox).ok THEN 1 ELSE 0
    /\ inbox' = Tail(inbox)
    /\ call' = "none" /\ busy_due' = FALSE
    /\ Goto("publish_listing")
    /\ PublishIf(library_busy)
    /\ ThreadFrame
    /\ UNCHANGED <<ws, requests, waitVars, state, trackVars, pollVars,
                   batchVars, library_batch, truncated>>

\* A timeout on an open link publishes what arrived, marked incomplete; a
\* dead link or a stop ends the whole batch.
ListingCallFails ==
    /\ pc = "receive" /\ call \in LibraryCalls
    /\ IF Outcome = "timeout"
       THEN truncated' = TRUE /\ Goto("publish_listing")
       ELSE UNCHANGED truncated /\ Goto("disconnect")
    /\ EndCall
    /\ Silent /\ ThreadFrame
    /\ UNCHANGED <<waitVars, state, library_busy, trackVars, pollVars,
                   batchVars, library_batch, page>>

PublishListing ==
    /\ pc = "publish_listing"
    /\ published' = Fetched(Head(library_batch), truncated, page = 0)
    /\ library_batch' = Tail(library_batch)
    /\ page' = 0 /\ truncated' = FALSE
    /\ Goto("library_next")
    /\ ThreadFrame
    /\ UNCHANGED <<linkVars, waitVars, callVars, state, library_busy,
                   trackVars, pollVars, batchVars>>

-----------------------------------------------------------------------------
Init ==
    /\ kodi \in [item : {NoItem}, speed : {0}, volume : Volumes]
            \cup [item : Items, speed : {0, 1}, volume : Volumes]
    /\ changes = 0
    /\ ws = "none" /\ requests = <<>> /\ inbox = <<>>
    /\ stop = FALSE /\ pc = "idle" /\ reason = "kTimeout"
    /\ requested = FALSE /\ BackoffInit /\ NoTarget!BackoffInit
    /\ call = "none" /\ busy_due = FALSE
    /\ state = "kDisconnected" /\ library_busy = FALSE
    /\ now_playing = Inactive
    /\ volume = 0
    /\ identity_from_notification = FALSE
    /\ needs_immediate_poll = FALSE /\ stop_seen = FALSE
    /\ consecutive_poll_timeouts = 0 /\ tolerate = FALSE
    /\ changed = FALSE /\ props = NoProps
    /\ silent_polls = 0 /\ poll_abandoned = FALSE
    /\ pending_commands = <<>> /\ batch = <<>> /\ stale = 0
    /\ caller = "commands" /\ player_id = "none"
    /\ transport_failed = FALSE
    /\ sent = {} /\ lost = {} /\ evicted = {}
    /\ accepted = 0 /\ issued = 0
    /\ pending_library_requests = <<>> /\ library_batch = <<>>
    /\ page = 0 /\ truncated = FALSE
    /\ published = NoEvent /\ shown = Snapshot

LoopNext ==
    \/ LoopExit \/ NoTargetFound \/ TargetFound \/ SleepUnwatched
    \/ ConnectFails \/ ConnectSucceeds \/ ConnectFailed \/ Primed
    \/ Disconnect \/ ConnectedWait \/ PumpFrame \/ PumpDone \/ ActOnReason
    \/ ReceiveOther \/ ReportBusy
    \/ StartPoll \/ ReceiveApp \/ ReceiveNoPlayers \/ ReceiveBadPlayer
    \/ ReceivePlayers \/ ReceiveProps \/ ReceiveItem \/ PollCallFails
    \/ NothingToSend \/ SwapCommands \/ PlayerResolved \/ PlayerUnresolved
    \/ SendNext \/ AbandonBatch \/ BatchSent
    \/ SwapLibraryRequests \/ NextListing \/ RequestPage \/ ReceivePage
    \/ ReceiveBadPage \/ ReceiveUnpaged \/ ListingCallFails \/ PublishListing

KodiNext ==
    \/ \E item \in Items : KodiPlays(item)
    \/ KodiPausesOrResumes \/ KodiStops
    \/ \E v \in Volumes : KodiVolume(v)
    \/ KodiAnswers \/ LinkDies

OthersNext ==
    \/ Start \/ RequestStop \/ JoinThread \/ TriggerReconnect
    \/ \E kind \in CommandKinds : EnqueueCommand(kind)
    \/ \E request \in Listings : EnqueueLibraryRequest(request)

\* A subscriber reads Snapshot() whenever an event reaches it.
Observe == shown' = IF published' = NoEvent THEN shown ELSE Snapshot'

Next == (LoopNext \/ KodiNext \/ OthersNext) /\ Observe

Spec == Init /\ [][Next]_vars

\* Every call has a timeout and every wait a delay, so the thread goes on,
\* and the reconcile interval ends again and again.
FairSpec ==
    /\ Spec
    /\ WF_vars(LoopNext /\ Observe)
    /\ SF_vars(StartPoll /\ Observe)

-----------------------------------------------------------------------------
(* Correctness *)

Titles == Items \cup {NoItem}
Commands == [id : 1..MaxCommands, kind : CommandKinds]
NowPlayings == [title : Titles, show : Titles,
                playback : {"kInactive", "kPaused", "kPlaying"}]
KodiStates == [item : Titles, speed : {0, 1}, volume : Volumes]
Notifications == {"OnPlay", "OnSpeedChanged", "OnStop", "OnVolumeChanged"}
Pcs == {"idle", "top", "sleep", "connect", "connect_failed", "primed", "wait",
        "pump", "commands", "list_commands", "sending", "library",
        "library_next", "page_send", "publish_listing", "receive",
        "act_on_reason", "disconnect", "exited"}

\* Every variable stays in its type, both queues within their caps, and no
\* library request waits twice.
TypeOK ==
    /\ kodi \in KodiStates /\ changes \in 0..MaxChanges
    /\ ws \in {"none", "open", "dead"}
    /\ requests \in Seq({"awaited", "other"})
    /\ inbox \in Seq([kind : {"awaited", "other"} \cup Notifications,
                      ok : BOOLEAN, data : KodiStates])
    /\ stop \in BOOLEAN /\ requested \in BOOLEAN
    /\ pc \in Pcs /\ reason \in WakeReasons
    /\ current_delay \in InitialDelay..MaxDelay
    /\ no_target_delay \in InitialDelay..MaxDelay
    /\ call \in PollCalls \cup LibraryCalls \cup {"Resolve", "none"}
    /\ busy_due \in BOOLEAN /\ library_busy \in BOOLEAN
    /\ state \in States
    /\ now_playing \in NowPlayings /\ volume \in Volumes
    /\ identity_from_notification \in BOOLEAN
    /\ needs_immediate_poll \in BOOLEAN /\ stop_seen \in BOOLEAN
    /\ consecutive_poll_timeouts \in 0..kMaxToleratedPollTimeouts
    /\ silent_polls \in 0..kMaxToleratedPollTimeouts
    /\ tolerate \in BOOLEAN /\ changed \in BOOLEAN
    /\ poll_abandoned \in BOOLEAN
    /\ props \in [speed : {0, 1}, ok : BOOLEAN]
    /\ pending_commands \in Seq(Commands) /\ batch \in Seq(Commands)
    /\ Len(pending_commands) <= kMaxPendingCommands
    /\ stale \in 0..Len(batch)
    /\ caller \in {"commands", "list_commands"}
    /\ player_id \in {"some", "none", "unanswered"}
    /\ transport_failed \in BOOLEAN
    /\ pending_library_requests \in Seq(Listings)
    /\ Len(pending_library_requests) <= kMaxPendingLibraryRequests
    /\ \A i, j \in DOMAIN pending_library_requests :
          pending_library_requests[i] = pending_library_requests[j] => i = j
    /\ library_batch \in Seq(Listings)
    /\ page \in 0..MaxPages /\ truncated \in BOOLEAN
    /\ accepted \in 0..MaxCommands /\ issued \in 0..MaxRequests
    /\ sent \cup evicted \cup lost \subseteq 1..MaxCommands

\* The thread has applied everything Kodi sent and plans no early poll.
Settled == /\ pc = "wait" /\ ws = "open" /\ inbox = <<>>
           /\ ~needs_immediate_poll /\ ~poll_abandoned

\* What is shown agrees with what Kodi plays as soon as everything Kodi sent
\* has been applied, although a poll is four calls long and playback may
\* start, stop, pause or be replaced between any two of them
\* (player_stop_count_, needs_immediate_poll_, OnPlay's reset of merged
\* fields).  An add-on item met while it was already playing has no title.
NowPlayingAgrees ==
    Settled =>
        /\ volume = kodi.volume
        /\ IF kodi.item = NoItem THEN now_playing = Inactive
           ELSE /\ now_playing.playback = PlaybackFromSpeed(kodi.speed)
                /\ \/ now_playing.title = kodi.item
                      /\ now_playing.show = ShowOf(kodi.item)
                   \/ /\ now_playing.title = NoItem
                      /\ now_playing.show = NoItem
                      /\ kodi.item \in AddonItems

\* A screen that re-reads Snapshot() at every event is never behind while
\* the connected loop waits: no poll, finished or abandoned, and no reply
\* changes the snapshot without an event.
ScreenNotBehind == pc = "wait" => shown = Snapshot

\* "Kodi is busy" is shown only while a request of ours is unanswered, also
\* when the answer comes after the call was given up, and never survives the
\* connection (SetLibraryBusy()).
BusyMeansUnanswered ==
    library_busy => \/ requests # <<>>
                    \/ \E i \in DOMAIN inbox : IsReply(inbox[i])
                    \/ ws = "dead"

\* A link on which Kodi answers nothing at all is given up after at most
\* kMaxToleratedPollTimeouts polls: reaching that many leaves the loop.
SilenceEndsConnection ==
    silent_polls = kMaxToleratedPollTimeouts => pc \notin {"wait", "pump"}

\* In whatever order answers, timeouts, bad replies and disconnects come to
\* library requests: the client is called busy only while one is unanswered,
\* no call on the way leaves a screen behind what was read, and a link that
\* stays silent is not taken for a Kodi that is busy.
LibrarySafe ==
    TypeOK /\ BusyMeansUnanswered /\ ScreenNotBehind /\ SilenceEndsConnection

\* The command queue, with losses that are announced to nobody by design.
Channel == INSTANCE CommandChannel
               WITH waiting <- Ids(pending_commands) \cup Ids(batch),
                    delivered <- sent, superseded <- evicted,
                    owed <- {}, told <- lost

\* Every command meets exactly one fate, is sent at most once and in the
\* order it was issued, and the newest is never the one the cap evicts.
CommandsImplementChannel == Channel!Spec

\* A stop ends the thread whatever it was doing.
StopCompletes == stop ~> pc = "exited"

\* A dead transport is noticed: by a send, or by the next poll.
DeadLinkNoticed == ws = "dead" ~> ws # "dead"

\* KodiClient's thread is never stuck, whichever call is under way: it exits
\* when told to and leaves a connection that has died.
KodiProgress == StopCompletes /\ DeadLinkNoticed
=============================================================================
