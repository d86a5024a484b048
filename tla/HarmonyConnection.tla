-------------------------- MODULE HarmonyConnection --------------------------
(***************************************************************************)
(* The Harmony module's connection manager (core/harmony_connection.cpp):  *)
(* one background thread runs ConnectionLoop(); the UI thread queues       *)
(* commands, Web UI handlers save the hub address and ask for a reconnect, *)
(* and the owner starts and stops the thread.  A step is one critical      *)
(* section or one blocking network call of the loop, so the other threads  *)
(* interleave wherever the code lets them.                                 *)
(*                                                                         *)
(* The hub and the network are external: every handshake, send and receive *)
(* may fail, and a reply may be unparseable.  Time is abstracted: a wait   *)
(* may end by its timeout at any moment, and the part of a batch older     *)
(* than max_pending_command_age_ is chosen when the batch is taken.        *)
(***************************************************************************)
EXTENDS Naturals, Sequences, ConnectionWake, RetryBackoff

CONSTANTS Hosts,                \* the hub addresses a user may configure
          NoHost,               \* the empty hub_host: not configured
          Kinds,                \* the command kinds the UI issues
          Payloads,             \* what a command carries: the hub's own ids
          Activities,           \* activity ids a hub may report
          NoActivity,           \* the empty current_activity_id
          kMaxPendingCommands,  \* the cap on queued commands
          MaxCommands           \* bound: commands issued in a behaviour

ASSUME HarmonyAssumption ==
    /\ Hosts # {} /\ NoHost \notin Hosts
    /\ Kinds \subseteq {"activity", "press", "hold", "release"}
    /\ NoActivity \notin Activities
    /\ kMaxPendingCommands \in Nat \ {0}
    /\ MaxCommands \in Nat

VARIABLES
    hub_host,             \* the stored setting harmony/hub_host
    dirty,                \* history: hub_host was saved and not yet triggered
    stop,                 \* the task's stop token
    pc,                   \* where the connection thread is
    host,                 \* hub_host_setting: the address of this pass
    last_hub_host,        \* last_hub_host_: the address last attempted
    ws,                   \* ws_client_: the hub it is open to, or NoHost
    hub_id,               \* hub_id_: the hub whose id the handshake returned
    caller,               \* who is running FetchCurrentActivity()
    reason,               \* what ended the connected loop's last wait
    pending_commands,     \* pending_commands_
    batch,                \* the commands SendPendingCommands() swapped out
    stale,                \* how many at the head of batch are too old
    started_activity,     \* SendPendingCommands()'s local of that name
    dropped_stale_command,
    transport_failed,
    state,                \* state_.state
    has_config,           \* state_.has_config
    devices,              \* state_.devices/activities: the hub they came from
    current_activity_id,  \* state_.current_activity_id, with its hub
    published,            \* the event the last step published, or "none"
    accepted,             \* history: number of commands issued so far
    delivered,            \* history: ids whose SendText() succeeded
    superseded,           \* history: ids evicted by the cap
    owed,                 \* history: ids lost, no event published since
    told                  \* history: ids lost and covered by an event

settingVars == <<hub_host, dirty>>
loopVars == <<host, last_hub_host, ws, hub_id, caller, reason, current_delay>>
batchVars == <<batch, stale, started_activity, dropped_stale_command,
               transport_failed>>
snapshotVars == <<state, has_config, devices, current_activity_id>>
historyVars == <<delivered, superseded, owed, told>>
vars == <<settingVars, stop, pc, loopVars, requested, pending_commands,
          batchVars, snapshotVars, published, accepted, historyVars>>

-----------------------------------------------------------------------------
States == {"kDisconnected", "kConnecting", "kConnected", "kError"}

Commands == [id : 1..MaxCommands, kind : Kinds, payload : Payloads]

Ids(queue) == {queue[i].id : i \in DOMAIN queue}

\* Nobody else is told anything by this step.
Silent == published' = "none"

Goto(label) == pc' = label

\* SetState(): an event is a transition, not a restatement.
SetState(s) ==
    /\ state' = s
    /\ published' = IF state = s THEN "none" ELSE s

\* Mutant of ClearConfigIfPresent: the current activity survives.
ClearConfigKeepActivity(force_publish) ==
    /\ has_config' = FALSE
    /\ devices' = NoHost
    /\ published' = IF has_config \/ force_publish THEN "ConfigUpdated"
                                                   ELSE "none"
    /\ UNCHANGED <<state, current_activity_id>>

\* Mutant of ClearConfigIfPresent: nobody is told.
ClearConfigQuietly(force_publish) ==
    /\ has_config' = FALSE
    /\ devices' = NoHost
    /\ current_activity_id' = NoActivity
    /\ Silent
    /\ UNCHANGED state

\* ClearConfigIfPresent(force_publish)
ClearConfigIfPresent(force_publish) ==
    /\ IF has_config
       THEN /\ has_config' = FALSE
            /\ devices' = NoHost
            /\ current_activity_id' = NoActivity
       ELSE UNCHANGED <<has_config, devices, current_activity_id>>
    /\ published' = IF has_config \/ force_publish THEN "ConfigUpdated"
                                                   ELSE "none"
    /\ UNCHANGED state

\* Mutant of DropPendingAndReport: the queue is cleared without an event.
DropPendingSilently ==
    /\ pending_commands' = <<>>
    /\ Silent
    /\ UNCHANGED historyVars

\* Every queued command is lost, and one event says so.
DropPendingAndReport ==
    /\ pending_commands' = <<>>
    /\ published' = IF pending_commands # <<>> THEN "CommandDropped"
                                               ELSE "none"
    /\ told' = told \cup Ids(pending_commands)
    /\ UNCHANGED <<delivered, superseded, owed>>

\* Closing ws_client_ and forgetting it.
CloseSocket == ws' = NoHost

-----------------------------------------------------------------------------
(* The owner's thread: Start() and Stop(). *)

Start ==
    /\ pc = "idle"
    /\ Goto("top")
    /\ Silent
    /\ UNCHANGED <<settingVars, stop, loopVars, requested, pending_commands,
                   batchVars, snapshotVars, accepted, historyVars>>

\* Stop() resets task_, whose destructor requests the stop ...
RequestStop ==
    /\ pc # "idle" /\ ~stop
    /\ stop' = TRUE
    /\ Silent
    /\ UNCHANGED <<settingVars, pc, loopVars, requested, pending_commands,
                   batchVars, snapshotVars, accepted, historyVars>>

\* ... and joins the thread.
JoinThread ==
    /\ stop /\ pc = "exited"
    /\ stop' = FALSE
    /\ Goto("idle")
    /\ Silent
    /\ UNCHANGED <<settingVars, loopVars, requested, pending_commands,
                   batchVars, snapshotVars, accepted, historyVars>>

(* Web UI handlers: POST /api/settings, then POST /api/harmony/reconnect. *)

SaveHubHost(h) ==
    /\ hub_host' = h
    /\ dirty' = (dirty \/ h # hub_host)
    /\ Silent
    /\ UNCHANGED <<stop, pc, loopVars, requested, pending_commands, batchVars,
                   snapshotVars, accepted, historyVars>>

TriggerReconnect ==
    /\ Trigger
    /\ dirty' = FALSE
    /\ Silent
    /\ UNCHANGED <<hub_host, stop, pc, loopVars, pending_commands, batchVars,
                   snapshotVars, accepted, historyVars>>

(* The UI thread: StartActivity() and Press/Hold/ReleaseDeviceCommand(). *)

CapExceeded(queue) == Len(queue) > kMaxPendingCommands

\* EnqueueCommand(): the oldest entry makes room once the cap is exceeded.
EnqueueCommand(kind, payload) ==
    LET command == [id |-> accepted + 1, kind |-> kind, payload |-> payload]
        queue   == Append(pending_commands, command)
        over    == CapExceeded(queue)
    IN  /\ accepted < MaxCommands
        /\ accepted' = accepted + 1
        /\ pending_commands' = IF over THEN Tail(queue) ELSE queue
        /\ superseded' = IF over THEN superseded \cup {Head(queue).id}
                                 ELSE superseded
        /\ Silent
        /\ UNCHANGED <<settingVars, stop, pc, loopVars, requested, batchVars,
                       snapshotVars, delivered, owed, told>>

-----------------------------------------------------------------------------
(* The connection thread: ConnectionLoop(). *)

\* What every step of the thread leaves to the other threads.
ThreadFrame == UNCHANGED <<settingVars, stop, accepted>>

\* The outer while loop ends once a stop was requested.
LoopExit ==
    /\ pc = "top" /\ stop
    /\ Goto("final_drain")
    /\ Silent /\ ThreadFrame
    /\ UNCHANGED <<loopVars, requested, pending_commands, batchVars,
                   snapshotVars, historyVars>>

\* The outer loop's condition.
KeepRunning == ~stop

\* Mutant of ConfiguredHost: the setting is read once per process.
CachedHost == IF last_hub_host # NoHost THEN last_hub_host ELSE hub_host

\* The stored address, NoHost when absent or empty.
ConfiguredHost == hub_host

\* The setting is read once per pass, and compared with the last attempt's.
ReadHubHost ==
    /\ pc = "top" /\ KeepRunning
    /\ host' = ConfiguredHost
    /\ Goto(IF ConfiguredHost = NoHost THEN "unconfigured_config"
            ELSE IF ConfiguredHost # last_hub_host THEN "changed_config"
            ELSE "set_connecting")
    /\ Silent /\ ThreadFrame
    /\ UNCHANGED <<last_hub_host, ws, hub_id, caller, reason, current_delay,
                   requested, pending_commands, batchVars, snapshotVars,
                   historyVars>>

\* A hub that was removed or replaced takes its devices with it ...
ForgetConfig ==
    /\ \/ /\ pc = "unconfigured_config"
          /\ ClearConfigIfPresent(FALSE)
          /\ Goto("unconfigured_drop")
       \/ /\ pc = "changed_config"
          /\ ClearConfigIfPresent(TRUE)
          /\ Goto("changed_drop")
    /\ ThreadFrame
    /\ UNCHANGED <<loopVars, requested, pending_commands, batchVars,
                   historyVars>>

\* ... and the commands queued for it, unless there was no earlier hub
\* (ClearPendingCommandsIfAny() and the guard at its two call sites).
ForgetCommands ==
    /\ pc \in {"unconfigured_drop", "changed_drop"}
    /\ Goto(IF pc = "changed_drop" THEN "set_connecting"
                                   ELSE "set_disconnected")
    /\ IF last_hub_host # NoHost
       THEN DropPendingAndReport
       ELSE Silent /\ UNCHANGED <<pending_commands, historyVars>>
    /\ ThreadFrame
    /\ UNCHANGED <<loopVars, requested, batchVars, snapshotVars>>

SetDisconnected ==
    /\ pc = "set_disconnected"
    /\ SetState("kDisconnected")
    /\ Goto("unconfigured_sleep")
    /\ ThreadFrame
    /\ UNCHANGED <<has_config, devices, current_activity_id, loopVars,
                   requested, pending_commands, batchVars, historyVars>>

\* Sleep() without watching the queue, while unconfigured or backing off.
SleepUnwatched ==
    /\ pc \in {"unconfigured_sleep", "backoff_sleep"}
    /\ WaitReturns(stop, FALSE)
    /\ Goto("top")
    /\ Silent /\ ThreadFrame
    /\ UNCHANGED <<loopVars, pending_commands, batchVars, snapshotVars,
                   historyVars>>

SetConnecting ==
    /\ pc = "set_connecting"
    /\ last_hub_host' = host
    /\ SetState("kConnecting")
    /\ Goto("handshake")
    /\ ThreadFrame
    /\ UNCHANGED <<host, ws, hub_id, caller, reason, current_delay,
                   has_config, devices, current_activity_id,
                   requested, pending_commands, batchVars, historyVars>>

-----------------------------------------------------------------------------
(* ConnectAndFetchConfig(), one step per blocking call. *)

\* Mutant of FailConnect: an early return that forgets the socket.
FailConnectLeaking ==
    /\ UNCHANGED ws
    /\ Goto("connect_failed")

\* Leaves the connect attempt: whatever was opened is closed.
FailConnect ==
    /\ CloseSocket
    /\ Goto("connect_failed")

\* The provision-info POST: it fails, is overtaken by a stop, or its answer
\* names no usable hub id (cleared if it named an invalid one).
Handshake ==
    /\ pc = "handshake"
    /\ \/ /\ hub_id' = host
          /\ ~stop
          /\ Goto("ws_connect")
          /\ UNCHANGED ws
       \/ /\ hub_id' \in {hub_id, NoHost}
          /\ FailConnect
    /\ Silent /\ ThreadFrame
    /\ UNCHANGED <<host, last_hub_host, caller, reason, current_delay,
                   requested, pending_commands, batchVars, snapshotVars,
                   historyVars>>

\* Connect(); a stop requested meanwhile closes the socket again.
OpenWebSocket ==
    /\ pc = "ws_connect"
    /\ \/ /\ ~stop
          /\ ws' = host
          /\ Goto("config_send")
       \/ FailConnect
    /\ Silent /\ ThreadFrame
    /\ UNCHANGED <<host, last_hub_host, hub_id, caller, reason, current_delay,
                   requested, pending_commands, batchVars, snapshotVars,
                   historyVars>>

SendConfigRequest ==
    /\ pc = "config_send"
    /\ \/ /\ ~stop
          /\ Goto("config_receive")
          /\ UNCHANGED ws
       \/ FailConnect
    /\ Silent /\ ThreadFrame
    /\ UNCHANGED <<host, last_hub_host, hub_id, caller, reason, current_delay,
                   requested, pending_commands, batchVars, snapshotVars,
                   historyVars>>

\* A parsed config is stored before the first current-activity probe runs.
ReceiveConfig ==
    /\ pc = "config_receive"
    /\ \/ /\ devices' = ws
          /\ has_config' = TRUE
          /\ caller' = "connect"
          /\ Goto("activity_send")
          /\ UNCHANGED ws
       \/ /\ FailConnect
          /\ UNCHANGED <<devices, has_config, caller>>
    /\ Silent /\ ThreadFrame
    /\ UNCHANGED <<host, last_hub_host, hub_id, reason, current_delay,
                   state, current_activity_id, requested, pending_commands,
                   batchVars, historyVars>>

-----------------------------------------------------------------------------
(* FetchCurrentActivity(), called from three places. *)

\* How each caller goes on after the result.
ActivityFetched(result) ==
    /\ caller' = "none"
    /\ CASE caller = "connect" ->
              IF result = "kTransportFailed"
              THEN FailConnect
              ELSE Goto("connect_succeeded") /\ UNCHANGED ws
         [] caller = "batch" -> Goto("batch_report") /\ UNCHANGED ws
         [] OTHER ->
              /\ Goto(IF result = "kOk" THEN "wait" ELSE "close")
              /\ UNCHANGED ws

\* Draining what is buffered and sending the request.
SendActivityRequest ==
    /\ pc = "activity_send"
    /\ \/ /\ ~stop
          /\ Goto("activity_receive")
          /\ UNCHANGED <<caller, ws>>
       \/ ActivityFetched("kTransportFailed")
    /\ Silent /\ ThreadFrame
    /\ UNCHANGED <<host, last_hub_host, hub_id, reason, current_delay,
                   requested, pending_commands, batchVars, snapshotVars,
                   historyVars>>

\* One reply: none in time, one that does not parse, or an activity id.
ReceiveActivity ==
    /\ pc = "activity_receive"
    /\ \/ \E result \in {"kTransportFailed", "kParseFailed"} :
            /\ ActivityFetched(result)
            /\ Silent
            /\ UNCHANGED current_activity_id
       \/ \E activity \in Activities :
            /\ ActivityFetched("kOk")
            /\ current_activity_id' = <<ws, activity>>
            /\ published' = IF current_activity_id # <<ws, activity>>
                            THEN "ActivityChanged" ELSE "none"
    /\ ThreadFrame
    /\ UNCHANGED <<host, last_hub_host, hub_id, reason, current_delay,
                   state, has_config, devices, requested, pending_commands,
                   batchVars, historyVars>>

-----------------------------------------------------------------------------
(* ConnectionLoop() after the attempt. *)

ConnectFailed ==
    /\ pc = "connect_failed"
    /\ SetState("kError")
    /\ NextDelay
    /\ Goto("backoff_sleep")
    /\ ThreadFrame
    /\ UNCHANGED <<host, last_hub_host, ws, hub_id, caller, reason,
                   has_config, devices, current_activity_id,
                   requested, pending_commands, batchVars, historyVars>>

ConnectSucceeded ==
    /\ pc = "connect_succeeded"
    /\ SetState("kConnected")
    /\ ResetAttempts
    /\ Goto("publish_config")
    /\ ThreadFrame
    /\ UNCHANGED <<host, last_hub_host, ws, hub_id, caller, reason,
                   has_config, devices, current_activity_id,
                   requested, pending_commands, batchVars, historyVars>>

PublishConfig ==
    /\ pc = "publish_config"
    /\ published' = "ConfigUpdated"
    /\ Goto("check_trigger")
    /\ ThreadFrame
    /\ UNCHANGED <<loopVars, requested, pending_commands, batchVars,
                   snapshotVars, historyVars>>

\* Mutant of TriggerSatisfied: any connection answers any trigger.
AlwaysSatisfied == TRUE

\* A trigger is satisfied by the connection just made only if the setting
\* still is the address that was connected to.
TriggerSatisfied == hub_host = host

\* Under the wake mutex: forget a trigger that is already answered.
DropSatisfiedTrigger ==
    /\ pc = "check_trigger"
    /\ IF TriggerSatisfied THEN ClearTriggerLocked ELSE UNCHANGED requested
    /\ Goto("wait")
    /\ Silent /\ ThreadFrame
    /\ UNCHANGED <<loopVars, pending_commands, batchVars, snapshotVars,
                   historyVars>>

\* The connected loop's Sleep(), which watches the queue as well.
LivenessWait ==
    LET woken == WakeReason(stop, pending_commands # <<>>)
    IN  /\ pc = "wait"
        /\ WaitReturns(stop, pending_commands # <<>>)
        /\ reason' = woken
        /\ Goto(IF woken = "kStopRequested" THEN "close" ELSE "swap")
        /\ Silent /\ ThreadFrame
        /\ UNCHANGED <<host, last_hub_host, ws, hub_id, caller, current_delay,
                       pending_commands, batchVars, snapshotVars, historyVars>>

\* After SendPendingCommands(): reconnect, go on waiting, or probe the hub.
ActOnReason ==
    /\ pc = "act_on_reason"
    /\ \/ /\ reason = "kTriggered"
          /\ Goto("close") /\ UNCHANGED caller
       \/ /\ reason = "kCommandPending"
          /\ Goto("wait") /\ UNCHANGED caller
       \/ /\ reason = "kTimeout"
          /\ caller' = "probe" /\ Goto("activity_send")
    /\ Silent /\ ThreadFrame
    /\ UNCHANGED <<host, last_hub_host, ws, hub_id, reason, current_delay,
                   requested, pending_commands, batchVars, snapshotVars,
                   historyVars>>

Close ==
    /\ pc = "close"
    /\ CloseSocket
    /\ Goto("top")
    /\ Silent /\ ThreadFrame
    /\ UNCHANGED <<host, last_hub_host, hub_id, caller, reason, current_delay,
                   requested, pending_commands, batchVars, snapshotVars,
                   historyVars>>

\* What is still queued when the loop ends is dropped with an event.
FinalDrain ==
    /\ pc = "final_drain"
    /\ DropPendingAndReport
    /\ Goto("final_state")
    /\ ThreadFrame
    /\ UNCHANGED <<loopVars, requested, batchVars, snapshotVars>>

FinalState ==
    /\ pc = "final_state"
    /\ SetState("kDisconnected")
    /\ Goto("exited")
    /\ ThreadFrame
    /\ UNCHANGED <<has_config, devices, current_activity_id, loopVars,
                   requested, pending_commands, batchVars, historyVars>>

-----------------------------------------------------------------------------
(* SendPendingCommands() *)

SwapPending ==
    /\ pc = "swap"
    /\ batch' = pending_commands
    /\ pending_commands' = <<>>
    /\ stale' \in 0..Len(pending_commands)
    /\ Goto("send")
    /\ Silent /\ ThreadFrame
    /\ UNCHANGED <<started_activity, dropped_stale_command, transport_failed,
                   loopVars, requested, snapshotVars, historyVars>>

\* A stop requested between two sends loses the rest of the batch.
AbandonBatch ==
    /\ pc = "send" /\ batch # <<>> /\ stop
    /\ batch' = <<>> /\ stale' = 0
    /\ started_activity' = FALSE
    /\ dropped_stale_command' = FALSE
    /\ transport_failed' = FALSE
    /\ published' = "CommandDropped"
    /\ told' = told \cup owed \cup Ids(batch)
    /\ owed' = {}
    /\ Goto("close")
    /\ ThreadFrame
    /\ UNCHANGED <<delivered, superseded, loopVars, requested,
                   pending_commands, snapshotVars>>

\* The head of the batch is sent, or it is too old, or the transport is
\* known dead; a release is attempted whatever its age and the transport.
SendNext ==
    LET command    == Head(batch)
        is_release == command.kind = "release"
        too_old    == ~is_release /\ stale > 0
        skipped    == ~is_release /\ transport_failed
    IN  /\ pc = "send" /\ batch # <<>> /\ ~stop
        /\ batch' = Tail(batch)
        /\ stale' = IF stale > 0 THEN stale - 1 ELSE 0
        /\ \/ /\ too_old
              /\ dropped_stale_command' = TRUE
              /\ owed' = owed \cup {command.id}
              /\ UNCHANGED <<delivered, started_activity, transport_failed>>
           \/ /\ ~too_old /\ skipped
              /\ owed' = owed \cup {command.id}
              /\ UNCHANGED <<delivered, started_activity, transport_failed,
                             dropped_stale_command>>
           \/ /\ ~too_old /\ ~skipped                  \* SendText() succeeds
              /\ delivered' = delivered \cup {command.id}
              /\ started_activity' =
                    (started_activity \/ command.kind = "activity")
              /\ UNCHANGED <<owed, transport_failed, dropped_stale_command>>
           \/ /\ ~too_old /\ ~skipped                  \* SendText() fails
              /\ transport_failed' = TRUE
              /\ owed' = owed \cup {command.id}
              /\ UNCHANGED <<delivered, started_activity,
                             dropped_stale_command>>
        /\ Silent /\ ThreadFrame
        /\ UNCHANGED <<pc, superseded, told, loopVars, requested,
                       pending_commands, snapshotVars>>

\* The batch is through: refresh the current activity once if one started.
BatchSent ==
    /\ pc = "send" /\ batch = <<>>
    /\ IF started_activity /\ ~stop
       THEN caller' = "batch" /\ Goto("activity_send")
       ELSE UNCHANGED caller /\ Goto("batch_report")
    /\ Silent /\ ThreadFrame
    /\ UNCHANGED <<host, last_hub_host, ws, hub_id, reason, current_delay,
                   requested, pending_commands, batchVars, snapshotVars,
                   historyVars>>

\* Mutant of MustReport: a failed send is not reported.
MustReportStale == dropped_stale_command

\* Mutant of MustReport: a command dropped for its age is not reported.
MustReportFailure == transport_failed

MustReport == dropped_stale_command \/ transport_failed

\* One event per batch, and a failed send counts as a dropped connection.
ReportBatch ==
    /\ pc = "batch_report"
    /\ IF MustReport
       THEN /\ published' = "CommandDropped"
            /\ told' = told \cup owed
            /\ owed' = {}
       ELSE Silent /\ UNCHANGED <<told, owed>>
    /\ Goto(IF transport_failed THEN "close" ELSE "act_on_reason")
    /\ started_activity' = FALSE
    /\ dropped_stale_command' = FALSE
    /\ transport_failed' = FALSE
    /\ ThreadFrame
    /\ UNCHANGED <<batch, stale, delivered, superseded, loopVars, requested,
                   pending_commands, snapshotVars>>

-----------------------------------------------------------------------------
Init ==
    /\ hub_host \in Hosts \cup {NoHost}
    /\ dirty = FALSE /\ requested = FALSE /\ stop = FALSE
    /\ pc = "idle"
    /\ host = NoHost /\ last_hub_host = NoHost
    /\ ws = NoHost /\ hub_id = NoHost
    /\ caller = "none" /\ reason = "kTimeout"
    /\ BackoffInit
    /\ pending_commands = <<>> /\ batch = <<>> /\ stale = 0
    /\ started_activity = FALSE
    /\ dropped_stale_command = FALSE
    /\ transport_failed = FALSE
    /\ state = "kDisconnected" /\ has_config = FALSE
    /\ devices = NoHost /\ current_activity_id = NoActivity
    /\ published = "none"
    /\ accepted = 0
    /\ delivered = {} /\ superseded = {} /\ owed = {} /\ told = {}

\* The connection thread's next step.
LoopNext ==
    \/ LoopExit \/ ReadHubHost \/ ForgetConfig \/ ForgetCommands
    \/ SetDisconnected \/ SleepUnwatched \/ SetConnecting
    \/ Handshake \/ OpenWebSocket \/ SendConfigRequest \/ ReceiveConfig
    \/ SendActivityRequest \/ ReceiveActivity
    \/ ConnectFailed \/ ConnectSucceeded \/ PublishConfig
    \/ DropSatisfiedTrigger \/ LivenessWait \/ ActOnReason \/ Close
    \/ SwapPending \/ AbandonBatch \/ SendNext \/ BatchSent \/ ReportBatch
    \/ FinalDrain \/ FinalState

OwnerNext == Start \/ RequestStop \/ JoinThread

WebNext == TriggerReconnect \/ \E h \in Hosts \cup {NoHost} : SaveHubHost(h)

UserNext == \E kind \in Kinds, payload \in Payloads :
                EnqueueCommand(kind, payload)

Next == LoopNext \/ OwnerNext \/ WebNext \/ UserNext

Spec == Init /\ [][Next]_vars

\* Every network call has a timeout and every wait a delay, so the thread
\* always goes on; users, the Web UI and the owner need not act.
FairSpec == Spec /\ WF_vars(LoopNext)

-----------------------------------------------------------------------------
(* Correctness *)

\* Where the thread holds an open WebSocket.
SocketPcs == {"config_send", "config_receive", "activity_send",
              "activity_receive", "connect_succeeded", "publish_config",
              "check_trigger", "wait", "swap", "send", "batch_report",
              "act_on_reason", "close"}

Pcs == SocketPcs \cup
       {"idle", "top", "unconfigured_config", "unconfigured_drop",
        "set_disconnected", "unconfigured_sleep", "changed_config",
        "changed_drop", "set_connecting", "handshake", "ws_connect",
        "connect_failed", "backoff_sleep", "final_drain", "final_state",
        "exited"}

Events == States \cup {"none", "ConfigUpdated", "CommandDropped",
                       "ActivityChanged"}

\* Every variable stays in its type, and the queue never exceeds its cap.
TypeOK ==
    /\ hub_host \in Hosts \cup {NoHost}
    /\ host \in Hosts \cup {NoHost}
    /\ last_hub_host \in Hosts \cup {NoHost}
    /\ ws \in Hosts \cup {NoHost}
    /\ hub_id \in Hosts \cup {NoHost}
    /\ devices \in Hosts \cup {NoHost}
    /\ current_activity_id \in
          ((Hosts \cup {NoHost}) \X Activities) \cup {NoActivity}
    /\ dirty \in BOOLEAN /\ requested \in BOOLEAN /\ stop \in BOOLEAN
    /\ started_activity \in BOOLEAN /\ dropped_stale_command \in BOOLEAN
    /\ transport_failed \in BOOLEAN /\ has_config \in BOOLEAN
    /\ pc \in Pcs
    /\ caller \in {"none", "connect", "batch", "probe"}
    /\ reason \in WakeReasons
    /\ current_delay \in InitialDelay..MaxDelay
    /\ pending_commands \in Seq(Commands)
    /\ Len(pending_commands) <= kMaxPendingCommands
    /\ batch \in Seq(Commands)
    /\ stale \in 0..Len(batch)
    /\ state \in States
    /\ published \in Events
    /\ accepted \in 0..MaxCommands
    /\ delivered \subseteq 1..MaxCommands
    /\ superseded \subseteq 1..MaxCommands
    /\ owed \subseteq 1..MaxCommands
    /\ told \subseteq 1..MaxCommands

\* The WebSocket is open exactly while the thread is past Connect() and
\* before Close(), always to the address of the current attempt, and every
\* message it carries names the hub whose handshake was answered: no early
\* return of ConnectAndFetchConfig() leaks a socket, and the defensive
\* !ws_client_ branch of SendPendingCommands() is never reached.
SocketMatchesPhase ==
    /\ ws = IF pc \in SocketPcs THEN last_hub_host ELSE NoHost
    /\ pc \in SocketPcs => hub_id = ws /\ ws # NoHost

\* What Snapshot() returns always describes one hub, the one last attempted:
\* switching the address between two passes never leaves devices or a
\* current activity of the previous hub (ClearConfigIfPresent()).
SnapshotOfOneHub ==
    /\ has_config => devices = last_hub_host /\ devices # NoHost
    /\ current_activity_id # NoActivity =>
          has_config /\ current_activity_id[1] = devices

\* Where a pass is already on its way back to reading hub_host again.
Rereading == \/ pc \in {"idle", "exited", "final_drain", "final_state",
                        "top", "close"}
             \/ /\ reason = "kTriggered"
                /\ \/ pc \in {"swap", "send", "batch_report", "act_on_reason"}
                   \/ pc \in {"activity_send", "activity_receive"}
                      /\ caller = "batch"

\* A saved address followed by its reconnect request is never stranded: as
\* long as this pass works on another address than the stored one, the
\* request is still pending, so the next wait of the loop consumes it.  The
\* save may land anywhere, also between the read of hub_host and the end of
\* the connect attempt (DropSatisfiedTrigger).
SaveNotStranded ==
    host # hub_host /\ ~dirty /\ ~Rereading => requested

\* Where SendPendingCommands() is still running.
BatchPcs == {"send", "batch_report"} \cup
            (IF caller = "batch" THEN {"activity_send", "activity_receive"}
                                 ELSE {})

\* No command is lost silently: a command that left the queue without being
\* sent, and was not merely superseded by the cap, is covered by a
\* HarmonyCommandDroppedEvent before SendPendingCommands() returns.
NoSilentLoss == owed # {} => pc \in BatchPcs

\* A stop is honoured: the thread exits whatever it was doing.
StopCompletes == stop ~> pc = "exited"

\* A stored address whose reconnect was requested is eventually attempted,
\* unless the user changes it again or the module is stopped.
SavedHostTried ==
    (pc # "idle" /\ ~dirty) ~> (host = hub_host \/ dirty \/ stop)

\* The connection loop is never stuck in a wait, a probe or a retry: it exits
\* when told to and comes round to the address that was stored last.
HarmonyProgress == StopCompletes /\ SavedHostTried

\* The command queue implements CommandChannel: what waits there is what is
\* queued or in the running batch here.
Channel == INSTANCE CommandChannel
               WITH waiting <- Ids(pending_commands) \cup Ids(batch)

\* Every command handed to EnqueueCommand() meets exactly one fate, commands
\* reach the hub in the order they were issued and at most once, the newest
\* command is never the one the cap evicts, and an event announces every
\* other loss - however enqueueing interleaves with swapping, sending,
\* switching hubs and stopping.
ImplementsChannel == Channel!Spec

\* A loss is announced whatever the hub and the network do.
LossAnnounced == owed # {} ~> owed = {}
=============================================================================
