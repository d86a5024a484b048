--------------------------- MODULE HarmonyProofs ---------------------------
(***************************************************************************)
(* What HarmonyConnection keeps true for every set of hub addresses,       *)
(* commands and activities, every queue cap and every backoff: each proof  *)
(* is an induction over the steps of the connection thread and of the      *)
(* threads that act on it.                                                 *)
(*                                                                         *)
(* Then what its two observers keep true, for every lag of the UI thread:  *)
(* the notification bridge, whose handlers run inside the connection       *)
(* thread's steps, and the devices screen, whose handlers run behind the   *)
(* UI dispatch queue.                                                      *)
(***************************************************************************)
EXTENDS HarmonyConnection, HarmonyNotificationBridge, DevicesScreen, TLAPS

-----------------------------------------------------------------------------
(* Type correctness *)

LEMMA TypeOKInit == Init => TypeOK
  <1> SUFFICES ASSUME Init PROVE TypeOK
    OBVIOUS
  <1>1. /\ dirty \in BOOLEAN /\ requested \in BOOLEAN /\ stop \in BOOLEAN
        /\ started_activity \in BOOLEAN /\ dropped_stale_command \in BOOLEAN
        /\ transport_failed \in BOOLEAN /\ has_config \in BOOLEAN
    BY Zenon DEF Init
  <1> QED
    BY <1>1, HarmonyAssumption, DelayAssumption
     DEF Init, TypeOK, BackoffInit, Pcs, SocketPcs, WakeReasons, States,
         Events

\* The ids in a queue of commands are command ids.
LEMMA IdsTyped ==
    ASSUME NEW queue \in Seq(Commands)
    PROVE  Ids(queue) \subseteq 1..MaxCommands
  <1>1. \A i \in DOMAIN queue : queue[i] \in Commands
    OBVIOUS
  <1>2. \A c \in Commands : c.id \in 1..MaxCommands
    BY DEF Commands
  <1> QED
    BY <1>1, <1>2 DEF Ids

\* Sending, skipping or failing one command of the batch.
LEMMA TypeOKSendNext ==
    ASSUME TypeOK, SendNext
    PROVE  TypeOK'
  <1>1. Head(batch) \in Commands /\ Tail(batch) \in Seq(Commands)
        /\ Len(Tail(batch)) = Len(batch) - 1
    BY DEF TypeOK, SendNext
  <1>2. Head(batch).id \in 1..MaxCommands
    BY <1>1 DEF Commands
  <1>3. batch' \in Seq(Commands) /\ stale' \in 0..Len(batch')
    BY <1>1 DEF TypeOK, SendNext
  <1>4. /\ started_activity' \in BOOLEAN
        /\ dropped_stale_command' \in BOOLEAN
        /\ transport_failed' \in BOOLEAN
    BY Zenon DEF TypeOK, SendNext
  <1>5. owed' \subseteq 1..MaxCommands /\ delivered' \subseteq 1..MaxCommands
    BY <1>2 DEF TypeOK, SendNext
  <1> QED
    BY <1>3, <1>4, <1>5 DEF TypeOK, SendNext, Silent, ThreadFrame, Events,
       settingVars, loopVars, snapshotVars

\* Queueing a command: the queue's type and cap.
LEMMA TypeOKEnqueue ==
    ASSUME TypeOK, NEW kind \in Kinds, NEW payload \in Payloads,
           EnqueueCommand(kind, payload)
    PROVE  TypeOK'
  <1> DEFINE command == [id |-> accepted + 1, kind |-> kind,
                         payload |-> payload]
             queue == Append(pending_commands, command)
  <1> USE HarmonyAssumption
  <1>1. command \in Commands /\ accepted' \in 0..MaxCommands
    BY DEF TypeOK, EnqueueCommand, Commands
  <1>2. queue \in Seq(Commands) /\ Len(queue) = Len(pending_commands) + 1
    BY <1>1 DEF TypeOK
  <1>3. Tail(queue) \in Seq(Commands) /\ Len(Tail(queue)) = Len(queue) - 1
    BY <1>2, SMTT(30)
  <1>4. Head(queue) \in Commands
    BY <1>2 DEF TypeOK
  <1>5. pending_commands' \in Seq(Commands)
        /\ Len(pending_commands') <= kMaxPendingCommands
    BY <1>2, <1>3 DEF TypeOK, EnqueueCommand, CapExceeded
  <1>6. superseded' \subseteq 1..MaxCommands
    BY <1>4 DEF TypeOK, EnqueueCommand, Commands
  <1> QED
    BY <1>1, <1>5, <1>6 DEF TypeOK, EnqueueCommand, Silent, Events,
       settingVars, loopVars, batchVars, snapshotVars

LEMMA TypeOKStep == TypeOK /\ [Next]_vars => TypeOK'
  <1> SUFFICES ASSUME TypeOK, [Next]_vars PROVE TypeOK'
    OBVIOUS
  <1>0. DropPendingAndReport => told' \subseteq 1..MaxCommands
    BY IdsTyped DEF TypeOK, DropPendingAndReport
  <1> USE HarmonyAssumption, DelayAssumption
      DEF TypeOK, Pcs, SocketPcs, WakeReasons, States, Events,
          Goto, Silent, ThreadFrame, settingVars, loopVars, batchVars,
          snapshotVars, historyVars, SetState, CloseSocket, FailConnect
  <1>1. CASE Start
    BY <1>1 DEF Start
  <1>2. CASE RequestStop
    BY <1>2 DEF RequestStop
  <1>3. CASE JoinThread
    <2>1. stop' \in BOOLEAN
      BY <1>3, Zenon DEF JoinThread
    <2> QED
      BY <1>3, <2>1 DEF JoinThread
  <1>4. ASSUME NEW h \in Hosts \cup {NoHost}, SaveHubHost(h) PROVE TypeOK'
    BY <1>4 DEF SaveHubHost
  <1>5. CASE TriggerReconnect
    <2>1. dirty' \in BOOLEAN /\ requested' \in BOOLEAN
      BY <1>5, Zenon DEF TriggerReconnect, Trigger
    <2> QED
      BY <1>5, <2>1 DEF TriggerReconnect, Trigger
  <1>6. ASSUME NEW kind \in Kinds, NEW payload \in Payloads,
               EnqueueCommand(kind, payload)
        PROVE  TypeOK'
    BY <1>6, TypeOKEnqueue
  <1>7. CASE LoopExit
    BY <1>7 DEF LoopExit
  <1>8. CASE ReadHubHost
    BY <1>8 DEF ReadHubHost, ConfiguredHost
  <1>9. CASE ForgetConfig
    <2>1. has_config' \in BOOLEAN
      BY <1>9, Zenon DEF ForgetConfig, ClearConfigIfPresent
    <2> QED
      BY <1>9, <2>1 DEF ForgetConfig, ClearConfigIfPresent
  <1>10. CASE ForgetCommands
    <2>1. CASE DropPendingAndReport
      BY <1>10, <2>1, <1>0 DEF ForgetCommands, DropPendingAndReport
    <2>2. CASE Silent /\ UNCHANGED <<pending_commands, historyVars>>
      BY <1>10, <2>2 DEF ForgetCommands
    <2> QED
      BY <1>10, <2>1, <2>2 DEF ForgetCommands
  <1>11. CASE SetDisconnected
    BY <1>11 DEF SetDisconnected
  <1>12. CASE SleepUnwatched
    BY <1>12 DEF SleepUnwatched, WaitReturns
  <1>13. CASE SetConnecting
    BY <1>13 DEF SetConnecting
  <1>14. CASE Handshake
    BY <1>14 DEF Handshake
  <1>15. CASE OpenWebSocket
    BY <1>15 DEF OpenWebSocket
  <1>16. CASE SendConfigRequest
    BY <1>16 DEF SendConfigRequest
  <1>17. CASE ReceiveConfig
    <2>1. has_config' \in BOOLEAN
      BY <1>17, Zenon DEF ReceiveConfig
    <2> QED
      BY <1>17, <2>1 DEF ReceiveConfig
  <1>18. CASE SendActivityRequest
    BY <1>18 DEF SendActivityRequest, ActivityFetched
  <1>19. CASE ReceiveActivity
    <2>1. pc' \in Pcs /\ ws' \in Hosts \cup {NoHost} /\ caller' = "none"
      BY <1>19 DEF ReceiveActivity, ActivityFetched
    <2>2. current_activity_id' \in
            ((Hosts \cup {NoHost}) \X Activities) \cup {NoActivity}
      BY <1>19 DEF ReceiveActivity
    <2>3. published' \in Events
      BY <1>19 DEF ReceiveActivity
    <2> QED
      BY <1>19, <2>1, <2>2, <2>3 DEF ReceiveActivity
  <1>20. CASE ConnectFailed
    BY <1>20 DEF ConnectFailed, NextDelay
  <1>21. CASE ConnectSucceeded
    BY <1>21 DEF ConnectSucceeded, ResetAttempts
  <1>22. CASE PublishConfig
    BY <1>22 DEF PublishConfig
  <1>23. CASE DropSatisfiedTrigger
    <2>1. requested' \in BOOLEAN
      BY <1>23, Zenon DEF DropSatisfiedTrigger, ClearTriggerLocked
    <2> QED
      BY <1>23, <2>1 DEF DropSatisfiedTrigger, ClearTriggerLocked
  <1>24. CASE LivenessWait
    BY <1>24 DEF LivenessWait, WaitReturns, WakeReason
  <1>25. CASE ActOnReason
    BY <1>25 DEF ActOnReason
  <1>26. CASE Close
    BY <1>26 DEF Close
  <1>27. CASE SwapPending
    BY <1>27 DEF SwapPending
  <1>28. CASE AbandonBatch
    <2>1. /\ started_activity' \in BOOLEAN
          /\ dropped_stale_command' \in BOOLEAN
          /\ transport_failed' \in BOOLEAN
      BY <1>28, Zenon DEF AbandonBatch
    <2>2. told' \subseteq 1..MaxCommands
      BY <1>28, IdsTyped DEF AbandonBatch
    <2> QED
      BY <1>28, <2>1, <2>2 DEF AbandonBatch
  <1>29. CASE SendNext
    BY <1>29, TypeOKSendNext
  <1>30. CASE BatchSent
    BY <1>30 DEF BatchSent
  <1>31. CASE ReportBatch
    <2>1. /\ started_activity' \in BOOLEAN
          /\ dropped_stale_command' \in BOOLEAN
          /\ transport_failed' \in BOOLEAN
      BY <1>31, Zenon DEF ReportBatch
    <2>2. /\ told' \subseteq 1..MaxCommands /\ owed' \subseteq 1..MaxCommands
          /\ published' \in Events
      BY <1>31 DEF ReportBatch
    <2>3. pc' \in Pcs
      BY <1>31 DEF ReportBatch
    <2> QED
      BY <1>31, <2>1, <2>2, <2>3 DEF ReportBatch
  <1>32. CASE FinalDrain
    BY <1>32, <1>0 DEF FinalDrain, DropPendingAndReport
  <1>33. CASE FinalState
    BY <1>33 DEF FinalState
  <1>34. CASE UNCHANGED vars
    BY <1>34 DEF vars
  <1> QED
    BY <1>1, <1>2, <1>3, <1>4, <1>5, <1>6, <1>7, <1>8, <1>9, <1>10, <1>11,
       <1>12, <1>13, <1>14, <1>15, <1>16, <1>17, <1>18, <1>19, <1>20, <1>21,
       <1>22, <1>23, <1>24, <1>25, <1>26, <1>27, <1>28, <1>29, <1>30, <1>31,
       <1>32, <1>33, <1>34
       DEF Next, LoopNext, OwnerNext, WebNext, UserNext

\* Every variable of the connection stays in its type, and the queue never
\* exceeds kMaxPendingCommands.
THEOREM TypeCorrect == Spec => []TypeOK
  BY TypeOKInit, TypeOKStep, PTL DEF Spec

-----------------------------------------------------------------------------
(* No command is lost silently. *)

\* What makes NoSilentLoss inductive: while a loss is unannounced, one of the
\* two flags that make SendPendingCommands() publish the event is set.
LossInv ==
    owed # {} => /\ pc \in BatchPcs
                 /\ dropped_stale_command \/ transport_failed

LEMMA LossInvInit == Init => LossInv
  BY DEF Init, LossInv

\* The owner, the Web UI and the UI thread.
LEMMA LossInvOthers ==
    ASSUME LossInv, OwnerNext \/ WebNext \/ UserNext
    PROVE  LossInv'
  <1> USE DEF LossInv, BatchPcs, Goto, batchVars, loopVars, historyVars
  <1>1. CASE OwnerNext
    BY <1>1 DEF OwnerNext, Start, RequestStop, JoinThread
  <1>2. CASE WebNext
    BY <1>2 DEF WebNext, TriggerReconnect, SaveHubHost
  <1>3. CASE UserNext
    BY <1>3 DEF UserNext, EnqueueCommand
  <1> QED
    BY <1>1, <1>2, <1>3

LEMMA LossInvLoop ==
    ASSUME TypeOK, LossInv, LoopNext
    PROVE  LossInv'
  <1> USE DEF LossInv, BatchPcs, Goto, batchVars, loopVars, historyVars
  <1>1. CASE LoopExit \/ ReadHubHost \/ ForgetConfig \/ SetDisconnected
             \/ SleepUnwatched \/ SetConnecting
    BY <1>1 DEF LoopExit, ReadHubHost, ForgetConfig, SetDisconnected,
                SleepUnwatched, SetConnecting
  <1>2. CASE ForgetCommands \/ FinalDrain
    BY <1>2 DEF ForgetCommands, FinalDrain, DropPendingAndReport
  <1>3. CASE Handshake \/ OpenWebSocket \/ SendConfigRequest \/ ReceiveConfig
    BY <1>3 DEF Handshake, OpenWebSocket, SendConfigRequest, ReceiveConfig
  <1>4. CASE SendActivityRequest
    BY <1>4 DEF SendActivityRequest, ActivityFetched
  <1>5. CASE ReceiveActivity
    BY <1>5 DEF ReceiveActivity, ActivityFetched
  <1>6. CASE ConnectFailed \/ ConnectSucceeded \/ PublishConfig
             \/ DropSatisfiedTrigger
    BY <1>6 DEF ConnectFailed, ConnectSucceeded, PublishConfig,
                DropSatisfiedTrigger
  <1>7. CASE LivenessWait \/ ActOnReason \/ Close \/ FinalState
    BY <1>7 DEF LivenessWait, ActOnReason, Close, FinalState
  <1>8. CASE SwapPending \/ AbandonBatch
    BY <1>8 DEF SwapPending, AbandonBatch
  <1>9. CASE SendNext
    BY <1>9 DEF SendNext, TypeOK
  <1>10. CASE BatchSent
    BY <1>10 DEF BatchSent
  <1>11. CASE ReportBatch
    BY <1>11 DEF ReportBatch, MustReport
  <1> QED
    BY <1>1, <1>2, <1>3, <1>4, <1>5, <1>6, <1>7, <1>8, <1>9, <1>10, <1>11
       DEF LoopNext

LEMMA LossInvAlways == Spec => []LossInv
  <1>1. TypeOK /\ LossInv /\ [Next]_vars => LossInv'
    <2> SUFFICES ASSUME TypeOK, LossInv, [Next]_vars PROVE LossInv'
      OBVIOUS
    <2>1. CASE UNCHANGED vars
      BY <2>1 DEF LossInv, BatchPcs, vars, batchVars, loopVars, historyVars
    <2> QED
      BY <2>1, LossInvOthers, LossInvLoop DEF Next
  <1> QED
    BY <1>1, LossInvInit, TypeCorrect, PTL DEF Spec

\* A command that left the queue unsent, and was not superseded, is covered
\* by a HarmonyCommandDroppedEvent before SendPendingCommands() returns.
THEOREM NoSilentLossHolds == Spec => []NoSilentLoss
  <1>1. LossInv => NoSilentLoss
    BY DEF LossInv, NoSilentLoss
  <1> QED
    BY <1>1, LossInvAlways, PTL

-----------------------------------------------------------------------------
(* The WebSocket and the hub it talks to *)

\* What makes SocketMatchesPhase inductive: from the read of a non-empty
\* hub_host to the end of the pass the attempt keeps to one address, and a
\* WebSocket is opened only under the hub id that address answered with.
SocketInv ==
    /\ SocketMatchesPhase
    /\ pc \in {"changed_config", "changed_drop", "set_connecting"} =>
          host # NoHost
    /\ pc \in {"handshake", "ws_connect"} \cup SocketPcs =>
          host = last_hub_host /\ host # NoHost
    /\ pc = "ws_connect" => hub_id = host

LEMMA SocketInvInit == Init => SocketInv
  BY HarmonyAssumption DEF Init, SocketInv, SocketMatchesPhase, SocketPcs

\* The owner, the Web UI and the UI thread.
LEMMA SocketInvOthers ==
    ASSUME SocketInv, OwnerNext \/ WebNext \/ UserNext
    PROVE  SocketInv'
  <1> USE DEF SocketInv, SocketMatchesPhase, SocketPcs, Goto, settingVars,
              batchVars, loopVars, snapshotVars, historyVars
  <1>1. CASE OwnerNext
    BY <1>1 DEF OwnerNext, Start, RequestStop, JoinThread
  <1>2. CASE WebNext
    BY <1>2 DEF WebNext, TriggerReconnect, SaveHubHost
  <1>3. CASE UserNext
    BY <1>3 DEF UserNext, EnqueueCommand
  <1> QED
    BY <1>1, <1>2, <1>3

LEMMA SocketInvLoop ==
    ASSUME SocketInv, LoopNext
    PROVE  SocketInv'
  <1> USE HarmonyAssumption
      DEF SocketInv, SocketMatchesPhase, SocketPcs, Goto, settingVars,
          batchVars, loopVars, snapshotVars, historyVars
  <1>1. CASE LoopExit \/ ReadHubHost
    BY <1>1 DEF LoopExit, ReadHubHost, ConfiguredHost
  <1>2. CASE ForgetConfig
    BY <1>2 DEF ForgetConfig
  <1>3. CASE ForgetCommands \/ FinalDrain
    BY <1>3 DEF ForgetCommands, FinalDrain
  <1>4. CASE SetDisconnected \/ SleepUnwatched \/ SetConnecting
    BY <1>4 DEF SetDisconnected, SleepUnwatched, SetConnecting
  <1>5. CASE Handshake
    BY <1>5 DEF Handshake, FailConnect, CloseSocket
  <1>6. CASE OpenWebSocket \/ SendConfigRequest
    BY <1>6 DEF OpenWebSocket, SendConfigRequest, FailConnect, CloseSocket
  <1>7. CASE ReceiveConfig
    BY <1>7 DEF ReceiveConfig, FailConnect, CloseSocket
  <1>8. CASE SendActivityRequest
    BY <1>8 DEF SendActivityRequest, ActivityFetched, FailConnect,
                CloseSocket
  <1>9. CASE ReceiveActivity
    BY <1>9 DEF ReceiveActivity, ActivityFetched, FailConnect, CloseSocket
  <1>10. CASE ConnectFailed \/ ConnectSucceeded
             \/ PublishConfig \/ DropSatisfiedTrigger
    BY <1>10 DEF ConnectFailed, ConnectSucceeded, PublishConfig,
                 DropSatisfiedTrigger
  <1>11. CASE LivenessWait
    BY <1>11 DEF LivenessWait
  <1>12. CASE ActOnReason \/ Close \/ FinalState
    BY <1>12 DEF ActOnReason, Close, FinalState, CloseSocket
  <1>13. CASE SwapPending \/ AbandonBatch
    BY <1>13 DEF SwapPending, AbandonBatch
  <1>14. CASE SendNext \/ BatchSent \/ ReportBatch
    BY <1>14 DEF SendNext, BatchSent, ReportBatch
  <1> QED
    BY <1>1, <1>2, <1>3, <1>4, <1>5, <1>6, <1>7, <1>8, <1>9, <1>10,
       <1>11, <1>12, <1>13, <1>14 DEF LoopNext

LEMMA SocketInvAlways == Spec => []SocketInv
  <1>1. SocketInv /\ [Next]_vars => SocketInv'
    <2> SUFFICES ASSUME SocketInv, [Next]_vars
                 PROVE  SocketInv'
      OBVIOUS
    <2>1. CASE UNCHANGED vars
      BY <2>1
         DEF SocketInv, SocketMatchesPhase, SocketPcs, Goto, settingVars,
             batchVars, loopVars, snapshotVars, historyVars, vars
    <2> QED
      BY <2>1, SocketInvOthers, SocketInvLoop DEF Next
  <1> QED
    BY <1>1, SocketInvInit, PTL DEF Spec

\* The WebSocket is open exactly between Connect() and Close(), to the address
\* of the current attempt, and carries that hub's id.
THEOREM SocketMatchesPhaseHolds == Spec => []SocketMatchesPhase
  <1>1. SocketInv => SocketMatchesPhase
    BY DEF SocketInv
  <1> QED
    BY <1>1, SocketInvAlways, PTL

-----------------------------------------------------------------------------
(* One hub in the snapshot *)

\* What makes SnapshotOfOneHub inductive: the config is there from the moment
\* it was received, and gone before another address is attempted.
SnapshotInv ==
    /\ SnapshotOfOneHub
    /\ pc \in SocketPcs \ {"config_send", "config_receive"} => has_config
    /\ pc = "changed_drop" => ~has_config
    /\ pc = "set_connecting" /\ has_config => host = last_hub_host

LEMMA SnapshotInvInit == Init => SnapshotInv
  BY HarmonyAssumption DEF Init, SnapshotInv, SnapshotOfOneHub, SocketPcs

\* The owner, the Web UI and the UI thread.
LEMMA SnapshotInvOthers ==
    ASSUME TypeOK, SocketInv, SnapshotInv, OwnerNext \/ WebNext \/ UserNext
    PROVE  SnapshotInv'
  <1> USE DEF SnapshotInv, SnapshotOfOneHub, SocketPcs, SocketInv,
              SocketMatchesPhase, Goto, settingVars, batchVars, loopVars,
              snapshotVars, historyVars
  <1>1. CASE OwnerNext
    BY <1>1 DEF OwnerNext, Start, RequestStop, JoinThread
  <1>2. CASE WebNext
    BY <1>2 DEF WebNext, TriggerReconnect, SaveHubHost
  <1>3. CASE UserNext
    BY <1>3 DEF UserNext, EnqueueCommand
  <1> QED
    BY <1>1, <1>2, <1>3

LEMMA SnapshotInvLoop ==
    ASSUME TypeOK, SocketInv, SnapshotInv, LoopNext
    PROVE  SnapshotInv'
  <1> USE HarmonyAssumption
      DEF SnapshotInv, SnapshotOfOneHub, SocketPcs, SocketInv,
          SocketMatchesPhase, Goto, settingVars, batchVars, loopVars,
          snapshotVars, historyVars
  <1>1. CASE LoopExit \/ ReadHubHost
    BY <1>1 DEF LoopExit, ReadHubHost, ConfiguredHost
  <1>2. CASE ForgetConfig
    BY <1>2 DEF ForgetConfig, ClearConfigIfPresent, TypeOK
  <1>3. CASE ForgetCommands \/ FinalDrain
    BY <1>3 DEF ForgetCommands, FinalDrain, DropPendingAndReport
  <1>4. CASE SetDisconnected \/ SleepUnwatched \/ SetConnecting
    <2>1. CASE SetDisconnected \/ SleepUnwatched
      <3>1. /\ pc' \in {"unconfigured_sleep", "top"}
            /\ UNCHANGED <<has_config, devices, current_activity_id,
                          last_hub_host>>
        BY <2>1 DEF SetDisconnected, SleepUnwatched
      <3> QED
        BY <3>1
    <2>2. CASE SetConnecting
      <3>1. /\ pc = "set_connecting" /\ pc' = "handshake"
            /\ last_hub_host' = host
            /\ UNCHANGED <<has_config, devices, current_activity_id>>
        BY <2>2 DEF SetConnecting
      <3>2. has_config => host = last_hub_host
        BY <3>1
      <3>3. SnapshotOfOneHub'
        BY <3>1, <3>2
      <3> QED
        BY <3>1, <3>3
    <2> QED
      BY <1>4, <2>1, <2>2
  <1>5. CASE Handshake
    BY <1>5 DEF Handshake, FailConnect, CloseSocket
  <1>6. CASE OpenWebSocket \/ SendConfigRequest
    BY <1>6 DEF OpenWebSocket, SendConfigRequest, FailConnect, CloseSocket
  <1>7. CASE ReceiveConfig
    BY <1>7 DEF ReceiveConfig, FailConnect, CloseSocket, TypeOK
  <1>8. CASE SendActivityRequest
    BY <1>8 DEF SendActivityRequest, ActivityFetched, FailConnect,
                CloseSocket
  <1>9. CASE ReceiveActivity
    BY <1>9 DEF ReceiveActivity, ActivityFetched, FailConnect, CloseSocket
  <1>10. CASE ConnectFailed \/ ConnectSucceeded
             \/ PublishConfig \/ DropSatisfiedTrigger
    BY <1>10 DEF ConnectFailed, ConnectSucceeded, PublishConfig,
                 DropSatisfiedTrigger, SetState
  <1>11. CASE LivenessWait
    BY <1>11 DEF LivenessWait
  <1>12. CASE ActOnReason \/ Close \/ FinalState
    BY <1>12 DEF ActOnReason, Close, FinalState, CloseSocket, SetState
  <1>13. CASE SwapPending \/ AbandonBatch
    BY <1>13 DEF SwapPending, AbandonBatch
  <1>14. CASE SendNext \/ BatchSent \/ ReportBatch
    BY <1>14 DEF SendNext, BatchSent, ReportBatch
  <1> QED
    BY <1>1, <1>2, <1>3, <1>4, <1>5, <1>6, <1>7, <1>8, <1>9, <1>10,
       <1>11, <1>12, <1>13, <1>14 DEF LoopNext

LEMMA SnapshotInvAlways == Spec => []SnapshotInv
  <1>1. TypeOK /\ SocketInv /\ SnapshotInv /\ [Next]_vars => SnapshotInv'
    <2> SUFFICES ASSUME TypeOK, SocketInv, SnapshotInv, [Next]_vars
                 PROVE  SnapshotInv'
      OBVIOUS
    <2>1. CASE UNCHANGED vars
      BY <2>1
         DEF SnapshotInv, SnapshotOfOneHub, SocketPcs, SocketInv,
             SocketMatchesPhase, Goto, settingVars, batchVars, loopVars,
             snapshotVars, historyVars, vars
    <2> QED
      BY <2>1, SnapshotInvOthers, SnapshotInvLoop DEF Next
  <1> QED
    BY <1>1, SnapshotInvInit, TypeCorrect, SocketInvAlways, PTL DEF Spec

\* Devices, activities and the current activity always come from one hub, the
\* one last attempted.
THEOREM SnapshotOfOneHubHolds == Spec => []SnapshotOfOneHub
  <1>1. SnapshotInv => SnapshotOfOneHub
    BY DEF SnapshotInv
  <1> QED
    BY <1>1, SnapshotInvAlways, PTL

-----------------------------------------------------------------------------
(* A reconnect request is never lost *)

\* SaveNotStranded is inductive as it stands, given the types.
LEMMA SaveNotStrandedInit == Init => SaveNotStranded
  BY HarmonyAssumption DEF Init, SaveNotStranded, Rereading

\* The owner, the Web UI and the UI thread.
LEMMA SaveNotStrandedOthers ==
    ASSUME TypeOK, SaveNotStranded, OwnerNext \/ WebNext \/ UserNext
    PROVE  SaveNotStranded'
  <1> USE DEF SaveNotStranded, Rereading, ThreadFrame, Goto, settingVars,
              batchVars, loopVars, snapshotVars, historyVars
  <1>1. CASE OwnerNext
    BY <1>1 DEF OwnerNext, Start, RequestStop, JoinThread
  <1>2. CASE WebNext
    BY <1>2 DEF WebNext, TriggerReconnect, SaveHubHost, Trigger
  <1>3. CASE UserNext
    BY <1>3 DEF UserNext, EnqueueCommand
  <1> QED
    BY <1>1, <1>2, <1>3

LEMMA SaveNotStrandedLoop ==
    ASSUME TypeOK, SaveNotStranded, LoopNext
    PROVE  SaveNotStranded'
  <1> USE HarmonyAssumption
      DEF SaveNotStranded, Rereading, ThreadFrame, Goto, settingVars,
          batchVars, loopVars, snapshotVars, historyVars
  <1>1. CASE LoopExit \/ ReadHubHost
    BY <1>1 DEF LoopExit, ReadHubHost, ConfiguredHost
  <1>2. CASE ForgetConfig
    BY <1>2 DEF ForgetConfig
  <1>3. CASE ForgetCommands \/ FinalDrain
    BY <1>3 DEF ForgetCommands, FinalDrain
  <1>4. CASE SetDisconnected \/ SleepUnwatched \/ SetConnecting
    BY <1>4 DEF SetDisconnected, SleepUnwatched, SetConnecting, WaitReturns
  <1>5. CASE Handshake
    BY <1>5 DEF Handshake, FailConnect
  <1>6. CASE OpenWebSocket \/ SendConfigRequest
    BY <1>6 DEF OpenWebSocket, SendConfigRequest, FailConnect
  <1>7. CASE ReceiveConfig
    BY <1>7 DEF ReceiveConfig, FailConnect
  <1>8. CASE SendActivityRequest
    BY <1>8 DEF SendActivityRequest, ActivityFetched, FailConnect
  <1>9. CASE ReceiveActivity
    BY <1>9 DEF ReceiveActivity, ActivityFetched, FailConnect
  <1>10. CASE ConnectFailed \/ ConnectSucceeded
             \/ PublishConfig \/ DropSatisfiedTrigger
    BY <1>10 DEF ConnectFailed, ConnectSucceeded, PublishConfig,
                 DropSatisfiedTrigger, TriggerSatisfied, ClearTriggerLocked
  <1>11. CASE LivenessWait
    BY <1>11 DEF LivenessWait, WaitReturns, WakeReason
  <1>12. CASE ActOnReason \/ Close \/ FinalState
    BY <1>12 DEF ActOnReason, Close, FinalState, TypeOK, WakeReasons
  <1>13. CASE SwapPending \/ AbandonBatch
    BY <1>13 DEF SwapPending, AbandonBatch
  <1>14. CASE SendNext \/ BatchSent \/ ReportBatch
    BY <1>14 DEF SendNext, BatchSent, ReportBatch
  <1> QED
    BY <1>1, <1>2, <1>3, <1>4, <1>5, <1>6, <1>7, <1>8, <1>9, <1>10,
       <1>11, <1>12, <1>13, <1>14 DEF LoopNext

\* Wherever a new hub_host is saved during a pass of the connection loop, the
\* reconnect request that follows it is still pending when the pass ends.
THEOREM SaveNotStrandedHolds == Spec => []SaveNotStranded
  <1>1. TypeOK /\ SaveNotStranded /\ [Next]_vars => SaveNotStranded'
    <2> SUFFICES ASSUME TypeOK, SaveNotStranded, [Next]_vars
                 PROVE  SaveNotStranded'
      OBVIOUS
    <2>1. CASE UNCHANGED vars
      BY <2>1
         DEF SaveNotStranded, Rereading, ThreadFrame, Goto, settingVars,
             batchVars, loopVars, snapshotVars, historyVars, vars
    <2> QED
      BY <2>1, SaveNotStrandedOthers, SaveNotStrandedLoop DEF Next
  <1> QED
    BY <1>1, SaveNotStrandedInit, TypeCorrect, PTL DEF Spec

-----------------------------------------------------------------------------
(* The command queue implements CommandChannel. *)

\* Commands stand in a queue in the order they were issued.
Ordered(queue) ==
    \A i, j \in 1..Len(queue) : i < j => queue[i].id < queue[j].id

\* What the refinement needs: the running batch holds the commands older than
\* the queued ones, both in order, all newer than what was delivered; and
\* SwapPending() never finds a batch that is not through.
FateInv ==
    /\ Ordered(pending_commands) /\ Ordered(batch)
    /\ \A b \in Ids(batch), p \in Ids(pending_commands) : b < p
    /\ \A d \in delivered, w \in Ids(batch) \cup Ids(pending_commands) : d < w
    /\ \A w \in delivered \cup Ids(batch) \cup Ids(pending_commands) :
          w <= accepted
    /\ batch # <<>> => pc = "send"

LEMMA IdsEmpty == Ids(<<>>) = {}
  BY DEF Ids

LEMMA IdsAppend ==
    ASSUME NEW queue \in Seq(Commands), NEW command \in Commands
    PROVE  Ids(Append(queue, command)) = Ids(queue) \cup {command.id}
  <1> DEFINE longer == Append(queue, command)
  <1>1. /\ DOMAIN longer = DOMAIN queue \cup {Len(queue) + 1}
        /\ DOMAIN queue = 1..Len(queue)
        /\ \A i \in DOMAIN queue : longer[i] = queue[i]
        /\ longer[Len(queue) + 1] = command
    OBVIOUS
  <1> QED
    BY <1>1 DEF Ids

\* Taking the head of an ordered queue leaves the newer commands.
LEMMA IdsTail ==
    ASSUME NEW queue \in Seq(Commands), queue # <<>>, Ordered(queue)
    PROVE  /\ Head(queue) \in Commands /\ Head(queue).id \in Ids(queue)
           /\ Tail(queue) \in Seq(Commands)
           /\ Ids(Tail(queue)) = Ids(queue) \ {Head(queue).id}
           /\ \A w \in Ids(Tail(queue)) : Head(queue).id < w
           /\ Ordered(Tail(queue))
  <1> DEFINE rest == Tail(queue)
  <1>1. /\ Len(queue) \in Nat \ {0} /\ DOMAIN queue = 1..Len(queue)
        /\ rest \in Seq(Commands) /\ Len(rest) = Len(queue) - 1
        /\ DOMAIN rest = 1..Len(rest)
        /\ \A i \in 1..Len(rest) : rest[i] = queue[i + 1]
        /\ Head(queue) = queue[1] /\ queue[1] \in Commands
    OBVIOUS
  <1> HIDE DEF rest
  <1>2. \A i \in 2..Len(queue) : i - 1 \in 1..Len(rest) /\ rest[i - 1] = queue[i]
    BY <1>1
  <1>3. \A i \in 1..Len(queue) : queue[i].id \in Nat
    <2>1. \A i \in 1..Len(queue) : queue[i] \in Commands
      OBVIOUS
    <2>2. \A c \in Commands : c.id \in Nat
      BY DEF Commands
    <2> QED
      BY <2>1, <2>2
  <1>4. \A i \in 2..Len(queue) : queue[1].id < queue[i].id
    BY <1>1 DEF Ordered
  <1>5. Ids(rest) = {queue[i].id : i \in 2..Len(queue)}
    BY <1>1, <1>2, SMTT(30) DEF Ids
  <1>6. Ids(queue) = {queue[1].id} \cup {queue[i].id : i \in 2..Len(queue)}
    BY <1>1 DEF Ids
  <1>7. queue[1].id \notin {queue[i].id : i \in 2..Len(queue)}
    BY <1>1, <1>3, <1>4
  <1>8. Ordered(rest)
    BY <1>1 DEF Ordered
  <1> QED
    BY <1>1, <1>4, <1>5, <1>6, <1>7, <1>8 DEF rest

LEMMA FateInvInit == Init => FateInv
  BY IdsEmpty DEF Init, FateInv, Ordered

\* Queueing a command, which may evict the oldest one.
LEMMA FateEnqueue ==
    ASSUME TypeOK, FateInv, NEW kind \in Kinds, NEW payload \in Payloads,
           EnqueueCommand(kind, payload)
    PROVE  FateInv' /\ Channel!Accept
  <1> DEFINE command == [id |-> accepted + 1, kind |-> kind,
                         payload |-> payload]
             queue == Append(pending_commands, command)
  <1> USE HarmonyAssumption
  <1>1. command \in Commands /\ command.id = accepted + 1
        /\ pending_commands \in Seq(Commands) /\ batch \in Seq(Commands)
        /\ accepted \in Nat /\ accepted < MaxCommands
        /\ accepted' = accepted + 1
    BY DEF TypeOK, EnqueueCommand, Commands
  <1>2. queue \in Seq(Commands) /\ queue # <<>>
        /\ Ids(queue) = Ids(pending_commands) \cup {accepted + 1}
    BY <1>1, IdsAppend
  <1>3. /\ Ids(pending_commands) \subseteq Nat /\ Ids(batch) \subseteq Nat
        /\ delivered \subseteq Nat
    BY <1>1, IdsTyped DEF TypeOK
  <1>4. Ordered(queue)
    <2>1. \A i \in 1..Len(pending_commands) :
             pending_commands[i].id <= accepted
      BY <1>1 DEF FateInv, Ids
    <2>2. /\ Len(queue) = Len(pending_commands) + 1
          /\ \A i \in 1..Len(pending_commands) : queue[i] = pending_commands[i]
          /\ queue[Len(queue)].id = accepted + 1
      BY <1>1
    <2>3. \A i \in 1..Len(pending_commands) : pending_commands[i].id \in Nat
      BY <1>1, <1>3 DEF Ids
    <2> HIDE DEF queue, command
    <2> QED
      BY <1>1, <2>1, <2>2, <2>3, SMTT(30) DEF Ordered, FateInv
  <1>5. UNCHANGED <<batch, delivered, owed, told, pc>>
    BY DEF EnqueueCommand, batchVars
  <1>6. CASE ~CapExceeded(queue)
    <2>1. pending_commands' = queue /\ superseded' = superseded
      BY <1>6 DEF EnqueueCommand
    <2>2. FateInv'
      BY <1>1, <1>2, <1>3, <1>4, <1>5, <2>1 DEF FateInv
    <2> QED
      BY <1>1, <1>2, <1>5, <2>1, <2>2 DEF Channel!Accept
  <1>7. CASE CapExceeded(queue)
    <2> DEFINE oldest == Head(queue).id
    <2>1. pending_commands' = Tail(queue)
          /\ superseded' = superseded \cup {oldest}
      BY <1>7 DEF EnqueueCommand
    <2>2. pending_commands # <<>>
      BY <1>1, <1>7 DEF CapExceeded
    <2>3. Head(queue) = Head(pending_commands)
      BY <1>1, <2>2
    <2>4. oldest \in Ids(pending_commands)
      BY <1>1, <2>2, <2>3, IdsTail DEF FateInv
    <2>5. /\ Ids(Tail(queue)) = Ids(queue) \ {oldest}
          /\ Ordered(Tail(queue))
      BY <1>2, <1>4, IdsTail
    <2> HIDE DEF queue, command
    <2>6. oldest <= accepted /\ oldest \in Nat /\ oldest \notin Ids(batch)
      BY <1>3, <2>4 DEF FateInv
    <2>7. Ids(pending_commands') =
             (Ids(pending_commands) \ {oldest}) \cup {accepted + 1}
      BY <1>1, <1>2, <2>1, <2>5, <2>6
    <2> HIDE DEF oldest
    <2>8. FateInv'
      <3>1. /\ Ordered(pending_commands)' /\ Ordered(batch)'
            /\ batch' # <<>> => pc' = "send"
        BY <1>5, <2>1, <2>5 DEF FateInv, Ordered
      <3>2. /\ Ids(batch)' = Ids(batch) /\ delivered' = delivered
        BY <1>5
      <3>3. /\ \A d \in delivered \cup Ids(batch) : d <= accepted
            /\ \A d \in delivered \cup Ids(batch) : d \in Nat
        BY <1>3 DEF FateInv
      <3>4. \A p \in Ids(pending_commands') :
               p = accepted + 1 \/ p \in Ids(pending_commands)
        BY <2>7
      <3>5. \A d \in delivered \cup Ids(batch), p \in Ids(pending_commands') :
               d < p
        BY <1>1, <3>3, <3>4 DEF FateInv
      <3>6. \A w \in delivered \cup Ids(batch) \cup Ids(pending_commands') :
               w <= accepted + 1
        BY <1>1, <1>3, <3>3, <3>4 DEF FateInv
      <3>7. \A d \in delivered, w \in Ids(batch) : d < w
        BY DEF FateInv
      <3> QED
        BY <1>1, <3>1, <3>2, <3>5, <3>6, <3>7 DEF FateInv
    <2>9. Ids(pending_commands') \cup Ids(batch)' =
             ((Ids(pending_commands) \cup Ids(batch)) \ {oldest})
                \cup {accepted + 1}
      BY <1>5, <2>6, <2>7
    <2> QED
      BY <1>1, <1>5, <2>1, <2>4, <2>8, <2>9 DEF Channel!Accept
  <1> QED
    BY <1>6, <1>7

\* The whole queue is dropped with an event, outside SendPendingCommands().
LEMMA FateDropPending ==
    ASSUME TypeOK, FateInv, LossInv, DropPendingAndReport,
           UNCHANGED <<batch, accepted>>, pc # "send", pc \notin BatchPcs
    PROVE  /\ FateInv' /\ Channel!Announce(Ids(pending_commands))
  <1>1. batch = <<>> /\ owed = {}
    BY DEF FateInv, LossInv
  <1>2. /\ pending_commands' = <<>> /\ UNCHANGED <<delivered, superseded, owed>>
        /\ told' = told \cup Ids(pending_commands)
    BY DEF DropPendingAndReport
  <1>3. FateInv'
    BY <1>1, <1>2, IdsEmpty DEF FateInv, Ordered
  <1> QED
    BY <1>1, <1>2, <1>3, IdsEmpty DEF Channel!Announce

\* The head of the batch is delivered or lost.
LEMMA FateSendNext ==
    ASSUME TypeOK, FateInv, SendNext
    PROVE  /\ FateInv'
           /\ \E c \in Ids(pending_commands) \cup Ids(batch) :
                 Channel!Deliver(c) \/ Channel!Lose(c)
  <1> DEFINE c == Head(batch).id
  <1>1. /\ batch \in Seq(Commands) /\ batch # <<>> /\ batch' = Tail(batch)
        /\ UNCHANGED <<pending_commands, accepted, superseded, told, pc>>
        /\ pc = "send"
    BY DEF TypeOK, SendNext, ThreadFrame
  <1>2. /\ c \in Ids(batch) /\ Ids(batch') = Ids(batch) \ {c}
        /\ \A w \in Ids(batch') : c < w
        /\ Ordered(batch')
    BY <1>1, IdsTail DEF FateInv
  <1>3. \/ delivered' = delivered \cup {c} /\ owed' = owed
        \/ delivered' = delivered /\ owed' = owed \cup {c}
    BY DEF SendNext
  <1>4. /\ Ids(pending_commands) \subseteq Nat /\ Ids(batch) \subseteq Nat
        /\ delivered \subseteq Nat
    BY IdsTyped DEF TypeOK
  <1> HIDE DEF c
  <1>5. c \notin Ids(pending_commands) /\ \A d \in delivered : d < c
    BY <1>2, <1>4 DEF FateInv
  <1>6. \A p \in Ids(pending_commands) : c < p
    BY <1>2 DEF FateInv
  <1>7. FateInv'
    <2>1. \A d \in delivered', w \in Ids(batch') \cup Ids(pending_commands) :
             d < w
      BY <1>2, <1>3, <1>6 DEF FateInv
    <2>2. \A w \in delivered' \cup Ids(batch') : w <= accepted
      BY <1>2, <1>3 DEF FateInv
    <2> QED
      BY <1>1, <1>2, <2>1, <2>2 DEF FateInv
  <1>8. Ids(pending_commands') \cup Ids(batch') =
           (Ids(pending_commands) \cup Ids(batch)) \ {c}
    BY <1>1, <1>2, <1>5
  <1>9. Channel!Deliver(c) \/ Channel!Lose(c)
    BY <1>1, <1>3, <1>5, <1>8 DEF Channel!Deliver, Channel!Lose
  <1> QED
    BY <1>2, <1>7, <1>9

\* The remaining part of a batch is dropped when the module is stopped.
LEMMA FateAbandon ==
    ASSUME TypeOK, FateInv, AbandonBatch
    PROVE  FateInv' /\ Channel!Announce(Ids(batch))
  <1>1. /\ batch' = <<>> /\ owed' = {} /\ told' = told \cup owed \cup Ids(batch)
        /\ UNCHANGED <<pending_commands, accepted, delivered, superseded>>
    BY DEF AbandonBatch, ThreadFrame
  <1>2. Ids(batch') = {}
    BY <1>1, IdsEmpty
  <1>3. Ids(pending_commands) \subseteq Nat /\ Ids(batch) \subseteq Nat
    BY IdsTyped DEF TypeOK
  <1>4. FateInv'
    BY <1>1, <1>2 DEF FateInv, Ordered
  <1>5. \A p \in Ids(pending_commands) : p \notin Ids(batch)
    BY <1>3 DEF FateInv
  <1> QED
    BY <1>1, <1>2, <1>4, <1>5 DEF Channel!Announce

\* Taking the queue as a batch moves commands, and settles none.
LEMMA FateSwap ==
    ASSUME TypeOK, FateInv, SwapPending
    PROVE  FateInv' /\ UNCHANGED Channel!channelVars
  <1>1. /\ batch = <<>> /\ batch' = pending_commands /\ pending_commands' = <<>>
        /\ UNCHANGED <<accepted, delivered, superseded, owed, told>>
        /\ pc' = "send"
    BY DEF SwapPending, FateInv, ThreadFrame, Goto, historyVars
  <1>2. Ids(batch) = {} /\ Ids(pending_commands') = {}
        /\ Ids(batch') = Ids(pending_commands)
    BY <1>1, IdsEmpty
  <1>3. FateInv'
    BY <1>1, <1>2 DEF FateInv, Ordered
  <1> QED
    BY <1>1, <1>2, <1>3 DEF Channel!channelVars

\* The steps that touch neither the queue nor the history.
LEMMA FateUntouched ==
    ASSUME FateInv, UNCHANGED <<pending_commands, batch, accepted, historyVars>>,
           batch # <<>> => pc' = pc
    PROVE  FateInv' /\ UNCHANGED Channel!channelVars
  BY DEF FateInv, Ordered, historyVars, Channel!channelVars

\* The owner, the Web UI and the UI thread.
LEMMA FateOthers ==
    ASSUME TypeOK, FateInv, OwnerNext \/ WebNext \/ UserNext
    PROVE  FateInv' /\ [Channel!Next]_(Channel!channelVars)
  <1>1. CASE OwnerNext
    <2>1. UNCHANGED <<pending_commands, batch, accepted, historyVars>>
      BY <1>1 DEF OwnerNext, Start, RequestStop, JoinThread, batchVars
    <2>2. batch # <<>> => pc' = pc
      BY <1>1 DEF OwnerNext, Start, RequestStop, JoinThread, Goto, FateInv
    <2> QED
      BY <2>1, <2>2, FateUntouched
  <1>2. CASE WebNext
    <2>1. /\ UNCHANGED <<pending_commands, batch, accepted, historyVars>>
          /\ pc' = pc
      BY <1>2 DEF WebNext, TriggerReconnect, SaveHubHost, batchVars
    <2> QED
      BY <2>1, FateUntouched
  <1>3. CASE UserNext
    <2>1. PICK kind \in Kinds, payload \in Payloads :
             EnqueueCommand(kind, payload)
      BY <1>3 DEF UserNext
    <2> QED
      BY <2>1, FateEnqueue DEF Channel!Next
  <1> QED
    BY <1>1, <1>2, <1>3

LEMMA FateLoop ==
    ASSUME TypeOK, FateInv, LossInv, LoopNext
    PROVE  FateInv' /\ [Channel!Next]_(Channel!channelVars)
  <1> DEFINE Quiet ==
        /\ UNCHANGED <<pending_commands, batch, accepted, historyVars>>
        /\ batch # <<>> => pc' = pc
  <1>1. CASE LoopExit \/ ReadHubHost \/ ForgetConfig \/ SetDisconnected
             \/ SleepUnwatched \/ SetConnecting
    <2>1. Quiet
      BY <1>1 DEF LoopExit, ReadHubHost, ForgetConfig, SetDisconnected,
                  SleepUnwatched, SetConnecting, ThreadFrame, batchVars, FateInv
    <2> QED
      BY <2>1, FateUntouched
  <1>2. CASE Handshake \/ OpenWebSocket \/ SendConfigRequest \/ ReceiveConfig
             \/ SendActivityRequest \/ ReceiveActivity
    <2>1. Quiet
      BY <1>2 DEF Handshake, OpenWebSocket, SendConfigRequest, ReceiveConfig,
                  SendActivityRequest, ReceiveActivity, ThreadFrame, batchVars,
                  FateInv
    <2> QED
      BY <2>1, FateUntouched
  <1>3. CASE ConnectFailed \/ ConnectSucceeded \/ PublishConfig
             \/ DropSatisfiedTrigger \/ LivenessWait \/ ActOnReason \/ Close
             \/ BatchSent \/ FinalState
    <2>1. Quiet
      BY <1>3 DEF ConnectFailed, ConnectSucceeded, PublishConfig,
                  DropSatisfiedTrigger, LivenessWait, ActOnReason, Close,
                  BatchSent, FinalState, ThreadFrame, batchVars, FateInv
    <2> QED
      BY <2>1, FateUntouched
  <1>4. CASE ForgetCommands \/ FinalDrain
    <2>1. /\ pc # "send" /\ pc \notin BatchPcs
          /\ UNCHANGED <<batch, accepted>>
      BY <1>4 DEF ForgetCommands, FinalDrain, BatchPcs, ThreadFrame, batchVars
    <2>2. \/ DropPendingAndReport
          \/ UNCHANGED <<pending_commands, historyVars>>
      BY <1>4 DEF ForgetCommands, FinalDrain
    <2>3. CASE DropPendingAndReport
      <3>1. FateInv' /\ Channel!Announce(Ids(pending_commands))
        BY <2>1, <2>3, FateDropPending
      <3> QED
        BY <3>1 DEF Channel!Next
    <2>4. CASE UNCHANGED <<pending_commands, historyVars>>
      BY <2>1, <2>4, FateUntouched DEF FateInv
    <2> QED
      BY <2>2, <2>3, <2>4
  <1>5. CASE SwapPending
    BY <1>5, FateSwap
  <1>6. CASE AbandonBatch
    <2>1. FateInv' /\ Channel!Announce(Ids(batch))
      BY <1>6, FateAbandon
    <2> QED
      BY <2>1 DEF Channel!Next
  <1>7. CASE SendNext
    BY <1>7, FateSendNext DEF Channel!Next
  <1>8. CASE ReportBatch
    <2>1. /\ UNCHANGED <<pending_commands, batch, accepted, delivered,
                         superseded>>
          /\ batch = <<>>
      BY <1>8 DEF ReportBatch, ThreadFrame, FateInv
    <2>2. FateInv'
      BY <2>1 DEF FateInv, Ordered
    <2>3. \/ told' = told \cup owed /\ owed' = {}
          \/ told' = told /\ owed' = owed
      BY <1>8 DEF ReportBatch
    <2>4. Channel!Announce({}) \/ UNCHANGED Channel!channelVars
      BY <2>1, <2>3 DEF Channel!Announce, Channel!channelVars
    <2>5. {} \in SUBSET (Ids(pending_commands) \cup Ids(batch))
      OBVIOUS
    <2> QED
      BY <2>2, <2>4, <2>5 DEF Channel!Next
  <1> QED
    BY <1>1, <1>2, <1>3, <1>4, <1>5, <1>6, <1>7, <1>8 DEF LoopNext

\* The command queue of the connection implements CommandChannel, whatever
\* hubs, commands and limits there are: every command handed to
\* EnqueueCommand() meets exactly one fate, SendPendingCommands() delivers in
\* the order of issue and never twice, and only the cap drops without an event.
THEOREM ImplementsChannelHolds == Spec => ImplementsChannel
  <1>1. Init => Channel!Init
    BY IdsEmpty DEF Init, Channel!Init
  <1>2. TypeOK /\ LossInv /\ FateInv /\ [Next]_vars
          => FateInv' /\ [Channel!Next]_(Channel!channelVars)
    <2> SUFFICES ASSUME TypeOK, LossInv, FateInv, [Next]_vars
                 PROVE  FateInv' /\ [Channel!Next]_(Channel!channelVars)
      OBVIOUS
    <2>1. CASE UNCHANGED vars
      <3>1. UNCHANGED <<pending_commands, batch, accepted, historyVars, pc>>
        BY <2>1 DEF vars, batchVars
      <3> QED
        BY <3>1, FateUntouched
    <2> QED
      BY <2>1, FateOthers, FateLoop DEF Next
  <1> QED
    BY <1>1, <1>2, FateInvInit, TypeCorrect, LossInvAlways, PTL
       DEF Spec, ImplementsChannel, Channel!Spec

-----------------------------------------------------------------------------
(* The notification bridge *)

\* Where an attempt is under way whose outcome is not known yet.
AttemptPcs == {"handshake", "ws_connect", "config_send", "config_receive",
               "connect_succeeded", "connect_failed"}

Attempting == \/ pc \in AttemptPcs
              \/ pc \in {"activity_send", "activity_receive"}
                 /\ caller = "connect"

\* Where the hub has answered and the connection is not closed yet.
Connected == \/ pc \in {"publish_config", "check_trigger", "wait", "swap",
                        "send", "batch_report", "act_on_reason", "close"}
             \/ pc \in {"activity_send", "activity_receive"}
                /\ caller # "connect"

\* Where the latch was reset for an address that is not attempted yet.
Switching == \/ pc = "changed_drop"
             \/ pc = "set_connecting" /\ host # last_hub_host

\* What makes OutageAnnounced and RetriesStayQuiet inductive.  A set latch
\* stands for an announcement of the address last attempted; the latch is
\* reset before another address is attempted; between two passes the last
\* announcement is of that address or was overtaken by a connection.
BridgeInv ==
    /\ already_notified \in BOOLEAN /\ removed \in BOOLEAN
    /\ OutageAnnounced
    /\ already_notified => announced = last_hub_host
    /\ Switching => ~already_notified
    /\ pc \in {"changed_config", "changed_drop"} => host # last_hub_host
    /\ pc = "unconfigured_config" => removed
    /\ Attempting => state = "kConnecting" /\ last_hub_host # NoHost
    /\ Connected => announced = NoHost
    /\ ~Attempting => announced \in {NoHost, last_hub_host}
    /\ announced = last_hub_host /\ last_hub_host # NoHost /\ ~removed
          => already_notified \/ Switching

LEMMA BridgeInvInit == BridgeInit => BridgeInv
  <1> SUFFICES ASSUME BridgeInit PROVE BridgeInv
    OBVIOUS
  <1>1. already_notified \in BOOLEAN /\ removed \in BOOLEAN
    BY Zenon DEF BridgeInit
  <1> QED
    BY <1>1, HarmonyAssumption
       DEF BridgeInit, Init, BridgeInv, OutageAnnounced, Switching,
           Attempting, AttemptPcs, Connected

\* The latch and the history stay Boolean.
LEMMA LatchBoolean ==
    ASSUME BridgeInv, OnEvent(published')
    PROVE  already_notified' \in BOOLEAN /\ removed' \in BOOLEAN
  BY Zenon DEF BridgeInv, OnEvent

\* A step that publishes nothing the bridge listens to, and does not enter
\* the unconfigured branch, leaves the bridge alone.
LEMMA BridgeQuiet ==
    ASSUME BridgeInv, OnEvent(published'),
           published' \notin {"kError", "kConnected", "ConfigUpdated"},
           pc' = "unconfigured_config" => pc = "unconfigured_config"
    PROVE  UNCHANGED bridgeVars
  BY DEF BridgeInv, OnEvent, Notifies, LatchResets, bridgeVars

\* The owner, the Web UI and the UI thread publish nothing, and move the
\* thread only from its end to its start.
LEMMA OthersSilent ==
    ASSUME OwnerNext \/ WebNext \/ UserNext
    PROVE  /\ published' = "none"
           /\ UNCHANGED <<host, last_hub_host, caller, state>>
           /\ \/ pc' = pc
              \/ pc = "idle" /\ pc' = "top"
              \/ pc = "exited" /\ pc' = "idle"
  <1> USE DEF Goto, Silent, settingVars, batchVars, loopVars, snapshotVars,
              historyVars
  <1>1. CASE OwnerNext
    BY <1>1 DEF OwnerNext, Start, RequestStop, JoinThread
  <1>2. CASE WebNext
    BY <1>2 DEF WebNext, TriggerReconnect, SaveHubHost
  <1>3. CASE UserNext
    BY <1>3 DEF UserNext, EnqueueCommand
  <1> QED
    BY <1>1, <1>2, <1>3

LEMMA BridgeInvOthers ==
    ASSUME BridgeInv, OwnerNext \/ WebNext \/ UserNext, OnEvent(published')
    PROVE  BridgeInv'
  <1>1. UNCHANGED bridgeVars
    BY OthersSilent, BridgeQuiet
  <1> QED
    BY <1>1, OthersSilent DEF BridgeInv, OutageAnnounced, Switching,
       Attempting, AttemptPcs, Connected, bridgeVars

LEMMA BridgeInvLoop ==
    ASSUME TypeOK, SocketInv, BridgeInv, LoopNext, OnEvent(published')
    PROVE  BridgeInv'
  <1> USE HarmonyAssumption, LatchBoolean
      DEF BridgeInv, OutageAnnounced, Switching, Attempting, AttemptPcs,
          Connected, Goto, Silent, settingVars, batchVars, loopVars,
          snapshotVars, historyVars, OnEvent, Notifies, LatchResets
  <1>1. CASE LoopExit \/ ReadHubHost
    BY <1>1 DEF LoopExit, ReadHubHost, ConfiguredHost
  <1>2. CASE ForgetConfig
    BY <1>2 DEF ForgetConfig, ClearConfigIfPresent
  <1>3. CASE ForgetCommands \/ FinalDrain
    BY <1>3 DEF ForgetCommands, FinalDrain, DropPendingAndReport
  <1>4. CASE SetDisconnected \/ SleepUnwatched
    BY <1>4 DEF SetDisconnected, SleepUnwatched, SetState
  <1>5. CASE SetConnecting
    BY <1>5 DEF SetConnecting, SetState, SocketInv
  <1>6. CASE Handshake \/ OpenWebSocket \/ SendConfigRequest
    BY <1>6 DEF Handshake, OpenWebSocket, SendConfigRequest, FailConnect
  <1>7. CASE ReceiveConfig
    BY <1>7 DEF ReceiveConfig, FailConnect
  <1>8. CASE SendActivityRequest
    BY <1>8 DEF SendActivityRequest, ActivityFetched, FailConnect
  <1>9. CASE ReceiveActivity
    BY <1>9 DEF ReceiveActivity, ActivityFetched, FailConnect
  <1>10. CASE ConnectFailed
    BY <1>10 DEF ConnectFailed, SetState
  <1>11. CASE ConnectSucceeded
    BY <1>11 DEF ConnectSucceeded, SetState
  <1>12. CASE PublishConfig \/ DropSatisfiedTrigger
    BY <1>12 DEF PublishConfig, DropSatisfiedTrigger
  <1>13. CASE LivenessWait \/ ActOnReason \/ Close
    BY <1>13 DEF LivenessWait, ActOnReason, Close
  <1>14. CASE FinalState
    BY <1>14 DEF FinalState, SetState
  <1>15. CASE SwapPending \/ AbandonBatch \/ SendNext
    BY <1>15 DEF SwapPending, AbandonBatch, SendNext
  <1>16. CASE BatchSent \/ ReportBatch
    BY <1>16 DEF BatchSent, ReportBatch
  <1> QED
    BY <1>1, <1>2, <1>3, <1>4, <1>5, <1>6, <1>7, <1>8, <1>9, <1>10, <1>11,
       <1>12, <1>13, <1>14, <1>15, <1>16 DEF LoopNext

LEMMA BridgeInvStep ==
    ASSUME TypeOK, SocketInv, BridgeInv, [BridgeNext]_<<vars, bridgeVars>>
    PROVE  BridgeInv'
  <1>1. CASE UNCHANGED <<vars, bridgeVars>>
    BY <1>1 DEF BridgeInv, OutageAnnounced, Switching, Attempting, AttemptPcs,
       Connected, bridgeVars, vars, loopVars, snapshotVars
  <1> QED
    BY <1>1, BridgeInvOthers, BridgeInvLoop DEF BridgeNext, Next

LEMMA BridgeInvAlways == BridgeSpec => []BridgeInv
  <1>1. BridgeInit => Init
    BY DEF BridgeInit
  <1>2. [BridgeNext]_<<vars, bridgeVars>> => [Next]_vars
    BY DEF BridgeNext
  <1>3. BridgeSpec => Spec
    BY <1>1, <1>2, PTL DEF BridgeSpec, Spec
  <1> QED
    BY <1>3, BridgeInvInit, BridgeInvStep, TypeCorrect, SocketInvAlways, PTL
       DEF BridgeSpec

\* The bridge swallows no outage: whenever the module is in kError, the last
\* notification since the last connection was about this very address.
THEOREM OutageAnnouncedHolds == BridgeSpec => []OutageAnnounced
  <1>1. BridgeInv => OutageAnnounced
    BY DEF BridgeInv
  <1> QED
    BY <1>1, BridgeInvAlways, PTL

\* Only a failed attempt shows kError.
LEMMA OnlyFailureShowsError ==
    ASSUME Next, published' = "kError"
    PROVE  pc = "connect_failed"
  <1> USE DEF Silent, SetState
  <1>1. ~(OwnerNext \/ WebNext \/ UserNext)
    BY OthersSilent
  <1>2. ~(LoopExit \/ ReadHubHost \/ ForgetConfig \/ ForgetCommands)
    BY DEF LoopExit, ReadHubHost, ForgetConfig, ForgetCommands,
           ClearConfigIfPresent, DropPendingAndReport
  <1>3. ~(SetDisconnected \/ SleepUnwatched \/ SetConnecting \/ Handshake
          \/ OpenWebSocket \/ SendConfigRequest \/ ReceiveConfig)
    BY DEF SetDisconnected, SleepUnwatched, SetConnecting, Handshake,
           OpenWebSocket, SendConfigRequest, ReceiveConfig
  <1>4. ~(SendActivityRequest \/ ReceiveActivity \/ ConnectSucceeded
          \/ PublishConfig \/ DropSatisfiedTrigger \/ LivenessWait)
    BY DEF SendActivityRequest, ReceiveActivity, ConnectSucceeded,
           PublishConfig, DropSatisfiedTrigger, LivenessWait
  <1>5. ~(ActOnReason \/ Close \/ SwapPending \/ AbandonBatch \/ SendNext
          \/ BatchSent \/ ReportBatch)
    BY DEF ActOnReason, Close, SwapPending, AbandonBatch, SendNext,
           BatchSent, ReportBatch
  <1>6. ~(FinalDrain \/ FinalState)
    BY DEF FinalDrain, FinalState, DropPendingAndReport
  <1> QED
    BY <1>1, <1>2, <1>3, <1>4, <1>5, <1>6 DEF Next, LoopNext, ConnectFailed

\* The bridge repeats itself only after a connection or a removal: the retry
\* cycle of one outage is announced once.
THEOREM RetriesStayQuietHolds == BridgeSpec => RetriesStayQuiet
  <1> DEFINE Quiet == Notifies => announced # last_hub_host \/ removed
  <1>1. BridgeInv /\ [BridgeNext]_<<vars, bridgeVars>>
           => [Quiet]_<<vars, bridgeVars>>
    <2> SUFFICES ASSUME BridgeInv, BridgeNext, Notifies
                 PROVE  announced # last_hub_host \/ removed
      OBVIOUS
    <2>1. pc = "connect_failed" /\ ~already_notified
      BY OnlyFailureShowsError DEF BridgeNext, Notifies
    <2> QED
      BY <2>1 DEF BridgeInv, Switching, Attempting, AttemptPcs
  <1> QED
    BY <1>1, BridgeInvAlways, PTL DEF BridgeSpec, RetriesStayQuiet

-----------------------------------------------------------------------------
(* The devices screen *)

ScreenTypes ==
    /\ backlog \in Nat
    /\ list \in Hosts \cup {NoHost} /\ detail \in Hosts \cup {NoHost}

\* Where the configuration of this connection has been announced.
Announced == \/ pc \in {"check_trigger", "wait", "swap", "send",
                        "batch_report", "act_on_reason", "close"}
             \/ pc \in {"activity_send", "activity_receive"}
                /\ caller # "connect"

\* What makes ListOfCurrentHub inductive: a UI thread that has caught up
\* lists nothing or the snapshot's devices, and exactly those once the
\* configuration was announced; without a configuration there are none.
ListInv ==
    /\ ~has_config => devices = NoHost
    /\ backlog = 0 => list \in {NoHost, devices}
    /\ backlog = 0 /\ Announced => list = devices

LEMMA ListInvInit == ScreenInit => TypeOK /\ ScreenTypes /\ ListInv
  BY TypeOKInit DEF ScreenInit, Init, ScreenTypes, ListInv, Announced

\* What the screen does is, to the connection, nothing or one command.
LEMMA ScreenStepsConnection ==
    ASSUME ScreenTypes, [ScreenNext]_<<vars, screenVars>>
    PROVE  [Next]_vars
  <1>1. CASE OtherThreads
    BY <1>1 DEF OtherThreads, Next
  <1>2. CASE DrainQueue \/ ShowDeviceDetail \/ ShowDeviceList
    BY <1>2 DEF DrainQueue, ShowDeviceDetail, ShowDeviceList
  <1>3. ASSUME NEW kind \in Kinds \ {"activity"}, CommandButton(kind)
        PROVE  Next
    <2>1. EnqueueCommand(kind, detail) /\ detail \in Payloads
      BY <1>3, ScreenAssumption DEF CommandButton, ScreenTypes
    <2> QED
      BY <2>1 DEF Next, UserNext
  <1>4. CASE UNCHANGED <<vars, screenVars>>
    BY <1>4
  <1> QED
    BY <1>1, <1>2, <1>3, <1>4 DEF ScreenNext, UiNext

LEMMA ScreenTypesStep ==
    ASSUME TypeOK, ScreenTypes, [ScreenNext]_<<vars, screenVars>>
    PROVE  ScreenTypes'
  <1>1. CASE OtherThreads
    BY <1>1, ScreenAssumption DEF OtherThreads, PostToUiThread, ScreenTypes
  <1>2. CASE DrainQueue
    BY <1>2 DEF DrainQueue, RebuildDeviceList, ScreenTypes, TypeOK
  <1>3. CASE ShowDeviceDetail \/ ShowDeviceList
    BY <1>3 DEF ShowDeviceDetail, ShowDeviceList, ScreenTypes
  <1>4. ASSUME NEW kind \in Kinds \ {"activity"}, CommandButton(kind)
        PROVE  ScreenTypes'
    BY <1>4 DEF CommandButton, ScreenTypes, screenVars
  <1>5. CASE UNCHANGED <<vars, screenVars>>
    BY <1>5 DEF ScreenTypes, screenVars
  <1> QED
    BY <1>1, <1>2, <1>3, <1>4, <1>5 DEF ScreenNext, UiNext

\* A step of the connection that leaves the snapshot's devices alone and
\* does not make them announced keeps the list right.
LEMMA ListInvKept ==
    ASSUME ListInv, ScreenTypes, PostToUiThread,
           UNCHANGED <<list, has_config, devices>>,
           Announced' => Announced \/ published' = "ConfigUpdated"
    PROVE  ListInv'
  BY DEF ListInv, ScreenTypes, PostToUiThread

LEMMA ListInvLoop ==
    ASSUME TypeOK, SocketInv, SnapshotInv, ScreenTypes, ListInv,
           LoopNext, PostToUiThread, UNCHANGED list
    PROVE  ListInv'
  <1> USE ListInvKept
      DEF Announced, Goto, settingVars, batchVars, loopVars, snapshotVars,
          historyVars
  <1>1. CASE LoopExit \/ ReadHubHost
    BY <1>1 DEF LoopExit, ReadHubHost
  <1>2. CASE ForgetConfig
    BY <1>2 DEF ForgetConfig, ClearConfigIfPresent, ListInv, ScreenTypes,
                PostToUiThread
  <1>3. CASE ForgetCommands \/ FinalDrain
    BY <1>3 DEF ForgetCommands, FinalDrain
  <1>4. CASE SetDisconnected \/ SleepUnwatched \/ SetConnecting
    BY <1>4 DEF SetDisconnected, SleepUnwatched, SetConnecting
  <1>5. CASE Handshake \/ OpenWebSocket \/ SendConfigRequest
    BY <1>5 DEF Handshake, OpenWebSocket, SendConfigRequest, FailConnect
  <1>6. CASE ReceiveConfig
    <2>1. CASE pc' = "connect_failed"
      BY <1>6, <2>1 DEF ReceiveConfig, FailConnect
    <2>2. CASE pc' # "connect_failed"
      <3>1. /\ devices' = ws /\ has_config' = TRUE /\ caller' = "connect"
            /\ pc = "config_receive" /\ pc' = "activity_send"
        BY <1>6, <2>2 DEF ReceiveConfig, FailConnect
      <3>2. has_config => devices' = devices
        BY <3>1 DEF SocketInv, SocketMatchesPhase, SocketPcs, SnapshotInv,
                    SnapshotOfOneHub
      <3>3. backlog' = 0 => backlog = 0
        BY DEF PostToUiThread, ScreenTypes
      <3> QED
        BY <3>1, <3>2, <3>3 DEF ListInv
    <2> QED
      BY <2>1, <2>2
  <1>7. CASE SendActivityRequest
    BY <1>7 DEF SendActivityRequest, ActivityFetched, FailConnect
  <1>8. CASE ReceiveActivity
    BY <1>8 DEF ReceiveActivity, ActivityFetched, FailConnect
  <1>9. CASE ConnectFailed \/ ConnectSucceeded
    BY <1>9 DEF ConnectFailed, ConnectSucceeded
  <1>10. CASE PublishConfig \/ DropSatisfiedTrigger
    BY <1>10 DEF PublishConfig, DropSatisfiedTrigger
  <1>11. CASE LivenessWait \/ ActOnReason \/ Close \/ FinalState
    BY <1>11 DEF LivenessWait, ActOnReason, Close, FinalState
  <1>12. CASE SwapPending \/ AbandonBatch \/ SendNext
    BY <1>12 DEF SwapPending, AbandonBatch, SendNext
  <1>13. CASE BatchSent \/ ReportBatch
    BY <1>13 DEF BatchSent, ReportBatch
  <1> QED
    BY <1>1, <1>2, <1>3, <1>4, <1>5, <1>6, <1>7, <1>8, <1>9, <1>10, <1>11,
       <1>12, <1>13 DEF LoopNext

LEMMA ListInvStep ==
    ASSUME TypeOK, SocketInv, SnapshotInv, ScreenTypes, ListInv,
           [ScreenNext]_<<vars, screenVars>>
    PROVE  ListInv'
  <1> USE DEF settingVars, batchVars, loopVars, snapshotVars, historyVars
  <1>1. CASE OtherThreads
    <2>1. CASE LoopNext
      BY <1>1, <2>1, ListInvLoop DEF OtherThreads
    <2>2. CASE OwnerNext \/ WebNext
      <3>1. UNCHANGED <<has_config, devices>>
        BY <2>2 DEF OwnerNext, Start, RequestStop, JoinThread, WebNext,
                    TriggerReconnect, SaveHubHost
      <3> QED
        BY <1>1, <2>2, <3>1, OthersSilent, ListInvKept
           DEF OtherThreads, Announced
    <2> QED
      BY <1>1, <2>1, <2>2 DEF OtherThreads
  <1>2. CASE DrainQueue
    BY <1>2 DEF DrainQueue, RebuildDeviceList, ListInv, ScreenTypes,
                Announced, vars
  <1>3. CASE ShowDeviceDetail \/ ShowDeviceList
    BY <1>3 DEF ShowDeviceDetail, ShowDeviceList, ListInv, Announced, vars
  <1>4. ASSUME NEW kind \in Kinds \ {"activity"}, CommandButton(kind)
        PROVE  ListInv'
    BY <1>4 DEF CommandButton, EnqueueCommand, ListInv, Announced, screenVars
  <1>5. CASE UNCHANGED <<vars, screenVars>>
    BY <1>5 DEF ListInv, Announced, screenVars, vars
  <1> QED
    BY <1>1, <1>2, <1>3, <1>4, <1>5 DEF ScreenNext, UiNext

\* However far the UI thread lags and however often the hub is switched, a
\* screen that has caught up lists the current hub's devices or none, and
\* while connected exactly the connected hub's.
THEOREM ListOfCurrentHubHolds == ScreenSpec => []ListOfCurrentHub
  <1>1. ScreenSpec => [](TypeOK /\ ScreenTypes)
    BY ListInvInit, ScreenStepsConnection, TypeOKStep, ScreenTypesStep, PTL
       DEF ScreenSpec
  <1>2. ScreenInit => Init
    BY DEF ScreenInit
  <1>3. ScreenSpec => Spec
    BY <1>1, <1>2, ScreenStepsConnection, PTL DEF ScreenSpec, Spec
  <1>4. ScreenSpec => []ListInv
    BY <1>1, <1>3, ListInvInit, ListInvStep, SocketInvAlways,
       SnapshotInvAlways, PTL DEF ScreenSpec
  <1>5. ListInv => ListOfCurrentHub
    BY DEF ListInv, ListOfCurrentHub, Announced
  <1> QED
    BY <1>4, <1>5, PTL
=============================================================================
