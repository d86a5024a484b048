---------------------------- MODULE DevicesScreen ----------------------------
(***************************************************************************)
(* DevicesScreen (ui/screens/devices_screen.cpp) composed with             *)
(* HarmonyConnection.  The screen subscribes through the UI dispatch queue *)
(* (ui/ui_dispatch.cpp): an event is posted by the connection thread and   *)
(* handled later on the UI thread, where the handler re-reads Snapshot().  *)
(* HarmonyConfigUpdatedEvent carries no data, so the queue is the number   *)
(* of such events not handled yet.  A command button carries the action    *)
(* string of the hub whose device it was built from.                       *)
(***************************************************************************)
EXTENDS HarmonyConnection

CONSTANT MaxBacklog      \* bound: events the UI thread may lag behind

ASSUME ScreenAssumption == MaxBacklog \in Nat /\ Payloads = Hosts

VARIABLES backlog,       \* HarmonyConfigUpdatedEvents posted, not handled
          draining,      \* DrainQueue() has not emptied the queue yet
          list,          \* the hub whose devices list_container_ lists
          detail         \* the hub whose commands detail_container_ shows,
                         \* NoHost while it is hidden

screenVars == <<backlog, draining, list, detail>>

\* SubscribeUi(): publishing posts to the UI dispatch queue.
PostToUiThread ==
    /\ backlog' = backlog + IF published' = "ConfigUpdated" THEN 1 ELSE 0
    /\ backlog' <= MaxBacklog

\* Any step of the connection, the Web UI or the owner.
OtherThreads ==
    /\ LoopNext \/ OwnerNext \/ WebNext
    /\ PostToUiThread
    /\ UNCHANGED <<draining, list, detail>>

\* RebuildDeviceList(): while configured, the command view is left alone.
RebuildDeviceList ==
    /\ list' = IF has_config THEN devices ELSE NoHost
    /\ detail' = IF has_config THEN detail ELSE NoHost

\* DrainQueue() handles one event; it returns once the queue is empty.
DrainQueue ==
    /\ backlog > 0
    /\ backlog' = backlog - 1
    /\ draining' = (backlog > 1)
    /\ RebuildDeviceList
    /\ UNCHANGED vars

\* OnDeviceButtonClicked() and ShowDeviceDetail(): a button whose device is
\* not in the current snapshot is ignored.
ShowDeviceDetail ==
    /\ ~draining /\ list # NoHost /\ detail = NoHost
    /\ has_config /\ devices = list
    /\ detail' = list
    /\ UNCHANGED <<vars, backlog, draining, list>>

\* OnBackButtonClicked() and ShowDeviceList()
ShowDeviceList ==
    /\ ~draining /\ detail # NoHost
    /\ detail' = NoHost
    /\ UNCHANGED <<vars, backlog, draining, list>>

\* The three command button handlers.
CommandButton(kind) ==
    /\ ~draining /\ detail # NoHost
    /\ EnqueueCommand(kind, detail)
    /\ UNCHANGED screenVars

ScreenInit ==
    /\ Init
    /\ backlog = 0 /\ draining = FALSE
    /\ list = NoHost /\ detail = NoHost

UiNext == \/ DrainQueue \/ ShowDeviceDetail \/ ShowDeviceList
          \/ \E kind \in Kinds \ {"activity"} : CommandButton(kind)

ScreenNext == OtherThreads \/ UiNext

ScreenSpec == ScreenInit /\ [][ScreenNext]_<<vars, screenVars>>

-----------------------------------------------------------------------------
\* Once the UI thread has caught up, the device list never shows another
\* hub's devices, and while connected it shows exactly the connected hub's.
ListOfCurrentHub ==
    backlog = 0 =>
      /\ list \in {NoHost, devices}
      /\ pc = "wait" => list = devices
=============================================================================
