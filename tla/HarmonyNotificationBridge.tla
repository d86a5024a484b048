---------------------- MODULE HarmonyNotificationBridge ----------------------
(***************************************************************************)
(* HarmonyNotificationBridge (core/harmony_notification_bridge.cpp)        *)
(* composed with HarmonyConnection.  The bridge subscribes synchronously,  *)
(* so its handler runs on the connection thread inside the step that       *)
(* publishes the event.                                                    *)
(***************************************************************************)
EXTENDS HarmonyConnection

VARIABLES already_notified,  \* already_notified_: the latch
          announced,         \* history: the address of the last notification,
                             \* NoHost once a connection was made since
          removed            \* history: the hub was unconfigured since then

bridgeVars == <<already_notified, announced, removed>>

\* The bridge publishes "Harmony Hub connection lost".
Notifies == published' = "kError" /\ ~already_notified

\* Mutant of LatchResets: only a recovery resets the latch.
LatchResetsOnRecovery(event) == event = "kConnected"

\* Mutant of LatchResets: every step of the retry cycle resets the latch.
LatchResetsOnRetry(event) == event \in {"kConnected", "kConnecting"}

\* The two subscriptions that reset the latch.
LatchResets(event) == event \in {"kConnected", "ConfigUpdated"}

OnEvent(event) ==
    /\ already_notified' = IF event = "kError" THEN TRUE
                           ELSE already_notified /\ ~LatchResets(event)
    /\ announced' = IF event = "kConnected" THEN NoHost
                    ELSE IF Notifies THEN last_hub_host
                    ELSE announced
    /\ removed' = ((removed \/ pc' = "unconfigured_config") /\ ~Notifies)

BridgeInit ==
    /\ Init
    /\ already_notified = FALSE
    /\ announced = NoHost
    /\ removed = FALSE

BridgeNext == Next /\ OnEvent(published')

BridgeSpec == BridgeInit /\ [][BridgeNext]_<<vars, bridgeVars>>

\* The connection thread keeps running, as in HarmonyConnection.
BridgeFairSpec == BridgeSpec /\ WF_vars(LoopNext)

-----------------------------------------------------------------------------
\* Whenever the module shows kError, the user has been notified of this very
\* address's failure since it last worked: neither the latch nor a switch
\* from one unreachable address to another swallows a notification.
OutageAnnounced == state = "kError" => announced = last_hub_host

\* The retry loop of one outage stays quiet: the same address is announced
\* again only after a connection, or after the hub was removed in between.
RetriesStayQuiet ==
    [][Notifies => announced # last_hub_host \/ removed]_<<vars, bridgeVars>>
=============================================================================
