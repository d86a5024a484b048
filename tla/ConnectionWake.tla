--------------------------- MODULE ConnectionWake ---------------------------
(***************************************************************************)
(* The wake channel a module's connection loop sleeps on                   *)
(* (core/connection_wake.h): one flag, set by a reconnect request, and the *)
(* order in which a wait reports what ended it.  Every operation runs      *)
(* under the channel's mutex, so each is one step of the modules that      *)
(* extend this one.                                                        *)
(***************************************************************************)

VARIABLE requested   \* requested_: a reconnect was asked for and not consumed

\* What ends a wait: ConnectionWake::Reason.
WakeReasons == {"kTimeout", "kTriggered", "kCommandPending", "kStopRequested"}

\* Trigger(): asks the loop to re-resolve its target.
Trigger == requested' = TRUE

\* ClearTriggerLocked(): drops a trigger that is already satisfied.
ClearTriggerLocked == requested' = FALSE

\* The reason Wait() reports when it returns: a stop wins over a trigger, a
\* trigger over queued work, queued work over the timeout.
WakeReason(stop, workPending) ==
    IF stop THEN "kStopRequested"
    ELSE IF requested THEN "kTriggered"
    ELSE IF workPending THEN "kCommandPending"
    ELSE "kTimeout"

\* Wait() returns: a trigger is consumed only by the wait that reports it.
\* The delay may elapse at any moment, so a wait may always return.
WaitReturns(stop, workPending) ==
    requested' = (requested /\ WakeReason(stop, workPending) # "kTriggered")
=============================================================================
