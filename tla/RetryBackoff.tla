---------------------------- MODULE RetryBackoff ----------------------------
(***************************************************************************)
(* The exponential backoff between connection attempts                     *)
(* (core/retry_backoff.h).  Delays are in an abstract unit.                *)
(***************************************************************************)
EXTENDS Naturals

CONSTANTS InitialDelay,  \* initial_delay_
          MaxDelay       \* max_delay_

ASSUME DelayAssumption ==
    /\ InitialDelay \in Nat \ {0}
    /\ MaxDelay \in Nat
    /\ InitialDelay <= MaxDelay

VARIABLE current_delay   \* current_delay_: what the next failure waits

BackoffInit == current_delay = InitialDelay

\* NextDelay(): the caller waits current_delay, the one after waits twice it.
NextDelay ==
    current_delay' = IF current_delay * 2 < MaxDelay THEN current_delay * 2
                                                     ELSE MaxDelay

\* ResetAttempts(): a successful connection starts the sequence over.
ResetAttempts == current_delay' = InitialDelay
=============================================================================
