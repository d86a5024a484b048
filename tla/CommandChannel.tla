--------------------------- MODULE CommandChannel ---------------------------
(***************************************************************************)
(* What HarmonyConnection promises of the commands handed to it, without   *)
(* threads, batches or sockets: a command is accepted once and waits until *)
(* exactly one thing becomes of it.  It is delivered, never out of order;  *)
(* or it is superseded by newer commands; or it is lost, and then the user *)
(* is owed an announcement that is eventually made.                        *)
(***************************************************************************)
EXTENDS Naturals

CONSTANT MaxCommands   \* bound: commands accepted in a behaviour

VARIABLES accepted,    \* commands 1 .. accepted were handed over
          waiting,     \* not settled yet
          delivered,   \* handed to the hub
          superseded,  \* made room for a newer command, deliberately silent
          owed,        \* lost, not announced yet
          told         \* lost and announced

channelVars == <<accepted, waiting, delivered, superseded, owed, told>>

Init ==
    /\ accepted = 0
    /\ waiting = {} /\ delivered = {} /\ superseded = {}
    /\ owed = {} /\ told = {}

\* A command arrives; at most one older one makes room for it.
Accept ==
    /\ accepted < MaxCommands
    /\ accepted' = accepted + 1
    /\ \/ /\ waiting' = waiting \cup {accepted + 1}
          /\ UNCHANGED superseded
       \/ \E c \in waiting :
            /\ waiting' = (waiting \ {c}) \cup {accepted + 1}
            /\ superseded' = superseded \cup {c}
    /\ UNCHANGED <<delivered, owed, told>>

\* Only a command newer than everything delivered before it is delivered.
Deliver(c) ==
    /\ \A d \in delivered : d < c
    /\ waiting' = waiting \ {c}
    /\ delivered' = delivered \cup {c}
    /\ UNCHANGED <<accepted, superseded, owed, told>>

Lose(c) ==
    /\ waiting' = waiting \ {c}
    /\ owed' = owed \cup {c}
    /\ UNCHANGED <<accepted, delivered, superseded, told>>

\* One announcement covers everything lost so far and what is lost with it.
Announce(lost) ==
    /\ waiting' = waiting \ lost
    /\ told' = told \cup owed \cup lost
    /\ owed' = {}
    /\ UNCHANGED <<accepted, delivered, superseded>>

Next ==
    \/ Accept
    \/ \E c \in waiting : Deliver(c) \/ Lose(c)
    \/ \E lost \in SUBSET waiting : Announce(lost)

Spec == Init /\ [][Next]_channelVars

\* A loss does not stay unannounced.
FairSpec == Spec /\ WF_channelVars(owed # {} /\ Announce({}))
=============================================================================
