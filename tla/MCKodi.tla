------------------------------- MODULE MCKodi -------------------------------
(***************************************************************************)
(* KodiClient's two queues, one at a time: a behaviour chooses a subject   *)
(* and issues only commands or only library requests.  The commands meet a *)
(* Kodi that plays or is idle at the client's initial volume; the listings *)
(* one that pauses or is idle at another, and error replies.  The run      *)
(* kodi_liveness mixes commands and requests.                              *)
(***************************************************************************)
EXTENDS KodiClient

VARIABLE subject      \* what this behaviour issues

QueuesInit ==
    /\ Init /\ subject \in {"commands", "listings"}
    /\ LET loud  == kodi.volume # volume
           moves == kodi.item # NoItem /\ kodi.speed = 1
           stays == kodi.item # NoItem /\ kodi.speed = 0
       IN  IF subject = "commands" THEN ~loud /\ ~stays ELSE loud /\ ~moves

OnlySubject ==
    \/ /\ subject = "commands" /\ issued' = 0
       /\ \A i \in DOMAIN inbox' : inbox'[i].ok
    \/ subject = "listings" /\ accepted' = 0

QueuesNext == Next /\ OnlySubject /\ UNCHANGED subject

QueuesSpec == QueuesInit /\ [][QueuesNext]_<<vars, subject>>
=============================================================================
