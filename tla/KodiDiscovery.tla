--------------------------- MODULE KodiDiscovery ---------------------------
(***************************************************************************)
(* Which Kodi the client connects to: KodiClient::ResolveTarget() with     *)
(* DeduplicateInstances(), run by the connection loop, while the Web UI    *)
(* saves another choice (KodiSettings.svelte).  The settings are two keys, *)
(* host and instance_uuid; the loop reads them before and after a browse   *)
(* that lasts seconds, and a save is three separate requests any of which  *)
(* may fail.                                                               *)
(*                                                                         *)
(* A browse answer is a sequence of records: the device, whether its TXT   *)
(* record carries the uuid, and the address: usable (v4 or v6), none but a *)
(* hostname, or bad (no host, port 0 or unsafe characters).  What happens  *)
(* on the connection is the subject of KodiClient.                         *)
(***************************************************************************)
EXTENDS Naturals, Sequences, ConnectionWake

CONSTANTS Devices,      \* Kodi boxes, also their uuids
          Hosts,        \* addresses a user may enter
          None,         \* an empty setting, or no target
          Records,      \* the records a browse may answer with
          MaxRecords,   \* bound: records in one answer
          MaxTargetSaves      \* bound: saves from the Web UI

ASSUME DiscoveryAssumption ==
    /\ None \notin Devices \cup Hosts
    /\ (Hosts \cup {None}) \cap Records = {}
    /\ Records \subseteq [device : Devices, uuid : BOOLEAN,
                          address : {"v4", "v6", "hostname", "bad"}]
    /\ MaxRecords \in Nat /\ MaxTargetSaves \in Nat

VARIABLES
    host, instance_uuid,  \* the stored settings
    answer,               \* what the last Browse() has heard
    instances,            \* its usable records, one per instance
    target,               \* the resolved target
    discovered,           \* state_.discovered
    target_configured,    \* state_.target_configured
    selected_uuid,        \* state_.selected_uuid
    pc,                   \* where the connection loop is
    flow,                 \* the requests of a save still to be made
    applied,              \* history: the last save made all its requests
    saves                 \* history: saves begun

settingVars == <<host, instance_uuid, flow, applied, saves>>
targetVars == <<answer, instances, target, discovered, target_configured,
                selected_uuid>>
discovery_vars == <<settingVars, targetVars, pc, requested>>

-----------------------------------------------------------------------------
(* DeduplicateInstances() *)

Rank(r) == CASE r.address = "v4" -> 2 [] r.address = "v6" -> 1 [] OTHER -> 0

\* The TXT uuid, else name and port, which a device does not share.
Key(r) == <<r.uuid, r.device>>

\* One record is added, or replaces a worse one of the same instance.
AddInstance(unique, r) ==
    LET same == {i \in DOMAIN unique : Key(unique[i]) = Key(r)}
    IN  IF same = {} THEN Append(unique, r)
        ELSE [i \in DOMAIN unique |->
                 IF i \in same /\ Rank(r) > Rank(unique[i]) THEN r
                                                            ELSE unique[i]]

IsUsable(r) == r.address # "bad"

HasAddress(r) == r.address \in {"v4", "v6"}

-----------------------------------------------------------------------------
(* ResolveTarget() and the loop around it *)

\* A host override wins and skips discovery.
ReadHost ==
    /\ pc = "read_host"
    /\ \/ /\ host # None
          /\ target' = host
          /\ target_configured' = TRUE
          /\ selected_uuid' = None /\ discovered' = <<>>
          /\ pc' = "connect"
       \/ /\ host = None
          /\ pc' = "browse"
          /\ UNCHANGED <<target, target_configured, selected_uuid, discovered>>
    /\ answer' = <<>> /\ instances' = <<>>
    /\ UNCHANGED <<settingVars, requested>>

\* A record of Browse()'s answer.  The screening and DeduplicateInstances()
\* take the records one by one in the answer's order, here as each is heard.
HearRecord ==
    /\ pc = "browse" /\ Len(answer) < MaxRecords
    /\ \E r \in Records :
          /\ answer' = Append(answer, r)
          /\ instances' = IF IsUsable(r) THEN AddInstance(instances, r) ELSE instances
    /\ UNCHANGED <<settingVars, target, discovered, target_configured,
                   selected_uuid, pc, requested>>

\* Browse() returns after browse_timeout_, with whatever was heard.
Browse ==
    /\ pc = "browse"
    /\ pc' = "choose"
    /\ UNCHANGED <<settingVars, targetVars, requested>>

\* The instance the settings select: the saved one, else the only one.
Candidates ==
    IF instance_uuid # None
    THEN {i \in DOMAIN instances :
             instances[i].uuid /\ instances[i].device = instance_uuid}
    ELSE IF Len(instances) = 1 THEN {1} ELSE {}

\* An instance without an address is listed but not connected to.
ChooseInstance ==
    LET chosen == {i \in Candidates : HasAddress(instances[i])}
    IN  /\ pc = "choose"
        /\ target' = IF chosen = {} THEN None
                     ELSE instances[CHOOSE i \in chosen : TRUE]
        /\ discovered' = instances
        /\ target_configured' = (instance_uuid # None)
        /\ selected_uuid' = instance_uuid
        /\ pc' = IF target' = None THEN "sleep" ELSE "connect"
        /\ UNCHANGED <<settingVars, answer, instances, requested>>

\* Mutant of KeepTrigger: a new connection drops the trigger.
DropTrigger == ClearTriggerLocked

\* A trigger that arrives while the loop connects waits for the next wait.
KeepTrigger == UNCHANGED requested

Connects ==
    /\ pc = "connect"
    /\ pc' = "connected"
    /\ KeepTrigger
    /\ UNCHANGED <<settingVars, targetVars>>

ConnectFails ==
    /\ pc = "connect"
    /\ pc' = "sleep"
    /\ UNCHANGED <<settingVars, targetVars, requested>>

Sleep ==
    /\ pc = "sleep"
    /\ WaitReturns(FALSE, FALSE)
    /\ pc' = "read_host"
    /\ UNCHANGED <<settingVars, targetVars>>

AfterWait(reason) == IF reason = "kTriggered" THEN "read_host" ELSE "connected"

ConnectedWait ==
    /\ pc = "connected"
    /\ WaitReturns(FALSE, FALSE)
    /\ pc' = AfterWait(WakeReason(FALSE, FALSE))
    /\ UNCHANGED <<settingVars, targetVars>>

ConnectionDrops ==
    /\ pc = "connected"
    /\ pc' = "read_host"
    /\ UNCHANGED <<settingVars, targetVars, requested>>

-----------------------------------------------------------------------------
(* The Web UI's save(): host, instance_uuid and reconnect, in turn. *)

Save(new_host, new_uuid) ==
    /\ flow = <<>> /\ saves < MaxTargetSaves
    /\ saves' = saves + 1
    /\ flow' = << <<"host", new_host>>, <<"uuid", new_uuid>>, <<"reconnect">> >>
    /\ applied' = FALSE
    /\ UNCHANGED <<host, instance_uuid, targetVars, pc, requested>>

WriteHost ==
    /\ flow # <<>> /\ Head(flow)[1] = "host"
    /\ host' = Head(flow)[2]
    /\ flow' = Tail(flow)
    /\ UNCHANGED <<instance_uuid, applied, saves, targetVars, pc, requested>>

WriteUuid ==
    /\ flow # <<>> /\ Head(flow)[1] = "uuid"
    /\ instance_uuid' = Head(flow)[2]
    /\ flow' = Tail(flow)
    /\ UNCHANGED <<host, applied, saves, targetVars, pc, requested>>

Reconnect ==
    /\ flow # <<>> /\ Head(flow)[1] = "reconnect"
    /\ Trigger
    /\ flow' = <<>> /\ applied' = TRUE
    /\ UNCHANGED <<host, instance_uuid, saves, targetVars, pc>>

\* A request that fails ends the save; what was written stays.
RequestFails ==
    /\ flow # <<>>
    /\ flow' = <<>>
    /\ UNCHANGED <<host, instance_uuid, applied, saves, targetVars, pc,
                   requested>>

-----------------------------------------------------------------------------
\* Settings a completed save, or none yet, leaves behind.
DiscoveryInit ==
    /\ \/ host \in Hosts /\ instance_uuid = None
       \/ host = None /\ instance_uuid \in Devices \cup {None}
    /\ answer = <<>> /\ instances = <<>> /\ discovered = <<>>
    /\ target = None /\ target_configured = FALSE /\ selected_uuid = None
    /\ pc = "read_host" /\ requested = FALSE
    /\ flow = <<>> /\ applied = TRUE /\ saves = 0

LoopNext == \/ ReadHost \/ HearRecord \/ Browse \/ ChooseInstance \/ Connects \/ ConnectFails
            \/ Sleep \/ ConnectedWait

SaveNext ==
    \/ \E h \in Hosts : Save(h, None)
    \/ \E u \in Devices : Save(None, u)
    \/ WriteHost \/ WriteUuid \/ Reconnect \/ RequestFails

DiscoveryNext == LoopNext \/ ConnectionDrops \/ SaveNext

DiscoverySpec == DiscoveryInit /\ [][DiscoveryNext]_discovery_vars

\* The loop never blocks: a browse, a connect and a wait all have a timeout.
\* A connection need not ever drop.
DiscoveryFairSpec == DiscoverySpec /\ WF_discovery_vars(LoopNext)

-----------------------------------------------------------------------------
\* Every variable stays in its type, and the list shown holds an instance
\* once (DeduplicateInstances()).
DiscoveryTypeOK ==
    /\ host \in Hosts \cup {None} /\ instance_uuid \in Devices \cup {None}
    /\ answer \in Seq(Records) /\ Len(answer) <= MaxRecords
    /\ instances \in Seq(Records) /\ discovered \in Seq(Records)
    /\ target \in Hosts \cup Records \cup {None}
    /\ target_configured \in BOOLEAN
    /\ selected_uuid \in Devices \cup {None}
    /\ pc \in {"read_host", "browse", "choose", "connect", "connected",
               "sleep"}
    /\ requested \in BOOLEAN /\ applied \in BOOLEAN /\ saves \in 0..MaxTargetSaves
    /\ Len(flow) <= 3
    /\ \A i, j \in DOMAIN discovered :
          Key(discovered[i]) = Key(discovered[j]) => i = j

Heard == {answer[i] : i \in {j \in DOMAIN answer : IsUsable(answer[j])}}

\* The target of a discovery is the selected device at its best address, or
\* the only device that answered: the client never guesses between two Kodis
\* and never falls back from the selected one, however many records of one
\* device a browse hears and in whatever order.
NeverGuesses ==
    pc \in {"connect", "connected"} /\ target \notin Hosts =>
        /\ target \in Heard /\ HasAddress(target)
        /\ \A r \in Heard : Key(r) = Key(target) => Rank(r) <= Rank(target)
        /\ \/ target.device = selected_uuid
           \/ /\ selected_uuid = None
              /\ \A r \in Heard : r.device = target.device

\* A selected device that was heard with an address is not given up for a
\* record of it that has none.
SelectedFound ==
    pc = "sleep" /\ target = None =>
        ~\E r \in Heard : r.uuid /\ r.device = selected_uuid /\ HasAddress(r)

\* The target the settings ask for.
AsSaved == IF host # None THEN target = host
           ELSE /\ target \notin Hosts
                /\ selected_uuid = instance_uuid

\* Once a save is through and its trigger consumed, a connection is to what
\* was saved, at whatever point of a resolution or a connect it came.
SavedTargetUsed ==
    pc = "connected" /\ flow = <<>> /\ applied /\ ~requested => AsSaved

\* Whatever a browse hears and whenever a target is saved, KodiClient connects
\* to the Kodi that was asked for, never to a guess.
DiscoverySafe == DiscoveryTypeOK /\ NeverGuesses /\ SelectedFound /\ SavedTargetUsed

\* A saved address is tried, also when the loop was connected to another
\* Kodi (TriggerReconnect()), unless another save follows.
SavedHostTried ==
    \A h \in Hosts :
        []<>(flow = <<>> /\ applied /\ host = h =>
                 pc \in {"connect", "connected"} /\ target = h)
=============================================================================
