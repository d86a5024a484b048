----------------------------- MODULE SettingsApi -----------------------------
(***************************************************************************)
(* Settings: core/storage over the platform's stores, and the routes of    *)
(* core/settings_routes that write, erase, back up and restore them, as    *)
(* called by concurrent HTTP workers and by the quick settings panel.      *)
(*                                                                         *)
(* Storage's mutex makes each call one step; a route is a sequence of      *)
(* them.  A restore is one step per entry, so other writes, readers and a  *)
(* loss of power fall between its entries.  JSON and schema versions are   *)
(* abstracted: an entry is a key with a value, or Junk.                    *)
(***************************************************************************)
EXTENDS Naturals, Sequences, FiniteSets, SequencesExt

CONSTANTS HttpWorkers,
          SettingKeys,      \* (module, key) pairs; DeviceName is one of them
          DeviceName,
          ReservedKey,      \* AdminAuthService's kModuleId, kPasswordKey
          CrashKey,         \* what LogCrashDiagnostics() stores at every boot
          BadKey,           \* too long, or with a path separator
          SettingValues, Unset,
          ValidFor,         \* the values each module's validator accepts
          Hostnames,        \* the values IsValidHostnameLabel() accepts
          EditedFiles,      \* backup files a user may have put together
          Junk,             \* an entry that is no object, or lacks a field
          DefaultName,      \* "homedeck"
          MaxSettingWrites  \* bound: requests and panel writes

\* What an entry that parses looks like.
FileEntries == [key : SettingKeys \cup {ReservedKey, BadKey}, value : SettingValues]

ASSUME SettingsAssumption ==
    /\ {DeviceName, CrashKey} \subseteq SettingKeys /\ IsFiniteSet(SettingKeys)
    /\ {ReservedKey, BadKey} \cap SettingKeys = {}
    /\ Unset \notin SettingValues /\ MaxSettingWrites \in Nat
    /\ \A k \in SettingKeys : ValidFor[k] \subseteq SettingValues
    /\ EditedFiles \subseteq Seq(FileEntries \cup {Junk}) /\ Junk \notin FileEntries

VARIABLES settings,         \* the settings store
          request,          \* per worker: the request it serves
          backup,           \* the file downloaded last
          advertised,       \* the mDNS host name
          persisted_names,  \* names that have been stored
          disturbed,        \* workers whose keys others have written since
          writes_left

settings_vars == <<settings, request, backup, advertised, persisted_names,
                   disturbed, writes_left>>

Ready == [kind |-> "ready"]
IsReservedSettingsKey(key) == key = ReservedKey
NameOf(store) == IF store[DeviceName] = Unset THEN DefaultName ELSE store[DeviceName]

-----------------------------------------------------------------------------
\* A store's Set(): it may fail and leave the old value, or fail to commit
\* a value it then still serves.
NvsSetBlob(key, value, ok) ==
    /\ \/ ok /\ settings' = [k \in DOMAIN settings \cup {key} |->
                              IF k = key THEN value ELSE settings[k]]
       \/ ~ok /\ UNCHANGED settings
       \/ ~ok /\ settings' = [k \in DOMAIN settings \cup {key} |->
                               IF k = key THEN value ELSE settings[k]]
    /\ persisted_names' = persisted_names \cup {NameOf(settings')}

\* A store's Erase().  One that cannot open the namespace says it succeeded.
NvsEraseBlob(key) ==
    /\ settings' \in {settings, [settings EXCEPT ![key] = Unset]}
    /\ persisted_names' = persisted_names \cup {NameOf(settings')}

\* Storage::SetSetting(): refused for the reserved key.
SetSetting(key, value, ok) ==
    IF IsReservedSettingsKey(key) THEN ~ok /\ UNCHANGED <<settings, persisted_names>>
    ELSE NvsSetBlob(key, value, ok)

IsValidStoreSegment(key) == key # BadKey

Writes(w) ==    \* others' restores no longer have the store to themselves
    disturbed' = disturbed \cup (HttpWorkers \ {w})

\* The checks of POST /api/settings after the fields' syntax.
Accepts(key, value) ==
    /\ ~IsReservedSettingsKey(key)
    /\ value \in ValidFor[key]
    /\ key = DeviceName => value \in Hostnames

\* POST /api/settings: check and write.  A stored device name is then
\* announced, in a step of its own.
PostSetting(w, key, value) ==
    /\ request[w].kind \in {"ready", "answered"} /\ writes_left > 0
    /\ Accepts(key, value)
    /\ \E ok \in BOOLEAN :
          /\ SetSetting(key, value, ok)
          /\ request' = [request EXCEPT ![w] =
                           IF ok /\ key = DeviceName
                           THEN [kind |-> "announce", name |-> value] ELSE Ready]
    /\ Writes(w) /\ writes_left' = writes_left - 1
    /\ UNCHANGED <<backup, advertised>>

\* on_device_name_committed: mdns_hostname_set() may fail.
DeviceNameCommitted(w) ==
    /\ request[w].kind = "announce"
    /\ advertised' \in {request[w].name, advertised}
    /\ request' = [request EXCEPT ![w] = Ready]
    /\ UNCHANGED <<settings, backup, persisted_names, disturbed, writes_left>>

\* POST /api/settings/erase.
EraseSetting(w, key) ==
    /\ request[w].kind \in {"ready", "answered"} /\ writes_left > 0
    /\ ~IsReservedSettingsKey(key)
    /\ NvsEraseBlob(key)
    /\ request' = [request EXCEPT ![w] = Ready]
    /\ Writes(w) /\ writes_left' = writes_left - 1
    /\ UNCHANGED <<backup, advertised>>

\* The quick settings panel stores a slider's value from the UI thread.
PanelSaves(key, value) ==
    /\ writes_left > 0 /\ key \notin {DeviceName, CrashKey} /\ value \in ValidFor[key]
    /\ \E ok \in BOOLEAN : SetSetting(key, value, ok)
    /\ disturbed' = HttpWorkers /\ writes_left' = writes_left - 1
    /\ UNCHANGED <<request, backup, advertised>>

-----------------------------------------------------------------------------
\* The store's entries, then Storage::ListAllSettings(), under the mutex.
ListAll ==
    {[key |-> k, value |-> settings[k]] : k \in {k \in DOMAIN settings : settings[k] # Unset}}

ListAllSettings ==
    SetToSeq({e \in ListAll : ~IsReservedSettingsKey(e.key)})

\* GET /api/backup, saved by BackupSettings.svelte's downloadBackup().
DownloadBackup ==
    /\ backup' = ListAllSettings /\ backup' # backup
    /\ UNCHANGED <<settings, request, advertised, persisted_names, disturbed, writes_left>>

\* POST /api/backup/restore with the file downloaded last, or an edited one.
RestoreBegin(w, file) ==
    /\ request[w].kind \in {"ready", "answered"} /\ writes_left > 0
    /\ request' = [request EXCEPT ![w] =
                     [kind |-> "restore", file |-> file, next |-> 1, applied |-> 0,
                      skipped |-> 0, failed |-> 0, rejected |-> 0]]
    /\ disturbed' = disturbed \ {w} /\ writes_left' = writes_left - 1
    /\ UNCHANGED <<settings, backup, advertised, persisted_names>>

\* Mutant of Counts: entries that were not written are not reported.
CountsSuccesses(w, field) ==
    request' = IF field = "failed" THEN [request EXCEPT ![w].next = @ + 1]
               ELSE [request EXCEPT ![w].next = @ + 1, ![w][field] = @ + 1]

\* A restore's progress with one more entry counted under field.
EntryCounted(r, field) == [r EXCEPT !.next = @ + 1, ![field] = @ + 1]

Counts(w, field) == request' = [request EXCEPT ![w] = EntryCounted(@, field)]

Rejects(e) == IsReservedSettingsKey(e.key) \/ e.value \notin ValidFor[e.key]

Entry(w) == request[w].file[request[w].next]

\* One entry: skipped, rejected, failed or applied.  Unlike a POST, a
\* restore neither checks nor announces a device name.
RestoreEntry(w) ==
    /\ request[w].kind = "restore" /\ request[w].next <= Len(request[w].file)
    /\ LET e == Entry(w)
       IN  IF e = Junk
           THEN Counts(w, "skipped") /\ UNCHANGED <<settings, persisted_names, disturbed>>
           ELSE IF ~IsReservedSettingsKey(e.key) /\ ~IsValidStoreSegment(e.key)
           THEN Counts(w, "failed") /\ UNCHANGED <<settings, persisted_names, disturbed>>
           ELSE IF Rejects(e)
           THEN Counts(w, "rejected") /\ UNCHANGED <<settings, persisted_names, disturbed>>
           ELSE \E ok \in BOOLEAN :
                   /\ SetSetting(e.key, e.value, ok) /\ Writes(w)
                   /\ Counts(w, IF ok THEN "applied" ELSE "failed")
    /\ UNCHANGED <<backup, advertised, writes_left>>

\* The answer, which BackupSettings.svelte shows.
RestoreAnswer(w) ==
    /\ request[w].kind = "restore" /\ request[w].next > Len(request[w].file)
    /\ request' = [request EXCEPT ![w].kind = "answered"]
    /\ UNCHANGED <<settings, backup, advertised, persisted_names, disturbed, writes_left>>

LogCrashDiagnostics ==
    \E reason \in ValidFor[CrashKey], ok \in BOOLEAN : SetSetting(CrashKey, reason, ok)

\* A restart, also in the middle of a request: ResolveDeviceName() reads
\* the name that is advertised from then on, and LogCrashDiagnostics()
\* stores the reason for the restart.
SettingsReboot ==
    /\ request' = [w \in HttpWorkers |-> Ready] /\ advertised' = NameOf(settings)
    /\ LogCrashDiagnostics
    /\ UNCHANGED <<backup, disturbed, writes_left>>

SettingsInit ==
    /\ settings = [k \in SettingKeys |-> Unset]
    /\ request = [w \in HttpWorkers |-> Ready] /\ backup = <<>>
    /\ advertised = DefaultName /\ persisted_names = {DefaultName}
    /\ disturbed = {} /\ writes_left = MaxSettingWrites

SettingsNext ==
    \/ \E w \in HttpWorkers, k \in SettingKeys :
          \/ EraseSetting(w, k)
          \/ \E v \in SettingValues : PostSetting(w, k, v)
    \/ \E k \in SettingKeys, v \in SettingValues : PanelSaves(k, v)
    \/ DownloadBackup
    \/ \E w \in HttpWorkers :
          \/ DeviceNameCommitted(w) \/ RestoreEntry(w) \/ RestoreAnswer(w)
          \/ \E file \in EditedFiles \cup {backup} : RestoreBegin(w, file)
    \/ SettingsReboot

SettingsSpec == SettingsInit /\ [][SettingsNext]_settings_vars

-----------------------------------------------------------------------------
(***************************************************************************)
(* Properties.                                                             *)
(***************************************************************************)
\* Types; the admin password's key is never among the settings, nor in a
\* backup, whatever file is restored.
SettingsTypeOK ==
    /\ DOMAIN settings = SettingKeys
    /\ \A k \in SettingKeys : settings[k] \in SettingValues \cup {Unset}
    /\ \A i \in 1..Len(backup) : backup[i].key \in SettingKeys
    /\ disturbed \subseteq HttpWorkers /\ writes_left \in 0..MaxSettingWrites

\* No door into the store, a restore's included, lets a value in that the
\* module's validator refuses: modules build URLs from what they read.
StoredValid ==
    \A k \in SettingKeys : settings[k] \in ValidFor[k] \cup {Unset}

\* Every entry of a restored file is accounted for in the answer.
RestoreAccounts ==
    \A w \in HttpWorkers : request[w].kind = "answered" =>
       request[w].applied + request[w].skipped + request[w].failed + request[w].rejected
          = Len(request[w].file)

\* The i-th entry of a file is the last one among the first n for its key.
LastOfKey(file, i, n) == \A j \in (i + 1)..n : file[j].key # file[i].key

\* A restore that reports every entry applied has put every entry back,
\* unless another writer came between; of several for one key, the last.
RestoreReproduces ==
    \A w \in HttpWorkers :
       /\ request[w].kind = "answered" /\ w \notin disturbed
       /\ request[w].applied = Len(request[w].file)
       => \A i \in 1..Len(request[w].file) :
             LastOfKey(request[w].file, i, Len(request[w].file)) =>
                settings[request[w].file[i].key] = request[w].file[i].value

\* The device never advertises a name that was not stored first, so a
\* restart keeps it reachable under a name it has had.
NameNeverAhead == advertised \in persisted_names

\* Whatever is posted and restored by workers that interleave, some writes
\* failing: the store holds valid values only, a restore's answer accounts
\* for every entry and is true, and the device advertises no unstored name.
SettingsSafe ==
    /\ SettingsTypeOK /\ StoredValid /\ RestoreAccounts /\ RestoreReproduces
    /\ NameNeverAhead
=============================================================================
