--------------------------- MODULE SettingsPages ---------------------------
(***************************************************************************)
(* The settings pages of the Web UI that save through POST /api/settings   *)
(* and then tell a running service: DeviceNameSettings.svelte,             *)
(* HarmonySettings.svelte and KodiSettings.svelte, with the status and     *)
(* reconnect requests of core/harmony_routes.cpp and core/kodi_routes.cpp. *)
(*                                                                         *)
(* A page is a form over one or two stored keys.  Its requests take time:  *)
(* the device serves one at some moment after it is sent, the answer       *)
(* arrives at another, and a request may be lost before or after it is     *)
(* served.  A click may fire twice before the page disables its button,    *)
(* which is what tripGuard() is for.  The service works with the target it *)
(* last read from the settings; what it does with it is the subject of     *)
(* HarmonyConnection, KodiDiscovery and KodiClient.  A lapsed session is   *)
(* the subject of AdminAuth.                                               *)
(***************************************************************************)
EXTENDS Naturals, Sequences, SequencesExt

CONSTANTS PageKinds,       \* the pages to look at
          MaxPageEvents    \* bound: clicks, edits and requests lost

Empty == ""

\* A page: what a user may enter, by key ("bad" fails validation), and whether
\* an empty form can be saved.
DeviceNamePage == [forms |-> {<<"a">>, <<"b">>, <<"bad">>, <<Empty>>}, mayBeEmpty |-> FALSE]
HarmonyPage == [forms |-> {<<"a">>, <<Empty>>, <<"bad">>}, mayBeEmpty |-> TRUE]
KodiPage == [forms |-> {<<"a", Empty>>, <<Empty, "u">>, <<"bad", Empty>>, <<Empty, Empty>>},
             mayBeEmpty |-> FALSE]

Pages == [device_name |-> DeviceNamePage, harmony |-> HarmonyPage, kodi |-> KodiPage]

ASSUME PagesAssumption ==
    /\ PageKinds \subseteq DOMAIN Pages
    /\ MaxPageEvents \in Nat

VARIABLES
    page_kind,         \* which page is open
    page_form,         \* hubHost, deviceName; choice and manualHost, by key
    page_loaded, page_error,   \* loaded; error is set
    page_loads,        \* GET /api/settings requests in flight
    page_saving,       \* saving: 0, or the write under way
    page_post,         \* the write in flight
    page_reconnects,   \* the reconnect requests in flight
    page_saved,        \* saved
    page_save_error,   \* saveError
    page_status,       \* status: <<>>, or the sample last received
    page_statuses,     \* status requests in flight
    device_stored,     \* the settings, by key
    device_target,     \* the target the service works with
    device_wake,       \* its wake request
    device_epoch,      \* history: writes made so far
    page_submitted,    \* history: the form of the last save
    page_epoch,        \* history: device_epoch when that save was complete
    page_unheard,      \* history: the reconnect request of that save failed
    page_events        \* history: what the bound bounds

load_vars == <<page_loaded, page_error, page_loads>>
post_vars == <<page_saving, page_post, page_saved, page_save_error, page_submitted>>
heard_vars == <<page_reconnects, page_epoch, page_unheard>>
save_vars == <<post_vars, heard_vars>>
status_vars == <<page_status, page_statuses>>
device_vars == <<device_stored, device_target, device_wake, device_epoch>>
page_vars == <<page_kind, page_form, load_vars, save_vars, status_vars, device_vars,
               page_events>>

CountPage == page_events < MaxPageEvents /\ page_events' = page_events + 1

\* tripGuard(): the call is dropped while another is under way.
tripGuard(busy) == busy

NoRequest == [at |-> "idle"]

\* A Kodi host hides a stored uuid; a device without a name is called homedeck.
KodiForm(stored) == IF stored[1] # Empty THEN <<stored[1], Empty>> ELSE stored
DeviceNameForm(stored) == IF stored[1] = Empty THEN <<"homedeck">> ELSE stored

\* How what is stored fills the form.
FormOf(stored) ==
    CASE page_kind = "kodi" -> KodiForm(stored)
      [] page_kind = "device_name" -> DeviceNameForm(stored)
      [] page_kind = "harmony" -> stored

\* The validation of hubHostError() and kodiHostError(), and of a device name.
hostError(form) == "bad" \in ToSet(form)
deviceNameError(form) == form[1] \in {"bad", Empty}

Valid(form) == IF page_kind = "device_name" THEN ~deviceNameError(form) ELSE ~hostError(form)

\* The Save button is not disabled.
Submittable(form) == Pages[page_kind].mayBeEmpty \/ \E i \in DOMAIN form : form[i] # Empty

HasService == page_kind # "device_name"

-----------------------------------------------------------------------------
(* loadHubHost(), loadSettings(), loadDeviceName() *)

\* Retry, shown with an error.  The first call is made when the page opens.
Retry ==
    /\ CountPage
    /\ page_error \/ page_loads # <<>>
    /\ ~page_loaded
    /\ ~tripGuard(page_loads # <<>>)
    /\ page_loads' = Append(page_loads, [at |-> "sent"])
    /\ UNCHANGED <<page_kind, page_form, page_loaded, page_error, save_vars,
                   status_vars, device_vars>>

\* GET /api/settings is served.
ServeLoad(i) ==
    /\ page_loads[i].at = "sent"
    /\ page_loads' = [page_loads EXCEPT ![i] = [at |-> "answered", data |-> device_stored]]
    /\ UNCHANGED <<page_kind, page_form, page_loaded, page_error, save_vars,
                   status_vars, device_vars, page_events>>

\* loadJson() resolves: the form is filled.
LoadArrives(i) ==
    /\ page_loads[i].at = "answered"
    /\ page_loads' = RemoveAt(page_loads, i)
    /\ page_form' = FormOf(page_loads[i].data)
    /\ page_loaded' = TRUE /\ page_error' = FALSE
    /\ UNCHANGED <<page_kind, save_vars, status_vars, device_vars, page_events>>

\* loadJson() resolves with an error.
LoadFails(i) ==
    /\ CountPage
    /\ page_loads' = RemoveAt(page_loads, i)
    /\ page_error' = TRUE
    /\ UNCHANGED <<page_kind, page_form, page_loaded, save_vars, status_vars,
                   device_vars>>

-----------------------------------------------------------------------------
(* loadStatus() *)

\* loadStatus() up to its await.
StatusAsked(asked) ==
    IF tripGuard(asked # <<>>) THEN asked ELSE Append(asked, [at |-> "sent"])

\* Refresh.
Refreshed ==
    /\ CountPage
    /\ HasService /\ page_statuses = <<>>
    /\ page_statuses' = StatusAsked(page_statuses)
    /\ UNCHANGED <<page_kind, page_form, load_vars, save_vars, page_status, device_vars>>

\* GET /api/harmony/status, GET /api/kodi/status: the snapshot as it is.
ServePageStatus(i) ==
    /\ page_statuses[i].at = "sent"
    /\ page_statuses' = [page_statuses EXCEPT
                             ![i] = [at |-> "answered",
                                     data |-> <<device_target, device_epoch>>]]
    /\ UNCHANGED <<page_kind, page_form, load_vars, save_vars, page_status,
                   device_vars, page_events>>

\* The answer is shown, whatever has been saved since.
StatusArrives(i) ==
    /\ page_statuses[i].at = "answered"
    /\ page_statuses' = RemoveAt(page_statuses, i)
    /\ page_status' = page_statuses[i].data
    /\ UNCHANGED <<page_kind, page_form, load_vars, save_vars, device_vars, page_events>>

\* statusError is shown; status stays.
StatusFails(i) ==
    /\ CountPage
    /\ page_statuses' = RemoveAt(page_statuses, i)
    /\ UNCHANGED <<page_kind, page_form, load_vars, save_vars, page_status, device_vars>>

-----------------------------------------------------------------------------
(* saveDeviceName(), saveHubHost(), save() *)

\* The inputs are disabled while saving.  Typing clears the last outcome;
\* choosing another Kodi instance does not.
EditForm(form) ==
    /\ CountPage
    /\ page_loaded /\ page_saving = 0
    /\ form # page_form
    /\ page_form' = form
    /\ IF page_kind = "kodi" /\ form[1] = Empty
       THEN UNCHANGED <<page_saved, page_save_error>>
       ELSE page_saved' = FALSE /\ page_save_error' = "none"
    /\ UNCHANGED <<page_kind, load_vars, page_saving, page_post, page_submitted,
                   heard_vars, status_vars, device_vars>>

\* Save, with a form that fails validation.
SaveInvalid ==
    /\ page_loaded /\ Submittable(page_form) /\ ~Valid(page_form)
    /\ page_saving = 0
    /\ page_save_error' = "invalid" /\ page_saved' = FALSE
    /\ UNCHANGED <<page_kind, page_form, load_vars, page_saving, page_post,
                   page_submitted, heard_vars, status_vars, device_vars, page_events>>

\* Save: the first key's write is sent.  A reconnect request of the save
\* before may still be in flight.
SavePage ==
    /\ CountPage
    /\ page_loaded /\ Submittable(page_form) /\ Valid(page_form)
    /\ page_saving = 0
    /\ page_saving' = 1
    /\ page_post' = [at |-> "sent"]
    /\ page_saved' = FALSE /\ page_save_error' = "none"
    /\ page_submitted' = page_form
    /\ UNCHANGED <<page_kind, page_form, load_vars, heard_vars, status_vars, device_vars>>

\* The device serves the write, which may fail.
ServePost(written) ==
    /\ page_post.at = "sent"
    /\ \/ /\ written
          /\ device_stored' = [device_stored EXCEPT ![page_saving] = page_submitted[page_saving]]
          /\ device_epoch' = device_epoch + 1
          /\ page_post' = [at |-> "ok"]
          /\ UNCHANGED page_events
       \/ /\ ~written
          /\ CountPage
          /\ page_post' = [at |-> "failed"]
          /\ UNCHANGED <<device_stored, device_epoch>>
    /\ UNCHANGED <<page_kind, page_form, load_vars, page_saving, page_saved,
                   page_save_error, page_submitted, heard_vars, status_vars,
                   device_target, device_wake>>

\* The network fails the write, before or after it was served.
PostLost ==
    /\ CountPage
    /\ page_post.at \in {"sent", "ok"}
    /\ page_post' = [at |-> "failed"]
    /\ UNCHANGED <<page_kind, page_form, load_vars, page_saving, page_saved,
                   page_save_error, page_submitted, heard_vars, status_vars, device_vars>>

\* A write was stored: the next one is sent, or the save is complete, the old
\* status is cleared and the reconnect request sent.
WriteArrives ==
    /\ page_post.at = "ok"
    /\ LET last == page_saving = Len(page_submitted)
       IN  /\ page_saved' = last
           /\ IF last
              THEN /\ page_saving' = 0 /\ page_post' = NoRequest
                   /\ page_epoch' = device_epoch /\ page_unheard' = FALSE
                   /\ page_status' = <<>>
                   /\ page_reconnects' =
                          IF HasService
                          THEN Append(page_reconnects, [at |-> "sent", of |-> device_epoch])
                          ELSE page_reconnects
              ELSE /\ page_saving' = page_saving + 1 /\ page_post' = [at |-> "sent"]
                   /\ UNCHANGED <<heard_vars, page_status>>
    /\ UNCHANGED <<page_kind, page_form, load_vars, page_save_error, page_submitted,
                   page_statuses, device_vars, page_events>>

\* The message: the reason alone, or, for Kodi's second write, that the new
\* selection is saved and the previous one was not cleared.
FailureShown(i) == IF i = 1 THEN "failed" ELSE "saved_not_cleared"

\* Mutant of WriteFails: only the last write's result is looked at.
WriteFailsAtLast ==
    /\ page_post.at = "failed"
    /\ IF page_saving < Len(page_submitted)
       THEN /\ page_saving' = page_saving + 1 /\ page_post' = [at |-> "sent"]
            /\ UNCHANGED page_save_error
       ELSE /\ page_saving' = 0 /\ page_post' = NoRequest
            /\ page_save_error' = FailureShown(page_saving)
    /\ UNCHANGED <<page_kind, page_form, load_vars, page_saved, page_submitted,
                   heard_vars, status_vars, device_vars, page_events>>

\* A write failed: the save ends there.
WriteFails ==
    /\ page_post.at = "failed"
    /\ page_saving' = 0 /\ page_post' = NoRequest
    /\ page_save_error' = FailureShown(page_saving)
    /\ UNCHANGED <<page_kind, page_form, load_vars, page_saved, page_submitted,
                   heard_vars, status_vars, device_vars, page_events>>

\* POST .../reconnect: TriggerReconnect().
ReconnectRoute == TRUE

\* The device serves a reconnect request.
ServeReconnect(i) ==
    /\ page_reconnects[i].at = "sent"
    /\ page_reconnects' = [page_reconnects EXCEPT ![i].at = "ok"]
    /\ device_wake' = ReconnectRoute
    /\ UNCHANGED <<page_kind, page_form, load_vars, post_vars, page_epoch, page_unheard,
                   status_vars, device_stored, device_target, device_epoch, page_events>>

\* Its answer arrives, or the request fails, which the page ignores;
\* loadStatus() follows, unless one is under way.
ReconnectArrives(i) ==
    /\ \/ page_reconnects[i].at = "ok" /\ UNCHANGED <<page_unheard, page_events>>
       \/ /\ CountPage
          /\ page_unheard' = (page_unheard \/ page_reconnects[i].of = page_epoch)
    /\ page_reconnects' = RemoveAt(page_reconnects, i)
    /\ page_statuses' = StatusAsked(page_statuses)
    /\ UNCHANGED <<page_kind, page_form, load_vars, post_vars, page_epoch, page_status,
                   device_vars>>

-----------------------------------------------------------------------------
\* The service's loop takes the wake request and reads the settings.
ServiceReads ==
    /\ HasService /\ device_wake
    /\ device_wake' = FALSE
    /\ device_target' = FormOf(device_stored)
    /\ UNCHANGED <<page_kind, page_form, load_vars, save_vars, status_vars,
                   device_stored, device_epoch, page_events>>

\* Its connection drops: the next attempt reads the settings too.
ServiceDrops ==
    /\ CountPage
    /\ HasService
    /\ device_target' = FormOf(device_stored)
    /\ UNCHANGED <<page_kind, page_form, load_vars, save_vars, status_vars,
                   device_stored, device_wake, device_epoch>>

PagesInit ==
    /\ page_kind \in PageKinds
    /\ device_stored \in {form \in Pages[page_kind].forms : ~hostError(form)}
    /\ device_target = FormOf(device_stored)
    /\ device_wake = FALSE /\ device_epoch = 0
    /\ page_form = [i \in DOMAIN device_stored |-> Empty]
    /\ page_loaded = FALSE /\ page_error = FALSE
    /\ page_loads = <<[at |-> "sent"]>>
    /\ page_saving = 0 /\ page_post = NoRequest
    /\ page_saved = FALSE /\ page_save_error = "none"
    /\ page_status = <<>>
    /\ page_statuses = IF HasService THEN <<[at |-> "sent"]>> ELSE <<>>
    /\ page_reconnects = <<>>
    /\ page_submitted = page_form /\ page_epoch = 0 /\ page_unheard = FALSE
    /\ page_events = 0

PagesNext ==
    \/ Retry
    \/ \E i \in DOMAIN page_loads : ServeLoad(i) \/ LoadArrives(i) \/ LoadFails(i)
    \/ Refreshed
    \/ \E i \in DOMAIN page_statuses :
           ServePageStatus(i) \/ StatusArrives(i) \/ StatusFails(i)
    \/ \E form \in Pages[page_kind].forms : EditForm(form)
    \/ SaveInvalid \/ SavePage
    \/ \E written \in BOOLEAN : ServePost(written)
    \/ PostLost \/ WriteArrives \/ WriteFails
    \/ \E i \in DOMAIN page_reconnects : ServeReconnect(i) \/ ReconnectArrives(i)
    \/ ServiceReads \/ ServiceDrops

PagesSpec == PagesInit /\ [][PagesNext]_page_vars

-----------------------------------------------------------------------------
(* Properties *)

\* Types, and a load still in flight never finds a form the user may have
\* edited: tripGuard() keeps a double-clicked Retry to one request.
PagesTypeOK ==
    /\ page_form \in Seq({Empty, "a", "b", "u", "bad", "homedeck"})
    /\ page_loaded \in BOOLEAN /\ page_error \in BOOLEAN
    /\ page_saving \in 0..Len(page_submitted)
    /\ page_post.at \in {"idle", "sent", "ok", "failed"}
    /\ (page_saving = 0) = (page_post.at = "idle")
    /\ page_save_error \in {"none", "invalid", "failed", "saved_not_cleared"}
    /\ page_loaded => page_loads = <<>>
    /\ Len(page_statuses) <= 1

\* "Saved." is shown only when every key of the form that was submitted is
\* stored, whichever of the writes failed, was lost or lost its answer.
SavedIsStored == page_saved => device_stored = page_submitted

\* What is true when KodiSettings.svelte says "Saved the new selection, but
\* failed to clear the previous one".  With a host entered it is what it says:
\* the host is the stored selection, and a uuid left behind has no effect.
\* With a discovered instance chosen it is the other way round: the write that
\* went through cleared the previous host, the choice is the one that failed.
PartialIsTold ==
    page_save_error = "saved_not_cleared" =>
        IF page_submitted[1] # Empty
        THEN FormOf(device_stored) = <<page_submitted[1], Empty>>
        ELSE device_stored[1] = Empty

\* After a save the service works with what is stored, has been told to look,
\* or is about to be; it stays on the old target only when the reconnect
\* request itself failed, which save() ignores.
SaveIsHeard ==
    (page_saved /\ HasService /\ page_reconnects = <<>> /\ ~page_unheard) =>
        device_target = FormOf(device_stored) \/ device_wake

\* The settings pages' save() over writes that fail, get lost or lose their
\* answer: "Saved." is true, after a save that failed half-way the first of its
\* two keys is in effect, and the service hears of the new target.
PagesSafe == PagesTypeOK /\ SavedIsStored /\ PartialIsTold /\ SaveIsHeard

\* HarmonySettings.svelte: saving clears the old hub's status at once, and the
\* guard on loadStatus() makes the call after the save safe against one still
\* in flight.  A status shown next to "Saved." would then have been taken
\* after the save.
StatusOfSaved ==
    (page_saved /\ page_status # <<>>) => page_status[2] >= page_epoch

\* The message of KodiSettings.svelte:140 taken at its word.  It is not true
\* after a discovered instance was chosen (PartialIsTold says what is).
SelectionIsSaved ==
    page_save_error = "saved_not_cleared" => FormOf(device_stored) = page_submitted
=============================================================================
