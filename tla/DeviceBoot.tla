---------------------------- MODULE DeviceBoot -----------------------------
(***************************************************************************)
(* Booting, over-the-air update and rollback: app_main(), BuildOtaWriter(),*)
(* ScheduleReboot() and FinalizeBootAfterWifiConnected() of firmware/main/ *)
(* homedeck.cpp, behind the upload and reboot routes of core/ota_routes.   *)
(*                                                                         *)
(* Two flash slots hold images.  The bootloader (external, with rollback   *)
(* enabled in sdkconfig.defaults) boots a freshly selected slot once; if   *)
(* the application does not confirm it before the next reset, that slot is *)
(* given up and the other one booted.  Power may fail between any two      *)
(* steps.  esp_http_server has one worker, so an upload is not concurrent  *)
(* with other requests, but the reboot of an earlier request is only       *)
(* scheduled and may fire in the middle of a later upload.                 *)
(***************************************************************************)
EXTENDS Naturals

CONSTANTS Images,        \* firmware images that may be uploaded
          Complete,      \* ... that esp_ota_end() validates
          Serving,       \* ... that connect and start the Web UI
          Factory,       \* the image flashed by cable
          Blank,         \* an erased or half-written slot
          MaxUploads     \* bound: uploads in a behaviour

ASSUME DeviceBootAssumption ==
    /\ Serving \subseteq Complete /\ Complete \subseteq Images
    /\ Factory \in Serving /\ Blank \notin Images /\ MaxUploads \in Nat

VARIABLES slot,          \* [0..1 -> image in flash and its state in otadata]
          boot_slot,     \* otadata: the slot selected for the next boot
          running,       \* the slot this boot runs from
          phase,         \* "off", "booting", "web_up" or "unusable"
          writer,        \* where write_image() is, with its image
          reboot_timer,  \* RunOnceAfterResponseDelay() is pending
          uploads_left

boot_vars == <<slot, boot_slot, running, phase, writer, reboot_timer,
               uploads_left>>

NoWrite == [step |-> "idle"]
Other(s) == 1 - s

\* esp_ota_get_next_update_partition()
next_update_partition == Other(running)
-----------------------------------------------------------------------------
\* The bootloader gives up an image it booted before and that was not
\* confirmed, and skips one that does not verify.
Bootloader ==
    /\ phase = "off"
    /\ LET unconfirmed == slot[boot_slot].state = "pending"
           s == IF unconfirmed \/ slot[boot_slot].image \notin Complete
                THEN Other(boot_slot) ELSE boot_slot
       IN  /\ running' = s /\ boot_slot' = s
           /\ slot' = [x \in 0..1 |->
                 IF unconfirmed /\ x = boot_slot THEN [slot[x] EXCEPT !.state = "aborted"]
                 ELSE IF x = s /\ slot[x].state = "new" THEN [slot[x] EXCEPT !.state = "pending"]
                 ELSE slot[x]]
    /\ phase' = "booting"
    /\ UNCHANGED <<writer, reboot_timer, uploads_left>>

\* Mutant of FinalizeBootAfterWifiConnected: the image is confirmed whether
\* or not its Web UI started.
FinalizeAnyway ==
    /\ phase = "booting"
    /\ phase' = IF slot[running].image \in Serving THEN "web_up" ELSE "unusable"
    /\ slot' = [slot EXCEPT ![running].state = "valid"]
    /\ UNCHANGED <<boot_slot, running, writer, reboot_timer, uploads_left>>

\* FinalizeBootAfterWifiConnected(): web_server.Start(), and only if it
\* started esp_ota_mark_app_valid_cancel_rollback(), whose failure is logged.
FinalizeBootAfterWifiConnected ==
    /\ phase = "booting"
    /\ IF slot[running].image \in Serving
       THEN /\ phase' = "web_up"
            /\ \/ slot' = [slot EXCEPT ![running].state = "valid"]
               \/ slot[running].state = "pending" /\ UNCHANGED slot
       ELSE phase' = "unusable" /\ UNCHANGED slot
    /\ UNCHANGED <<boot_slot, running, writer, reboot_timer, uploads_left>>

-----------------------------------------------------------------------------
\* POST /api/ota/upload with an open gate: write_image(), step by step.
\* esp_ota_begin() erases the partition; it is refused while the running
\* image is not confirmed.
OtaBegin(image) ==
    /\ phase = "web_up" /\ writer = NoWrite /\ uploads_left > 0
    /\ slot[running].state # "pending"
    /\ uploads_left' = uploads_left - 1
    /\ writer' = [step |-> "write", image |-> image, into |-> next_update_partition]
    /\ slot' = [slot EXCEPT ![next_update_partition].image = Blank]
    /\ UNCHANGED <<boot_slot, running, phase, reboot_timer>>

\* esp_ota_write(): the image is in flash, or the write failed.
OtaWrite ==
    /\ writer.step = "write"
    /\ \/ /\ slot' = [slot EXCEPT ![writer.into].image = writer.image]
          /\ writer' = [writer EXCEPT !.step = "end"]
       \/ writer' = NoWrite /\ UNCHANGED slot
    /\ UNCHANGED <<boot_slot, running, phase, reboot_timer, uploads_left>>

\* esp_ota_end() validates it.
OtaEnd ==
    /\ writer.step = "end"
    /\ writer' = IF writer.image \in Complete
                 THEN [writer EXCEPT !.step = "set_boot"] ELSE NoWrite
    /\ UNCHANGED <<slot, boot_slot, running, phase, reboot_timer, uploads_left>>

\* esp_ota_set_boot_partition()
OtaSetBoot ==
    /\ writer.step = "set_boot"
    /\ \/ /\ boot_slot' = writer.into
          /\ slot' = [slot EXCEPT ![writer.into].state = "new"]
       \/ UNCHANGED <<boot_slot, slot>>
    /\ writer' = NoWrite
    /\ UNCHANGED <<running, phase, reboot_timer, uploads_left>>

-----------------------------------------------------------------------------
\* POST /api/ota/reboot: ScheduleReboot(), half a second ahead.
OtaReboot ==
    /\ phase = "web_up" /\ writer = NoWrite /\ ~reboot_timer
    /\ reboot_timer' = TRUE
    /\ UNCHANGED <<slot, boot_slot, running, phase, writer, uploads_left>>

Restarted == /\ phase' = "off" /\ writer' = NoWrite /\ reboot_timer' = FALSE
             /\ UNCHANGED <<slot, boot_slot, running, uploads_left>>

RebootTimerFires == reboot_timer /\ Restarted

\* A reset, a crash or a power failure at any moment.
PowerLoss == phase # "off" /\ Restarted

BootInit ==
    /\ slot = [x \in 0..1 |-> IF x = 0 THEN [image |-> Factory, state |-> "valid"]
                              ELSE [image |-> Blank, state |-> "empty"]]
    /\ boot_slot = 0 /\ running = 0 /\ phase = "off"
    /\ writer = NoWrite /\ reboot_timer = FALSE /\ uploads_left = MaxUploads

BootNext ==
    \/ Bootloader \/ FinalizeBootAfterWifiConnected
    \/ \E image \in Images : OtaBegin(image)
    \/ OtaWrite \/ OtaEnd \/ OtaSetBoot
    \/ OtaReboot \/ RebootTimerFires \/ PowerLoss

BootSpec == BootInit /\ [][BootNext]_boot_vars

-----------------------------------------------------------------------------
(***************************************************************************)
(* Properties.                                                             *)
(***************************************************************************)
BootTypeOK ==
    /\ slot \in [0..1 -> [image : Images \cup {Blank},
          state : {"empty", "new", "pending", "valid", "aborted"}]]
    /\ boot_slot \in 0..1 /\ running \in 0..1
    /\ phase \in {"off", "booting", "web_up", "unusable"}
    /\ \/ writer = NoWrite
       \/ writer \in [step : {"write", "end", "set_boot"}, image : Images, into : 0..1]
    /\ reboot_timer \in BOOLEAN /\ uploads_left \in 0..MaxUploads

\* Whatever is uploaded and whenever power fails, one slot always holds an
\* image that has served the Web UI, and the next boots reach it: it is
\* selected, or the selected slot does not verify or is on trial.
WorkingImageKept ==
    \E s \in 0..1 :
        /\ slot[s].state = "valid" /\ slot[s].image \in Serving
        /\ \/ boot_slot = s \/ slot[boot_slot].image \notin Complete
           \/ slot[boot_slot].state \in {"new", "pending"}

\* An image that does not bring the Web UI up is rolled back by the next
\* reset: it is still on trial, and the other slot holds a confirmed image.
UnusableRollsBack ==
    phase = "unusable"
        => /\ slot[running].state = "pending"
           /\ slot[Other(running)].state = "valid"
           /\ slot[Other(running)].image \in Serving

\* An update never bricks the device: through every upload, power failure and
\* rollback a working image is kept and reached, and one that cannot serve
\* the Web UI is never confirmed by FinalizeBootAfterWifiConnected().
BootSafe == BootTypeOK /\ WorkingImageKept /\ UnusableRollsBack
=============================================================================
