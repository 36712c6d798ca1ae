------------------------------- MODULE EspOta -------------------------------
(***************************************************************************)
(* The ESP-IDF second-stage bootloader and the app_update component, as    *)
(* far as the applications of this repository use them (external code: the *)
(* applications only call it).  The partition table is TWO_OTA (a factory  *)
(* image and two OTA slots) and BOOTLOADER_APP_ROLLBACK_ENABLE is set, as  *)
(* in esp-idf-thingsboard/sdkconfig.defaults.                              *)
(*                                                                         *)
(* otadata holds two entries.  The newer one wins while it is usable; an   *)
(* image delivered by OTA starts NEW, becomes PENDING_VERIFY on its first  *)
(* boot, and is ABORTED by the bootloader if a reset finds it still        *)
(* PENDING_VERIFY.                                                         *)
(***************************************************************************)
EXTENDS Naturals

CONSTANTS
  Package,      \* firmware packages (the image and what is declared of it)
  NoPackage,    \* "no image": an erased or half-written slot
  FactoryImage  \* the package flashed by cable into the factory slot

ASSUME PackageAssumption ==
  /\ NoPackage \notin Package
  /\ FactoryImage \in Package

OtaSlot   == {"ota_0", "ota_1"}
Slot      == OtaSlot \cup {"factory"}
ImgState  == {"EMPTY", "NEW", "PENDING_VERIFY", "VALID", "INVALID", "ABORTED"}
Entry     == [slot : OtaSlot, state : ImgState]
NoEntry   == [slot |-> "ota_0", state |-> "EMPTY"]

VARIABLES
  flash,    \* flash[s]: the complete image in slot s, or NoPackage
  otadata,  \* the two boot records: [newer, older]
  running   \* esp_ota_get_running_partition()

EspOtaVars == <<flash, otadata, running>>

EspOtaTypeOK ==
  /\ flash \in [Slot -> Package \cup {NoPackage}]
  /\ otadata \in [newer : Entry, older : Entry]
  /\ running \in Slot

EspOtaInit ==
  /\ flash = [s \in Slot |-> IF s = "factory" THEN FactoryImage ELSE NoPackage]
  /\ otadata = [newer |-> NoEntry, older |-> NoEntry]
  /\ running = "factory"

-----------------------------------------------------------------------------
(* Boot selection. *)

Usable(e)      == e.state \in {"NEW", "PENDING_VERIFY", "VALID"}
Unconfirmed(e) == e.state \in {"NEW", "PENDING_VERIFY"}

AbortTrial(e) ==
  IF e.state = "PENDING_VERIFY" THEN [e EXCEPT !.state = "ABORTED"] ELSE e
StartTrial(e) ==
  IF e.state = "NEW" THEN [e EXCEPT !.state = "PENDING_VERIFY"] ELSE e

ActiveSlot(od) ==
  IF Usable(od.newer) THEN od.newer.slot
  ELSE IF Usable(od.older) THEN od.older.slot ELSE "factory"

\* What a reset does to the boot records: unconfirmed trials are aborted,
\* then the winning entry, if NEW, starts its trial.
AfterReset(od) ==
  LET n == AbortTrial(od.newer)
      o == AbortTrial(od.older)
  IN  IF Usable(n) THEN [newer |-> StartTrial(n), older |-> o]
                   ELSE [newer |-> n, older |-> StartTrial(o)]

\* The slot the next reset starts.
NextBoot(od) == ActiveSlot(AfterReset(od))

Bootloader ==
  /\ otadata' = AfterReset(otadata)
  /\ running' = NextBoot(otadata)
  /\ UNCHANGED flash

\* The trials the bootloader gives up on at a reset.
AbortedAtReset ==
  {e.slot : e \in {x \in {otadata.newer, otadata.older} : x.state = "PENDING_VERIFY"}}

-----------------------------------------------------------------------------
(* esp_ota_* calls. *)

\* esp_ota_get_next_update_partition(NULL)
NextUpdate(s) == IF s = "ota_0" THEN "ota_1" ELSE "ota_0"

EntryOf(s) ==
  IF otadata.newer.slot = s /\ otadata.newer.state # "EMPTY"
  THEN otadata.newer ELSE otadata.older

\* esp_ota_get_state_partition(running) = ESP_OTA_IMG_PENDING_VERIFY
OnTrial == running # "factory" /\ EntryOf(running).state = "PENDING_VERIFY"

\* esp_ota_begin: erases the slot; refused while the running image is on trial.
OtaBegin(s) ==
  /\ ~OnTrial
  /\ flash' = [flash EXCEPT ![s] = NoPackage]
  /\ UNCHANGED <<otadata, running>>

\* esp_ota_end: the slot holds a complete, well-formed image.
OtaEnd(s, p) ==
  /\ flash' = [flash EXCEPT ![s] = p]
  /\ UNCHANGED <<otadata, running>>

\* esp_ota_set_boot_partition: the record that is not the active one is
\* overwritten with the slot, in state NEW.
SetBoot(s) ==
  /\ otadata' = [newer |-> [slot |-> s, state |-> "NEW"],
                 older |-> IF Usable(otadata.newer) THEN otadata.newer
                           ELSE IF Usable(otadata.older) THEN otadata.older
                           ELSE NoEntry]
  /\ UNCHANGED <<flash, running>>

SetState(e, st) == IF e.slot = running /\ e.state = "PENDING_VERIFY"
                   THEN [e EXCEPT !.state = st] ELSE e

\* esp_ota_mark_app_valid_cancel_rollback
MarkValid ==
  /\ otadata' = [newer |-> SetState(otadata.newer, "VALID"),
                 older |-> SetState(otadata.older, "VALID")]
  /\ UNCHANGED <<flash, running>>

\* esp_ota_mark_app_invalid_rollback_and_reboot, up to the restart
MarkInvalid ==
  /\ otadata' = [newer |-> SetState(otadata.newer, "INVALID"),
                 older |-> SetState(otadata.older, "INVALID")]
  /\ UNCHANGED <<flash, running>>

\* esp_ota_get_last_invalid_partition: {} or one slot
LastInvalid ==
  LET bad(e) == e.state \in {"INVALID", "ABORTED"}
  IN  IF bad(otadata.newer) THEN {otadata.newer.slot}
      ELSE IF bad(otadata.older) THEN {otadata.older.slot} ELSE {}

-----------------------------------------------------------------------------
(* The image the next reset starts, and the one the bootloader falls back  *)
(* on if that image is never confirmed, are complete.                      *)
Bootable ==
  /\ flash[NextBoot(otadata)] # NoPackage
  /\ flash[NextBoot(AfterReset(otadata))] # NoPackage

(* What the slots and boot records mean as an update mechanism: the         *)
(* confirmed image is the one the bootloader would run if there were no     *)
(* trial, and the trial is the newer boot record as long as it is           *)
(* unconfirmed.                                                             *)
ConfirmedImage ==
  IF otadata.newer.state = "VALID" THEN flash[otadata.newer.slot]
  ELSE IF Usable(otadata.older) THEN flash[otadata.older.slot]
  ELSE flash["factory"]

TrialImage ==
  IF Unconfirmed(otadata.newer) THEN flash[otadata.newer.slot] ELSE NoPackage

TrialStarted == otadata.newer.state = "PENDING_VERIFY"

-----------------------------------------------------------------------------
(* What an application that uses the calls above in the right order keeps   *)
(* true: the parts of the clients' inductive invariants.                    *)

\* The older boot record never is a trial, the two records are of different
\* slots, and every image the bootloader may still need is complete.
RecordInv ==
  LET newer == otadata.newer
      older == otadata.older
  IN  /\ older.state \in {"EMPTY", "VALID"}
      /\ newer.state = "EMPTY" => older.state = "EMPTY"
      /\ older.state = "VALID" => newer.slot # older.slot
      /\ flash["factory"] # NoPackage
      /\ Usable(newer) => flash[newer.slot] # NoPackage
      /\ older.state = "VALID" /\ newer.state # "VALID"
           => flash[older.slot] # NoPackage

\* The image that runs is the one the boot records select; and it is confirmed.
RunsActive    == otadata.newer.state # "NEW" /\ running = ActiveSlot(otadata)
RunsConfirmed == RunsActive /\ otadata.newer.state # "PENDING_VERIFY"

\* The other slot was activated, and the image that runs is the one to fall
\* back on.
Activated ==
  /\ otadata.newer = [slot |-> NextUpdate(running), state |-> "NEW"]
  /\ running = IF otadata.older.state = "VALID" THEN otadata.older.slot ELSE "factory"
=============================================================================
