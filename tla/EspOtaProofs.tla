---------------------------- MODULE EspOtaProofs ----------------------------
(***************************************************************************)
(* TLAPS proofs about the boot records of EspOta, whatever application     *)
(* uses them: what a reset and each esp_ota_* call do to the records, to   *)
(* the images they name, and to the update mechanism they stand for.  The  *)
(* proofs about the three ESP-IDF clients cite these lemmas.               *)
(***************************************************************************)
EXTENDS EspOta, TLAPS

OtaData == [newer : Entry, older : Entry]

\* Erased flash and the cable-flashed image satisfy the invariant.
LEMMA InitRecords == EspOtaInit => EspOtaTypeOK /\ RecordInv
<1> SUFFICES ASSUME EspOtaInit PROVE EspOtaTypeOK /\ RecordInv
  OBVIOUS
<1>1. EspOtaTypeOK
  BY PackageAssumption
  DEF EspOtaInit, EspOtaTypeOK, Entry, NoEntry, ImgState, OtaSlot, Slot
<1>2. RecordInv
  BY PackageAssumption DEF EspOtaInit, RecordInv, NoEntry, Usable, Slot
<1> QED
  BY <1>1, <1>2

\* What the invariant says of the two records, for the proofs below.
LEMMA RecordFacts ==
  ASSUME EspOtaTypeOK, RecordInv
  PROVE  /\ otadata \in OtaData
         /\ flash \in [Slot -> Package \cup {NoPackage}]
         /\ running \in Slot
         /\ otadata.newer \in Entry /\ otadata.older \in Entry
         /\ otadata.newer.slot \in OtaSlot /\ otadata.older.slot \in OtaSlot
         /\ otadata.newer.slot \in Slot /\ otadata.older.slot \in Slot
         /\ otadata.newer.state \in ImgState
         /\ otadata.older.state \in {"EMPTY", "VALID"}
BY DEF EspOtaTypeOK, RecordInv, OtaData, Entry, Slot

\* A step that leaves flash, records and running slot alone keeps all there is
\* to say about them.
LEMMA KeptRecords ==
  ASSUME UNCHANGED EspOtaVars
  PROVE  /\ EspOtaTypeOK => EspOtaTypeOK'
         /\ RecordInv => RecordInv'
         /\ RunsActive => RunsActive'
         /\ RunsConfirmed => RunsConfirmed'
         /\ Activated => Activated'
         /\ UNCHANGED <<ConfirmedImage, TrialImage, TrialStarted, OnTrial>>
<1> USE DEF EspOtaVars
<1>1. EspOtaTypeOK => EspOtaTypeOK'
  BY DEF EspOtaTypeOK
<1>2. RecordInv => RecordInv'
  BY DEF RecordInv
<1>3. /\ RunsActive => RunsActive'
      /\ RunsConfirmed => RunsConfirmed'
      /\ Activated => Activated'
  BY DEF RunsActive, RunsConfirmed, Activated
<1>4. UNCHANGED <<ConfirmedImage, TrialImage, TrialStarted, OnTrial>>
  BY DEF ConfirmedImage, TrialImage, TrialStarted, OnTrial, EntryOf
<1> QED
  BY <1>1, <1>2, <1>3, <1>4

-----------------------------------------------------------------------------
(* The bootloader. *)

\* A reset keeps the boot records well formed and never touches a record that
\* is not a trial; a record that is still NEW after it is the older one.
LEMMA ResetRecords ==
  ASSUME NEW od \in OtaData, od.older.state \in {"EMPTY", "VALID"}
  PROVE  /\ AfterReset(od) \in OtaData
         /\ AfterReset(od).older = od.older
         /\ AfterReset(od).newer.slot = od.newer.slot
         /\ AfterReset(od).newer.state =
              CASE od.newer.state = "NEW" -> "PENDING_VERIFY"
                [] od.newer.state = "PENDING_VERIFY" -> "ABORTED"
                [] OTHER -> od.newer.state
<1>1. PICK ns \in OtaSlot, nst \in ImgState, os \in OtaSlot, ost \in ImgState :
        od = [newer |-> [slot |-> ns, state |-> nst],
              older |-> [slot |-> os, state |-> ost]]
  BY DEF OtaData, Entry
<1>2. ost \in {"EMPTY", "VALID"}
  BY <1>1
<1> QED
  BY <1>1, <1>2 DEF AfterReset, AbortTrial, StartTrial, Usable, OtaData, Entry,
     ImgState, OtaSlot

\* What runs is on trial exactly if the newer record says so.
LEMMA OnTrialIff ==
  ASSUME EspOtaTypeOK, RecordInv, RunsActive
  PROVE  /\ OnTrial <=> TrialStarted
         /\ TrialStarted => running = otadata.newer.slot
         /\ ~TrialStarted => flash[running] = ConfirmedImage
<1>1. /\ otadata \in OtaData
      /\ otadata.newer.state # "NEW"
      /\ otadata.older.state \in {"EMPTY", "VALID"}
      /\ otadata.older.state = "VALID" => otadata.newer.slot # otadata.older.slot
      /\ running = ActiveSlot(otadata)
  BY RecordFacts DEF RunsActive, RecordInv
<1>2. OnTrial <=> TrialStarted
  BY <1>1 DEF OnTrial, TrialStarted, EntryOf, ActiveSlot, Usable, OtaData, Entry, OtaSlot
<1>3. TrialStarted => running = otadata.newer.slot
  BY <1>1 DEF TrialStarted, ActiveSlot, Usable
<1>4. ~TrialStarted => flash[running] = ConfirmedImage
  BY <1>1 DEF TrialStarted, ConfirmedImage, ActiveSlot, Usable
<1> QED
  BY <1>2, <1>3, <1>4

\* The bootloader starts the active slot.  It gives a staged image its trial,
\* and gives up a trial that was started before.
LEMMA BootRecords ==
  ASSUME EspOtaTypeOK, RecordInv, Bootloader
  PROVE  /\ EspOtaTypeOK' /\ RecordInv' /\ RunsActive'
         /\ OnTrial' <=> TrialStarted'
         /\ ConfirmedImage' = ConfirmedImage
         /\ otadata.newer.state = "NEW" =>
              /\ TrialImage # NoPackage /\ TrialImage' = TrialImage
              /\ ~TrialStarted /\ TrialStarted'
         /\ TrialStarted =>
              /\ TrialImage # NoPackage /\ TrialImage' = NoPackage /\ ~TrialStarted'
              /\ otadata'.newer.state = "ABORTED"
              /\ AbortedAtReset = {otadata.newer.slot}
         /\ ~Unconfirmed(otadata.newer) =>
              /\ TrialImage = NoPackage /\ TrialImage' = NoPackage
              /\ ~TrialStarted /\ ~TrialStarted'
              /\ otadata'.newer = otadata.newer
         /\ ~TrialStarted => AbortedAtReset = {}
         /\ flash' = flash /\ otadata'.newer.slot = otadata.newer.slot
         /\ otadata'.newer.state # "NEW"
<1> DEFINE n == otadata.newer
           o == otadata.older
<1>1. /\ otadata \in OtaData /\ n \in Entry /\ o \in Entry
      /\ flash \in [Slot -> Package \cup {NoPackage}]
      /\ n.slot \in OtaSlot /\ o.slot \in OtaSlot
      /\ n.state \in ImgState
      /\ o.state \in {"EMPTY", "VALID"}
  BY RecordFacts
<1>2. /\ otadata' \in OtaData
      /\ otadata'.older = o
      /\ otadata'.newer.slot = n.slot
      /\ otadata'.newer.state =
           CASE n.state = "NEW" -> "PENDING_VERIFY"
             [] n.state = "PENDING_VERIFY" -> "ABORTED"
             [] OTHER -> n.state
  BY <1>1, ResetRecords DEF Bootloader
<1>3. running' = ActiveSlot(otadata') /\ flash' = flash
  BY DEF Bootloader, NextBoot
<1>4. running' \in Slot
  BY <1>2, <1>3 DEF ActiveSlot, OtaData, Entry, Slot
<1>5. EspOtaTypeOK'
  BY <1>1, <1>2, <1>3, <1>4 DEF EspOtaTypeOK, OtaData
<1>6. RecordInv'
  BY <1>1, <1>2, <1>3 DEF RecordInv, Usable, ImgState
<1>7. otadata'.newer.state # "NEW" /\ RunsActive'
  BY <1>1, <1>2, <1>3 DEF RunsActive, ImgState
<1>8. OnTrial' <=> TrialStarted'
  BY <1>2, <1>3, <1>6, <1>7
  DEF RecordInv, OnTrial, TrialStarted, EntryOf, ActiveSlot, Usable, OtaData, Entry, OtaSlot
<1>9. ConfirmedImage' = ConfirmedImage
  BY <1>1, <1>2, <1>3 DEF ConfirmedImage, Usable
<1>10. n.state = "NEW" => /\ TrialImage # NoPackage /\ TrialImage' = TrialImage
                          /\ ~TrialStarted /\ TrialStarted'
  BY <1>2, <1>3 DEF RecordInv, Usable, TrialImage, TrialStarted, Unconfirmed
<1>11. TrialStarted => /\ TrialImage # NoPackage /\ TrialImage' = NoPackage
                       /\ ~TrialStarted'
                       /\ otadata'.newer.state = "ABORTED"
                       /\ AbortedAtReset = {n.slot}
  BY <1>1, <1>2, <1>3
  DEF RecordInv, Usable, TrialImage, TrialStarted, Unconfirmed, AbortedAtReset
<1>12. ~Unconfirmed(n) => /\ TrialImage = NoPackage /\ TrialImage' = NoPackage
                          /\ ~TrialStarted /\ ~TrialStarted'
                          /\ otadata'.newer = n
  <2> SUFFICES ASSUME ~Unconfirmed(n)
               PROVE  /\ TrialImage = NoPackage /\ TrialImage' = NoPackage
                      /\ ~TrialStarted /\ ~TrialStarted'
                      /\ otadata'.newer = n
    OBVIOUS
  <2>1. n.state \notin {"NEW", "PENDING_VERIFY"} /\ otadata'.newer.state = n.state
    BY <1>2 DEF Unconfirmed
  <2>2. otadata'.newer = n
    BY <1>1, <1>2, <2>1 DEF OtaData, Entry
  <2> QED
    BY <2>1, <2>2 DEF TrialImage, TrialStarted, Unconfirmed
<1>13. ~TrialStarted => AbortedAtReset = {}
  BY <1>1 DEF TrialStarted, AbortedAtReset
<1> QED
  BY <1>2, <1>3, <1>5, <1>6, <1>7, <1>8, <1>9, <1>10, <1>11, <1>12, <1>13

\* The next two resets find complete images.
LEMMA RecordsBootable == ASSUME EspOtaTypeOK, RecordInv PROVE Bootable
<1> DEFINE r == AfterReset(otadata)
<1>1. /\ otadata \in OtaData
      /\ otadata.older.state \in {"EMPTY", "VALID"}
      /\ otadata.newer.state \in ImgState
  BY RecordFacts
<1>2. /\ r \in OtaData
      /\ r.older = otadata.older
      /\ r.newer.slot = otadata.newer.slot
      /\ r.newer.state =
           CASE otadata.newer.state = "NEW" -> "PENDING_VERIFY"
             [] otadata.newer.state = "PENDING_VERIFY" -> "ABORTED"
             [] OTHER -> otadata.newer.state
  BY <1>1, ResetRecords
<1>3. /\ AfterReset(r).older = otadata.older
      /\ AfterReset(r).newer.slot = otadata.newer.slot
      /\ AfterReset(r).newer.state =
           CASE r.newer.state = "NEW" -> "PENDING_VERIFY"
             [] r.newer.state = "PENDING_VERIFY" -> "ABORTED"
             [] OTHER -> r.newer.state
  BY <1>1, <1>2, ResetRecords
<1>4. flash[ActiveSlot(r)] # NoPackage
  BY <1>1, <1>2 DEF RecordInv, ActiveSlot, Usable, ImgState
<1>5. flash[ActiveSlot(AfterReset(r))] # NoPackage
  BY <1>1, <1>2, <1>3 DEF RecordInv, ActiveSlot, Usable, ImgState
<1> QED
  BY <1>4, <1>5 DEF Bootable, NextBoot

-----------------------------------------------------------------------------
(* The calls of the application. *)

\* While a confirmed image runs, the other slot is one that no usable boot
\* record names.
LEMMA SpareSlot ==
  ASSUME EspOtaTypeOK, RecordInv, RunsConfirmed
  PROVE  /\ NextUpdate(running) \in OtaSlot /\ NextUpdate(running) \in Slot
         /\ NextUpdate(running) # running /\ NextUpdate(running) # "factory"
         /\ otadata.newer.state = "VALID" => otadata.newer.slot = running
         /\ otadata.newer.state # "VALID" /\ otadata.older.state = "VALID"
              => otadata.older.slot = running
         /\ otadata.newer.state \in {"EMPTY", "VALID", "INVALID", "ABORTED"}
         /\ otadata.newer.state = "VALID" \/ otadata.older.state = "VALID"
              \/ running = "factory"
<1>1. /\ otadata \in OtaData
      /\ otadata.newer.state \notin {"NEW", "PENDING_VERIFY"}
      /\ otadata.older.state \in {"EMPTY", "VALID"}
      /\ running = ActiveSlot(otadata)
  BY RecordFacts DEF RunsConfirmed, RunsActive
<1>2. /\ NextUpdate(running) \in OtaSlot /\ NextUpdate(running) \in Slot
      /\ NextUpdate(running) # running /\ NextUpdate(running) # "factory"
  BY DEF NextUpdate, OtaSlot, Slot
<1> QED
  BY <1>1, <1>2 DEF ActiveSlot, Usable, OtaData, Entry, ImgState

\* esp_ota_begin and esp_ota_end on the other slot touch neither a boot record
\* nor an image that one of them names.
LEMMA SpareWrite ==
  ASSUME EspOtaTypeOK, RecordInv, RunsConfirmed, NEW x \in Package \cup {NoPackage},
         flash' = [flash EXCEPT ![NextUpdate(running)] = x],
         UNCHANGED <<otadata, running>>
  PROVE  /\ EspOtaTypeOK' /\ RecordInv' /\ RunsActive' /\ RunsConfirmed'
         /\ flash'[NextUpdate(running)] = x
         /\ flash'[running] = flash[running]
         /\ UNCHANGED <<ConfirmedImage, TrialImage, TrialStarted, OnTrial>>
<1>1. /\ flash \in [Slot -> Package \cup {NoPackage}]
      /\ otadata.newer.slot \in Slot /\ otadata.older.slot \in Slot
      /\ running \in Slot
      /\ otadata.older.state \in {"EMPTY", "VALID"}
      /\ "factory" \in Slot
  BY RecordFacts DEF Slot
<1>2. /\ NextUpdate(running) \in Slot
      /\ NextUpdate(running) # running /\ NextUpdate(running) # "factory"
      /\ otadata.newer.state = "VALID" => otadata.newer.slot = running
      /\ otadata.newer.state # "VALID" /\ otadata.older.state = "VALID"
           => otadata.older.slot = running
      /\ otadata.newer.state \in {"EMPTY", "VALID", "INVALID", "ABORTED"}
  BY SpareSlot
<1>3. /\ \A s \in Slot : s # NextUpdate(running) => flash'[s] = flash[s]
      /\ flash'[NextUpdate(running)] = x
  BY <1>1, <1>2
<1>4. EspOtaTypeOK'
  BY <1>1, <1>2 DEF EspOtaTypeOK
<1>5. RecordInv'
  BY <1>1, <1>2, <1>3 DEF RecordInv, Usable
<1>6. RunsActive' /\ RunsConfirmed'
  BY DEF RunsConfirmed, RunsActive
<1>7. ConfirmedImage' = ConfirmedImage
  BY <1>1, <1>2, <1>3 DEF ConfirmedImage, Usable
<1>8. TrialImage' = TrialImage
  BY <1>2 DEF TrialImage, Unconfirmed
<1>9. UNCHANGED <<TrialStarted, OnTrial>>
  BY DEF TrialStarted, OnTrial, EntryOf
<1> QED
  BY <1>1, <1>2, <1>3, <1>4, <1>5, <1>6, <1>7, <1>8, <1>9

\* esp_ota_set_boot_partition on the other slot stages its image, and keeps the
\* image that runs as the one to fall back on.
LEMMA SetBootRecords ==
  ASSUME EspOtaTypeOK, RecordInv, RunsConfirmed,
         flash[NextUpdate(running)] # NoPackage, SetBoot(NextUpdate(running))
  PROVE  /\ EspOtaTypeOK' /\ RecordInv' /\ Activated'
         /\ ConfirmedImage' = ConfirmedImage
         /\ TrialImage = NoPackage /\ TrialImage' = flash[NextUpdate(running)]
         /\ ~TrialStarted /\ ~TrialStarted'
         /\ ~OnTrial /\ ~OnTrial'
         /\ UNCHANGED <<flash, running>>
<1> DEFINE n == otadata.newer
           o == otadata.older
           t == NextUpdate(running)
<1>1. /\ otadata \in OtaData /\ n \in Entry /\ o \in Entry
      /\ o.state \in {"EMPTY", "VALID"}
      /\ running = ActiveSlot(otadata) /\ running \in Slot
      /\ flash \in [Slot -> Package \cup {NoPackage}]
      /\ UNCHANGED <<flash, running>>
  BY RecordFacts DEF RunsConfirmed, RunsActive, SetBoot
<1>2. /\ n.state \in {"EMPTY", "VALID", "INVALID", "ABORTED"}
      /\ t \in OtaSlot /\ t # running
  BY SpareSlot
<1>3. otadata' = [newer |-> [slot |-> t, state |-> "NEW"],
                 older |-> IF n.state = "VALID" THEN n
                           ELSE IF o.state = "VALID" THEN o ELSE NoEntry]
  BY <1>1, <1>2 DEF SetBoot, Usable
<1>4. NoEntry \in Entry /\ NoEntry.state = "EMPTY"
  BY DEF NoEntry, Entry, OtaSlot, ImgState
<1>5. otadata' \in OtaData
  BY <1>1, <1>2, <1>3, <1>4 DEF OtaData, Entry, ImgState
<1>6. running = IF n.state = "VALID" THEN n.slot
                ELSE IF o.state = "VALID" THEN o.slot ELSE "factory"
  BY <1>1, <1>2 DEF ActiveSlot, Usable
<1>7. /\ otadata'.newer = [slot |-> t, state |-> "NEW"]
      /\ otadata'.older.state \in {"EMPTY", "VALID"}
      /\ running = IF otadata'.older.state = "VALID"
                   THEN otadata'.older.slot ELSE "factory"
  BY <1>1, <1>3, <1>4, <1>6
<1>8. flash[running] # NoPackage /\ flash["factory"] # NoPackage
  BY <1>6 DEF RecordInv, Usable
<1>9. EspOtaTypeOK'
  BY <1>1, <1>5 DEF EspOtaTypeOK, OtaData
<1>10. RecordInv'
  BY <1>1, <1>2, <1>7, <1>8 DEF RecordInv, Usable
<1>11. Activated'
  BY <1>1, <1>7 DEF Activated
<1>12. ConfirmedImage = flash[running] /\ ConfirmedImage' = flash[running]
  BY <1>1, <1>2, <1>6, <1>7 DEF ConfirmedImage, Usable
<1>13. /\ TrialImage = NoPackage /\ TrialImage' = flash[t]
       /\ ~TrialStarted /\ ~TrialStarted'
  BY <1>1, <1>2, <1>7 DEF TrialImage, TrialStarted, Unconfirmed
<1>14. ~OnTrial
  BY <1>13, OnTrialIff DEF RunsConfirmed
<1>15. ~OnTrial'
  BY <1>1, <1>2, <1>7 DEF OnTrial, EntryOf
<1> QED
  BY <1>1, <1>9, <1>10, <1>11, <1>12, <1>13, <1>14, <1>15

\* Marking the image that is on trial, valid or invalid, rewrites its record
\* and no other.
LEMMA MarkRecords ==
  ASSUME EspOtaTypeOK, RecordInv, RunsActive, OnTrial, NEW st \in {"VALID", "INVALID"},
         otadata' = [newer |-> SetState(otadata.newer, st),
                     older |-> SetState(otadata.older, st)]
  PROVE  /\ running = otadata.newer.slot
         /\ otadata.newer.state = "PENDING_VERIFY"
         /\ otadata'.newer = [slot |-> otadata.newer.slot, state |-> st]
         /\ otadata'.older = otadata.older
         /\ otadata' \in OtaData
<1> DEFINE n == otadata.newer
           o == otadata.older
<1>1. /\ n \in Entry /\ o \in Entry
      /\ o.state \in {"EMPTY", "VALID"}
  BY RecordFacts
<1>2. running = n.slot /\ n.state = "PENDING_VERIFY"
  BY OnTrialIff DEF TrialStarted
<1>3. SetState(o, st) = o
  BY <1>1 DEF SetState
<1>4. SetState(n, st) = [n EXCEPT !.state = st]
  BY <1>2 DEF SetState
<1>5. [n EXCEPT !.state = st] = [slot |-> n.slot, state |-> st]
  BY <1>1 DEF Entry
<1> QED
  BY <1>1, <1>2, <1>3, <1>4, <1>5 DEF OtaData, Entry, ImgState

\* esp_ota_mark_app_valid_cancel_rollback: the trial becomes the confirmed image.
LEMMA ValidRecords ==
  ASSUME EspOtaTypeOK, RecordInv, RunsActive, OnTrial, MarkValid
  PROVE  /\ EspOtaTypeOK' /\ RecordInv' /\ RunsActive' /\ RunsConfirmed'
         /\ ConfirmedImage' = TrialImage /\ TrialImage' = NoPackage
         /\ TrialStarted /\ ~TrialStarted' /\ ~OnTrial'
         /\ TrialImage = flash[running]
         /\ otadata'.newer.state = "VALID"
         /\ UNCHANGED <<flash, running>>
<1> DEFINE n == otadata.newer
           o == otadata.older
<1>1. /\ n \in Entry /\ running = n.slot /\ n.state = "PENDING_VERIFY"
      /\ otadata'.newer = [slot |-> n.slot, state |-> "VALID"]
      /\ otadata'.older = o
      /\ otadata' \in OtaData
      /\ o.state \in {"EMPTY", "VALID"}
      /\ UNCHANGED <<flash, running>>
  BY MarkRecords, RecordFacts DEF MarkValid
<1>2. EspOtaTypeOK'
  BY <1>1 DEF EspOtaTypeOK, OtaData
<1>3. RecordInv'
  BY <1>1 DEF RecordInv, Usable
<1>4. RunsActive' /\ RunsConfirmed'
  BY <1>1 DEF RunsConfirmed, RunsActive, ActiveSlot, Usable
<1>5. /\ ConfirmedImage' = TrialImage /\ TrialImage' = NoPackage
      /\ TrialStarted /\ ~TrialStarted'
      /\ TrialImage = flash[running]
  BY <1>1 DEF ConfirmedImage, TrialImage, TrialStarted, Unconfirmed
<1>6. ~OnTrial'
  BY <1>1 DEF OnTrial, EntryOf
<1> QED
  BY <1>1, <1>2, <1>3, <1>4, <1>5, <1>6

\* esp_ota_mark_app_invalid_rollback_and_reboot: the trial is given up and the
\* confirmed image stays.
LEMMA InvalidRecords ==
  ASSUME EspOtaTypeOK, RecordInv, RunsActive, OnTrial, MarkInvalid
  PROVE  /\ EspOtaTypeOK' /\ RecordInv'
         /\ ConfirmedImage' = ConfirmedImage /\ TrialImage' = NoPackage
         /\ TrialStarted /\ ~TrialStarted'
         /\ TrialImage = flash[running] /\ running = otadata.newer.slot
         /\ otadata'.newer = [slot |-> otadata.newer.slot, state |-> "INVALID"]
         /\ UNCHANGED <<flash, running>>
<1> DEFINE n == otadata.newer
           o == otadata.older
<1>1. /\ n \in Entry /\ running = n.slot /\ n.state = "PENDING_VERIFY"
      /\ otadata'.newer = [slot |-> n.slot, state |-> "INVALID"]
      /\ otadata'.older = o
      /\ otadata' \in OtaData
      /\ o.state \in {"EMPTY", "VALID"}
      /\ UNCHANGED <<flash, running>>
  BY MarkRecords, RecordFacts DEF MarkInvalid
<1>2. EspOtaTypeOK'
  BY <1>1 DEF EspOtaTypeOK, OtaData
<1>3. RecordInv'
  BY <1>1 DEF RecordInv, Usable
<1>4. /\ ConfirmedImage' = ConfirmedImage /\ TrialImage' = NoPackage
      /\ TrialStarted /\ ~TrialStarted'
      /\ TrialImage = flash[running]
  BY <1>1 DEF ConfirmedImage, TrialImage, TrialStarted, Unconfirmed, Usable
<1> QED
  BY <1>1, <1>2, <1>3, <1>4
=============================================================================
