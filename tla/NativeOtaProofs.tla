---------------------------- MODULE NativeOtaProofs ----------------------------
(***************************************************************************)
(* TLAPS proofs about NativeOta, for any set of packages, any versions,    *)
(* any crash points and any faults: a reset always finds a complete image, *)
(* a version that was rolled back is not downloaded again while the server *)
(* offers it, and the example implements the update mechanism of           *)
(* TrialUpdate.                                                            *)
(*                                                                         *)
(* NoAutomaticRetry is about one step, yet what it needs lasts from boot   *)
(* to boot: the record the bootloader or the diagnostic invalidated stays  *)
(* the newer one, and the description in its slot stays readable, until    *)
(* another image is downloaded (RetryInv).                                 *)
(***************************************************************************)
EXTENDS NativeOta, EspOtaProofs

-----------------------------------------------------------------------------
(* The invariant. *)

\* A device fresh from the cable flash satisfies the invariant.
LEMMA InitEstablishes == Init => IInv
<1> SUFFICES ASSUME Init PROVE IInv
  OBVIOUS
<1> USE DEF Init
<1>1. EspOtaTypeOK /\ RecordInv
  BY InitRecords
<1>2. TypeOK
  BY <1>1, PackageAssumption, NativeOtaAssumption DEF TypeOK, PC, EspOtaTypeOK
<1>3. RunningInv /\ ContentInv /\ RetryInv
  BY DEF RunningInv, ContentInv, RetryInv
<1> QED
  BY <1>1, <1>2, <1>3 DEF IInv

\* What a step that only moves on within a running image needs.
LEMMA MovesOn ==
  ASSUME IInv, UNCHANGED <<EspOtaVars, header, offered, offers, rolledBack>>,
         got' \in Package \cup {NoPackage},
         \/ pc' = "off" /\ got' = got
         \/ pc = "connect" /\ pc' = "check" /\ got' = got
         \/ pc = "check" /\ pc' = "wait"
         \/ pc \in {"download", "received", "ended"} /\ pc' = "wait" /\ got' = got
  PROVE  IInv'
<1>1. TypeOK /\ RecordInv /\ RunningInv /\ ContentInv /\ RetryInv
  BY DEF IInv
<1>2. UNCHANGED <<flash, otadata, running>>
  BY DEF EspOtaVars
<1>3. TypeOK'
  BY <1>1, KeptRecords DEF TypeOK, PC
<1>4. RecordInv'
  BY <1>1, KeptRecords
<1>5. RunningInv'
  BY <1>1, KeptRecords DEF RunningInv
<1>6. ContentInv' /\ RetryInv'
  BY <1>1, <1>2 DEF ContentInv, RetryInv
<1> QED
  BY <1>3, <1>4, <1>5, <1>6 DEF IInv

\* The bootloader starts the active slot; a trial it gives up is the newer
\* record, whose slot still has its description.
LEMMA BootKeeps == ASSUME IInv, Boot PROVE IInv'
<1>1. /\ TypeOK /\ EspOtaTypeOK /\ RecordInv /\ Bootloader
      /\ ContentInv /\ RetryInv
      /\ pc = "off" /\ pc' = "diagnose"
      /\ UNCHANGED <<got, header, offered, offers>>
      /\ rolledBack' = rolledBack \cup {Version[flash[s]] : s \in AbortedAtReset}
  BY DEF IInv, TypeOK, Boot
<1>2. /\ EspOtaTypeOK' /\ RecordInv' /\ RunsActive'
      /\ TrialStarted => /\ AbortedAtReset = {otadata.newer.slot}
                         /\ otadata'.newer.state = "ABORTED"
      /\ ~TrialStarted => AbortedAtReset = {}
      /\ ~Unconfirmed(otadata.newer) => otadata'.newer = otadata.newer
      /\ flash' = flash /\ otadata'.newer.slot = otadata.newer.slot
  BY <1>1, BootRecords
<1>3. TrialStarted => flash[otadata.newer.slot] \in Package
  BY <1>1, RecordFacts DEF RecordInv, TrialStarted, Usable
<1>4. TypeOK'
  <2>1. rolledBack' \subseteq {Version[p] : p \in Package}
    BY <1>1, <1>2, <1>3 DEF TypeOK
  <2> QED
    BY <1>1, <1>2, <2>1 DEF TypeOK, PC
<1>5. RunningInv'
  BY <1>1, <1>2 DEF RunningInv
<1>6. ContentInv'
  BY <1>1, <1>2 DEF ContentInv
<1>7. RetryInv'
  <2>1. CASE TrialStarted
    <3>1. Version[offered] \notin rolledBack
      BY <1>1, <2>1 DEF RetryInv, TrialStarted
    <3>2. header[otadata.newer.slot] = flash[otadata.newer.slot]
          /\ flash[otadata.newer.slot] # NoPackage
      BY <1>1, <1>3, <2>1, PackageAssumption, RecordFacts DEF ContentInv
    <3>3. rolledBack' = rolledBack \cup {Version[flash[otadata.newer.slot]]}
      BY <1>1, <1>2, <2>1
    <3> QED
      BY <1>1, <1>2, <2>1, <3>1, <3>2, <3>3 DEF RetryInv
  <2>2. CASE ~TrialStarted
    <3>1. rolledBack' = rolledBack
      BY <1>1, <1>2, <2>2
    <3>2. CASE Version[offered] \in rolledBack
      <4>1. otadata'.newer = otadata.newer
        BY <1>1, <1>2, <3>2 DEF RetryInv, Unconfirmed
      <4> QED
        BY <1>1, <3>1, <3>2, <4>1 DEF RetryInv
    <3>3. CASE Version[offered] \notin rolledBack
      BY <1>1, <3>1, <3>3 DEF RetryInv
    <3> QED
      BY <3>2, <3>3
  <2> QED
    BY <2>1, <2>2
<1> QED
  BY <1>2, <1>4, <1>5, <1>6, <1>7 DEF IInv

\* A trial ends: confirmed, or invalidated by its own diagnostic.
LEMMA DiagnoseKeeps == ASSUME IInv, Diagnose PROVE IInv'
<1>1. /\ TypeOK /\ EspOtaTypeOK /\ RecordInv /\ RunsActive
      /\ ContentInv /\ RetryInv
      /\ pc = "diagnose"
      /\ UNCHANGED <<got, header, offered, offers>>
  BY DEF IInv, TypeOK, RunningInv, Diagnose
<1>2. CASE ~OnTrial /\ UNCHANGED EspOtaVars /\ pc' = "connect" /\ UNCHANGED rolledBack
  <2>1. RunsConfirmed
    BY <1>1, <1>2, OnTrialIff DEF RunsConfirmed, TrialStarted
  <2>2. EspOtaTypeOK' /\ RecordInv' /\ RunsActive' /\ RunsConfirmed'
    BY <1>1, <1>2, <2>1, KeptRecords
  <2>3. TypeOK' /\ RunningInv'
    BY <1>1, <1>2, <2>2 DEF TypeOK, PC, RunningInv
  <2>4. ContentInv' /\ RetryInv'
    BY <1>1, <1>2 DEF ContentInv, RetryInv, EspOtaVars
  <2> QED
    BY <2>2, <2>3, <2>4 DEF IInv
<1>3. CASE OnTrial /\ MarkValid /\ pc' = "connect" /\ UNCHANGED rolledBack
  <2>1. /\ EspOtaTypeOK' /\ RecordInv' /\ RunsActive' /\ RunsConfirmed'
        /\ TrialStarted /\ flash' = flash
    BY <1>1, <1>3, ValidRecords
  <2>2. TypeOK' /\ RunningInv'
    BY <1>1, <1>3, <2>1 DEF TypeOK, PC, RunningInv
  <2>3. ContentInv'
    BY <1>1, <1>3, <2>1 DEF ContentInv
  <2>4. RetryInv'
    BY <1>1, <1>3, <2>1 DEF RetryInv, TrialStarted
  <2> QED
    BY <2>1, <2>2, <2>3, <2>4 DEF IInv
<1>4. CASE /\ OnTrial /\ MarkInvalid /\ pc' = "off"
           /\ rolledBack' = rolledBack \cup {Version[flash[running]]}
  <2>1. /\ EspOtaTypeOK' /\ RecordInv' /\ TrialStarted /\ flash' = flash
        /\ running = otadata.newer.slot
        /\ otadata'.newer = [slot |-> otadata.newer.slot, state |-> "INVALID"]
    BY <1>1, <1>4, InvalidRecords
  <2>2. flash[running] \in Package /\ running \in Slot
    BY <1>1, <2>1, RecordFacts DEF RecordInv, TrialStarted, Usable
  <2>3. TypeOK' /\ RunningInv'
    BY <1>1, <1>4, <2>1, <2>2 DEF TypeOK, PC, RunningInv
  <2>4. ContentInv'
    BY <1>1, <1>4, <2>1 DEF ContentInv
  <2>5. header[running] = flash[running] /\ flash[running] # NoPackage
    BY <1>1, <2>2, PackageAssumption DEF ContentInv
  <2>6. Version[offered] \notin rolledBack
    BY <1>1, <2>1 DEF RetryInv, TrialStarted
  <2>7. RetryInv'
    BY <1>1, <1>4, <2>1, <2>5, <2>6 DEF RetryInv
  <2> QED
    BY <2>1, <2>3, <2>4, <2>7 DEF IInv
<1> QED
  BY <1>2, <1>3, <1>4 DEF Diagnose

\* What keeps NoAutomaticRetry: the version of the slot that was invalidated
\* last is not wanted.
LEMMA NotWanted ==
  ASSUME IInv, Wanted(Version[offered])
  PROVE  Version[offered] \notin rolledBack
BY DEF IInv, RetryInv, Wanted, LastInvalid

\* esp_ota_begin erases the spare slot and with it the description.
LEMMA CheckKeeps == ASSUME IInv, CheckServer PROVE IInv'
<1>1. /\ TypeOK /\ EspOtaTypeOK /\ RecordInv /\ RunsConfirmed /\ ContentInv /\ RetryInv
      /\ pc = "check" /\ got' = offered /\ offered \in Package
      /\ UNCHANGED <<offered, offers, rolledBack>>
  BY DEF IInv, TypeOK, RunningInv, CheckServer
<1>2. CASE pc' = "wait" /\ UNCHANGED <<EspOtaVars, header>>
  BY <1>1, <1>2, MovesOn
<1>3. CASE /\ Wanted(Version[offered])
           /\ OtaBegin(Target) /\ header' = [header EXCEPT ![Target] = NoPackage]
           /\ pc' = "download"
  <2>1. /\ flash' = [flash EXCEPT ![NextUpdate(running)] = NoPackage]
        /\ UNCHANGED <<otadata, running>>
    BY <1>3 DEF OtaBegin, Target
  <2>2. /\ EspOtaTypeOK' /\ RecordInv' /\ RunsActive' /\ RunsConfirmed'
        /\ flash'[Target] = NoPackage
    BY <1>1, <2>1, SpareWrite DEF Target
  <2>3. Target \in Slot /\ Target' = Target
    BY <1>1, <2>1, SpareSlot DEF Target
  <2>4. TypeOK' /\ RunningInv'
    BY <1>1, <1>3, <2>2, <2>3 DEF TypeOK, PC, RunningInv
  <2>5. ContentInv'
    <3>1. \A s \in Slot : flash'[s] # NoPackage => header'[s] = flash'[s]
      BY <1>1, <1>3, <2>1, <2>3, RecordFacts DEF ContentInv, TypeOK, Target
    <3> QED
      BY <1>1, <1>3, <2>2, <2>3, <3>1 DEF ContentInv
  <2>6. RetryInv'
    BY <1>1, <1>3, NotWanted DEF RetryInv
  <2> QED
    BY <2>2, <2>4, <2>5, <2>6 DEF IInv
<1> QED
  BY <1>2, <1>3 DEF CheckServer

\* The download brings the description first; the slot has no image yet.
LEMMA DownloadKeeps == ASSUME IInv, Download PROVE IInv'
<1>1. /\ TypeOK /\ EspOtaTypeOK /\ RecordInv /\ RunsActive /\ RunsConfirmed
      /\ ContentInv /\ RetryInv
      /\ pc = "download" /\ got \in Package /\ flash[Target] = NoPackage
      /\ UNCHANGED <<EspOtaVars, got, offered, offers, rolledBack>>
  BY DEF IInv, TypeOK, RunningInv, ContentInv, Download
<1>2. /\ header' \in {header, [header EXCEPT ![Target] = got]}
      /\ pc' \in {"received", "wait", "stalled"}
      /\ pc' = "received" => header'[Target] = got
  BY DEF Download
<1>3. UNCHANGED <<flash, otadata, running>> /\ Target' = Target
  BY <1>1 DEF EspOtaVars, Target
<1>4. EspOtaTypeOK' /\ RecordInv' /\ RunsActive' /\ RunsConfirmed'
  BY <1>1, KeptRecords
<1>5. TypeOK' /\ RunningInv'
  <2>1. header' \in [Slot -> Package \cup {NoPackage}]
    BY <1>1, <1>2 DEF TypeOK
  <2> QED
    BY <1>1, <1>2, <1>4, <2>1 DEF TypeOK, PC, RunningInv
<1>6. ContentInv'
  <2>1. \A s \in Slot : flash[s] # NoPackage => header'[s] = header[s]
    BY <1>1, <1>2 DEF TypeOK
  <2> QED
    BY <1>1, <1>2, <1>3, <2>1 DEF ContentInv
<1>7. RetryInv'
  BY <1>1, <1>3 DEF RetryInv
<1> QED
  BY <1>4, <1>5, <1>6, <1>7 DEF IInv

\* esp_ota_end: the slot holds the image of the description.
LEMMA EndKeeps == ASSUME IInv, EndUpdate PROVE IInv'
<1>1. /\ TypeOK /\ EspOtaTypeOK /\ RecordInv /\ RunsConfirmed
      /\ ContentInv /\ RetryInv
      /\ pc = "received" /\ got \in Package /\ header[Target] = got
      /\ UNCHANGED <<got, header, offered, offers, rolledBack>>
  BY DEF IInv, TypeOK, RunningInv, ContentInv, EndUpdate
<1>2. CASE pc' = "wait" /\ UNCHANGED EspOtaVars
  BY <1>1, <1>2, MovesOn
<1>3. CASE OtaEnd(Target, got) /\ pc' = "ended"
  <2>1. /\ flash' = [flash EXCEPT ![NextUpdate(running)] = got]
        /\ UNCHANGED <<otadata, running>>
    BY <1>3 DEF OtaEnd, Target
  <2>2. /\ EspOtaTypeOK' /\ RecordInv' /\ RunsActive' /\ RunsConfirmed'
        /\ flash'[Target] = got
    BY <1>1, <2>1, SpareWrite DEF Target
  <2>3. Target' = Target
    BY <2>1 DEF Target
  <2>4. TypeOK' /\ RunningInv'
    BY <1>1, <1>3, <2>2 DEF TypeOK, PC, RunningInv
  <2>5. ContentInv'
    <3>1. \A s \in Slot : flash'[s] # NoPackage => header[s] = flash'[s]
      BY <1>1, <2>1, RecordFacts DEF ContentInv, Target
    <3> QED
      BY <1>1, <1>3, <2>2, <2>3, <3>1 DEF ContentInv
  <2>6. RetryInv'
    BY <1>1, <1>3, <2>1 DEF RetryInv
  <2> QED
    BY <2>2, <2>4, <2>5, <2>6 DEF IInv
<1> QED
  BY <1>2, <1>3 DEF EndUpdate

\* What a step that activates the update does to records and images.
LEMMA ActivatedSlot ==
  ASSUME IInv, pc = "ended", SetBoot(Target)
  PROVE  /\ EspOtaTypeOK' /\ RecordInv' /\ Activated'
         /\ ConfirmedImage' = ConfirmedImage
         /\ TrialImage = NoPackage /\ TrialImage' = got /\ got \in Package
         /\ ~TrialStarted /\ ~TrialStarted'
         /\ ~OnTrial /\ ~OnTrial'
         /\ UNCHANGED <<flash, running>>
<1>1. /\ EspOtaTypeOK /\ RecordInv /\ RunsConfirmed
      /\ got \in Package /\ flash[Target] = got
  BY DEF IInv, TypeOK, RunningInv, ContentInv
<1>2. flash[Target] # NoPackage
  BY <1>1, PackageAssumption
<1> QED
  BY <1>1, <1>2, SetBootRecords DEF Target

\* esp_ota_set_boot_partition stages the image.
LEMMA ActivateKeeps == ASSUME IInv, ActivateUpdate PROVE IInv'
<1>1. /\ TypeOK /\ ContentInv /\ RetryInv /\ pc = "ended"
      /\ UNCHANGED <<got, header, offered, offers, rolledBack>>
  BY DEF IInv, ActivateUpdate
<1>2. CASE pc' = "wait" /\ UNCHANGED EspOtaVars
  BY <1>1, <1>2, MovesOn DEF TypeOK
<1>3. CASE SetBoot(Target) /\ pc' = "restart"
  <2>1. EspOtaTypeOK' /\ RecordInv' /\ Activated' /\ UNCHANGED <<flash, running>>
    BY <1>1, <1>3, ActivatedSlot
  <2>2. TypeOK' /\ RunningInv'
    BY <1>1, <1>3, <2>1 DEF TypeOK, PC, RunningInv
  <2>3. ContentInv' /\ RetryInv'
    BY <1>1, <1>3, <2>1 DEF ContentInv, RetryInv
  <2> QED
    BY <2>1, <2>2, <2>3 DEF IInv
<1> QED
  BY <1>2, <1>3 DEF ActivateUpdate

\* A new offer starts the history afresh and touches nothing on the device.
LEMMA OfferKeeps == ASSUME IInv, ChangeOffer PROVE IInv'
<1>1. /\ TypeOK /\ RecordInv /\ RunningInv /\ ContentInv
      /\ UNCHANGED <<EspOtaVars, pc, got, header>>
      /\ offered' \in Package /\ rolledBack' = {}
      /\ offers' = offers + 1 /\ offers < MaxOffers
  BY DEF IInv, ChangeOffer
<1>2. offers' \in 0..MaxOffers
  BY <1>1, NativeOtaAssumption DEF TypeOK
<1>3. TypeOK' /\ RecordInv'
  BY <1>1, <1>2, KeptRecords DEF TypeOK
<1>4. RunningInv'
  BY <1>1, KeptRecords DEF RunningInv
<1>5. ContentInv' /\ RetryInv'
  BY <1>1 DEF ContentInv, RetryInv, Target, EspOtaVars
<1> QED
  BY <1>3, <1>4, <1>5 DEF IInv

\* Every step keeps the invariant.
LEMMA NextKeeps == ASSUME IInv, [Next]_vars PROVE IInv'
<1>0. got \in Package \cup {NoPackage}
  BY DEF IInv, TypeOK
<1>1. CASE Connect \/ Restart \/ Crash
  BY <1>0, <1>1, MovesOn DEF Connect, Restart, Crash
<1>2. CASE ReadAgain \/ UNCHANGED vars
  <2>1. UNCHANGED vars
    BY <1>2 DEF ReadAgain
  <2>2. TypeOK' /\ RecordInv' /\ RunningInv'
    BY <2>1, KeptRecords DEF IInv, TypeOK, RunningInv, vars
  <2>3. ContentInv' /\ RetryInv'
    BY <2>1 DEF IInv, ContentInv, RetryInv, Target, vars, EspOtaVars
  <2> QED
    BY <2>2, <2>3 DEF IInv
<1> QED
  BY <1>1, <1>2, BootKeeps, DiagnoseKeeps, CheckKeeps, DownloadKeeps, EndKeeps,
     ActivateKeeps, OfferKeeps DEF Next, Device

\* The invariant holds in every behaviour.
THEOREM Invariance == Spec => []IInv
<1>1. Init => IInv
  BY InitEstablishes
<1>2. IInv /\ [Next]_vars => IInv'
  BY NextKeeps
<1> QED
  BY <1>1, <1>2, PTL DEF Spec

\* The variables of the example keep their types.
THEOREM TypeCorrect == Spec => []TypeOK
<1>1. IInv => TypeOK
  BY DEF IInv
<1> QED
  BY <1>1, Invariance, PTL

\* Whenever the device loses power, the next start and the one after it find a
\* complete image.
THEOREM AlwaysBootableThm == Spec => []AlwaysBootable
<1>1. IInv => AlwaysBootable
  BY RecordsBootable DEF IInv, TypeOK, AlwaysBootable
<1> QED
  BY <1>1, Invariance, PTL

\* A version that was rolled back, by the bootloader or by its own diagnostic,
\* is not downloaded again while the server offers it, wherever the device
\* resets and whatever fails (native_ota_example.c:172-180).
THEOREM NoAutomaticRetryThm == Spec => NoAutomaticRetry
<1>1. ASSUME IInv, [Next]_vars, pc = "check", pc' = "download"
      PROVE  Version[offered] \notin rolledBack
  <2>1. CheckServer
    BY <1>1 DEF Next, Device, Boot, Diagnose, Connect, Download, EndUpdate,
       ActivateUpdate, Restart, ReadAgain, Crash, ChangeOffer, vars
  <2>2. Wanted(Version[offered])
    BY <1>1, <2>1 DEF CheckServer
  <2> QED
    BY <1>1, <2>2, NotWanted
<1>2. IInv /\ [Next]_vars
        => (pc = "check" /\ pc' = "download" => Version[offered] \notin rolledBack)
  BY <1>1
<1> QED
  BY <1>2, Invariance, PTL DEF Spec, NoAutomaticRetry

-----------------------------------------------------------------------------
(* The refinement of TrialUpdate. *)

\* The initial states map to initial states.
LEMMA InitMaps == Init => Trial!Init
<1> SUFFICES ASSUME Init PROVE Trial!Init
  OBVIOUS
<1> USE DEF Init, EspOtaInit, NoEntry
<1>1. ConfirmedImage = FactoryImage
  BY DEF ConfirmedImage, Usable, Slot
<1>2. TrialImage = NoPackage /\ TrialStarted = FALSE /\ Activity = "off"
  BY DEF TrialImage, TrialStarted, Unconfirmed, Activity
<1> QED
  BY <1>1, <1>2 DEF Trial!Init

\* A step that keeps what the boot records say is a stutter, or the stop of the
\* device.
LEMMA KeptMaps ==
  ASSUME UNCHANGED <<ConfirmedImage, TrialImage, TrialStarted, OnTrial>>,
         pc = "off" => pc' = "off"
  PROVE  [Trial!Next]_Trial!vars
<1>1. CASE pc' = "off" /\ pc # "off"
  <2>1. Activity # "off" /\ Activity' = "off"
    BY <1>1 DEF Activity
  <2> QED
    BY <2>1 DEF Trial!Next, Trial!Stop
<1>2. CASE (pc = "off") <=> (pc' = "off")
  BY <1>2 DEF Trial!vars, Activity
<1> QED
  BY <1>1, <1>2

\* A boot starts the confirmed image, gives a staged image its one start, or
\* gives up the trial that was not confirmed.
LEMMA BootMaps == ASSUME IInv, Boot PROVE Trial!Next
<1>1. EspOtaTypeOK /\ RecordInv /\ Bootloader /\ pc = "off" /\ pc' = "diagnose"
  BY DEF IInv, TypeOK, Boot
<1>2. /\ Activity = "off" /\ Activity' = IF TrialStarted' THEN "trial" ELSE "confirmed"
      /\ ConfirmedImage' = ConfirmedImage
  BY <1>1, BootRecords DEF Activity
<1>3. CASE otadata.newer.state = "NEW"
  <2>1. /\ TrialImage # NoPackage /\ TrialImage' = TrialImage
        /\ ~TrialStarted /\ TrialStarted' = TRUE
    BY <1>1, <1>3, BootRecords
  <2> QED
    BY <1>2, <2>1 DEF Trial!Next, Trial!StartTrial
<1>4. CASE TrialStarted
  <2>1. /\ TrialImage # NoPackage /\ TrialImage' = NoPackage
        /\ TrialStarted' = FALSE
    BY <1>1, <1>4, BootRecords
  <2> QED
    BY <1>2, <1>4, <2>1 DEF Trial!Next, Trial!RollBack
<1>5. CASE ~Unconfirmed(otadata.newer)
  <2>1. /\ TrialImage = NoPackage /\ TrialImage' = NoPackage
        /\ TrialStarted = FALSE /\ TrialStarted' = FALSE
    BY <1>1, <1>5, BootRecords
  <2> QED
    BY <1>2, <2>1 DEF Trial!Next, Trial!StartConfirmed
<1> QED
  BY <1>3, <1>4, <1>5 DEF Unconfirmed, TrialStarted

\* The diagnostic confirms the trial, rejects it, or finds none.
LEMMA DiagnoseMaps == ASSUME IInv, Diagnose PROVE [Trial!Next]_Trial!vars
<1>1. EspOtaTypeOK /\ RecordInv /\ RunsActive /\ pc = "diagnose"
  BY DEF IInv, TypeOK, RunningInv, Diagnose
<1>2. CASE UNCHANGED EspOtaVars /\ pc' = "connect"
  BY <1>1, <1>2, KeptRecords, KeptMaps
<1>3. CASE OnTrial /\ MarkValid /\ pc' = "connect"
  <2>1. /\ ConfirmedImage' = TrialImage /\ TrialImage' = NoPackage
        /\ TrialStarted' = FALSE /\ OnTrial' = FALSE
    BY <1>1, <1>3, ValidRecords
  <2>2. Activity = "trial" /\ Activity' = "confirmed"
    BY <1>1, <1>3, <2>1 DEF Activity
  <2> QED
    BY <2>1, <2>2 DEF Trial!Next, Trial!Confirm
<1>4. CASE OnTrial /\ MarkInvalid /\ pc' = "off"
  <2>1. /\ ConfirmedImage' = ConfirmedImage /\ TrialImage' = NoPackage
        /\ TrialStarted' = FALSE
    BY <1>1, <1>4, InvalidRecords
  <2>2. Activity = "trial" /\ Activity' = "off"
    BY <1>1, <1>4 DEF Activity
  <2> QED
    BY <2>1, <2>2 DEF Trial!Next, Trial!Reject
<1> QED
  BY <1>2, <1>3, <1>4 DEF Diagnose

\* Erasing or filling the spare slot is a stutter.
LEMMA TargetWriteMaps ==
  ASSUME IInv, pc \in {"check", "received"}, pc' # "off",
         NEW x \in Package \cup {NoPackage},
         flash' = [flash EXCEPT ![Target] = x],
         UNCHANGED <<otadata, running>>
  PROVE  [Trial!Next]_Trial!vars
<1>1. EspOtaTypeOK /\ RecordInv /\ RunsConfirmed
  BY DEF IInv, TypeOK, RunningInv
<1>2. UNCHANGED <<ConfirmedImage, TrialImage, TrialStarted, OnTrial>>
  BY <1>1, SpareWrite DEF Target
<1> QED
  BY <1>2, KeptMaps

\* Activating the image is the abstract Stage.
LEMMA ActivateMaps ==
  ASSUME IInv, pc = "ended", SetBoot(Target), pc' = "restart"
  PROVE  Trial!Next
<1>1. /\ ConfirmedImage' = ConfirmedImage
      /\ TrialImage = NoPackage /\ TrialImage' \in Package
      /\ TrialStarted = FALSE /\ TrialStarted' = FALSE
      /\ OnTrial = FALSE /\ OnTrial' = FALSE
  BY ActivatedSlot
<1>2. Activity = "confirmed" /\ Activity' = "confirmed"
  BY <1>1 DEF Activity
<1> QED
  BY <1>1, <1>2 DEF Trial!Next, Trial!Stage

\* Every step of the device is a step of the abstract mechanism or a stutter.
LEMMA NextMaps == ASSUME IInv, [Next]_vars PROVE [Trial!Next]_Trial!vars
<1>1. CASE Boot
  BY <1>1, BootMaps
<1>2. CASE Diagnose
  BY <1>2, DiagnoseMaps
<1>3. CASE CheckServer
  <2>1. CASE UNCHANGED EspOtaVars
    BY <1>3, <2>1, KeptRecords, KeptMaps DEF CheckServer
  <2>2. CASE OtaBegin(Target) /\ pc' = "download"
    BY <1>3, <2>2, TargetWriteMaps DEF CheckServer, OtaBegin
  <2> QED
    BY <1>3, <2>1, <2>2 DEF CheckServer
<1>4. CASE EndUpdate
  <2>1. CASE UNCHANGED EspOtaVars
    BY <1>4, <2>1, KeptRecords, KeptMaps DEF EndUpdate
  <2>2. CASE OtaEnd(Target, got) /\ pc' = "ended"
    <3>1. got \in Package \cup {NoPackage}
      BY DEF IInv, TypeOK
    <3> QED
      BY <1>4, <2>2, <3>1, TargetWriteMaps DEF EndUpdate, OtaEnd
  <2> QED
    BY <1>4, <2>1, <2>2 DEF EndUpdate
<1>5. CASE ActivateUpdate
  <2>1. CASE UNCHANGED EspOtaVars
    BY <1>5, <2>1, KeptRecords, KeptMaps DEF ActivateUpdate
  <2>2. CASE SetBoot(Target) /\ pc' = "restart"
    BY <1>5, <2>2, ActivateMaps DEF ActivateUpdate
  <2> QED
    BY <1>5, <2>1, <2>2 DEF ActivateUpdate
<1>6. CASE Connect \/ Download \/ Restart \/ ReadAgain \/ Crash \/ ChangeOffer \/ UNCHANGED vars
  <2>1. UNCHANGED EspOtaVars /\ (pc = "off" => pc' = "off")
    BY <1>6 DEF Connect, Download, Restart, ReadAgain, Crash, ChangeOffer, vars
  <2> QED
    BY <2>1, KeptRecords, KeptMaps
<1> QED
  BY <1>1, <1>2, <1>3, <1>4, <1>5, <1>6 DEF Next, Device

\* The example implements the abstract update mechanism: one confirmed image
\* survives everything, a staged image is started once, and it is confirmed by
\* its diagnostic or given up.
THEOREM ImplementsTrialUpdateThm == Spec => ImplementsTrialUpdate
<1>1. Init => Trial!Init
  BY InitMaps
<1>2. IInv /\ [Next]_vars => [Trial!Next]_Trial!vars
  BY NextMaps
<1> QED
  BY <1>1, <1>2, Invariance, PTL DEF Spec, ImplementsTrialUpdate, Trial!Spec
================================================================================
