---------------------------- MODULE AzureOtaProofs ----------------------------
(***************************************************************************)
(* TLAPS proofs about AzureOta, for any set of packages, any versions and  *)
(* offers, any crash points and any faults: a reset always finds a         *)
(* complete image, although one task may restart the device at any moment  *)
(* of the other's work, and the client implements the update mechanism of  *)
(* TrialUpdate.  Of the two NVS keys: what was rolled back is not tried    *)
(* again, if no reset falls between the erasure of pending_fw and the      *)
(* confirmation; and only what was rolled back is called known-bad, if     *)
(* nothing stops ota_task at its work and the offers are labelled right.   *)
(***************************************************************************)
EXTENDS AzureOta, EspOtaProofs

-----------------------------------------------------------------------------
(* The invariant. *)

\* A device fresh from the cable flash satisfies the invariant.
LEMMA InitEstablishes == Init => IInv
<1> SUFFICES ASSUME Init PROVE IInv
  OBVIOUS
<1> USE DEF Init
<1>1. EspOtaTypeOK /\ RecordInv
  BY InitRecords
<1>2. TypeOK
  <2>1. queue \in Seq(Twin)
    OBVIOUS
  <2>2. {connected, inProgress, getting} \subseteq BOOLEAN
    OBVIOUS
  <2>3. NoOffer \in Twin
    BY DEF NoOffer, Twin
  <2> QED
    BY <1>1, <2>1, <2>2, <2>3, AzureOtaAssumption DEF TypeOK, PC, TaskState, FwState
<1>3. TrialImage = NoPackage
  BY DEF EspOtaInit, NoEntry, TrialImage, Unconfirmed
<1>4. SessionInv /\ RunningInv /\ ContentInv
  BY <1>3 DEF SessionInv, RunningInv, ContentInv
<1> QED
  BY <1>1, <1>2, <1>4 DEF IInv

\* A step that leaves flash, records and running slot alone, and does not get
\* ahead in app_main or in ota_task where that takes more, keeps the rest.
LEMMA QuietKeeps ==
  ASSUME IInv, TypeOK', SessionInv', UNCHANGED <<EspOtaVars, tried>>,
         pc' = "off" \/ pc' = pc
           \/ (pc \in {"reconcile", "erase", "connect"}
                 /\ pc' \in {"reconcile", "erase", "connect", "confirm"}),
         task' = "bootset" <=> (task = "bootset" /\ pc' # "off"),
         task' = "ended" => task = "ended" /\ body' = body
  PROVE  IInv'
<1>1. RecordInv /\ SessionInv /\ RunningInv /\ ContentInv
  BY DEF IInv
<1>2. RecordInv'
  BY <1>1, KeptRecords
<1>3. task = "bootset" /\ pc' = "off" => task' = "none"
  BY DEF SessionInv
<1>4. RunningInv'
  BY <1>1, KeptRecords DEF RunningInv, SessionInv
<1>5. ContentInv'
  BY <1>1, KeptRecords DEF ContentInv, Target, EspOtaVars
<1> QED
  BY <1>2, <1>4, <1>5 DEF IInv

\* A reset keeps everything but the RAM of the application.
LEMMA ResetKeeps ==
  ASSUME IInv, Reset, UNCHANGED <<EspOtaVars, nvs, fwState, hub, history>>
  PROVE  IInv'
<1> USE DEF Reset, nvs, hub, history
<1>1. TypeOK'
  <2>1. queue' \in Seq(Twin)
    OBVIOUS
  <2>2. {connected', inProgress', getting'} \subseteq BOOLEAN
    OBVIOUS
  <2>3. NoOffer \in Twin
    BY DEF NoOffer, Twin
  <2> QED
    BY <2>1, <2>2, <2>3, KeptRecords DEF IInv, TypeOK, PC, TaskState
<1>2. SessionInv'
  BY DEF SessionInv
<1> QED
  BY <1>1, <1>2, QuietKeeps

\* The bootloader starts the active slot; a trial it gives up has a version.
LEMMA BootKeeps == ASSUME IInv, Boot PROVE IInv'
<1>1. /\ TypeOK /\ EspOtaTypeOK /\ RecordInv /\ Bootloader /\ ContentInv
      /\ pc = "off" /\ pc' = "reconcile" /\ task = "none" /\ task' = "none"
      /\ ~connected' /\ ~getting' /\ queue' = <<>>
      /\ UNCHANGED <<nvs, ota, fwState, hub, net, tried>>
  BY DEF IInv, TypeOK, SessionInv, Boot, ota, net
<1>2. /\ EspOtaTypeOK' /\ RecordInv' /\ RunsActive'
      /\ TrialStarted => TrialImage # NoPackage
      /\ ~TrialStarted => AbortedAtReset = {}
      /\ TrialImage' # NoPackage => TrialImage # NoPackage
  BY <1>1, BootRecords DEF Unconfirmed, TrialStarted
<1>3. /\ {undone', tried'} \subseteq Versions \cup {NoVersion}
      /\ rolledBack' \subseteq Versions
  <2>1. CASE AbortedAtReset = {}
    BY <1>1, <2>1 DEF Boot, TypeOK
  <2>2. CASE AbortedAtReset # {}
    <3>1. tried \in Versions
      BY <1>1, <1>2, <2>2 DEF TypeOK, ContentInv
    <3> QED
      BY <1>1, <2>2, <3>1 DEF Boot, TypeOK
  <2> QED
    BY <2>1, <2>2
<1>4. TypeOK'
  BY <1>1, <1>2, <1>3 DEF TypeOK, PC, nvs, ota, hub, net
<1>5. SessionInv' /\ RunningInv'
  BY <1>1, <1>2 DEF SessionInv, RunningInv
<1>6. ContentInv'
  BY <1>1, <1>2 DEF ContentInv
<1> QED
  BY <1>2, <1>4, <1>5, <1>6 DEF IInv

\* app_main up to the confirmation.
LEMMA StartKeeps ==
  ASSUME IInv, ReconcilePending \/ ErasePending \/ WifiUp
  PROVE  IInv'
<1> USE DEF ReconcilePending, ErasePending, WifiUp, nvs, ota, hub, net, history
<1>1. TypeOK'
  BY KeptRecords DEF IInv, TypeOK, PC
<1>2. SessionInv'
  BY DEF IInv, SessionInv
<1> QED
  BY <1>1, <1>2, QuietKeeps DEF IInv, SessionInv

\* Confirming only turns the running trial into a valid image.
LEMMA ConfirmKeeps == ASSUME IInv, ConfirmImage PROVE IInv'
<1>1. /\ TypeOK /\ EspOtaTypeOK /\ RecordInv /\ RunsActive /\ ContentInv
      /\ pc = "confirm" /\ pc' = "run" /\ task = "none" /\ task' = "none"
      /\ UNCHANGED <<nvs, ota, fwState, hub, net, history>>
  BY DEF IInv, TypeOK, SessionInv, RunningInv, ConfirmImage, ota
<1>2. /\ EspOtaTypeOK' /\ RecordInv' /\ RunsActive' /\ RunsConfirmed'
      /\ TrialImage' # NoPackage => TrialImage # NoPackage
  <2>1. CASE OnTrial
    BY <1>1, <2>1, ValidRecords DEF ConfirmImage
  <2>2. CASE ~OnTrial
    BY <1>1, <2>2, KeptRecords, OnTrialIff DEF ConfirmImage, RunsConfirmed, TrialStarted
  <2> QED
    BY <2>1, <2>2
<1>3. TypeOK'
  BY <1>1, <1>2 DEF TypeOK, PC, nvs, ota, hub, net, history
<1>4. SessionInv' /\ RunningInv' /\ ContentInv'
  BY <1>1, <1>2 DEF SessionInv, RunningInv, ContentInv, history
<1> QED
  BY <1>2, <1>3, <1>4 DEF IInv

\* What the twin message in hand may start: a task, and only if there is none.
LEMMA TwinEffect ==
  ASSUME IInv, HandleTwin
  PROVE  /\ pc = "run" /\ pc' = "run"
         /\ Head(queue) \in Twin /\ queue # <<>> /\ queue' = Tail(queue)
         /\ queue' \in Seq(Twin)
         /\ fwState' \in FwState /\ inProgress' \in BOOLEAN
         /\ \/ UNCHANGED <<task, job>> /\ (inProgress => inProgress')
            \/ /\ task = "none" /\ task' = "opening" /\ inProgress'
               /\ job' = Head(queue)
               /\ job'.version \notin {NoVersion, CurrentVersion, failedFw}
               /\ job'.url # NoPackage
         /\ UNCHANGED <<EspOtaVars, nvs, body, hub, connected, getting, history>>
<1>1. /\ queue \in Seq(Twin) /\ queue # <<>> /\ queue' = Tail(queue)
      /\ pc = "run" /\ pc' = "run"
      /\ UNCHANGED <<EspOtaVars, nvs, body, hub, connected, getting, history>>
      /\ fwState \in FwState /\ inProgress \in BOOLEAN
      /\ task # "none" => inProgress
  BY DEF IInv, TypeOK, SessionInv, HandleTwin
<1>2. Head(queue) \in Twin /\ Tail(queue) \in Seq(Twin)
  BY <1>1
<1> DEFINE d == Head(queue)
<1>3. CASE UNCHANGED <<inProgress, task, job, fwState>>
  BY <1>1, <1>2, <1>3
<1>4. CASE /\ NoVersion # d.version /\ NoPackage # d.url /\ d.version # CurrentVersion
           /\ TriggerOta(d)
  <2>1. CASE inProgress
    BY <1>1, <1>2, <1>4, <2>1 DEF TriggerOta
  <2>2. CASE ~inProgress /\ failedFw = d.version
    BY <1>1, <1>2, <1>4, <2>2 DEF TriggerOta, FwState
  <2>3. CASE ~inProgress /\ failedFw # d.version
    <3>1. /\ inProgress' = TRUE /\ UNCHANGED fwState
          /\ \/ task' = "opening" /\ job' = d
             \/ UNCHANGED <<task, job>>
      BY <1>4, <2>3 DEF TriggerOta
    <3> QED
      BY <1>1, <1>2, <1>4, <2>3, <3>1
  <2> QED
    BY <2>1, <2>2, <2>3
<1> QED
  BY <1>3, <1>4 DEF HandleTwin

\* The MQTT task does not touch the flash and leaves a task alone.
LEMMA MqttKeeps ==
  ASSUME IInv, HubConnected \/ HubDisconnected \/ HandleTwin
  PROVE  IInv'
<1>1. CASE HubConnected \/ HubDisconnected
  <2>1. TypeOK'
    <3>1. queue' \in Seq(Twin)
      <4>1. queue \in Seq(Twin)
        BY DEF IInv, TypeOK
      <4>2. queue' = queue \/ queue' = <<>>
        BY <1>1 DEF HubConnected, HubDisconnected
      <4>3. <<>> \in Seq(Twin)
        OBVIOUS
      <4> QED
        BY <4>1, <4>2, <4>3, Zenon
    <3>2. inProgress' \in BOOLEAN
      BY <1>1 DEF IInv, TypeOK, HubConnected, HubDisconnected, ota
    <3>3. connected' \in BOOLEAN /\ getting' \in BOOLEAN
      BY <1>1, Zenon DEF HubConnected, HubDisconnected
    <3> QED
      BY <1>1, <3>1, <3>2, <3>3, KeptRecords
      DEF IInv, TypeOK, HubConnected, HubDisconnected, nvs, ota, hub, history
  <2>2. SessionInv'
    BY <1>1 DEF IInv, SessionInv, HubConnected, HubDisconnected, ota
  <2> QED
    BY <1>1, <2>1, <2>2, QuietKeeps
    DEF HubConnected, HubDisconnected, ota, history, IInv, SessionInv
<1>2. CASE HandleTwin
  <2>1. TypeOK'
    BY <1>2, TwinEffect, KeptRecords DEF IInv, TypeOK, TaskState, nvs, hub, history
  <2>2. SessionInv'
    BY <1>2, TwinEffect DEF IInv, SessionInv
  <2> QED
    BY <1>2, <2>1, <2>2, TwinEffect, QuietKeeps DEF history
<1> QED
  BY <1>1, <1>2

\* The hub pushes a patch or answers a request for the twin.
LEMMA HubKeeps == ASSUME IInv, ChangeDesired \/ ServeTwin PROVE IInv'
<1>0. /\ TypeOK /\ SessionInv
      /\ queue \in Seq(Twin) /\ desired \in Twin
      /\ UNCHANGED <<EspOtaVars, pc, ota, tried>>
  BY DEF IInv, TypeOK, ChangeDesired, ServeTwin, history
<1>1. SessionInv' /\ TypeOK'
  <2>1. CASE ChangeDesired
    <3>1. PICK o \in Offers \ {desired} :
            /\ desired' = o
            /\ queue' = IF connected THEN Append(queue, Patch(desired, o)) ELSE queue
      BY <2>1 DEF ChangeDesired
    <3>2. desired' \in Twin
      <4>1. o \in [version : {x.version : x \in Offers}, url : Package]
        BY AzureOtaAssumption
      <4> QED
        BY <3>1, <4>1 DEF Versions, Twin
    <3>3. Patch(desired, o) \in Twin
      BY <1>0, <3>1, <3>2 DEF Patch, Twin
    <3>4. queue' \in Seq(Twin)
      BY <1>0, <3>1, <3>3
    <3>5. changes' \in 0..MaxChanges
      BY <1>0, <2>1, AzureOtaAssumption DEF TypeOK, ChangeDesired
    <3> QED
      BY <1>0, <2>1, <3>1, <3>2, <3>4, <3>5, KeptRecords
      DEF TypeOK, SessionInv, ChangeDesired, nvs, ota
  <2>2. CASE ServeTwin
    <3>1. queue' \in Seq(Twin)
      BY <1>0, <2>2 DEF ServeTwin
    <3>2. connected' \in BOOLEAN /\ inProgress' \in BOOLEAN
      BY <1>0, <2>2 DEF TypeOK, ServeTwin, ota
    <3>3. getting' \in BOOLEAN
      BY <2>2, Zenon DEF ServeTwin
    <3> QED
      BY <1>0, <2>2, <3>1, <3>2, <3>3, KeptRecords
      DEF TypeOK, SessionInv, ServeTwin, nvs, ota, hub, history
  <2> QED
    BY <2>1, <2>2
<1> QED
  BY <1>0, <1>1, QuietKeeps DEF ota, SessionInv

\* Erasing or filling the target slot.
LEMMA TargetWrite ==
  ASSUME IInv, task \notin {"none", "bootset"}, NEW x \in Package \cup {NoPackage},
         flash' = [flash EXCEPT ![Target] = x],
         UNCHANGED <<otadata, running>>
  PROVE  /\ EspOtaTypeOK' /\ RecordInv' /\ RunsActive' /\ RunsConfirmed'
         /\ flash'[Target] = x /\ Target' = Target
         /\ flash'[running] = flash[running]
         /\ UNCHANGED <<ConfirmedImage, TrialImage, TrialStarted, OnTrial>>
<1>1. EspOtaTypeOK /\ RecordInv /\ RunsConfirmed
  BY DEF IInv, TypeOK, SessionInv, RunningInv
<1> QED
  BY <1>1, SpareWrite DEF Target

\* ota_task opens connection and slot, or gives up.
LEMMA OpenKeeps == ASSUME IInv, OpenDownload PROVE IInv'
<1>1. /\ TypeOK /\ SessionInv /\ RunningInv /\ ContentInv
      /\ task = "opening" /\ pc = "run" /\ inProgress
      /\ UNCHANGED <<nvs, tried, pc, hub, net, undone, rolledBack, job, body>>
  BY DEF IInv, SessionInv, OpenDownload, TaskVars, Done
<1>2. CASE /\ OtaBegin(Target) /\ task' = "begun"
           /\ UNCHANGED <<inProgress, job, body, fwState>>
  <2>1. /\ EspOtaTypeOK' /\ RecordInv' /\ RunsActive' /\ RunsConfirmed'
        /\ TrialImage' = TrialImage
    BY <1>1, <1>2, TargetWrite DEF OtaBegin
  <2>2. TypeOK'
    BY <1>1, <1>2, <2>1 DEF TypeOK, TaskState, nvs, hub, net
  <2>3. SessionInv' /\ RunningInv' /\ ContentInv'
    BY <1>1, <1>2, <2>1 DEF SessionInv, RunningInv, ContentInv
  <2> QED
    BY <2>1, <2>2, <2>3 DEF IInv
<1>3. CASE fwState' = "FAILED" /\ Done /\ UNCHANGED EspOtaVars
  <2>1. TypeOK'
    BY <1>1, <1>3, KeptRecords DEF TypeOK, TaskState, FwState, Done, nvs, hub, net
  <2>2. SessionInv'
    BY <1>1, <1>3 DEF SessionInv, Done
  <2> QED
    BY <1>1, <1>3, <2>1, <2>2, QuietKeeps DEF Done
<1> QED
  BY <1>2, <1>3 DEF OpenDownload

\* The steps of ota_task that do not touch the flash.
LEMMA TaskKeeps ==
  ASSUME IInv, RecordPending \/ Download \/ AbandonUpdate
  PROVE  IInv'
<1>1. /\ TypeOK /\ SessionInv
      /\ task \in {"begun", "downloading", "failed"} /\ pc = "run" /\ inProgress
      /\ UNCHANGED <<EspOtaVars, failedFw, job, tried, pc, hub, net, undone, rolledBack>>
      /\ task' \in {"downloading", "verified", "failed", "none"}
      /\ pendingFw' \in {pendingFw, job.version, NoVersion}
      /\ body' \in {body, job.url, NoPackage}
      /\ fwState' \in {fwState, "DOWNLOADING", "VERIFIED", "FAILED"}
      /\ inProgress' \in BOOLEAN /\ (task' # "none" => inProgress')
  BY DEF IInv, TypeOK, SessionInv, RecordPending, Download, AbandonUpdate, Done, TaskVars, nvs
<1>2. job.version \in Versions \cup {NoVersion} /\ job.url \in Package \cup {NoPackage}
  BY <1>1 DEF TypeOK, Twin
<1>3. TypeOK'
  BY <1>1, <1>2, KeptRecords DEF TypeOK, TaskState, FwState, hub, net
<1>4. SessionInv'
  BY <1>1 DEF SessionInv
<1> QED
  BY <1>1, <1>3, <1>4, QuietKeeps

\* esp_ota_end: the slot holds a complete image, or the update fails.
LEMMA EndKeeps == ASSUME IInv, EndUpdate PROVE IInv'
<1>1. /\ TypeOK /\ SessionInv /\ RunningInv /\ ContentInv
      /\ task = "verified" /\ pc = "run" /\ inProgress
      /\ UNCHANGED <<nvs, inProgress, job, body, tried, pc, hub, net, undone, rolledBack>>
  BY DEF IInv, SessionInv, EndUpdate, TaskVars
<1>2. CASE body # NoPackage /\ OtaEnd(Target, body) /\ task' = "ended" /\ UNCHANGED fwState
  <2>1. /\ EspOtaTypeOK' /\ RecordInv' /\ RunsActive' /\ RunsConfirmed'
        /\ TrialImage' = TrialImage /\ flash'[Target] = body /\ Target' = Target
    BY <1>1, <1>2, TargetWrite DEF OtaEnd, TypeOK
  <2>2. TypeOK'
    BY <1>1, <1>2, <2>1 DEF TypeOK, TaskState, nvs, hub, net
  <2>3. SessionInv' /\ RunningInv' /\ ContentInv'
    BY <1>1, <1>2, <2>1 DEF SessionInv, RunningInv, ContentInv
  <2> QED
    BY <2>1, <2>2, <2>3 DEF IInv
<1>3. CASE task' = "failed" /\ fwState' = "FAILED" /\ UNCHANGED EspOtaVars
  <2>1. TypeOK'
    BY <1>1, <1>3, KeptRecords DEF TypeOK, TaskState, FwState, nvs, hub, net
  <2>2. SessionInv'
    BY <1>1, <1>3 DEF SessionInv
  <2> QED
    BY <1>1, <1>3, <2>1, <2>2, QuietKeeps
<1> QED
  BY <1>2, <1>3 DEF EndUpdate

\* What activating the image does to records and images.
LEMMA ActivatedSlot ==
  ASSUME IInv, task = "ended", SetBoot(Target)
  PROVE  /\ EspOtaTypeOK' /\ RecordInv' /\ Activated'
         /\ ConfirmedImage' = ConfirmedImage
         /\ TrialImage = NoPackage /\ TrialImage' = body /\ body \in Package
         /\ ~TrialStarted /\ ~TrialStarted'
         /\ ~OnTrial /\ ~OnTrial'
         /\ UNCHANGED <<flash, running>>
<1>1. /\ EspOtaTypeOK /\ RecordInv /\ RunsConfirmed
      /\ body \in Package /\ flash[Target] = body /\ body # NoPackage
  BY DEF IInv, TypeOK, SessionInv, RunningInv, ContentInv
<1> QED
  BY <1>1, SetBootRecords DEF Target

\* esp_ota_set_boot_partition stages the image, or the update fails.
LEMMA ActivateKeeps == ASSUME IInv, ActivateUpdate PROVE IInv'
<1>1. /\ TypeOK /\ SessionInv /\ RunningInv /\ ContentInv
      /\ task = "ended" /\ pc = "run" /\ inProgress
      /\ UNCHANGED <<nvs, inProgress, job, body, pc, hub, net, undone, rolledBack>>
  BY DEF IInv, SessionInv, ActivateUpdate, TaskVars
<1>2. CASE /\ SetBoot(Target)
           /\ task' = "bootset" /\ fwState' = "UPDATED" /\ tried' = job.version
  <2>1. EspOtaTypeOK' /\ RecordInv' /\ Activated'
    BY <1>1, <1>2, ActivatedSlot
  <2>2. job.version \in Versions \cup {NoVersion} /\ job.version # NoVersion
    BY <1>1 DEF TypeOK, Twin, SessionInv
  <2>3. TypeOK'
    BY <1>1, <1>2, <2>1, <2>2 DEF TypeOK, TaskState, FwState, nvs, hub, net
  <2>4. SessionInv' /\ RunningInv' /\ ContentInv'
    BY <1>1, <1>2, <2>1, <2>2 DEF SessionInv, RunningInv, ContentInv
  <2> QED
    BY <2>1, <2>3, <2>4 DEF IInv
<1>3. CASE task' = "failed" /\ fwState' = "FAILED" /\ UNCHANGED <<EspOtaVars, tried>>
  <2>1. TypeOK'
    BY <1>1, <1>3, KeptRecords DEF TypeOK, TaskState, FwState, nvs, hub, net
  <2>2. SessionInv'
    BY <1>1, <1>3 DEF SessionInv
  <2> QED
    BY <1>1, <1>3, <2>1, <2>2, QuietKeeps
<1> QED
  BY <1>2, <1>3 DEF ActivateUpdate

\* Every step keeps the invariant.
LEMMA NextKeeps == ASSUME IInv, [Next]_vars PROVE IInv'
<1>1. CASE Main
  BY <1>1, BootKeeps, StartKeeps, ConfirmKeeps DEF Main
<1>2. CASE OtaTask
  BY <1>2, OpenKeeps, TaskKeeps, EndKeeps, ActivateKeeps, ResetKeeps
  DEF OtaTask, RestartIntoUpdate
<1>3. CASE MqttTask
  BY <1>3, MqttKeeps, ResetKeeps DEF MqttTask, HandleReboot
<1>4. CASE Crash \/ ChangeDesired \/ ServeTwin
  BY <1>4, ResetKeeps, HubKeeps DEF Crash
<1>5. CASE UNCHANGED vars
  <2>1. TypeOK' /\ SessionInv'
    BY <1>5, KeptRecords
    DEF IInv, TypeOK, SessionInv, vars, nvs, ota, hub, net, history
  <2> QED
    BY <1>5, <2>1, QuietKeeps DEF vars, ota, history, IInv, SessionInv
<1> QED
  BY <1>1, <1>2, <1>3, <1>4, <1>5 DEF Next

\* The invariant holds in every behaviour.
THEOREM Invariance == Spec => []IInv
<1>1. Init => IInv
  BY InitEstablishes
<1>2. IInv /\ [Next]_vars => IInv'
  BY NextKeeps
<1> QED
  BY <1>1, <1>2, PTL DEF Spec

\* The variables of the client keep their types.
THEOREM TypeCorrect == Spec => []TypeOK
<1>1. IInv => TypeOK
  BY DEF IInv
<1> QED
  BY <1>1, Invariance, PTL

\* Whatever the two tasks are doing when the device resets, the next start and
\* the one after it find a complete image (app_main.c:875-882).
THEOREM AlwaysBootableThm == Spec => []AlwaysBootable
<1>1. IInv => AlwaysBootable
  BY RecordsBootable DEF IInv, TypeOK, AlwaysBootable
<1> QED
  BY <1>1, Invariance, PTL

-----------------------------------------------------------------------------
(* The refinement of TrialUpdate. *)

\* The initial states map to initial states.
LEMMA InitMaps == Init => Trial!Init
<1> SUFFICES ASSUME Init PROVE Trial!Init
  OBVIOUS
<1> USE DEF Init, EspOtaInit, NoEntry
<1>1. ConfirmedImage = FactoryImage
  BY DEF ConfirmedImage, Usable, Slot
<1>2. TrialImage = NoPackage /\ TrialStarted = FALSE /\ Activity = "off"
  BY DEF TrialImage, TrialStarted, Unconfirmed, Activity
<1> QED
  BY <1>1, <1>2 DEF Trial!Init

\* A step that keeps what the boot records say is a stutter, or the stop of the
\* device.
LEMMA KeptMaps ==
  ASSUME UNCHANGED <<ConfirmedImage, TrialImage, TrialStarted, OnTrial>>,
         pc = "off" => pc' = "off"
  PROVE  [Trial!Next]_Trial!vars
<1>1. CASE pc' = "off" /\ pc # "off"
  <2>1. Activity # "off" /\ Activity' = "off"
    BY <1>1 DEF Activity
  <2> QED
    BY <2>1 DEF Trial!Next, Trial!Stop
<1>2. CASE (pc = "off") <=> (pc' = "off")
  BY <1>2 DEF Trial!vars, Activity
<1> QED
  BY <1>1, <1>2

\* A boot starts the confirmed image, gives a staged image its one start, or
\* gives up the trial that was not confirmed.
LEMMA BootMaps == ASSUME IInv, Boot PROVE Trial!Next
<1>1. EspOtaTypeOK /\ RecordInv /\ Bootloader /\ pc = "off" /\ pc' = "reconcile"
  BY DEF IInv, TypeOK, Boot
<1>2. /\ Activity = "off" /\ Activity' = IF TrialStarted' THEN "trial" ELSE "confirmed"
      /\ ConfirmedImage' = ConfirmedImage
  BY <1>1, BootRecords DEF Activity
<1>3. CASE otadata.newer.state = "NEW"
  <2>1. /\ TrialImage # NoPackage /\ TrialImage' = TrialImage
        /\ ~TrialStarted /\ TrialStarted' = TRUE
    BY <1>1, <1>3, BootRecords
  <2> QED
    BY <1>2, <2>1 DEF Trial!Next, Trial!StartTrial
<1>4. CASE TrialStarted
  <2>1. /\ TrialImage # NoPackage /\ TrialImage' = NoPackage
        /\ TrialStarted' = FALSE
    BY <1>1, <1>4, BootRecords
  <2> QED
    BY <1>2, <1>4, <2>1 DEF Trial!Next, Trial!RollBack
<1>5. CASE ~Unconfirmed(otadata.newer)
  <2>1. /\ TrialImage = NoPackage /\ TrialImage' = NoPackage
        /\ TrialStarted = FALSE /\ TrialStarted' = FALSE
    BY <1>1, <1>5, BootRecords
  <2> QED
    BY <1>2, <2>1 DEF Trial!Next, Trial!StartConfirmed
<1> QED
  BY <1>3, <1>4, <1>5 DEF Unconfirmed, TrialStarted

\* Confirming the running image is the abstract Confirm, or nothing.
LEMMA ConfirmMaps == ASSUME IInv, ConfirmImage PROVE [Trial!Next]_Trial!vars
<1>1. /\ EspOtaTypeOK /\ RecordInv /\ RunsActive
      /\ pc = "confirm" /\ pc' = "run"
  BY DEF IInv, TypeOK, SessionInv, RunningInv, ConfirmImage
<1>2. CASE OnTrial
  <2>1. /\ ConfirmedImage' = TrialImage /\ TrialImage' = NoPackage
        /\ TrialStarted' = FALSE /\ OnTrial' = FALSE
    BY <1>1, <1>2, ValidRecords DEF ConfirmImage
  <2>2. Activity = "trial" /\ Activity' = "confirmed"
    BY <1>1, <1>2, <2>1 DEF Activity
  <2> QED
    BY <2>1, <2>2 DEF Trial!Next, Trial!Confirm
<1>3. CASE ~OnTrial
  BY <1>1, <1>3, KeptRecords, KeptMaps DEF ConfirmImage
<1> QED
  BY <1>2, <1>3

\* Opening the slot, filling it and activating it.
LEMMA UpdateMaps ==
  ASSUME IInv, OpenDownload \/ EndUpdate \/ ActivateUpdate
  PROVE  [Trial!Next]_Trial!vars
<1>1. pc = "run" /\ pc' = "run"
  BY DEF IInv, SessionInv, OpenDownload, EndUpdate, ActivateUpdate, TaskVars
<1>2. CASE UNCHANGED EspOtaVars
  BY <1>1, <1>2, KeptRecords, KeptMaps
<1>3. CASE task = "opening" /\ OtaBegin(Target)
  BY <1>1, <1>3, TargetWrite, KeptMaps DEF OtaBegin
<1>4. CASE task = "verified" /\ OtaEnd(Target, body)
  <2>1. body \in Package \cup {NoPackage}
    BY DEF IInv, TypeOK
  <2> QED
    BY <1>1, <1>4, <2>1, TargetWrite, KeptMaps DEF OtaEnd
<1>5. CASE task = "ended" /\ SetBoot(Target)
  <2>1. /\ ConfirmedImage' = ConfirmedImage
        /\ TrialImage = NoPackage /\ TrialImage' \in Package
        /\ TrialStarted = FALSE /\ TrialStarted' = FALSE
        /\ OnTrial = FALSE /\ OnTrial' = FALSE
    BY <1>5, ActivatedSlot
  <2>2. Activity = "confirmed" /\ Activity' = "confirmed"
    BY <1>1, <2>1 DEF Activity
  <2> QED
    BY <2>1, <2>2 DEF Trial!Next, Trial!Stage
<1> QED
  BY <1>2, <1>3, <1>4, <1>5 DEF OpenDownload, EndUpdate, ActivateUpdate

\* Every step of the two tasks is a step of the abstract mechanism or a stutter.
LEMMA NextMaps == ASSUME IInv, [Next]_vars PROVE [Trial!Next]_Trial!vars
<1>1. CASE Boot
  BY <1>1, BootMaps
<1>2. CASE ConfirmImage
  BY <1>2, ConfirmMaps
<1>3. CASE OpenDownload \/ EndUpdate \/ ActivateUpdate
  BY <1>3, UpdateMaps
<1>4. CASE \/ ReconcilePending \/ ErasePending \/ WifiUp
           \/ RecordPending \/ Download \/ AbandonUpdate \/ RestartIntoUpdate
           \/ MqttTask \/ Crash \/ ChangeDesired \/ ServeTwin \/ UNCHANGED vars
  <2>1. UNCHANGED EspOtaVars /\ (pc = "off" => pc' = "off")
    BY <1>4 DEF ReconcilePending, ErasePending, WifiUp, RecordPending, Download,
       AbandonUpdate, RestartIntoUpdate, MqttTask, HubConnected, HubDisconnected,
       HandleTwin, HandleReboot, Crash, ChangeDesired, ServeTwin, vars, TaskVars, Reset
  <2> QED
    BY <2>1, KeptRecords, KeptMaps
<1> QED
  BY <1>1, <1>2, <1>3, <1>4 DEF Next, Main, OtaTask

\* The client implements the abstract update mechanism: one confirmed image
\* survives everything, and a staged image is started once and then confirmed
\* or given up.
THEOREM ImplementsTrialUpdateThm == Spec => ImplementsTrialUpdate
<1>1. Init => Trial!Init
  BY InitMaps
<1>2. IInv /\ [Next]_vars => [Trial!Next]_Trial!vars
  BY NextMaps
<1> QED
  BY <1>1, <1>2, Invariance, PTL DEF Spec, ImplementsTrialUpdate, Trial!Spec

-----------------------------------------------------------------------------
(* Images, trials and versions. *)

\* The confirmed image and the trial are packages, with versions.
LEMMA ImageFacts ==
  ASSUME IInv
  PROVE  /\ ConfirmedImage \in Package /\ Version[ConfirmedImage] # NoVersion
         /\ TrialStarted => TrialImage # NoPackage /\ TrialImage = flash[otadata.newer.slot]
<1>1. /\ flash \in [Slot -> Package \cup {NoPackage}]
      /\ otadata.newer.slot \in Slot /\ otadata.older.slot \in Slot
      /\ otadata.older.state \in {"EMPTY", "VALID"}
      /\ "factory" \in Slot
      /\ RecordInv
  BY RecordFacts DEF IInv, TypeOK, Slot
<1>2. ConfirmedImage \in Package
  BY <1>1 DEF RecordInv, ConfirmedImage, Usable
<1>3. TrialStarted => TrialImage # NoPackage /\ TrialImage = flash[otadata.newer.slot]
  BY <1>1 DEF RecordInv, TrialImage, TrialStarted, Unconfirmed, Usable
<1> QED
  BY <1>2, <1>3, AzureOtaAssumption DEF Versions

\* Before the restart what runs is the confirmed image or the trial.
LEMMA WhatRuns ==
  ASSUME IInv, pc # "off", task # "bootset"
  PROVE  /\ TrialImage # NoPackage <=> TrialStarted
         /\ ~TrialStarted => CurrentVersion = Version[ConfirmedImage]
         /\ TrialStarted => CurrentVersion = Version[TrialImage]
         /\ pc = "run" => ~TrialStarted
<1>1. EspOtaTypeOK /\ RecordInv /\ RunsActive /\ (pc = "run" => RunsConfirmed)
  BY DEF IInv, TypeOK, RunningInv
<1>2. TrialImage # NoPackage <=> TrialStarted
  BY <1>1, ImageFacts DEF RunsActive, TrialImage, TrialStarted, Unconfirmed
<1>3. pc = "run" => ~TrialStarted
  BY <1>1 DEF RunsConfirmed, TrialStarted
<1> QED
  BY <1>1, <1>2, <1>3, OnTrialIff, ImageFacts DEF CurrentVersion

\* The steps that leave the flash and the boot records alone.
LEMMA KeptVersion ==
  ASSUME UNCHANGED EspOtaVars
  PROVE  UNCHANGED <<ConfirmedImage, TrialImage, TrialStarted, CurrentVersion>>
BY KeptRecords DEF CurrentVersion, EspOtaVars

\* Opening and filling the slot changes neither images nor the version.
LEMMA SlotKeepsImages ==
  ASSUME IInv, OpenDownload \/ EndUpdate
  PROVE  UNCHANGED <<ConfirmedImage, TrialImage, TrialStarted, CurrentVersion>>
<1>1. CASE UNCHANGED EspOtaVars
  BY <1>1, KeptVersion
<1>2. CASE OpenDownload /\ OtaBegin(Target)
  BY <1>2, TargetWrite DEF OpenDownload, OtaBegin, CurrentVersion
<1>3. CASE EndUpdate /\ OtaEnd(Target, body)
  <2>1. body \in Package \cup {NoPackage}
    BY DEF IInv, TypeOK
  <2> QED
    BY <1>3, <2>1, TargetWrite DEF EndUpdate, OtaEnd, CurrentVersion
<1> QED
  BY <1>1, <1>2, <1>3 DEF OpenDownload, EndUpdate

\* A confirmation leaves no trial.
LEMMA ConfirmEndsTrial ==
  ASSUME IInv, ConfirmImage
  PROVE  /\ TrialImage' = NoPackage
         /\ ConfirmedImage' \in Package /\ Version[ConfirmedImage'] # NoVersion
<1>1. /\ EspOtaTypeOK /\ RecordInv /\ RunsActive /\ pc = "confirm" /\ task = "none"
  BY DEF ConfirmImage, IInv, TypeOK, SessionInv, RunningInv
<1>2. ConfirmedImage' \in Package /\ TrialImage' = NoPackage
  <2>1. CASE OnTrial
    <3>1. flash[running] # NoPackage /\ flash[running] \in Package
      BY <1>1, <2>1, RecordFacts, OnTrialIff DEF RecordInv, TrialStarted, Usable
    <3> QED
      BY <1>1, <2>1, <3>1, ValidRecords DEF ConfirmImage
  <2>2. CASE ~OnTrial
    <3>1. ~TrialStarted
      BY <1>1, <2>2, OnTrialIff
    <3>2. TrialImage = NoPackage
      BY <1>1, <3>1, WhatRuns
    <3> QED
      BY <2>2, <3>2, KeptRecords, ImageFacts DEF ConfirmImage
  <2> QED
    BY <2>1, <2>2
<1> QED
  BY <1>2, AzureOtaAssumption DEF Versions

\* A boot gives the trial up that was started, and no other.
LEMMA BootTrial ==
  ASSUME IInv, Boot
  PROVE  /\ ConfirmedImage' = ConfirmedImage
         /\ TrialStarted => /\ TrialImage # NoPackage /\ TrialImage' = NoPackage
                            /\ undone' = tried /\ rolledBack' = rolledBack \cup {tried}
         /\ ~TrialStarted => TrialImage' = TrialImage /\ UNCHANGED <<undone, rolledBack>>
         /\ pc = "off" /\ pc' = "reconcile" /\ task = "none" /\ queue = <<>>
         /\ UNCHANGED <<nvs, ota, hub, queue, tried>>
<1>1. /\ EspOtaTypeOK /\ RecordInv /\ Bootloader
      /\ pc = "off" /\ pc' = "reconcile" /\ task = "none" /\ queue = <<>>
      /\ UNCHANGED <<nvs, ota, hub, queue, tried>>
  BY DEF Boot, IInv, TypeOK, SessionInv, net
<1>2. ConfirmedImage' = ConfirmedImage
  BY <1>1, BootRecords
<1>3. CASE TrialStarted
  BY <1>1, <1>2, <1>3, BootRecords DEF Boot
<1>4. CASE ~TrialStarted
  BY <1>1, <1>2, <1>4, BootRecords DEF Boot, TrialStarted, Unconfirmed
<1> QED
  BY <1>3, <1>4

\* What messages say is said of the rest of the queue, and of one that is added.
LEMMA QueueMoves ==
  ASSUME NEW q \in Seq(Twin), NEW d \in Twin
  PROVE  /\ \A i \in DOMAIN Append(q, d) :
              Append(q, d)[i] = d \/ \E j \in DOMAIN q : Append(q, d)[i] = q[j]
         /\ q # <<>> => /\ 1 \in DOMAIN q /\ Head(q) = q[1]
                        /\ \A i \in DOMAIN Tail(q) : \E j \in DOMAIN q : Tail(q)[i] = q[j]
<1>1. ASSUME NEW i \in DOMAIN Append(q, d)
      PROVE  Append(q, d)[i] = d \/ \E j \in DOMAIN q : Append(q, d)[i] = q[j]
  <2>1. i \in 1..(Len(q) + 1) /\ DOMAIN q = 1..Len(q)
    BY <1>1
  <2>2. CASE i = Len(q) + 1
    BY <2>2
  <2>3. CASE i # Len(q) + 1
    <3>1. i \in DOMAIN q /\ Append(q, d)[i] = q[i]
      BY <2>1, <2>3
    <3> QED
      BY <3>1
  <2> QED
    BY <2>2, <2>3
<1>2. ASSUME q # <<>>
      PROVE  /\ 1 \in DOMAIN q /\ Head(q) = q[1]
             /\ \A i \in DOMAIN Tail(q) : \E j \in DOMAIN q : Tail(q)[i] = q[j]
  <2>1. 1 \in DOMAIN q /\ Head(q) = q[1]
    BY <1>2
  <2>2. ASSUME NEW i \in DOMAIN Tail(q)
        PROVE  \E j \in DOMAIN q : Tail(q)[i] = q[j]
    <3>1. i + 1 \in DOMAIN q /\ Tail(q)[i] = q[i + 1]
      BY <1>2, <2>2
    <3> QED
      BY <3>1
  <2> QED
    BY <2>1, <2>2
<1> QED
  BY <1>1, <1>2

-----------------------------------------------------------------------------
(* The anti-loop keys: no version that was rolled back while it is desired  *)
(* is started again, if no reset falls between the erasure of pending_fw    *)
(* and the confirmation of the image.                                       *)

\* Nobody has desired anything yet.
LEMMA InitRemembers == Init => AntiLoopInv
<1> SUFFICES ASSUME Init PROVE AntiLoopInv
  OBVIOUS
<1>1. IInv
  BY InitEstablishes
<1>2. TrialImage = NoPackage
  BY DEF Init, EspOtaInit, NoEntry, TrialImage, Unconfirmed
<1> QED
  BY <1>1, <1>2, ImageFacts
  DEF Init, AntiLoopInv, MessageInv, AttemptInv, TrialInv, RememberedInv

\* A step that keeps images and keys needs only mind messages and task.
LEMMA KeysKeep ==
  ASSUME AntiLoopInv, MessageInv', AttemptInv', pc' = pc,
         UNCHANGED <<ConfirmedImage, TrialImage, pendingFw, failedFw, tried, desired>>,
         rolledBack' = rolledBack \/ rolledBack' = {}
  PROVE  AntiLoopInv'
<1>1. TrialInv' /\ RememberedInv'
  BY DEF AntiLoopInv, TrialInv, RememberedInv
<1> QED
  BY <1>1 DEF AntiLoopInv

\* A reset outside of the window between erasure and confirmation.
LEMMA ResetRemembers ==
  ASSUME IInv, AntiLoopInv, Reset, pc \notin {"connect", "confirm"},
         UNCHANGED <<EspOtaVars, nvs, fwState, hub, history>>
  PROVE  AntiLoopInv'
<1>1. UNCHANGED <<ConfirmedImage, TrialImage>>
  BY KeptRecords
<1>2. MessageInv' /\ AttemptInv'
  BY DEF Reset, MessageInv, AttemptInv
<1>3. TrialInv' /\ RememberedInv'
  BY <1>1 DEF AntiLoopInv, TrialInv, RememberedInv, Reset, nvs, hub, history
<1> QED
  BY <1>2, <1>3 DEF AntiLoopInv

\* A boot that gives a trial up finds it on record as pending.
LEMMA BootRemembers == ASSUME IInv, AntiLoopInv, Boot PROVE AntiLoopInv'
<1>1. /\ ConfirmedImage' = ConfirmedImage
      /\ pc = "off" /\ pc' = "reconcile" /\ task' = "none" /\ queue' = <<>>
      /\ UNCHANGED <<pendingFw, failedFw, desired, tried>>
  BY BootTrial DEF nvs, ota, hub
<1>2. MessageInv' /\ AttemptInv'
  BY <1>1 DEF MessageInv, AttemptInv
<1>3. CASE TrialStarted
  <2>1. /\ TrialImage # NoPackage /\ TrialImage' = NoPackage
        /\ rolledBack' = rolledBack \cup {tried}
    BY <1>3, BootTrial
  <2>2. pendingFw = tried
    BY <1>1, <2>1 DEF AntiLoopInv, TrialInv
  <2>3. TrialInv' /\ RememberedInv'
    BY <1>1, <2>1, <2>2 DEF AntiLoopInv, TrialInv, RememberedInv
  <2> QED
    BY <1>2, <2>3 DEF AntiLoopInv
<1>4. CASE ~TrialStarted
  <2>1. UNCHANGED <<TrialImage, rolledBack>>
    BY <1>4, BootTrial
  <2>2. TrialInv' /\ RememberedInv'
    BY <1>1, <2>1 DEF AntiLoopInv, TrialInv, RememberedInv
  <2> QED
    BY <1>2, <2>2 DEF AntiLoopInv
<1> QED
  BY <1>3, <1>4

\* reconcile_pending_ota: the attempt on record is dropped only if it runs, on
\* trial, and recorded as failed otherwise.
LEMMA ReconcileRemembers == ASSUME IInv, AntiLoopInv, ReconcilePending PROVE AntiLoopInv'
<1>1. /\ pc = "reconcile" /\ task = "none" /\ task' = "none" /\ queue' = queue
      /\ queue = <<>>
      /\ UNCHANGED <<desired, tried, rolledBack>>
      /\ UNCHANGED <<ConfirmedImage, TrialImage>>
  BY KeptRecords DEF ReconcilePending, IInv, SessionInv, ota, hub, net, history
<1>2. \/ /\ pendingFw \in {NoVersion, CurrentVersion} /\ pendingFw' = NoVersion
         /\ failedFw' = failedFw /\ pc' = "connect"
      \/ /\ pendingFw \notin {NoVersion, CurrentVersion} /\ pendingFw' = pendingFw
         /\ failedFw' = pendingFw /\ pc' = "erase"
  BY DEF ReconcilePending
<1>3. MessageInv' /\ AttemptInv'
  BY <1>1 DEF MessageInv, AttemptInv
<1>4. TrialInv'
  BY <1>1, <1>2, ImageFacts DEF AntiLoopInv, TrialInv
<1>5. RememberedInv'
  <2> SUFFICES ASSUME desired.version \in rolledBack
               PROVE  /\ pendingFw' \in {NoVersion, desired.version}
                      /\ failedFw' = desired.version
    BY <1>1 DEF RememberedInv
  <2>1. /\ pendingFw \in {NoVersion, desired.version}
        /\ failedFw = desired.version \/ pendingFw = desired.version
        /\ desired.version # NoVersion
    BY AzureOtaAssumption DEF AntiLoopInv, RememberedInv, IInv, TypeOK
  <2>2. CASE pendingFw \notin {NoVersion, CurrentVersion}
    BY <1>2, <2>1, <2>2
  <2>3. CASE pendingFw = NoVersion
    BY <1>2, <2>1, <2>3
  <2>4. CASE pendingFw = CurrentVersion /\ pendingFw # NoVersion
    <3>1. TrialStarted
      BY <1>1, <2>4, WhatRuns DEF AntiLoopInv, TrialInv
    <3>2. pendingFw = tried /\ tried \notin rolledBack
      BY <1>1, <3>1, ImageFacts DEF AntiLoopInv, TrialInv
    <3> QED
      BY <2>1, <2>4, <3>2
  <2> QED
    BY <2>2, <2>3, <2>4
<1> QED
  BY <1>3, <1>4, <1>5 DEF AntiLoopInv

\* The rest of app_main: the erasure comes after the record, the confirmation
\* after the erasure.
LEMMA StartRemembers ==
  ASSUME IInv, AntiLoopInv, ErasePending \/ WifiUp \/ ConfirmImage
  PROVE  AntiLoopInv'
<1>1. /\ pc \in {"erase", "connect", "confirm"} /\ pc' \in {"connect", "confirm", "run"}
      /\ task' = "none" /\ queue' = <<>>
      /\ UNCHANGED <<failedFw, desired, tried, rolledBack>>
      /\ pendingFw' = NoVersion
  BY DEF ErasePending, WifiUp, ConfirmImage, IInv, SessionInv, AntiLoopInv, TrialInv,
     nvs, ota, hub, net, history
<1>2. MessageInv' /\ AttemptInv'
  BY <1>1 DEF MessageInv, AttemptInv
<1>3. RememberedInv'
  BY <1>1 DEF AntiLoopInv, RememberedInv
<1>4. TrialInv'
  <2>1. CASE ErasePending \/ WifiUp
    BY <1>1, <2>1, KeptRecords, ImageFacts
    DEF ErasePending, WifiUp, AntiLoopInv, TrialInv
  <2>2. CASE ConfirmImage
    BY <1>1, <2>2, ConfirmEndsTrial DEF TrialInv
  <2> QED
    BY <2>1, <2>2
<1> QED
  BY <1>2, <1>3, <1>4 DEF AntiLoopInv

\* A task is started for no version that was rolled back: since the rollback
\* the messages are about the desired one, which is known-bad by now.
LEMMA StartsUnremembered ==
  ASSUME IInv, AntiLoopInv, HandleTwin, task = "none", task' = "opening"
  PROVE  /\ job'.version \notin rolledBack
         /\ rolledBack # {} => job'.version = desired.version
<1>1. /\ pc = "run" /\ queue # <<>> /\ job' = Head(queue) /\ queue \in Seq(Twin)
      /\ job'.version \notin {NoVersion, failedFw}
      /\ desired \in Twin
  BY TwinEffect DEF IInv, TypeOK
<1>2. 1 \in DOMAIN queue /\ Head(queue) = queue[1]
  BY <1>1, QueueMoves
<1>3. rolledBack # {} => job'.version = desired.version
  BY <1>1, <1>2 DEF AntiLoopInv, MessageInv
<1>4. desired.version \in rolledBack => failedFw = desired.version
  BY <1>1 DEF AntiLoopInv, RememberedInv
<1> QED
  BY <1>1, <1>3, <1>4

\* The MQTT task, but for a reboot.
LEMMA MqttRemembers ==
  ASSUME IInv, AntiLoopInv, HubConnected \/ HubDisconnected \/ HandleTwin
  PROVE  AntiLoopInv'
<1>1. /\ pc' = pc /\ UNCHANGED <<pendingFw, failedFw, tried, desired, rolledBack>>
      /\ UNCHANGED <<ConfirmedImage, TrialImage, CurrentVersion>>
  BY KeptVersion DEF HubConnected, HubDisconnected, HandleTwin, nvs, hub, history
<1>2. CASE HubConnected \/ HubDisconnected
  <2>1. (queue' = queue \/ queue' = <<>>) /\ UNCHANGED <<task, job>>
    BY <1>2 DEF HubConnected, HubDisconnected, ota
  <2>2. MessageInv' /\ AttemptInv'
    BY <1>1, <2>1 DEF AntiLoopInv, MessageInv, AttemptInv
  <2> QED
    BY <1>1, <2>2, KeysKeep
<1>3. CASE HandleTwin
  <2>1. /\ queue \in Seq(Twin) /\ queue # <<>> /\ queue' = Tail(queue)
        /\ desired \in Twin
    BY <1>3, TwinEffect DEF IInv, TypeOK
  <2>2. \A i \in DOMAIN queue' : \E j \in DOMAIN queue : queue'[i] = queue[j]
    BY <2>1, QueueMoves
  <2>3. CASE UNCHANGED <<task, job>>
    <3>1. MessageInv' /\ AttemptInv'
      BY <1>1, <2>2, <2>3 DEF AntiLoopInv, MessageInv, AttemptInv
    <3> QED
      BY <1>1, <3>1, KeysKeep
  <2>4. CASE /\ task = "none" /\ task' = "opening"
             /\ job'.version \notin {NoVersion, CurrentVersion, failedFw}
    <3>1. MessageInv' /\ AttemptInv'
      BY <1>1, <1>3, <2>2, <2>4, StartsUnremembered
      DEF AntiLoopInv, MessageInv, AttemptInv
    <3> QED
      BY <1>1, <3>1, KeysKeep
  <2> QED
    BY <1>3, <2>3, <2>4, TwinEffect
<1> QED
  BY <1>2, <1>3

\* A change of what is desired starts the history afresh; a GET is answered
\* with what is desired now.
LEMMA HubRemembers ==
  ASSUME IInv, AntiLoopInv, ChangeDesired \/ ServeTwin
  PROVE  AntiLoopInv'
<1>1. /\ pc' = pc /\ UNCHANGED <<pendingFw, failedFw, tried, task, job>>
      /\ UNCHANGED <<ConfirmedImage, TrialImage, CurrentVersion>>
  BY KeptVersion DEF ChangeDesired, ServeTwin, nvs, ota, history
<1>2. CASE ChangeDesired
  <2>1. rolledBack' = {}
    BY <1>2 DEF ChangeDesired
  <2>2. MessageInv' /\ AttemptInv' /\ TrialInv' /\ RememberedInv'
    BY <1>1, <2>1 DEF AntiLoopInv, MessageInv, AttemptInv, TrialInv, RememberedInv
  <2> QED
    BY <2>2 DEF AntiLoopInv
<1>3. CASE ServeTwin
  <2>1. /\ queue \in Seq(Twin) /\ desired \in Twin /\ queue' = Append(queue, desired)
        /\ UNCHANGED <<desired, rolledBack>>
    BY <1>3 DEF ServeTwin, IInv, TypeOK, hub, history
  <2>2. \A i \in DOMAIN queue' :
          queue'[i] = desired \/ \E j \in DOMAIN queue : queue'[i] = queue[j]
    BY <2>1, QueueMoves
  <2>3. MessageInv' /\ AttemptInv'
    BY <1>1, <2>1, <2>2 DEF AntiLoopInv, MessageInv, AttemptInv
  <2> QED
    BY <1>1, <2>1, <2>3, KeysKeep
<1> QED
  BY <1>2, <1>3

\* ota_task: what it records replaces no record that is still needed, and what
\* it stages is on record.
LEMMA TaskRemembers ==
  ASSUME IInv, AntiLoopInv,
         OpenDownload \/ RecordPending \/ Download \/ AbandonUpdate \/ EndUpdate \/ ActivateUpdate
  PROVE  AntiLoopInv'
<1>1. /\ task \notin {"none", "bootset"} /\ pc = "run" /\ pc' = "run"
      /\ UNCHANGED <<failedFw, desired, rolledBack, job, queue>>
      /\ task' = "none" \/ task' \in TaskState \ {"opening", "none"}
  BY DEF IInv, SessionInv, OpenDownload, RecordPending, Download, AbandonUpdate,
     EndUpdate, ActivateUpdate, Done, TaskVars, TaskState, hub, net, nvs
<1>2. /\ TrialImage = NoPackage /\ CurrentVersion = Version[ConfirmedImage]
      /\ job.version \notin {failedFw, CurrentVersion} \cup rolledBack
  BY <1>1, WhatRuns, ImageFacts DEF AntiLoopInv, AttemptInv
<1>3. MessageInv'
  BY <1>1 DEF AntiLoopInv, MessageInv
<1>4. CASE OpenDownload \/ EndUpdate
  <2>1. UNCHANGED <<ConfirmedImage, TrialImage, CurrentVersion, pendingFw, tried>>
    BY <1>4, SlotKeepsImages DEF OpenDownload, EndUpdate, nvs
  <2>2. AttemptInv'
    BY <1>1, <1>4, <2>1 DEF AntiLoopInv, AttemptInv, OpenDownload, EndUpdate, Done
  <2> QED
    BY <1>1, <1>3, <2>1, <2>2, KeysKeep
<1>5. CASE RecordPending
  <2>1. /\ pendingFw' = job.version /\ task' = "downloading" /\ tried' = tried
        /\ UNCHANGED <<ConfirmedImage, TrialImage, CurrentVersion>>
    BY <1>5, KeptVersion DEF RecordPending
  <2>2. AttemptInv'
    BY <1>1, <1>2, <2>1 DEF AttemptInv
  <2>3. TrialInv'
    BY <1>1, <1>2, <2>1 DEF TrialInv
  <2>4. RememberedInv'
    BY <1>1, <1>2 DEF AntiLoopInv, MessageInv, RememberedInv
  <2> QED
    BY <1>3, <2>2, <2>3, <2>4 DEF AntiLoopInv
<1>6. CASE Download
  <2>1. /\ UNCHANGED <<ConfirmedImage, TrialImage, CurrentVersion, pendingFw, tried>>
        /\ task = "downloading" /\ task' \in {"verified", "failed"}
    BY <1>6, KeptVersion DEF Download, nvs
  <2>2. AttemptInv'
    BY <1>1, <2>1 DEF AntiLoopInv, AttemptInv
  <2> QED
    BY <1>1, <1>3, <2>1, <2>2, KeysKeep
<1>7. CASE AbandonUpdate
  <2>1. /\ pendingFw' = NoVersion /\ task' = "none" /\ tried' = tried
        /\ UNCHANGED <<ConfirmedImage, TrialImage, CurrentVersion>>
    BY <1>7, KeptVersion DEF AbandonUpdate, Done
  <2>2. AttemptInv' /\ TrialInv' /\ RememberedInv'
    BY <1>1, <1>2, <2>1, ImageFacts
    DEF AntiLoopInv, AttemptInv, TrialInv, RememberedInv
  <2> QED
    BY <1>3, <2>2 DEF AntiLoopInv
<1>8. CASE ActivateUpdate
  <2>1. task = "ended" /\ pendingFw' = pendingFw /\ pendingFw = job.version
    BY <1>8 DEF ActivateUpdate, nvs, AntiLoopInv, AttemptInv
  <2>2. CASE SetBoot(Target) /\ task' = "bootset" /\ tried' = job.version
    <3>1. /\ ConfirmedImage' = ConfirmedImage /\ UNCHANGED <<flash, running>>
      BY <2>1, <2>2, ActivatedSlot
    <3>2. CurrentVersion' = CurrentVersion
      BY <3>1 DEF CurrentVersion
    <3>3. AttemptInv' /\ TrialInv'
      BY <1>1, <1>2, <2>1, <2>2, <3>1, <3>2 DEF AttemptInv, TrialInv
    <3>4. RememberedInv'
      BY <1>1, <2>1 DEF AntiLoopInv, RememberedInv
    <3> QED
      BY <1>3, <3>3, <3>4 DEF AntiLoopInv
  <2>3. CASE task' = "failed" /\ UNCHANGED <<EspOtaVars, tried>>
    <3>1. UNCHANGED <<ConfirmedImage, TrialImage, CurrentVersion>>
      BY <2>3, KeptVersion
    <3>2. AttemptInv'
      BY <1>1, <1>2, <2>1, <2>3, <3>1 DEF AttemptInv
    <3> QED
      BY <1>1, <1>3, <2>1, <2>3, <3>1, <3>2, KeysKeep
  <2> QED
    BY <1>8, <2>2, <2>3 DEF ActivateUpdate
<1> QED
  BY <1>4, <1>5, <1>6, <1>7, <1>8

\* A step that is no reset between the erasure of pending_fw and the confirmation.
SparesWindow == pc \in {"connect", "confirm"} => pc' # "off"

\* The invariant is kept by every such step.
LEMMA NextRemembers ==
  ASSUME SparesWindow, IInv, AntiLoopInv, [Next]_vars
  PROVE  AntiLoopInv'
<1>1. CASE Main
  BY <1>1, BootRemembers, ReconcileRemembers, StartRemembers DEF Main
<1>2. CASE OtaTask /\ ~RestartIntoUpdate
  BY <1>2, TaskRemembers DEF OtaTask
<1>3. CASE MqttTask /\ ~HandleReboot
  BY <1>3, MqttRemembers DEF MqttTask
<1>4. CASE RestartIntoUpdate \/ HandleReboot \/ Crash
  BY <1>4, ResetRemembers
  DEF RestartIntoUpdate, HandleReboot, Crash, SparesWindow, Reset, IInv, SessionInv
<1>5. CASE ChangeDesired \/ ServeTwin
  BY <1>5, HubRemembers
<1>6. CASE UNCHANGED vars
  <2>1. UNCHANGED <<ConfirmedImage, TrialImage, CurrentVersion>>
    BY <1>6, KeptVersion DEF vars
  <2>2. MessageInv' /\ AttemptInv'
    BY <1>6, <2>1 DEF vars, nvs, ota, hub, net, history, AntiLoopInv, MessageInv, AttemptInv
  <2> QED
    BY <1>6, <2>1, <2>2, KeysKeep DEF vars, nvs, hub, history
<1> QED
  BY <1>1, <1>2, <1>3, <1>4, <1>5, <1>6 DEF Next, OtaTask, MqttTask

\* Only an unasked reset falls into the window.
LEMMA OthersSpareWindow ==
  ASSUME IInv, Main \/ OtaTask \/ MqttTask \/ ChangeDesired \/ ServeTwin \/ UNCHANGED vars
  PROVE  SparesWindow
<1>1. CASE Main
  BY <1>1 DEF Main, Boot, ReconcilePending, ErasePending, WifiUp, ConfirmImage, SparesWindow
<1>2. CASE OtaTask
  BY <1>2 DEF OtaTask, OpenDownload, RecordPending, Download, AbandonUpdate, EndUpdate,
     ActivateUpdate, RestartIntoUpdate, TaskVars, IInv, SessionInv, SparesWindow
<1>3. CASE MqttTask
  BY <1>3 DEF MqttTask, HubConnected, HubDisconnected, HandleTwin, HandleReboot, SparesWindow
<1>4. CASE ChangeDesired \/ ServeTwin \/ UNCHANGED vars
  BY <1>4 DEF ChangeDesired, ServeTwin, vars, SparesWindow
<1> QED
  BY <1>1, <1>2, <1>3, <1>4

\* If no crash point is in the window, no step is a reset there.
LEMMA WindowStays ==
  ASSUME WindowSpared, IInv, [Next]_vars
  PROVE  SparesWindow
BY OthersSpareWindow DEF Next, Crash, WindowSpared, SparesWindow

\* The invariant holds in every behaviour.
THEOREM AntiLoopInvariance ==
  ASSUME WindowSpared
  PROVE  Spec => []AntiLoopInv
<1>1. Init => AntiLoopInv
  BY InitRemembers
<1>2. IInv /\ AntiLoopInv /\ [Next]_vars => AntiLoopInv'
  BY NextRemembers, WindowStays
<1> QED
  BY <1>1, <1>2, Invariance, PTL DEF Spec

\* The trigger of an update is the twin.
LEMMA OnlyTwinStarts ==
  ASSUME IInv, [Next]_vars, task = "none", task' = "opening"
  PROVE  HandleTwin
BY DEF Next, Main, OtaTask, MqttTask, Boot, ReconcilePending, ErasePending, WifiUp,
   ConfirmImage, OpenDownload, RecordPending, Download, AbandonUpdate, EndUpdate,
   ActivateUpdate, RestartIntoUpdate, HubConnected, HubDisconnected, HandleReboot, Crash,
   ChangeDesired, ServeTwin, Reset, vars, ota

\* What the twin starts is not on record as rolled back.
LEMMA NextStartsNoRetry ==
  ASSUME IInv, AntiLoopInv, [Next]_vars
  PROVE  StartsNoRetry
BY OnlyTwinStarts, StartsUnremembered DEF StartsNoRetry

\* A version that was rolled back while it is desired is not tried again on the
\* device's own account (app_main.c:645-648).
THEOREM NoAutomaticRetryThm ==
  ASSUME WindowSpared
  PROVE  Spec => NoAutomaticRetry
<1>1. IInv /\ AntiLoopInv /\ [Next]_vars => [StartsNoRetry]_vars
  BY NextStartsNoRetry
<1> QED
  BY <1>1, Invariance, AntiLoopInvariance, PTL DEF Spec, NoAutomaticRetry

-----------------------------------------------------------------------------
(* The known-bad mark: it is put on nothing but the version rolled back     *)
(* last, if nothing stops ota_task and offers say what their image is.      *)

\* Nobody has desired or recorded anything yet.
LEMMA InitMarks == Init => BadMarkInv
<1> SUFFICES ASSUME Init PROVE BadMarkInv
  OBVIOUS
<1>1. TrialImage = NoPackage
  BY DEF Init, EspOtaInit, NoEntry, TrialImage, Unconfirmed
<1> QED
  BY <1>1 DEF Init, BadMarkInv, LabelInv, PendingInv, Labelled, NoOffer

\* The restart into an update, and the resets that find no task at work.
LEMMA ResetMarks ==
  ASSUME IInv, BadMarkInv, Reset, pc # "run" \/ task = "bootset",
         UNCHANGED <<EspOtaVars, nvs, fwState, hub, history>>
  PROVE  BadMarkInv'
<1>1. UNCHANGED <<ConfirmedImage, TrialImage>>
  BY KeptRecords
<1>2. LabelInv'
  BY <1>1 DEF Reset, BadMarkInv, LabelInv, Labelled, hub, history
<1>3. task = "bootset" => pc = "run"
  BY DEF IInv, SessionInv
<1>4. PendingInv'
  BY <1>1, <1>3 DEF Reset, BadMarkInv, PendingInv, IInv, TypeOK, PC, nvs, history
<1> QED
  BY <1>2, <1>4 DEF BadMarkInv

\* A boot that gives a trial up finds the trial on record.
LEMMA BootMarks == ASSUME IInv, BadMarkInv, Boot PROVE BadMarkInv'
<1>1. /\ pc = "off" /\ pc' = "reconcile" /\ task' = "none" /\ queue' = <<>>
      /\ UNCHANGED <<pendingFw, desired, tried>>
  BY BootTrial DEF nvs, ota, hub
<1>2. CASE TrialStarted
  <2>1. TrialImage # NoPackage /\ TrialImage' = NoPackage /\ undone' = tried
    BY <1>2, BootTrial
  <2> QED
    BY <1>1, <2>1 DEF BadMarkInv, LabelInv, PendingInv, Labelled
<1>3. CASE ~TrialStarted
  <2>1. UNCHANGED <<TrialImage, undone>>
    BY <1>3, BootTrial
  <2> QED
    BY <1>1, <2>1 DEF BadMarkInv, LabelInv, PendingInv, Labelled
<1> QED
  BY <1>2, <1>3

\* What reconcile_pending_ota finds on record and not running was rolled back:
\* a trial runs while it is one, and its version is the one on record.
LEMMA ReconcileUndone ==
  ASSUME IInv, BadMarkInv, pc = "reconcile", pendingFw \notin {NoVersion, CurrentVersion}
  PROVE  TrialImage = NoPackage /\ pendingFw = undone
<1>1. task = "none"
  BY DEF IInv, SessionInv
<1>2. TrialImage = NoPackage
  <2> SUFFICES ASSUME TrialImage # NoPackage PROVE FALSE
    OBVIOUS
  <2>1. CurrentVersion = Version[TrialImage]
    BY <1>1, WhatRuns
  <2>2. Version[TrialImage] = tried /\ pendingFw = tried
    BY DEF BadMarkInv, LabelInv, PendingInv
  <2> QED
    BY <2>1, <2>2
<1> QED
  BY <1>2 DEF BadMarkInv, PendingInv

\* app_main up to the start of the client.
LEMMA StartMarks ==
  ASSUME IInv, BadMarkInv, ReconcilePending \/ ErasePending \/ WifiUp \/ ConfirmImage
  PROVE  BadMarkInv'
<1>1. /\ task' = "none" /\ queue' = <<>>
      /\ UNCHANGED <<desired, tried, undone>>
  BY DEF ReconcilePending, ErasePending, WifiUp, ConfirmImage, IInv, SessionInv,
     ota, hub, net, history
<1>2. CASE ReconcilePending
  <2>1. UNCHANGED TrialImage
    BY <1>2, KeptRecords DEF ReconcilePending
  <2>2. \/ pendingFw' = NoVersion /\ pc' = "connect"
        \/ pendingFw' = undone /\ TrialImage = NoPackage /\ pc' = "erase"
    BY <1>2, ReconcileUndone DEF ReconcilePending
  <2> QED
    BY <1>1, <2>1, <2>2 DEF BadMarkInv, LabelInv, PendingInv, Labelled
<1>3. CASE ErasePending \/ WifiUp
  <2>1. UNCHANGED TrialImage
    BY <1>3, KeptRecords DEF ErasePending, WifiUp
  <2>2. pendingFw' = NoVersion /\ pc' \in {"connect", "confirm"}
    BY <1>3 DEF ErasePending, WifiUp, BadMarkInv, PendingInv, nvs
  <2> QED
    BY <1>1, <2>1, <2>2 DEF BadMarkInv, LabelInv, PendingInv, Labelled
<1>4. CASE ConfirmImage
  <2>1. TrialImage' = NoPackage
    BY <1>4, ConfirmEndsTrial
  <2>2. pendingFw' = NoVersion /\ pc' = "run"
    BY <1>4 DEF ConfirmImage, BadMarkInv, PendingInv, nvs
  <2> QED
    BY <1>1, <2>1, <2>2 DEF BadMarkInv, LabelInv, PendingInv, Labelled
<1> QED
  BY <1>2, <1>3, <1>4

\* A message that starts a task names an image by its right version.
LEMMA MqttMarks ==
  ASSUME IInv, BadMarkInv, HubConnected \/ HubDisconnected \/ HandleTwin
  PROVE  BadMarkInv'
<1>1. /\ pc = "run" /\ pc' = "run"
      /\ UNCHANGED <<pendingFw, tried, undone, desired, body, TrialImage>>
  BY KeptRecords DEF HubConnected, HubDisconnected, HandleTwin, nvs, ota, hub, history
<1>2. CASE HubConnected \/ HubDisconnected
  <2>1. (queue' = queue \/ queue' = <<>>) /\ UNCHANGED <<task, job>>
    BY <1>2 DEF HubConnected, HubDisconnected, ota
  <2> QED
    BY <1>1, <2>1 DEF BadMarkInv, LabelInv, PendingInv, Labelled
<1>3. CASE HandleTwin
  <2>1. queue \in Seq(Twin) /\ queue # <<>> /\ queue' = Tail(queue) /\ desired \in Twin
    BY <1>3, TwinEffect DEF IInv, TypeOK
  <2>2. /\ \A i \in DOMAIN queue' : \E j \in DOMAIN queue : queue'[i] = queue[j]
        /\ 1 \in DOMAIN queue /\ Head(queue) = queue[1]
    BY <2>1, QueueMoves
  <2>3. \A i \in DOMAIN queue' : Labelled(queue'[i])
    BY <2>2 DEF BadMarkInv, LabelInv
  <2>4. CASE UNCHANGED <<task, job>>
    BY <1>1, <2>3, <2>4 DEF BadMarkInv, LabelInv, PendingInv, Labelled
  <2>5. CASE /\ task = "none" /\ task' = "opening"
             /\ job' = Head(queue) /\ job'.url # NoPackage
    <3>1. Labelled(job)'
      BY <2>2, <2>5 DEF BadMarkInv, LabelInv, Labelled
    <3> QED
      BY <1>1, <2>3, <2>5, <3>1 DEF BadMarkInv, LabelInv, PendingInv, Labelled
  <2> QED
    BY <1>3, <2>4, <2>5, TwinEffect
<1> QED
  BY <1>2, <1>3

\* The hub sends what the operator set: the whole of it, or what changed.
LEMMA HubMarks ==
  ASSUME IInv, BadMarkInv, \A o \in Offers : Labelled(o), ChangeDesired \/ ServeTwin
  PROVE  BadMarkInv'
<1>1. /\ UNCHANGED <<pc, pendingFw, tried, undone, task, job, body, TrialImage>>
      /\ queue \in Seq(Twin) /\ desired \in Twin
  BY KeptRecords DEF ChangeDesired, ServeTwin, nvs, ota, history, IInv, TypeOK
<1>2. PICK d \in Twin : /\ Labelled(d) /\ (queue' = queue \/ queue' = Append(queue, d))
                        /\ Labelled(desired)'
  <2>1. CASE ChangeDesired
    <3>1. PICK o \in Offers \ {desired} :
            /\ desired' = o
            /\ queue' = IF connected THEN Append(queue, Patch(desired, o)) ELSE queue
      BY <2>1 DEF ChangeDesired
    <3>2. o \in [version : {x.version : x \in Offers}, url : Package]
      BY AzureOtaAssumption
    <3>3. Patch(desired, o) \in Twin
      BY <3>2 DEF Patch, Twin, Versions
    <3>4. Labelled(Patch(desired, o)) /\ Labelled(desired)'
      BY <3>1 DEF Patch, Labelled
    <3> QED
      BY <3>1, <3>3, <3>4
  <2>2. CASE ServeTwin
    <3>1. desired' = desired /\ queue' = Append(queue, desired)
      BY <2>2 DEF ServeTwin, hub
    <3> QED
      BY <1>1, <3>1 DEF BadMarkInv, LabelInv, Labelled
  <2> QED
    BY <2>1, <2>2
<1>3. \A i \in DOMAIN Append(queue, d) :
        Append(queue, d)[i] = d \/ \E j \in DOMAIN queue : Append(queue, d)[i] = queue[j]
  BY <1>1, QueueMoves
<1>4. \A i \in DOMAIN queue' : Labelled(queue'[i])
  BY <1>2, <1>3 DEF BadMarkInv, LabelInv
<1> QED
  BY <1>1, <1>2, <1>4 DEF BadMarkInv, LabelInv, PendingInv, Labelled

\* ota_task: the record names what it downloads, and it stages what is on record.
LEMMA TaskMarks ==
  ASSUME IInv, BadMarkInv,
         OpenDownload \/ RecordPending \/ Download \/ AbandonUpdate \/ EndUpdate \/ ActivateUpdate
  PROVE  BadMarkInv'
<1>1. /\ task \notin {"none", "bootset"} /\ pc = "run" /\ pc' = "run"
      /\ UNCHANGED <<undone, desired, job, queue>>
  BY DEF IInv, SessionInv, OpenDownload, RecordPending, Download, AbandonUpdate,
     EndUpdate, ActivateUpdate, Done, TaskVars, hub, net
<1>2. TrialImage = NoPackage
  BY <1>1, WhatRuns
<1>3. CASE OpenDownload \/ EndUpdate
  <2>1. UNCHANGED <<TrialImage, pendingFw, tried, body>>
    BY <1>3, SlotKeepsImages DEF OpenDownload, EndUpdate, Done, nvs
  <2>2. \/ task = "opening" /\ task' \in {"none", "begun"}
        \/ task = "verified" /\ task' \in {"ended", "failed"}
    BY <1>3 DEF OpenDownload, EndUpdate, Done
  <2>3. LabelInv'
    BY <1>1, <1>2, <2>1, <2>2 DEF BadMarkInv, LabelInv, Labelled
  <2>4. PendingInv'
    BY <1>1, <2>1, <2>2 DEF BadMarkInv, PendingInv
  <2> QED
    BY <2>3, <2>4 DEF BadMarkInv
<1>4. CASE RecordPending \/ Download \/ AbandonUpdate
  <2>1. UNCHANGED <<TrialImage, tried>>
    BY <1>4, KeptRecords DEF RecordPending, Download, AbandonUpdate
  <2>2. \/ task' = "downloading" /\ pendingFw' = job.version
        \/ /\ task = "downloading" /\ task' \in {"verified", "failed"}
           /\ pendingFw' = pendingFw
           /\ task' = "verified" => body' \in {NoPackage, job.url}
        \/ task' = "none" /\ pendingFw' = NoVersion
    BY <1>4 DEF RecordPending, Download, AbandonUpdate, Done, nvs
  <2>3. LabelInv'
    BY <1>1, <1>2, <2>1, <2>2 DEF BadMarkInv, LabelInv, Labelled
  <2>4. PendingInv'
    BY <1>1, <2>1, <2>2 DEF BadMarkInv, PendingInv
  <2> QED
    BY <2>3, <2>4 DEF BadMarkInv
<1>5. CASE ActivateUpdate
  <2>1. task = "ended" /\ UNCHANGED <<pendingFw, body>>
    BY <1>5 DEF ActivateUpdate, nvs
  <2>2. CASE SetBoot(Target) /\ task' = "bootset" /\ tried' = job.version
    <3>1. TrialImage' = body /\ body \in Package
      BY <2>1, <2>2, ActivatedSlot
    <3>2. /\ body = job.url /\ job.url # NoPackage /\ job.version # NoVersion
          /\ pendingFw = job.version /\ Labelled(job)
      BY <1>1, <2>1, <3>1, PackageAssumption
      DEF BadMarkInv, LabelInv, PendingInv, IInv, SessionInv, ContentInv
    <3>3. TrialImage' # NoPackage /\ Version[TrialImage'] = tried'
      BY <2>2, <3>1, <3>2 DEF Labelled
    <3>4. LabelInv'
      BY <1>1, <2>2, <3>3 DEF BadMarkInv, LabelInv, Labelled
    <3>5. PendingInv'
      BY <1>1, <2>1, <2>2, <3>2, <3>3 DEF PendingInv
    <3> QED
      BY <3>4, <3>5 DEF BadMarkInv
  <2>3. CASE task' = "failed" /\ UNCHANGED <<EspOtaVars, tried>>
    <3>1. UNCHANGED TrialImage
      BY <2>3, KeptRecords
    <3> QED
      BY <1>1, <2>1, <2>3, <3>1 DEF BadMarkInv, LabelInv, PendingInv, Labelled
  <2> QED
    BY <1>5, <2>2, <2>3 DEF ActivateUpdate
<1> QED
  BY <1>3, <1>4, <1>5

\* A step that is no reset of a device whose ota_task may be at work.
SparesTask == pc = "run" /\ pc' = "off" => task = "bootset"

\* The invariant is kept by every such step.
LEMMA NextMarks ==
  ASSUME SparesTask, \A o \in Offers : Labelled(o), IInv, BadMarkInv, [Next]_vars
  PROVE  BadMarkInv'
<1>1. CASE Main
  BY <1>1, BootMarks, StartMarks DEF Main
<1>2. CASE OtaTask /\ ~RestartIntoUpdate
  BY <1>2, TaskMarks DEF OtaTask
<1>3. CASE MqttTask
  BY <1>3, MqttMarks, ResetMarks DEF MqttTask, HandleReboot, Reset, SparesTask
<1>4. CASE RestartIntoUpdate \/ Crash
  BY <1>4, ResetMarks DEF RestartIntoUpdate, Crash, Reset, SparesTask
<1>5. CASE ChangeDesired \/ ServeTwin
  BY <1>5, HubMarks
<1>6. CASE UNCHANGED vars
  BY <1>6, KeptRecords
  DEF vars, nvs, ota, hub, net, history, BadMarkInv, LabelInv, PendingInv, Labelled
<1> QED
  BY <1>1, <1>2, <1>3, <1>4, <1>5, <1>6 DEF Next, OtaTask

\* Only reconcile_pending_ota marks a version.
LEMMA OnlyReconcileMarks ==
  ASSUME [Next]_vars, failedFw' # failedFw
  PROVE  ReconcilePending
BY DEF Next, Main, OtaTask, MqttTask, Boot, ErasePending, WifiUp, ConfirmImage,
   OpenDownload, RecordPending, Download, AbandonUpdate, EndUpdate, ActivateUpdate,
   RestartIntoUpdate, HubConnected, HubDisconnected, HandleTwin, HandleReboot, Crash,
   ChangeDesired, ServeTwin, vars, nvs

\* What is marked is what was rolled back last.
LEMMA NextMarksRolledBack ==
  ASSUME IInv, BadMarkInv, [Next]_vars
  PROVE  MarksRolledBack
<1> SUFFICES ASSUME failedFw' # failedFw PROVE failedFw' = undone
  BY DEF MarksRolledBack
<1>1. ReconcilePending
  BY OnlyReconcileMarks
<1>2. /\ pc = "reconcile" /\ pendingFw \notin {NoVersion, CurrentVersion}
      /\ failedFw' = pendingFw
  BY <1>1 DEF ReconcilePending
<1> QED
  BY <1>2, ReconcileUndone

\* Only the reboot method and an unasked reset stop ota_task.
LEMMA OthersSpareTask ==
  ASSUME Main \/ OtaTask \/ (MqttTask /\ ~HandleReboot) \/ ChangeDesired \/ ServeTwin
           \/ UNCHANGED vars
  PROVE  SparesTask
<1>1. CASE Main
  BY <1>1 DEF Main, Boot, ReconcilePending, ErasePending, WifiUp, ConfirmImage, SparesTask
<1>2. CASE OtaTask
  BY <1>2 DEF OtaTask, OpenDownload, RecordPending, Download, AbandonUpdate, EndUpdate,
     ActivateUpdate, RestartIntoUpdate, TaskVars, SparesTask
<1>3. CASE MqttTask /\ ~HandleReboot
  BY <1>3 DEF MqttTask, HubConnected, HubDisconnected, HandleTwin, SparesTask
<1>4. CASE ChangeDesired \/ ServeTwin \/ UNCHANGED vars
  BY <1>4 DEF ChangeDesired, ServeTwin, vars, SparesTask
<1> QED
  BY <1>1, <1>2, <1>3, <1>4

\* If neither comes while it may be at work, every reset finds it at its restart.
LEMMA TaskStays ==
  ASSUME TaskUndisturbed, [Next]_vars
  PROVE  SparesTask
BY OthersSpareTask DEF Next, Crash, HandleReboot, TaskUndisturbed, SparesTask

\* Only a version whose image was activated and rolled back is marked known-bad
\* (app_main.c:817-821).
THEOREM OnlyRolledBackIsBadThm ==
  ASSUME TaskUndisturbed, \A o \in Offers : Labelled(o)
  PROVE  Spec => OnlyRolledBackIsBad
<1>1. Init => BadMarkInv
  BY InitMarks
<1>2. IInv /\ BadMarkInv /\ [Next]_vars => BadMarkInv'
  BY NextMarks, TaskStays
<1>3. IInv /\ BadMarkInv /\ [Next]_vars => [MarksRolledBack]_vars
  BY NextMarksRolledBack
<1> QED
  BY <1>1, <1>2, <1>3, Invariance, PTL DEF Spec, OnlyRolledBackIsBad
================================================================================
