------------------------------ MODULE AzureOta ------------------------------
(***************************************************************************)
(* Over-the-air update of the Azure client                                 *)
(* (esp-idf-azure-dps/main/app_main.c): the device twin names a version    *)
(* and a URL, the MQTT task decides, and a task of its own (ota_task)      *)
(* downloads over HTTP, activates and restarts, while the MQTT task keeps  *)
(* taking twin changes and direct methods.                                 *)
(*                                                                         *)
(* Abstractions: a URL is the image it serves; the twin holds the fw_*     *)
(* properties only; the body is downloaded in one step; the topic names    *)
(* and JSON around the properties are left out.  ota_task is split where   *)
(* it makes a persistent effect or a report.                               *)
(***************************************************************************)
EXTENDS EspOta, Sequences

CONSTANTS
  Version,      \* Version[p]: CURRENT_FW_VERSION inside the image p
  NoVersion,    \* the property or the NVS key is absent
  Offers,       \* desired properties the operator may set: [version, url]
  CrashPoints,  \* values of pc at which the device may reset unasked
  Faults,       \* subset of FaultKinds
  MaxChanges,   \* bound: changes of the desired properties
  MaxQueue      \* bound: twin messages on their way to the device

PC == {"off", "reconcile", "erase", "connect", "confirm", "run"}
FaultKinds == {"lose", "http", "flash", "memory", "reboot"}
TaskState == {"none", "opening", "begun", "downloading", "failed", "verified",
              "ended", "bootset"}
FwState == {"NONE", "DOWNLOADING", "VERIFIED", "UPDATED", "FAILED"}
Versions == {Version[p] : p \in Package} \cup {o.version : o \in Offers}
NoOffer == [version |-> NoVersion, url |-> NoPackage]

ASSUME AzureOtaAssumption ==
  /\ DOMAIN Version = Package
  /\ NoVersion \notin Versions
  /\ Offers \subseteq [version : {o.version : o \in Offers}, url : Package]
  /\ CrashPoints \subseteq PC \ {"off"}
  /\ Faults \subseteq FaultKinds
  /\ MaxChanges \in Nat /\ MaxQueue \in Nat \ {0}

VARIABLES
  pendingFw, failedFw,  \* NVS: pending_fw, failed_fw
  pc,                   \* progress of app_main
  connected,            \* s_hub_connected
  inProgress,           \* s_ota_in_progress
  task, job,            \* ota_task and its argument
  body,                 \* what ota_task has written to the slot
  fwState,              \* reported.fw_state as the hub saw it last
  desired, changes,     \* hub: the desired properties; changes made (bounded)
  getting,              \* a GET of the twin is on its way to the hub
  queue,                \* twin messages on their way to the device, in order
  tried, undone,        \* history: version activated last, rolled back last
  rolledBack            \* history: versions the bootloader rolled back since
                        \* the desired properties changed

nvs     == <<pendingFw, failedFw>>
ota     == <<inProgress, task, job, body>>
hub     == <<desired, changes>>
net     == <<connected, getting, queue>>
history == <<tried, undone, rolledBack>>
vars    == <<EspOtaVars, nvs, pc, ota, fwState, hub, net, history>>

Twin == [version : Versions \cup {NoVersion}, url : Package \cup {NoPackage}]

TypeOK ==
  /\ EspOtaTypeOK
  /\ {pendingFw, failedFw, tried, undone} \subseteq Versions \cup {NoVersion}
  /\ pc \in PC
  /\ {connected, inProgress, getting} \subseteq BOOLEAN
  /\ task \in TaskState
  /\ {job, desired} \subseteq Twin
  /\ body \in Package \cup {NoPackage}
  /\ fwState \in FwState
  /\ changes \in 0..MaxChanges
  /\ queue \in Seq(Twin)
  /\ rolledBack \subseteq Versions

Init ==
  /\ EspOtaInit
  /\ pendingFw = NoVersion /\ failedFw = NoVersion
  /\ pc = "off"
  /\ connected = FALSE /\ getting = FALSE /\ queue = <<>>
  /\ inProgress = FALSE /\ task = "none" /\ job = NoOffer /\ body = NoPackage
  /\ fwState = "NONE"
  /\ desired = NoOffer /\ changes = 0
  /\ tried = NoVersion /\ undone = NoVersion /\ rolledBack = {}

-----------------------------------------------------------------------------
(* Boot: app_main. *)

CurrentVersion == Version[flash[running]]

\* Mutant: the update is written over the running slot.
TargetIsRunning == IF running = "factory" THEN "ota_0" ELSE running

Target == NextUpdate(running)   \* esp_ota_get_next_update_partition

\* RAM, the MQTT session and ota_task are gone after a reset.
Reset ==
  /\ pc' = "off"
  /\ connected' = FALSE /\ getting' = FALSE /\ queue' = <<>>
  /\ inProgress' = FALSE /\ task' = "none" /\ job' = NoOffer /\ body' = NoPackage

Boot ==
  /\ pc = "off"
  /\ Bootloader
  /\ IF AbortedAtReset = {} THEN UNCHANGED <<undone, rolledBack>>
     ELSE undone' = tried /\ rolledBack' = rolledBack \cup {tried}
  /\ pc' = "reconcile"
  /\ UNCHANGED <<nvs, ota, fwState, hub, net, tried>>

\* Mutant: the version is not compared with the one that runs.
ReconcileBlindly ==
  /\ pc = "reconcile"
  /\ IF pendingFw = NoVersion
     THEN pc' = "connect" /\ UNCHANGED nvs
     ELSE failedFw' = pendingFw /\ pc' = "erase" /\ UNCHANGED pendingFw
  /\ UNCHANGED <<EspOtaVars, ota, fwState, hub, net, history>>

\* reconcile_pending_ota, up to its first NVS commit.
ReconcilePending ==
  /\ pc = "reconcile"
  /\ IF pendingFw \in {NoVersion, CurrentVersion}
     THEN pendingFw' = NoVersion /\ pc' = "connect" /\ UNCHANGED failedFw
     ELSE failedFw' = pendingFw /\ pc' = "erase" /\ UNCHANGED pendingFw
  /\ UNCHANGED <<EspOtaVars, ota, fwState, hub, net, history>>

\* reconcile_pending_ota: erase_nvs_key.
ErasePending ==
  /\ pc = "erase"
  /\ pendingFw' = NoVersion
  /\ pc' = "connect"
  /\ UNCHANGED <<EspOtaVars, failedFw, ota, fwState, hub, net, history>>

\* example_connect succeeds (its failure aborts: Crash at "connect").
WifiUp ==
  /\ pc = "connect"
  /\ pc' = "confirm"
  /\ UNCHANGED <<EspOtaVars, nvs, ota, fwState, hub, net, history>>

\* The image is confirmed; then the hub is found and the client started.
ConfirmImage ==
  /\ pc = "confirm"
  /\ IF OnTrial THEN MarkValid ELSE UNCHANGED EspOtaVars
  /\ pc' = "run"
  /\ UNCHANGED <<nvs, ota, fwState, hub, net, history>>

\* Power loss, panic, watchdog, a failed ESP_ERROR_CHECK.
Crash ==
  /\ pc \in CrashPoints
  /\ Reset
  /\ UNCHANGED <<EspOtaVars, nvs, fwState, hub, history>>

-----------------------------------------------------------------------------
(* The MQTT task: hub_mqtt_event_handler. *)

\* Mutant: relies on pushed patches, never asks for the whole twin.
ConnectedWithoutGet ==
  /\ pc = "run" /\ ~connected
  /\ connected' = TRUE
  /\ UNCHANGED <<EspOtaVars, nvs, pc, ota, fwState, hub, getting, queue, history>>

HubConnected ==
  /\ pc = "run" /\ ~connected
  /\ connected' = TRUE /\ getting' = TRUE
  /\ UNCHANGED <<EspOtaVars, nvs, pc, ota, fwState, hub, queue, history>>

\* The session is clean: what it still had to deliver is dropped.
HubDisconnected ==
  /\ pc = "run" /\ connected /\ "lose" \in Faults
  /\ connected' = FALSE /\ getting' = FALSE /\ queue' = <<>>
  /\ UNCHANGED <<EspOtaVars, nvs, pc, ota, fwState, hub, history>>

\* Mutant: no look at failed_fw.
TriggerRegardless(d) ==
  IF inProgress THEN UNCHANGED <<inProgress, task, job, fwState>>
  ELSE /\ inProgress' = TRUE /\ task' = "opening" /\ job' = d
       /\ UNCHANGED fwState

\* Mutant: the version is refused without a report.
TriggerSilently(d) ==
  IF inProgress \/ failedFw = d.version
  THEN UNCHANGED <<inProgress, task, job, fwState>>
  ELSE /\ inProgress' = TRUE /\ task' = "opening" /\ job' = d
       /\ UNCHANGED fwState

\* trigger_ota.  Neither malloc nor xTaskCreate is checked: without memory
\* the flag is set and there is no task to clear it.
TriggerOta(d) ==
  CASE inProgress -> UNCHANGED <<inProgress, task, job, fwState>>
    [] ~inProgress /\ failedFw = d.version ->
         fwState' = "FAILED" /\ UNCHANGED <<inProgress, task, job>>
    [] OTHER ->
         /\ inProgress' = TRUE /\ UNCHANGED fwState
         /\ \/ task' = "opening" /\ job' = d
            \/ "memory" \in Faults /\ UNCHANGED <<task, job>>

\* apply_desired_properties: acts only if the message carries both fw_version
\* and fw_url.
HandleTwin ==
  /\ pc = "run" /\ queue # <<>>
  /\ LET d == Head(queue) IN
       IF NoVersion # d.version /\ NoPackage # d.url /\ d.version # CurrentVersion
       THEN TriggerOta(d)
       ELSE UNCHANGED <<inProgress, task, job, fwState>>
  /\ queue' = Tail(queue)
  /\ UNCHANGED <<EspOtaVars, nvs, pc, body, hub, connected, getting, history>>

\* handle_direct_method_request, method "reboot": at any time, whatever
\* ota_task is doing.
HandleReboot ==
  /\ pc = "run" /\ connected /\ "reboot" \in Faults
  /\ Reset
  /\ UNCHANGED <<EspOtaVars, nvs, fwState, hub, history>>

-----------------------------------------------------------------------------
(* ota_task. *)

TaskVars == <<pc, hub, net, undone, rolledBack>>   \* what ota_task leaves alone

\* "done": the flag is cleared and the task deletes itself.
Done == inProgress' = FALSE /\ task' = "none" /\ UNCHANGED <<job, body>>

\* Opens the connection (the HTTP status is never looked at) and the slot.
OpenDownload ==
  /\ task = "opening"
  /\ \/ OtaBegin(Target) /\ task' = "begun" /\ UNCHANGED <<inProgress, job, body, fwState>>
     \/ /\ OnTrial \/ {"http", "flash"} \cap Faults # {}
        /\ fwState' = "FAILED" /\ Done /\ UNCHANGED EspOtaVars
  /\ UNCHANGED <<nvs, tried, TaskVars>>

\* Mutant: the two halves of the packed task argument are swapped.
RecordUrl ==
  /\ task = "begun"
  /\ pendingFw' = job.url
  /\ task' = "downloading" /\ fwState' = "DOWNLOADING"
  /\ UNCHANGED <<EspOtaVars, failedFw, inProgress, job, body, tried, TaskVars>>

RecordPending ==
  /\ task = "begun"
  /\ pendingFw' = job.version
  /\ task' = "downloading" /\ fwState' = "DOWNLOADING"
  /\ UNCHANGED <<EspOtaVars, failedFw, inProgress, job, body, tried, TaskVars>>

\* A body that was received in full is called VERIFIED, an error page too.
Download ==
  /\ task = "downloading"
  /\ \/ /\ task' = "verified" /\ fwState' = "VERIFIED"
        /\ body' \in {job.url} \cup (IF "http" \in Faults THEN {NoPackage} ELSE {})
     \/ /\ {"http", "flash"} \cap Faults # {}
        /\ task' = "failed" /\ fwState' = "FAILED" /\ UNCHANGED body
  /\ UNCHANGED <<EspOtaVars, nvs, inProgress, job, tried, TaskVars>>

AbandonUpdate ==
  /\ task = "failed"
  /\ pendingFw' = NoVersion
  /\ Done
  /\ UNCHANGED <<EspOtaVars, failedFw, fwState, tried, TaskVars>>

\* esp_ota_end accepts a well-formed image only.
EndUpdate ==
  /\ task = "verified"
  /\ \/ /\ body # NoPackage
        /\ OtaEnd(Target, body) /\ task' = "ended" /\ UNCHANGED fwState
     \/ /\ body = NoPackage \/ "flash" \in Faults
        /\ task' = "failed" /\ fwState' = "FAILED" /\ UNCHANGED EspOtaVars
  /\ UNCHANGED <<nvs, inProgress, job, body, tried, TaskVars>>

\* Mutant: the slot is activated whatever esp_ota_end said.
ActivateEarly ==
  /\ task \in {"verified", "ended"}
  /\ SetBoot(Target)
  /\ task' = "bootset" /\ fwState' = "UPDATED" /\ tried' = job.version
  /\ UNCHANGED <<nvs, inProgress, job, body, TaskVars>>

ActivateUpdate ==
  /\ task = "ended"
  /\ \/ /\ SetBoot(Target)
        /\ task' = "bootset" /\ fwState' = "UPDATED" /\ tried' = job.version
     \/ /\ "flash" \in Faults
        /\ task' = "failed" /\ fwState' = "FAILED" /\ UNCHANGED <<EspOtaVars, tried>>
  /\ UNCHANGED <<nvs, inProgress, job, body, TaskVars>>

\* esp_restart, one second later.
RestartIntoUpdate ==
  /\ task = "bootset"
  /\ Reset
  /\ UNCHANGED <<EspOtaVars, nvs, fwState, hub, history>>

-----------------------------------------------------------------------------
(* IoT Hub (external). *)

\* A patch holds the properties that changed; it is pushed to a device that
\* is connected, and kept for nobody.
Patch(old, new) ==
  [version |-> IF new.version = old.version THEN NoVersion ELSE new.version,
   url     |-> IF new.url = old.url THEN NoPackage ELSE new.url]

ChangeDesired ==
  /\ changes < MaxChanges /\ Len(queue) < MaxQueue
  /\ \E o \in Offers \ {desired} :
       /\ desired' = o
       /\ queue' = IF connected THEN Append(queue, Patch(desired, o)) ELSE queue
  /\ changes' = changes + 1
  /\ rolledBack' = {}
  /\ UNCHANGED <<EspOtaVars, nvs, pc, ota, fwState, connected, getting, tried, undone>>

ServeTwin ==
  /\ getting /\ Len(queue) < MaxQueue
  /\ getting' = FALSE
  /\ queue' = Append(queue, desired)
  /\ UNCHANGED <<EspOtaVars, nvs, pc, ota, fwState, hub, connected, history>>

Main    == Boot \/ ReconcilePending \/ ErasePending \/ WifiUp \/ ConfirmImage
OtaTask == \/ OpenDownload \/ RecordPending \/ Download \/ AbandonUpdate
           \/ EndUpdate \/ ActivateUpdate \/ RestartIntoUpdate
MqttTask == HubConnected \/ HubDisconnected \/ HandleTwin \/ HandleReboot

Next == Main \/ OtaTask \/ MqttTask \/ Crash \/ ChangeDesired \/ ServeTwin

Spec == Init /\ [][Next]_vars

\* FreeRTOS runs each task, esp-mqtt reconnects by itself and the hub answers.
FairSpec ==
  /\ Spec
  /\ WF_vars(Main) /\ WF_vars(OtaTask)
  /\ WF_vars(HubConnected) /\ WF_vars(HandleTwin) /\ WF_vars(ServeTwin)

-----------------------------------------------------------------------------
(* Properties. *)

\* Whatever the two tasks are doing when the device resets, there is a
\* complete image to start and one to fall back on (app_main.c:875-882).
AlwaysBootable == Bootable

\* The update mechanism of TrialUpdate, implemented by two tasks of which one
\* may restart the device in the middle of the other's work.
Activity ==
  IF pc = "off" THEN "off" ELSE IF OnTrial THEN "trial" ELSE "confirmed"

Trial == INSTANCE TrialUpdate WITH
  Image     <- Package,
  NoImage   <- NoPackage,
  confirmed <- ConfirmedImage,
  trial     <- TrialImage,
  started   <- TrialStarted,
  active    <- Activity

ImplementsTrialUpdate == Trial!Spec

\* A version that was rolled back while it is desired is not tried again on
\* the device's own account (app_main.c:645-648: "a still-desired bad version
\* in the twin causes an infinite download->crash->rollback->download cycle").
StartsNoRetry == task = "none" /\ task' = "opening" => job'.version \notin rolledBack
NoAutomaticRetry == [][StartsNoRetry]_vars

\* Only a version whose image was activated and rolled back is marked
\* known-bad (app_main.c:817-821).
MarksRolledBack == failedFw' # failedFw => failedFw' = undone
OnlyRolledBackIsBad == [][MarksRolledBack]_vars

\* VERIFIED is only reported of an image (app_main.c:542-543: fw_state mirrors
\* the DOWNLOADING/VERIFIED/UPDATED states of the ThingsBoard client).
VerifiedIsTrue == task = "verified" => body # NoPackage

\* The version that stays desired gets to run and is confirmed, also
\* when it was set during the download of another one.
InstallsDesired ==
  \A o \in Offers :
    desired = o ~> desired # o \/ (pc = "run" /\ flash[running] = o.url /\ ~OnTrial)

\* Every version the operator leaves in the twin is attempted, or it runs or
\* is known-bad already (app_main.c:658-659: "set a different
\* desired.fw_version to retry").
DesiredIsAttempted ==
  \A o \in Offers :
    desired = o ~> \/ desired # o \/ job = o
                   \/ o.version \in {failedFw, CurrentVersion}

\* A version that is rolled back while it stays desired ends as a reported
\* failure, if the device stays up.
FailureReported ==
  <>[](pc # "off") =>
    [](desired # NoOffer /\ desired.version \in rolledBack
         => <>(fwState = "FAILED" \/ desired.version \notin rolledBack))

-----------------------------------------------------------------------------
(* The inductive invariant behind AlwaysBootable and ImplementsTrialUpdate. *)

\* The MQTT session and ota_task belong to a running application, and while
\* there is a task the flag keeps a second one away.
SessionInv ==
  /\ pc # "run" => ~connected /\ ~getting /\ queue = <<>> /\ task = "none"
  /\ task # "none" => inProgress /\ job.version # NoVersion

\* The image that runs, from the reset to the restart into its successor.
RunningInv ==
  /\ pc # "off" /\ task # "bootset" => RunsActive
  /\ pc = "run" /\ task # "bootset" => RunsConfirmed
  /\ task = "bootset" => Activated

\* What esp_ota_end has accepted is in the slot; a trial is of a version that
\* was activated.
ContentInv ==
  /\ task = "ended" => body # NoPackage /\ flash[Target] = body
  /\ TrialImage # NoPackage => tried # NoVersion

IInv == TypeOK /\ RecordInv /\ SessionInv /\ RunningInv /\ ContentInv

(* What NoAutomaticRetry needs besides, of a device that is not reset       *)
(* between the erasure of pending_fw and the confirmation of the image.     *)
WindowSpared == CrashPoints \cap {"connect", "confirm"} = {}

\* Since the last rollback every message and the task are about the version
\* that is desired.
MessageInv ==
  rolledBack # {} =>
    /\ \A i \in DOMAIN queue : queue[i].version \in {NoVersion, desired.version}
    /\ task # "none" => job.version = desired.version

\* The task is about a version that is neither known-bad, nor running, nor
\* rolled back, and from RecordPending on it is on record.
AttemptInv ==
  task # "none" =>
    /\ job.version \notin {failedFw, CurrentVersion} \cup rolledBack
    /\ task \notin {"opening", "begun"} => pendingFw = job.version
    /\ task = "bootset" => tried = job.version

\* The trial is on record until the moment before it is confirmed, and what is
\* on record never is the confirmed image.
TrialInv ==
  /\ pendingFw # Version[ConfirmedImage]
  /\ pc \in {"connect", "confirm"} => pendingFw = NoVersion
  /\ TrialImage # NoPackage =>
       /\ tried \notin rolledBack
       /\ pc \notin {"connect", "confirm"} => pendingFw = tried

\* The desired version, once rolled back, is recorded as failed by the time
\* reconcile_pending_ota is through, and no other record takes its place.
RememberedInv ==
  desired.version \in rolledBack =>
    /\ pendingFw \in {NoVersion, desired.version}
    /\ \/ failedFw = desired.version
       \/ pendingFw = desired.version /\ pc \in {"off", "reconcile"}

AntiLoopInv == MessageInv /\ AttemptInv /\ TrialInv /\ RememberedInv

(* What OnlyRolledBackIsBad needs, of a device that nothing resets while    *)
(* ota_task may be at work, and of offers that say what their image is.     *)
TaskUndisturbed ==
  /\ CrashPoints \subseteq {"reconcile", "erase", "connect", "confirm"}
  /\ "reboot" \notin Faults
Labelled(o) ==
  o.version # NoVersion /\ o.url # NoPackage => Version[o.url] = o.version

\* The label stays with the image, from the twin into the slot.
LabelInv ==
  /\ Labelled(desired) /\ \A i \in DOMAIN queue : Labelled(queue[i])
  /\ task # "none" => job.url # NoPackage /\ Labelled(job)
  /\ task \in {"verified", "ended"} => body \in {NoPackage, job.url}
  /\ TrialImage # NoPackage => Version[TrialImage] = tried

\* What is on record as pending is what the task is about, the trial, or what
\* was rolled back last.
PendingInv ==
  /\ pc \in {"off", "reconcile"} /\ pendingFw # NoVersion =>
       pendingFw = IF TrialImage # NoPackage THEN tried ELSE undone
  /\ pc = "erase" => TrialImage = NoPackage /\ pendingFw = undone
  /\ pc \in {"connect", "confirm"} => pendingFw = NoVersion
  /\ pc = "run" => pendingFw = IF task \in {"none", "opening", "begun"} THEN NoVersion
                               ELSE job.version
  /\ task = "bootset" => TrialImage # NoPackage /\ tried = job.version

BadMarkInv == LabelInv /\ PendingInv
=============================================================================
