--------------------------- MODULE ThingsBoardOta ---------------------------
(***************************************************************************)
(* Over-the-air update of the ThingsBoard client                           *)
(* (esp-idf-thingsboard/main/app_main.c): boot sequence, reconciliation of *)
(* the update that was in flight, shared attributes, chunked download,     *)
(* verification, activation, and the NVS keys that are meant to stop an    *)
(* endless download / crash / rollback cycle.  The device may reset in any *)
(* state of CrashPoints; messages are lost or duplicated, flash operations *)
(* fail and the server changes the assignment as Faults allows.            *)
(*                                                                         *)
(* Abstractions: a SHA-256 digest is the sequence of chunks it was taken   *)
(* over; one attributes message carries the five fw_* values of one        *)
(* package; the request number in the chunk topics is left out, because    *)
(* the handler never reads it.  A handler is split where it makes a        *)
(* persistent effect, so that a reset can fall between two of them; the    *)
(* MQTT task takes no other event in between (Handling).                   *)
(***************************************************************************)
EXTENDS EspOta, Sequences, FiniteSets

CONSTANTS
  Version,      \* Version[p]: the fw_version the server declares for p
  Compiled,     \* Compiled[p]: CURRENT_FW_VERSION inside the image of p
  Bytes,        \* Bytes[p]: fw_size of p
  Sha256,       \* packages whose fw_checksum_algorithm is SHA256
  ChunkSize,    \* TB_FW_CHUNK_SIZE
  NoVersion,    \* the NVS key is absent
  CrashPoints,  \* values of pc at which the device may reset unasked
  Faults,       \* subset of FaultKinds
  MaxAssigns,   \* bound: how often the server changes the assigned package
  MaxInFlight   \* bound: messages on their way to the device at a time

Versions == {Version[p] : p \in Package} \cup {Compiled[p] : p \in Package}

PC == {"off", "reconcile", "erase", "connect", "confirm", "provision",
       "run", "halted"}
FaultKinds == {"lose", "dup", "flash", "provision", "reassign", "reboot"}
Phase == {"idle", "starting", "downloading", "verified", "ended", "bootset"}
FwState == {"NONE", "DOWNLOADING", "VERIFIED", "UPDATED", "FAILED"}

ASSUME ThingsBoardAssumption ==
  /\ DOMAIN Version = Package
  /\ DOMAIN Compiled = Package
  /\ NoVersion \notin Versions
  /\ Bytes \in [Package -> Nat \ {0}]
  /\ Sha256 \subseteq Package
  /\ CrashPoints \subseteq PC \ {"off"}
  /\ Faults \subseteq FaultKinds
  /\ ChunkSize \in Nat \ {0}
  /\ MaxAssigns \in Nat
  /\ MaxInFlight \in Nat \ {0}

VARIABLES
  pendingFw, failedFw, token,  \* NVS: pending_fw, failed_fw, access token kept?
  pc,           \* progress of app_main
  connected,    \* s_mqtt_connected
  fw,           \* package described by the s_fw_* globals (NoPackage: unknown)
  phase,        \* the update in progress
  chunkIndex,   \* s_fw_chunk_index
  received,     \* s_fw_received
  written,      \* chunks written and hashed so far (s_ota_handle, s_sha_ctx)
  fwState,      \* fw_state telemetry the server saw last
  assigned,     \* server: the package assigned to this device
  assigns,      \* server: assignments made (bounded)
  reqs, msgs,   \* messages in flight to the server, to the device
  rolledBack    \* history: versions the bootloader rolled back since the
                \* server last changed its assignment

nvs     == <<pendingFw, failedFw, token>>
session == <<connected, fw, phase, chunkIndex, received, written>>
server  == <<assigned, assigns>>
net     == <<reqs, msgs>>
vars    == <<EspOtaVars, nvs, pc, session, fwState, server, net, rolledBack>>

Request == [type : {"attributes"}] \cup [type : {"chunk"}, index : Nat]
Message == [type : {"attributes", "chunk"}, pkg : Package, index : Nat]

TypeOK ==
  /\ EspOtaTypeOK
  /\ pendingFw \in Versions \cup {NoVersion}
  /\ failedFw \in Versions \cup {NoVersion}
  /\ token \in BOOLEAN
  /\ pc \in PC
  /\ connected \in BOOLEAN
  /\ fw \in Package \cup {NoPackage}
  /\ phase \in Phase
  /\ chunkIndex \in Nat
  /\ received \in Nat
  /\ written \in Seq(Package \X Nat)
  /\ fwState \in FwState
  /\ assigned \in Package \cup {NoPackage}
  /\ assigns \in 0..MaxAssigns
  /\ reqs \subseteq Request
  /\ msgs \subseteq Message
  /\ rolledBack \subseteq Versions

Init ==
  /\ EspOtaInit
  /\ pendingFw = NoVersion /\ failedFw = NoVersion
  /\ token \in BOOLEAN
  /\ pc = "off"
  /\ connected = FALSE
  /\ fw = NoPackage
  /\ phase = "idle"
  /\ chunkIndex = 0 /\ received = 0 /\ written = <<>>
  /\ fwState = "NONE"
  /\ assigned = NoPackage /\ assigns = 0
  /\ reqs = {} /\ msgs = {}
  /\ rolledBack = {}

-----------------------------------------------------------------------------
(* Helpers. *)

CurrentVersion == Compiled[flash[running]]   \* CURRENT_FW_VERSION

\* Mutant: the update is written over the running slot.
TargetIsRunning == IF running = "factory" THEN "ota_0" ELSE running

Target == NextUpdate(running)                \* s_update_partition

ChunkLen(p, i) ==
  IF i * ChunkSize >= Bytes[p] THEN 0
  ELSE IF (i + 1) * ChunkSize > Bytes[p] THEN Bytes[p] - i * ChunkSize
  ELSE ChunkSize

\* The chunks of p in order: the content its image and its checksum stand for.
ContentOf(p) ==
  [k \in {n \in 1..Bytes[p] : (n - 1) * ChunkSize < Bytes[p]} |-> <<p, k - 1>>]

AttributesMsg(p) == [type |-> "attributes", pkg |-> p, index |-> 0]
ChunkMsg(p, i)   == [type |-> "chunk", pkg |-> p, index |-> i]
AttributesReq    == [type |-> "attributes"]
ChunkReq(i)      == [type |-> "chunk", index |-> i]

\* QoS 1: a message taken out of the network may arrive once more.
Taken(S, m) == {S \ {m}} \cup (IF "dup" \in Faults THEN {S} ELSE {})

\* The MQTT task is free to run an event handler.
Handling == pc = "run" /\ phase \in {"idle", "downloading"}

\* RAM and the MQTT session are gone after a reset.
Reset ==
  /\ pc' = "off"
  /\ connected' = FALSE
  /\ fw' = NoPackage
  /\ phase' = "idle"
  /\ chunkIndex' = 0 /\ received' = 0 /\ written' = <<>>
  /\ reqs' = {} /\ msgs' = {}

Fail == phase' = "idle" /\ fwState' = "FAILED"

-----------------------------------------------------------------------------
(* Boot: app_main. *)

Boot ==
  /\ pc = "off"
  /\ Bootloader
  /\ rolledBack' = rolledBack \cup {Version[flash[s]] : s \in AbortedAtReset}
  /\ pc' = "reconcile"
  /\ UNCHANGED <<nvs, session, fwState, server, net>>

\* Mutant: the failed attempt is forgotten instead of recorded.
ReconcileForgets ==
  /\ pc = "reconcile"
  /\ pendingFw' = NoVersion
  /\ pc' = "connect"
  /\ UNCHANGED <<EspOtaVars, failedFw, token, session, fwState, server, net,
                 rolledBack>>

\* reconcile_pending_ota, up to the first NVS commit it makes.
ReconcilePending ==
  /\ pc = "reconcile"
  /\ \/ /\ pendingFw = NoVersion
        /\ pc' = "connect"
        /\ UNCHANGED <<pendingFw, failedFw>>
     \/ /\ pendingFw = CurrentVersion
        /\ pendingFw' = NoVersion
        /\ pc' = "connect"
        /\ UNCHANGED failedFw
     \/ /\ pendingFw \notin {NoVersion, CurrentVersion}
        /\ failedFw' = pendingFw
        /\ pc' = "erase"
        /\ UNCHANGED pendingFw
  /\ UNCHANGED <<EspOtaVars, token, session, fwState, server, net, rolledBack>>

\* reconcile_pending_ota: erase_nvs_key after the failure was recorded.
ErasePending ==
  /\ pc = "erase"
  /\ pendingFw' = NoVersion
  /\ pc' = "connect"
  /\ UNCHANGED <<EspOtaVars, failedFw, token, session, fwState, server, net,
                 rolledBack>>

\* example_connect succeeds (its failure aborts: Crash at "connect").
WifiUp ==
  /\ pc = "connect"
  /\ pc' = "confirm"
  /\ UNCHANGED <<EspOtaVars, nvs, session, fwState, server, net, rolledBack>>

ConfirmImage ==
  /\ pc = "confirm"
  /\ IF OnTrial THEN MarkValid ELSE UNCHANGED EspOtaVars
  /\ pc' = "provision"
  /\ UNCHANGED <<nvs, session, fwState, server, net, rolledBack>>

\* A stored token, or one provisioning run; then the MQTT client is started.
ObtainToken ==
  /\ pc = "provision"
  /\ \/ token' = TRUE /\ pc' = "run"
     \/ /\ ~token /\ "provision" \in Faults
        /\ pc' = "halted"
        /\ UNCHANGED token
  /\ UNCHANGED <<EspOtaVars, pendingFw, failedFw, session, fwState, server,
                 net, rolledBack>>

\* Power loss, panic, watchdog, a failed ESP_ERROR_CHECK.
Crash ==
  /\ pc \in CrashPoints
  /\ Reset
  /\ UNCHANGED <<EspOtaVars, nvs, fwState, server, rolledBack>>

-----------------------------------------------------------------------------
(* MQTT events: mqtt_event_handler. *)

\* Mutant: relies on pushed attributes, never asks for the current ones.
ConnectedWithoutRequest ==
  /\ Handling /\ ~connected
  /\ connected' = TRUE
  /\ UNCHANGED <<EspOtaVars, nvs, pc, fw, phase, chunkIndex, received, written,
                 fwState, server, net, rolledBack>>

MqttConnected ==
  /\ Handling /\ ~connected
  /\ connected' = TRUE
  /\ reqs' = reqs \cup {AttributesReq}
  /\ UNCHANGED <<EspOtaVars, nvs, pc, fw, phase, chunkIndex, received, written,
                 fwState, server, msgs, rolledBack>>

\* The broker session is clean: what it still had to deliver is dropped;
\* requests the client has not seen acknowledged stay in its outbox.
MqttDisconnected ==
  /\ Handling /\ connected /\ "lose" \in Faults
  /\ connected' = FALSE
  /\ msgs' = {}
  /\ reqs' \in {reqs, {}}
  /\ UNCHANGED <<EspOtaVars, nvs, pc, fw, phase, chunkIndex, received, written,
                 fwState, server, rolledBack>>

\* Mutant: no look at failed_fw.
StartRegardless(p) ==
  \/ /\ OtaBegin(Target)
     /\ phase' = "starting"
     /\ UNCHANGED fwState
  \/ /\ OnTrial \/ "flash" \in Faults
     /\ fwState' = "FAILED"
     /\ UNCHANGED <<EspOtaVars, phase>>

\* Mutant: a known-bad version is refused without a report.
RefuseSilently(p) ==
  IF failedFw = Version[p]
  THEN UNCHANGED <<EspOtaVars, phase, fwState>>
  ELSE StartRegardless(p)

\* start_fw_update for the package p, up to esp_ota_begin.
StartUpdate(p) ==
  IF failedFw = Version[p] THEN
    /\ fwState' = "FAILED"
    /\ UNCHANGED <<EspOtaVars, phase>>
  ELSE
    \/ /\ OtaBegin(Target)
       /\ phase' = "starting"
       /\ UNCHANGED fwState
    \/ /\ OnTrial \/ "flash" \in Faults
       /\ fwState' = "FAILED"
       /\ UNCHANGED <<EspOtaVars, phase>>

\* handle_attributes_payload: the payload is applied even while a download
\* runs; whether an update starts is decided on what the globals say then.
\* The payload describes a package, or an operator changed publishInterval
\* alone, which leaves the globals as they are.
HandleAttributes ==
  /\ Handling /\ connected
  /\ \/ \E m \in msgs :
          /\ m.type = "attributes"
          /\ fw' = m.pkg
          /\ msgs' \in Taken(msgs, m)
     \/ UNCHANGED <<fw, msgs>>
  /\ IF fw' # NoPackage /\ phase = "idle" /\ Version[fw'] # CurrentVersion
     THEN StartUpdate(fw')
     ELSE UNCHANGED <<EspOtaVars, phase, fwState>>
  /\ UNCHANGED <<nvs, pc, connected, chunkIndex, received, written, server,
                 reqs, rolledBack>>

\* Mutant: the attempt is not written to NVS.
DownloadUnrecorded ==
  /\ pc = "run" /\ phase = "starting"
  /\ phase' = "downloading"
  /\ chunkIndex' = 0 /\ received' = 0 /\ written' = <<>>
  /\ fwState' = "DOWNLOADING"
  /\ reqs' = reqs \cup {ChunkReq(0)}
  /\ UNCHANGED <<EspOtaVars, nvs, pc, connected, fw, server, msgs, rolledBack>>

\* start_fw_update, from the NVS commit of pending_fw on.
RecordPending ==
  /\ pc = "run" /\ phase = "starting"
  /\ pendingFw' = Version[fw]
  /\ phase' = "downloading"
  /\ chunkIndex' = 0 /\ received' = 0 /\ written' = <<>>
  /\ fwState' = "DOWNLOADING"
  /\ reqs' = reqs \cup {ChunkReq(0)}
  /\ UNCHANGED <<EspOtaVars, failedFw, token, pc, connected, fw, server, msgs,
                 rolledBack>>

\* Mutant: the algorithm is checked, the digest is not.
AlgorithmOk(w) == fw \in Sha256

\* The digest taken over the written chunks is the one the server declared.
ChecksumOk(w) == fw \in Sha256 /\ w = ContentOf(fw)

\* finish_fw_update, up to and including the checksum.
VerifyUpdate(total, w) ==
  IF total = Bytes[fw] /\ ChecksumOk(w)
  THEN phase' = "verified" /\ fwState' = "VERIFIED"
  ELSE Fail

\* Mutant: counts down, and so asks for no chunk there is.
WriteBackwards(p, i) ==
  /\ received' = received + ChunkLen(p, i)
  /\ written' = Append(written, <<p, i>>)
  /\ chunkIndex' = chunkIndex - 1
  /\ UNCHANGED <<phase, fwState, reqs>>

\* Mutant: takes the chunk but leaves the next request to the server.
WriteAndWait(p, i) ==
  LET total == received + ChunkLen(p, i)
      w     == Append(written, <<p, i>>)
  IN
  /\ received' = total /\ written' = w
  /\ IF total < Bytes[fw] THEN UNCHANGED <<phase, fwState>>
                          ELSE VerifyUpdate(total, w)
  /\ UNCHANGED <<chunkIndex, reqs>>

\* handle_fw_chunk_data while an update is in progress: write, count, then
\* finish or ask for the next chunk.
WriteChunk(p, i) ==
  LET len   == ChunkLen(p, i)
      total == received + len
      w     == IF len = 0 THEN written ELSE Append(written, <<p, i>>)
      last  == len = 0 \/ total >= Bytes[fw]
  IN
  /\ received' = total /\ written' = w
  /\ IF last THEN VerifyUpdate(total, w) /\ UNCHANGED <<chunkIndex, reqs>>
     ELSE /\ chunkIndex' = chunkIndex + 1
          /\ reqs' = reqs \cup {ChunkReq(chunkIndex + 1)}
          /\ UNCHANGED <<phase, fwState>>

\* esp_ota_write failed.
WriteError ==
  /\ "flash" \in Faults
  /\ Fail
  /\ UNCHANGED <<chunkIndex, received, written, reqs>>

\* Neither the request number nor the chunk number in the topic is compared
\* with what was asked for.
HandleChunk ==
  /\ Handling /\ connected
  /\ \E m \in msgs :
       /\ m.type = "chunk"
       /\ msgs' \in Taken(msgs, m)
       /\ IF phase = "downloading"
          THEN WriteChunk(m.pkg, m.index) \/ WriteError
          ELSE UNCHANGED <<phase, fwState, chunkIndex, received, written, reqs>>
  /\ UNCHANGED <<EspOtaVars, nvs, pc, connected, fw, server, rolledBack>>

\* finish_fw_update: esp_ota_end validates the image it finds in the slot.
EndUpdate ==
  /\ pc = "run" /\ phase = "verified"
  /\ \/ \E p \in Package :
          /\ written = ContentOf(p)
          /\ OtaEnd(Target, p)
          /\ phase' = "ended"
          /\ UNCHANGED fwState
     \/ /\ "flash" \in Faults \/ \A p \in Package : written # ContentOf(p)
        /\ Fail
        /\ UNCHANGED EspOtaVars
  /\ UNCHANGED <<nvs, pc, connected, fw, chunkIndex, received, written, server,
                 net, rolledBack>>

\* Mutant: does not wait for esp_ota_end.
ActivateEarly ==
  /\ pc = "run" /\ phase = "verified"
  /\ SetBoot(Target)
  /\ phase' = "bootset"
  /\ fwState' = "UPDATED"
  /\ UNCHANGED <<nvs, pc, connected, fw, chunkIndex, received, written, server,
                 net, rolledBack>>

\* finish_fw_update: esp_ota_set_boot_partition.
ActivateUpdate ==
  /\ pc = "run" /\ phase = "ended"
  /\ \/ /\ SetBoot(Target)
        /\ phase' = "bootset"
        /\ fwState' = "UPDATED"
     \/ /\ "flash" \in Faults
        /\ Fail
        /\ UNCHANGED EspOtaVars
  /\ UNCHANGED <<nvs, pc, connected, fw, chunkIndex, received, written, server,
                 net, rolledBack>>

\* finish_fw_update: esp_restart, one second later.
RestartIntoUpdate ==
  /\ pc = "run" /\ phase = "bootset"
  /\ Reset
  /\ UNCHANGED <<EspOtaVars, nvs, fwState, server, rolledBack>>

\* handle_rpc_request, method "reboot": an operator may send it at any time,
\* in the middle of a download too.
HandleReboot ==
  /\ Handling /\ connected
  /\ "reboot" \in Faults
  /\ Reset
  /\ UNCHANGED <<EspOtaVars, nvs, fwState, server, rolledBack>>

-----------------------------------------------------------------------------
(* The ThingsBoard server and the network (external). *)

\* Without "reassign" the assignment only changes while the device is down.
AssignPackage ==
  /\ assigns < MaxAssigns
  /\ Cardinality(msgs) < MaxInFlight
  /\ "reassign" \in Faults \/ pc = "off"
  /\ \E p \in Package \ {assigned} :
       /\ assigned' = p
       /\ msgs' = IF connected THEN msgs \cup {AttributesMsg(p)} ELSE msgs
  /\ assigns' = assigns + 1
  /\ rolledBack' = {}
  /\ UNCHANGED <<EspOtaVars, nvs, pc, session, fwState, reqs>>

\* Chunks are cut from the package that is assigned when the request arrives.
ServerAnswers ==
  /\ connected
  /\ Cardinality(msgs) < MaxInFlight
  /\ \E r \in reqs :
       /\ reqs' \in Taken(reqs, r)
       /\ msgs' = msgs \cup
            IF assigned = NoPackage THEN {}
            ELSE IF r.type = "chunk" THEN {ChunkMsg(assigned, r.index)}
            ELSE {AttributesMsg(assigned)}
  /\ UNCHANGED <<EspOtaVars, nvs, pc, session, fwState, server, rolledBack>>

LoseMessage ==
  /\ "lose" \in Faults
  /\ \E m \in msgs : msgs' = msgs \ {m}
  /\ UNCHANGED <<EspOtaVars, nvs, pc, session, fwState, server, reqs, rolledBack>>

Device ==
  \/ Boot \/ ReconcilePending \/ ErasePending \/ WifiUp \/ ConfirmImage
  \/ ObtainToken \/ MqttConnected \/ HandleAttributes \/ RecordPending
  \/ HandleChunk \/ EndUpdate \/ ActivateUpdate \/ RestartIntoUpdate
  \/ HandleReboot

Next ==
  \/ Device
  \/ Crash \/ MqttDisconnected
  \/ AssignPackage \/ ServerAnswers \/ LoseMessage

Spec == Init /\ [][Next]_vars

\* The FreeRTOS scheduler runs app_main and the MQTT task, esp-mqtt reconnects
\* by itself, and the server answers what reaches it.  Nothing is assumed of
\* the operator, of crashes or of losses.
Fairness ==
  /\ WF_vars(Boot \/ ReconcilePending \/ ErasePending \/ WifiUp \/ ConfirmImage
             \/ ObtainToken)
  /\ WF_vars(RecordPending \/ EndUpdate \/ ActivateUpdate \/ RestartIntoUpdate)
  /\ WF_vars(MqttConnected)
  /\ WF_vars(HandleAttributes)
  /\ WF_vars(HandleChunk)
  /\ WF_vars(ServerAnswers)

FairSpec == Spec /\ Fairness

-----------------------------------------------------------------------------
(* Properties. *)

\* At every instant, in the middle of a download, between two flash writes or
\* during a trial, a reset finds a complete image to start, and so does the
\* reset after it if that image is on trial (app_main.c:653-659: "the
\* bootloader reverts to the last known-good image on the next reset").
AlwaysBootable == Bootable

\* The restart that follows the UPDATED report starts the very package the
\* report names, whatever chunks and attributes arrived during the download
\* (finish_fw_update checks the digest against the globals of that moment).
UpdatedIsTrue == phase = "bootset" => flash[NextBoot(otadata)] = fw

\* If the bootloader rolled back the version that is still assigned, that
\* version is on record in NVS, as pending or as failed, so that
\* start_fw_update can refuse it (app_main.c:158-160: "if this crashes/rolls
\* back, the next boot can recognize the failure and refuse to retry").
RollbackRemembered ==
  assigned # NoPackage /\ Version[assigned] \in rolledBack
    => Version[assigned] \in {pendingFw, failedFw}

\* No update to a version that was rolled back is started unless the server
\* changed its assignment in between: the anti-loop protection of
\* app_main.c:490-496.
NoAutomaticRetry ==
  [][phase = "idle" /\ phase' = "starting" => Version[fw'] \notin rolledBack]_vars

\* The image that is about to have its trial is not the one on record as
\* failed: nothing that happens between the check in start_fw_update and
\* esp_ota_set_boot_partition lets a refused version through.
BlacklistHolds ==
  otadata.newer.state = "NEW" => Version[flash[otadata.newer.slot]] # failedFw

\* The two halves of the anti-loop protection (app_main.c:490-496): a version
\* that was rolled back and is still assigned is on record, and no image on
\* record as failed gets to its trial, whatever the server assigns meanwhile.
AntiLoopHolds == RollbackRemembered /\ BlacklistHolds

\* The attempt on record is one that is under way: reconcile_pending_ota
\* "reconciles whatever OTA attempt was in flight when we last rebooted"
\* (app_main.c:495-496), and calls it known-bad if another version runs.
PendingIsInFlight == pc = "run" /\ phase = "idle" => pendingFw = NoVersion

\* The device implements the abstract update mechanism (mapping: EspOta).
Activity ==
  IF pc = "off" THEN "off" ELSE IF OnTrial THEN "trial" ELSE "confirmed"

Trial == INSTANCE TrialUpdate WITH
  Image     <- Package,
  NoImage   <- NoPackage,
  confirmed <- ConfirmedImage,
  trial     <- TrialImage,
  started   <- TrialStarted,
  active    <- Activity

\* A staged image gets exactly one start and the confirmed image survives
\* everything else, through downloads, resets and failed flash operations.
ImplementsTrialUpdate == Trial!Spec

\* A download that was started ends, whatever the server assigns meanwhile, as
\* long as no message is lost: handle_fw_chunk_data asks for the next chunk
\* only when one arrives, and nothing else repeats a request.
DownloadEnds == phase = "downloading" ~> phase # "downloading"

\* Without crashes, losses and changes of mind, the package the server assigns
\* is installed and confirmed (the update cycle the client is there for).
InstallsAssigned ==
  \A p \in Package :
    assigned = p ~> pc = "run" /\ flash[running] = p /\ ~OnTrial

\* Once the device stays up, the server learns that the version it assigned
\* was rolled back: start_fw_update reports FAILED when it refuses.
FailureReported ==
  <>[](pc # "off") =>
    [](assigned # NoPackage /\ Version[assigned] \in rolledBack
         => <>(fwState = "FAILED"))

-----------------------------------------------------------------------------
(* The inductive invariant behind AlwaysBootable and UpdatedIsTrue. *)

\* An update is only in progress while app_main has handed over to MQTT, and
\* then the package it is for is known.
SessionInv ==
  phase # "idle" => pc = "run" /\ fw \in Package

\* The running slot is the active one (or, once the update is activated, the
\* one it will fall back on), and only a confirmed image runs the client.
RunningInv ==
  /\ pc # "off" /\ phase # "bootset" => RunsActive
  /\ pc \in {"provision", "run", "halted"} /\ phase # "bootset" => RunsConfirmed
  /\ phase = "bootset" => Activated

\* From the checksum on, the slot gets the package the globals describe.
ContentInv ==
  /\ phase = "verified" => written = ContentOf(fw)
  /\ phase \in {"ended", "bootset"} => flash[Target] = fw

IInv == TypeOK /\ SessionInv /\ RecordInv /\ RunningInv /\ ContentInv

-----------------------------------------------------------------------------
(* The inductive invariant behind AntiLoopHolds and NoAutomaticRetry, where *)
(* they hold: no reset falls between the erasure of pending_fw and the      *)
(* confirmation of the image, and the server changes its mind only while    *)
(* the device is down.                                                      *)

Undefeated ==
  /\ CrashPoints \cap {"connect", "confirm"} = {}
  /\ "reassign" \notin Faults

\* All a running client knows of is the package that is assigned.
AssignedInv ==
  /\ pc # "run" => ~connected /\ msgs = {} /\ fw = NoPackage
  /\ \A m \in msgs : m.pkg = assigned
  /\ fw \in {NoPackage, assigned}

\* An update in progress is to a version that is neither known-bad nor the one
\* that runs, and from RecordPending on it is on record.
AttemptInv ==
  /\ phase # "idle" => Version[fw] \notin {failedFw, CurrentVersion}
  /\ phase \notin {"idle", "starting"} => pendingFw = Version[fw]

\* The trial is on record until the moment before it is confirmed, and it is
\* of a version that was not rolled back; what is on record is never the
\* confirmed image.
TrialInv ==
  /\ pendingFw # Compiled[ConfirmedImage]
  /\ pc \in {"connect", "confirm"} => pendingFw = NoVersion
  /\ TrialImage # NoPackage =>
       /\ Version[TrialImage] \notin rolledBack
       /\ pc \notin {"connect", "confirm"} => pendingFw = Version[TrialImage]
       /\ ~TrialStarted => Version[TrialImage] # failedFw

\* The assigned version, once rolled back, is recorded as failed by the time
\* reconcile_pending_ota is through, and no other record takes its place.
RememberedInv ==
  assigned # NoPackage /\ Version[assigned] \in rolledBack =>
    /\ pendingFw \in {NoVersion, Version[assigned]}
    /\ \/ failedFw = Version[assigned]
       \/ pendingFw = Version[assigned] /\ pc \in {"off", "reconcile"}

AntiLoopInv == AssignedInv /\ AttemptInv /\ TrialInv /\ RememberedInv
=============================================================================
