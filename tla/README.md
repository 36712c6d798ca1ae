# Verification of the winegrid IoT clients

The repository collects the firmware and drivers of an IoT internship: clients
for ThingsBoard and Azure IoT Hub with over-the-air (OTA) update, a LwM2M
client, drivers for an ADC and a LoRa modem, and copies of upstream code kept
for reference. This directory holds TLA+ modules that model them, TLC
configurations that check the models, and proofs checked by TLAPS.

Paths such as `esp-idf-thingsboard/main/app_main.c` are relative to `src/`.

## 1. Inventory

### Firmware that is written here

**ThingsBoard client, ESP-IDF** (`esp-idf-thingsboard/main/app_main.c`).
*State:* in NVS the access token, `pending_fw` and `failed_fw`; in RAM the
firmware attributes (`s_fw_title/version/size/checksum/checksum_algorithm`),
the download (`s_fw_update_in_progress`, `s_fw_chunk_index`, `s_fw_received`,
`s_ota_handle`, `s_sha_ctx`), `s_mqtt_connected` and the publish interval; in
flash the two OTA slots, the factory slot and the boot records.
*Operations:* boot (`reconcile_pending_ota`, Wi-Fi, confirm the image, obtain
the token, start MQTT), shared attributes, chunk download and verification,
RPC (`getStatus`, `reboot`), telemetry task.
*Interaction:* `app_main` runs first; then the esp-mqtt task calls
`mqtt_event_handler`, and a telemetry task publishes on the same client. The
server pushes attributes, answers attribute and chunk requests, sends RPCs.
*Hard:* a reset between any two persistent steps; attributes that change under
a running download; chunks that are repeated, lost or of another package; the
memory of a failed update across several boots; the one answer that carries the
token, against a 15 s wait, a lost connection and a reset.
*Correct when:* a reset always finds a bootable image; the image that is
activated is the one that is reported; a staged image has one trial and is
confirmed or given up; a version that was rolled back is not retried by itself;
a download that was started ends; the assigned package gets installed; a token
that arrived is not lost.

**ESP-IDF bootloader and app_update** (not in the repository, configured by
`sdkconfig.defaults`: `CONFIG_BOOTLOADER_APP_ROLLBACK_ENABLE`). Boot records
with a trial state, `esp_ota_begin/write/end/set_boot_partition`,
`esp_ota_mark_app_valid_cancel_rollback`. Shared by three clients.

**Azure IoT Hub + DPS client, ESP-IDF** (`esp-idf-azure-dps/main/app_main.c`).
*State:* NVS `hub`, `device_id`, `pending_fw`, `failed_fw`; the DPS session
(`s_dps_done/success/poll_pending/operation_id`), the hub session, twin request
number, `s_c2d_force_telemetry`, `s_ota_in_progress`.
*Operations:* key derivation and SAS token, DPS registration with polling,
twin get/patch, direct methods, C2D messages, OTA over HTTPS in a task of its
own, reconciliation and confirmation as in the ThingsBoard client.
*Hard:* three tasks and two event handlers share flags without a lock; the
`reboot` method can hit `ota_task` anywhere; two NVS commits for one fact; SAS
tokens expire after an hour; a lost poll answer.
*Correct when:* no C2D request is forgotten; hub and device id belong together;
registration ends; activation only after a complete image; one OTA at a time.

**Native HTTP OTA, ESP-IDF** (`esp-idf-ota/main/native_ota_example.c`, the
ESP-IDF example as adapted). Download task, version check against the running
and the last invalid image, GPIO diagnostic that confirms or rolls back.
*Correct when:* the last invalid version is not written again; the image is
activated only when complete; the diagnostic decides the trial; the server is
asked again after every failure.

**ThingsBoard client, Zephyr** (`zephyr-thingsboard/src/thingsboard_mqtt.c`).
Provisioning at every start, one `poll` loop with telemetry, RPC handler; no
task of its own, no stored token, no reconnect.
*Correct when:* it connects with the token of this start; every request of a
connection is taken; telemetry never stops.

**LwM2M client, Zephyr** (`lwm2m/src`). Object 5 (firmware): block transfer into
the second slot, state and result, update, cancel; `lwm2m-client.c` follows the
registration client's events; timer, LED and temperature objects.
*Correct when:* an update is only executed on a complete image; a repeated or
restarted transfer starts at the beginning of the slot; the client registers
again after a loss of the network.

**RN2483 LoRa driver, Zephyr** (`zephyr-rn2483-poc`). Commands over a UART, one
line per response, timeouts; `send` waits for two responses.
*Correct when:* a response is attributed to the command that caused it.

**MCP3221 drivers** (`zephyr-mcp3221-poc`, `esp-idf-mcp3221-poc`). A 12-bit ADC
read over I2C and converted to a voltage, in microvolts on Zephyr and millivolts
on ESP-IDF, with `uint32_t` arithmetic.
*Correct when:* the printed voltage is the one of the conversion, rounded down,
and both drivers agree.

**Host scripts.** `ota_update.py` drives mcumgr over a serial line: connect,
upload, read the hash of the second slot, try to mark it for a test (which an
MCUboot built for upgrade only refuses), mark it confirmed, reset, wait, echo.
`lwm2m_ota_push.py` pushes an image through Object 5. The `*_test.sh` call the
build tools.
*Correct when:* a run ends, marks only the image it uploaded, and reports
complete only what was installed.

### Code of others kept in the repository

`zephyr-drivers-referencia` (upstream drivers, `ORIGEM.md` says where from). Two
of them are concurrent programs and are modelled: `sx12xx_common.c`, where the
callers of the LoRa API and the handlers of the radio's events contend for one
modem word, and `rylrxxx.c`, where command scripts of a chat library, two
semaphores and a message queue serve blocking and asynchronous calls.
`smp_svr` (Zephyr sample, the mcumgr server), `mongoose-os-demo-c` (upstream
demo), `esp-idf-ota/pytest_native_ota.py`.

The components with their status are in `PROJECT.json`, with one list of
hazards: what is hard to test in this code, at the line where it bites.

## 2. Modules

| module | what it is |
|---|---|
| `EspOta`, `EspOtaProofs` | bootloader and app_update as the ESP-IDF clients see them (external code), and what every client's proofs need of them |
| `TrialUpdate` | abstract specification: one confirmed image, one trial, one start per trial |
| `ThingsBoardOta`, `MCThingsBoardOta` | the ThingsBoard client's boot and firmware update, with server and network; TLC instances |
| `MCThingsBoardUpdate` | its update cycle in four scenarios |
| `ThingsBoardOtaProofs` | its inductive invariants, safety, refinement of `TrialUpdate` and the anti-loop |
| `TbProvisioning` | how the board gets and keeps its access token |
| `TbSession` | the client in operation: telemetry, interval, will, RPC |
| `TbClient` | the two composed, from reset to reset |
| `AzureOta`, `MCAzureOta` | the Azure client's boot and update: two tasks on `EspOta`, implements `TrialUpdate`; TLC instances |
| `AzureOtaProofs` | its inductive invariants, safety, refinement, the anti-loop and the bad mark |
| `AzureDps` | registration with the provisioning service, and the two NVS keys |
| `AzureHub` | telemetry task beside the hub's events: C2D flag, twin, methods |
| `UrlEncode` | the encoder of the SAS tokens |
| `MCAzure`, `MCAzureProofs` | the parts of the Azure client in one TLC instance, and proofs about registration, hub and encoder |
| `NativeOta`, `MCNativeOta`, `NativeOtaProofs` | the native OTA example on `EspOta`, implements `TrialUpdate`; TLC instances; proofs |
| `ZephyrThingsBoard` | the Zephyr client: network, provisioning, poll loop |
| `Lwm2mFirmware` | Object 5 by push, MCUboot for upgrade only |
| `Lwm2mClient` | network and registration events, light, timer, temperature |
| `OtaUpdate` | `ota_update.py` against a device under MCUboot |
| `Rn2483` | the LoRa driver, its application, the module and the line between them |
| `Sx12xx`, `Sx12xxProofs` | ownership of the modem in the SX12xx driver, and its proofs |
| `Rylr` | the RYLRxxx driver, the chat library and the radio |
| `MCSerialLora`, `MCSerialLoraProofs` | `Rn2483` and `Rylr` in one TLC instance, and proofs about both |
| `Mcp3221`, `MCMcp3221` | both MCP3221 drivers and their main loops, and an instance for TLC |
| `MCClients`, `MCClientsProofs` | `NativeOta`, `TbClient`, `ZephyrThingsBoard`, `Lwm2mClient`, `Lwm2mFirmware`, `OtaUpdate` and `Mcp3221` in one TLC instance, and proofs about them |

The clients that update over ESP-IDF share `EspOta` by EXTENDS, so the same
bootloader judges what each of them does to the flash, and each maps to the same
`TrialUpdate`. The parts of one program that share no state the properties need
are modules of their own: `AzureDps`, `AzureHub` and `AzureOta` meet only in the
reboot and in the connection, which each of them models.

Definitions marked `Mutant:` are wrong variants of the definition next to them.
`PROJECT.json` names one for every checked property, which must break it; a
property that has several parts has a mutant for each of them. They are not part
of any specification. `PROJECT.json` also gives the
source lines of every definition.

### EspOta and TrialUpdate

`flash` gives the complete image in each slot (`NoPackage` when it is erased or
half written), `otadata` the two boot records with their states (`NEW`,
`PENDING_VERIFY`, `VALID`, `INVALID`, `ABORTED`, `EMPTY`), `running` the slot that
runs. `Bootloader` is one reset: a `NEW` record becomes `PENDING_VERIFY` and is
started, a record that still is `PENDING_VERIFY` becomes `ABORTED` and the other
slot, or the factory image, is started. `Bootable` says that this reset and the
one that follows it find a complete image.

`TrialUpdate` knows a confirmed image and at most one staged image, which is
started once and is then confirmed, rejected by itself, or rolled back.

### ThingsBoardOta

| module | `app_main.c` |
|---|---|
| `pendingFw`, `failedFw`, `token` | the NVS keys (44-46, 437-488) |
| `pc` | how far `app_main` (630-683) got: `reconcile`, `erase`, `connect`, `confirm`, `provision`, `run`; `halted` when it returned without a token |
| `fw` | the package the `s_fw_*` globals describe |
| `phase` | `idle`, `starting` (between `esp_ota_begin` and the NVS commit of `pending_fw`), `downloading`, `verified`, `ended`, `bootset` (inside `finish_fw_update`) |
| `chunkIndex`, `received`, `written` | `s_fw_chunk_index`, `s_fw_received`, the chunks behind `s_ota_handle` and `s_sha_ctx` |
| `fwState` | the `fw_state` telemetry sent last |
| `assigned`, `reqs`, `msgs` | server and network |
| `rolledBack` | history, for the properties only |

| action | code |
|---|---|
| `Boot` | reset, bootloader (external) |
| `ReconcilePending`, `ErasePending` | `reconcile_pending_ota` (497-511), split at its NVS commits |
| `WifiUp`, `ConfirmImage`, `ObtainToken` | `example_connect`, `esp_ota_mark_app_valid_cancel_rollback`, token or provisioning |
| `MqttConnected`, `MqttDisconnected` | the two events of `mqtt_event_handler` |
| `HandleAttributes` with `StartUpdate` | `handle_attributes_payload`, `apply_shared_attribute`, `start_fw_update` up to `esp_ota_begin` |
| `RecordPending` | the rest of `start_fw_update` |
| `HandleChunk` with `WriteChunk`, `VerifyUpdate`, `WriteError` | `handle_fw_chunk_data`, `finish_fw_update` up to the checksum |
| `EndUpdate`, `ActivateUpdate`, `RestartIntoUpdate` | `esp_ota_end`, `esp_ota_set_boot_partition`, `esp_restart` |
| `HandleReboot` | RPC `reboot` |
| `Crash` | power loss, panic, failed `ESP_ERROR_CHECK`, in any state of `CrashPoints` |
| `AssignPackage`, `ServerAnswers`, `LoseMessage` | server and network (external) |

A handler is split exactly where it makes something persistent, so that a reset
can fall between; `Handling` keeps the MQTT task from taking another event in
the middle, because esp-mqtt runs all handlers in one task. What the handler
does is otherwise one action. The two things the code does not look at are not
looked at in the model: the request and chunk numbers in the topic, and the
package a chunk comes from.

Abstractions: a digest is the sequence of chunks it was taken over (two
different sequences never collide); one attributes message carries the five
`fw_*` values of one package, as the server sends them; wording of telemetry,
the RPC `getStatus` and the publish interval are left out, except that an
attributes message without firmware values still triggers the decision to
start.

### TbProvisioning, TbSession and TbClient

`app_main` and the MQTT task of the provisioning client are separate steps of
`Main` and `ProvConnected`/`ProvData`, so an answer can come before, at and after
the end of the 15 s wait (`StopWaiting`), and `JudgeAnswer` looks at the token when
the client is stopped. A reset (`Reset`) can fall between any two steps; what is
in NVS survives. The server creates a device once.
`TbSession` counts time in turns of `telemetry_task`; `SetInterval` and the
connection events come between any two of them; `LastWill` comes any time after a
connection broke. The client keeps its client id, and MQTT has a broker end the
older session, will and all, before it accepts the next of the same id; this is
assumed of the broker (external), so a will does not follow the reconnection. `TbClient` starts `TbSession` when
`TbProvisioning` has a token and stored it (`app_main.c:674-682`) and resets both
at once: the connection and the RAM of either are gone, the token in NVS and
what the server and the broker know stay. Whether a board that ever was seen as
active finds its way back is a question about both.

### AzureOta, AzureDps, AzureHub, UrlEncode

`AzureOta` has `app_main`'s progress in `pc` as above and beside it the task
`ota_task` (`OpenDownload`, `RecordPending`, `Download` or `AbandonUpdate`,
`EndUpdate`, `ActivateUpdate`, `RestartIntoUpdate`, one action per persistent effect
or report), while the MQTT task goes on with `HandleTwin`, `HandleReboot`,
`HubConnected` and `HubDisconnected` at any time. The operator changes one or both
desired properties (`ChangeDesired`), and a patch carries only what changed.
`AzureDps` is the waiting loop of `run_dps_registration` (`Tick`, `StartPoll`,
`SendPoll`, `LeaveLoop`, `Close`), the two commits (`SaveHub`, `SaveDeviceId`) and the
handler of the DPS client's events, with a service that assigns another hub in
another registration. `AzureHub` splits `telemetry_task` at each access to a
variable the MQTT task writes (`ReadFlag`, `ClearFlag`, `PublishTelemetry`, `Delay`);
the counter is a signed integer of the width `MaxInt` and wraps.
`UrlEncode` is the loop of `url_encode`, one character per step; a character is its
width in the output.

### NativeOta

`Boot`, `Diagnose`, `Connect`, then `CheckServer` (the first read, the version
decision and `esp_ota_begin`), `Download`, `EndUpdate`, `ActivateUpdate`, `Restart`; a
failure ends in `Restart` too. `ReadAgain` is the read of zero bytes the loop
repeats.

### ZephyrThingsBoard

One thread: `NetworkUp`, `Resolve`, `ProvConnect`, `ProvInput`, `ProvEnds`, `Connect`,
then turns of `Input` (one `mqtt_input` with the handlers it calls) and `Telemetry`.
A payload is of a shape - whole, longer than `payload_buf`, or behind its header -
and the library reads on only when the last one is read to its end.

### Lwm2mFirmware, Lwm2mClient

`Lwm2mFirmware` has the callbacks (`WriteBlock`, `WriteError`, `Cancel`, `Update`,
`UpdateError`), the state the engine keeps for Object 5, and slot 1 block by block;
`WriteBlock` appends where the last block ended whatever offset it is told, as the
code does. `Lwm2mClient` has `main` in three steps and the event handlers that
pause and resume the engine; the work queue samples the temperature, if the object
instance could be created.

### OtaUpdate

One action per request of the script, the retry loop with its deadline, and a
device that can lose power, restarts when asked, or dies of its image. A request
whose answer is lost has been done or not (`Done`), an upload chunk by chunk.

### Rn2483

`Write` and `ReadLine`/`ReadTimeout` are the driver's only access to the line; the
commands wait in `AwaitVersion`, `AwaitSetting`, `AwaitAck`, `AwaitTx`. The module
answers in order, perhaps late (`slow`), in two reads (`split`), with an error
(`refuse`) or never (`deaf`). Every line carries, as history, the transmission it is
about.

### Sx12xx

`usage` is the atomic word `modem_usage`. A thread is at `begin` (it has acquired
the modem), `start` (it has stored its signal and parameters), `wait`, `release` (its
wait is over), `cleanup` and `asleep` (inside `modem_release`), or `forever` (the wait
without limit of lines 213 and 271); the work queue has fetched an event or is in
its cleanup. `Acquire`, `Release` and `TakeOver` are the compare-and-swaps. Callers
are preemptible threads, so any of them stops between any two of these steps,
and the others and the work queue run; the work queue is cooperative and gives way
only where the radio library blocks on SPI: between finding an event and calling its
handler, and while a handler puts the radio to sleep. The radio gives a
transmission up (`tx_timeout`, 4000 ms at line 326) as well as it ends it, and any
thread may cancel a reception that is not its own. Nothing of this is switched
off in the run.

Four history variables tell what happened: `owner` who acquired the modem,
`sender` whose packet is on the air, `fate` what became of a transmission, and
`astray` that a release or an event took what was not its own - the step itself is
taken, and everything after it. The properties that such a step breaks in the code
say `~astray => ...`, the others hold in every state.

### Rylr

The two semaphores, the pending flags, the shared `handler_error` and the receive
queue are as in the driver; a call is its begin and its `Continue`. The chat library
runs one script and takes the next `+OK` or `+ERR` for its answer, so an answer that is
late (`slow`) is taken for the next command's. `rylr_recv` is `RecvMessage`, the get,
and `RecvCopies`, the look at `handler_error` and the copy, with `on_rx` between them.

`msgq_buffer` has as many bytes (`rylrxxx.c:106`) as `k_msgq_init` is told there are
messages of `sizeof(struct rylr_recv_msg)` (580-581), so from the first message on
the queue lies over what follows it in `struct rylr_data`, the backend's receive
buffer above all: received bytes overwrite messages (`BytesCome`; such a message is 0)
and a message that is queued overwrites bytes of an answer, which then never comes
(`Overwrites`). Bound: what lies beyond that buffer is not followed. The bytes of
messages are left out altogether: `msg.data` points into the line buffer, which by
the time of the copy has the last line (510).

### Mcp3221

Each loop is a few actions: `SampleFetch` or `FetchFails`, then `ChannelGet`
(Zephyr); `ReadVoltage` or `ReadFails` (ESP-IDF). The arithmetic keeps its width:
`MicrovoltsOf` is the product modulo 2^32 divided by 4096, that is the quotient
modulo 2^20.

## 3. What the runs check

### Bounds

*ThingsBoard.* Packages `p0` (factory image, version 1.7), `p1` (1.8) and `p2` (1.9)
with chunks of 2 bytes; `p0` and `p1` have 3 bytes (a full and a short chunk), `p2`
has 4 (two full ones), so that a size check, a short last chunk and a chunk of
the wrong package all occur. Two assignments (`MaxAssigns`) suffice to change
the package under a download, to return to the factory version, and to assign
what was rolled back once more; two messages to the device in flight
(`MaxInFlight`) suffice for a chunk to pass an attributes message or to arrive
twice. Boots and crashes are not counted.

*Azure.* The same three images; up to three changes of the desired properties
(`MaxChanges`) set, replace and set again a version; two twin messages on their
way (`MaxQueue`) let a stale one pass. *DPS:* two hubs and two ids, so that halves
of two assignments could be mixed; three ticks for the sixty (`MaxTicks`).
*Hub:* intervals 0 to 3 about a floor of 1, and an integer that ends at 4.
*url_encode:* up to five characters, buffers of 1 to 14 bytes.

*Native OTA.* Three images, four changes of the offer (away, back and away).
*Provisioning:* two or three requests, up to three resets. *Zephyr client:* two
resets and two messages. *RN2483:* three sends, enough for the second's answer
to be taken by the third. *Firmware object:* two images of three blocks, three
faults. *ota_update.py:* a good image, one MCUboot refuses and one that dies, two
chunks, two faults. *SX12xx:* two threads, each in any call any number of times: one
whose wait is over, its event, and one that takes the modem in between; nothing
else is bounded. *RYLR:* two
threads, three packets, a queue of two.

Every bound is a CONSTANT of its module and stands in the guard of the action it
bounds. `CHECK_DEADLOCK FALSE` stands where the system does stop: a board that
halted, a `main` that returned, a script that ended, a bound that is used up with
nothing left to do.

### Programs and scenarios in one run

`MCThingsBoardUpdate`, `MCAzure`, `MCSerialLora` and `MCClients` put several models
side by side. A variable that never changes (`scenario`, `part`, `driver`, `program`)
says which of them a behaviour is of; the others stand still in their initial
state, so the state space is the sum, not the product. Where one module is
checked under different faults, each scenario is an INSTANCE of it with its own
`Faults` and `CrashPoints`; in `MCAzure` and `MCSerialLora` the scenario with all faults is
the module itself with those of the cfg, and the instances restrict them. Invariants hold in every behaviour; a liveness property
is stated for the scenario whose faults it allows for, and the fairness of a
module is required in its own behaviours only
(`WF_vars(part = "register" /\ Register!Main)`). Since some of the programs end, and
TLC sees a halted one as a deadlock, `azure`, `lora` and `clients` do not check
deadlock; neither does `sx12xx`, where every sender may wait for ever behind a
transmission the radio gave up. `tb_safety` and `tb_update`, which never stop, do.

A property of such a run is a conjunction of what the modules promise, by
subject; the parts keep their names in the modules.

### Runs that pass

| run | models and faults | properties |
|---|---|---|
| `tb_safety` | `ThingsBoardOta`: all faults, crash anywhere | `TypeOK`, `AlwaysBootable`, `UpdatedIsTrue`, `ImplementsTrialUpdate` |
| `tb_update` | `"resets"`: all faults but reassignment while up; no crash at `connect`, `confirm` | `AntiLoopHolds`, `NoAutomaticRetry` |
| | `"ends"`: reassignment at any time; `"install"`: none; `"report"`: reboot RPC, crash outside `connect`, `confirm` | `AssignmentSettled` |
| `azure` | `"safety"`: all faults of `AzureOta`, crash anywhere | `AlwaysBootable`, `ImplementsTrialUpdate` (in all of its scenarios) |
| | `"antiloop"`: all; no crash at `connect`, `confirm`; `"badmark"`: all but the reboot method, crashes during the boot only | `KeysHold` |
| | `"install"`: none; `"report"`: crash at `reconcile`, `erase` | `PartsGoOn` |
| | `"register"`: `AzureDps` with crash, lost session, bad key or clock, refusal, garbage | `CredentialsHold`, `PartsGoOn` |
| | `"operate"`: `AzureHub` with lost connections, resets | `HubServed`, `PartsGoOn` |
| | `"encode"`: `UrlEncode` | `InsideBuffer`, `WholeIfRoom` |
| | all | `PartsTypeOK` |
| `lora` | `"rylr"`: answers in time; `"ry_late"`: late answers, scripts that do not start | `SharedHolds`, `AnswersAreOwn`, `OperationsEnd` (in time only) |
| | `"rn2483"`: refuse, deaf; `"rn_late"`: slow, split too | `RnAnswersAreOwn`, `OperationsEnd` |
| | all | `DriversTypeOK` |
| `sx12xx` | two threads, every interleaving | `TypeOK`, `ReleasedOnce`, `SignalValid`, `Exclusive`, `ParamsValid`, `SentIsTrue`, `CallsReturn` |
| `clients` | `"native"`: `NativeOta` with http, flash, stall, diagnostic, crash anywhere; `"retry"`: all but stall, no crash; `"install"`: none | `ImplementsTrialUpdate`, `NoAutomaticRetry`, `ImagesHold`, `ProgramsGoOn`, `UpdatesArrive` |
| | `"client"`: `TbClient` with late, lost and repeated answers, lost connections, resets | `TokensHold`, `SessionHolds` |
| | `"zephyr"`: all faults of `ZephyrThingsBoard` | `TokensHold`, `ProgramsGoOn` |
| | `"lwm2m"`: setup, link, server, gpio, sensor | `ToldIsTrue`, `ProgramsGoOn` |
| | `"firmware"`: three of: reset, cancel, broken transfer, refused write | `ImagesHold`, `UpdatesArrive` |
| | `"script"`: `OtaUpdate` with two of: lost request, power cut; `"calm"`: none | `ToldIsTrue`, `ConfirmsOwn`, `ProgramsGoOn`, `UpdatesArrive` |
| | `"reading"`: `Mcp3221`, conversions up to 1301 at 3300 mV | `MicrovoltsExact`, `MillivoltsExact`, `ToldIsTrue` |
| | all | `ProgramsTypeOK` |

What they say, where the name does not:

* `AlwaysBootable` (three clients): in every state, also between two flash
  writes, the next reset and the one after it find a complete image.
  `ImplementsTrialUpdate` (three clients): seen through the refinement mapping the
  device is a `TrialUpdate`, so nothing it does in between can take the confirmed
  image away or give a trial a second start.
* `UpdatedIsTrue`: the restart after the report `UPDATED` starts the package the
  report names, although attributes may change during the download and chunks
  arrive in any order.
* `NoAutomaticRetry`: no update to a version that was rolled back starts until the
  server changes its assignment (`app_main.c:490-496`). For the ThingsBoard client
  `RollbackRemembered` is the reason (the version is on record in NVS) and
  `BlacklistHolds` its other half. They hold under conditions the code does not
  establish; the violation runs drop one condition each. The native example,
  which asks the boot records, needs none.
* `AntiLoopHolds` is `RollbackRemembered` and `BlacklistHolds`. `KeysHold` is the
  counterpart in the Azure client, with the other half: a version that never ran
  is not called known-bad.
* `AssignmentSettled`, `PartsGoOn`, `UpdatesArrive`: an update on offer is
  installed and confirmed, and a version that was rolled back is reported.
  `DownloadEnds`, a part of the first, holds because no message is lost: the
  client asks for chunk n + 1 only when chunk n arrives and has no timer.
* `TokensHold`: `AnswerUsed`, however close to the 15 s the token arrives, it is
  not thrown away; `OnlineWithToken`, `ConnectsWithToken`; and `SeenIsStored`, whatever
  was seen as active can come back after a reset. `SessionHolds` says that it does
  (`StoredComesBack`), at its pace (`Paced`), and that the dashboard is not left with
  the last will of an older connection (`ActiveIsTrue`).
* `HubServed`: `ReportedIntervalHolds`, and `C2dNotForgotten`: until the
  publication a C2D message asked for is made, the flag is set or the task
  stands just before it. The flag is cleared after it was read, by a plain
  store, so the property depends on the order of three steps in two tasks.
* `CredentialsHold`: hub and device id are of one answer (`ConnectsAsAssigned`), an
  assignment that was taken in is used (`AssignmentKept`). `WholeIfRoom`: names are
  encoded whole if there is room.
* `ImagesHold`: besides `AlwaysBootable`, `UpgradeIsWhole`: MCUboot is asked
  only for an image that is in the slot from its first block to its last, after
  any mixture of failures. `DownloadedIsStarted`: a download the object calls
  complete is not refused as missing.
* `ToldIsTrue`: `LightIsTrue`, `DriversAgree`, and `CompleteUnlessRejected`:
  when the script prints that it is done, the image runs, unless MCUboot refused
  it.
* `ReleasedOnce`: of all that may release the modem at once, one does
  (`sx12xx_common.c:78-79`). `SignalValid`: the signal a handler is about to raise lies on
  the stack of a caller that still is in its call. Both hold whatever happens: a
  handler takes the modem before it raises, and a caller that cannot take it stays.
* `Exclusive`, `ParamsValid`, `SentIsTrue` hold until a release or an event takes what
  is not its own: one party drives the radio and a free modem is asleep; a packet is
  copied for a caller still in `lora_recv`; a success is of one's own packet. What
  breaks them is in section 4.
* `AnswersAreOwn`: while no answer was late, a configuration that succeeded was
  applied in full (`ChangesApplied`) and a transmission reported good was accepted by
  the radio (`SignalsAnswered`), although received packets write the same
  `handler_error`. `RnAnswersAreOwn`: the same for the RN2483 driver
  (`ConfiguredIsTrue`, `SentIsOwn`). `SharedHolds`: `OneOperation` has the semaphore, and
  the packets that were not overwritten are `DeliveredInOrder`, each once.
* `OperationsEnd`, `PartsGoOn`, `ProgramsGoOn`: nothing is stuck. `CallsReturn`: a call
  returns, unless the radio gave its transmission up or something went astray.

### Runs that find a violation

Each checks one property that a comment, a message or a document of the
repository states; section 4 quotes it. `tb_window`, `tb_reassign`, `tb_failed`
(`MCThingsBoardOta`), `rn_late` (`Rn2483`), `mcp_supply` (`MCMcp3221`), `sx_late` (`Sx12xx`).
Each enables only the fault it is about, so its trace is short; `sx_late` needs none.

### Fairness

Every `FairSpec` assumes no more than the scheduler and the environment a
property is about; operators, crashes, losses and resets are never fair.

| module | weak fairness of | why |
|---|---|---|
| `ThingsBoardOta` | boot steps, steps inside `start_fw_update` and `finish_fw_update`, `MqttConnected`, the handlers, `ServerAnswers` | straight-line code under FreeRTOS; esp-mqtt reconnects; the server answers |
| `AzureOta` | `Main`, `OtaTask`, `HubConnected`, `HandleTwin`, `ServeTwin` | the same |
| `AzureDps` | `Main` | the loop is woken by its delay |
| `AzureHub` | `Telemetry` | the task is woken by its delay |
| `NativeOta` | `Device` | one task |
| `TbProvisioning`, `TbSession`, `TbClient` | `Main`, the handler, `ServerAnswers`; `LastWill` | the wait has a timeout; the broker's keepalive |
| `ZephyrThingsBoard` | `Main`, `TelemetryDue` | one thread; time passes |
| `Lwm2mFirmware` | `Push`, blocks, `Restart`; strong: `Update` | a server that tries again |
| `Lwm2mClient` | `Main`, `SampleTemperature`, `TemperatureDue`; strong: `Registered` | the client keeps asking, and is heard in the end |
| `OtaUpdate` | `Script`, `Board` | two machines that run |
| `Rn2483` | `Driver`, `Module`, `Deliver` | polls with a deadline |
| `Sx12xx` | `WorkQueue`, each thread's begun call | the queue blocks on SPI, which lets the threads run; waits expire; the radio ends a transmission or gives it up |
| `Rylr` | the end of a script, each thread's `Continue` | scripts have a timeout; threads run |

Strong fairness is used where a step is enabled again and again but can be
disabled in between by the environment; what it assumes is that the environment
does not interrupt it every single time.

## 4. Findings

### Shown by a run

`PROJECT.json` gives each with the line it quotes. In short:

1. `tb_window` (`NoAutomaticRetry`). `reconcile_pending_ota` erases `pending_fw`
   (`esp-idf-thingsboard/main/app_main.c:510`, called at 645) before the image is
   confirmed (665). If the trial boot crashes in between - the failing
   `ESP_ERROR_CHECK(example_connect())` at 651 is enough - the bootloader rolls
   back and nothing remembers the version; it is downloaded again, which the
   comments at 158-160 and 490-496 say is prevented.
2. `tb_reassign` (`NoAutomaticRetry`). `apply_shared_attribute` (267-277) overwrites
   the firmware globals while a download runs. A package assigned before the
   first chunk arrives is downloaded and verified against the new values, but
   `pending_fw` (161) still names the old one. When it fails its trial, the wrong
   version is blacklisted and the one that failed is downloaded again.
3. `tb_failed` (`PendingIsInFlight`). A download that fails leaves `pending_fw` on
   record; the next boot takes the version for one that was rolled back, and
   refuses it.
4. `rn_late` (`SentIsOwn`). After an answer that came late the RN2483 driver is one
   line behind, and reports an earlier transmission's success.
5. `mcp_supply` (`MicrovoltsExact`). `raw * vref_mv * 1000U` (`mcp3221.c:81` of the
   Zephyr driver) is a 32-bit product; at 3300 mV it wraps from `raw` = 1302 on
   (1.05 V).
6. `sx_late` (`ReaderStays`). The radio library has found a packet and reads it over
   SPI when `lora_recv` times out, releases the modem (`sx12xx_common.c:266`) and
   returns, and another call acquires it. `sx12xx_ev_rx_done` then passes its
   compare-and-swap (119) on the other call's modem and copies the packet through
   the pointers of the one that returned, one of them to its stack. The comment at
   122-130 concludes from that compare-and-swap that they are valid.

### Further disagreements, stated in the modules

These properties are stated beside the others and are violated as soon as TLC
checks them under the faults named, or without the condition named; they have no
configuration of their own.

| module | property | faults or constants | what happens |
|---|---|---|---|
| `AzureOta` | `NoAutomaticRetry` | crash at `connect` | as `tb_window`; the comment at `app_main.c:853-860` knows of it |
| `AzureOta` | `OnlyRolledBackIsBad` | `"reboot"`, or a crash while `ota_task` works | a version is marked known-bad whose image never started (817-821, 833) |
| `AzureOta` | `VerifiedIsTrue` | `"http"` | `VERIFIED` is reported of any body that was received in full (626) |
| `AzureOta` | `DesiredIsAttempted` | `Offers <- MCSameUrl` | a patch that sets only `fw_version` starts nothing until the next connection, although 658-659 tell the operator to do just that |
| `NativeOta` | `ChecksForever` | `"stall"` | a connection that yields zero bytes without `ECONNRESET` or `ENOTCONN` keeps the task in its read loop (`native_ota_example.c:220-232`) |
| `ZephyrThingsBoard` | `RequestsTaken` | `"long"` or `"late"` | a payload longer than `payload_buf` is not read to its end, and no later message is taken (`thingsboard_mqtt.c:376`) |
| `ZephyrThingsBoard` | `AsksOnce` | none (the reboot RPC) | the token is not stored, so every start asks for it again |
| `ZephyrThingsBoard` | `NeverReturns` | `"slow"` | `thingsboard_run` returns when a connection or the provisioning fails, which `main.c:113` says should never happen |
| `OtaUpdate` | `CompleteIsNew` | `Rejected` not empty | `ota_update.py` greets the new image when the old one answers (125-128) |
| `Sx12xx` | `CallsReturn` without `givenup` | none | the radio gives the transmission up, its handler releases the modem and signals nobody (167-171), and the caller waits for the signal without a limit (213) |
| `Sx12xx` | `Exclusive` without `~astray` | none | a caller whose wait is over is preempted, the handler releases its modem, another call acquires it, and the first releases it (211, 266): two parties drive the radio, and it may be started while `modem_usage` is free |
| `Sx12xx` | `SentIsTrue` without `~astray` | none | the event of a transmission that had ended signals the next sender (157-162) |
| `Sx12xx` | `Exclusive` without `~astray` | none | `lora_recv_async(NULL)` puts whatever goes on to sleep (287), a transmission too |

Three more things are in the models and are said here rather than by a property.
A cancellation of an asynchronous reception of the RYLR driver meets the semaphore
that this reception holds (`rylrxxx.c:523`) and returns an error. A RYLR transmission
whose script times out is signalled with the `handler_error` of the command before
(190), which may be 0; `AnswersAreOwn` leaves it out with its `late`. A token
that ThingsBoard issues is only in RAM between the answer
(`esp-idf-thingsboard/main/app_main.c:551`) and `save_token` (677); a reset in between loses it.

## 5. Proofs

Eight modules hold theorems. They are for every value of the constants that
satisfies the modules' assumptions: any packages, versions, threads, queues,
crash points and faults. Where a theorem needs more it says so by name, and the
violation runs or section 4 show what happens otherwise. Each safety property
follows from an inductive invariant that stands at the end of the component's
module, so that TLC can check it too; the proof modules have one lemma per action,
or per group of actions that disturb the same part of the invariant, and one that
puts them together.

### EspOtaProofs

What every client needs of the boot records, as facts about one call:
`ResetRecords`, `BootRecords`, `SetBootRecords`, `MarkRecords`, `SpareWrite` say what the
bootloader and `esp_ota_*` do to `RecordInv`, `ConfirmedImage` and `TrialImage`, and
`RecordsBootable` that `RecordInv` makes a reset safe. `RecordInv`: the older record
never is a trial, the two are of different slots, and each slot the bootloader
may still choose holds a complete image. `Bootable` itself is not inductive: it
speaks of two resets, and the second depends on what the first aborts.

### ThingsBoardOtaProofs

`IInv` adds to `TypeOK` and `RecordInv`

* `SessionInv`: an update is only in progress while MQTT runs, and its package is
  known. Without it the globals could be empty when an update ends.
* `RunningInv`: the running slot is the active one, and only a confirmed image
  runs the client. Hence `esp_ota_begin`, which erases the next update slot,
  never erases a slot `RecordInv` needs.
* `ContentInv`: from the checksum on the written chunks, and later the slot, are
  those of the package in the globals. It needs that two packages with the same
  content are the same (`ContentInjective`).

From it follow `TypeCorrect`, `AlwaysBootableThm`, `UpdatedIsTrueThm` and
`ImplementsTrialUpdateThm` (`Spec => Trial!Spec`): a reset is `Stop`, `Boot` is
`StartConfirmed`, `StartTrial` or `RollBack`, `ConfirmImage` is `Confirm` or a stutter,
`ActivateUpdate` is `Stage`, and writing the update slot is a stutter because that
slot is neither confirmed nor on trial.

`AntiLoopThm` and `NoAutomaticRetryThm` have two hypotheses: no reset at `connect`
or `confirm`, and no reassignment while the device is up; `tb_window` and
`tb_reassign` drop one each. Their invariant `AntiLoopInv` follows a version on its way:
what is being tried is the assigned package (`AssignedInv`), is on record as pending and is
not blacklisted (`AttemptInv`), stays on record until the moment of the
confirmation (`TrialInv`), and after a rollback is on record as pending or as failed
as long as it is assigned (`RememberedInv`).

### NativeOtaProofs

`TypeCorrect`, `AlwaysBootableThm`, `ImplementsTrialUpdateThm` as above, and
`NoAutomaticRetryThm` under every fault and any crash point: the example asks the
boot records instead of a key of its own, so `RetryInv` only has to say that while
a version that was rolled back is on offer, the newer record still is the
invalidated one and names a slot with that version's description.

### AzureOtaProofs

The same four theorems about a program of two tasks. `SessionInv` says that the flag
`s_ota_in_progress` admits one `ota_task` at a time and that none outlives the
application; `RunningInv` that until the restart what runs is confirmed, although
the `reboot` method may come at any step of the other task.

* `NoAutomaticRetryThm` assumes `WindowSpared` (no crash point is `connect` or
  `confirm`). `AntiLoopInv` has to follow the version through the twin: after a
  rollback every message still in the queue and the task at work are about the
  version that is desired (`MessageInv`).
* `OnlyRolledBackIsBadThm` assumes `TaskUndisturbed` (no `reboot` method and no
  crash while `ota_task` may work) and that each offer is `Labelled` with the
  version inside its image. `PendingInv` says what the pending key can
  be about at each place of `app_main` and `ota_task`.

### MCAzureProofs

About the other parts of the client and their composition, with all faults of `MCAzure`:

* `CredentialsHoldThm`, from `DpsInv`: what is saved, flagged or on its way was
  assigned, and a device id is saved only behind its own hub, so the lookup after
  a reset takes both halves of one answer or registers again.
* `HubServedThm`: the conjunction is inductive as it stands.
* `BufferRespected`: `url_encode` stays inside its buffer, for every size.
* `WholeIfRoomThm`: what leaves four bytes to spare is encoded whole. `SumInv` says
  that `di` is the output of the characters taken so far, and that the loop ended
  for want of characters or of room. What that output is, is a recursive
  function; TLA+ defines it as some function that satisfies its equation, so
  `SumsExist` shows that there is one, `UpToSums` that the chosen one has its
  values, and `WidthGrows` that each character adds to it. All three look at the
  least number that would break them (`LeastNat`).
* `KeysHoldThm`: the two action properties of `AzureOta` in the parts of the run
  that spare what they need. The steps of each of the instances (`Antiloop`, `Badmark`,
  `Install`, `Report`) are steps of the module with all faults, so one invariant serves
  them all.
* `PartsTypeOKThm`. The types of the registration need that a poll is only
  started with a turn left (`RegisterTypeInv`).

### Sx12xxProofs

For any number of threads and with every interleaving: no step of the driver is
excluded. `TypeCorrect`, `ReleasedOnceHolds` and `SignalValidHolds` hold in every state.
Their invariant is `SignalInv`: a signal that is stored, or taken by the handler, is of
a call that has not been told, and such a call leaves only through a cleanup of
its own, of which there is one at a time.

`ExclusiveHolds`, `ParamsValidHolds` and `SentIsTrueHolds` are about a driver in which
nothing went `astray`; a step that goes astray sets the variable, so the theorems also say that
nothing but those steps can break the properties. None of the three is inductive,
since each needs to know for whom the modem is busy. `OwnInv` says it with `owner`:

* `FreeInv`: a free modem is nobody's and asleep;
* `ThreadInv`: a thread that starts the radio or cleans up has the modem, unless it cancels;
* `OwnerInv`: the owner that waits has named its signal, and its parameters;
* `EventInv`: what the radio does it does for the owner, and so is the event in hand
  unless it is `late`.

### MCSerialLoraProofs

*Rylr*, for any threads, packets and queue, with all faults: `TypeCorrect`,
`SharedHoldsThm` and `AnswersAreOwnThm`. `CallInv` says who holds which semaphore at each
place of a call, and that the one script is of the operation that holds them;
`AnswerInv` that, as long as no answer was late, the chat waits for the answer to the
command that is out, or it was overwritten; `OrderInv` that the messages in the queue which were not
overwritten stand in the order they came.

*Rn2483*: `RnAnswersAreOwnThm`. Both halves look at `wire`, the lines between the
module and the driver in their order. `ConfigInv` (all faults): until the first
transmission an `ok` on the wire is the last line, and is about the setting the driver
waits for. `PromptInv` (a module in time): what is on the wire answers
the last command. `DriversTypeOKThm` is about both drivers with all faults; `RyInTime` and
`RnInTime` show that a step without late answers is a step of the model with them,
so one invariant serves both parts of the run.

### MCClientsProofs

About every program of `MCClients`, each with all its faults; `ProgramsInv` is the
conjunction of their invariants, since one program's step leaves the others
alone. `NativeBehaves` (`MCSpec => Spec`) brings in what is proved of the native
example: the steps of `Retry` and `Install` are steps of the module with all faults.

* `TokensHoldThm`. In `TbClient` (`TokenInv` of `TbProvisioning`) the token the handler
  kept raises `done`, what is being saved, started with or used is
  the issued one, and it is in NVS before the real client starts; so whatever the
  dashboard has seen (`SeenIsStored`) survives a reset. In `ZephyrThingsBoard` the
  token in RAM is of this start.
* `PacedThm`, a part of `SessionHolds`: what has passed since a publication and what is
  left of the delay are at least the floor (`SpacingInv`), for any set of numbers
  sent as interval, because a smaller one than the floor is not taken (`Taken`).
* `ImagesHoldThm`. `TransferInv` of `Lwm2mFirmware` is about a push that
  may break off, be refused or start again at any block: while one is under way
  slot 1 holds its blocks up to the next, `written` counts just those, and the
  object calls complete only what is one whole image. The other half is
  `RecordsBootable` at the native example's invariant.
* `ToldIsTrueThm`. `LampInv`: the driver's state is the pin's. `RunInv` of `OtaUpdate` says for
  each step of the script what slot 1 holds and what the next boot will start:
  after the upload it is this run's image or nothing (a reset may have
  taken it), and from the confirmation on that image runs or is pending.
  `ReadingsAgree`, that the Zephyr microvolts divided by 1000 are the ESP-IDF
  millivolts, is arithmetic (`SameDigits`) and assumes `Unwrapped`.
* `ConfirmsOwnThm`: `RunInv` again, with every order of lost answers and power cuts.
* `ProgramsTypeOKThm`.
* The converter: `MillivoltsExactThm` holds for every conversion and every 16-bit
  reference; `MicrovoltsExactThm` assumes `Unwrapped`, that no product reaches
  2^32, which `mcp_supply` shows to fail at 3300 mV. The lemmas are about
  division: `ExactDivision` (the split that keeps TLC below 2^31 is exact),
  `WrappedDivision` (a wrapped product divided by 4096 is the quotient modulo
  2^20), `ReadsConversion` (the two bytes are put together again).

### What is model-checked only

* Liveness (`AssignmentSettled`, `PartsGoOn`, `OperationsEnd`, `CallsReturn`,
  `ProgramsGoOn`, `UpdatesArrive`, and `StoredComesBack` and `ActiveIsTrue` of
  `SessionHolds`): it needs fairness and `ENABLED`, which the provers do not have.
* `Unwrapped`, `WindowSpared` and the other hypotheses are not proved of the code:
  it does not establish them. `clients`, `tb_update` and `azure` choose constants
  that satisfy them.
* What the violation runs and section 4 refute, without the hypotheses above, and for
  `Sx12xx` without `~astray`.

## 6. Not modelled, and why

* TLS, Wi-Fi, JSON parsing, topic formatting, logging: no property here is about
  them. Their outcomes (a call that fails, a payload that does not parse) are in
  the models.
* `*_test.sh` only call build tools; `pytest_native_ota.py` is a test harness;
  `mongoose-os-demo-c` is the upstream demo.
* Of the reference drivers: the register access of `sx126x.c` and `sx127x.c` (their
  event handling is what `Sx12xx` sees of them), the LoRa shell, `iis2iclx*` and
  `adc_mcp320x.c`. They are copies no application here uses, and consist of
  register values.
* The values of the LwM2M Device object, and `smp_svr`, which answers from its
  start on.
* Initialisation and release of the ESP-IDF MCP3221 component.
* SAS expiry: the hub drops a connection whose token expired, which `AzureHub` has
  as a lost connection; that the client reconnects with the old token is
  hidden in esp-mqtt.

## 7. Plan

The modules planned are written, and every safety and action property of the
passing runs is proved, under the hypotheses section 5 names; of `SessionHolds`,
the part that is one. Left are the
liveness properties, which wait for a prover with fairness and `ENABLED`, and
the register access of the reference drivers (section 6), which would be worth a
model when an application here uses one of them.
