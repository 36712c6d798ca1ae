------------------------------ MODULE AzureHub ------------------------------
(***************************************************************************)
(* The Azure client in operation (esp-idf-azure-dps/main/app_main.c):      *)
(* telemetry_task publishes every publishInterval, or at once after a      *)
(* cloud-to-device message; the MQTT task sets the flag and the interval   *)
(* it reads, reports the twin and answers direct methods.                  *)
(*                                                                         *)
(* Abstractions: time is counted in turns of telemetry_task (200 ms); the  *)
(* readings, topics and payloads are left out; fw_* properties are the     *)
(* business of AzureOta.  telemetry_task is split at every access to a     *)
(* variable the MQTT task writes.                                          *)
(***************************************************************************)
EXTENDS Integers

CONSTANTS
  Intervals,    \* values an operator sets publishInterval to
  MinInterval,  \* MIN_PUBLISH_INTERVAL_MS
  DefaultInterval,
  MaxInt,       \* largest value of the int that counts the waiting
  Faults        \* subset of {"lose", "reset"}

AzureHubAssumption ==
  /\ MaxInt \in Nat /\ Intervals \subseteq 0..MaxInt
  /\ MinInterval \in 1..MaxInt /\ DefaultInterval \in MinInterval..MaxInt
  /\ Faults \subseteq {"lose", "reset"}

VARIABLES
  connected,  \* s_hub_connected
  force,      \* s_c2d_force_telemetry
  interval,   \* s_publish_interval_ms
  reported,   \* reported.publishInterval as the hub knows it
  tpc,        \* progress of telemetry_task
  forced,     \* telemetry_task: the flag as it was read
  waited,     \* telemetry_task: waited_ms
  rebooting,  \* the MQTT task is in the 500 ms before esp_restart
  calls,      \* direct methods on their way to the device
  replies,    \* status codes of the answers given since the last start
  unserved    \* history: a C2D message came after the last publication

vars == <<connected, force, interval, reported, tpc, forced, waited, rebooting,
          calls, replies, unserved>>
mqtt == <<connected, interval, reported, rebooting, calls, replies>>

Method == [name : {"getStatus", "reboot", "other"}, rid : BOOLEAN]

TypeOK ==
  /\ {connected, force, forced, rebooting, unserved} \subseteq BOOLEAN
  /\ interval \in MinInterval..MaxInt
  /\ reported \in 0..MaxInt
  /\ tpc \in {"read", "test", "clear", "publish", "delay"}
  /\ waited \in (-MaxInt - 1)..MaxInt
  /\ calls \subseteq Method /\ replies \subseteq {200, 404}

Init ==
  /\ connected = FALSE /\ force = FALSE /\ forced = FALSE /\ rebooting = FALSE
  /\ interval = DefaultInterval /\ reported = 0
  /\ tpc = "read" /\ waited = 0
  /\ calls = {} /\ replies = {} /\ unserved = FALSE

-----------------------------------------------------------------------------
(* telemetry_task. *)

\* Mutant: the flag is consumed by reading it.
ConsumeFlag ==
  /\ tpc = "read"
  /\ forced' = force /\ force' = FALSE /\ tpc' = "test"
  /\ UNCHANGED <<mqtt, waited, unserved>>

ReadFlag ==
  /\ tpc = "read"
  /\ forced' = force /\ tpc' = "test"
  /\ UNCHANGED <<mqtt, force, waited, unserved>>

TestDue ==
  /\ tpc = "test"
  /\ tpc' = IF connected /\ (waited >= interval \/ forced)
            THEN IF forced THEN "clear" ELSE "publish"
            ELSE "delay"
  /\ UNCHANGED <<mqtt, force, forced, waited, unserved>>

ClearFlag ==
  /\ tpc = "clear"
  /\ force' = FALSE /\ tpc' = "publish"
  /\ UNCHANGED <<mqtt, forced, waited, unserved>>

PublishTelemetry ==
  /\ tpc = "publish"
  /\ unserved' = FALSE
  /\ waited' = 0 /\ tpc' = "delay"
  /\ UNCHANGED <<mqtt, force, forced>>

\* Mutant: a count that reached its end stays there below zero.
DelayStuck ==
  /\ tpc = "delay"
  /\ waited' = IF waited \in {MaxInt, -MaxInt - 1} THEN -MaxInt - 1 ELSE waited + 1
  /\ tpc' = "read"
  /\ UNCHANGED <<mqtt, force, forced, unserved>>

\* Without a connection the count grows without a limit; the signed overflow
\* wraps on the target.
Delay ==
  /\ tpc = "delay"
  /\ waited' = IF waited = MaxInt THEN -MaxInt - 1 ELSE waited + 1
  /\ tpc' = "read"
  /\ UNCHANGED <<mqtt, force, forced, unserved>>

-----------------------------------------------------------------------------
(* hub_mqtt_event_handler, in the MQTT task. *)

task == <<tpc, forced, waited>>

\* report_twin_properties
ReportTwin == reported' = interval'

\* Subscribes, asks for the twin and reports its own half of it.
HubConnected ==
  /\ ~connected /\ ~rebooting
  /\ connected' = TRUE
  /\ UNCHANGED <<force, interval, task, rebooting, calls, replies, unserved>>
  /\ ReportTwin

HubDisconnected ==
  /\ connected /\ ~rebooting /\ "lose" \in Faults
  /\ connected' = FALSE /\ calls' = {}
  /\ UNCHANGED <<force, interval, reported, task, rebooting, replies, unserved>>

\* Mutant: reports before the new interval is in force.
ReportThenApply ==
  /\ connected /\ ~rebooting
  /\ \E v \in Intervals : v >= MinInterval /\ interval' = v /\ reported' = interval
  /\ UNCHANGED <<connected, force, task, rebooting, calls, replies, unserved>>

\* Mutant: no floor.
SetAnyInterval ==
  /\ connected /\ ~rebooting
  /\ \E v \in Intervals : interval' = v /\ reported' = v
  /\ UNCHANGED <<connected, force, task, rebooting, calls, replies, unserved>>

\* apply_desired_properties: below the floor, ignored without a report.
SetInterval ==
  /\ connected /\ ~rebooting
  /\ \E v \in Intervals : v >= MinInterval /\ interval' = v
  /\ ReportTwin
  /\ UNCHANGED <<connected, force, task, rebooting, calls, replies, unserved>>

C2dMessage ==
  /\ connected /\ ~rebooting
  /\ force' = TRUE /\ unserved' = TRUE
  /\ UNCHANGED <<mqtt, task>>

\* handle_direct_method_request: without a $rid there is nobody to answer.
HandleMethod ==
  /\ connected /\ ~rebooting
  /\ \E c \in calls :
       /\ calls' = calls \ {c}
       /\ replies' = IF ~c.rid THEN replies
                     ELSE replies \cup {IF c.name = "other" THEN 404 ELSE 200}
       /\ rebooting' = (c.rid /\ c.name = "reboot")
  /\ UNCHANGED <<connected, force, interval, reported, task, unserved>>

\* esp_restart, or a reset; the C2D messages already taken in are gone.
Restart ==
  /\ rebooting \/ "reset" \in Faults
  /\ connected' = FALSE /\ force' = FALSE /\ forced' = FALSE /\ rebooting' = FALSE
  /\ interval' = DefaultInterval
  /\ tpc' = "read" /\ waited' = 0
  /\ calls' = {} /\ replies' = {} /\ unserved' = FALSE
  /\ UNCHANGED reported

\* IoT Hub (external).
InvokeMethod ==
  /\ connected
  /\ \E m \in Method : calls = {} /\ calls' = {m}
  /\ UNCHANGED <<connected, force, interval, reported, task, rebooting, replies, unserved>>

Telemetry == ReadFlag \/ TestDue \/ ClearFlag \/ PublishTelemetry \/ Delay

Next == \/ Telemetry
        \/ HubConnected \/ HubDisconnected \/ SetInterval \/ C2dMessage
        \/ HandleMethod \/ Restart \/ InvokeMethod

Spec == Init /\ [][Next]_vars

FairSpec == Spec /\ WF_vars(Telemetry)

-----------------------------------------------------------------------------
(* Properties. *)

\* Every cloud-to-device message is followed by a publication (app_main.c:
\* 720-727: "send a telemetry reading right now"): until then the flag is set
\* or the task stands just before esp_mqtt_client_publish, however the two
\* tasks interleave.
C2dNotForgotten == unserved => force \/ tpc = "publish"

\* What the hub holds as the reported interval of a connected device is the
\* one telemetry_task goes by.
ReportedIntervalHolds == connected => reported = interval

\* On a connection that lasts, telemetry never stops, however long the device
\* was without one before and however far the count ran meanwhile.
TelemetryGoesOn == <>[]connected => []<>(tpc = "publish")
=============================================================================
