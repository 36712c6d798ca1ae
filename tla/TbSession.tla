------------------------------ MODULE TbSession ------------------------------
(***************************************************************************)
(* The ThingsBoard client in operation (esp-idf-thingsboard/main/          *)
(* app_main.c): telemetry_task publishes every publishInterval while the   *)
(* client is connected; the MQTT task keeps the connection, reports        *)
(* "active", takes a new interval and answers RPC requests; the broker     *)
(* publishes the last will of a connection it finds dead.                  *)
(*                                                                         *)
(* Abstractions: time is counted in turns of telemetry_task; readings,     *)
(* topics and texts are left out; the firmware attributes and chunks are   *)
(* the business of ThingsBoardOta.                                         *)
(***************************************************************************)
EXTENDS Naturals

CONSTANTS
  Intervals,        \* values an operator sets publishInterval to
  Floor,            \* the smallest one taken (1000 ms)
  DefaultInterval,  \* TB_DEFAULT_PUBLISH_INTERVAL_MS
  Faults            \* subset of {"lose", "reset"}

TbSessionAssumption ==
  /\ Intervals \subseteq Nat /\ {Floor, DefaultInterval} \subseteq Nat \ {0}
  /\ DefaultInterval >= Floor
  /\ Faults \subseteq {"lose", "reset"}

VARIABLES
  connected,  \* s_mqtt_connected
  interval,   \* s_publish_interval_ms
  left,       \* telemetry_task: what is left of its vTaskDelay
  rebooting,  \* the MQTT task is in the 500 ms before esp_restart
  calls,      \* RPC requests on their way to the device
  wills,      \* dead connections the broker has not noticed yet
  active,     \* the device's "active" on the dashboard
  since       \* history: turns since the last publication, up to Floor

mqtt == <<connected, interval, rebooting, calls>>
broker == <<wills, active>>
vars == <<mqtt, left, broker, since>>

Method == {"reboot", "other"}
Taken == {n \in Intervals : n >= Floor} \cup {DefaultInterval}

TypeOK ==
  /\ {connected, rebooting, active, wills} \subseteq BOOLEAN
  /\ interval \in Taken /\ left \in UNION {0..n : n \in Taken}
  /\ calls \subseteq Method
  /\ since \in 0..Floor

\* Right after mqtt_app_start and xTaskCreate.
Init ==
  /\ connected = FALSE /\ interval = DefaultInterval /\ left = 0
  /\ rebooting = FALSE /\ calls = {}
  /\ wills = FALSE /\ active = FALSE /\ since = Floor

-----------------------------------------------------------------------------
(* telemetry_task. *)

Telemetry ==
  /\ left = 0
  /\ since' = IF connected THEN 0 ELSE since
  /\ left' = interval
  /\ UNCHANGED <<mqtt, broker>>

Delay ==
  /\ left > 0
  /\ left' = left - 1
  /\ since' = IF since < Floor THEN since + 1 ELSE since
  /\ UNCHANGED <<mqtt, broker>>

-----------------------------------------------------------------------------
(* mqtt_event_handler, in the MQTT task. *)

\* Mutant: a connection is not reported.
ConnectSilently ==
  /\ ~connected /\ ~rebooting
  /\ connected' = TRUE
  /\ wills' = FALSE /\ active' = (active /\ ~wills)
  /\ UNCHANGED <<interval, rebooting, calls, left, since>>

\* The same client id: the broker (external) ends an older session, will and
\* all, before it accepts the new one, on which "active" is the first message.
MqttConnected ==
  /\ ~connected /\ ~rebooting
  /\ connected' = TRUE
  /\ wills' = FALSE /\ active' = TRUE
  /\ UNCHANGED <<interval, rebooting, calls, left, since>>

MqttDisconnected ==
  /\ connected /\ ~rebooting /\ "lose" \in Faults
  /\ connected' = FALSE /\ calls' = {}
  /\ wills' = TRUE
  /\ UNCHANGED <<interval, rebooting, left, active, since>>

\* Mutant: no floor.
SetAnyInterval ==
  /\ connected /\ ~rebooting
  /\ interval' \in Intervals
  /\ UNCHANGED <<connected, rebooting, calls, left, broker, since>>

\* apply_shared_attribute: a value below the floor is ignored.
SetInterval ==
  /\ connected /\ ~rebooting
  /\ interval' \in {n \in Intervals : n >= Floor}
  /\ UNCHANGED <<connected, rebooting, calls, left, broker, since>>

\* handle_rpc_request: the answer is left out; "reboot" restarts 500 ms later.
HandleRpc ==
  /\ connected /\ ~rebooting
  /\ \E m \in calls :
       /\ calls' = calls \ {m}
       /\ rebooting' = (m = "reboot")
  /\ UNCHANGED <<connected, interval, left, broker, since>>

\* esp_restart or a reset, up to mqtt_app_start.
Restart ==
  /\ rebooting \/ "reset" \in Faults
  /\ connected' = FALSE /\ interval' = DefaultInterval /\ left' = 0
  /\ rebooting' = FALSE /\ calls' = {}
  /\ wills' = (wills \/ connected)
  /\ since' = Floor
  /\ UNCHANGED active

-----------------------------------------------------------------------------
(* ThingsBoard (external). *)

\* No keepalive for a while: the broker publishes the last will.
LastWill ==
  /\ wills
  /\ wills' = FALSE /\ active' = FALSE
  /\ UNCHANGED <<mqtt, left, since>>

CallRpc ==
  /\ connected /\ calls = {}
  /\ \E m \in Method : calls' = {m}
  /\ UNCHANGED <<connected, interval, rebooting, left, broker, since>>

Next == \/ Telemetry \/ Delay
        \/ MqttConnected \/ MqttDisconnected \/ SetInterval \/ HandleRpc
        \/ Restart \/ LastWill \/ CallRpc

Spec == Init /\ [][Next]_vars

\* The broker's keepalive timer runs out.
FairSpec == Spec /\ WF_vars(LastWill)

-----------------------------------------------------------------------------
(* Properties. *)

\* However the interval is set and whenever the connection comes and goes,
\* publications of one run are never closer than the floor (app_main.c:261).
Paced == [][left = 0 /\ left' > 0 /\ connected => since = Floor]_vars

\* The dashboard ends up with the truth about the connection, whatever wills of
\* older connections are outstanding: "device should show as Active" (380),
\* "lets the dashboard reflect active: false" when it is gone (612-616).
ActiveIsTrue == /\ <>[]connected => <>[]active
                /\ <>[]~connected => <>[]~active

-----------------------------------------------------------------------------
(* The inductive invariant behind the safety properties. *)

\* What has passed since a publication and what is left of the delay make up
\* the floor.
SpacingInv == since + left >= Floor
=============================================================================
