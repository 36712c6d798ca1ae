----------------------------- MODULE Lwm2mClient -----------------------------
(***************************************************************************)
(* The LwM2M client around its firmware object (lwm2m/src/lwm2m-client.c,  *)
(* led.c, timer.c, temperature.c): main waits for the network, sets the    *)
(* objects up and starts the registration; the network events pause and    *)
(* resume the engine; the light follows resource 3311/0/5850 and the       *)
(* temperature is renewed by a work item every two minutes.                *)
(*                                                                         *)
(* Abstractions: the values of the Device object are left out, and so are  *)
(* the events that are only logged.  The engine and the registration       *)
(* client are external: they act on what the callbacks tell them.          *)
(***************************************************************************)
EXTENDS Naturals

CONSTANT Faults  \* subset of {"setup", "link", "server", "gpio", "sensor"}

Lwm2mClientAssumption ==
  Faults \subseteq {"setup", "link", "server", "gpio", "sensor"}

VARIABLES
  pc,         \* progress of main
  sem,        \* network_connected_sem
  up,         \* the interface has an address
  paused,     \* the engine is paused
  client,     \* the registration client
  work,       \* temp_work
  light,      \* /3311/0/5850, as the server wrote it
  led_state,
  pin,        \* led_gpio
  accepted,   \* the last write of the light was answered with success
  enabled     \* /3340/0/5850, the timer's switch

net == <<sem, up, paused>>
lamp == <<light, led_state, pin, accepted>>
vars == <<pc, net, client, work, lamp, enabled>>

TypeOK ==
  /\ pc \in {"boot", "wait", "setup", "start", "running", "returned"}
  /\ {sem, up, paused, accepted} \subseteq BOOLEAN
  /\ client \in {"off", "registering", "registered", "stopped"}
  /\ work \in {"none", "waiting", "due", "sampled"}
  /\ {light, led_state, pin, enabled} \subseteq 0..1

Init ==
  /\ pc = "boot" /\ sem = FALSE /\ up = FALSE /\ paused = FALSE
  /\ client = "off" /\ work = "none"
  /\ light = 0 /\ led_state = 0 /\ pin = 0 /\ accepted = TRUE /\ enabled = 0

-----------------------------------------------------------------------------
(* main. *)

\* The interface comes up or main returns; it waits only if a connection was
\* asked for.
Start ==
  /\ pc = "boot"
  /\ pc' \in {"wait"} \cup (IF "setup" \in Faults THEN {"setup", "returned"} ELSE {})
  /\ UNCHANGED <<net, client, work, lamp, enabled>>

NetworkUp ==
  /\ pc = "wait" /\ sem
  /\ sem' = FALSE /\ pc' = "setup"
  /\ UNCHANGED <<up, paused, client, work, lamp, enabled>>

\* lwm2m_setup: init_temp_sensor schedules the work, if the object instance can
\* be created, before the bulk write that may fail.
Setup ==
  /\ pc = "setup"
  /\ work' \in {"due"} \cup (IF "setup" \in Faults THEN {"none"} ELSE {})
  /\ pc' \in {"start"} \cup (IF "setup" \in Faults THEN {"returned"} ELSE {})
  /\ UNCHANGED <<net, client, lamp, enabled>>

\* lwm2m_rd_client_start
StartClient ==
  /\ pc = "start"
  /\ client' = "registering" /\ pc' = "running"
  /\ UNCHANGED <<net, work, lamp, enabled>>

Main == Start \/ NetworkUp \/ Setup \/ StartClient

-----------------------------------------------------------------------------
(* l4_event_handler. *)

\* Mutant: the engine is not resumed.
ConnectedOnly ==
  /\ ~up
  /\ up' = TRUE /\ sem' = TRUE
  /\ UNCHANGED <<pc, paused, client, work, lamp, enabled>>

OnConnected ==
  /\ ~up
  /\ up' = TRUE /\ sem' = TRUE /\ paused' = FALSE
  /\ UNCHANGED <<pc, client, work, lamp, enabled>>

OnDisconnected ==
  /\ up /\ "link" \in Faults
  /\ up' = FALSE /\ paused' = TRUE
  /\ UNCHANGED <<pc, sem, client, work, lamp, enabled>>

-----------------------------------------------------------------------------
(* The registration client (external) and rd_client_event. *)

Registered ==
  /\ client = "registering" /\ up /\ ~paused
  /\ client' = "registered"
  /\ UNCHANGED <<pc, net, work, lamp, enabled>>

\* Registration or its update times out; observe_cb asks for an update when a
\* notification is not acknowledged.  The client tries again on its own.
RegistrationLost ==
  /\ client = "registered" /\ "server" \in Faults
  /\ client' = "registering"
  /\ UNCHANGED <<pc, net, work, lamp, enabled>>

\* LWM2M_RD_CLIENT_EVENT_NETWORK_ERROR: the client is stopped, for good.
NetworkError ==
  /\ client \in {"registering", "registered"} /\ "server" \in Faults /\ ~paused
  /\ client' = "stopped"
  /\ UNCHANGED <<pc, net, work, lamp, enabled>>

-----------------------------------------------------------------------------
(* led.c, timer.c, temperature.c. *)

\* Mutant: led_state is set before the pin.
WriteLightFirst(value, ok) ==
  /\ client = "registered" /\ ~paused
  /\ light' = value /\ led_state' = value
  /\ accepted' = (value = led_state \/ ok)
  /\ pin' = IF ok /\ value # led_state THEN value ELSE pin
  /\ UNCHANGED <<pc, net, client, work, enabled>>

\* led_on_off_cb, after the engine has stored the value: the pin is set if the
\* value is news, and the write fails with it.
WriteLightWith(value, ok) ==
  /\ client = "registered" /\ ~paused
  /\ light' = value
  /\ accepted' = (value = led_state \/ ok)
  /\ IF value # led_state /\ ok THEN pin' = value /\ led_state' = value
                                ELSE UNCHANGED <<pin, led_state>>
  /\ UNCHANGED <<pc, net, client, work, enabled>>

WriteLight == \E v \in 0..1, ok \in BOOLEAN :
                (ok \/ "gpio" \in Faults) /\ WriteLightWith(v, ok)

\* Mutant: the value is not validated.
WriteAnyTimer ==
  /\ client = "registered" /\ ~paused
  /\ enabled' \in 0..2
  /\ UNCHANGED <<pc, net, client, work, lamp>>

\* timer_on_off_validate_cb
WriteTimer ==
  /\ client = "registered" /\ ~paused
  /\ enabled' \in {v \in 0..2 : v <= 1}
  /\ UNCHANGED <<pc, net, client, work, lamp>>

\* Mutant: a failed reading does not schedule the next one.
SampleOrStop ==
  /\ work = "due"
  /\ work' \in {"sampled"} \cup (IF "sensor" \in Faults THEN {"none"} ELSE {})
  /\ UNCHANGED <<pc, net, client, lamp, enabled>>

\* temp_work_cb: a reading that fails leaves the old one; the next is
\* scheduled all the same.
SampleTemperature ==
  /\ work = "due"
  /\ work' \in {"sampled"} \cup (IF "sensor" \in Faults THEN {"waiting"} ELSE {})
  /\ UNCHANGED <<pc, net, client, lamp, enabled>>

\* PERIOD
TemperatureDue ==
  /\ work \in {"waiting", "sampled"}
  /\ work' = "due"
  /\ UNCHANGED <<pc, net, client, lamp, enabled>>

Next == \/ Main \/ OnConnected \/ OnDisconnected
        \/ Registered \/ RegistrationLost \/ NetworkError
        \/ WriteLight \/ WriteTimer
        \/ SampleTemperature \/ TemperatureDue

Spec == Init /\ [][Next]_vars

\* main and the work queue run whenever they can, two minutes pass, and the
\* server answers a client that keeps asking.
FairSpec == /\ Spec /\ WF_vars(Main) /\ WF_vars(SampleTemperature)
            /\ WF_vars(TemperatureDue) /\ SF_vars(Registered)

-----------------------------------------------------------------------------
(* Properties. *)

\* A server that was told its last write of the light succeeded sees the light
\* as it is, also if earlier writes of the same value failed at the pin.
LightIsTrue == accepted => pin = light

\* With a network that lasts and no error the engine gives up on, the client
\* is registered again, in whatever order the network came and went before,
\* and whether or not main was up yet.
RegistersAgain ==
  <>[](up /\ pc = "running" /\ client # "stopped") => []<>(client = "registered")

\* Once scheduled, the temperature is tried again and again, failed readings or
\* not.
TemperatureGoesOn == <>(work # "none") => []<>(work = "due")

-----------------------------------------------------------------------------
(* The inductive invariant behind the safety properties. *)

\* led_state follows the pin, not the resource.
LampInv == led_state = pin /\ LightIsTrue
=============================================================================
