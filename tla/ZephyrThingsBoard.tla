-------------------------- MODULE ZephyrThingsBoard --------------------------
(***************************************************************************)
(* The ThingsBoard client on Zephyr (zephyr-thingsboard/src: main.c,       *)
(* thingsboard_mqtt.c): one thread brings the network up, asks for a       *)
(* token, connects with it and then polls the socket and publishes; the    *)
(* event handlers run inside mqtt_input.                                   *)
(*                                                                         *)
(* Abstractions: there is one token; an RPC request is its method and how  *)
(* its payload arrives: whole, longer than payload_buf, or after the       *)
(* header.  The MQTT library reads nothing more while a payload it has     *)
(* announced is not read to its end.                                       *)
(***************************************************************************)
EXTENDS Naturals, Sequences

CONSTANTS
  MaxResets,  \* bound: restarts of the board
  MaxQueue,   \* bound: RPC requests on their way
  Faults      \* subset of {"fail", "slow", "lose", "reset", "long", "late"}

ZephyrThingsBoardAssumption ==
  /\ MaxResets \in Nat /\ MaxQueue \in Nat \ {0}
  /\ Faults \subseteq {"fail", "slow", "lose", "reset", "long", "late"}

VARIABLES
  pc,          \* progress of main and thingsboard_run
  sem,         \* network_connected_sem
  up,          \* the interface has an address
  linked,      \* the client that is in use is connected
  done,        \* s_provisioning_done
  token,       \* s_provisioned_token
  due,         \* k_uptime_get() >= next_telemetry
  inbox,       \* what the broker has sent to the client in use
  unread,      \* a payload was not read to its end
  registered,  \* ThingsBoard has created the device
  issued,      \* history: a token reached this board
  resets

net == <<sem, up>>
server == <<registered, resets>>
vars == <<pc, net, linked, done, token, due, inbox, unread, issued, server>>

Token == {"none", "issued"}
Shape == {"whole"} \cup (Faults \cap {"long", "late"})
Method == {"getStatus", "reboot", "other"}
Event == [name : {"connack", "refused", "success", "failure"}, shape : {"whole"}]
           \cup [name : Method, shape : Shape]
Plain(name) == [name |-> name, shape |-> "whole"]

TypeOK ==
  /\ pc \in {"boot", "wait", "resolve", "ask", "provision", "connect",
             "input", "telemetry", "returned"}
  /\ {sem, up, linked, done, due, unread, registered, issued} \subseteq BOOLEAN
  /\ token \in Token
  /\ inbox \in Seq(Event) /\ Len(inbox) <= MaxQueue
  /\ resets \in 0..MaxResets

Init ==
  /\ pc = "boot" /\ sem = FALSE /\ up = FALSE /\ linked = FALSE
  /\ done = FALSE /\ token = "none" /\ due = FALSE
  /\ inbox = <<>> /\ unread = FALSE
  /\ registered = FALSE /\ issued = FALSE /\ resets = 0

-----------------------------------------------------------------------------
(* main. *)

\* Registers the callbacks and asks for a connection; it waits for the network
\* only if one of the two requests was taken.
Start ==
  /\ pc = "boot"
  /\ pc' \in {"wait"} \cup (IF "fail" \in Faults THEN {"resolve", "returned"} ELSE {})
  /\ UNCHANGED <<net, linked, done, token, due, inbox, unread, issued, server>>

NetworkUp ==
  /\ pc = "wait" /\ sem
  /\ sem' = FALSE /\ pc' = "resolve"
  /\ UNCHANGED <<up, linked, done, token, due, inbox, unread, issued, server>>

\* l4_event_handler
L4Connected ==
  /\ ~up
  /\ up' = TRUE /\ sem' = TRUE
  /\ UNCHANGED <<pc, linked, done, token, due, inbox, unread, issued, server>>

\* The link goes, and with it what was on its way.
L4Disconnected ==
  /\ up /\ "lose" \in Faults
  /\ up' = FALSE /\ linked' = FALSE /\ inbox' = <<>>
  /\ UNCHANGED <<pc, sem, done, token, due, unread, issued, server>>

-----------------------------------------------------------------------------
(* thingsboard_run. *)

\* A call into the network: it needs one, and may fail all the same.
Reaches(ok) == IF ok THEN up ELSE ~up \/ "fail" \in Faults

\* tls_init and resolve_broker
Resolve ==
  /\ pc = "resolve"
  /\ \E ok \in BOOLEAN : Reaches(ok) /\ pc' = IF ok THEN "ask" ELSE "returned"
  /\ UNCHANGED <<net, linked, done, token, due, inbox, unread, issued, server>>

\* run_provisioning: mqtt_connect as "provision".
ProvConnect ==
  /\ pc = "ask"
  /\ \E ok \in BOOLEAN :
       /\ Reaches(ok)
       /\ IF ok
          THEN /\ pc' = "provision" /\ linked' = TRUE /\ done' = FALSE
               /\ inbox' \in {<<Plain("connack")>>, <<Plain("refused")>>}
          ELSE pc' = "returned" /\ UNCHANGED <<linked, done, inbox>>
  /\ UNCHANGED <<net, token, due, unread, issued, server>>

\* provisioning_evt_handler: a CONNACK sends the request, which the server
\* takes at once; it creates a device of this name once.
Take(e, value) ==
  /\ pc = "provision" /\ ~done /\ inbox # <<>> /\ e = Head(inbox).name
  /\ inbox' = IF e # "connack" THEN Tail(inbox)
              ELSE <<Plain(IF registered THEN "failure" ELSE "success")>>
  /\ registered' = (registered \/ e = "connack")
  /\ done' = (e # "connack")
  /\ token' = value
  /\ issued' = (issued \/ e = "success")
  /\ UNCHANGED <<pc, net, linked, due, unread, resets>>

\* Mutant: takes the status for the token.
ProvInputStatus == \E e \in {"connack", "refused", "success", "failure"} : Take(e, e)

ProvInput == \E e \in {"connack", "refused", "success", "failure"} :
               Take(e, IF e = "success" THEN "issued" ELSE token)

Disconnect(ok) ==
  /\ pc = "provision" /\ (done \/ ~linked \/ "slow" \in Faults)
  /\ linked' = FALSE /\ inbox' = <<>>
  /\ pc' = IF ok THEN "connect" ELSE "returned"
  /\ UNCHANGED <<net, done, token, due, unread, issued, server>>

\* Mutant: any answer will do.
ProvEndsAny == Disconnect(done)

\* The loop ends with an answer or after 15 s, without a connection too.
ProvEnds == Disconnect(done /\ token # "none")

\* mqtt_connect with the token; the first telemetry is due at once.
Connect ==
  /\ pc = "connect"
  /\ \E ok \in BOOLEAN :
       /\ Reaches(ok)
       /\ IF ok THEN pc' = "input" /\ linked' = TRUE /\ due' = TRUE
                     /\ inbox' \in {<<Plain("connack")>>, <<Plain("refused")>>}
                ELSE pc' = "returned" /\ UNCHANGED <<linked, due, inbox>>
  /\ UNCHANGED <<net, done, token, unread, issued, server>>

\* RAM goes; NVS is not used.
Restarted ==
  /\ pc' = "boot" /\ linked' = FALSE /\ done' = FALSE /\ token' = "none"
  /\ due' = FALSE /\ inbox' = <<>> /\ unread' = FALSE
  /\ sem' = FALSE /\ up' = FALSE
  /\ resets' = resets + 1
  /\ UNCHANGED <<issued, registered>>

\* The method stands in the part that was read.
Reboots(e) == e.name = "reboot" /\ e.shape # "late" /\ resets < MaxResets

\* Mutant: poll waits for the socket without a timeout.
InputBlocking ==
  /\ pc = "input" /\ inbox # <<>> /\ ~unread
  /\ inbox' = Tail(inbox) /\ pc' = "telemetry"
  /\ UNCHANGED <<net, linked, done, token, due, unread, issued, server>>

\* One turn of the loop up to mqtt_live.  main_evt_handler takes one message;
\* what payload_buf has no room for, or has not arrived, stays unread.
Input ==
  /\ pc = "input"
  /\ IF inbox = <<>> \/ unread
     THEN pc' = "telemetry" /\ UNCHANGED <<linked, inbox, unread>>
     ELSE LET e == Head(inbox) IN
          /\ ~Reboots(e)
          /\ pc' = "telemetry" /\ inbox' = Tail(inbox)
          /\ unread' = (e.shape # "whole")
          /\ linked' = (linked /\ e.name # "refused")
  /\ UNCHANGED <<net, done, token, due, issued, server>>

\* handle_rpc_request: "reboot" is answered, then carried out.
Reboot ==
  /\ pc = "input" /\ inbox # <<>> /\ ~unread /\ Reboots(Head(inbox))
  /\ Restarted

\* publish_telemetry, if it is time; an error is logged, no more.
Telemetry ==
  /\ pc = "telemetry"
  /\ due' = FALSE /\ pc' = "input"
  /\ UNCHANGED <<net, linked, done, token, inbox, unread, issued, server>>

-----------------------------------------------------------------------------
(* Time, the broker, the power (external). *)

\* 10 s after the last publication.
TelemetryDue ==
  /\ pc \in {"input", "telemetry"} /\ ~due
  /\ due' = TRUE
  /\ UNCHANGED <<pc, net, linked, done, token, inbox, unread, issued, server>>

CallRpc ==
  /\ pc \in {"input", "telemetry"} /\ linked /\ Len(inbox) < MaxQueue
  /\ \E m \in Method, s \in Shape :
       inbox' = Append(inbox, [name |-> m, shape |-> s])
  /\ UNCHANGED <<pc, net, linked, done, token, due, unread, issued, server>>

Reset ==
  /\ resets < MaxResets /\ ("reset" \in Faults \/ pc = "returned")
  /\ Restarted

Main == \/ Start \/ NetworkUp \/ Resolve \/ ProvConnect \/ ProvInput \/ ProvEnds
        \/ Connect \/ Input \/ Reboot \/ Telemetry

Next == Main \/ L4Connected \/ L4Disconnected \/ TelemetryDue \/ CallRpc \/ Reset

Spec == Init /\ [][Next]_vars

\* The thread runs whenever it can; time passes.
FairSpec == Spec /\ WF_vars(Main) /\ WF_vars(TelemetryDue)

-----------------------------------------------------------------------------
(* Properties. *)

\* The second connection is made only with a token this board was given.
ConnectsWithToken == pc \in {"connect", "input", "telemetry"} => token = "issued" /\ issued

\* Once it runs, telemetry never stops for good, with the link down, the
\* broker silent or a payload stuck: the loop never waits for longer than 1 s.
TelemetryGoesOn == pc = "input" ~> (pc = "telemetry" /\ due) \/ pc = "boot"

\* Every message of a connection that lasts is taken (thingsboard_mqtt.h:5-8,
\* "RPC (getStatus/reboot)").
RequestsTaken == []<>(inbox = <<>> \/ ~unread)

\* "device provisioning (if no token stored yet)" (thingsboard_mqtt.h:6): a
\* board that was given a token does not ask for another.
AsksOnce == [][pc = "ask" /\ pc' = "provision" => ~issued]_vars

\* "thingsboard_run() returned - should never happen" (main.c:113).
NeverReturns == pc # "returned"

-----------------------------------------------------------------------------
(* The inductive invariant behind the safety properties. *)

\* The token in RAM came from ThingsBoard in this start.
TokenInv ==
  /\ token = "issued" => issued
  /\ ConnectsWithToken
=============================================================================
