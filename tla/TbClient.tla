------------------------------ MODULE TbClient ------------------------------
(***************************************************************************)
(* The ThingsBoard client on ESP-IDF from reset to reset                   *)
(* (esp-idf-thingsboard/main/app_main.c), but for firmware updates: a      *)
(* board gets its token (TbProvisioning), and with it runs telemetry and   *)
(* RPC (TbSession) until a reset begins both anew.  What outlives the      *)
(* reset is the token in NVS, and what ThingsBoard and the broker know.    *)
(***************************************************************************)
EXTENDS Naturals, Sequences

CONSTANTS MaxRequests, MaxResets, Intervals, Floor, DefaultInterval, Faults

VARIABLES pc, done, token, access, stored, linked, requests, answers, registered, resets
VARIABLES connected, interval, left, rebooting, calls, wills, active, since

Prov == INSTANCE TbProvisioning
Session == INSTANCE TbSession WITH Faults <- Faults \cap {"lose", "reset"}

TbClientAssumption ==
  Prov!TbProvisioningAssumption /\ Session!TbSessionAssumption

provVars == <<pc, done, token, access, stored, linked, requests, answers, registered, resets>>
sessionVars == <<connected, interval, left, rebooting, calls, wills, active, since>>
vars == <<provVars, sessionVars>>

TypeOK == Prov!TypeOK /\ Session!TypeOK

Init == Prov!Init /\ Session!Init

Main == Prov!Main /\ UNCHANGED sessionVars
Handler == (Prov!ProvConnected \/ Prov!ProvData) /\ UNCHANGED sessionVars
ServerAnswers == Prov!ServerAnswers /\ UNCHANGED sessionVars
LastWill == Session!LastWill /\ UNCHANGED provVars

\* The tasks mqtt_app_start and xTaskCreate start (app_main.c:679-682).
Operation ==
  /\ pc = "online"
  /\ \/ Session!Telemetry \/ Session!Delay
     \/ Session!MqttConnected \/ Session!MqttDisconnected
     \/ Session!SetInterval \/ Session!HandleRpc \/ Session!CallRpc
  /\ UNCHANGED provVars

\* A reset, or the RPC "reboot".
Restart == Prov!Reset /\ Session!Restart

Next == \/ Main \/ Handler \/ ServerAnswers
        \/ Prov!ProvDisconnected /\ UNCHANGED sessionVars
        \/ Operation \/ LastWill \/ Restart

\* app_main and the MQTT task run whenever they can; server and broker do
\* their part sooner or later.
Spec == /\ Init /\ [][Next]_vars
        /\ WF_vars(Main) /\ WF_vars(Handler) /\ WF_vars(ServerAnswers) /\ WF_vars(LastWill)

-----------------------------------------------------------------------------
(* Properties. *)

\* A token that reached the board is never thrown away, however close to the
\* 15 s it came (app_main.c:583-590: done and the token are judged after
\* esp_mqtt_client_stop).
AnswerUsed == Prov!AnswerUsed

\* The real client starts only with a token ThingsBoard issued to this board.
OnlineWithToken == Prov!OnlineWithToken

\* A device that ever showed as active has its token in NVS: it needs nobody to
\* come back, whatever resets follow (app_main.c:676-679: the token is saved
\* before the client starts).
SeenIsStored == active => stored = "issued"

\* A board that stored its token comes online after every reset, with the
\* server long past issuing another one.
StoredComesBack == Prov!StoredComesBack

\* However the interval is set and whenever the connection comes and goes,
\* publications of one run are never closer than the floor (app_main.c:261).
Paced == Session!Paced

\* The dashboard ends up with the truth about the connection, whatever wills of
\* older connections are outstanding, and also about a board that reset and
\* never came online again (app_main.c:380, 612-616).
ActiveIsTrue == Session!ActiveIsTrue
=============================================================================
