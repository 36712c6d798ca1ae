--------------------------- MODULE TbProvisioning ---------------------------
(***************************************************************************)
(* How a board gets its ThingsBoard access token                           *)
(* (esp-idf-thingsboard/main/app_main.c): app_main asks for one if NVS     *)
(* holds none, the MQTT task of the provisioning client takes the answer,  *)
(* app_main waits for it, stores it and starts the real client.            *)
(*                                                                         *)
(* Abstractions: there is one token, the one ThingsBoard issues when it    *)
(* creates the device; it is there or "none".  The server creates a device *)
(* of a name once and refuses a second request for it.                     *)
(***************************************************************************)
EXTENDS Naturals, Sequences

CONSTANTS
  MaxRequests,  \* bound: requests on their way, and requests refused
  MaxResets,    \* bound: resets of the board
  Faults        \* subset of {"slow", "lose", "reset"}

TbProvisioningAssumption ==
  /\ {MaxRequests, MaxResets} \subseteq Nat
  /\ Faults \subseteq {"slow", "lose", "reset"}

VARIABLES
  pc,          \* progress of app_main
  done,        \* s_provisioning_done
  token,       \* s_provisioned_token
  access,      \* access_token
  stored,      \* NVS_KEY_TOKEN
  linked,      \* the provisioning client is connected
  requests,    \* provisioning requests on their way
  answers,     \* answers on their way
  registered,  \* ThingsBoard has created the device
  resets

ram == <<pc, done, token, access, linked>>
net == <<requests, answers, registered>>
vars == <<ram, stored, net, resets>>

Token == {"none", "issued"}

TypeOK ==
  /\ pc \in {"boot", "provision", "stop", "save", "start", "online", "halted"}
  /\ {done, linked, registered} \subseteq BOOLEAN
  /\ {token, access, stored} \subseteq Token
  /\ requests \in 0..MaxRequests
  /\ answers \in Seq({"success", "failure"}) /\ Len(answers) <= MaxRequests
  /\ resets \in 0..MaxResets

Init ==
  /\ pc = "boot" /\ done = FALSE /\ linked = FALSE
  /\ token = "none" /\ access = "none" /\ stored = "none"
  /\ requests = 0 /\ answers = <<>> /\ registered = FALSE /\ resets = 0

-----------------------------------------------------------------------------
(* app_main. *)

\* Mutant: asks whatever NVS holds.
AlwaysAsk ==
  /\ pc = "boot"
  /\ pc' = "provision"
  /\ UNCHANGED <<done, token, access, linked, stored, net, resets>>

LoadStoredToken ==
  /\ pc = "boot"
  /\ access' = stored
  /\ pc' = IF stored = "none" THEN "provision" ELSE "start"
  /\ UNCHANGED <<done, token, linked, stored, net, resets>>

\* The wait ends with an answer or after 15 s; the client still runs.
StopWaiting ==
  /\ pc = "provision" /\ (done \/ "slow" \in Faults)
  /\ pc' = "stop"
  /\ UNCHANGED <<done, token, access, linked, stored, net, resets>>

StopClient(ok) ==
  /\ pc = "stop"
  /\ linked' = FALSE /\ answers' = <<>>
  /\ IF ok THEN access' = token /\ pc' = "save"
           ELSE pc' = "halted" /\ UNCHANGED access
  /\ UNCHANGED <<done, token, stored, requests, registered, resets>>

\* Mutant: any answer will do.
JudgeAnyAnswer == StopClient(done)

\* Mutant: the answer counts only if it ended the wait.
JudgeWaiting ==
  /\ pc \in {"provision", "stop"} /\ (done \/ "slow" \in Faults)
  /\ linked' = FALSE /\ answers' = <<>>
  /\ IF pc = "provision" /\ done /\ token # "none"
     THEN access' = token /\ pc' = "save"
     ELSE pc' = "halted" /\ UNCHANGED access
  /\ UNCHANGED <<done, token, stored, requests, registered, resets>>

\* Mutant: the token is used, but not saved.
JudgeUnsaved ==
  /\ pc = "stop"
  /\ linked' = FALSE /\ answers' = <<>>
  /\ IF done /\ token # "none" THEN access' = token /\ pc' = "start"
     ELSE pc' = "halted" /\ UNCHANGED access
  /\ UNCHANGED <<done, token, stored, requests, registered, resets>>

\* done and the token are looked at when no answer can come any more.
JudgeAnswer == StopClient(done /\ token # "none")

SaveToken ==
  /\ pc = "save"
  /\ stored' = access /\ pc' = "start"
  /\ UNCHANGED <<done, token, access, linked, net, resets>>

\* mqtt_app_start
StartClient ==
  /\ pc = "start"
  /\ pc' = "online"
  /\ UNCHANGED <<done, token, access, linked, stored, net, resets>>

Main == LoadStoredToken \/ StopWaiting \/ JudgeAnswer \/ SaveToken \/ StartClient

-----------------------------------------------------------------------------
(* provisioning_event_handler, in the task of the provisioning client. *)

Running == pc \in {"provision", "stop"}

\* The request goes out on every connection, the first answer pending or not.
ProvConnected ==
  /\ Running /\ ~linked /\ requests < MaxRequests
  /\ linked' = TRUE /\ requests' = requests + 1
  /\ UNCHANGED <<pc, done, token, access, stored, answers, registered, resets>>

\* The answers of this connection are gone, a request may be.
ProvDisconnected ==
  /\ Running /\ linked /\ "lose" \in Faults
  /\ linked' = FALSE /\ answers' = <<>>
  /\ requests' \in {0, requests}
  /\ UNCHANGED <<pc, done, token, access, stored, registered, resets>>

\* Mutant: takes the status for the token.
ProvDataStatus ==
  /\ Running /\ linked /\ answers # <<>>
  /\ answers' = Tail(answers)
  /\ token' = Head(answers)
  /\ done' = TRUE
  /\ UNCHANGED <<pc, access, linked, stored, requests, registered, resets>>

ProvData ==
  /\ Running /\ linked /\ answers # <<>>
  /\ answers' = Tail(answers)
  /\ token' = IF Head(answers) = "success" THEN "issued" ELSE token
  /\ done' = TRUE
  /\ UNCHANGED <<pc, access, linked, stored, requests, registered, resets>>

-----------------------------------------------------------------------------
(* The rest of the world (external). *)

\* ThingsBoard: the answer reaches the connection that is open, if one is.
ServerAnswers ==
  /\ requests > 0 /\ Len(answers) < MaxRequests
  /\ requests' = requests - 1 /\ registered' = TRUE
  /\ answers' = IF linked
                THEN Append(answers, IF registered THEN "failure" ELSE "success")
                ELSE answers
  /\ UNCHANGED <<ram, stored, resets>>

\* A reset, or the power cycle somebody gives a board that halted.
Reset ==
  /\ resets < MaxResets /\ ("reset" \in Faults \/ pc \in {"online", "halted"})
  /\ resets' = resets + 1
  /\ pc' = "boot" /\ done' = FALSE /\ linked' = FALSE
  /\ token' = "none" /\ access' = "none" /\ answers' = <<>>
  /\ UNCHANGED <<stored, requests, registered>>

Next == \/ Main
        \/ ProvConnected \/ ProvDisconnected \/ ProvData
        \/ ServerAnswers \/ Reset

Spec == Init /\ [][Next]_vars

\* app_main and the MQTT task run whenever they can; the server answers and
\* the timeout expires sooner or later.
FairSpec ==
  Spec /\ WF_vars(Main) /\ WF_vars(ProvConnected \/ ProvData) /\ WF_vars(ServerAnswers)

-----------------------------------------------------------------------------
(* Properties. *)

\* A token that reached the board is never thrown away, however close to the
\* 15 s it came and whatever came after it (app_main.c:583-590: done and the
\* token are judged after esp_mqtt_client_stop).
AnswerUsed == pc = "halted" => token = "none"

\* The real client starts only with a token ThingsBoard issued to this board.
OnlineWithToken == pc \in {"save", "start", "online"} => access = "issued" /\ registered

\* A board that stored its token comes online after every reset, with the
\* server long past issuing another one.
StoredComesBack == stored = "issued" ~> pc = "online"

-----------------------------------------------------------------------------
(* The inductive invariant behind the safety properties. *)

\* Wherever the token is, ThingsBoard has issued it, and on its way from the
\* answer to the real client it is kept.
TokenInv ==
  /\ answers # <<>> \/ "issued" \in {token, access, stored} => registered
  /\ token = "issued" => done
  /\ pc \in {"save", "start", "online"} => access = "issued"
  /\ pc \in {"start", "online"} => stored = "issued"
  /\ AnswerUsed
=============================================================================
