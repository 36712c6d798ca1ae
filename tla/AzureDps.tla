------------------------------ MODULE AzureDps ------------------------------
(***************************************************************************)
(* Registration of the Azure client with the Device Provisioning Service   *)
(* (esp-idf-azure-dps/main/app_main.c): app_main loops until the event     *)
(* handler of the DPS client flags the end or 60 s are counted, then saves *)
(* hub and device id in two commits.  The device may reset at any point,   *)
(* the session may be lost, and the service may take several polls, refuse *)
(* or send an answer that cannot be read.                                  *)
(*                                                                         *)
(* Abstractions: one turn of the loop is one tick; a token is good if key  *)
(* and clock are; a request is its kind, because the service answers for   *)
(* the registration id and not for the operation.                          *)
(***************************************************************************)
EXTENDS Naturals, Sequences

CONSTANTS
  Hub, DeviceId,  \* hub host names and device ids the service hands out
  None,           \* the NVS key is absent
  MaxTicks,       \* turns of the waiting loop (60000 / 200)
  MaxQueue,       \* bound: answers on their way
  Faults          \* subset of FaultKinds

FaultKinds == {"crash", "lose", "key", "clock", "refuse", "garbage"}
PC == {"off", "sync", "lookup", "register", "delay", "closing", "save_hub",
       "save_id", "hub", "halted"}
Assignment == Hub \X DeviceId
Answer == [kind : {"assigned"}, to : Assignment]
          \cup [kind : {"assigning", "unreadable", "incomplete", "refused"}]

AzureDpsAssumption ==
  /\ None \notin Hub \cup DeviceId
  /\ MaxTicks \in Nat \ {0} /\ MaxQueue \in Nat \ {0}
  /\ Faults \subseteq FaultKinds

VARIABLES
  nvsHub, nvsId,  \* NVS: assigned_hub, device_id
  key,            \* the configured key: "good", "wrong", "undecodable"
  synced,         \* SNTP answered in time
  pc,             \* progress of app_main; "delay": in the loop, before a poll
  connected,      \* the DPS client has a session
  done, success, poll,  \* s_dps_done, s_dps_success, s_dps_poll_pending
  assigned,       \* <<s_assigned_hub, s_device_id>>
  ticks,          \* waited_ms
  used,           \* hub and device id handed to connect_to_hub
  reqs, answers,  \* on their way to the service, to the device
  given           \* history: what the service assigned

nvs    == <<nvsHub, nvsId>>
flags  == <<done, success, poll, assigned>>
net    == <<connected, reqs, answers>>
vars   == <<nvs, key, synced, pc, flags, ticks, used, net, given>>

TypeOK ==
  /\ nvsHub \in Hub \cup {None} /\ nvsId \in DeviceId \cup {None}
  /\ key \in {"good", "wrong", "undecodable"}
  /\ {synced, connected, done, success, poll} \subseteq BOOLEAN
  /\ pc \in PC
  /\ {assigned, used} \subseteq (Hub \cup {None}) \X (DeviceId \cup {None})
  /\ ticks \in 0..MaxTicks
  /\ reqs \subseteq {"register", "status"} /\ answers \in Seq(Answer)
  /\ given \subseteq Assignment

Init ==
  /\ nvsHub = None /\ nvsId = None
  /\ key \in {"good"} \cup (IF "key" \in Faults THEN {"wrong", "undecodable"} ELSE {})
  /\ synced = FALSE /\ pc = "off"
  /\ done = FALSE /\ success = FALSE /\ poll = FALSE
  /\ assigned = <<None, None>> /\ used = <<None, None>>
  /\ ticks = 0
  /\ connected = FALSE /\ reqs = {} /\ answers = <<>>
  /\ given = {}

-----------------------------------------------------------------------------
(* app_main. *)

Boot ==
  /\ pc = "off"
  /\ pc' = "sync"
  /\ UNCHANGED <<nvs, key, synced, flags, ticks, used, net, given>>

\* sync_time: a timeout is only logged.
SyncTime ==
  /\ pc = "sync"
  /\ synced' \in {TRUE} \cup (IF "clock" \in Faults THEN {FALSE} ELSE {})
  /\ pc' = "lookup"
  /\ UNCHANGED <<nvs, key, flags, ticks, used, net, given>>

\* Mutant: one of the two keys is taken for both.
LookupEither ==
  /\ pc = "lookup"
  /\ IF nvsHub # None \/ nvsId # None
     THEN pc' = "hub" /\ used' = nvs
     ELSE pc' = (IF key = "undecodable" THEN "halted" ELSE "register") /\ UNCHANGED used
  /\ UNCHANGED <<nvs, key, synced, flags, ticks, net, given>>

\* A saved assignment is used; otherwise build_sas_token, which refuses a key
\* that is not base64, and the DPS client is started.
Lookup ==
  /\ pc = "lookup"
  /\ IF nvsHub # None /\ nvsId # None
     THEN pc' = "hub" /\ used' = nvs
     ELSE pc' = (IF key = "undecodable" THEN "halted" ELSE "register") /\ UNCHANGED used
  /\ UNCHANGED <<nvs, key, synced, flags, ticks, net, given>>

\* A turn of the loop without a poll.
Tick ==
  /\ pc = "register" /\ ~done /\ ~poll /\ ticks < MaxTicks
  /\ ticks' = ticks + 1
  /\ UNCHANGED <<nvs, key, synced, pc, flags, used, net, given>>

\* A turn with a poll: 2 s that are not counted, then the request.
StartPoll ==
  /\ pc = "register" /\ ~done /\ poll /\ ticks < MaxTicks
  /\ poll' = FALSE /\ pc' = "delay"
  /\ UNCHANGED <<nvs, key, synced, done, success, assigned, ticks, used, net, given>>

\* Mutant: a turn with a poll is not counted at all.
SendPollUncounted ==
  /\ pc = "delay"
  /\ reqs' = reqs \cup {"status"}
  /\ pc' = "register"
  /\ UNCHANGED <<nvs, key, synced, flags, ticks, used, connected, answers, given>>

SendPoll ==
  /\ pc = "delay"
  /\ reqs' = reqs \cup {"status"}
  /\ ticks' = ticks + 1
  /\ pc' = "register"
  /\ UNCHANGED <<nvs, key, synced, flags, used, connected, answers, given>>

\* The handler still runs until the client is stopped.
LeaveLoop ==
  /\ pc = "register" /\ (done \/ ticks = MaxTicks)
  /\ pc' = "closing"
  /\ UNCHANGED <<nvs, key, synced, flags, ticks, used, net, given>>

\* Client stopped and destroyed, flags tested.
Close ==
  /\ pc = "closing"
  /\ pc' = IF done /\ success THEN "save_hub" ELSE "halted"
  /\ connected' = FALSE /\ reqs' = {} /\ answers' = <<>>
  /\ UNCHANGED <<nvs, key, synced, flags, ticks, used, given>>

SaveHub ==
  /\ pc = "save_hub"
  /\ nvsHub' = assigned[1] /\ pc' = "save_id"
  /\ UNCHANGED <<nvsId, key, synced, flags, ticks, used, net, given>>

\* Mutant: the hub is saved under both keys.
SaveHubTwice ==
  /\ pc = "save_id"
  /\ nvsId' = assigned[1]
  /\ pc' = "hub" /\ used' = assigned
  /\ UNCHANGED <<nvsHub, key, synced, flags, ticks, net, given>>

SaveDeviceId ==
  /\ pc = "save_id"
  /\ nvsId' = assigned[2]
  /\ pc' = "hub" /\ used' = assigned
  /\ UNCHANGED <<nvsHub, key, synced, flags, ticks, net, given>>

Crash ==
  /\ "crash" \in Faults /\ pc # "off"
  /\ pc' = "off" /\ synced' = FALSE /\ ticks' = 0
  /\ done' = FALSE /\ success' = FALSE /\ poll' = FALSE
  /\ assigned' = <<None, None>> /\ used' = <<None, None>>
  /\ connected' = FALSE /\ reqs' = {} /\ answers' = <<>>
  /\ UNCHANGED <<nvs, key, given>>

-----------------------------------------------------------------------------
(* dps_mqtt_event_handler, in the task of the DPS client. *)

ClientRuns == pc \in {"register", "delay", "closing"}

\* build_sas_token signs whatever key and clock it has: the service only
\* accepts the token if both are right.
TokenAccepted == key = "good" /\ synced

DpsConnected ==
  /\ ClientRuns /\ ~connected /\ TokenAccepted
  /\ connected' = TRUE /\ reqs' = reqs \cup {"register"}
  /\ UNCHANGED <<nvs, key, synced, pc, flags, ticks, used, answers, given>>

DpsDisconnected ==
  /\ ClientRuns /\ connected /\ "lose" \in Faults
  /\ connected' = FALSE /\ answers' = <<>> /\ reqs' \in {reqs, {}}
  /\ UNCHANGED <<nvs, key, synced, pc, flags, ticks, used, given>>

HandleAnswer ==
  /\ ClientRuns /\ answers # <<>>
  /\ LET a == Head(answers) IN
       CASE a.kind = "assigned" ->
              done' = TRUE /\ success' = TRUE /\ assigned' = a.to /\ UNCHANGED poll
         [] a.kind \in {"incomplete", "refused"} ->
              done' = TRUE /\ UNCHANGED <<success, assigned, poll>>
         [] a.kind = "assigning" ->
              poll' = TRUE /\ UNCHANGED <<done, success, assigned>>
         [] OTHER -> UNCHANGED flags
  /\ answers' = Tail(answers)
  /\ UNCHANGED <<nvs, key, synced, pc, ticks, used, connected, reqs, given>>

\* The service (external): allocation takes as many polls as it likes.
ServiceAnswers ==
  /\ connected /\ Len(answers) < MaxQueue
  /\ \E r \in reqs, a \in Answer :
       /\ a.kind = "refused" => "refuse" \in Faults
       /\ a.kind \in {"unreadable", "incomplete"} => "garbage" \in Faults
       /\ reqs' = reqs \ {r}
       /\ answers' = Append(answers, a)
       /\ given' = IF a.kind = "assigned" THEN given \cup {a.to} ELSE given
  /\ UNCHANGED <<nvs, key, synced, pc, flags, ticks, used, connected>>

Main == \/ Boot \/ SyncTime \/ Lookup \/ Tick \/ StartPoll \/ SendPoll
        \/ LeaveLoop \/ Close \/ SaveHub \/ SaveDeviceId

Next == \/ Main \/ Crash \/ DpsConnected \/ DpsDisconnected \/ HandleAnswer
        \/ ServiceAnswers

Spec == Init /\ [][Next]_vars

\* app_main is scheduled; nothing is assumed of the network or the service.
FairSpec == Spec /\ WF_vars(Main)

-----------------------------------------------------------------------------
(* Properties. *)

\* The hub and the device id the client connects with come from one answer of
\* the service, although they are saved in two commits (app_main.c:907-908)
\* and the service may move the device between two registrations.
ConnectsAsAssigned == pc = "hub" => used \in given

\* An assignment that the handler took in before the client was stopped is not
\* thrown away, even if the loop had already timed out.
AssignmentKept == pc = "halted" => ~success

\* app_main leaves the waiting loop although polls stretch it beyond the 60 s
\* and the service may never come to an end (app_main.c:352-370).
RegistrationEnds == pc = "register" ~> pc \in {"closing", "off"}

-----------------------------------------------------------------------------
(* The inductive invariant behind ConnectsAsAssigned and AssignmentKept. *)

\* What is on its way was assigned, and so was what the handler took in.
AnswerInv ==
  /\ \A i \in DOMAIN answers : answers[i].kind = "assigned" => answers[i].to \in given
  /\ success => done /\ assigned \in given

\* A device id is saved only behind its own hub and never before the loop, which
\* therefore registers again after a reset between the two commits.
SavedInv ==
  /\ nvsId # None => nvs \in given
  /\ pc \in {"register", "delay", "closing", "save_hub", "save_id"} => nvsId = None
  /\ pc = "save_hub" => success
  /\ pc = "save_id" => success /\ nvsHub = assigned[1]

\* The flags are set by the handler of a client that runs.
FlagInv == pc \in {"off", "sync", "lookup", "halted"} => ~success

DpsInv ==
  /\ answers \in Seq(Answer) /\ given \subseteq Assignment
  /\ AnswerInv /\ SavedInv /\ FlagInv /\ ConnectsAsAssigned
=============================================================================
