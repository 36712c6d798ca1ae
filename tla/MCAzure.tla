------------------------------- MODULE MCAzure -------------------------------
(***************************************************************************)
(* The parts of the Azure client (esp-idf-azure-dps/main/app_main.c), one  *)
(* model run: a behaviour is of the part its initial state names, and the  *)
(* other parts stand still.                                                *)
(*   "safety"    AzureOta with the cfg's faults and resets;                *)
(*   "antiloop"  the same, no reset between the erasure of pending_fw and  *)
(*               the confirmation of the image;                            *)
(*   "badmark"   no reset or reboot while ota_task may be at work;         *)
(*   "install"   no faults;                                                *)
(*   "report"    resets before Wi-Fi is up;                                *)
(*   "register"  AzureDps;                                                 *)
(*   "operate"   AzureHub;                                                 *)
(*   "encode"    UrlEncode.                                                *)
(***************************************************************************)
EXTENDS MCAzureOta, UrlEncode

CONSTANTS Hub, DeviceId, None, MaxTicks, Intervals, MinInterval, DefaultInterval, MaxInt

VARIABLES
  part,
  nvsHub, nvsId, key, synced, dpsPc, dpsConnected, done, success, poll, assigned,
  ticks, used, reqs, answers, given,
  hubConnected, force, interval, reported, tpc, forced, waited, rebooting, calls,
  replies, unserved

dpsVars == <<nvsHub, nvsId, key, synced, dpsPc, dpsConnected, done, success, poll,
             assigned, ticks, used, reqs, answers, given>>
hubVars == <<hubConnected, force, interval, reported, tpc, forced, waited, rebooting,
             calls, replies, unserved>>
allVars == <<part, vars, dpsVars, hubVars, encodeVars>>

OtaParts  == {"safety", "antiloop", "badmark", "install", "report"}
LiveParts == {"install", "report"}

Antiloop == INSTANCE AzureOta WITH CrashPoints <- CrashPoints \ {"connect", "confirm"}
Badmark  == INSTANCE AzureOta WITH
              CrashPoints <- CrashPoints \ {"run"}, Faults <- Faults \ {"reboot"}
Install  == INSTANCE AzureOta WITH CrashPoints <- {}, Faults <- {}, MaxChanges <- 2
Report   == INSTANCE AzureOta WITH
              CrashPoints <- CrashPoints \cap {"reconcile", "erase"},
              Faults <- {}, MaxChanges <- 2
Register == INSTANCE AzureDps WITH
              pc <- dpsPc, connected <- dpsConnected,
              Faults <- {"crash", "lose", "key", "clock", "refuse", "garbage"}
Operate  == INSTANCE AzureHub WITH connected <- hubConnected, Faults <- {"lose", "reset"}

ASSUME MCAzureAssumption ==
  /\ MaxChanges >= 2
  /\ Register!AzureDpsAssumption /\ Operate!AzureHubAssumption

MCInit ==
  /\ part \in OtaParts \cup {"register", "operate", "encode"}
  /\ Init /\ Register!Init /\ Operate!Init /\ EncodeInit
  /\ part # "register" => key = "good"
  /\ part # "encode" => src = <<>> /\ size = 1

OtaNext ==
  \/ part = "safety"   /\ Next
  \/ part = "antiloop" /\ Antiloop!Next
  \/ part = "badmark"  /\ Badmark!Next
  \/ part = "install"  /\ Install!Next
  \/ part = "report"   /\ Report!Next

MCNext ==
  /\ UNCHANGED part
  /\ \/ OtaNext /\ UNCHANGED <<dpsVars, hubVars, encodeVars>>
     \/ part = "register" /\ Register!Next /\ UNCHANGED <<vars, hubVars, encodeVars>>
     \/ part = "operate" /\ Operate!Next /\ UNCHANGED <<vars, dpsVars, encodeVars>>
     \/ part = "encode" /\ EncodeNext /\ UNCHANGED <<vars, dpsVars, hubVars>>

\* The fairness of the modules, each for its own part: FreeRTOS runs the tasks,
\* esp-mqtt reconnects, the hub answers.  Install!OtaTask is ota_task without
\* faults, in both of the parts that have liveness properties.
MCSpec ==
  /\ MCInit /\ [][MCNext]_allVars
  /\ WF_vars(part \in LiveParts /\ Main)
  /\ WF_vars(part \in LiveParts /\ Install!OtaTask)
  /\ WF_vars(part \in LiveParts /\ HubConnected)
  /\ WF_vars(part \in LiveParts /\ HandleTwin)
  /\ WF_vars(part \in LiveParts /\ ServeTwin)
  /\ WF_dpsVars(part = "register" /\ Register!Main)
  /\ WF_hubVars(part = "operate" /\ Operate!Telemetry)

-----------------------------------------------------------------------------
(* Properties of the modules, in the parts they are about. *)

\* Every part's variables keep their types.
PartsTypeOK == TypeOK /\ Register!TypeOK /\ Operate!TypeOK /\ EncodeTypeOK

\* What the device connects with: hub and device id come from one answer of the
\* service, and an assignment the handler took in is not thrown away.
CredentialsHold == Register!ConnectsAsAssigned /\ Register!AssignmentKept

\* What the hub is owed: every cloud-to-device message is followed by a
\* publication, and the reported interval of a connected device is the one in force.
HubServed == Operate!C2dNotForgotten /\ Operate!ReportedIntervalHolds

\* The anti-loop keys refuse a version that was rolled back while it is desired
\* (app_main.c:645-648), resets between the erasure of pending_fw and the
\* confirmation left aside, and only such a version is called known-bad
\* (817-821), if nothing stops ota_task at its work.
KeysHold ==
  [][ /\ part \in {"antiloop", "install", "report"} => StartsNoRetry
      /\ part = "badmark" => MarksRolledBack ]_vars

\* What is begun comes to an end: the desired version is installed and confirmed
\* if it stays desired, and if it was rolled back the hub learns of it; app_main
\* leaves the wait for the registration (app_main.c:352-370); on a connection
\* that lasts telemetry never stops.
PartsGoOn ==
  /\ part = "install" => InstallsDesired
  /\ part = "report" => FailureReported
  /\ Register!RegistrationEnds /\ Operate!TelemetryGoesOn
=============================================================================
