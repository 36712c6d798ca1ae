------------------------------ MODULE MCClients ------------------------------
(***************************************************************************)
(* The smaller programs of the repository, one model run: a behaviour is   *)
(* of the program its initial state names, and the others stand still.     *)
(*   "native", "retry", "install"   NativeOta: every fault and a reset     *)
(*              anywhere; faults that end in a retry; none;                *)
(*   "client"   TbClient;                                                  *)
(*   "zephyr"   ZephyrThingsBoard;                                         *)
(*   "lwm2m"    Lwm2mClient;        "firmware"  Lwm2mFirmware;             *)
(*   "script", "calm"   OtaUpdate with lost requests and power cuts, and   *)
(*              without;                                                   *)
(*   "reading"  Mcp3221.                                                   *)
(***************************************************************************)
EXTENDS MCNativeOta, MCMcp3221, Sequences

CONSTANTS
  MaxRequests, MaxResets, MaxQueue,    \* TbClient, ZephyrThingsBoard
  Intervals, Floor, DefaultInterval,   \* TbClient
  A, B, R, Old, Blocks,                \* Lwm2mFirmware, OtaUpdate
  Chunks, Attempts, MaxFaults

VARIABLES
  program,
  tbPc, done, token, access, stored, linked, requests, answers, registered, resets,
  connected, interval, left, rebooting, calls, wills, active, since,
  ztPc, ztSem, ztUp, ztLinked, ztDone, ztToken, due, inbox, unread, ztRegistered, issued, ztResets,
  lwPc, sem, up, paused, client, work, light, led_state, pin, accepted, enabled,
  state, result, dfu_started, written, fwSlot1, upgrade, fwRunning, push, next, fwFaults,
  step, image, hash, tries, outcome, slot1, received, pending, smpRunning, power, faults

natVars == vars
tbVars  == <<tbPc, done, token, access, stored, linked, requests, answers, registered,
             resets, connected, interval, left, rebooting, calls, wills, active, since>>
ztVars   == <<ztPc, ztSem, ztUp, ztLinked, ztDone, ztToken, due, inbox, unread, ztRegistered,
             issued, ztResets>>
lwVars  == <<lwPc, sem, up, paused, client, work, light, led_state, pin, accepted, enabled>>
fwVars  == <<state, result, dfu_started, written, fwSlot1, upgrade, fwRunning, push, next,
             fwFaults>>
smpVars == <<step, image, hash, tries, outcome, slot1, received, pending, smpRunning,
             power, faults>>
allVars == <<program, natVars, readingVars, tbVars, ztVars, lwVars, fwVars, smpVars>>

Retry   == INSTANCE NativeOta WITH CrashPoints <- {}, Faults <- Faults \ {"stall"}
Install == INSTANCE NativeOta WITH CrashPoints <- {}, Faults <- {}
Tb == INSTANCE TbClient WITH pc <- tbPc, Faults <- {"slow", "lose", "reset"}
Zephyr == INSTANCE ZephyrThingsBoard WITH
            pc <- ztPc, sem <- ztSem, up <- ztUp, linked <- ztLinked, done <- ztDone,
            token <- ztToken, registered <- ztRegistered, resets <- ztResets,
            Faults <- {"fail", "slow", "lose", "reset", "long", "late"}
Lwm2m == INSTANCE Lwm2mClient WITH
            pc <- lwPc, Faults <- {"setup", "link", "server", "gpio", "sensor"}
Firmware == INSTANCE Lwm2mFirmware WITH
            Images <- {A, B}, MaxFaults <- 3,
            slot1 <- fwSlot1, running <- fwRunning, faults <- fwFaults
Script == INSTANCE OtaUpdate WITH
            Images <- {A, B, R}, Rejected <- {R}, Dead <- {B}, running <- smpRunning
Calm == INSTANCE OtaUpdate WITH
            Images <- {A, B, R}, Rejected <- {R}, Dead <- {B}, running <- smpRunning,
            MaxFaults <- 0

ASSUME MCClientsAssumption ==
  /\ Tb!TbClientAssumption /\ Zephyr!ZephyrThingsBoardAssumption
  /\ Lwm2m!Lwm2mClientAssumption /\ Firmware!Lwm2mFirmwareAssumption
  /\ Script!OtaUpdateAssumption

MCInit ==
  /\ program \in {"native", "retry", "install", "client", "zephyr", "lwm2m",
                  "firmware", "script", "calm", "reading"}
  /\ Init /\ ReadingInit /\ Tb!Init /\ Zephyr!Init /\ Lwm2m!Init /\ Firmware!Init /\ Script!Init

NativeNext ==
  \/ program = "native"  /\ Next
  \/ program = "retry"   /\ Retry!Next
  \/ program = "install" /\ Install!Next

ScriptNext ==
  \/ program = "script" /\ Script!Next
  \/ program = "calm"   /\ Calm!Next

MCNext ==
  /\ UNCHANGED program
  /\ \/ NativeNext
          /\ UNCHANGED <<readingVars, tbVars, ztVars, lwVars, fwVars, smpVars>>
     \/ program = "reading" /\ ReadingNext
          /\ UNCHANGED <<natVars, tbVars, ztVars, lwVars, fwVars, smpVars>>
     \/ program = "client" /\ Tb!Next
          /\ UNCHANGED <<natVars, readingVars, ztVars, lwVars, fwVars, smpVars>>
     \/ program = "zephyr" /\ Zephyr!Next
          /\ UNCHANGED <<natVars, readingVars, tbVars, lwVars, fwVars, smpVars>>
     \/ program = "lwm2m" /\ Lwm2m!Next
          /\ UNCHANGED <<natVars, readingVars, tbVars, ztVars, fwVars, smpVars>>
     \/ program = "firmware" /\ Firmware!Next
          /\ UNCHANGED <<natVars, readingVars, tbVars, ztVars, lwVars, smpVars>>
     \/ ScriptNext
          /\ UNCHANGED <<natVars, readingVars, tbVars, ztVars, lwVars, fwVars>>

\* The fairness of the modules, each for its own program.
MCFairness ==
  /\ WF_natVars(program = "retry" /\ Retry!Device)
  /\ WF_natVars(program = "install" /\ Install!Device)
  /\ WF_tbVars(program = "client" /\ Tb!Main) /\ WF_tbVars(program = "client" /\ Tb!Handler)
  /\ WF_tbVars(program = "client" /\ Tb!ServerAnswers)
  /\ WF_tbVars(program = "client" /\ Tb!LastWill)
  /\ WF_ztVars(program = "zephyr" /\ Zephyr!Main)
  /\ WF_ztVars(program = "zephyr" /\ Zephyr!TelemetryDue)
  /\ WF_lwVars(program = "lwm2m" /\ Lwm2m!Main)
  /\ WF_lwVars(program = "lwm2m" /\ Lwm2m!SampleTemperature)
  /\ WF_lwVars(program = "lwm2m" /\ Lwm2m!TemperatureDue)
  /\ SF_lwVars(program = "lwm2m" /\ Lwm2m!Registered)
  /\ WF_fwVars(program = "firmware" /\ Firmware!Push)
  /\ WF_fwVars(program = "firmware" /\ (Firmware!WriteBlock \/ Firmware!WriteError))
  /\ SF_fwVars(program = "firmware" /\ Firmware!Update)
  /\ WF_fwVars(program = "firmware" /\ Firmware!Restart)
  /\ WF_smpVars(program = "script" /\ Script!Script) /\ WF_smpVars(program = "script" /\ Script!Board)
  /\ WF_smpVars(program = "calm" /\ Calm!Script) /\ WF_smpVars(program = "calm" /\ Calm!Board)

MCSpec == MCInit /\ [][MCNext]_allVars /\ MCFairness

-----------------------------------------------------------------------------
(* Properties of the modules, for the programs they are about. *)

\* The variables of every program keep their types.
ProgramsTypeOK ==
  /\ TypeOK /\ ReadingTypeOK /\ Tb!TypeOK /\ Zephyr!TypeOK /\ Lwm2m!TypeOK
  /\ Firmware!TypeOK /\ Script!TypeOK

\* Access tokens. TbClient: a token that reached the board is not thrown away,
\* the real client starts only with one issued to this board, and a device that
\* ever showed as active has its token in NVS. ZephyrThingsBoard: the second
\* connection is made with the token of this start.
TokensHold ==
  /\ Tb!AnswerUsed /\ Tb!OnlineWithToken /\ Tb!SeenIsStored
  /\ Zephyr!ConnectsWithToken

\* Images. NativeOta: the next reset, and the one after it, find a complete
\* image. Lwm2mFirmware: MCUboot is only asked for an image that is whole in
\* slot 1, and what Object 5 calls downloaded, "Update" does not refuse.
ImagesHold ==
  /\ AlwaysBootable
  /\ Firmware!UpgradeIsWhole /\ Firmware!DownloadedIsStarted

\* What is told is so. Lwm2mClient: a write of the light that was acknowledged
\* shows the light as it is. OtaUpdate: a run that ends "complete" left the
\* device on its image, unless MCUboot refused it. Mcp3221: both drivers tell
\* the same voltage.
ToldIsTrue ==
  /\ Lwm2m!LightIsTrue
  /\ Script!CompleteUnlessRejected
  /\ DriversAgree

\* OtaUpdate: only what this run uploaded is put up for the next boot.
ConfirmsOwn == Script!ConfirmsOwn

\* TbClient, from reset to reset: publications of one run are never closer than
\* the floor, a board that stored its token comes online again, and the
\* dashboard ends up with the truth about the connection.
SessionHolds == Tb!Paced /\ Tb!StoredComesBack /\ Tb!ActiveIsTrue

\* An update arrives: the image that stays on offer (NativeOta), that a server
\* tries again (Lwm2mFirmware), that a calm link carries (OtaUpdate).
UpdatesArrive ==
  /\ program = "install" => InstallsOffered
  /\ program = "firmware" => Firmware!Updated
  /\ program = "calm" => Calm!Installs

\* No program is stuck: the native example asks its server again and again,
\* telemetry of the Zephyr client never stops for good, the LwM2M client is
\* registered again when the network lasts and goes on with its temperature,
\* and the script ends.
ProgramsGoOn ==
  /\ program = "retry" => ChecksForever
  /\ Zephyr!TelemetryGoesOn
  /\ Lwm2m!RegistersAgain /\ Lwm2m!TemperatureGoesOn
  /\ Script!ScriptEnds
=============================================================================
