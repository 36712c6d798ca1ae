------------------------------ MODULE NativeOta ------------------------------
(***************************************************************************)
(* The native HTTP OTA example (esp-idf-ota/main/native_ota_example.c): a  *)
(* trial image runs its diagnostic, then every boot asks the server for an *)
(* image, decides on the version in its header and on the slot the         *)
(* bootloader invalidated last, downloads, activates, and restarts; a      *)
(* check that ends in nothing restarts the device after 30 s.              *)
(*                                                                         *)
(* Abstractions: the URL serves one image; the decision with               *)
(* esp_ota_begin, and the download, are one step each.                     *)
(***************************************************************************)
EXTENDS EspOta

CONSTANTS
  Version,      \* Version[p]: version in the application description of p
  CrashPoints,  \* values of pc at which the device may reset unasked
  Faults,       \* subset of {"http", "flash", "stall", "diagnostic"}
  MaxOffers     \* bound: changes of the image the server offers

PC == {"off", "diagnose", "connect", "check", "download", "stalled",
       "received", "ended", "restart", "wait"}

ASSUME NativeOtaAssumption ==
  /\ DOMAIN Version = Package
  /\ CrashPoints \subseteq PC \ {"off"}
  /\ Faults \subseteq {"http", "flash", "stall", "diagnostic"}
  /\ MaxOffers \in Nat

VARIABLES
  pc,              \* progress of app_main and ota_example_task
  got,             \* the image the open connection delivers
  header,          \* header[s]: whose application description slot s holds
  offered, offers, \* server: the image at the URL; changes made (bounded)
  rolledBack       \* history: versions rolled back since the offer changed

vars == <<EspOtaVars, pc, got, header, offered, offers, rolledBack>>

TypeOK ==
  /\ EspOtaTypeOK
  /\ pc \in PC
  /\ got \in Package \cup {NoPackage}
  /\ header \in [Slot -> Package \cup {NoPackage}]
  /\ offered \in Package
  /\ offers \in 0..MaxOffers
  /\ rolledBack \subseteq {Version[p] : p \in Package}

Init ==
  /\ EspOtaInit
  /\ pc = "off" /\ got = NoPackage /\ header = flash
  /\ offered = FactoryImage /\ offers = 0
  /\ rolledBack = {}

-----------------------------------------------------------------------------
(* app_main. *)

Boot ==
  /\ pc = "off"
  /\ Bootloader
  /\ rolledBack' = rolledBack \cup {Version[flash[s]] : s \in AbortedAtReset}
  /\ pc' = "diagnose"
  /\ UNCHANGED <<got, header, offered, offers>>

\* Mutant: every image is marked valid, whatever the diagnostic says.
DiagnoseKindly ==
  /\ pc = "diagnose"
  /\ \/ MarkValid /\ pc' = "connect" /\ UNCHANGED rolledBack
     \/ /\ OnTrial /\ "diagnostic" \in Faults
        /\ MarkValid /\ pc' = "off"
        /\ rolledBack' = rolledBack \cup {Version[flash[running]]}
  /\ UNCHANGED <<got, header, offered, offers>>

\* Mutant: a passed diagnostic is not written down.
DiagnoseUnmarked ==
  /\ pc = "diagnose"
  /\ pc' = "connect"
  /\ UNCHANGED <<EspOtaVars, got, header, offered, offers, rolledBack>>

Diagnose ==
  /\ pc = "diagnose"
  /\ \/ /\ IF OnTrial THEN MarkValid ELSE UNCHANGED EspOtaVars
        /\ pc' = "connect" /\ UNCHANGED rolledBack
     \/ /\ OnTrial /\ "diagnostic" \in Faults
        /\ MarkInvalid /\ pc' = "off"
        /\ rolledBack' = rolledBack \cup {Version[flash[running]]}
  /\ UNCHANGED <<got, header, offered, offers>>

\* example_connect succeeds (its failure aborts: Crash at "connect").
Connect ==
  /\ pc = "connect"
  /\ pc' = "check"
  /\ UNCHANGED <<EspOtaVars, got, header, offered, offers, rolledBack>>

-----------------------------------------------------------------------------
(* ota_example_task. *)

\* Mutant: the update is written over the running slot.
TargetIsRunning == IF running = "factory" THEN "ota_0" ELSE running

Target == NextUpdate(running)

\* Mutant: only the running version is looked at.
NotRunning(v) == v # Version[flash[running]]

\* The version is neither that of the slot that was invalidated last nor the
\* running one.  A slot without a description leaves the version that is
\* compared uninitialised: either outcome.
Wanted(v) ==
  /\ v # Version[flash[running]]
  /\ \A s \in LastInvalid : header[s] # NoPackage => v # Version[header[s]]

Undescribed == \E s \in LastInvalid : header[s] = NoPackage

\* Mutant: the version is kept in place of the image.
CheckVersionOnly ==
  /\ pc = "check"
  /\ got' = Version[offered] /\ pc' = "wait"
  /\ UNCHANGED <<EspOtaVars, header, offered, offers, rolledBack>>

\* Connection and first read: the header decides, then the slot is begun.
CheckServer ==
  /\ pc = "check"
  /\ got' = offered
  /\ \/ /\ Wanted(Version[offered])
        /\ OtaBegin(Target) /\ header' = [header EXCEPT ![Target] = NoPackage]
        /\ pc' = "download"
     \/ /\ ~Wanted(Version[offered]) \/ Undescribed \/ OnTrial
           \/ {"http", "flash"} \cap Faults # {}
        /\ pc' = "wait" /\ UNCHANGED <<EspOtaVars, header>>
  /\ UNCHANGED <<offered, offers, rolledBack>>

\* The first write brings the description, the others the image.
Download ==
  /\ pc = "download"
  /\ header' \in {header, [header EXCEPT ![Target] = got]}
  /\ \/ pc' = "received" /\ header'[Target] = got
     \/ pc' = "wait" /\ {"http", "flash"} \cap Faults # {}
     \/ pc' = "stalled" /\ "stall" \in Faults
  /\ UNCHANGED <<EspOtaVars, got, offered, offers, rolledBack>>

\* A read of nothing that is neither an error nor the end is repeated.
ReadAgain == pc = "stalled" /\ UNCHANGED vars

\* esp_ota_end: the slot now holds the image its header announced.
EndUpdate ==
  /\ pc = "received"
  /\ \/ OtaEnd(Target, got) /\ pc' = "ended"
     \/ {"http", "flash"} \cap Faults # {} /\ pc' = "wait" /\ UNCHANGED EspOtaVars
  /\ UNCHANGED <<got, header, offered, offers, rolledBack>>

\* Mutant: the slot is activated before it is complete.
ActivateEarly ==
  /\ pc \in {"received", "ended"}
  /\ SetBoot(Target) /\ pc' = "restart"
  /\ UNCHANGED <<got, header, offered, offers, rolledBack>>

ActivateUpdate ==
  /\ pc = "ended"
  /\ \/ SetBoot(Target) /\ pc' = "restart"
     \/ "flash" \in Faults /\ pc' = "wait" /\ UNCHANGED EspOtaVars
  /\ UNCHANGED <<got, header, offered, offers, rolledBack>>

\* Mutant: without an update the task ends.
RestartIntoUpdateOnly ==
  /\ pc \in {"restart", "wait"}
  /\ pc' = IF pc = "restart" THEN "off" ELSE "wait"
  /\ UNCHANGED <<EspOtaVars, got, header, offered, offers, rolledBack>>

\* esp_restart: into the update, or 30 s after a check that led nowhere
\* (task_fatal_error, infinite_loop).
Restart ==
  /\ pc \in {"restart", "wait"}
  /\ pc' = "off"
  /\ UNCHANGED <<EspOtaVars, got, header, offered, offers, rolledBack>>

Crash ==
  /\ pc \in CrashPoints
  /\ pc' = "off"
  /\ UNCHANGED <<EspOtaVars, got, header, offered, offers, rolledBack>>

\* The update server (external).
ChangeOffer ==
  /\ offers < MaxOffers
  /\ \E p \in Package \ {offered} : offered' = p
  /\ offers' = offers + 1 /\ rolledBack' = {}
  /\ UNCHANGED <<EspOtaVars, pc, got, header>>

Device == \/ Boot \/ Diagnose \/ Connect \/ CheckServer \/ Download
          \/ EndUpdate \/ ActivateUpdate \/ Restart \/ ReadAgain

Next == Device \/ Crash \/ ChangeOffer

Spec == Init /\ [][Next]_vars

FairSpec == Spec /\ WF_vars(Device)

-----------------------------------------------------------------------------
(* Properties. *)

\* A reset at any point finds a complete image and a complete fallback.
AlwaysBootable == Bootable

Activity ==
  IF pc = "off" THEN "off" ELSE IF OnTrial THEN "trial" ELSE "confirmed"

Trial == INSTANCE TrialUpdate WITH
  Image     <- Package,
  NoImage   <- NoPackage,
  confirmed <- ConfirmedImage,
  trial     <- TrialImage,
  started   <- TrialStarted,
  active    <- Activity

\* The update mechanism of TrialUpdate, whose trial here may also fail its own
\* diagnostic (app_main: mark valid, or invalid and roll back).
ImplementsTrialUpdate == Trial!Spec

\* A version that was rolled back is not downloaded again while the server
\* offers it (native_ota_example.c:172-180: "Previously, there was an attempt
\* to launch the firmware ... but it failed"), wherever the device resets.
NoAutomaticRetry ==
  [][pc = "check" /\ pc' = "download" => Version[offered] \notin rolledBack]_vars

\* The server is asked again and again, whatever became of the last check
\* (native_ota_example.c:54-62: "Retrying ... (no manual reset required)").
ChecksForever == []<>(pc = "check")

\* A good image that stays on offer is installed and confirmed.
InstallsOffered ==
  \A p \in Package :
    offered = p ~> offered # p \/ (pc = "check" /\ flash[running] = p /\ ~OnTrial)

-----------------------------------------------------------------------------
(* The inductive invariant behind these properties. *)

\* The image that runs, from the reset to the restart into its successor.
RunningInv ==
  /\ pc \notin {"off", "restart"} => RunsActive
  /\ pc \notin {"off", "diagnose", "restart"} => RunsConfirmed
  /\ pc = "restart" => Activated

\* A slot with an image has its description, and the slot that is filled has
\* no image before esp_ota_end.
ContentInv ==
  /\ \A s \in Slot : flash[s] # NoPackage => header[s] = flash[s]
  /\ pc \in {"download", "stalled", "received"} => flash[Target] = NoPackage
  /\ pc \in {"download", "stalled", "received", "ended"} => got \in Package
  /\ pc \in {"received", "ended"} => header[Target] = got
  /\ pc = "ended" => flash[Target] = got

\* While a version that was rolled back is on offer, the boot record that was
\* invalidated last still names a slot with its description.
RetryInv ==
  Version[offered] \in rolledBack =>
    /\ otadata.newer.state \in {"INVALID", "ABORTED"}
    /\ header[otadata.newer.slot] # NoPackage
    /\ Version[header[otadata.newer.slot]] = Version[offered]
    /\ pc \in {"off", "diagnose", "connect", "check", "wait"}

IInv == TypeOK /\ RecordInv /\ RunningInv /\ ContentInv /\ RetryInv
==============================================================================
