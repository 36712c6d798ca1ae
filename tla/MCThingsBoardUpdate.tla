------------------------- MODULE MCThingsBoardUpdate -------------------------
(***************************************************************************)
(* The update cycle of ThingsBoardOta in four scenarios, one model run.    *)
(* The initial state says which scenario a behaviour is of; each fixes the *)
(* crashes and faults that its properties allow:                           *)
(*   "resets"   everything but a change of mind of the server, and a reset *)
(*              at every point that does not defeat the anti-loop keys;    *)
(*   "ends"     the server assigns a second package at any time;           *)
(*   "install"  one assignment, no faults;                                 *)
(*   "report"   one assignment, resets as in the first, and reboots.       *)
(***************************************************************************)
EXTENDS MCThingsBoardOta

VARIABLE scenario

allVars == <<scenario, vars>>

Resets  == INSTANCE ThingsBoardOta WITH
             CrashPoints <- MCCrashOutsideWindow, Faults <- FaultKinds \ {"reassign"}
Ends    == INSTANCE ThingsBoardOta WITH CrashPoints <- {}, Faults <- {"reassign"}
Install == INSTANCE ThingsBoardOta WITH
             CrashPoints <- {}, Faults <- {"reassign"}, MaxAssigns <- 1
Report  == INSTANCE ThingsBoardOta WITH
             CrashPoints <- MCCrashOutsideWindow, Faults <- {"reassign", "reboot"},
             MaxAssigns <- 1

MCInit == Init /\ scenario \in {"resets", "ends", "install", "report"}

MCNext ==
  /\ UNCHANGED scenario
  /\ \/ scenario = "resets"  /\ Resets!Next
     \/ scenario = "ends"    /\ Ends!Next
     \/ scenario = "install" /\ Install!Next
     \/ scenario = "report"  /\ Report!Next

\* The fair actions are the same ones in the scenarios with a liveness property.
MCSpec == MCInit /\ [][MCNext]_allVars /\ Fairness

-----------------------------------------------------------------------------
(* Properties of ThingsBoardOta, in the scenario they are about. *)

\* What becomes of an assignment: its download ends, whatever else is assigned
\* meanwhile and no message being lost (app_main.c:342-347); the package that
\* stays assigned is installed and confirmed; if it was rolled back the server
\* learns of it (130-135).
AssignmentSettled ==
  /\ scenario = "ends" => DownloadEnds
  /\ scenario = "install" => InstallsAssigned
  /\ scenario = "report" => FailureReported
=============================================================================
