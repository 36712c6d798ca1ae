----------------------------- MODULE MCSerialLora -----------------------------
(***************************************************************************)
(* The two LoRa drivers that talk to their radio over a serial line, one   *)
(* model run: a behaviour is of the driver its initial state names, and    *)
(* the other one stands still.                                             *)
(*   "rylr"     Rylr in time, with more packets than fit into the queue;   *)
(*   "ry_late"  the same with the cfg's Faults: late answers, scripts that *)
(*              do not start;                                              *)
(*   "rn2483"   Rn2483 with a module that answers in time, if it does;     *)
(*   "rn_late"  the same with late and cut answers too.                    *)
(***************************************************************************)
EXTENDS Rylr

CONSTANTS MaxSends

VARIABLES driver, pc, step, sends, result, credited, cmds, due, rx, programmed

rnVars == <<pc, step, sends, result, credited, cmds, due, rx, programmed>>
allVars == <<driver, vars, rnVars>>

OnTime == INSTANCE Rylr WITH Faults <- {}
Rn     == INSTANCE Rn2483 WITH Faults <- {"refuse", "deaf"}
RnLate == INSTANCE Rn2483 WITH Faults <- {"slow", "split", "refuse", "deaf"}

ASSUME RnAssumption == Rn!Rn2483Assumption /\ RnLate!Rn2483Assumption

MCInit ==
  /\ driver \in {"rylr", "ry_late", "rn2483", "rn_late"}
  /\ Init /\ Rn!Init
  /\ driver \notin {"rn2483", "rn_late"} => rx = <<>>

MCNext ==
  /\ UNCHANGED driver
  /\ \/ driver = "rylr"    /\ OnTime!Next /\ UNCHANGED rnVars
     \/ driver = "ry_late" /\ Next        /\ UNCHANGED rnVars
     \/ driver = "rn2483"  /\ Rn!Next     /\ UNCHANGED vars
     \/ driver = "rn_late" /\ RnLate!Next /\ UNCHANGED vars

\* The fairness of the modules, each for its own driver.
RyFairness ==
  /\ WF_vars(driver = "rylr" /\ (OnTime!Answer \/ OnTime!TimesOut))
  /\ \A t \in Threads : WF_vars(driver = "rylr" /\ OnTime!Continue(t))
RnFairness ==
  /\ WF_rnVars(driver = "rn_late" /\ RnLate!Driver)
  /\ WF_rnVars(driver = "rn_late" /\ RnLate!Module)
  /\ WF_rnVars(driver = "rn_late" /\ RnLate!Deliver)

MCSpec == MCInit /\ [][MCNext]_allVars /\ RyFairness /\ RnFairness

-----------------------------------------------------------------------------
(* Properties of the modules, for the drivers they are about. *)

\* The variables of both drivers keep their types.
DriversTypeOK == TypeOK /\ Rn!TypeOK

\* RN2483: what the driver reports is about what it did itself. If lora_config
\* returns 0 the module took all four settings; if lora_send returns 0 it was
\* its own transmission that ended well, the module being in time (rn_late).
RnAnswersAreOwn == Rn!ConfiguredIsTrue /\ (driver = "rn2483" => Rn!SentIsOwn)

\* A call comes back: lora_send of the RN2483 driver also if the module never
\* answers, an operation of the RYLR driver if the radio answers in time.
OperationsEnd ==
  /\ driver = "rn_late" => RnLate!SendReturns
  /\ driver = "rylr" => OperationEnds
=============================================================================
