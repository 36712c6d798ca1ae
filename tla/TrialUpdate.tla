----------------------------- MODULE TrialUpdate -----------------------------
(***************************************************************************)
(* What an update mechanism with rollback promises, whatever it downloads  *)
(* from where: there is always one confirmed image; at most one other      *)
(* image is staged beside it; a staged image is started once, and either   *)
(* confirms itself in that run or is given up at the next start, when the  *)
(* confirmed image runs again (esp-idf-thingsboard/main/app_main.c:653-659 *)
(* and the same comment in esp-idf-azure-dps/main/app_main.c).             *)
(***************************************************************************)
CONSTANTS Image, NoImage, FactoryImage

VARIABLES
  confirmed,  \* the image known to be good
  trial,      \* the image staged or on trial, or NoImage
  started,    \* the trial has had its one start
  active      \* what runs now

vars == <<confirmed, trial, started, active>>

TypeOK ==
  /\ confirmed \in Image
  /\ trial \in Image \cup {NoImage}
  /\ started \in BOOLEAN
  /\ active \in {"off", "confirmed", "trial"}

Init ==
  /\ confirmed = FactoryImage
  /\ trial = NoImage
  /\ started = FALSE
  /\ active = "off"

\* The device loses power, crashes or restarts.
Stop ==
  /\ active # "off"
  /\ active' = "off"
  /\ UNCHANGED <<confirmed, trial, started>>

StartConfirmed ==
  /\ active = "off" /\ trial = NoImage
  /\ active' = "confirmed"
  /\ UNCHANGED <<confirmed, trial, started>>

StartTrial ==
  /\ active = "off" /\ trial # NoImage /\ ~started
  /\ active' = "trial"
  /\ started' = TRUE
  /\ UNCHANGED <<confirmed, trial>>

RollBack ==
  /\ active = "off" /\ trial # NoImage /\ started
  /\ active' = "confirmed"
  /\ trial' = NoImage
  /\ started' = FALSE
  /\ UNCHANGED confirmed

Stage ==
  /\ active = "confirmed" /\ trial = NoImage
  /\ trial' \in Image
  /\ UNCHANGED <<confirmed, started, active>>

Confirm ==
  /\ active = "trial"
  /\ active' = "confirmed"
  /\ confirmed' = trial
  /\ trial' = NoImage
  /\ started' = FALSE

\* The trial fails its own test: it gives itself up and restarts.
Reject ==
  /\ active = "trial"
  /\ active' = "off"
  /\ trial' = NoImage
  /\ started' = FALSE
  /\ UNCHANGED confirmed

Next == Stop \/ StartConfirmed \/ StartTrial \/ RollBack \/ Stage \/ Confirm
        \/ Reject

Spec == Init /\ [][Next]_vars
=============================================================================
