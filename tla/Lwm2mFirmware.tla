---------------------------- MODULE Lwm2mFirmware ----------------------------
(***************************************************************************)
(* Firmware update of the LwM2M client by push (lwm2m/src/                 *)
(* firmware_update.c, lwm2m_ota_push.py): the server writes an image block *)
(* by block into Object 5, the callbacks write it to slot 1, "Update" asks *)
(* MCUboot for a permanent upgrade and restarts.                           *)
(*                                                                         *)
(* Abstractions: an image is Blocks blocks long and a block is the image   *)
(* it is from.  The LwM2M engine (external) runs the callbacks one after   *)
(* the other, hands over the blocks of a transfer in order and drives the  *)
(* state of Object 5 by what they return.  MCUboot (external) applies a    *)
(* whole image only, and never takes it back.                              *)
(***************************************************************************)
EXTENDS Naturals

CONSTANTS
  Images,     \* images the server may push
  Old,        \* the image of the factory
  Blocks,     \* length of an image
  MaxFaults   \* bound: failing calls, lost transfers, resets

Lwm2mFirmwareAssumption ==
  /\ Old \notin Images /\ Blocks \in Nat \ {0} /\ MaxFaults \in Nat

VARIABLES
  state,        \* /5/0/3
  result,       \* /5/0/5
  dfu_started,
  written,      \* dfu_ctx: blocks written since flash_img_init
  slot1,        \* what stands in slot 1
  upgrade,      \* MCUboot has been asked for the upgrade
  running,      \* the image in slot 0
  push,         \* the transfer under way: its image, or none
  next,         \* its next block
  faults

dev == <<state, result, dfu_started, written>>
flash == <<slot1, upgrade, running>>
transfer == <<push, next>>
vars == <<dev, flash, transfer, faults>>

None == "none"
Whole(img) == [b \in 0..Blocks-1 |-> img]

TypeOK ==
  /\ state \in {"idle", "downloading", "downloaded"}
  /\ result \in {"default", "success", "failed", "no_storage"}
  /\ {dfu_started, upgrade} \subseteq BOOLEAN
  /\ written \in 0..Blocks /\ next \in 0..Blocks
  /\ slot1 \in [0..Blocks-1 -> Images \cup {None}]
  /\ running \in Images \cup {Old} /\ push \in Images \cup {None}
  /\ faults \in 0..MaxFaults

Init ==
  /\ state = "idle" /\ result = "default" /\ dfu_started = FALSE /\ written = 0
  /\ slot1 = Whole(None) /\ upgrade = FALSE /\ running = Old
  /\ push = None /\ next = 0 /\ faults = 0

-----------------------------------------------------------------------------
(* The engine: what it makes of a callback's return value. *)

NoFault == UNCHANGED faults
Fault == faults < MaxFaults /\ faults' = faults + 1

Accept == /\ next' = next + 1 /\ UNCHANGED result
          /\ IF next + 1 = Blocks THEN state' = "downloaded" /\ push' = None
                                  ELSE state' = "downloading" /\ UNCHANGED push

Refuse(why) == state' = "idle" /\ result' = why /\ push' = None /\ UNCHANGED next

Receiving == push # None /\ state \in {"idle", "downloading"}

-----------------------------------------------------------------------------
(* firmware_block_received_cb. *)

\* Mutant: flash_img_init is never called again.
PositionKept(first) == written

Position(first) == IF first THEN 0 ELSE written

WriteAt(pos) ==
  /\ pos < Blocks /\ NoFault
  /\ slot1' = [slot1 EXCEPT ![pos] = push] /\ written' = pos + 1
  /\ Accept

\* Mutant: the last block ends the download.
WriteEnds ==
  /\ Receiving /\ WriteAt(Position(next = 0))
  /\ dfu_started' = (next + 1 < Blocks)
  /\ UNCHANGED <<upgrade, running>>

\* Mutant: counts a block too many.
WriteFar ==
  /\ Receiving /\ Position(next = 0) < Blocks /\ NoFault
  /\ slot1' = [slot1 EXCEPT ![Position(next = 0)] = push]
  /\ written' = Position(next = 0) + 2 /\ dfu_started' = TRUE
  /\ Accept
  /\ UNCHANGED <<upgrade, running>>

\* Block 0 begins anew; the others go where the last one ended, whatever their
\* offset.
WriteBlock ==
  /\ Receiving /\ WriteAt(Position(next = 0))
  /\ dfu_started' = (dfu_started \/ next = 0)
  /\ UNCHANGED <<upgrade, running>>

InitError ==
  /\ Receiving /\ next = 0 /\ Fault
  /\ Refuse("failed")
  /\ UNCHANGED <<dfu_started, written, flash>>

\* Mutant: the error is logged and the block taken for written.
WriteErrorLogged ==
  /\ Receiving /\ Fault
  /\ written' = Position(next = 0) /\ dfu_started' = TRUE
  /\ Accept
  /\ UNCHANGED flash

\* The flash refuses, or slot 1 is full; block 0 had begun anew.
WriteError ==
  /\ Receiving
  /\ \/ Fault
     \/ Position(next = 0) = Blocks /\ NoFault
  /\ dfu_started' = FALSE /\ written' = Position(next = 0)
  /\ Refuse("no_storage")
  /\ UNCHANGED flash

-----------------------------------------------------------------------------
(* firmware_cancel_cb, firmware_update_cb, the restart. *)

\* An empty write in state downloaded.
Cancel ==
  /\ state = "downloaded"
  /\ dfu_started' = FALSE /\ state' = "idle" /\ result' = "default"
  /\ UNCHANGED <<written, flash, transfer, faults>>

\* boot_request_upgrade.  The restart follows at once.
Update ==
  /\ state = "downloaded" /\ dfu_started
  /\ upgrade' = TRUE /\ dfu_started' = FALSE /\ state' = "idle" /\ result' = "success"
  /\ UNCHANGED <<written, slot1, running, transfer, faults>>

UpdateError ==
  /\ state = "downloaded"
  /\ IF dfu_started THEN Fault ELSE NoFault
  /\ dfu_started' = FALSE /\ state' = "idle" /\ result' = "failed"
  /\ UNCHANGED <<written, flash, transfer>>

\* RAM goes; MCUboot applies what it was asked for, if it is whole.
Restarted ==
  /\ state' = "idle" /\ result' = "default" /\ dfu_started' = FALSE /\ written' = 0
  /\ push' = None /\ next' = 0
  /\ running' = IF upgrade /\ \E i \in Images : slot1 = Whole(i) THEN slot1[0] ELSE running
  /\ upgrade' = FALSE
  /\ UNCHANGED slot1

Restart == upgrade /\ Restarted /\ NoFault
Reset == Restarted /\ Fault

-----------------------------------------------------------------------------
(* The server (external). *)

\* lwm2m_ota_push.py: a new transfer, which ends the one under way; refused in
\* state downloaded.
Push ==
  /\ state # "downloaded" /\ ~upgrade
  /\ push' \in Images /\ push = None
  /\ next' = 0
  /\ UNCHANGED <<dev, flash, faults>>

\* The transfer breaks off, or the script gives up after 180 s.
TransferLost ==
  /\ push # None /\ Fault
  /\ push' = None /\ UNCHANGED <<dev, flash, next>>

Device == WriteBlock \/ InitError \/ WriteError \/ Cancel \/ Update \/ UpdateError

Next == (Device /\ ~upgrade) \/ Restart \/ Reset \/ Push \/ TransferLost

Spec == Init /\ [][Next]_vars

\* A server that pushes again after a failure and asks for the update in the
\* end; the device works on what it gets.
FairSpec == /\ Spec /\ WF_vars(Push) /\ WF_vars(WriteBlock \/ WriteError)
            /\ SF_vars(Update) /\ WF_vars(Restart)

-----------------------------------------------------------------------------
(* Properties. *)

\* MCUboot is only ever asked for an image that is in slot 1 from its first
\* block to its last, after broken transfers, refused writes, cancels and
\* restarted pushes in any order.
UpgradeIsWhole == upgrade => \E i \in Images : slot1 = Whole(i)

\* What Object 5 calls downloaded, firmware_update_cb will not refuse as "No
\* firmware image was downloaded" (line 42).
DownloadedIsStarted == state = "downloaded" => dfu_started /\ written = Blocks

\* A server that tries again gets an image applied: no failure leaves the
\* client in a state from which no download can begin.
Updated == <>(running \in Images)

-----------------------------------------------------------------------------
(* The inductive invariant behind the safety properties. *)

\* A transfer stands in slot 1 up to its next block, and nothing else is
\* counted; what is called downloaded is whole, and nothing is sent any more.
TransferInv ==
  /\ push # None => next < Blocks /\ state # "downloaded"
  /\ push # None /\ next > 0 =>
       /\ state = "downloading" /\ dfu_started /\ written = next
       /\ \A b \in 0..next-1 : slot1[b] = push
  /\ state = "downloaded" => \E i \in Images : slot1 = Whole(i)
  /\ DownloadedIsStarted /\ UpgradeIsWhole
=============================================================================
