------------------------------- MODULE OtaUpdate -------------------------------
(***************************************************************************)
(* Firmware update over mcumgr: the script ota_update.py, one request at a *)
(* time, and the device it talks to, smp_svr under MCUboot.                *)
(*                                                                         *)
(* Abstractions: an image is Chunks upload requests long; time is the      *)
(* order of steps.  smpclient raises when a request gets no answer, which  *)
(* ends the script.  The mcumgr server and MCUboot (external) are modelled *)
(* as the script takes them: upgrade-only, the request for the upgrade     *)
(* stands in slot 1 and goes when that slot is erased, and an image with a *)
(* signature MCUboot does not accept is not applied.                       *)
(***************************************************************************)
EXTENDS Naturals

CONSTANTS
  Images,     \* images given to the script
  Old,        \* the image of the first flash
  Rejected,   \* images whose signature MCUboot refuses
  Dead,       \* images that do not answer mcumgr
  Chunks,     \* upload requests of an image
  Attempts,   \* bound: RECONNECT_TIMEOUT_S / RECONNECT_POLL_S
  MaxFaults   \* bound: lost requests and answers, power cuts

OtaUpdateAssumption ==
  /\ Old \notin Images /\ Rejected \subseteq Images /\ Dead \subseteq Images
  /\ {Chunks, Attempts} \subseteq Nat \ {0} /\ MaxFaults \in Nat

VARIABLES
  step,      \* where the script is
  image,     \* IMAGE_PATH
  hash,      \* image_hash
  tries,     \* of wait_for_device
  outcome,   \* how the last run of the script ended
  slot1,     \* the image in slot 1, None if it is not whole
  received,  \* chunks of the upload under way
  pending,   \* slot 1 is to be applied
  running,   \* the image in slot 0
  power,     \* "up": the application answers
  faults

host == <<step, image, hash, tries, outcome>>
flash == <<slot1, pending, running>>
device == <<flash, received, power>>
vars == <<host, device, faults>>

None == "none"

TypeOK ==
  /\ step \in {"idle", "ready", "upload", "read", "test", "confirm", "reset", "sleep", "back", "echo"}
  /\ image \in Images \cup {None} /\ hash \in Images \cup {Old, None}
  /\ tries \in 0..Attempts - 1 /\ outcome \in {"none", "failed", "complete"}
  /\ slot1 \in Images \cup {None} /\ received \in 0..Chunks
  /\ running \in Images \cup {Old} /\ pending \in BOOLEAN
  /\ power \in {"up", "resetting", "booting", "dead"} /\ faults \in 0..MaxFaults

Init ==
  /\ step = "idle" /\ image = None /\ hash = None /\ tries = 0 /\ outcome = "none"
  /\ slot1 = None /\ pending = FALSE /\ received = 0 /\ running = Old
  /\ power = "up" /\ faults = 0

Fault == faults < MaxFaults /\ faults' = faults + 1

-----------------------------------------------------------------------------
(* The script. *)

Start ==
  /\ step = "idle"
  /\ \E i \in Images : image' = i
  /\ step' = "ready" /\ hash' = None /\ tries' = 0 /\ outcome' = "none"
  /\ UNCHANGED <<device, faults>>

Ends(how) == step' = "idle" /\ outcome' = how /\ UNCHANGED <<image, hash, tries>>
Goes(to) == step' = to /\ UNCHANGED <<image, hash, tries, outcome>>

\* wait_for_device: an echo that is answered.  An upload begins at offset 0.
Connect ==
  /\ step \in {"ready", "back"} /\ power = "up"
  /\ step' = (IF step = "ready" THEN "upload" ELSE "echo") /\ tries' = 0
  /\ received' = 0
  /\ UNCHANGED <<image, hash, outcome, flash, power, faults>>

\* Mutant: no deadline.
RetryForEver ==
  /\ step \in {"ready", "back"} /\ power # "up"
  /\ UNCHANGED vars

\* or not, until the time is up.
Retry ==
  /\ step \in {"ready", "back"}
  /\ \/ power # "up" /\ UNCHANGED faults
     \/ power = "up" /\ Fault
  /\ IF tries + 1 < Attempts
     THEN tries' = tries + 1 /\ UNCHANGED <<step, image, hash, outcome>>
     ELSE Ends("failed")
  /\ UNCHANGED device

\* The server numbers the chunks; after a restart it begins again.
StoreChunk ==
  /\ received' = received + 1
  /\ slot1' = (IF received' = Chunks THEN image ELSE None)
  /\ pending' = FALSE
  /\ UNCHANGED <<running, power>>

Upload ==
  /\ step = "upload" /\ power = "up"
  /\ StoreChunk
  /\ Goes(IF received' = Chunks THEN "read" ELSE "upload")
  /\ UNCHANGED faults

\* get_secondary_slot_hash
ReadHash ==
  /\ step = "read" /\ power = "up"
  /\ IF slot1 = None
     THEN Ends("failed")
     ELSE /\ hash' = slot1 /\ step' \in {"test", "confirm"} \* --try-test-mode?
          /\ UNCHANGED <<image, tries, outcome>>
  /\ UNCHANGED <<device, faults>>

\* confirm=False: refused, which the script expects, or accepted.
TryTest ==
  /\ step = "test" /\ power = "up"
  /\ pending' \in {pending, slot1 = hash}
  /\ Goes("confirm")
  /\ UNCHANGED <<slot1, running, received, power, faults>>

Accepted == hash \in {slot1, running}

\* Mutant: confirm=False once more, which upgrade-only takes for nothing.
ConfirmTest ==
  /\ step = "confirm" /\ power = "up"
  /\ IF Accepted THEN Goes("reset") ELSE Ends("failed")
  /\ UNCHANGED <<device, faults>>

Confirm ==
  /\ step = "confirm" /\ power = "up"
  /\ IF Accepted THEN Goes("reset") /\ pending' = (pending \/ slot1 = hash)
                 ELSE Ends("failed") /\ UNCHANGED pending
  /\ UNCHANGED <<slot1, running, received, power, faults>>

\* The server answers before it restarts.
Reset ==
  /\ step = "reset" /\ power = "up"
  /\ Goes("sleep") /\ power' = "resetting"
  /\ UNCHANGED <<flash, received, faults>>

\* Mutant: the script does not wait.
NoSleep ==
  /\ step = "sleep"
  /\ step' = "back" /\ tries' = 0 /\ power' = IF power = "resetting" THEN "up" ELSE power
  /\ UNCHANGED <<image, hash, outcome, flash, received, faults>>

\* Three seconds, in which the device does restart.
Sleep ==
  /\ step = "sleep" /\ power # "resetting"
  /\ step' = "back" /\ tries' = 0
  /\ UNCHANGED <<image, hash, outcome, device, faults>>

\* Mutant: an end the script does not have.
EchoPartly ==
  /\ step = "echo" /\ power = "up"
  /\ Ends("partly")
  /\ UNCHANGED <<device, faults>>

\* The echo, and the image states for the reader to look at.
Echo ==
  /\ step = "echo" /\ power = "up"
  /\ Ends("complete")
  /\ UNCHANGED <<device, faults>>

\* What a request that gets no answer had done, nobody knows.
Done ==
  \/ UNCHANGED device
  \/ step = "upload" /\ StoreChunk
  \/ step \in {"test", "confirm"} /\ pending' = (pending \/ slot1 = hash)
     /\ UNCHANGED <<slot1, running, received, power>>
  \/ step = "reset" /\ power' = "resetting" /\ UNCHANGED <<flash, received>>

Asking == {"upload", "read", "test", "confirm", "reset", "echo"}

\* Mutant: the upload's exception is caught, the script goes on.
UnansweredUpload ==
  /\ step \in Asking
  /\ IF power = "up" THEN Fault /\ Done ELSE UNCHANGED <<device, faults>>
  /\ IF step = "upload" THEN Goes("read") ELSE Ends("failed")

\* Any other exception ends the script.
Unanswered ==
  /\ step \in Asking
  /\ IF power = "up" THEN Fault /\ Done ELSE UNCHANGED <<device, faults>>
  /\ Ends("failed")

Script == \/ Connect \/ Retry \/ Upload \/ ReadHash \/ TryTest \/ Confirm \/ Reset
          \/ Sleep \/ Echo \/ Unanswered

-----------------------------------------------------------------------------
(* The device. *)

Boots ==
  /\ running' = (IF pending /\ slot1 # None /\ slot1 \notin Rejected THEN slot1 ELSE running)
  /\ slot1' = (IF pending THEN None ELSE slot1)
  /\ pending' = FALSE /\ received' = 0 /\ power' = "booting"

Restart == power = "resetting" /\ Boots /\ UNCHANGED <<host, faults>>

PowerCut == power # "booting" /\ Fault /\ Boots /\ UNCHANGED host

\* main of smp_svr: the command handlers answer, or the application is one
\* that never does.
Up ==
  /\ power = "booting"
  /\ power' = (IF running \in Dead THEN "dead" ELSE "up")
  /\ UNCHANGED <<host, flash, received, faults>>

Board == Restart \/ Up

Next == Start \/ Script \/ Board \/ PowerCut

Spec == Init /\ [][Next]_vars

\* The script goes on until it ends, and a board that starts gets through its
\* boot, before the script gives up or after.
FairSpec == Spec /\ WF_vars(Script) /\ WF_vars(Board)

-----------------------------------------------------------------------------
(* Properties. *)

\* The script that says "OTA update complete" (ota_update.py:136) leaves the
\* device on its image, unless MCUboot refused it: whatever an earlier run left
\* in slot 1 and whenever the power was cut.
CompleteUnlessRejected ==
  outcome = "complete" => running = image \/ image \in Rejected

\* Only what this run uploaded is put up for the next boot (99-112): slot 1 may
\* still hold the image of a run that broke off.
ConfirmsOwn == [][~pending /\ pending' => slot1 = image]_vars

\* The script ends, on a device that never answers again too (RECONNECT_TIMEOUT_S).
ScriptEnds == step = "ready" ~> step = "idle"

\* With a link that loses nothing the image is installed.
Installs ==
  \A i \in Images \ Rejected :
    step = "upload" /\ image = i ~> running = i

\* "Device is alive on the new image (echo OK)" (128).
CompleteIsNew == outcome = "complete" => running = image

-----------------------------------------------------------------------------
(* The inductive invariant behind the safety properties. *)

Uploaded  == {"read", "test", "confirm", "reset", "sleep", "back", "echo"}
Installed == running = image \/ image \in Rejected

\* From the end of the upload slot 1 holds the image of this run or nothing; from
\* the confirmation on the image runs, or the next boot applies it.
RunInv ==
  /\ step = "upload" => received < Chunks
  /\ outcome = "complete" => step = "idle"
  /\ step \in Uploaded \/ outcome = "complete" => slot1 \in {image, None}
  /\ step \in {"test", "confirm", "reset", "sleep"} => hash = image /\ image # None
  /\ step = "reset" => Installed \/ (pending /\ slot1 = image)
  /\ step = "sleep" => Installed \/ (power = "resetting" /\ pending /\ slot1 = image)
  /\ step \in {"back", "echo"} \/ outcome = "complete" => Installed
=============================================================================
