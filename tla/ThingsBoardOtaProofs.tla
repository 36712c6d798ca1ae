------------------------ MODULE ThingsBoardOtaProofs ------------------------
(***************************************************************************)
(* TLAPS proofs about ThingsBoardOta, for any set of packages, any sizes,  *)
(* any crash points and any faults: type correctness, that a reset always  *)
(* finds a complete image, that the restart after UPDATED starts the       *)
(* package that was reported, and that every step of the device is a step  *)
(* of the update mechanism of TrialUpdate or a stutter.  The last part is  *)
(* about the anti-loop keys (pending_fw and failed_fw): where no reset     *)
(* falls between the erasure of pending_fw and the confirmation of the     *)
(* image, and the assignment changes only while the device is down, a      *)
(* version that was rolled back is remembered and not tried again.         *)
(***************************************************************************)
EXTENDS ThingsBoardOta, EspOtaProofs

\* The image sequence of a package determines the package: its first chunk
\* names it.
LEMMA ContentInjective ==
  ASSUME NEW p \in Package, NEW q \in Package, ContentOf(p) = ContentOf(q)
  PROVE  p = q
<1>1. /\ Bytes[p] \in Nat \ {0} /\ Bytes[q] \in Nat \ {0}
      /\ ChunkSize \in Nat \ {0}
  BY ThingsBoardAssumption
<1>2. ASSUME NEW r \in {p, q}
      PROVE  1 \in DOMAIN ContentOf(r) /\ ContentOf(r)[1] = <<r, 0>>
  <2>1. 1 \in 1..Bytes[r] /\ (1 - 1) * ChunkSize < Bytes[r]
    BY <1>1
  <2> QED
    BY <2>1 DEF ContentOf
<1> QED
  BY <1>2

-----------------------------------------------------------------------------
(* The invariant. *)

\* A device fresh from the cable flash satisfies the invariant.
LEMMA InitEstablishes == Init => IInv
<1> SUFFICES ASSUME Init PROVE IInv
  OBVIOUS
<1> USE DEF Init, EspOtaInit
<1>1. TypeOK
  <2>1. EspOtaTypeOK
    BY InitRecords
  <2>2. written \in Seq(Package \X Nat)
    OBVIOUS
  <2>3. assigns \in 0..MaxAssigns
    BY ThingsBoardAssumption
  <2> QED
    BY <2>1, <2>2, <2>3 DEF TypeOK, PC, Phase, FwState
<1>2. SessionInv
  BY DEF SessionInv
<1>3. RecordInv
  BY InitRecords
<1>4. RunningInv
  BY DEF RunningInv
<1>5. ContentInv
  BY DEF ContentInv
<1> QED
  BY <1>1, <1>2, <1>3, <1>4, <1>5 DEF IInv

\* A reset keeps everything but the RAM of the application.
LEMMA ResetKeeps ==
  ASSUME IInv, Reset, UNCHANGED <<EspOtaVars, nvs, fwState, server, rolledBack>>
  PROVE  IInv'
<1> USE DEF IInv, Reset, nvs, server
<1>1. TypeOK'
  <2>1. EspOtaTypeOK'
    BY KeptRecords DEF TypeOK
  <2>2. written' \in Seq(Package \X Nat)
    OBVIOUS
  <2> QED
    BY <2>1, <2>2 DEF TypeOK, PC, Phase
<1>2. SessionInv'
  BY DEF SessionInv
<1>3. RecordInv'
  BY KeptRecords
<1>4. RunningInv'
  BY DEF RunningInv
<1>5. ContentInv'
  BY DEF ContentInv
<1> QED
  BY <1>1, <1>2, <1>3, <1>4, <1>5

\* The bootloader starts the active slot and gives the application one trial.
LEMMA BootKeeps == ASSUME IInv, Boot PROVE IInv'
<1>1. /\ EspOtaTypeOK /\ RecordInv /\ Bootloader
      /\ pc = "off" /\ phase = "idle" /\ pc' = "reconcile" /\ phase' = "idle"
  BY DEF IInv, TypeOK, Boot, SessionInv, Phase, session
<1>2. /\ EspOtaTypeOK' /\ RecordInv' /\ RunsActive'
      /\ TrialStarted => AbortedAtReset = {otadata.newer.slot}
      /\ ~TrialStarted => AbortedAtReset = {}
  BY <1>1, BootRecords
<1>3. rolledBack' \subseteq Versions
  <2>1. ASSUME NEW s \in AbortedAtReset PROVE flash[s] \in Package
    <3>1. TrialStarted /\ s = otadata.newer.slot
      BY <1>2
    <3> QED
      BY <1>1, <3>1, RecordFacts DEF RecordInv, TrialStarted, Usable
  <2>2. rolledBack \subseteq Versions
    BY DEF IInv, TypeOK
  <2> QED
    BY <2>1, <2>2 DEF Boot, Versions
<1>4. TypeOK'
  BY <1>1, <1>2, <1>3 DEF IInv, TypeOK, PC, Boot, nvs, session, server, net
<1>5. SessionInv' /\ RunningInv' /\ ContentInv'
  BY <1>1, <1>2 DEF SessionInv, RunningInv, ContentInv
<1> QED
  BY <1>2, <1>4, <1>5 DEF IInv

\* Steps that leave the flash, the boot records and the download alone.
Quiet ==
  /\ UNCHANGED <<EspOtaVars, phase, fw, written>>
  /\ pc' # pc => /\ pc # "off" /\ phase = "idle"
                 /\ pc' \in {"provision", "run", "halted"}
                      => pc \in {"provision", "run", "halted"}

\* A well-typed quiet step keeps the invariant.
LEMMA QuietKeeps == ASSUME IInv, TypeOK', Quiet PROVE IInv'
<1> USE DEF IInv, Quiet
<1>1. SessionInv'
  BY DEF SessionInv
<1>2. RecordInv'
  BY KeptRecords
<1>3. RunningInv'
  BY KeptRecords DEF RunningInv
<1>4. ContentInv'
  BY DEF ContentInv, Target, EspOtaVars
<1> QED
  BY <1>1, <1>2, <1>3, <1>4

\* The types of what an action that does not touch the flash may change.
LEMMA QuietTypes ==
  ASSUME IInv,
         \/ ReconcilePending \/ ErasePending \/ WifiUp \/ ObtainToken
         \/ MqttConnected \/ MqttDisconnected \/ AssignPackage
         \/ ServerAnswers \/ LoseMessage
  PROVE  TypeOK' /\ Quiet
<1> USE DEF IInv, EspOtaVars, nvs, session, server, net
<1>1. TypeOK /\ SessionInv
  OBVIOUS
<1>2. UNCHANGED EspOtaVars => EspOtaTypeOK'
  BY KeptRecords DEF TypeOK
<1>3. CASE ReconcilePending
  BY <1>1, <1>2, <1>3 DEF ReconcilePending, TypeOK, SessionInv, PC, Quiet
<1>4. CASE ErasePending
  BY <1>1, <1>2, <1>4 DEF ErasePending, TypeOK, SessionInv, PC, Quiet
<1>5. CASE WifiUp
  BY <1>1, <1>2, <1>5 DEF WifiUp, TypeOK, SessionInv, PC, Quiet
<1>6. CASE ObtainToken
  BY <1>1, <1>2, <1>6 DEF ObtainToken, TypeOK, SessionInv, PC, Quiet
<1>7. CASE MqttConnected
  BY <1>1, <1>2, <1>7 DEF MqttConnected, TypeOK, Quiet, Request, AttributesReq
<1>8. CASE MqttDisconnected
  BY <1>1, <1>2, <1>8 DEF MqttDisconnected, TypeOK, Quiet
<1>9. CASE AssignPackage
  <2>1. PICK p \in Package \ {assigned} :
          /\ assigned' = p
          /\ msgs' = IF connected THEN msgs \cup {AttributesMsg(p)} ELSE msgs
    BY <1>9 DEF AssignPackage
  <2>2. msgs' \subseteq Message
    BY <1>1, <2>1 DEF TypeOK, AttributesMsg, Message
  <2>3. assigns' \in 0..MaxAssigns
    BY <1>1, <1>9, ThingsBoardAssumption DEF AssignPackage, TypeOK
  <2> QED
    BY <1>1, <1>2, <1>9, <2>1, <2>2, <2>3 DEF AssignPackage, TypeOK, Quiet
<1>10. CASE ServerAnswers
  <2>1. PICK r \in reqs :
          /\ reqs' \in Taken(reqs, r)
          /\ msgs' = msgs \cup
               IF assigned = NoPackage THEN {}
               ELSE IF r.type = "chunk" THEN {ChunkMsg(assigned, r.index)}
               ELSE {AttributesMsg(assigned)}
    BY <1>10 DEF ServerAnswers
  <2>2. reqs' \subseteq Request
    BY <1>1, <2>1 DEF TypeOK, Taken
  <2>3. r \in Request
    BY <1>1 DEF TypeOK
  <2>4. r.type = "chunk" => r.index \in Nat
    BY <2>3 DEF Request
  <2>5. msgs' \subseteq Message
    BY <1>1, <2>1, <2>4 DEF TypeOK, ChunkMsg, AttributesMsg, Message
  <2> QED
    BY <1>1, <1>2, <1>10, <2>2, <2>5 DEF ServerAnswers, TypeOK, Quiet
<1>11. CASE LoseMessage
  BY <1>1, <1>2, <1>11 DEF LoseMessage, TypeOK, Quiet
<1> QED
  BY <1>3, <1>4, <1>5, <1>6, <1>7, <1>8, <1>9, <1>10, <1>11

\* Confirming only turns the running trial into a valid image.
LEMMA ConfirmKeeps == ASSUME IInv, ConfirmImage PROVE IInv'
<1>1. /\ EspOtaTypeOK /\ RecordInv /\ RunsActive
      /\ pc = "confirm" /\ phase = "idle" /\ pc' = "provision" /\ phase' = "idle"
  BY DEF IInv, TypeOK, ConfirmImage, SessionInv, RunningInv, Phase, session
<1>2. EspOtaTypeOK' /\ RecordInv' /\ RunsActive' /\ RunsConfirmed'
  <2>1. CASE OnTrial
    BY <1>1, <2>1, ValidRecords DEF ConfirmImage
  <2>2. CASE ~OnTrial
    BY <1>1, <2>2, KeptRecords, OnTrialIff DEF ConfirmImage, RunsConfirmed, TrialStarted
  <2> QED
    BY <2>1, <2>2
<1>3. TypeOK'
  BY <1>1, <1>2 DEF IInv, TypeOK, PC, ConfirmImage, nvs, session, server, net
<1>4. SessionInv' /\ RunningInv' /\ ContentInv'
  BY <1>1, <1>2 DEF SessionInv, RunningInv, ContentInv
<1> QED
  BY <1>2, <1>3, <1>4 DEF IInv

\* The client goes on without touching the flash or the boot records.
LEMMA FlashKept ==
  ASSUME IInv, pc = "run", pc' = "run", phase # "bootset", phase' # "bootset",
         UNCHANGED EspOtaVars
  PROVE  EspOtaTypeOK' /\ RecordInv' /\ RunningInv'
<1>1. EspOtaTypeOK /\ RecordInv /\ RunsActive /\ RunsConfirmed
  BY DEF IInv, TypeOK, RunningInv
<1> QED
  BY <1>1, KeptRecords DEF RunningInv

\* Erasing or filling the target slot.
LEMMA TargetWrite ==
  ASSUME IInv, pc = "run", phase # "bootset", NEW x \in Package \cup {NoPackage},
         flash' = [flash EXCEPT ![Target] = x],
         UNCHANGED <<otadata, running, pc>>,
         phase' # "bootset"
  PROVE  /\ EspOtaTypeOK' /\ RecordInv' /\ RunningInv'
         /\ flash'[Target] = x
<1>1. EspOtaTypeOK /\ RecordInv /\ RunsConfirmed
  BY DEF IInv, TypeOK, RunningInv
<1>2. /\ EspOtaTypeOK' /\ RecordInv' /\ RunsActive' /\ RunsConfirmed'
      /\ flash'[Target] = x
  BY <1>1, SpareWrite DEF Target
<1> QED
  BY <1>2 DEF RunningInv

\* handle_attributes_payload: new globals are harmless before the checksum,
\* and esp_ota_begin erases a slot nobody needs.
LEMMA AttributesKeeps == ASSUME IInv, HandleAttributes PROVE IInv'
<1>1. /\ pc = "run" /\ pc' = "run" /\ phase \in {"idle", "downloading"}
      /\ written' = written
  BY DEF HandleAttributes, Handling
<1>2. /\ fw' \in Package \cup {NoPackage}
      /\ fw' = fw \/ fw' \in Package
      /\ msgs' \subseteq Message
  <2>1. CASE UNCHANGED <<fw, msgs>>
    BY <2>1 DEF IInv, TypeOK
  <2>2. CASE \E m \in msgs : /\ m.type = "attributes"
                             /\ fw' = m.pkg
                             /\ msgs' \in Taken(msgs, m)
    <3>1. PICK m \in msgs : fw' = m.pkg /\ msgs' \in Taken(msgs, m)
      BY <2>2
    <3>2. m \in Message /\ msgs \subseteq Message
      BY DEF IInv, TypeOK
    <3> QED
      BY <3>1, <3>2 DEF Message, Taken
  <2> QED
    BY <2>1, <2>2 DEF HandleAttributes
<1>3. /\ UNCHANGED <<otadata, running>>
      /\ \/ UNCHANGED <<flash, phase>>
         \/ /\ flash' = [flash EXCEPT ![Target] = NoPackage]
            /\ phase = "idle" /\ phase' = "starting" /\ fw' \in Package
      /\ fwState' \in FwState
  <2>1. fwState \in FwState /\ "FAILED" \in FwState
    BY DEF IInv, TypeOK, FwState
  <2>2. CASE fw' # NoPackage /\ phase = "idle" /\ Version[fw'] # CurrentVersion
    <3>1. StartUpdate(fw')
      BY <2>2 DEF HandleAttributes
    <3>2. fw' \in Package
      BY <1>2, <2>2
    <3> QED
      BY <2>1, <2>2, <3>1, <3>2 DEF StartUpdate, OtaBegin, EspOtaVars
  <2>3. CASE ~(fw' # NoPackage /\ phase = "idle" /\ Version[fw'] # CurrentVersion)
    BY <2>1, <2>3 DEF HandleAttributes, EspOtaVars
  <2> QED
    BY <2>2, <2>3
<1>4. phase' \in {"idle", "starting", "downloading"}
  BY <1>1, <1>3
<1>5. EspOtaTypeOK' /\ RecordInv' /\ RunningInv'
  <2>1. CASE UNCHANGED <<flash, phase>>
    BY <1>1, <1>3, <2>1, FlashKept DEF EspOtaVars
  <2>2. CASE flash' = [flash EXCEPT ![Target] = NoPackage] /\ phase' = "starting"
    BY <1>1, <1>3, <2>2, TargetWrite
  <2> QED
    BY <1>3, <2>1, <2>2
<1>6. TypeOK'
  BY <1>1, <1>2, <1>3, <1>4, <1>5
  DEF IInv, TypeOK, Phase, HandleAttributes, nvs, server
<1>7. SessionInv'
  BY <1>1, <1>2, <1>3 DEF IInv, SessionInv
<1>8. ContentInv'
  BY <1>4 DEF ContentInv
<1> QED
  BY <1>5, <1>6, <1>7, <1>8 DEF IInv

\* start_fw_update after the NVS commit: a download starts from nothing.
LEMMA RecordPendingKeeps == ASSUME IInv, RecordPending PROVE IInv'
<1>1. /\ pc = "run" /\ pc' = "run" /\ phase = "starting" /\ phase' = "downloading"
      /\ fw' = fw /\ fw \in Package
      /\ UNCHANGED <<flash, otadata, running>>
  BY DEF IInv, SessionInv, RecordPending, EspOtaVars
<1>2. Version[fw] \in Versions
  BY <1>1 DEF Versions
<1>3. reqs' \subseteq Request
  BY DEF IInv, TypeOK, RecordPending, ChunkReq, Request
<1>4. EspOtaTypeOK' /\ RecordInv' /\ RunningInv'
  BY <1>1, FlashKept DEF EspOtaVars
<1>5. written' \in Seq(Package \X Nat)
  BY DEF RecordPending
<1>6. TypeOK'
  <2>1. /\ pendingFw' \in Versions \cup {NoVersion}
        /\ chunkIndex' \in Nat /\ received' \in Nat
        /\ fwState' \in FwState
    BY <1>2 DEF RecordPending, FwState
  <2>2. UNCHANGED <<failedFw, token, connected, server, msgs, rolledBack>>
    BY DEF RecordPending
  <2> QED
    BY <1>1, <1>3, <1>4, <1>5, <2>1, <2>2 DEF IInv, TypeOK, Phase, server
<1>7. SessionInv' /\ ContentInv'
  BY <1>1 DEF SessionInv, ContentInv
<1> QED
  BY <1>4, <1>6, <1>7 DEF IInv

\* A chunk has a length, whichever chunk number is asked for.
LEMMA ChunkLenType ==
  ASSUME NEW p \in Package, NEW k \in Nat
  PROVE  ChunkLen(p, k) \in Nat
<1>1. Bytes[p] \in Nat /\ ChunkSize \in Nat
  BY ThingsBoardAssumption
<1>2. k * ChunkSize \in Nat
  BY <1>1
<1> QED
  BY <1>1, <1>2 DEF ChunkLen

\* What a chunk does to the download: it goes on, fails, or is verified, and
\* verified only if the content is that of the package in the globals.
LEMMA ChunkEffect ==
  ASSUME IInv, phase = "downloading", fw' = fw, NEW p \in Package, NEW k \in Nat,
         WriteChunk(p, k) \/ WriteError
  PROVE  /\ phase' \in {"downloading", "idle", "verified"}
         /\ phase' = "verified" => written' = ContentOf(fw)
         /\ written' \in Seq(Package \X Nat)
         /\ received' \in Nat /\ chunkIndex' \in Nat
         /\ reqs' \subseteq Request
         /\ fwState' \in FwState
<1>1. /\ written \in Seq(Package \X Nat) /\ received \in Nat
      /\ chunkIndex \in Nat /\ reqs \subseteq Request /\ fwState \in FwState
  BY DEF IInv, TypeOK
<1>2. CASE WriteError
  BY <1>1, <1>2 DEF WriteError, Fail, FwState
<1>3. CASE WriteChunk(p, k)
  <2> DEFINE len   == ChunkLen(p, k)
             total == received + len
             w     == IF len = 0 THEN written ELSE Append(written, <<p, k>>)
             last  == len = 0 \/ total >= Bytes[fw]
  <2>1. len \in Nat /\ total \in Nat
    <3>1. len \in Nat
      BY ChunkLenType
    <3> HIDE DEF len
    <3> QED
      BY <1>1, <3>1
  <2>2. w \in Seq(Package \X Nat)
    <3>1. Append(written, <<p, k>>) \in Seq(Package \X Nat)
      BY <1>1
    <3> QED
      BY <1>1, <3>1
  <2>3. received' = total /\ written' = w
    BY <1>3 DEF WriteChunk
  <2>4. CASE ~last
    <3>1. /\ chunkIndex' = chunkIndex + 1
          /\ reqs' = reqs \cup {ChunkReq(chunkIndex + 1)}
          /\ UNCHANGED <<phase, fwState>>
      BY <1>3, <2>4 DEF WriteChunk
    <3>2. ChunkReq(chunkIndex + 1) \in Request
      BY <1>1 DEF ChunkReq, Request
    <3> QED
      BY <1>1, <2>1, <2>2, <2>3, <3>1, <3>2
  <2>5. CASE last
    <3>1. /\ \/ phase' = "verified" /\ fwState' = "VERIFIED" /\ ChecksumOk(w)
             \/ phase' = "idle" /\ fwState' = "FAILED"
          /\ UNCHANGED <<chunkIndex, reqs>>
      BY <1>3, <2>5 DEF WriteChunk, VerifyUpdate, Fail
    <3> QED
      BY <1>1, <2>1, <2>2, <2>3, <3>1 DEF ChecksumOk, FwState
  <2> QED
    BY <2>4, <2>5
<1> QED
  BY <1>2, <1>3

\* handle_fw_chunk_data: whatever arrives, only the declared content passes.
LEMMA ChunkKeeps == ASSUME IInv, HandleChunk PROVE IInv'
<1>1. /\ pc = "run" /\ pc' = "run" /\ phase \in {"idle", "downloading"}
      /\ fw' = fw
      /\ UNCHANGED <<flash, otadata, running>>
  BY DEF HandleChunk, Handling, EspOtaVars
<1>2. PICK m \in msgs :
        /\ m.type = "chunk"
        /\ msgs' \in Taken(msgs, m)
        /\ IF phase = "downloading"
           THEN WriteChunk(m.pkg, m.index) \/ WriteError
           ELSE UNCHANGED <<phase, fwState, chunkIndex, received, written, reqs>>
  BY DEF HandleChunk
<1>3. m.pkg \in Package /\ m.index \in Nat /\ msgs' \subseteq Message
  <2>1. m \in Message /\ msgs \subseteq Message
    BY DEF IInv, TypeOK
  <2> QED
    BY <1>2, <2>1 DEF Message, Taken
<1>4. /\ phase' \in {"downloading", "idle", "verified"}
      /\ phase' # "idle" => phase = "downloading"
      /\ phase' = "verified" => written' = ContentOf(fw)
      /\ written' \in Seq(Package \X Nat)
      /\ received' \in Nat /\ chunkIndex' \in Nat
      /\ reqs' \subseteq Request
      /\ fwState' \in FwState
  <2>1. CASE phase = "downloading"
    BY <1>1, <1>2, <1>3, <2>1, ChunkEffect
  <2>2. CASE phase = "idle"
    BY <1>2, <2>2 DEF IInv, TypeOK
  <2> QED
    BY <1>1, <2>1, <2>2
<1>5. EspOtaTypeOK' /\ RecordInv' /\ RunningInv'
  BY <1>1, <1>4, FlashKept DEF EspOtaVars
<1>6. TypeOK'
  BY <1>1, <1>3, <1>4, <1>5
  DEF IInv, TypeOK, Phase, HandleChunk, nvs, server
<1>7. SessionInv'
  BY <1>1, <1>4 DEF IInv, SessionInv
<1>8. ContentInv'
  BY <1>1, <1>4 DEF ContentInv
<1> QED
  BY <1>5, <1>6, <1>7, <1>8 DEF IInv

\* esp_ota_end: the slot gets the package whose digest was checked.
LEMMA EndKeeps == ASSUME IInv, EndUpdate PROVE IInv'
<1>1. /\ pc = "run" /\ pc' = "run" /\ phase = "verified"
      /\ fw' = fw /\ fw \in Package
      /\ written = ContentOf(fw)
      /\ UNCHANGED <<otadata, running, written>>
  BY DEF EndUpdate, OtaEnd, EspOtaVars, IInv, SessionInv, ContentInv
<1>2. \/ /\ flash' = [flash EXCEPT ![Target] = fw]
         /\ phase' = "ended" /\ fwState' = fwState
      \/ /\ phase' = "idle" /\ fwState' = "FAILED"
         /\ flash' = flash
  <2>1. CASE \E p \in Package : /\ written = ContentOf(p)
                                /\ OtaEnd(Target, p)
                                /\ phase' = "ended"
                                /\ UNCHANGED fwState
    <3>1. PICK p \in Package : /\ written = ContentOf(p)
                               /\ OtaEnd(Target, p)
                               /\ phase' = "ended"
                               /\ UNCHANGED fwState
      BY <2>1
    <3>2. p = fw
      BY <1>1, <3>1, ContentInjective
    <3> QED
      BY <3>1, <3>2 DEF OtaEnd
  <2>2. CASE Fail /\ UNCHANGED EspOtaVars
    BY <2>2 DEF Fail, EspOtaVars
  <2> QED
    BY <2>1, <2>2 DEF EndUpdate
<1>3. EspOtaTypeOK' /\ RecordInv' /\ RunningInv'
  <2>1. CASE phase' = "ended"
    BY <1>1, <1>2, <2>1, TargetWrite
  <2>2. CASE phase' = "idle"
    BY <1>1, <1>2, <2>2, FlashKept DEF EspOtaVars
  <2> QED
    BY <1>2, <2>1, <2>2
<1>4. TypeOK'
  BY <1>1, <1>2, <1>3
  DEF IInv, TypeOK, Phase, FwState, EndUpdate, nvs, server, net
<1>5. SessionInv'
  BY <1>1 DEF SessionInv
<1>6. ContentInv'
  <2>1. Target' = Target /\ Target \in Slot
    BY <1>1 DEF Target, NextUpdate, Slot, OtaSlot
  <2>2. flash \in [Slot -> Package \cup {NoPackage}]
    BY DEF IInv, TypeOK, EspOtaTypeOK
  <2> QED
    BY <1>1, <1>2, <2>1, <2>2 DEF ContentInv
<1> QED
  BY <1>3, <1>4, <1>5, <1>6 DEF IInv

\* esp_ota_set_boot_partition: the new record is the trial, the old one stays.
LEMMA ActivateKeeps == ASSUME IInv, ActivateUpdate PROVE IInv'
<1>1. /\ pc = "run" /\ pc' = "run" /\ phase = "ended"
      /\ fw' = fw /\ fw \in Package
      /\ flash[Target] = fw
      /\ UNCHANGED <<flash, running, written>>
      /\ EspOtaTypeOK /\ RecordInv /\ RunsConfirmed
  BY DEF ActivateUpdate, SetBoot, EspOtaVars, IInv, TypeOK, SessionInv, RunningInv,
     ContentInv
<1>2. \/ SetBoot(Target) /\ phase' = "bootset" /\ fwState' = "UPDATED"
      \/ UNCHANGED EspOtaVars /\ phase' = "idle" /\ fwState' = "FAILED"
  BY DEF ActivateUpdate, Fail
<1>3. EspOtaTypeOK' /\ RecordInv' /\ RunningInv'
  <2>1. CASE SetBoot(Target) /\ phase' = "bootset"
    <3>1. flash[Target] # NoPackage
      BY <1>1, PackageAssumption
    <3>2. EspOtaTypeOK' /\ RecordInv' /\ Activated'
      BY <1>1, <2>1, <3>1, SetBootRecords DEF Target
    <3> QED
      BY <2>1, <3>2 DEF RunningInv
  <2>2. CASE UNCHANGED EspOtaVars /\ phase' = "idle"
    BY <1>1, <2>2, FlashKept
  <2> QED
    BY <1>2, <2>1, <2>2
<1>4. TypeOK'
  BY <1>1, <1>2, <1>3
  DEF IInv, TypeOK, Phase, FwState, ActivateUpdate, nvs, server, net
<1>5. SessionInv' /\ ContentInv'
  BY <1>1, <1>2 DEF SessionInv, ContentInv, Target
<1> QED
  BY <1>3, <1>4, <1>5 DEF IInv

\* Stuttering keeps the invariant.
LEMMA StutterKeeps == ASSUME IInv, UNCHANGED vars PROVE IInv'
<1> USE DEF IInv, vars, nvs, session, server, net
<1>1. TypeOK'
  BY KeptRecords DEF TypeOK
<1>2. Quiet
  BY DEF Quiet
<1> QED
  BY <1>1, <1>2, QuietKeeps

\* The invariant is inductive: one case per action.
LEMMA NextKeeps == IInv /\ [Next]_vars => IInv'
<1> SUFFICES ASSUME IInv, [Next]_vars PROVE IInv'
  OBVIOUS
<1>1. CASE Boot
  BY <1>1, BootKeeps
<1>2. CASE \/ ReconcilePending \/ ErasePending \/ WifiUp \/ ObtainToken
           \/ MqttConnected \/ MqttDisconnected \/ AssignPackage
           \/ ServerAnswers \/ LoseMessage
  BY <1>2, QuietTypes, QuietKeeps
<1>3. CASE ConfirmImage
  BY <1>3, ConfirmKeeps
<1>4. CASE HandleAttributes
  BY <1>4, AttributesKeeps
<1>5. CASE RecordPending
  BY <1>5, RecordPendingKeeps
<1>6. CASE HandleChunk
  BY <1>6, ChunkKeeps
<1>7. CASE EndUpdate
  BY <1>7, EndKeeps
<1>8. CASE ActivateUpdate
  BY <1>8, ActivateKeeps
<1>9. CASE RestartIntoUpdate \/ HandleReboot \/ Crash
  BY <1>9, ResetKeeps DEF RestartIntoUpdate, HandleReboot, Crash
<1>10. CASE UNCHANGED vars
  BY <1>10, StutterKeeps
<1> QED
  BY <1>1, <1>2, <1>3, <1>4, <1>5, <1>6, <1>7, <1>8, <1>9, <1>10
  DEF Next, Device

\* The inductive invariant holds in every reachable state.
THEOREM Invariance == Spec => []IInv
<1>1. Init => IInv
  BY InitEstablishes
<1>2. IInv /\ [Next]_vars => IInv'
  BY NextKeeps
<1> QED
  BY <1>1, <1>2, PTL DEF Spec

-----------------------------------------------------------------------------
(* The theorems. *)

\* The types of all variables, whatever the server sends.
THEOREM TypeCorrect == Spec => []TypeOK
<1>1. IInv => TypeOK
  BY DEF IInv
<1> QED
  BY <1>1, Invariance, PTL

\* The invariant implies that the next two resets find complete images.
LEMMA InvBootable == ASSUME IInv PROVE AlwaysBootable
BY RecordsBootable DEF IInv, TypeOK, AlwaysBootable

\* Whatever the server sends and wherever the device crashes, a reset finds a
\* complete image, and so does the next one if that image is on trial.
THEOREM AlwaysBootableThm == Spec => []AlwaysBootable
<1>1. IInv => AlwaysBootable
  BY InvBootable
<1> QED
  BY <1>1, Invariance, PTL

\* The invariant implies that the activated slot holds the reported package.
LEMMA InvUpdatedIsTrue == ASSUME IInv PROVE UpdatedIsTrue
<1> SUFFICES ASSUME phase = "bootset"
             PROVE  flash[NextBoot(otadata)] = fw
  BY DEF UpdatedIsTrue
<1>1. /\ otadata \in OtaData
      /\ otadata.older.state \in {"EMPTY", "VALID"}
      /\ otadata.newer.state = "NEW" /\ otadata.newer.slot = Target
      /\ flash[Target] = fw
  BY RecordFacts DEF IInv, TypeOK, RunningInv, Activated, ContentInv, Target
<1>2. /\ AfterReset(otadata).newer.slot = Target
      /\ AfterReset(otadata).newer.state = "PENDING_VERIFY"
  BY <1>1, ResetRecords
<1> QED
  BY <1>1, <1>2 DEF NextBoot, ActiveSlot, Usable

\* The restart after the UPDATED report starts the package it names, however
\* attributes and chunks were interleaved, lost, repeated or mixed up.
THEOREM UpdatedIsTrueThm == Spec => []UpdatedIsTrue
<1>1. IInv => UpdatedIsTrue
  BY InvUpdatedIsTrue
<1> QED
  BY <1>1, Invariance, PTL

-----------------------------------------------------------------------------
(* The refinement. *)

\* A step that keeps the images the boot records name and the trial, and does
\* not start or stop the device, is a stutter.
LEMMA KeptRecordsStutter ==
  ASSUME UNCHANGED <<ConfirmedImage, TrialImage, TrialStarted, OnTrial>>,
         (pc = "off") <=> (pc' = "off")
  PROVE  UNCHANGED Trial!vars
BY DEF Trial!vars, Activity

\* The initial states map to initial states.
LEMMA InitMaps == Init => Trial!Init
<1> SUFFICES ASSUME Init PROVE Trial!Init
  OBVIOUS
<1> USE DEF Init, EspOtaInit, NoEntry
<1>1. ConfirmedImage = FactoryImage
  BY DEF ConfirmedImage, Usable, Slot
<1>2. TrialImage = NoPackage /\ TrialStarted = FALSE
  BY DEF TrialImage, TrialStarted, Unconfirmed
<1>3. Activity = "off"
  BY DEF Activity
<1> QED
  BY <1>1, <1>2, <1>3 DEF Trial!Init

\* A reset stops the device and keeps what the boot records say.
LEMMA ResetMaps ==
  ASSUME IInv, Reset, UNCHANGED EspOtaVars
  PROVE  [Trial!Next]_Trial!vars
<1>1. UNCHANGED <<ConfirmedImage, TrialImage, TrialStarted>>
  BY KeptRecords
<1>2. Activity' = "off"
  BY DEF Activity, Reset
<1>3. CASE Activity = "off"
  BY <1>1, <1>2, <1>3 DEF Trial!vars
<1>4. CASE Activity # "off"
  BY <1>1, <1>2, <1>4 DEF Trial!Next, Trial!Stop
<1> QED
  BY <1>3, <1>4

\* A boot starts the confirmed image, gives a staged image its one start, or
\* gives up the trial that was not confirmed.
LEMMA BootMaps == ASSUME IInv, Boot PROVE Trial!Next
<1>1. /\ EspOtaTypeOK /\ RecordInv /\ Bootloader
      /\ pc = "off" /\ pc' = "reconcile"
  BY DEF IInv, TypeOK, Boot
<1>2. Activity = "off" /\ Activity' = IF OnTrial' THEN "trial" ELSE "confirmed"
  BY <1>1 DEF Activity
<1>3. OnTrial' <=> TrialStarted'
  BY <1>1, BootRecords
<1>4. ConfirmedImage' = ConfirmedImage
  BY <1>1, BootRecords
<1>5. CASE otadata.newer.state = "NEW"
  <2>1. /\ TrialImage # NoPackage /\ TrialImage' = TrialImage
        /\ ~TrialStarted /\ TrialStarted' = TRUE
    BY <1>1, <1>5, BootRecords
  <2>2. Activity' = "trial"
    BY <1>2, <1>3, <2>1
  <2> QED
    BY <1>2, <1>4, <2>1, <2>2 DEF Trial!Next, Trial!StartTrial
<1>6. CASE TrialStarted
  <2>1. /\ TrialImage # NoPackage /\ TrialImage' = NoPackage
        /\ TrialStarted' = FALSE
    BY <1>1, <1>6, BootRecords
  <2>2. Activity' = "confirmed"
    BY <1>2, <1>3, <2>1
  <2> QED
    BY <1>2, <1>4, <1>6, <2>1, <2>2 DEF Trial!Next, Trial!RollBack
<1>7. CASE ~Unconfirmed(otadata.newer)
  <2>1. /\ TrialImage = NoPackage /\ TrialImage' = NoPackage
        /\ TrialStarted = FALSE /\ TrialStarted' = FALSE
    BY <1>1, <1>7, BootRecords
  <2>2. Activity' = "confirmed"
    BY <1>2, <1>3, <2>1
  <2> QED
    BY <1>2, <1>4, <2>1, <2>2 DEF Trial!Next, Trial!StartConfirmed
<1> QED
  BY <1>5, <1>6, <1>7 DEF Unconfirmed, TrialStarted

\* Confirming the running image is the abstract Confirm, or nothing.
LEMMA ConfirmMaps ==
  ASSUME IInv, ConfirmImage
  PROVE  [Trial!Next]_Trial!vars
<1>1. /\ EspOtaTypeOK /\ RecordInv /\ RunsActive
      /\ pc = "confirm" /\ pc' = "provision"
  BY DEF IInv, TypeOK, ConfirmImage, SessionInv, RunningInv, Phase
<1>2. CASE OnTrial
  <2>1. /\ ConfirmedImage' = TrialImage /\ TrialImage' = NoPackage
        /\ TrialStarted' = FALSE /\ OnTrial' = FALSE
    BY <1>1, <1>2, ValidRecords DEF ConfirmImage
  <2>2. Activity = "trial" /\ Activity' = "confirmed"
    BY <1>1, <1>2, <2>1 DEF Activity
  <2> QED
    BY <2>1, <2>2 DEF Trial!Next, Trial!Confirm
<1>3. CASE ~OnTrial
  BY <1>1, <1>3, KeptRecords, KeptRecordsStutter DEF ConfirmImage
<1> QED
  BY <1>2, <1>3

\* Erasing or filling the update target touches neither the confirmed image
\* nor a trial.
LEMMA TargetWriteMaps ==
  ASSUME IInv, pc = "run", pc' = "run", phase # "bootset",
         NEW x \in Package \cup {NoPackage},
         flash' = [flash EXCEPT ![Target] = x],
         UNCHANGED <<otadata, running>>
  PROVE  UNCHANGED Trial!vars
<1>1. EspOtaTypeOK /\ RecordInv /\ RunsConfirmed
  BY DEF IInv, TypeOK, RunningInv
<1>2. UNCHANGED <<ConfirmedImage, TrialImage, TrialStarted, OnTrial>>
  BY <1>1, SpareWrite DEF Target
<1> QED
  BY <1>2, KeptRecordsStutter

\* esp_ota_set_boot_partition stages the verified image.
LEMMA ActivateMaps ==
  ASSUME IInv, ActivateUpdate
  PROVE  [Trial!Next]_Trial!vars
<1>1. /\ pc = "run" /\ pc' = "run" /\ phase = "ended"
      /\ fw \in Package /\ flash[Target] = fw
      /\ EspOtaTypeOK /\ RecordInv /\ RunsConfirmed
  BY DEF ActivateUpdate, IInv, TypeOK, SessionInv, RunningInv, ContentInv
<1>2. CASE UNCHANGED EspOtaVars
  BY <1>1, <1>2, KeptRecords, KeptRecordsStutter
<1>3. CASE SetBoot(Target)
  <2>1. flash[Target] # NoPackage
    BY <1>1, PackageAssumption
  <2>2. /\ ConfirmedImage' = ConfirmedImage
        /\ TrialImage = NoPackage /\ TrialImage' = fw
        /\ TrialStarted = FALSE /\ TrialStarted' = FALSE
        /\ OnTrial = FALSE /\ OnTrial' = FALSE
    BY <1>1, <1>3, <2>1, SetBootRecords DEF Target
  <2>3. Activity = "confirmed" /\ Activity' = "confirmed"
    BY <1>1, <2>2 DEF Activity
  <2> QED
    BY <1>1, <2>2, <2>3 DEF Trial!Next, Trial!Stage
<1> QED
  BY <1>2, <1>3 DEF ActivateUpdate

\* Attributes either leave the flash alone or erase the update target.
LEMMA AttributesMaps ==
  ASSUME IInv, HandleAttributes
  PROVE  UNCHANGED Trial!vars
<1>1. pc = "run" /\ pc' = "run" /\ phase # "bootset"
  BY DEF HandleAttributes, Handling
<1>2. \/ UNCHANGED EspOtaVars
      \/ /\ flash' = [flash EXCEPT ![Target] = NoPackage]
         /\ UNCHANGED <<otadata, running>>
  BY DEF HandleAttributes, StartUpdate, OtaBegin
<1>3. CASE UNCHANGED EspOtaVars
  BY <1>1, <1>3, KeptRecords, KeptRecordsStutter
<1> QED
  BY <1>1, <1>2, <1>3, TargetWriteMaps

\* esp_ota_end fills the update target or fails.
LEMMA EndMaps ==
  ASSUME IInv, EndUpdate
  PROVE  UNCHANGED Trial!vars
<1>1. pc = "run" /\ pc' = "run" /\ phase # "bootset"
  BY DEF EndUpdate
<1>2. CASE UNCHANGED EspOtaVars
  BY <1>1, <1>2, KeptRecords, KeptRecordsStutter
<1>3. CASE \E p \in Package : OtaEnd(Target, p)
  BY <1>1, <1>3, TargetWriteMaps DEF OtaEnd
<1> QED
  BY <1>2, <1>3 DEF EndUpdate

\* Every step of the device is a step of the abstract mechanism or a stutter.
LEMMA NextMaps ==
  ASSUME IInv, [Next]_vars
  PROVE  [Trial!Next]_Trial!vars
<1>1. CASE Boot
  BY <1>1, BootMaps
<1>2. CASE ConfirmImage
  BY <1>2, ConfirmMaps
<1>3. CASE HandleAttributes
  BY <1>3, AttributesMaps
<1>4. CASE EndUpdate
  BY <1>4, EndMaps
<1>5. CASE ActivateUpdate
  BY <1>5, ActivateMaps
<1>6. CASE RestartIntoUpdate \/ HandleReboot \/ Crash
  BY <1>6, ResetMaps DEF RestartIntoUpdate, HandleReboot, Crash
<1>7. CASE ReconcilePending \/ ErasePending \/ WifiUp \/ ObtainToken
           \/ MqttConnected \/ MqttDisconnected \/ RecordPending \/ HandleChunk
  <2>1. UNCHANGED EspOtaVars /\ pc # "off" /\ pc' # "off"
    BY <1>7 DEF ReconcilePending, ErasePending, WifiUp, ObtainToken, MqttConnected,
       MqttDisconnected, RecordPending, HandleChunk, Handling
  <2> QED
    BY <2>1, KeptRecords, KeptRecordsStutter
<1>8. CASE AssignPackage \/ ServerAnswers \/ LoseMessage \/ UNCHANGED vars
  <2>1. UNCHANGED EspOtaVars /\ pc' = pc
    BY <1>8 DEF AssignPackage, ServerAnswers, LoseMessage, vars
  <2> QED
    BY <2>1, KeptRecords, KeptRecordsStutter
<1> QED
  BY <1>1, <1>2, <1>3, <1>4, <1>5, <1>6, <1>7, <1>8 DEF Next, Device

\* The device implements the abstract update mechanism: one confirmed image
\* survives everything, and a staged image is started once and then confirmed
\* or given up.
THEOREM ImplementsTrialUpdateThm == Spec => ImplementsTrialUpdate
<1>1. Init => Trial!Init
  BY InitMaps
<1>2. IInv /\ [Next]_vars => [Trial!Next]_Trial!vars
  BY NextMaps
<1> QED
  BY <1>1, <1>2, Invariance, PTL DEF Spec, ImplementsTrialUpdate, Trial!Spec

-----------------------------------------------------------------------------
(* The anti-loop keys: what the invariant says of images and versions. *)

\* The confirmed image and the trial are packages, with versions.
LEMMA ImageFacts ==
  ASSUME IInv
  PROVE  /\ ConfirmedImage \in Package
         /\ Compiled[ConfirmedImage] # NoVersion
         /\ TrialImage \in Package \cup {NoPackage}
         /\ TrialStarted => TrialImage # NoPackage /\ TrialImage = flash[otadata.newer.slot]
         /\ \A p \in Package : Version[p] # NoVersion
<1>1. /\ otadata \in OtaData
      /\ flash \in [Slot -> Package \cup {NoPackage}]
      /\ otadata.newer.slot \in Slot /\ otadata.older.slot \in Slot
      /\ otadata.older.state \in {"EMPTY", "VALID"}
      /\ "factory" \in Slot
      /\ RecordInv
  BY RecordFacts DEF IInv, TypeOK, Slot
<1>2. ConfirmedImage \in Package
  BY <1>1 DEF RecordInv, ConfirmedImage, Usable
<1>3. /\ TrialImage \in Package \cup {NoPackage}
      /\ TrialStarted => TrialImage # NoPackage /\ TrialImage = flash[otadata.newer.slot]
  BY <1>1 DEF RecordInv, TrialImage, TrialStarted, Unconfirmed, Usable
<1>4. \A p \in Package : Version[p] # NoVersion /\ Compiled[p] # NoVersion
  BY ThingsBoardAssumption DEF Versions
<1> QED
  BY <1>2, <1>3, <1>4

\* A running client that is not on trial is the confirmed image, also between
\* the activation of an update and the restart.
LEMMA RunsConfirmedImage ==
  ASSUME IInv, pc # "off", ~TrialStarted
  PROVE  flash[running] = ConfirmedImage
<1>1. CASE phase = "bootset"
  BY <1>1 DEF IInv, RunningInv, Activated, RecordInv, ConfirmedImage, Usable
<1>2. CASE phase # "bootset"
  BY <1>2, OnTrialIff DEF IInv, TypeOK, RunningInv
<1> QED
  BY <1>1, <1>2

\* While the client is connected there is no trial, up to the activation.
LEMMA NoTrialYet ==
  ASSUME IInv, pc = "run", phase # "bootset"
  PROVE  /\ TrialImage = NoPackage /\ ~TrialStarted
         /\ CurrentVersion = Compiled[ConfirmedImage]
<1>1. TrialImage = NoPackage /\ ~TrialStarted
  BY DEF IInv, RunningInv, RunsConfirmed, RunsActive, TrialImage, TrialStarted, Unconfirmed
<1> QED
  BY <1>1, RunsConfirmedImage DEF CurrentVersion

\* Steps that keep the images, the trial and the attempt on record.
Undisturbed ==
  /\ UNCHANGED <<ConfirmedImage, TrialImage, TrialStarted, CurrentVersion>>
  /\ UNCHANGED <<pendingFw, failedFw, assigned, rolledBack>>

\* Such a step keeps what is recorded and remembered, whatever becomes of pc
\* outside of a boot.
LEMMA UndisturbedKeeps ==
  ASSUME TrialInv, RememberedInv, Undisturbed,
         pc' \in {"connect", "confirm"} => pc \in {"connect", "confirm"},
         pc \in {"connect", "confirm"} => pc' \in {"connect", "confirm"} \/ TrialImage = NoPackage,
         pc \in {"off", "reconcile"} => pc' \in {"off", "reconcile"}
  PROVE  TrialInv' /\ RememberedInv'
<1>1. TrialInv'
  BY DEF TrialInv, Undisturbed
<1>2. RememberedInv'
  BY DEF RememberedInv, Undisturbed
<1> QED
  BY <1>1, <1>2

\* The steps that leave the flash and the boot records alone.
LEMMA KeptVersion ==
  ASSUME UNCHANGED EspOtaVars
  PROVE  UNCHANGED <<ConfirmedImage, TrialImage, TrialStarted, CurrentVersion>>
BY KeptRecords DEF CurrentVersion, EspOtaVars

-----------------------------------------------------------------------------
(* The anti-loop keys: their invariant. *)

\* A device fresh from the cable flash satisfies the invariant.
LEMMA InitRemembers == Init => AntiLoopInv
<1> SUFFICES ASSUME Init PROVE AntiLoopInv
  OBVIOUS
<1>1. IInv
  BY InitEstablishes
<1>2. TrialImage = NoPackage
  BY DEF Init, EspOtaInit, NoEntry, TrialImage, Unconfirmed
<1> QED
  BY <1>1, <1>2, ImageFacts
  DEF Init, AntiLoopInv, AssignedInv, AttemptInv, TrialInv, RememberedInv

\* A reset outside of the window between erasure and confirmation.
LEMMA ResetRemembers ==
  ASSUME IInv, AntiLoopInv, Reset, pc \notin {"connect", "confirm"},
         UNCHANGED <<EspOtaVars, nvs, fwState, server, rolledBack>>
  PROVE  AntiLoopInv'
<1>1. UNCHANGED <<ConfirmedImage, TrialImage, TrialStarted>>
  BY KeptRecords
<1>2. AssignedInv' /\ AttemptInv'
  BY DEF Reset, AssignedInv, AttemptInv
<1>3. TrialInv'
  BY <1>1 DEF AntiLoopInv, TrialInv, Reset, nvs
<1>4. RememberedInv'
  BY DEF AntiLoopInv, RememberedInv, Reset, nvs, server
<1> QED
  BY <1>2, <1>3, <1>4 DEF AntiLoopInv

\* A boot that gives a trial up finds it on record as pending.
LEMMA BootRemembers == ASSUME IInv, AntiLoopInv, Boot PROVE AntiLoopInv'
<1>1. /\ pc = "off" /\ pc' = "reconcile" /\ phase = "idle" /\ phase' = "idle"
      /\ UNCHANGED <<pendingFw, failedFw, assigned, connected, msgs, fw>>
      /\ rolledBack' = rolledBack \cup {Version[flash[s]] : s \in AbortedAtReset}
      /\ EspOtaTypeOK /\ RecordInv /\ Bootloader
  BY DEF Boot, IInv, TypeOK, SessionInv, Phase, nvs, server, session, net
<1>2. AssignedInv' /\ AttemptInv'
  BY <1>1 DEF AntiLoopInv, AssignedInv, AttemptInv
<1>3. ConfirmedImage' = ConfirmedImage
  BY <1>1, BootRecords
<1>4. CASE TrialStarted
  <2>1. TrialImage' = NoPackage /\ AbortedAtReset = {otadata.newer.slot}
    BY <1>1, <1>4, BootRecords
  <2>2. rolledBack' = rolledBack \cup {Version[TrialImage]}
    BY <1>1, <1>4, <2>1, ImageFacts
  <2>3. pendingFw = Version[TrialImage] /\ pendingFw # NoVersion
    BY <1>1, <1>4, ImageFacts DEF AntiLoopInv, TrialInv
  <2>4. TrialInv'
    BY <1>1, <1>3, <2>1 DEF AntiLoopInv, TrialInv
  <2>5. RememberedInv'
    BY <1>1, <2>2, <2>3 DEF AntiLoopInv, RememberedInv
  <2> QED
    BY <1>2, <2>4, <2>5 DEF AntiLoopInv
<1>5. CASE ~TrialStarted
  <2>1. /\ rolledBack' = rolledBack
        /\ TrialImage' = TrialImage
    BY <1>1, <1>5, BootRecords DEF TrialStarted, Unconfirmed
  <2>2. TrialInv'
    BY <1>1, <1>3, <1>5, <2>1 DEF AntiLoopInv, TrialInv
  <2>3. RememberedInv'
    BY <1>1, <2>1 DEF AntiLoopInv, RememberedInv
  <2> QED
    BY <1>2, <2>2, <2>3 DEF AntiLoopInv
<1> QED
  BY <1>4, <1>5

\* reconcile_pending_ota: the attempt on record is dropped only if it runs, on
\* trial, and recorded as failed otherwise.
LEMMA ReconcileRemembers == ASSUME IInv, AntiLoopInv, ReconcilePending PROVE AntiLoopInv'
<1>1. /\ pc = "reconcile" /\ phase' = phase
      /\ UNCHANGED <<EspOtaVars, assigned, connected, msgs, fw, rolledBack>>
      /\ UNCHANGED <<ConfirmedImage, TrialImage, TrialStarted, CurrentVersion>>
  BY KeptVersion DEF ReconcilePending, server, session, net
<1>2. \/ /\ pendingFw \in {NoVersion, CurrentVersion} /\ pendingFw' = NoVersion
         /\ failedFw' = failedFw /\ pc' = "connect"
      \/ /\ pendingFw \notin {NoVersion, CurrentVersion} /\ pendingFw' = pendingFw
         /\ failedFw' = pendingFw /\ pc' = "erase"
  BY DEF ReconcilePending
<1>3. phase = "idle"
  BY <1>1 DEF IInv, SessionInv
<1>4. AssignedInv' /\ AttemptInv'
  BY <1>1, <1>2, <1>3 DEF AntiLoopInv, AssignedInv, AttemptInv
<1>5. TrialImage = NoPackage \/ TrialStarted
  BY <1>1, <1>3 DEF IInv, RunningInv, RunsActive, TrialImage, TrialStarted, Unconfirmed
<1>6. TrialInv'
  BY <1>1, <1>2, <1>5, ImageFacts DEF AntiLoopInv, TrialInv
<1>7. RememberedInv'
  <2> SUFFICES ASSUME assigned # NoPackage, Version[assigned] \in rolledBack
               PROVE  /\ pendingFw' \in {NoVersion, Version[assigned]}
                      /\ failedFw' = Version[assigned]
    BY <1>1 DEF RememberedInv
  <2>1. /\ pendingFw \in {NoVersion, Version[assigned]}
        /\ failedFw = Version[assigned] \/ pendingFw = Version[assigned]
    BY DEF AntiLoopInv, RememberedInv
  <2>2. Version[assigned] # NoVersion
    BY ImageFacts DEF IInv, TypeOK
  <2>3. CASE pendingFw \notin {NoVersion, CurrentVersion}
    BY <1>2, <2>1, <2>3
  <2>4. CASE pendingFw = NoVersion
    BY <1>2, <2>1, <2>2, <2>4
  <2>5. CASE pendingFw = CurrentVersion /\ pendingFw # NoVersion
    <3>1. TrialStarted
      BY <1>1, <2>5, RunsConfirmedImage DEF AntiLoopInv, TrialInv, CurrentVersion
    <3>2. pendingFw = Version[TrialImage] /\ Version[TrialImage] \notin rolledBack
      BY <1>1, <3>1, ImageFacts DEF AntiLoopInv, TrialInv
    <3> QED
      BY <2>1, <2>5, <3>2
  <2> QED
    BY <2>3, <2>4, <2>5
<1> QED
  BY <1>4, <1>6, <1>7 DEF AntiLoopInv

\* The rest of app_main: the erasure comes after the record, the confirmation
\* after the erasure.
LEMMA StartRemembers ==
  ASSUME IInv, AntiLoopInv, ErasePending \/ WifiUp \/ ConfirmImage \/ ObtainToken
  PROVE  AntiLoopInv'
<1>1. /\ pc \in {"erase", "connect", "confirm", "provision"}
      /\ phase = "idle" /\ phase' = "idle"
      /\ UNCHANGED <<failedFw, assigned, connected, msgs, fw, rolledBack>>
  BY DEF ErasePending, WifiUp, ConfirmImage, ObtainToken, nvs, server, session, net,
     IInv, SessionInv
<1>2. AssignedInv' /\ AttemptInv'
  BY <1>1 DEF AntiLoopInv, AssignedInv, AttemptInv
<1>3. /\ pendingFw' = NoVersion \/ pendingFw' = pendingFw
      /\ pendingFw' # NoVersion => pc = "provision"
  BY DEF ErasePending, WifiUp, ConfirmImage, ObtainToken, nvs, AntiLoopInv, TrialInv
<1>4. RememberedInv'
  BY <1>1, <1>3 DEF AntiLoopInv, RememberedInv
<1>5. TrialInv'
  <2>1. CASE ErasePending
    BY <2>1, ImageFacts, KeptVersion DEF ErasePending, AntiLoopInv, TrialInv
  <2>2. CASE WifiUp
    BY <2>2, KeptVersion DEF WifiUp, nvs, AntiLoopInv, TrialInv
  <2>3. CASE ConfirmImage
    <3>1. /\ EspOtaTypeOK /\ RecordInv /\ RunsActive
          /\ pendingFw' = NoVersion /\ pc' = "provision"
      BY <1>1, <2>3 DEF ConfirmImage, nvs, IInv, TypeOK, RunningInv, AntiLoopInv, TrialInv
    <3>2. TrialImage' = NoPackage
      <4>1. CASE OnTrial
        BY <2>3, <3>1, <4>1, ValidRecords DEF ConfirmImage
      <4>2. CASE ~OnTrial
        <5>1. TrialImage = NoPackage
          BY <3>1, <4>2, OnTrialIff DEF RunsActive, TrialStarted, TrialImage, Unconfirmed
        <5> QED
          BY <2>3, <4>2, <5>1, KeptRecords DEF ConfirmImage
      <4> QED
        BY <4>1, <4>2
    <3>3. IInv'
      BY <2>3, ConfirmKeeps
    <3>4. Compiled[ConfirmedImage'] # NoVersion
      <4>1. ConfirmedImage' \in Package
        BY <2>3, <3>1, ImageFacts, ValidRecords, KeptRecords, OnTrialIff DEF ConfirmImage
      <4> QED
        BY <4>1, ThingsBoardAssumption DEF Versions
    <3> QED
      BY <3>1, <3>2, <3>4 DEF TrialInv
  <2>4. CASE ObtainToken
    BY <2>4, KeptVersion DEF ObtainToken, AntiLoopInv, TrialInv
  <2> QED
    BY <2>1, <2>2, <2>3, <2>4
<1> QED
  BY <1>2, <1>4, <1>5 DEF AntiLoopInv

\* MQTT and the network: nothing but the assigned package is on its way.
LEMMA NetworkRemembers ==
  ASSUME IInv, AntiLoopInv, MqttConnected \/ MqttDisconnected \/ ServerAnswers \/ LoseMessage
  PROVE  AntiLoopInv'
<1>1. /\ UNCHANGED <<EspOtaVars, nvs, pc, fw, phase, assigned, rolledBack>>
      /\ UNCHANGED <<ConfirmedImage, TrialImage, TrialStarted, CurrentVersion>>
  BY KeptVersion DEF MqttConnected, MqttDisconnected, ServerAnswers, LoseMessage,
     session, server
<1>2. /\ \A m \in msgs' : m \in msgs \/ m.pkg = assigned
      /\ pc # "run" => connected' = FALSE /\ msgs' = {}
  BY DEF MqttConnected, MqttDisconnected, ServerAnswers, LoseMessage, Handling,
     ChunkMsg, AttributesMsg, AntiLoopInv, AssignedInv, session
<1>3. AssignedInv'
  BY <1>1, <1>2 DEF AntiLoopInv, AssignedInv
<1>4. AttemptInv'
  BY <1>1 DEF AntiLoopInv, AttemptInv, nvs
<1>5. TrialInv' /\ RememberedInv'
  BY <1>1, UndisturbedKeeps DEF AntiLoopInv, Undisturbed, nvs
<1> QED
  BY <1>3, <1>4, <1>5 DEF AntiLoopInv

\* The server changes the assignment only while the device is down.
LEMMA AssignRemembers ==
  ASSUME IInv, AntiLoopInv, AssignPackage, Undefeated
  PROVE  AntiLoopInv'
<1>1. /\ pc = "off" /\ pc' = "off" /\ ~connected /\ msgs' = {} /\ fw' = NoPackage
      /\ connected' = connected /\ phase' = phase /\ phase = "idle"
      /\ rolledBack' = {}
      /\ UNCHANGED <<pendingFw, failedFw>>
      /\ UNCHANGED <<ConfirmedImage, TrialImage, TrialStarted, CurrentVersion>>
  BY KeptVersion DEF AssignPackage, Undefeated, AntiLoopInv, AssignedInv, session, nvs,
     IInv, SessionInv
<1> QED
  BY <1>1 DEF AntiLoopInv, AssignedInv, AttemptInv, TrialInv, RememberedInv

\* start_fw_update refuses what is known-bad, and the assigned version, once it
\* was rolled back, is known-bad.
LEMMA StartsUnremembered ==
  ASSUME AntiLoopInv, pc = "run", fw' \in Package, fw' \in {fw, assigned},
         Version[fw'] # failedFw
  PROVE  Version[fw'] \notin rolledBack
BY PackageAssumption DEF AntiLoopInv, AssignedInv, RememberedInv

\* What handle_attributes_payload does to the globals and to the update.
LEMMA AttributesEffect ==
  ASSUME IInv, AntiLoopInv, HandleAttributes
  PROVE  /\ pc = "run" /\ pc' = "run" /\ phase \in {"idle", "downloading"}
         /\ fw' \in {NoPackage, assigned} /\ fw' \in {fw, assigned}
         /\ msgs' \subseteq msgs
         /\ UNCHANGED <<ConfirmedImage, TrialImage, TrialStarted, CurrentVersion>>
         /\ \/ phase' = phase
            \/ /\ phase = "idle" /\ phase' = "starting" /\ fw' \in Package
               /\ Version[fw'] \notin {failedFw, CurrentVersion}
<1>1. pc = "run" /\ pc' = "run" /\ phase \in {"idle", "downloading"}
  BY DEF HandleAttributes, Handling
<1>2. /\ fw' \in {NoPackage, assigned} /\ fw' \in {fw, assigned}
      /\ msgs' \subseteq msgs
  BY DEF HandleAttributes, Taken, AntiLoopInv, AssignedInv
<1>3. fw' # NoPackage => fw' \in Package
  BY <1>2 DEF IInv, TypeOK
<1>4. /\ \/ UNCHANGED EspOtaVars
         \/ /\ flash' = [flash EXCEPT ![Target] = NoPackage]
            /\ UNCHANGED <<otadata, running>>
      /\ \/ phase' = phase
         \/ /\ phase = "idle" /\ phase' = "starting" /\ fw' # NoPackage
            /\ Version[fw'] \notin {failedFw, CurrentVersion}
  BY DEF HandleAttributes, StartUpdate, OtaBegin
<1>5. UNCHANGED <<ConfirmedImage, TrialImage, TrialStarted, CurrentVersion>>
  <2>1. EspOtaTypeOK /\ RecordInv /\ RunsConfirmed
    BY <1>1 DEF IInv, TypeOK, RunningInv
  <2>2. CASE UNCHANGED EspOtaVars
    BY <2>2, KeptVersion
  <2>3. CASE /\ flash' = [flash EXCEPT ![Target] = NoPackage]
             /\ UNCHANGED <<otadata, running>>
    BY <2>1, <2>3, SpareWrite DEF Target, CurrentVersion
  <2> QED
    BY <1>4, <2>2, <2>3
<1> QED
  BY <1>1, <1>2, <1>3, <1>4, <1>5

\* handle_attributes_payload and start_fw_update up to esp_ota_begin.
LEMMA AttributesRemember ==
  ASSUME IInv, AntiLoopInv, HandleAttributes
  PROVE  AntiLoopInv'
<1>1. /\ pc = "run" /\ pc' = "run" /\ phase \in {"idle", "downloading"}
      /\ fw' \in {NoPackage, assigned} /\ fw' \in {fw, assigned}
      /\ msgs' \subseteq msgs
      /\ UNCHANGED <<ConfirmedImage, TrialImage, TrialStarted, CurrentVersion>>
      /\ \/ phase' = phase
         \/ /\ phase = "idle" /\ phase' = "starting" /\ fw' \in Package
            /\ Version[fw'] \notin {failedFw, CurrentVersion}
  BY AttributesEffect
<1>2. UNCHANGED <<pendingFw, failedFw, assigned, rolledBack>>
  BY DEF HandleAttributes, nvs, server
<1>3. AssignedInv'
  BY <1>1, <1>2 DEF AntiLoopInv, AssignedInv
<1>4. AttemptInv'
  <2>1. phase # "idle" => fw' = fw
    BY <1>1, PackageAssumption DEF IInv, SessionInv, AntiLoopInv, AssignedInv
  <2> QED
    BY <1>1, <1>2, <2>1 DEF AntiLoopInv, AttemptInv
<1>5. TrialInv' /\ RememberedInv'
  BY <1>1, <1>2, UndisturbedKeeps DEF AntiLoopInv, Undisturbed
<1> QED
  BY <1>3, <1>4, <1>5 DEF AntiLoopInv

\* A package whose update is in progress is the assigned one, and its version
\* was not rolled back since it was assigned.
LEMMA InProgressIsFresh ==
  ASSUME IInv, AntiLoopInv, phase # "idle"
  PROVE  /\ fw \in Package /\ fw = assigned
         /\ Version[fw] \notin rolledBack
<1>1. pc = "run" /\ fw \in Package /\ fw = assigned
  BY PackageAssumption DEF IInv, SessionInv, AntiLoopInv, AssignedInv
<1>2. Version[fw] # failedFw
  BY DEF AntiLoopInv, AttemptInv
<1> QED
  BY <1>1, <1>2, PackageAssumption DEF AntiLoopInv, RememberedInv

\* The NVS commit of pending_fw replaces no record that is still needed.
LEMMA RecordRemembers ==
  ASSUME IInv, AntiLoopInv, RecordPending
  PROVE  AntiLoopInv'
<1>1. /\ pc = "run" /\ pc' = "run" /\ phase = "starting" /\ phase' = "downloading"
      /\ pendingFw' = Version[fw]
      /\ UNCHANGED <<failedFw, assigned, rolledBack, fw, connected, msgs>>
      /\ UNCHANGED <<ConfirmedImage, TrialImage, TrialStarted, CurrentVersion>>
  BY KeptVersion DEF RecordPending, server
<1>2. fw = assigned /\ Version[fw] \notin rolledBack
  BY <1>1, InProgressIsFresh
<1>3. Version[fw] \notin {failedFw, CurrentVersion}
  BY <1>1 DEF AntiLoopInv, AttemptInv
<1>4. TrialImage = NoPackage /\ CurrentVersion = Compiled[ConfirmedImage]
  BY <1>1, NoTrialYet
<1>5. AssignedInv' /\ AttemptInv'
  BY <1>1, <1>3 DEF AntiLoopInv, AssignedInv, AttemptInv
<1>6. TrialInv'
  BY <1>1, <1>3, <1>4 DEF TrialInv
<1>7. RememberedInv'
  BY <1>1, <1>2 DEF RememberedInv
<1> QED
  BY <1>5, <1>6, <1>7 DEF AntiLoopInv

\* Chunks and esp_ota_end change neither the record nor the package.
LEMMA DownloadRemembers ==
  ASSUME IInv, AntiLoopInv, HandleChunk \/ EndUpdate
  PROVE  AntiLoopInv'
<1>1. /\ pc = "run" /\ pc' = "run" /\ phase # "bootset"
      /\ phase' \notin {"idle", "starting"} => phase \notin {"idle", "starting"}
      /\ phase' # "starting"
      /\ UNCHANGED <<pendingFw, failedFw, assigned, rolledBack, fw, connected>>
      /\ msgs' \subseteq msgs
  BY DEF HandleChunk, Handling, WriteChunk, VerifyUpdate, WriteError, Fail, EndUpdate,
     Taken, nvs, server, net
<1>2. UNCHANGED <<ConfirmedImage, TrialImage, TrialStarted, CurrentVersion>>
  <2>1. EspOtaTypeOK /\ RecordInv /\ RunsConfirmed
    BY <1>1 DEF IInv, TypeOK, RunningInv
  <2>2. CASE UNCHANGED EspOtaVars
    BY <2>2, KeptVersion
  <2>3. CASE \E p \in Package : OtaEnd(Target, p)
    BY <2>1, <2>3, SpareWrite DEF OtaEnd, Target, CurrentVersion
  <2> QED
    BY <2>2, <2>3 DEF HandleChunk, EndUpdate
<1>3. AssignedInv' /\ AttemptInv'
  BY <1>1, <1>2 DEF AntiLoopInv, AssignedInv, AttemptInv
<1>4. TrialInv' /\ RememberedInv'
  BY <1>1, <1>2, UndisturbedKeeps DEF AntiLoopInv, Undisturbed
<1> QED
  BY <1>3, <1>4 DEF AntiLoopInv

\* The image that is staged is the one on record as pending.
LEMMA ActivateRemembers ==
  ASSUME IInv, AntiLoopInv, ActivateUpdate
  PROVE  AntiLoopInv'
<1>1. /\ pc = "run" /\ pc' = "run" /\ phase = "ended" /\ phase' \in {"idle", "bootset"}
      /\ UNCHANGED <<pendingFw, failedFw, assigned, rolledBack, fw, connected, msgs>>
      /\ EspOtaTypeOK /\ RecordInv /\ RunsConfirmed
      /\ fw \in Package /\ flash[Target] = fw
  BY DEF ActivateUpdate, Fail, nvs, server, net, IInv, TypeOK, SessionInv, RunningInv,
     ContentInv
<1>2. CASE UNCHANGED EspOtaVars
  <2>1. UNCHANGED <<ConfirmedImage, TrialImage, TrialStarted, CurrentVersion>>
    BY <1>2, KeptVersion
  <2>2. AssignedInv' /\ AttemptInv'
    BY <1>1, <2>1 DEF AntiLoopInv, AssignedInv, AttemptInv
  <2> QED
    BY <1>1, <2>1, <2>2, UndisturbedKeeps DEF AntiLoopInv, Undisturbed
<1>3. CASE SetBoot(Target)
  <2>1. /\ ConfirmedImage' = ConfirmedImage
        /\ TrialImage' = fw
        /\ UNCHANGED <<flash, running>>
    BY <1>1, <1>3, SetBootRecords, PackageAssumption DEF Target
  <2>2. CurrentVersion' = CurrentVersion
    BY <2>1 DEF CurrentVersion
  <2>3. Version[fw] \notin rolledBack
    BY <1>1, InProgressIsFresh
  <2>4. pendingFw = Version[fw] /\ Version[fw] # failedFw
    BY <1>1 DEF AntiLoopInv, AttemptInv
  <2>5. AssignedInv' /\ AttemptInv'
    BY <1>1, <2>2 DEF AntiLoopInv, AssignedInv, AttemptInv
  <2>6. TrialInv'
    BY <1>1, <2>1, <2>3, <2>4 DEF AntiLoopInv, TrialInv
  <2>7. RememberedInv'
    BY <1>1 DEF AntiLoopInv, RememberedInv
  <2> QED
    BY <2>5, <2>6, <2>7 DEF AntiLoopInv
<1> QED
  BY <1>2, <1>3 DEF ActivateUpdate

\* The invariant is inductive: one case per action.
LEMMA NextRemembers ==
  ASSUME Undefeated, IInv, AntiLoopInv, [Next]_vars
  PROVE  AntiLoopInv'
<1>1. CASE Boot
  BY <1>1, BootRemembers
<1>2. CASE ReconcilePending
  BY <1>2, ReconcileRemembers
<1>3. CASE ErasePending \/ WifiUp \/ ConfirmImage \/ ObtainToken
  BY <1>3, StartRemembers
<1>4. CASE MqttConnected \/ MqttDisconnected \/ ServerAnswers \/ LoseMessage
  BY <1>4, NetworkRemembers
<1>5. CASE HandleAttributes
  BY <1>5, AttributesRemember
<1>6. CASE RecordPending
  BY <1>6, RecordRemembers
<1>7. CASE HandleChunk \/ EndUpdate
  BY <1>7, DownloadRemembers
<1>8. CASE ActivateUpdate
  BY <1>8, ActivateRemembers
<1>9. CASE RestartIntoUpdate \/ HandleReboot \/ Crash
  BY <1>9, ResetRemembers
  DEF RestartIntoUpdate, HandleReboot, Crash, Handling, Undefeated
<1>10. CASE AssignPackage
  BY <1>10, AssignRemembers
<1>11. CASE UNCHANGED vars
  <2>1. UNCHANGED <<ConfirmedImage, TrialImage, TrialStarted, CurrentVersion>>
    BY <1>11, KeptVersion DEF vars
  <2>2. AssignedInv' /\ AttemptInv'
    BY <1>11, <2>1
    DEF vars, nvs, session, server, net, AntiLoopInv, AssignedInv, AttemptInv
  <2> QED
    BY <1>11, <2>1, <2>2, UndisturbedKeeps
    DEF vars, nvs, session, server, AntiLoopInv, Undisturbed
<1> QED
  BY <1>1, <1>2, <1>3, <1>4, <1>5, <1>6, <1>7, <1>8, <1>9, <1>10, <1>11
  DEF Next, Device

\* The invariant holds in every reachable state.
THEOREM AntiLoopInvariance ==
  ASSUME Undefeated
  PROVE  Spec => []AntiLoopInv
<1>1. Init => AntiLoopInv
  BY InitRemembers
<1>2. IInv /\ AntiLoopInv /\ [Next]_vars => AntiLoopInv'
  BY NextRemembers
<1> QED
  BY <1>1, <1>2, Invariance, PTL DEF Spec

-----------------------------------------------------------------------------
(* The anti-loop keys: the theorems. *)

\* A rolled-back version that is still assigned is on record as pending or
\* failed, and no image on record as failed gets to its trial.
THEOREM AntiLoopThm ==
  ASSUME Undefeated
  PROVE  Spec => []AntiLoopHolds
<1>1. IInv /\ AntiLoopInv => AntiLoopHolds
  <2> SUFFICES ASSUME IInv, AntiLoopInv PROVE AntiLoopHolds
    OBVIOUS
  <2>1. RollbackRemembered
    BY DEF AntiLoopInv, RememberedInv, RollbackRemembered
  <2>2. BlacklistHolds
    <3> SUFFICES ASSUME otadata.newer.state = "NEW"
                 PROVE  Version[flash[otadata.newer.slot]] # failedFw
      BY DEF BlacklistHolds
    <3>1. TrialImage = flash[otadata.newer.slot] /\ ~TrialStarted
      BY DEF TrialImage, TrialStarted, Unconfirmed
    <3>2. TrialImage # NoPackage
      BY <3>1 DEF IInv, RecordInv, Usable
    <3> QED
      BY <3>1, <3>2 DEF AntiLoopInv, TrialInv
  <2> QED
    BY <2>1, <2>2 DEF AntiLoopHolds
<1> QED
  BY <1>1, Invariance, AntiLoopInvariance, PTL

\* No update to a version that was rolled back is started on the device's own
\* account: there is no download / crash / rollback loop.
THEOREM NoAutomaticRetryThm ==
  ASSUME Undefeated
  PROVE  Spec => NoAutomaticRetry
<1>1. IInv /\ AntiLoopInv /\ [Next]_vars =>
        [phase = "idle" /\ phase' = "starting" => Version[fw'] \notin rolledBack]_vars
  <2> SUFFICES ASSUME IInv, AntiLoopInv, [Next]_vars, phase = "idle", phase' = "starting"
               PROVE  Version[fw'] \notin rolledBack
    OBVIOUS
  <2>1. HandleAttributes
    BY DEF Next, Device, Boot, ReconcilePending, ErasePending, WifiUp, ConfirmImage,
       ObtainToken, MqttConnected, RecordPending, HandleChunk, EndUpdate, ActivateUpdate,
       RestartIntoUpdate, HandleReboot, Crash, MqttDisconnected, AssignPackage,
       ServerAnswers, LoseMessage, Reset, session, vars
  <2> QED
    BY <2>1, AttributesEffect, StartsUnremembered
<1> QED
  BY <1>1, Invariance, AntiLoopInvariance, PTL DEF Spec, NoAutomaticRetry
=============================================================================
