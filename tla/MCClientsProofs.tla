--------------------------- MODULE MCClientsProofs ---------------------------
(***************************************************************************)
(* TLAPS proofs about the smaller programs, for any conversions, intervals,*)
(* block and chunk counts and bounds: the drivers of the MCP3221           *)
(* are exact and agree as long as nothing wraps; tokens reach NVS and the  *)
(* real client; publications keep the floor; the light is shown as it is;  *)
(* MCUboot is asked for whole images only; a script that completes leaves  *)
(* its image running; every variable keeps its type.                       *)
(***************************************************************************)
EXTENDS MCClients, NativeOtaProofs

-----------------------------------------------------------------------------
(* Mcp3221. *)

\* uint32_t values are taken modulo 2^32.
Uint32 == 4294967296

\* The division the model does without the intermediate product is the exact
\* one.
LEMMA ExactDivision ==
  ASSUME NEW x \in Nat
  PROVE  /\ MilliTo12Bits(x) \in Nat
         /\ MilliTo12Bits(x) = (x * 1000) \div 4096
<1> DEFINE q == x \div 512
           r == x % 512
           s == (r * 125) \div 512
<1>1. q \in Nat /\ r \in 0..511 /\ x = 512 * q + r
  OBVIOUS
<1>2. s \in Nat /\ 512 * s <= r * 125 /\ r * 125 < 512 * (s + 1)
  BY <1>1
<1> HIDE DEF q, r, s
<1>3. 4096 * (q * 125 + s) <= x * 1000 /\ x * 1000 < 4096 * (q * 125 + s + 1)
  BY <1>1, <1>2
<1>4. (x * 1000) \div 4096 = q * 125 + s
  BY <1>1, <1>2, <1>3
<1> QED
  BY <1>1, <1>2, <1>4 DEF MilliTo12Bits, q, r, s

\* What the Zephyr driver computes, with the product of the source reduced
\* modulo 2^32 as uint32_t arithmetic does, is what the model computes.
LEMMA WrappedDivision ==
  ASSUME NEW x \in Nat
  PROVE  ((x * 1000) % Uint32) \div 4096 = MilliTo12Bits(x) % TwoTo20
<1> DEFINE y == x * 1000
           k == y \div Uint32
           m == y % Uint32
           e == m \div 4096
<1>1. y \in Nat
  OBVIOUS
<1> HIDE DEF y
<1>2. /\ k \in Nat /\ m \in Nat
      /\ m < Uint32 /\ y = Uint32 * k + m
  BY <1>1, SMT DEF Uint32
<1> HIDE DEF k, m
<1>3. e \in Nat /\ 4096 * e <= m /\ m < 4096 * (e + 1)
  BY <1>2
<1> HIDE DEF e
<1>4. e < TwoTo20
  BY <1>2, <1>3, SMT DEF Uint32, TwoTo20
<1>5. y \div 4096 = TwoTo20 * k + e
  BY <1>2, <1>3, SMT DEF Uint32, TwoTo20
<1>6. (TwoTo20 * k + e) % TwoTo20 = e
  BY <1>2, <1>3, <1>4, SMT DEF TwoTo20
<1>7. MilliTo12Bits(x) = y \div 4096
  BY ExactDivision DEF y
<1> QED
  BY <1>5, <1>6, <1>7 DEF y, m, e

\* The bytes of a 12-bit conversion give the conversion back.
LEMMA ReadsConversion ==
  ASSUME NEW c \in Conversion
  PROVE  Read(c) = c
<1>1. c \in Nat /\ c <= 4095
  BY ConversionAssumption
<1> QED
  BY <1>1 DEF Read, RawOf

\* A reading times a 16-bit reference is far below 2^32: the ESP-IDF product
\* and the first product of the Zephyr driver never wrap.
LEMMA ProductFits ==
  ASSUME NEW c \in Conversion
  PROVE  c * VrefMv \in Nat /\ c * VrefMv < Uint32
<1>1. c \in Nat /\ c <= 4095
  BY ConversionAssumption
<1>2. VrefMv \in Nat /\ VrefMv <= 65535
  BY VrefAssumption
<1> DEFINE v == VrefMv
<1> HIDE DEF v
<1>3. c * v \in Nat
  BY <1>1, <1>2 DEF v
<1>4. c * v <= 4095 * v
  BY <1>1, <1>2, SMT DEF v
<1> QED
  BY <1>2, <1>3, <1>4, SMT DEF Uint32, v

-----------------------------------------------------------------------------

\* After a fetch the driver holds the conversion it was given.
Fetched == zpc = "get" => zconv \in Conversion /\ raw = zconv

\* A printed voltage is the drivers' conversion of what was read.
ReadingInv ==
  /\ ReadingTypeOK
  /\ Fetched
  /\ microvolts # NoReading =>
       zconv \in Conversion /\ microvolts = MicrovoltsOf(zconv)
  /\ millivolts # NoReading =>
       econv \in Conversion /\ millivolts = MillivoltsOf(econv)

\* Nothing has been read yet.
LEMMA ReadingStarts == ReadingInit => ReadingInv
BY DEF ReadingInit, ReadingInv, ReadingTypeOK, Fetched

\* Every step of both loops keeps the invariant.
LEMMA ReadingKeeps ==
  ASSUME ReadingInv, [ReadingNext]_readingVars
  PROVE  ReadingInv'
<1>1. \A c \in Conversion : Read(c) = c
  BY ReadsConversion
<1>2. ASSUME NEW c \in Conversion
      PROVE  MicrovoltsOf(c) \in Nat /\ MillivoltsOf(c) \in Nat
  <2>1. c * VrefMv \in Nat
    BY ProductFits
  <2>2. MilliTo12Bits(c * VrefMv) \in Nat
    BY <2>1, ExactDivision
  <2>3. MicrovoltsOf(c) \in Nat
    BY <2>2, SMT DEF MicrovoltsOf, TwoTo20
  <2>4. MillivoltsOf(c) \in Nat
    BY <2>1 DEF MillivoltsOf
  <2> QED
    BY <2>3, <2>4
<1>3. CASE SampleFetch
  <2>1. PICK c \in Conversion : raw' = Read(c) /\ zconv' = c
    BY <1>3 DEF SampleFetch
  <2>2. raw' = c
    BY <1>1, <2>1
  <2>3. c \in Nat /\ c <= 4095
    BY ConversionAssumption
  <2>4. raw' \in 0..4095
    BY <2>2, <2>3
  <2> QED
    BY <1>3, <2>1, <2>2, <2>4 DEF SampleFetch, ReadingInv, ReadingTypeOK, Fetched, esp, MillivoltsOf
<1>4. CASE FetchFails
  BY <1>4 DEF FetchFails, ReadingInv, ReadingTypeOK, Fetched, esp, MillivoltsOf
<1>5. CASE ChannelGet
  <2>1. raw \in 0..4095 /\ raw = zconv /\ zconv \in Conversion
    BY <1>5 DEF ChannelGet, ReadingInv, ReadingTypeOK, Fetched
  <2>2. microvolts' \in Nat
    BY <1>2, <1>5, <2>1 DEF ChannelGet
  <2> QED
    BY <1>5, <2>1, <2>2
    DEF ChannelGet, ReadingInv, ReadingTypeOK, Fetched, esp, MillivoltsOf, MicrovoltsOf
<1>6. CASE ReadVoltage
  <2>1. PICK c \in Conversion : millivolts' = MillivoltsOf(Read(c)) /\ econv' = c
    BY <1>6 DEF ReadVoltage
  <2>2. millivolts' = MillivoltsOf(c) /\ millivolts' \in Nat
    BY <1>1, <1>2, <2>1
  <2> QED
    BY <1>6, <2>1, <2>2
    DEF ReadVoltage, ReadingInv, ReadingTypeOK, Fetched, zephyr, MillivoltsOf, MicrovoltsOf
<1>7. CASE ReadFails
  BY <1>7 DEF ReadFails, ReadingInv, ReadingTypeOK, Fetched, zephyr, MicrovoltsOf
<1>8. CASE UNCHANGED readingVars
  BY <1>8 DEF readingVars, zephyr, esp, ReadingInv, ReadingTypeOK, Fetched, MicrovoltsOf, MillivoltsOf
<1> QED
  BY <1>3, <1>4, <1>5, <1>6, <1>7, <1>8 DEF ReadingNext

\* The invariant of both loops.
LEMMA ReadingInvariance == ReadingSpec => []ReadingInv
BY ReadingStarts, ReadingKeeps, PTL DEF ReadingSpec

\* The ESP-IDF component prints the voltage of the conversion it read, rounded
\* down to a millivolt, for every conversion and every 16-bit reference.
THEOREM MillivoltsExactThm == ReadingSpec => []MillivoltsExact
<1>1. ReadingInv => MillivoltsExact
  <2> SUFFICES ASSUME ReadingInv, millivolts # NoReading
               PROVE  /\ 4096 * millivolts <= econv * VrefMv
                      /\ econv * VrefMv < 4096 * (millivolts + 1)
    BY DEF MillivoltsExact
  <2>1. econv \in Conversion /\ millivolts = (econv * VrefMv) \div 4096
    BY DEF ReadingInv, MillivoltsOf
  <2>2. econv * VrefMv \in Nat
    BY <2>1, ProductFits
  <2> QED
    BY <2>1, <2>2
<1> QED
  BY <1>1, ReadingInvariance, PTL

\* No conversion drives the product of the reading, the reference and 1000 past
\* 2^32.
Unwrapped == \A c \in Conversion : c * VrefMv * 1000 < Uint32

\* Then the Zephyr driver divides the whole product.
LEMMA WholeProduct ==
  ASSUME Unwrapped, NEW c \in Conversion
  PROVE  /\ MicrovoltsOf(c) = MilliTo12Bits(c * VrefMv)
         /\ MicrovoltsOf(c) = (c * VrefMv * 1000) \div 4096
<1> DEFINE x == c * VrefMv
<1>1. x \in Nat /\ x * 1000 < Uint32
  BY ProductFits DEF Unwrapped
<1>2. MilliTo12Bits(x) \in Nat /\ MilliTo12Bits(x) = (x * 1000) \div 4096
  BY <1>1, ExactDivision
<1>3. MilliTo12Bits(x) < TwoTo20
  BY <1>1, <1>2, SMT DEF Uint32, TwoTo20
<1>4. MicrovoltsOf(c) = MilliTo12Bits(x) % TwoTo20
  BY DEF MicrovoltsOf
<1>5. x * 1000 = c * VrefMv * 1000
  OBVIOUS
<1> HIDE DEF x
<1>6. MilliTo12Bits(x) % TwoTo20 = MilliTo12Bits(x)
  BY <1>2, <1>3, SMT DEF TwoTo20
<1> QED
  BY <1>2, <1>4, <1>5, <1>6 DEF x

\* The Zephyr driver's voltage is exact whenever nothing wraps.
THEOREM MicrovoltsExactThm ==
  ASSUME Unwrapped
  PROVE  ReadingSpec => []MicrovoltsExact
<1>1. ReadingInv => MicrovoltsExact
  BY WholeProduct DEF ReadingInv, MicrovoltsExact
<1> QED
  BY <1>1, ReadingInvariance, PTL

\* The digits the Zephyr driver has and the component has not are the last three.
LEMMA SameDigits ==
  ASSUME NEW x \in Nat
  PROVE  ((x * 1000) \div 4096) \div 1000 = x \div 4096
<1> DEFINE m == x \div 4096
           y == (x * 1000) \div 4096
<1>1. m \in Nat /\ 4096 * m <= x /\ x < 4096 * (m + 1)
  OBVIOUS
<1>2. y \in Nat /\ 4096 * y <= x * 1000 /\ x * 1000 < 4096 * (y + 1)
  OBVIOUS
<1> HIDE DEF m, y
<1>3. 1000 * m <= y /\ y < 1000 * (m + 1)
  BY <1>1, <1>2
<1>4. y \div 1000 = m
  BY <1>1, <1>2, <1>3
<1> QED
  BY <1>4 DEF m, y

\* On one conversion the two drivers tell the same voltage.
LEMMA ReadingsAgree ==
  ASSUME Unwrapped, ReadingInv
  PROVE  DriversAgree
<1> SUFFICES ASSUME microvolts # NoReading, millivolts # NoReading, zconv = econv
             PROVE  microvolts \div 1000 = millivolts
  BY DEF DriversAgree
<1>1. /\ zconv \in Conversion
      /\ microvolts = (zconv * VrefMv * 1000) \div 4096
      /\ millivolts = (zconv * VrefMv) \div 4096
  BY WholeProduct DEF ReadingInv, MillivoltsOf
<1>2. zconv * VrefMv \in Nat
  BY <1>1, ProductFits
<1> QED
  BY <1>1, <1>2, SameDigits

-----------------------------------------------------------------------------
(* NativeOta: what the run restricts is a behaviour of the module.          *)

USE DEF EspOtaVars, Unconfirmed, AbortTrial, StartTrial, ActiveSlot, AfterReset,
  NextBoot, Bootloader, AbortedAtReset, NextUpdate, EntryOf, OnTrial, OtaBegin,
  OtaEnd, SetBoot, SetState, MarkValid, MarkInvalid, LastInvalid, Usable,
  NoEntry, Target, Wanted, Undescribed, vars, Boot, Diagnose, Connect,
  CheckServer, Download, EndUpdate, ActivateUpdate, Restart, ReadAgain

\* Faults that end in a retry, and no resets.
LEMMA RetrySteps == Retry!Next => Next
<1> USE DEF Retry!EspOtaVars, Retry!Unconfirmed, Retry!AbortTrial,
  Retry!StartTrial, Retry!ActiveSlot, Retry!AfterReset, Retry!NextBoot,
  Retry!Bootloader, Retry!AbortedAtReset, Retry!NextUpdate, Retry!EntryOf,
  Retry!OnTrial, Retry!OtaBegin, Retry!OtaEnd, Retry!SetBoot, Retry!SetState,
  Retry!MarkValid, Retry!MarkInvalid, Retry!LastInvalid, Retry!Usable,
  Retry!NoEntry, Retry!Target, Retry!Wanted, Retry!Undescribed, Retry!vars
<1>1. Retry!Boot => Boot
  BY DEF Retry!Boot
<1>2. Retry!Diagnose => Diagnose
  BY DEF Retry!Diagnose
<1>3. Retry!Connect => Connect
  BY DEF Retry!Connect
<1>4. Retry!CheckServer => CheckServer
  BY DEF Retry!CheckServer
<1>5. Retry!Download => Download
  BY DEF Retry!Download
<1>6. Retry!EndUpdate => EndUpdate
  BY DEF Retry!EndUpdate
<1>7. Retry!ActivateUpdate => ActivateUpdate
  BY DEF Retry!ActivateUpdate
<1>8. Retry!Restart => Restart
  BY DEF Retry!Restart
<1>9. Retry!ReadAgain => ReadAgain
  BY DEF Retry!ReadAgain
<1>10. ~Retry!Crash
  BY DEF Retry!Crash
<1>11. Retry!ChangeOffer => ChangeOffer
  BY DEF Retry!ChangeOffer, ChangeOffer
<1> HIDE DEF Boot, Diagnose, Connect, CheckServer, Download, EndUpdate,
  ActivateUpdate, Restart, ReadAgain
<1> QED
  BY <1>1, <1>2, <1>3, <1>4, <1>5, <1>6, <1>7, <1>8, <1>9, <1>10, <1>11
  DEF Next, Device, Retry!Next, Retry!Device

\* No faults.
LEMMA InstallSteps == Install!Next => Next
<1> USE DEF Install!EspOtaVars, Install!Unconfirmed, Install!AbortTrial,
  Install!StartTrial, Install!ActiveSlot, Install!AfterReset, Install!NextBoot,
  Install!Bootloader, Install!AbortedAtReset, Install!NextUpdate,
  Install!EntryOf, Install!OnTrial, Install!OtaBegin, Install!OtaEnd,
  Install!SetBoot, Install!SetState, Install!MarkValid, Install!MarkInvalid,
  Install!LastInvalid, Install!Usable, Install!NoEntry, Install!Target,
  Install!Wanted, Install!Undescribed, Install!vars
<1>1. Install!Boot => Boot
  BY DEF Install!Boot
<1>2. Install!Diagnose => Diagnose
  BY DEF Install!Diagnose
<1>3. Install!Connect => Connect
  BY DEF Install!Connect
<1>4. Install!CheckServer => CheckServer
  BY DEF Install!CheckServer
<1>5. Install!Download => Download
  BY DEF Install!Download
<1>6. Install!EndUpdate => EndUpdate
  BY DEF Install!EndUpdate
<1>7. Install!ActivateUpdate => ActivateUpdate
  BY DEF Install!ActivateUpdate
<1>8. Install!Restart => Restart
  BY DEF Install!Restart
<1>9. Install!ReadAgain => ReadAgain
  BY DEF Install!ReadAgain
<1>10. ~Install!Crash
  BY DEF Install!Crash
<1>11. Install!ChangeOffer => ChangeOffer
  BY DEF Install!ChangeOffer, ChangeOffer
<1> HIDE DEF Boot, Diagnose, Connect, CheckServer, Download, EndUpdate,
  ActivateUpdate, Restart, ReadAgain
<1> QED
  BY <1>1, <1>2, <1>3, <1>4, <1>5, <1>6, <1>7, <1>8, <1>9, <1>10, <1>11
  DEF Next, Device, Install!Next, Install!Device

HIDE DEF EspOtaVars, Unconfirmed, AbortTrial, StartTrial, ActiveSlot,
  AfterReset, NextBoot, Bootloader, AbortedAtReset, NextUpdate, EntryOf,
  OnTrial, OtaBegin, OtaEnd, SetBoot, SetState, MarkValid, MarkInvalid,
  LastInvalid, Usable, NoEntry, Target, Wanted, Undescribed, vars, Boot,
  Diagnose, Connect, CheckServer, Download, EndUpdate, ActivateUpdate, Restart,
  ReadAgain

\* The native example in this run is the native example.
LEMMA NativeBehaves == MCSpec => Spec
<1>1. MCInit => Init
  BY DEF MCInit
<1>2. [MCNext]_allVars => [Next]_vars
  BY RetrySteps, InstallSteps DEF MCNext, NativeNext, natVars, allVars
<1> QED
  BY <1>1, <1>2, PTL DEF MCSpec, Spec

\* The converter in this run is the converter.
LEMMA ReadingBehaves == MCSpec => ReadingSpec
<1>1. MCInit => ReadingInit
  BY DEF MCInit
<1>2. [MCNext]_allVars => [ReadingNext]_readingVars
  BY DEF MCNext, allVars
<1> QED
  BY <1>1, <1>2, PTL DEF MCSpec, ReadingSpec

-----------------------------------------------------------------------------
(* TbClient: TbProvisioning. *)

\* Before the first start.
LEMMA ProvStarts == Tb!Prov!Init => Tb!Prov!TypeOK /\ Tb!Prov!TokenInv
<1> SUFFICES ASSUME Tb!Prov!Init PROVE Tb!Prov!TypeOK /\ Tb!Prov!TokenInv
  OBVIOUS
<1> USE DEF Tb!Prov!Init
<1>1. {done, linked, registered} \subseteq BOOLEAN
  OBVIOUS
<1>2. answers \in Seq({"success", "failure"}) /\ Len(answers) = 0
  OBVIOUS
<1> QED
  BY <1>1, <1>2, MCClientsAssumption
  DEF Tb!Prov!TypeOK, Tb!Prov!Token, Tb!Prov!TokenInv, Tb!Prov!AnswerUsed,
      Tb!TbClientAssumption, Tb!Prov!TbProvisioningAssumption

\* app_main and a reset: the answers stay or go, and a token moves from the
\* answer over RAM to NVS.
LEMMA ProvMainKeeps ==
  ASSUME Tb!Prov!TypeOK, Tb!Prov!TokenInv, Tb!Prov!Main \/ Tb!Prov!Reset
  PROVE  Tb!Prov!TypeOK' /\ Tb!Prov!TokenInv'
<1> USE DEF Tb!Prov!net, Tb!Prov!Token, Tb!Prov!Main, Tb!Prov!LoadStoredToken,
     Tb!Prov!StopWaiting, Tb!Prov!JudgeAnswer, Tb!Prov!StopClient, Tb!Prov!SaveToken,
     Tb!Prov!StartClient, Tb!Prov!Reset
<1>1. /\ done \in BOOLEAN /\ linked \in BOOLEAN /\ registered \in BOOLEAN
      /\ answers \in Seq({"success", "failure"}) /\ Len(answers) <= MaxRequests
      /\ resets \in 0..MaxResets /\ MaxRequests \in Nat /\ MaxResets \in Nat
  BY MCClientsAssumption
  DEF Tb!Prov!TypeOK, Tb!TbClientAssumption, Tb!Prov!TbProvisioningAssumption
<1>2. /\ answers' \in {answers, <<>>}
      /\ requests' = requests /\ registered' = registered
      /\ done' = done \/ done' = FALSE
      /\ linked' = linked \/ linked' = FALSE
  OBVIOUS
<1>3. answers' \in Seq({"success", "failure"}) /\ Len(answers') <= MaxRequests
  <2>1. CASE answers' = answers
    BY <1>1, <2>1
  <2>2. CASE answers' = <<>>
    <3>1. <<>> \in Seq({"success", "failure"}) /\ Len(<<>>) = 0
      OBVIOUS
    <3> QED
      BY <1>1, <2>2, <3>1
  <2> QED
    BY <1>2, <2>1, <2>2
<1>4. resets' \in 0..MaxResets
  BY <1>1
<1>5. {done', linked', registered'} \subseteq BOOLEAN
  BY <1>1, <1>2, Zenon
<1>6. Tb!Prov!TypeOK'
  BY <1>2, <1>3, <1>4, <1>5 DEF Tb!Prov!TypeOK
<1>7. Tb!Prov!TokenInv'
  BY <1>2 DEF Tb!Prov!TypeOK, Tb!Prov!TokenInv, Tb!Prov!AnswerUsed
<1> QED
  BY <1>6, <1>7

\* The MQTT task and ThingsBoard: an answer is only on its way for a device
\* that was created.
LEMMA ProvHandlerKeeps ==
  ASSUME Tb!Prov!TypeOK, Tb!Prov!TokenInv,
         Tb!Prov!ProvConnected \/ Tb!Prov!ProvDisconnected \/ Tb!Prov!ProvData
           \/ Tb!Prov!ServerAnswers \/ UNCHANGED Tb!provVars
  PROVE  Tb!Prov!TypeOK' /\ Tb!Prov!TokenInv'
<1> USE DEF Tb!Prov!net, Tb!Prov!ram, Tb!provVars, Tb!Prov!Running, Tb!Prov!Token,
     Tb!Prov!ProvConnected, Tb!Prov!ProvDisconnected, Tb!Prov!ProvData, Tb!Prov!ServerAnswers
<1>1. /\ done \in BOOLEAN /\ linked \in BOOLEAN /\ registered \in BOOLEAN
      /\ answers \in Seq({"success", "failure"}) /\ Len(answers) <= MaxRequests
      /\ requests \in 0..MaxRequests /\ MaxRequests \in Nat
  BY MCClientsAssumption
  DEF Tb!Prov!TypeOK, Tb!TbClientAssumption, Tb!Prov!TbProvisioningAssumption
<1>2. /\ UNCHANGED <<tbPc, access, stored, resets>>
      /\ done' = done \/ done' = TRUE
      /\ linked' = linked \/ linked' = FALSE \/ linked' = TRUE
      /\ registered' = registered \/ registered' = TRUE
      /\ token' = token \/ (token' = "issued" /\ answers # <<>> /\ tbPc \in {"provision", "stop"})
      /\ done' = done \/ answers # <<>>
  OBVIOUS
<1>3. {done', linked', registered'} \subseteq BOOLEAN
  BY <1>1, <1>2, Zenon
<1>4. requests' \in 0..MaxRequests
  BY <1>1
<1>5. answers' \in Seq({"success", "failure"}) /\ Len(answers') <= MaxRequests
  <2>1. CASE answers' = answers
    BY <1>1, <2>1
  <2>2. CASE answers' = <<>>
    <3>1. <<>> \in Seq({"success", "failure"}) /\ Len(<<>>) = 0
      OBVIOUS
    <3> QED
      BY <1>1, <2>2, <3>1
  <2>3. CASE answers # <<>> /\ answers' = Tail(answers)
    BY <1>1, <2>3
  <2>4. ASSUME NEW e \in {"success", "failure"}, Len(answers) < MaxRequests,
               answers' = Append(answers, e)
        PROVE  answers' \in Seq({"success", "failure"}) /\ Len(answers') <= MaxRequests
    BY <1>1, <2>4
  <2> QED
    BY <2>1, <2>2, <2>3, <2>4
<1>6. Tb!Prov!TypeOK'
  BY <1>2, <1>3, <1>4, <1>5 DEF Tb!Prov!TypeOK
<1>7. token' = "issued" => done'
  BY <1>1, <1>2 DEF Tb!Prov!TokenInv
<1>8. answers' # <<>> => answers # <<>> \/ registered'
  <2>1. CASE answers' = answers \/ answers' = <<>> \/ registered'
    BY <2>1
  <2> QED
    BY <2>1
<1>9. Tb!Prov!TokenInv'
  BY <1>2, <1>7, <1>8 DEF Tb!Prov!TokenInv, Tb!Prov!AnswerUsed
<1> QED
  BY <1>6, <1>9

-----------------------------------------------------------------------------
(* TbClient: TbSession. *)

\* What the interval may be.
LEMMA TakenIntervals ==
  /\ Floor \in Nat \ {0}
  /\ DefaultInterval \in Tb!Session!Taken
  /\ \A n \in Tb!Session!Taken : n \in Nat /\ n >= Floor
BY MCClientsAssumption
DEF Tb!TbClientAssumption, Tb!Session!TbSessionAssumption, Tb!Session!Taken

\* The tasks have just been started.
LEMMA SessionStarts == Tb!Session!Init => Tb!Session!TypeOK /\ Tb!Session!SpacingInv
<1> SUFFICES ASSUME Tb!Session!Init PROVE Tb!Session!TypeOK /\ Tb!Session!SpacingInv
  OBVIOUS
<1> USE DEF Tb!Session!Init
<1>1. {connected, rebooting, active, wills} \subseteq BOOLEAN
  OBVIOUS
<1>2. left \in UNION {0..n : n \in Tb!Session!Taken}
  BY TakenIntervals
<1> QED
  BY <1>1, <1>2, TakenIntervals DEF Tb!Session!TypeOK, Tb!Session!SpacingInv

\* A publication starts a delay of the floor at least.
LEMMA SessionKeeps ==
  ASSUME Tb!Session!TypeOK, Tb!Session!SpacingInv, [Tb!Session!Next]_(Tb!sessionVars)
  PROVE  Tb!Session!TypeOK' /\ Tb!Session!SpacingInv'
<1> USE DEF Tb!Session!mqtt, Tb!Session!broker
<1>1. /\ connected \in BOOLEAN /\ rebooting \in BOOLEAN /\ active \in BOOLEAN
      /\ wills \in BOOLEAN
      /\ interval \in Tb!Session!Taken /\ since \in 0..Floor /\ left \in Nat
  <2>1. PICK n \in Tb!Session!Taken : left \in 0..n
    BY DEF Tb!Session!TypeOK
  <2> QED
    BY <2>1, TakenIntervals DEF Tb!Session!TypeOK
<1>2. /\ interval' \in Tb!Session!Taken /\ since' \in 0..Floor
      /\ since' + left' >= Floor
      /\ left' = left \/ left' = interval \/ left' = 0 \/ (left > 0 /\ left' = left - 1)
  <2>1. CASE Tb!Session!Telemetry \/ Tb!Session!Delay \/ UNCHANGED Tb!sessionVars
    BY <1>1, <2>1, TakenIntervals
    DEF Tb!Session!Telemetry, Tb!Session!Delay, Tb!sessionVars, Tb!Session!SpacingInv
  <2>2. CASE Tb!Session!Restart
    BY <1>1, <2>2, TakenIntervals DEF Tb!Session!Restart
  <2>3. CASE Tb!Session!SetInterval
    BY <1>1, <2>3, TakenIntervals
    DEF Tb!Session!SetInterval, Tb!Session!SpacingInv, Tb!Session!Taken
  <2>4. CASE Tb!Session!MqttConnected \/ Tb!Session!MqttDisconnected \/ Tb!Session!HandleRpc
             \/ Tb!Session!LastWill \/ Tb!Session!CallRpc
    BY <1>1, <2>4
    DEF Tb!Session!MqttConnected, Tb!Session!MqttDisconnected, Tb!Session!HandleRpc,
        Tb!Session!LastWill, Tb!Session!CallRpc, Tb!Session!SpacingInv
  <2> QED
    BY <2>1, <2>2, <2>3, <2>4 DEF Tb!Session!Next
<1>3. left' \in UNION {0..n : n \in Tb!Session!Taken}
  <2>1. PICK n \in Tb!Session!Taken : left \in 0..n
    BY DEF Tb!Session!TypeOK
  <2>2. left' \in 0..n \/ left' \in 0..interval
    BY <1>1, <1>2, <2>1, TakenIntervals
  <2> QED
    BY <1>1, <2>1, <2>2
<1>4. /\ connected' = connected \/ connected' = FALSE \/ connected' = TRUE
      /\ active' = active \/ active' = FALSE \/ active' = TRUE
      /\ calls' \subseteq Tb!Session!Method
  BY DEF Tb!Session!TypeOK, Tb!Session!Method, Tb!Session!Next, Tb!Session!Telemetry,
     Tb!Session!Delay, Tb!Session!MqttConnected, Tb!Session!MqttDisconnected,
     Tb!Session!SetInterval, Tb!Session!HandleRpc, Tb!Session!Restart,
     Tb!Session!LastWill, Tb!Session!CallRpc, Tb!sessionVars
<1>5. /\ wills' \in BOOLEAN
      /\ rebooting' \in BOOLEAN
  <2>1. CASE Tb!Session!Restart
    BY <1>1, <2>1, Zenon DEF Tb!Session!Restart
  <2>2. CASE Tb!Session!HandleRpc
    BY <1>1, <2>2, Zenon DEF Tb!Session!HandleRpc
  <2>3. CASE /\ wills' = wills \/ wills' = FALSE \/ wills' = TRUE
             /\ rebooting' = rebooting
    BY <1>1, <2>3, Zenon
  <2> QED
    BY <2>1, <2>2, <2>3
    DEF Tb!Session!Next, Tb!Session!Telemetry, Tb!Session!Delay, Tb!Session!MqttConnected,
     Tb!Session!MqttDisconnected, Tb!Session!SetInterval, Tb!Session!LastWill,
     Tb!Session!CallRpc, Tb!sessionVars
<1>6. {connected', rebooting', active', wills'} \subseteq BOOLEAN
  BY <1>1, <1>4, <1>5, Zenon
<1> QED
  BY <1>2, <1>3, <1>4, <1>6 DEF Tb!Session!TypeOK, Tb!Session!SpacingInv

-----------------------------------------------------------------------------
(* TbClient. *)

\* Both parts, and what the dashboard has seen.
TbInv ==
  /\ Tb!Prov!TypeOK /\ Tb!Prov!TokenInv
  /\ Tb!Session!TypeOK /\ Tb!Session!SpacingInv
  /\ Tb!SeenIsStored

\* A step of the client is one of its parts, or the restart of both.
LEMMA TbParts ==
  ASSUME [Tb!Next]_tbVars
  PROVE  /\ \/ Tb!Prov!Main \/ Tb!Prov!Reset
            \/ Tb!Prov!ProvConnected \/ Tb!Prov!ProvDisconnected \/ Tb!Prov!ProvData
            \/ Tb!Prov!ServerAnswers \/ UNCHANGED Tb!provVars
         /\ [Tb!Session!Next]_(Tb!sessionVars)
BY DEF tbVars, Tb!provVars, Tb!sessionVars, Tb!Next, Tb!Main, Tb!Handler, Tb!ServerAnswers,
   Tb!LastWill, Tb!Operation, Tb!Restart, Tb!Session!Next

\* "active" is only published with a token in NVS, which stays there.
LEMMA SeenStaysStored ==
  ASSUME TbInv, [Tb!Next]_tbVars
  PROVE  Tb!SeenIsStored'
<1>1. CASE UNCHANGED <<active, stored>>
  BY <1>1 DEF TbInv, Tb!SeenIsStored
<1>2. CASE Tb!Prov!SaveToken /\ UNCHANGED active
  BY <1>2 DEF TbInv, Tb!Prov!TokenInv, Tb!Prov!SaveToken, Tb!SeenIsStored
<1>3. CASE Tb!Session!MqttConnected /\ tbPc = "online" /\ UNCHANGED Tb!provVars
  BY <1>3 DEF TbInv, Tb!Prov!TokenInv, Tb!provVars, Tb!SeenIsStored
<1>4. CASE active' = FALSE
  BY <1>4 DEF Tb!SeenIsStored
<1>5. CASE Tb!Operation
  BY <1>1, <1>3, <1>5
  DEF Tb!Operation, Tb!provVars, Tb!Session!broker, Tb!Session!Telemetry, Tb!Session!Delay,
   Tb!Session!MqttDisconnected, Tb!Session!SetInterval, Tb!Session!HandleRpc,
   Tb!Session!CallRpc
<1>6. CASE Tb!Main
  BY <1>1, <1>2, <1>6
  DEF Tb!Main, Tb!sessionVars, Tb!Prov!Main, Tb!Prov!LoadStoredToken, Tb!Prov!StopWaiting,
   Tb!Prov!JudgeAnswer, Tb!Prov!StopClient, Tb!Prov!StartClient
<1>7. CASE Tb!LastWill \/ Tb!Restart
  BY <1>1, <1>4, <1>7
  DEF Tb!LastWill, Tb!Session!LastWill, Tb!Restart, Tb!Prov!Reset, Tb!Session!Restart
<1>8. CASE Tb!Handler \/ Tb!ServerAnswers \/ UNCHANGED tbVars
           \/ (Tb!Prov!ProvDisconnected /\ UNCHANGED Tb!sessionVars)
  BY <1>1, <1>8
  DEF Tb!Handler, Tb!ServerAnswers, tbVars, Tb!sessionVars, Tb!Prov!ProvConnected,
   Tb!Prov!ProvDisconnected, Tb!Prov!ProvData, Tb!Prov!ServerAnswers, Tb!Prov!ram
<1> QED
  BY <1>5, <1>6, <1>7, <1>8 DEF Tb!Next

\* The client as a whole.
LEMMA TbKeeps == ASSUME TbInv, [Tb!Next]_tbVars PROVE TbInv'
BY TbParts, ProvMainKeeps, ProvHandlerKeeps, SessionKeeps, SeenStaysStored DEF TbInv

-----------------------------------------------------------------------------
(* ZephyrThingsBoard. *)

ZephyrInv == Zephyr!TypeOK /\ Zephyr!TokenInv

\* The board is switched on for the first time.
LEMMA ZephyrStarts == Zephyr!Init => ZephyrInv
<1> SUFFICES ASSUME Zephyr!Init PROVE ZephyrInv
  OBVIOUS
<1> USE DEF Zephyr!Init
<1>1. {ztSem, ztUp, ztLinked, ztDone, due, unread, ztRegistered, issued} \subseteq BOOLEAN
  OBVIOUS
<1>2. inbox \in Seq(Zephyr!Event) /\ Len(inbox) = 0
  OBVIOUS
<1> QED
  BY <1>1, <1>2, MCClientsAssumption
  DEF ZephyrInv, Zephyr!TypeOK, Zephyr!TokenInv, Zephyr!Token, Zephyr!ConnectsWithToken,
      Zephyr!ZephyrThingsBoardAssumption

\* What the handlers and the broker do to the queue keeps it one of events.
LEMMA InboxKept ==
  ASSUME ZephyrInv, [Zephyr!Next]_ztVars
  PROVE  inbox' \in Seq(Zephyr!Event) /\ Len(inbox') <= MaxQueue
<1>1. inbox \in Seq(Zephyr!Event) /\ Len(inbox) <= MaxQueue /\ MaxQueue \in Nat \ {0}
  BY MCClientsAssumption DEF ZephyrInv, Zephyr!TypeOK, Zephyr!ZephyrThingsBoardAssumption
<1>2. CASE inbox' = inbox \/ (inbox # <<>> /\ inbox' = Tail(inbox))
  BY <1>1, <1>2
<1>3. CASE inbox' = <<>>
  <2>1. <<>> \in Seq(Zephyr!Event) /\ Len(<<>>) = 0
    OBVIOUS
  <2> QED
    BY <1>1, <1>3, <2>1
<1>4. ASSUME NEW m \in {"connack", "refused", "success", "failure"},
             inbox' = <<Zephyr!Plain(m)>>
      PROVE  inbox' \in Seq(Zephyr!Event) /\ Len(inbox') <= MaxQueue
  <2>1. Zephyr!Plain(m) \in Zephyr!Event
    BY DEF Zephyr!Plain, Zephyr!Event
  <2> HIDE DEF Zephyr!Plain
  <2> QED
    BY <1>1, <1>4, <2>1
<1>5. CASE Zephyr!CallRpc
  <2>1. PICK m \in Zephyr!Method, s \in Zephyr!Shape :
          inbox' = Append(inbox, [name |-> m, shape |-> s])
    BY <1>5 DEF Zephyr!CallRpc
  <2>2. [name |-> m, shape |-> s] \in Zephyr!Event
    BY DEF Zephyr!Event
  <2>3. Len(inbox) < MaxQueue
    BY <1>5 DEF Zephyr!CallRpc
  <2> QED
    BY <1>1, <2>1, <2>2, <2>3
<1>6. CASE Zephyr!ProvConnect \/ Zephyr!Connect \/ Zephyr!ProvInput
  BY <1>2, <1>4, <1>6
  DEF Zephyr!ProvConnect, Zephyr!Connect, Zephyr!ProvInput, Zephyr!Take
<1>7. CASE Zephyr!Start \/ Zephyr!NetworkUp \/ Zephyr!Resolve \/ Zephyr!ProvEnds
           \/ Zephyr!Input \/ Zephyr!Reboot \/ Zephyr!Telemetry
  BY <1>2, <1>3, <1>7
  DEF Zephyr!Start, Zephyr!NetworkUp, Zephyr!Resolve, Zephyr!ProvEnds, Zephyr!Disconnect,
      Zephyr!Input, Zephyr!Reboot, Zephyr!Telemetry, Zephyr!Restarted
<1>8. CASE Zephyr!L4Connected \/ Zephyr!L4Disconnected \/ Zephyr!TelemetryDue
           \/ Zephyr!Reset \/ UNCHANGED ztVars
  BY <1>2, <1>3, <1>8
  DEF Zephyr!L4Connected, Zephyr!L4Disconnected, Zephyr!TelemetryDue, Zephyr!Reset,
      Zephyr!Restarted, ztVars
<1> QED
  BY <1>5, <1>6, <1>7, <1>8 DEF Zephyr!Next, Zephyr!Main

\* The flags are set and reset, never anything else.
LEMMA ZephyrFlagsKept ==
  ASSUME ZephyrInv, [Zephyr!Next]_ztVars
  PROVE  {ztSem', ztUp', ztLinked', ztDone', due', unread', ztRegistered', issued'}
           \subseteq BOOLEAN
<1> USE DEF Zephyr!net, Zephyr!server
<1>1. /\ ztSem \in BOOLEAN /\ ztUp \in BOOLEAN /\ ztLinked \in BOOLEAN /\ ztDone \in BOOLEAN
      /\ due \in BOOLEAN /\ unread \in BOOLEAN /\ ztRegistered \in BOOLEAN /\ issued \in BOOLEAN
  BY DEF ZephyrInv, Zephyr!TypeOK
<1>2. CASE Zephyr!ProvInput
  <2>1. PICK e \in {"connack", "refused", "success", "failure"} :
          /\ UNCHANGED <<ztSem, ztUp, ztLinked, due, unread>>
          /\ ztRegistered' = (ztRegistered \/ e = "connack")
          /\ ztDone' = (e # "connack")
          /\ issued' = (issued \/ e = "success")
    BY <1>2 DEF Zephyr!ProvInput, Zephyr!Take
  <2> QED
    BY <1>1, <2>1, Zenon
<1>3. CASE Zephyr!Input
  <2>1. UNCHANGED <<ztSem, ztUp, ztDone, due, ztRegistered, issued>>
    BY <1>3 DEF Zephyr!Input
  <2>2. unread' \in BOOLEAN
    BY <1>1, <1>3, Zenon DEF Zephyr!Input
  <2>3. ztLinked' \in BOOLEAN
    BY <1>1, <1>3, Zenon DEF Zephyr!Input
  <2> QED
    BY <1>1, <2>1, <2>2, <2>3, Zenon
<1>4. CASE ~Zephyr!ProvInput /\ ~Zephyr!Input
  <2>1. /\ ztSem' = ztSem \/ ztSem' = TRUE \/ ztSem' = FALSE
        /\ ztUp' = ztUp \/ ztUp' = TRUE \/ ztUp' = FALSE
        /\ ztLinked' = ztLinked \/ ztLinked' = TRUE \/ ztLinked' = FALSE
        /\ ztDone' = ztDone \/ ztDone' = FALSE
        /\ due' = due \/ due' = TRUE \/ due' = FALSE
        /\ unread' = unread \/ unread' = FALSE
        /\ ztRegistered' = ztRegistered /\ issued' = issued
    <3>1. CASE Zephyr!Start \/ Zephyr!NetworkUp \/ Zephyr!Resolve \/ Zephyr!ProvConnect
               \/ Zephyr!ProvEnds \/ Zephyr!Connect
      BY <3>1 DEF Zephyr!Start, Zephyr!NetworkUp, Zephyr!Resolve, Zephyr!ProvConnect,
         Zephyr!ProvEnds, Zephyr!Disconnect, Zephyr!Connect
    <3>2. CASE Zephyr!Reboot \/ Zephyr!Telemetry \/ Zephyr!L4Connected \/ Zephyr!L4Disconnected
               \/ Zephyr!TelemetryDue \/ Zephyr!CallRpc \/ Zephyr!Reset \/ UNCHANGED ztVars
      BY <3>2 DEF Zephyr!Reboot, Zephyr!Telemetry, Zephyr!Restarted, Zephyr!L4Connected,
         Zephyr!L4Disconnected, Zephyr!TelemetryDue, Zephyr!CallRpc, Zephyr!Reset, ztVars
    <3> QED
      BY <1>4, <3>1, <3>2 DEF Zephyr!Next, Zephyr!Main
  <2> QED
    BY <1>1, <2>1, Zenon
<1> QED
  BY <1>2, <1>3, <1>4

\* The token in RAM came with an answer of this start.
LEMMA ZephyrKeeps == ASSUME ZephyrInv, [Zephyr!Next]_ztVars PROVE ZephyrInv'
<1> USE DEF Zephyr!net, Zephyr!server, Zephyr!Token
<1>1. ztToken' \in Zephyr!Token /\ ztResets' \in 0..MaxResets /\ Zephyr!TokenInv'
      /\ ztPc' \in {"boot", "wait", "resolve", "ask", "provision", "connect", "input",
                    "telemetry", "returned"}
  <2>1. CASE Zephyr!Start \/ Zephyr!NetworkUp \/ Zephyr!Resolve \/ Zephyr!ProvConnect
             \/ Zephyr!ProvEnds \/ Zephyr!Connect \/ Zephyr!Telemetry \/ Zephyr!TelemetryDue
    BY <2>1 DEF ZephyrInv, Zephyr!TypeOK, Zephyr!TokenInv, Zephyr!ConnectsWithToken,
       Zephyr!Start, Zephyr!NetworkUp, Zephyr!Resolve, Zephyr!ProvConnect, Zephyr!ProvEnds,
       Zephyr!Disconnect, Zephyr!Connect, Zephyr!Telemetry, Zephyr!TelemetryDue
  <2>2. CASE Zephyr!ProvInput
    BY <2>2 DEF ZephyrInv, Zephyr!TypeOK, Zephyr!TokenInv, Zephyr!ConnectsWithToken,
       Zephyr!ProvInput, Zephyr!Take
  <2>3. CASE Zephyr!L4Connected \/ Zephyr!L4Disconnected \/ Zephyr!CallRpc \/ UNCHANGED ztVars
    BY <2>3 DEF ZephyrInv, Zephyr!TypeOK, Zephyr!TokenInv, Zephyr!ConnectsWithToken,
       Zephyr!L4Connected, Zephyr!L4Disconnected, Zephyr!CallRpc, ztVars
  <2>4. CASE Zephyr!Input
    BY <2>4 DEF ZephyrInv, Zephyr!TypeOK, Zephyr!TokenInv, Zephyr!ConnectsWithToken,
       Zephyr!Input
  <2>5. CASE Zephyr!Restarted /\ ztResets < MaxResets
    BY <2>5, MCClientsAssumption
    DEF ZephyrInv, Zephyr!TypeOK, Zephyr!TokenInv, Zephyr!ConnectsWithToken,
       Zephyr!Restarted, Zephyr!ZephyrThingsBoardAssumption
  <2>6. CASE Zephyr!Reboot
    BY <2>5, <2>6 DEF Zephyr!Reboot, Zephyr!Reboots
  <2> QED
    BY <2>1, <2>2, <2>3, <2>4, <2>5, <2>6 DEF Zephyr!Next, Zephyr!Main, Zephyr!Reset
<1> QED
  BY <1>1, InboxKept, ZephyrFlagsKept DEF ZephyrInv, Zephyr!TypeOK

-----------------------------------------------------------------------------
(* Lwm2mClient. *)

LampsInv == Lwm2m!TypeOK /\ Lwm2m!LampInv

\* The light is out, and so says the resource.
LEMMA LampsStart == Lwm2m!Init => LampsInv
<1> SUFFICES ASSUME Lwm2m!Init PROVE LampsInv
  OBVIOUS
<1>1. {sem, up, paused, accepted} \subseteq BOOLEAN
  BY DEF Lwm2m!Init
<1> QED
  BY <1>1 DEF Lwm2m!Init, LampsInv, Lwm2m!TypeOK, Lwm2m!LampInv, Lwm2m!LightIsTrue

\* The pin moves with led_state, and a write is only acknowledged when both are
\* what it asked for.
LEMMA LampsKeep == ASSUME LampsInv, [Lwm2m!Next]_lwVars PROVE LampsInv'
<1> USE DEF Lwm2m!net, Lwm2m!lamp
<1>1. sem \in BOOLEAN /\ up \in BOOLEAN /\ paused \in BOOLEAN /\ accepted \in BOOLEAN
  BY DEF LampsInv, Lwm2m!TypeOK
<1>2. CASE Lwm2m!WriteLight
  <2>1. PICK v \in 0..1, ok \in BOOLEAN : Lwm2m!WriteLightWith(v, ok)
    BY <1>2 DEF Lwm2m!WriteLight
  <2>2. accepted' \in BOOLEAN
    BY <2>1, Zenon DEF Lwm2m!WriteLightWith
  <2>3. {sem', up', paused', accepted'} \subseteq BOOLEAN
    BY <1>1, <2>1, <2>2, Zenon DEF Lwm2m!WriteLightWith
  <2> QED
    BY <2>1, <2>3
    DEF LampsInv, Lwm2m!TypeOK, Lwm2m!LampInv, Lwm2m!LightIsTrue, Lwm2m!WriteLightWith
<1>3. CASE ~Lwm2m!WriteLight
  <2>1. /\ UNCHANGED <<light, led_state, pin, accepted>>
        /\ sem' = sem \/ sem' = TRUE \/ sem' = FALSE
        /\ up' = up \/ up' = TRUE \/ up' = FALSE
        /\ paused' = paused \/ paused' = TRUE \/ paused' = FALSE
        /\ lwPc' \in {lwPc, "wait", "setup", "start", "running", "returned"}
        /\ client' \in {client, "registering", "registered", "stopped"}
        /\ work' \in {work, "none", "waiting", "due", "sampled"}
        /\ enabled' \in {enabled, 0, 1}
    BY <1>3 DEF Lwm2m!Next, Lwm2m!Main, Lwm2m!Start, Lwm2m!NetworkUp, Lwm2m!Setup,
       Lwm2m!StartClient, Lwm2m!OnConnected, Lwm2m!OnDisconnected, Lwm2m!Registered,
       Lwm2m!RegistrationLost, Lwm2m!NetworkError, Lwm2m!WriteTimer,
       Lwm2m!SampleTemperature, Lwm2m!TemperatureDue, lwVars
  <2>2. {sem', up', paused', accepted'} \subseteq BOOLEAN
    BY <1>1, <2>1, Zenon
  <2> QED
    BY <2>1, <2>2 DEF LampsInv, Lwm2m!TypeOK, Lwm2m!LampInv, Lwm2m!LightIsTrue
<1> QED
  BY <1>2, <1>3

-----------------------------------------------------------------------------
(* Lwm2mFirmware. *)

FirmwareInv == Firmware!TypeOK /\ Firmware!TransferInv

\* The factory image runs, and slot 1 is empty.
LEMMA FirmwareStarts == Firmware!Init => FirmwareInv
<1> SUFFICES ASSUME Firmware!Init PROVE FirmwareInv
  OBVIOUS
<1>1. {dfu_started, upgrade} \subseteq BOOLEAN
  BY DEF Firmware!Init
<1> QED
  BY <1>1, MCClientsAssumption
  DEF Firmware!Init, FirmwareInv, Firmware!TypeOK, Firmware!TransferInv, Firmware!Whole,
      Firmware!DownloadedIsStarted, Firmware!UpgradeIsWhole, Firmware!Lwm2mFirmwareAssumption

\* A block goes where the transfer is; the last one makes the image whole.
LEMMA WriteBlockKeeps ==
  ASSUME FirmwareInv, Firmware!WriteBlock, ~upgrade
  PROVE  FirmwareInv'

<1>1. /\ push # Firmware!None /\ push \in {A, B} /\ next \in 0..Blocks-1 /\ Blocks \in Nat \ {0}
      /\ fwSlot1 \in [0..Blocks-1 -> {A, B} \cup {Firmware!None}]
      /\ \A b \in 0..next-1 : fwSlot1[b] = push
  BY MCClientsAssumption
  DEF FirmwareInv, Firmware!TypeOK, Firmware!TransferInv, Firmware!WriteBlock,
      Firmware!Receiving, Firmware!Lwm2mFirmwareAssumption
<1>2. Firmware!Position(next = 0) = next
  BY <1>1 DEF FirmwareInv, Firmware!TransferInv, Firmware!Position
<1>3. /\ fwSlot1' = [fwSlot1 EXCEPT ![next] = push]
      /\ written' = next + 1 /\ next' = next + 1 /\ fwFaults' = fwFaults
      /\ UNCHANGED <<result, upgrade, fwRunning>>
      /\ dfu_started' = (dfu_started \/ next = 0)
      /\ IF next + 1 = Blocks THEN state' = "downloaded" /\ push' = Firmware!None
                              ELSE state' = "downloading" /\ push' = push
  BY <1>2 DEF Firmware!WriteBlock, Firmware!WriteAt, Firmware!Accept, Firmware!NoFault
<1>4. /\ fwSlot1' \in [0..Blocks-1 -> {A, B} \cup {Firmware!None}]
      /\ \A b \in 0..next : fwSlot1'[b] = push
  BY <1>1, <1>3
<1>5. dfu_started'
  <2>1. next = 0 \/ dfu_started
    BY <1>1 DEF FirmwareInv, Firmware!TransferInv
  <2> QED
    BY <1>3, <2>1, Zenon
<1>6. {dfu_started', upgrade'} \subseteq BOOLEAN
  <2>1. upgrade \in BOOLEAN /\ dfu_started \in BOOLEAN
    BY DEF FirmwareInv, Firmware!TypeOK
  <2> QED
    BY <1>3, <2>1, Zenon
<1>7. Firmware!TypeOK'
  BY <1>1, <1>3, <1>4, <1>6 DEF FirmwareInv, Firmware!TypeOK
<1>8. next + 1 = Blocks => fwSlot1' = Firmware!Whole(push)
  BY <1>1, <1>4 DEF Firmware!Whole
<1> QED
  BY <1>1, <1>3, <1>4, <1>5, <1>7, <1>8
  DEF FirmwareInv, Firmware!TransferInv, Firmware!DownloadedIsStarted, Firmware!UpgradeIsWhole

\* Whatever else happens leaves slot 1 as it is, and ends the transfer or does
\* not touch it.
LEMMA FirmwareKeeps == ASSUME FirmwareInv, [Firmware!Next]_fwVars PROVE FirmwareInv'
<1> USE DEF Firmware!dev, Firmware!flash, Firmware!transfer, Firmware!NoFault, Firmware!Fault,
     Firmware!Refuse
<1>1. /\ dfu_started \in BOOLEAN /\ upgrade \in BOOLEAN
      /\ Blocks \in Nat \ {0} /\ fwFaults \in 0..3 /\ written \in 0..Blocks
  BY MCClientsAssumption
  DEF FirmwareInv, Firmware!TypeOK, Firmware!Lwm2mFirmwareAssumption
<1>2. CASE Firmware!WriteBlock /\ ~upgrade
  BY <1>2, WriteBlockKeeps
<1>3. CASE Firmware!InitError \/ Firmware!WriteError
  <2>1. /\ push' = Firmware!None /\ state' = "idle" /\ written' \in {written, 0}
        /\ result' \in {"failed", "no_storage"}
        /\ dfu_started' = dfu_started \/ dfu_started' = FALSE
        /\ UNCHANGED <<next, fwSlot1, upgrade, fwRunning>> /\ fwFaults' \in 0..3
    BY <1>1, <1>3 DEF Firmware!InitError, Firmware!WriteError, Firmware!Position
  <2>2. {dfu_started', upgrade'} \subseteq BOOLEAN
    BY <1>1, <2>1, Zenon
  <2> QED
    BY <1>1, <2>1, <2>2
    DEF FirmwareInv, Firmware!TypeOK, Firmware!TransferInv, Firmware!DownloadedIsStarted,
        Firmware!UpgradeIsWhole
<1>4. CASE Firmware!Cancel \/ Firmware!Update \/ Firmware!UpdateError
  <2>1. /\ state = "downloaded" /\ state' = "idle" /\ dfu_started' = FALSE
        /\ result' \in {"default", "success", "failed"}
        /\ upgrade' = upgrade \/ upgrade' = TRUE
        /\ UNCHANGED <<written, push, next, fwSlot1, fwRunning>> /\ fwFaults' \in 0..3
    BY <1>1, <1>4 DEF Firmware!Cancel, Firmware!Update, Firmware!UpdateError
  <2>2. {dfu_started', upgrade'} \subseteq BOOLEAN
    BY <1>1, <2>1, Zenon
  <2> QED
    BY <1>1, <2>1, <2>2
    DEF FirmwareInv, Firmware!TypeOK, Firmware!TransferInv, Firmware!DownloadedIsStarted,
        Firmware!UpgradeIsWhole, Firmware!Whole
<1>5. CASE Firmware!Restart \/ Firmware!Reset
  <2>1. /\ state' = "idle" /\ result' = "default" /\ dfu_started' = FALSE /\ written' = 0
        /\ push' = Firmware!None /\ next' = 0 /\ upgrade' = FALSE /\ fwSlot1' = fwSlot1
        /\ fwFaults' \in 0..3
    BY <1>1, <1>5 DEF Firmware!Restart, Firmware!Reset, Firmware!Restarted
  <2>2. fwRunning' \in {A, B} \cup {Old}
    <3>1. CASE fwRunning' = fwRunning
      BY <3>1 DEF FirmwareInv, Firmware!TypeOK
    <3>2. CASE \E i \in {A, B} : fwSlot1 = Firmware!Whole(i) /\ fwRunning' = fwSlot1[0]
      BY <1>1, <3>2 DEF Firmware!Whole
    <3> QED
      BY <1>5, <3>1, <3>2 DEF Firmware!Restart, Firmware!Reset, Firmware!Restarted
  <2>3. {dfu_started', upgrade'} \subseteq BOOLEAN
    BY <2>1
  <2> QED
    BY <1>1, <2>1, <2>2, <2>3
    DEF FirmwareInv, Firmware!TypeOK, Firmware!TransferInv, Firmware!DownloadedIsStarted,
        Firmware!UpgradeIsWhole
<1>6. CASE Firmware!Push
  BY <1>1, <1>6
  DEF Firmware!Push, FirmwareInv, Firmware!TypeOK, Firmware!TransferInv,
      Firmware!DownloadedIsStarted, Firmware!UpgradeIsWhole, Firmware!Whole
<1>7. CASE Firmware!TransferLost
  BY <1>1, <1>7
  DEF Firmware!TransferLost, FirmwareInv, Firmware!TypeOK, Firmware!TransferInv,
      Firmware!DownloadedIsStarted, Firmware!UpgradeIsWhole, Firmware!Whole
<1>8. CASE UNCHANGED fwVars
  BY <1>8
  DEF fwVars, FirmwareInv, Firmware!TypeOK, Firmware!TransferInv,
      Firmware!DownloadedIsStarted, Firmware!UpgradeIsWhole, Firmware!Whole
<1> QED
  BY <1>2, <1>3, <1>4, <1>5, <1>6, <1>7, <1>8 DEF Firmware!Next, Firmware!Device

-----------------------------------------------------------------------------
(* OtaUpdate. *)

ScriptInv == Script!TypeOK /\ Script!RunInv

\* No run yet.
LEMMA ScriptStarts == Script!Init => ScriptInv
<1> SUFFICES ASSUME Script!Init PROVE ScriptInv
  OBVIOUS
<1>1. Chunks \in Nat \ {0} /\ Attempts \in Nat \ {0} /\ MaxFaults \in Nat
  BY MCClientsAssumption DEF Script!OtaUpdateAssumption
<1>2. Script!TypeOK
  <2>1. pending \in BOOLEAN
    BY Zenon DEF Script!Init
  <2>2. tries \in 0..Attempts - 1 /\ received \in 0..Chunks /\ faults \in 0..MaxFaults
    BY <1>1 DEF Script!Init
  <2> QED
    BY <2>1, <2>2 DEF Script!Init, Script!TypeOK
<1>3. Script!RunInv
  BY DEF Script!Init, Script!RunInv, Script!Uploaded
<1> QED
  BY <1>2, <1>3 DEF ScriptInv

\* The constants, and the flag as a Boolean.
LEMMA ScriptTypes ==
  ASSUME ScriptInv
  PROVE  /\ pending \in BOOLEAN
         /\ Chunks \in Nat \ {0} /\ Attempts \in Nat \ {0} /\ MaxFaults \in Nat
         /\ faults \in 0..MaxFaults /\ tries \in 0..Attempts - 1 /\ received \in 0..Chunks
BY MCClientsAssumption DEF ScriptInv, Script!TypeOK, Script!OtaUpdateAssumption

\* A request that does nothing to the device but take the run a step further, or
\* end it.
LEMMA HostKeeps ==
  ASSUME ScriptInv,
         \/ Script!Start \/ Script!Connect \/ Script!Retry \/ Script!ReadHash \/ Script!Sleep
         \/ Script!Echo
  PROVE  ScriptInv'
<1> USE ScriptTypes
    DEF Script!flash, Script!device, Script!Ends, Script!Goes, Script!Fault, ScriptInv, Script!TypeOK,
        Script!RunInv, Script!Uploaded, Script!Installed
<1>1. CASE Script!Start
  BY <1>1 DEF Script!Start
<1>2. CASE Script!Connect
  BY <1>2 DEF Script!Connect
<1>3. CASE Script!Retry
  BY <1>3 DEF Script!Retry
<1>4. CASE Script!ReadHash
  BY <1>4 DEF Script!ReadHash
<1>5. CASE Script!Sleep
  BY <1>5 DEF Script!Sleep
<1>6. CASE Script!Echo
  BY <1>6 DEF Script!Echo
<1> QED
  BY <1>1, <1>2, <1>3, <1>4, <1>5, <1>6

\* The last chunk puts this run's image in slot 1.
LEMMA UploadKeeps == ASSUME ScriptInv, Script!Upload PROVE ScriptInv'
<1>1. /\ step = "upload" /\ outcome # "complete" /\ received < Chunks
      /\ received' = received + 1 /\ pending' = FALSE
      /\ UNCHANGED <<image, hash, tries, outcome, smpRunning, power, faults>>
      /\ \/ received' = Chunks /\ slot1' = image /\ step' = "read"
         \/ received' # Chunks /\ slot1' = Script!None /\ step' = "upload"
  BY DEF Script!Upload, Script!StoreChunk, Script!Goes, ScriptInv, Script!RunInv
<1>2. received' \in 0..Chunks /\ (received' # Chunks => received' < Chunks)
  BY <1>1, ScriptTypes
<1>3. Script!TypeOK'
  <2>1. pending' \in BOOLEAN
    BY <1>1, Zenon
  <2>2. /\ image' \in {A, B, R} \cup {Script!None} /\ slot1' \in {A, B, R} \cup {Script!None}
        /\ step' \in {"upload", "read"}
    BY <1>1 DEF ScriptInv, Script!TypeOK
  <2> QED
    BY <1>1, <1>2, <2>1, <2>2 DEF ScriptInv, Script!TypeOK
<1>4. Script!RunInv'
  BY <1>1, <1>2 DEF Script!RunInv, Script!Uploaded
<1> QED
  BY <1>3, <1>4 DEF ScriptInv

\* What is put up for the next boot is this run's image.
LEMMA FlagKeeps ==
  ASSUME ScriptInv, Script!TryTest \/ Script!Confirm
  PROVE  ScriptInv'
<1> USE ScriptTypes
    DEF Script!Ends, Script!Goes, ScriptInv, Script!TypeOK, Script!RunInv, Script!Uploaded,
        Script!Installed
<1>1. CASE Script!TryTest
  <2>1. pending' \in BOOLEAN
    BY <1>1, Zenon DEF Script!TryTest
  <2> QED
    BY <1>1, <2>1 DEF Script!TryTest
<1>2. CASE Script!Confirm
  <2>1. pending' \in BOOLEAN
    BY <1>2, Zenon DEF Script!Confirm
  <2> QED
    BY <1>2, <2>1 DEF Script!Confirm, Script!Accepted
<1> QED
  BY <1>1, <1>2

\* The restart is asked for, or a request stays without an answer.
LEMMA AskKeeps ==
  ASSUME ScriptInv, Script!Reset \/ Script!Unanswered
  PROVE  ScriptInv'
<1> USE ScriptTypes
    DEF Script!Ends, Script!Goes, Script!Fault, Script!flash, Script!device, ScriptInv, Script!TypeOK,
        Script!RunInv, Script!Uploaded, Script!Installed
<1>1. CASE Script!Reset
  BY <1>1 DEF Script!Reset
<1>2. CASE Script!Unanswered
  <2>1. pending' \in BOOLEAN
    <3>1. pending' = pending \/ pending' = FALSE \/ pending' = (pending \/ slot1 = hash)
      BY <1>2 DEF Script!Unanswered, Script!Done, Script!StoreChunk
    <3> QED
      BY <3>1, Zenon
  <2>2. /\ step' = "idle" /\ outcome' = "failed"
        /\ UNCHANGED <<image, hash, tries, smpRunning>>
        /\ faults' \in 0..MaxFaults /\ power' \in {power, "resetting"}
        /\ slot1' \in {slot1, image, Script!None}
        /\ received' = received \/ (received < Chunks /\ received' = received + 1)
    BY <1>2 DEF Script!Unanswered, Script!Done, Script!StoreChunk
  <2>3. received' \in 0..Chunks
    BY <2>2
  <2> QED
    BY <2>1, <2>2, <2>3
<1> QED
  BY <1>1, <1>2

\* A boot applies what stands confirmed in slot 1, unless MCUboot refuses it.
LEMMA BoardKeeps ==
  ASSUME ScriptInv, Script!Board \/ Script!PowerCut
  PROVE  ScriptInv'
<1> USE ScriptTypes
    DEF Script!Fault, Script!host, Script!flash, ScriptInv, Script!TypeOK, Script!RunInv,
        Script!Uploaded, Script!Installed
<1>1. CASE Script!Boots /\ UNCHANGED <<step, image, hash, tries, outcome>>
           /\ faults' \in 0..MaxFaults
  <2>1. /\ smpRunning' = smpRunning \/ (pending /\ slot1 # Script!None /\ smpRunning' = slot1)
        /\ slot1' = slot1 \/ slot1' = Script!None
        /\ pending' = FALSE /\ received' = 0 /\ power' = "booting"
        /\ pending /\ slot1 # Script!None /\ slot1 \notin {R} => smpRunning' = slot1
    BY <1>1 DEF Script!Boots
  <2>2. Script!TypeOK'
    <3>1. pending' \in BOOLEAN
      BY <2>1, Zenon
    <3>2. received' \in 0..Chunks
      BY <2>1
    <3>3. smpRunning' \in {A, B, R} \cup {Old} /\ slot1' \in {A, B, R} \cup {Script!None}
      BY <2>1
    <3> QED
      BY <1>1, <2>1, <3>1, <3>2, <3>3
  <2>3. Script!RunInv'
    BY <1>1, <2>1
  <2> QED
    BY <2>2, <2>3
<1>2. CASE Script!Restart \/ Script!PowerCut
  BY <1>1, <1>2 DEF Script!Restart, Script!PowerCut
<1>3. CASE Script!Up
  BY <1>3 DEF Script!Up
<1> QED
  BY <1>2, <1>3 DEF Script!Board

\* Without lost requests and power cuts the script does what it also does with
\* them.
LEMMA CalmSteps == ASSUME ScriptInv, Calm!Next PROVE Script!Next
<1>1. ~Calm!Fault
  BY ScriptTypes DEF Calm!Fault
<1> QED
  BY <1>1
  DEF Calm!Next, Calm!Start, Calm!Script, Calm!Connect, Calm!Retry, Calm!Upload, Calm!ReadHash,
      Calm!TryTest, Calm!Confirm, Calm!Reset, Calm!Sleep, Calm!Echo, Calm!Unanswered,
      Calm!Board, Calm!Restart, Calm!Up, Calm!PowerCut, Calm!Boots, Calm!Ends, Calm!Goes,
      Calm!Done, Calm!StoreChunk, Calm!Asking, Calm!Accepted, Calm!host, Calm!flash, Calm!device, Calm!None,
      Script!Next, Script!Start, Script!Script, Script!Connect, Script!Retry, Script!Upload,
      Script!ReadHash, Script!TryTest, Script!Confirm, Script!Reset, Script!Sleep,
      Script!Echo, Script!Unanswered, Script!Board, Script!Restart, Script!Up,
      Script!Boots, Script!Ends, Script!Goes, Script!Done, Script!StoreChunk, Script!Asking,
      Script!Accepted, Script!host, Script!flash, Script!device, Script!None

\* The script and its device, in either run.
LEMMA ScriptSteps ==
  ASSUME ScriptInv, [MCNext]_allVars
  PROVE  [Script!Next]_smpVars
BY CalmSteps DEF MCNext, ScriptNext, allVars

\* All of them.
LEMMA ScriptKeeps == ASSUME ScriptInv, [Script!Next]_smpVars PROVE ScriptInv'
<1>1. CASE UNCHANGED smpVars
  BY <1>1
  DEF smpVars, ScriptInv, Script!TypeOK, Script!RunInv, Script!Uploaded, Script!Installed
<1> QED
  BY <1>1, HostKeeps, UploadKeeps, FlagKeeps, AskKeeps, BoardKeeps
  DEF Script!Next, Script!Script

-----------------------------------------------------------------------------
(* All programs. *)

ProgramsInv == TbInv /\ ZephyrInv /\ LampsInv /\ FirmwareInv /\ ScriptInv

\* One program moves, the others stand still: each keeps its own invariant.
LEMMA ProgramsKeep == MCSpec => []ProgramsInv
<1>1. MCInit => ProgramsInv
  BY ProvStarts, SessionStarts, ZephyrStarts, LampsStart, FirmwareStarts, ScriptStarts
  DEF MCInit, ProgramsInv, TbInv, Tb!Init, Tb!SeenIsStored, Tb!Session!Init
<1>2. ProgramsInv /\ [MCNext]_allVars => ProgramsInv'
  <2> SUFFICES ASSUME ProgramsInv, [MCNext]_allVars PROVE ProgramsInv'
    OBVIOUS
  <2>1. /\ [Tb!Next]_tbVars /\ [Zephyr!Next]_ztVars /\ [Lwm2m!Next]_lwVars
        /\ [Firmware!Next]_fwVars
    BY DEF MCNext, allVars
  <2> QED
    BY <2>1, TbKeeps, ZephyrKeeps, LampsKeep, FirmwareKeeps, ScriptSteps, ScriptKeeps
    DEF ProgramsInv
<1> QED
  BY <1>1, <1>2, PTL DEF MCSpec

\* Both loops of the converter keep theirs.
LEMMA ReadingsKeep == MCSpec => []ReadingInv
BY ReadingBehaves, ReadingInvariance, PTL

\* The native example keeps its own.
LEMMA NativeKeeps == MCSpec => []IInv
BY NativeBehaves, Invariance, PTL

\* Every variable of every program keeps its type.
THEOREM ProgramsTypeOKThm == MCSpec => []ProgramsTypeOK
<1>1. IInv /\ ReadingInv /\ ProgramsInv => ProgramsTypeOK
  BY DEF IInv, ReadingInv, ProgramsInv, TbInv, ZephyrInv, LampsInv, FirmwareInv, ScriptInv,
     ProgramsTypeOK, Tb!TypeOK
<1> QED
  BY <1>1, NativeKeeps, ReadingsKeep, ProgramsKeep, PTL

\* Access tokens (esp-idf-thingsboard app_main.c:583-590, 676-679;
\* thingsboard_mqtt.c): one that reached the board is not thrown away, the real
\* client starts with an issued one only, and a device that was ever seen has its
\* own in NVS.
THEOREM TokensHoldThm == MCSpec => []TokensHold
<1>1. ProgramsInv => TokensHold
  BY DEF ProgramsInv, TbInv, ZephyrInv, Tb!Prov!TypeOK, Tb!Prov!Token, Tb!Prov!TokenInv,
     Zephyr!TokenInv, TokensHold, Tb!AnswerUsed, Tb!OnlineWithToken, Tb!Prov!OnlineWithToken
<1> QED
  BY <1>1, ProgramsKeep, PTL

\* Images: the native example finds a complete one at every reset, and MCUboot is
\* asked by the LwM2M client for one that is whole in slot 1 only, after broken
\* transfers, refused writes, cancels and restarted pushes in any order.
THEOREM ImagesHoldThm == MCSpec => []ImagesHold
<1>1. IInv /\ ProgramsInv => ImagesHold
  BY RecordsBootable
  DEF IInv, TypeOK, AlwaysBootable, ProgramsInv, FirmwareInv, Firmware!TransferInv, ImagesHold
<1> QED
  BY <1>1, NativeKeeps, ProgramsKeep, PTL

\* What is told is so: an acknowledged write of the light shows the light, a
\* script that says "complete" left its image running unless MCUboot refused it
\* (ota_update.py:136), and both drivers of the converter tell the same voltage
\* as long as nothing wraps.
THEOREM ToldIsTrueThm ==
  ASSUME Unwrapped
  PROVE  MCSpec => []ToldIsTrue
<1>1. ReadingInv /\ ProgramsInv => ToldIsTrue
  BY ReadingsAgree
  DEF ProgramsInv, LampsInv, Lwm2m!LampInv, ScriptInv, Script!RunInv, Script!Installed,
      Script!CompleteUnlessRejected, ToldIsTrue
<1> QED
  BY <1>1, ReadingsKeep, ProgramsKeep, PTL

\* The script puts up for the next boot only what this run of it uploaded: slot 1
\* may still hold the image of a run that broke off (ota_update.py:99-112).
THEOREM ConfirmsOwnThm == MCSpec => ConfirmsOwn
<1>1. ProgramsInv /\ [MCNext]_allVars => [~pending /\ pending' => slot1 = image]_(Script!vars)
  <2> SUFFICES ASSUME ScriptInv, Script!Next, ~pending, pending' PROVE slot1 = image
    BY ScriptSteps DEF ProgramsInv, smpVars, Script!vars, Script!host, Script!device, Script!flash
  <2>1. Script!TryTest \/ Script!Confirm \/ Script!Unanswered
    BY DEF Script!Next, Script!Start, Script!Script, Script!Connect, Script!Retry,
       Script!Upload, Script!StoreChunk, Script!ReadHash, Script!Reset, Script!Sleep,
       Script!Echo, Script!Board, Script!Restart, Script!Up, Script!PowerCut, Script!Boots,
       Script!device, Script!flash
  <2>2. slot1 = hash /\ step \in {"test", "confirm"}
    BY <2>1 DEF Script!TryTest, Script!Confirm, Script!Unanswered, Script!Done,
       Script!StoreChunk, Script!device, Script!flash
  <2> QED
    BY <2>2 DEF ScriptInv, Script!RunInv
<1> QED
  BY <1>1, ProgramsKeep, PTL DEF MCSpec, ConfirmsOwn, Script!ConfirmsOwn

\* However the interval is set and whenever the connection comes and goes,
\* publications of one run are never closer than the floor (app_main.c:261).
THEOREM PacedThm == MCSpec => Tb!Paced
<1>1. ProgramsInv => (left = 0 => since = Floor)
  BY TakenIntervals
  DEF ProgramsInv, TbInv, Tb!Session!TypeOK, Tb!Session!SpacingInv
<1>2. ProgramsInv /\ [MCNext]_allVars
        => [left = 0 /\ left' > 0 /\ connected => since = Floor]_(Tb!Session!vars)
  BY <1>1
<1> QED
  BY <1>2, ProgramsKeep, PTL DEF MCSpec, Tb!Paced, Tb!Session!Paced
=============================================================================
