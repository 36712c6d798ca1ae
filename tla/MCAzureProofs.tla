---------------------------- MODULE MCAzureProofs ----------------------------
(***************************************************************************)
(* TLAPS proofs about the parts of the Azure client, for any packages,     *)
(* offers, hubs, ids, intervals, widths of the counter and sizes of        *)
(* buffers: the client connects with the hub and the id of one answer and  *)
(* throws no assignment away; every cloud-to-device message is followed by *)
(* a publication; url_encode never writes outside its buffer, and encodes  *)
(* whole what fits; the two NVS keys hold what they say; every variable    *)
(* keeps its type.                                                         *)
(***************************************************************************)
EXTENDS MCAzure, AzureOtaProofs, Integers, WellFoundedInduction

-----------------------------------------------------------------------------
(* AzureDps, with all its faults. *)

\* A step of one part leaves the others alone.
LEMMA OnePartMoves ==
  ASSUME [MCNext]_allVars
  PROVE  /\ Register!Next \/ UNCHANGED dpsVars
         /\ Operate!Next \/ UNCHANGED hubVars
         /\ EncodeNext \/ UNCHANGED encodeVars
BY DEF MCNext, allVars

\* Nothing is saved, assigned or on its way.
LEMMA RegisterStarts == Register!Init => Register!DpsInv
<1> SUFFICES ASSUME Register!Init PROVE Register!DpsInv
  OBVIOUS
<1>1. answers = <<>> /\ given = {} /\ nvsId = None /\ dpsPc = "off" /\ success = FALSE
  BY DEF Register!Init
<1> QED
  BY <1>1 DEF Register!DpsInv, Register!AnswerInv, Register!SavedInv, Register!FlagInv,
     Register!ConnectsAsAssigned

\* app_main: the lookup takes both keys or none, the loop ends with the handler's
\* word, and the hub is saved before the id.
LEMMA RegisterMainKeeps ==
  ASSUME Register!DpsInv, Register!Main
  PROVE  Register!DpsInv'
<1> USE DEF Register!DpsInv, Register!nvs, Register!flags, Register!net
<1>1. CASE Register!Boot \/ Register!SyncTime \/ Register!Tick \/ Register!StartPoll
           \/ Register!SendPoll \/ Register!LeaveLoop
  <2>1. UNCHANGED <<nvsHub, nvsId, answers, given, done, success, assigned, used>>
    BY <1>1 DEF Register!Boot, Register!SyncTime, Register!Tick, Register!StartPoll,
       Register!SendPoll, Register!LeaveLoop
  <2>2. \/ dpsPc \in {"off", "sync"} /\ dpsPc' \in {"sync", "lookup"}
        \/ dpsPc \in {"register", "delay"} /\ dpsPc' \in {"register", "delay", "closing"}
    BY <1>1 DEF Register!Boot, Register!SyncTime, Register!Tick, Register!StartPoll,
       Register!SendPoll, Register!LeaveLoop
  <2> QED
    BY <2>1, <2>2 DEF Register!AnswerInv, Register!SavedInv, Register!FlagInv,
       Register!ConnectsAsAssigned
<1>2. CASE Register!Lookup
  <2>1. /\ dpsPc = "lookup" /\ UNCHANGED <<nvsHub, nvsId, answers, given, done, success, assigned>>
        /\ \/ nvsHub # None /\ nvsId # None /\ dpsPc' = "hub" /\ used' = <<nvsHub, nvsId>>
           \/ (nvsHub = None \/ nvsId = None) /\ dpsPc' \in {"halted", "register"}
    BY <1>2 DEF Register!Lookup
  <2>2. nvsId # None => nvsHub # None
    BY MCAzureAssumption
    DEF Register!SavedInv, Register!Assignment, Register!AzureDpsAssumption
  <2> QED
    BY <2>1, <2>2 DEF Register!AnswerInv, Register!SavedInv, Register!FlagInv,
       Register!ConnectsAsAssigned
<1>3. CASE Register!Close
  <2>1. /\ dpsPc = "closing" /\ answers' = <<>>
        /\ UNCHANGED <<nvsHub, nvsId, given, done, success, assigned>>
        /\ \/ success /\ dpsPc' = "save_hub"
           \/ ~success /\ dpsPc' = "halted"
    BY <1>3 DEF Register!Close, Register!AnswerInv
  <2> QED
    BY <2>1 DEF Register!AnswerInv, Register!SavedInv, Register!FlagInv,
       Register!ConnectsAsAssigned
<1>5. CASE Register!SaveHub
  <2>1. /\ dpsPc = "save_hub" /\ dpsPc' = "save_id" /\ nvsHub' = assigned[1]
        /\ UNCHANGED <<nvsId, given, done, success, assigned, answers>>
        /\ success /\ nvsId = None
    BY <1>5 DEF Register!SaveHub, Register!SavedInv
  <2> QED
    BY <2>1 DEF Register!AnswerInv, Register!SavedInv, Register!FlagInv,
       Register!ConnectsAsAssigned
<1>4. CASE Register!SaveDeviceId
  <2>1. /\ dpsPc = "save_id" /\ dpsPc' = "hub" /\ nvsId' = assigned[2] /\ used' = assigned
        /\ UNCHANGED <<nvsHub, given, done, success, assigned, answers>>
    BY <1>4 DEF Register!SaveDeviceId
  <2>2. nvsHub = assigned[1] /\ assigned \in given /\ assigned = <<assigned[1], assigned[2]>>
    BY <2>1 DEF Register!SavedInv, Register!AnswerInv, Register!Assignment
  <2> QED
    BY <2>1, <2>2 DEF Register!AnswerInv, Register!SavedInv, Register!FlagInv,
       Register!ConnectsAsAssigned
<1> QED
  BY <1>1, <1>2, <1>3, <1>4, <1>5 DEF Register!Main

\* A reset keeps the two keys only.
LEMMA RegisterCrashKeeps ==
  ASSUME Register!DpsInv, Register!Crash
  PROVE  Register!DpsInv'
<1>1. /\ dpsPc' = "off" /\ answers' = <<>>
      /\ UNCHANGED <<nvsHub, nvsId, given>>
  BY DEF Register!Crash, Register!nvs
<1>2. ~success'
  BY DEF Register!Crash
<1>3. answers' \in Seq(Register!Answer) /\ given' \subseteq Register!Assignment
  BY <1>1 DEF Register!DpsInv
<1>4. Register!AnswerInv'
  BY <1>1, <1>2 DEF Register!AnswerInv
<1>5. Register!SavedInv'
  BY <1>1 DEF Register!DpsInv, Register!SavedInv, Register!nvs
<1> QED
  BY <1>1, <1>2, <1>3, <1>4, <1>5 DEF Register!DpsInv, Register!FlagInv,
     Register!ConnectsAsAssigned

\* The connection of the DPS client comes and goes.
LEMMA RegisterLineKeeps ==
  ASSUME Register!DpsInv, Register!DpsConnected \/ Register!DpsDisconnected
  PROVE  Register!DpsInv'
<1>1. /\ answers' \in {answers, <<>>}
      /\ UNCHANGED <<nvsHub, nvsId, given, done, success, assigned, used, dpsPc>>
  BY DEF Register!DpsConnected, Register!DpsDisconnected, Register!nvs, Register!flags
<1>2. <<>> \in Seq(Register!Answer) /\ DOMAIN <<>> = {}
  OBVIOUS
<1>3. answers' \in Seq(Register!Answer) /\ Register!AnswerInv'
  BY <1>1, <1>2 DEF Register!DpsInv, Register!AnswerInv
<1> QED
  BY <1>1, <1>3 DEF Register!DpsInv, Register!SavedInv, Register!FlagInv,
     Register!ConnectsAsAssigned, Register!nvs

\* The handler takes in the oldest answer while the client runs.
LEMMA RegisterHandlerKeeps ==
  ASSUME Register!DpsInv, Register!HandleAnswer
  PROVE  Register!DpsInv'
<1>1. /\ answers # <<>> /\ answers' = Tail(answers) /\ answers \in Seq(Register!Answer)
      /\ dpsPc \in {"register", "delay", "closing"}
      /\ UNCHANGED <<nvsHub, nvsId, given, used, dpsPc>>
  BY DEF Register!DpsInv, Register!HandleAnswer, Register!ClientRuns, Register!nvs
<1>2. /\ answers' \in Seq(Register!Answer) /\ 1 \in DOMAIN answers /\ Head(answers) = answers[1]
      /\ \A i \in DOMAIN answers' : i + 1 \in DOMAIN answers /\ answers'[i] = answers[i + 1]
  BY <1>1
<1>3. \/ Head(answers).kind = "assigned" /\ done' /\ success' /\ assigned' = Head(answers).to
      \/ (done => done') /\ UNCHANGED <<success, assigned>>
  BY DEF Register!HandleAnswer, Register!flags
<1>4. Register!AnswerInv'
  BY <1>1, <1>2, <1>3 DEF Register!DpsInv, Register!AnswerInv
<1> QED
  BY <1>1, <1>2, <1>4 DEF Register!DpsInv, Register!SavedInv, Register!FlagInv,
     Register!ConnectsAsAssigned, Register!nvs

\* The service answers a request.
LEMMA RegisterServiceKeeps ==
  ASSUME Register!DpsInv, Register!ServiceAnswers
  PROVE  Register!DpsInv'
<1>1. PICK a \in Register!Answer :
        /\ answers' = Append(answers, a)
        /\ given' = IF a.kind = "assigned" THEN given \cup {a.to} ELSE given
  BY DEF Register!ServiceAnswers
<1>2. /\ answers \in Seq(Register!Answer) /\ given \subseteq Register!Assignment
      /\ UNCHANGED <<nvsHub, nvsId, done, success, assigned, used, dpsPc>>
  BY DEF Register!DpsInv, Register!ServiceAnswers, Register!nvs, Register!flags
<1>3. given \subseteq given' /\ given' \subseteq Register!Assignment
  BY <1>1, <1>2 DEF Register!Answer
<1>4. /\ answers' \in Seq(Register!Answer)
      /\ \A i \in DOMAIN answers' :
           answers'[i] = a \/ (i \in DOMAIN answers /\ answers'[i] = answers[i])
  BY <1>1, <1>2
<1>5. Register!AnswerInv'
  BY <1>1, <1>2, <1>3, <1>4 DEF Register!DpsInv, Register!AnswerInv
<1> QED
  BY <1>2, <1>3, <1>4, <1>5 DEF Register!DpsInv, Register!SavedInv, Register!FlagInv,
     Register!ConnectsAsAssigned, Register!nvs

\* The invariant is inductive.
LEMMA RegisterKeeps ==
  ASSUME Register!DpsInv, Register!Next \/ UNCHANGED dpsVars
  PROVE  Register!DpsInv'
<1>1. CASE UNCHANGED dpsVars
  BY <1>1 DEF dpsVars, Register!DpsInv, Register!AnswerInv, Register!SavedInv,
     Register!FlagInv, Register!ConnectsAsAssigned, Register!nvs
<1> QED
  BY <1>1, RegisterMainKeeps, RegisterCrashKeeps, RegisterLineKeeps, RegisterHandlerKeeps,
     RegisterServiceKeeps DEF Register!Next

\* The hub and the device id the client connects with come from one answer of the
\* service, although they are saved in two commits with a reset between them
\* (app_main.c:907-908), and an assignment the handler took in is not thrown away.
THEOREM CredentialsHoldThm == MCSpec => []CredentialsHold
<1>1. MCInit => Register!DpsInv
  BY RegisterStarts DEF MCInit
<1>2. Register!DpsInv /\ [MCNext]_allVars => Register!DpsInv'
  BY RegisterKeeps, OnePartMoves
<1>3. Register!DpsInv => CredentialsHold
  BY DEF Register!DpsInv, Register!FlagInv, Register!AssignmentKept, CredentialsHold
<1> QED
  BY <1>1, <1>2, <1>3, PTL DEF MCSpec

-----------------------------------------------------------------------------
(* AzureHub, with all its faults. *)

\* A message is remembered by the flag, or by the place of the task that has just
\* cleared it, in every order of the steps of the two tasks; and the interval
\* never changes without a report.
LEMMA HubServedKeeps ==
  ASSUME HubServed, Operate!Next \/ UNCHANGED hubVars
  PROVE  HubServed'
<1> USE DEF HubServed, Operate!C2dNotForgotten, Operate!ReportedIntervalHolds
<1>1. CASE Operate!Telemetry
  BY <1>1 DEF Operate!Telemetry, Operate!ReadFlag, Operate!TestDue, Operate!ClearFlag,
     Operate!PublishTelemetry, Operate!Delay, Operate!mqtt
<1>2. CASE Operate!HubConnected \/ Operate!HubDisconnected \/ Operate!SetInterval
  BY <1>2 DEF Operate!HubConnected, Operate!HubDisconnected, Operate!SetInterval,
     Operate!ReportTwin, Operate!task
<1>3. CASE Operate!C2dMessage \/ Operate!HandleMethod \/ Operate!Restart \/ Operate!InvokeMethod
  BY <1>3 DEF Operate!C2dMessage, Operate!HandleMethod, Operate!Restart,
     Operate!InvokeMethod, Operate!task, Operate!mqtt
<1>4. CASE UNCHANGED hubVars
  BY <1>4 DEF hubVars
<1> QED
  BY <1>1, <1>2, <1>3, <1>4 DEF Operate!Next

\* Every cloud-to-device message is followed by a publication (app_main.c:720-727),
\* and the reported interval of a connected device is the one in force.
THEOREM HubServedThm == MCSpec => []HubServed
<1>1. MCInit => HubServed
  BY DEF MCInit, Operate!Init, HubServed, Operate!C2dNotForgotten,
     Operate!ReportedIntervalHolds
<1>2. HubServed /\ [MCNext]_allVars => HubServed'
  BY HubServedKeeps, OnePartMoves
<1> QED
  BY <1>1, <1>2, PTL DEF MCSpec

-----------------------------------------------------------------------------
(* UrlEncode: di + 4 < size leaves room for an escape and the terminator. *)

\* The type invariant bounds the width of the next character.
EncodeInv == EncodeTypeOK /\ InsideBuffer

\* An input is a sequence of widths.
LEMMA InputFacts ==
  ASSUME NEW s \in Inputs
  PROVE  Len(s) \in Nat /\ \A k \in 1..Len(s) : s[k] \in {1, 3}
<1>1. PICK n \in 0..MaxChars : s \in [1..n -> {1, 3}]
  BY DEF Inputs
<1>2. Len(s) = n
  BY <1>1, UrlEncodeAssumption DEF UrlEncodeAssumption
<1> QED
  BY <1>1, <1>2

\* An empty buffer has room for the terminator.
LEMMA EncodeStarts == EncodeInit => EncodeInv
<1> SUFFICES ASSUME EncodeInit PROVE EncodeInv
  OBVIOUS
<1>1. Len(src) \in Nat
  BY InputFacts DEF EncodeInit
<1>2. size \in Nat \ {0}
  BY UrlEncodeAssumption DEF EncodeInit, UrlEncodeAssumption
<1>3. EncodeTypeOK
  <2>1. si \in 0..Len(src) /\ di \in Nat
    BY <1>1 DEF EncodeInit
  <2> QED
    BY <2>1, Zenon DEF EncodeInit, EncodeTypeOK
<1>4. InsideBuffer
  BY <1>2 DEF EncodeInit, InsideBuffer
<1> QED
  BY <1>3, <1>4 DEF EncodeInv

\* A turn of the loop finds room for an escape and the terminator.
LEMMA EncodeKeeps ==
  ASSUME EncodeInv, EncodeNext \/ UNCHANGED encodeVars
  PROVE  EncodeInv'
<1>1. /\ Len(src) \in Nat /\ size \in Nat
      /\ \A k \in 1..Len(src) : src[k] \in {1, 3}
  BY InputFacts, UrlEncodeAssumption DEF EncodeInv, EncodeTypeOK, UrlEncodeAssumption
<1>2. CASE EncodeChar
  <2>1. src[si + 1] \in {1, 3}
    BY <1>1, <1>2 DEF EncodeChar, EncodeInv, EncodeTypeOK
  <2> QED
    BY <1>1, <1>2, <2>1 DEF EncodeChar, Room, EncodeInv, EncodeTypeOK, InsideBuffer
<1>3. CASE Terminate
  BY <1>1, <1>3 DEF Terminate, EncodeInv, EncodeTypeOK, InsideBuffer
<1>4. CASE UNCHANGED encodeVars
  BY <1>4 DEF encodeVars, EncodeInv, EncodeTypeOK, InsideBuffer
<1> QED
  BY <1>2, <1>3, <1>4 DEF EncodeNext

\* The buffer is respected by every step of the loop and by the terminator
\* that follows it.
THEOREM BufferRespected == MCSpec => []InsideBuffer
<1>1. MCInit => EncodeInv
  BY EncodeStarts DEF MCInit
<1>2. EncodeInv /\ [MCNext]_allVars => EncodeInv'
  BY EncodeKeeps, OnePartMoves
<1>3. EncodeInv => InsideBuffer
  BY DEF EncodeInv
<1> QED
  BY <1>1, <1>2, <1>3, PTL DEF MCSpec

-----------------------------------------------------------------------------
(* UrlEncode: a string that leaves four bytes to spare is encoded whole.     *)
(* UpTo is a recursive function: that it has the values its equation gives   *)
(* it, and that they grow, is shown on the least number that would not.      *)

\* A set of natural numbers with an element has a least one.
LEMMA LeastNat ==
  ASSUME NEW T, T \subseteq Nat, T # {}
  PROVE  \E n \in T : \A m \in T : n <= m
<1> DEFINE R == OpToRel(<, Nat)
<1>1. PICK n \in T : \A m \in T : <<m, n>> \notin R
  <2>1. IsWellFoundedOn(R, Nat)
    BY NatLessThanWellFounded
  <2> HIDE DEF R
  <2> QED
    BY <2>1, WFMin
<1>2. \A m \in T : ~(m < n)
  BY <1>1 DEF OpToRel
<1> QED
  BY <1>2

\* f gives the output of the first i characters of s for every i up to n.
SumsTo(f, s, n) ==
  /\ f \in [0..n -> Nat] /\ f[0] = 0
  /\ \A i \in 1..n : f[i] = f[i - 1] + s[i]

\* There is such a function for every n: the one for n - 1, and one value more.
LEMMA SumsExist ==
  ASSUME NEW s \in Inputs
  PROVE  \A n \in 0..Len(s) : \E f : SumsTo(f, s, n)
<1>1. Len(s) \in Nat /\ \A k \in 1..Len(s) : s[k] \in Nat
  BY InputFacts
<1> DEFINE T == {n \in 0..Len(s) : ~ \E f : SumsTo(f, s, n)}
<1>2. SUFFICES ASSUME T # {} PROVE FALSE
  OBVIOUS
<1>3. PICK n \in T : \A m \in T : n <= m
  <2>1. T \subseteq Nat
    BY <1>1
  <2> HIDE DEF T
  <2> QED
    BY <1>2, <2>1, LeastNat
<1>4. CASE n = 0
  <2> DEFINE f == [i \in 0..0 |-> 0]
  <2>1. SumsTo(f, s, 0)
    BY DEF SumsTo
  <2> QED
    BY <1>4, <2>1, <1>3
<1>5. CASE n # 0
  <2>1. n - 1 \in 0..Len(s) /\ n - 1 \notin T /\ n \in 1..Len(s)
    BY <1>1, <1>3, <1>5
  <2>2. PICK g : SumsTo(g, s, n - 1)
    BY <2>1
  <2> DEFINE f == [i \in 0..n |-> IF i = n THEN g[n - 1] + s[n] ELSE g[i]]
  <2>3. g[n - 1] \in Nat /\ s[n] \in Nat
    BY <1>1, <2>1, <2>2 DEF SumsTo
  <2>4. f \in [0..n -> Nat] /\ f[0] = 0
    BY <2>1, <2>2, <2>3 DEF SumsTo
  <2>5. ASSUME NEW i \in 1..n PROVE f[i] = f[i - 1] + s[i]
    <3>1. i - 1 \in 0..n /\ i - 1 # n /\ i \in 0..n /\ i \in Nat /\ n \in Nat
      BY <2>1
    <3>2. f[i - 1] = g[i - 1]
      BY <3>1
    <3>3. CASE i = n
      BY <3>2, <3>3, <3>1
    <3>4. CASE i # n
      <4>1. i \in 1..(n - 1)
        BY <3>1, <3>4
      <4>2. g[i] = g[i - 1] + s[i]
        BY <4>1, <2>2 DEF SumsTo
      <4> QED
        BY <3>1, <3>2, <3>4, <4>2
    <3> QED
      BY <3>3, <3>4
  <2>6. SumsTo(f, s, n)
    BY <2>4, <2>5 DEF SumsTo
  <2> QED
    BY <2>6, <1>3
<1> QED
  BY <1>4, <1>5

\* UpTo(s) is such a function: a first difference has the same summands.
LEMMA UpToSums ==
  ASSUME NEW s \in Inputs
  PROVE  SumsTo(UpTo(s), s, Len(s))
<1>1. Len(s) \in Nat /\ \A k \in 1..Len(s) : s[k] \in Nat
  BY InputFacts
<1>2. PICK f : SumsTo(f, s, Len(s))
  BY <1>1, SumsExist
<1>3. f = [i \in 0..Len(s) |-> IF i = 0 THEN 0 ELSE f[i - 1] + s[i]]
  BY <1>1, <1>2 DEF SumsTo
<1> DEFINE u == UpTo(s)
<1>4. u = CHOOSE g : g = [i \in 0..Len(s) |-> IF i = 0 THEN 0 ELSE g[i - 1] + s[i]]
  BY DEF UpTo
<1> HIDE DEF u
<1>5. u = [i \in 0..Len(s) |-> IF i = 0 THEN 0 ELSE u[i - 1] + s[i]]
  BY <1>3, <1>4
<1> DEFINE T == {i \in 0..Len(s) : u[i] # f[i]}
<1>6. T = {}
  <2>1. SUFFICES ASSUME T # {} PROVE FALSE
    OBVIOUS
  <2>2. PICK n \in T : \A m \in T : n <= m
    <3>1. T \subseteq Nat
      BY <1>1
    <3> HIDE DEF T
    <3> QED
      BY <2>1, <3>1, LeastNat
  <2>3. n # 0
    BY <1>1, <1>2, <1>5, <2>2 DEF SumsTo
  <2>4. n - 1 \in 0..Len(s) /\ n - 1 \notin T /\ n \in 1..Len(s)
    BY <1>1, <2>2, <2>3
  <2>5. u[n] = u[n - 1] + s[n] /\ f[n] = f[n - 1] + s[n]
    BY <1>2, <1>5, <2>3, <2>4 DEF SumsTo
  <2> QED
    BY <2>2, <2>4, <2>5
<1>7. u = f
  <2>1. \A i \in 0..Len(s) : u[i] = f[i]
    BY <1>6
  <2>2. f = [i \in 0..Len(s) |-> f[i]] /\ u = [i \in 0..Len(s) |-> u[i]]
    BY <1>2, <1>5 DEF SumsTo
  <2> HIDE DEF T
  <2> QED
    BY <2>1, <2>2
<1> QED
  BY <1>2, <1>7 DEF u

\* Every character adds to the output.
LEMMA WidthGrows ==
  ASSUME NEW s \in Inputs, NEW k \in 0..Len(s), k < Len(s)
  PROVE  UpTo(s)[k] \in Nat /\ Width(s) \in Nat /\ UpTo(s)[k] + 1 <= Width(s)
<1>1. Len(s) \in Nat /\ \A i \in 1..Len(s) : s[i] \in {1, 3}
  BY InputFacts
<1> DEFINE u == UpTo(s)
<1>2. SumsTo(u, s, Len(s))
  BY UpToSums
<1> HIDE DEF u
<1>3. \A i \in 0..Len(s) : u[i] \in Nat
  BY <1>2 DEF SumsTo
<1> DEFINE T == {i \in (k + 1)..Len(s) : ~(u[k] + 1 <= u[i])}
<1>4. T = {}
  <2>1. SUFFICES ASSUME T # {} PROVE FALSE
    OBVIOUS
  <2>2. PICK n \in T : \A m \in T : n <= m
    <3>1. T \subseteq Nat
      BY <1>1
    <3> HIDE DEF T
    <3> QED
      BY <2>1, <3>1, LeastNat
  <2>3. n \in 1..Len(s) /\ n - 1 \in k..Len(s) /\ n - 1 \notin T
    BY <1>1, <2>2
  <2>4. u[n] = u[n - 1] + s[n] /\ s[n] \in {1, 3}
    BY <1>1, <1>2, <2>3 DEF SumsTo
  <2>5. u[k] <= u[n - 1]
    BY <1>1, <1>3, <2>2, <2>3
  <2> QED
    BY <1>1, <1>3, <2>2, <2>3, <2>4, <2>5, SMTT(30)
<1>5. u[k] + 1 <= u[Len(s)]
  BY <1>1, <1>4
<1> QED
  BY <1>1, <1>3, <1>5 DEF u, Width

\* Nothing is written, and the loop has not ended.
LEMMA SumStarts == EncodeInit => SumInv
<1> SUFFICES ASSUME EncodeInit PROVE SumInv
  OBVIOUS
<1>1. src \in Inputs /\ si = 0 /\ di = 0 /\ ~ended
  BY Zenon DEF EncodeInit
<1>2. UpTo(src)[0] = 0
  BY <1>1, UpToSums DEF SumsTo
<1> QED
  BY <1>1, <1>2 DEF SumInv

\* A turn of the loop adds its character.
LEMMA SumKeeps ==
  ASSUME EncodeInv, SumInv, EncodeNext \/ UNCHANGED encodeVars
  PROVE  SumInv'
<1>1. src \in Inputs /\ Len(src) \in Nat /\ si \in 0..Len(src)
  BY InputFacts DEF EncodeInv, EncodeTypeOK
<1>2. CASE EncodeChar
  <2>1. /\ ~ended' /\ src' = src /\ si' = si + 1 /\ di' = di + src[si + 1]
        /\ si + 1 \in 1..Len(src) /\ di = UpTo(src)[si]
    BY <1>1, <1>2 DEF EncodeChar, SumInv
  <2>2. UpTo(src)[si + 1] = UpTo(src)[si] + src[si + 1]
    <3>1. \A i \in 1..Len(src) : UpTo(src)[i] = UpTo(src)[i - 1] + src[i]
      BY <1>1, UpToSums DEF SumsTo
    <3>2. (si + 1) - 1 = si
      BY <1>1
    <3> QED
      BY <2>1, <3>1, <3>2
  <2> QED
    BY <2>1, <2>2 DEF SumInv
<1>3. CASE Terminate
  BY <1>3 DEF Terminate, SumInv, Room
<1>4. CASE UNCHANGED encodeVars
  BY <1>4 DEF encodeVars, SumInv, Room
<1> QED
  BY <1>2, <1>3, <1>4 DEF EncodeNext

\* A loop that stopped early had no room for an escape and the terminator, so
\* the whole string and four bytes more would not have fitted.
LEMMA StopsForRoom == EncodeInv /\ SumInv => WholeIfRoom
<1> SUFFICES ASSUME EncodeInv, SumInv, ended, Width(src) + 4 <= size, si # Len(src)
             PROVE  FALSE
  BY DEF WholeIfRoom
<1>1. /\ src \in Inputs /\ Len(src) \in Nat /\ si \in 0..Len(src)
      /\ di \in Nat /\ size \in Nat
  BY InputFacts, UrlEncodeAssumption DEF EncodeInv, EncodeTypeOK, UrlEncodeAssumption
<1>2. si < Len(src) /\ ~(di + 4 < size) /\ di = UpTo(src)[si]
  BY <1>1 DEF SumInv, Room
<1>3. Width(src) \in Nat /\ di + 1 <= Width(src)
  BY <1>1, <1>2, WidthGrows
<1> QED
  BY <1>1, <1>2, <1>3

\* A string whose encoding leaves four bytes to spare is encoded whole
\* (app_main.c:99-100), whatever the string and the size of the buffer.
THEOREM WholeIfRoomThm == MCSpec => []WholeIfRoom
<1>1. MCInit => EncodeInv /\ SumInv
  BY EncodeStarts, SumStarts DEF MCInit
<1>2. EncodeInv /\ SumInv /\ [MCNext]_allVars => (EncodeInv /\ SumInv)'
  BY EncodeKeeps, SumKeeps, OnePartMoves
<1>3. EncodeInv /\ SumInv => WholeIfRoom
  BY StopsForRoom
<1> QED
  BY <1>1, <1>2, <1>3, PTL DEF MCSpec

-----------------------------------------------------------------------------
(* AzureOta: a step of one of the parts about the update is a step of the   *)
(* module with all the faults, and no reset that the part leaves aside.     *)

USE DEF EspOtaVars, Usable, Unconfirmed, NoEntry, AbortTrial, StartTrial, ActiveSlot,
  AfterReset, NextBoot, Bootloader, AbortedAtReset, NextUpdate, EntryOf, OnTrial,
  OtaBegin, OtaEnd, SetBoot, SetState, MarkValid, nvs, ota, hub, net, history, NoOffer,
  CurrentVersion, Target, Reset, Main, Boot, ReconcilePending, ErasePending, WifiUp,
  ConfirmImage, OtaTask, OpenDownload, RecordPending, Download, AbandonUpdate,
  EndUpdate, ActivateUpdate, RestartIntoUpdate, TaskVars, Done, MqttTask, HubConnected,
  HubDisconnected, HandleTwin, HandleReboot, TriggerOta, Crash, ServeTwin,
  ChangeDesired, Patch

\* Resets outside of the window.
LEMMA AntiloopSteps ==
  ASSUME IInv, Antiloop!Next
  PROVE  Next /\ SparesWindow
<1> USE DEF Antiloop!EspOtaVars, Antiloop!Usable, Antiloop!Unconfirmed,
  Antiloop!NoEntry, Antiloop!AbortTrial, Antiloop!StartTrial, Antiloop!ActiveSlot,
  Antiloop!AfterReset, Antiloop!NextBoot, Antiloop!Bootloader, Antiloop!AbortedAtReset,
  Antiloop!NextUpdate, Antiloop!EntryOf, Antiloop!OnTrial, Antiloop!OtaBegin,
  Antiloop!OtaEnd, Antiloop!SetBoot, Antiloop!SetState, Antiloop!MarkValid,
  Antiloop!nvs, Antiloop!ota, Antiloop!hub, Antiloop!net, Antiloop!history,
  Antiloop!NoOffer, Antiloop!CurrentVersion, Antiloop!Target, Antiloop!Reset
<1>1. Antiloop!Main => Main
  BY DEF Antiloop!Main, Antiloop!Boot, Antiloop!ReconcilePending, Antiloop!ErasePending,
    Antiloop!WifiUp, Antiloop!ConfirmImage
<1>2. Antiloop!OtaTask => OtaTask
  BY DEF Antiloop!OtaTask, Antiloop!OpenDownload, Antiloop!RecordPending,
    Antiloop!Download, Antiloop!AbandonUpdate, Antiloop!EndUpdate,
    Antiloop!ActivateUpdate, Antiloop!RestartIntoUpdate, Antiloop!TaskVars,
    Antiloop!Done
<1>3. Antiloop!MqttTask => MqttTask
  BY DEF Antiloop!MqttTask, Antiloop!HubConnected, Antiloop!HubDisconnected,
    Antiloop!HandleTwin, Antiloop!HandleReboot, Antiloop!TriggerOta
<1>4. Antiloop!Crash => Crash /\ SparesWindow
  BY DEF SparesWindow, Antiloop!Crash
<1>5. Antiloop!ServeTwin => ServeTwin
  BY DEF Antiloop!ServeTwin
<1>6. Antiloop!ChangeDesired => ChangeDesired
  BY MCAzureAssumption, AzureOtaAssumption DEF IInv, TypeOK, Antiloop!ChangeDesired,
    Antiloop!Patch
<1> HIDE DEF Main, OtaTask, MqttTask, HandleReboot, Crash, ServeTwin, ChangeDesired
<1> QED
  BY <1>1, <1>2, <1>3, <1>4, <1>5, <1>6, OthersSpareWindow DEF Next, Antiloop!Next

\* Nothing stops ota_task.
LEMMA BadmarkSteps ==
  ASSUME IInv, Badmark!Next
  PROVE  Next /\ SparesTask
<1> USE DEF Badmark!EspOtaVars, Badmark!Usable, Badmark!Unconfirmed, Badmark!NoEntry,
  Badmark!AbortTrial, Badmark!StartTrial, Badmark!ActiveSlot, Badmark!AfterReset,
  Badmark!NextBoot, Badmark!Bootloader, Badmark!AbortedAtReset, Badmark!NextUpdate,
  Badmark!EntryOf, Badmark!OnTrial, Badmark!OtaBegin, Badmark!OtaEnd, Badmark!SetBoot,
  Badmark!SetState, Badmark!MarkValid, Badmark!nvs, Badmark!ota, Badmark!hub,
  Badmark!net, Badmark!history, Badmark!NoOffer, Badmark!CurrentVersion, Badmark!Target,
  Badmark!Reset
<1>1. Badmark!Main => Main
  BY DEF Badmark!Main, Badmark!Boot, Badmark!ReconcilePending, Badmark!ErasePending,
    Badmark!WifiUp, Badmark!ConfirmImage
<1>2. Badmark!OtaTask => OtaTask
  BY DEF Badmark!OtaTask, Badmark!OpenDownload, Badmark!RecordPending, Badmark!Download,
    Badmark!AbandonUpdate, Badmark!EndUpdate, Badmark!ActivateUpdate,
    Badmark!RestartIntoUpdate, Badmark!TaskVars, Badmark!Done
<1>3. Badmark!MqttTask => MqttTask /\ ~HandleReboot
  BY DEF Badmark!MqttTask, Badmark!HubConnected, Badmark!HubDisconnected,
    Badmark!HandleTwin, Badmark!HandleReboot, Badmark!TriggerOta
<1>4. Badmark!Crash => Crash /\ SparesTask
  BY DEF SparesTask, Badmark!Crash
<1>5. Badmark!ServeTwin => ServeTwin
  BY DEF Badmark!ServeTwin
<1>6. Badmark!ChangeDesired => ChangeDesired
  BY MCAzureAssumption, AzureOtaAssumption DEF IInv, TypeOK, Badmark!ChangeDesired,
    Badmark!Patch
<1> HIDE DEF Main, OtaTask, MqttTask, HandleReboot, Crash, ServeTwin, ChangeDesired
<1> QED
  BY <1>1, <1>2, <1>3, <1>4, <1>5, <1>6, OthersSpareTask DEF Next, Badmark!Next

\* No faults.
LEMMA InstallSteps ==
  ASSUME IInv, Install!Next
  PROVE  Next /\ SparesWindow
<1> USE DEF Install!EspOtaVars, Install!Usable, Install!Unconfirmed, Install!NoEntry,
  Install!AbortTrial, Install!StartTrial, Install!ActiveSlot, Install!AfterReset,
  Install!NextBoot, Install!Bootloader, Install!AbortedAtReset, Install!NextUpdate,
  Install!EntryOf, Install!OnTrial, Install!OtaBegin, Install!OtaEnd, Install!SetBoot,
  Install!SetState, Install!MarkValid, Install!nvs, Install!ota, Install!hub,
  Install!net, Install!history, Install!NoOffer, Install!CurrentVersion, Install!Target,
  Install!Reset
<1>1. Install!Main => Main
  BY DEF Install!Main, Install!Boot, Install!ReconcilePending, Install!ErasePending,
    Install!WifiUp, Install!ConfirmImage
<1>2. Install!OtaTask => OtaTask
  BY DEF Install!OtaTask, Install!OpenDownload, Install!RecordPending, Install!Download,
    Install!AbandonUpdate, Install!EndUpdate, Install!ActivateUpdate,
    Install!RestartIntoUpdate, Install!TaskVars, Install!Done
<1>3. Install!MqttTask => MqttTask
  BY DEF Install!MqttTask, Install!HubConnected, Install!HubDisconnected,
    Install!HandleTwin, Install!HandleReboot, Install!TriggerOta
<1>4. Install!Crash => Crash /\ SparesWindow
  BY DEF SparesWindow, Install!Crash
<1>5. Install!ServeTwin => ServeTwin
  BY DEF Install!ServeTwin
<1>6. Install!ChangeDesired => ChangeDesired
  BY MCAzureAssumption, AzureOtaAssumption DEF IInv, TypeOK, Install!ChangeDesired,
    Install!Patch
<1> HIDE DEF Main, OtaTask, MqttTask, HandleReboot, Crash, ServeTwin, ChangeDesired
<1> QED
  BY <1>1, <1>2, <1>3, <1>4, <1>5, <1>6, OthersSpareWindow DEF Next, Install!Next

\* Resets before Wi-Fi is up.
LEMMA ReportSteps ==
  ASSUME IInv, Report!Next
  PROVE  Next /\ SparesWindow
<1> USE DEF Report!EspOtaVars, Report!Usable, Report!Unconfirmed, Report!NoEntry,
  Report!AbortTrial, Report!StartTrial, Report!ActiveSlot, Report!AfterReset,
  Report!NextBoot, Report!Bootloader, Report!AbortedAtReset, Report!NextUpdate,
  Report!EntryOf, Report!OnTrial, Report!OtaBegin, Report!OtaEnd, Report!SetBoot,
  Report!SetState, Report!MarkValid, Report!nvs, Report!ota, Report!hub, Report!net,
  Report!history, Report!NoOffer, Report!CurrentVersion, Report!Target, Report!Reset
<1>1. Report!Main => Main
  BY DEF Report!Main, Report!Boot, Report!ReconcilePending, Report!ErasePending,
    Report!WifiUp, Report!ConfirmImage
<1>2. Report!OtaTask => OtaTask
  BY DEF Report!OtaTask, Report!OpenDownload, Report!RecordPending, Report!Download,
    Report!AbandonUpdate, Report!EndUpdate, Report!ActivateUpdate,
    Report!RestartIntoUpdate, Report!TaskVars, Report!Done
<1>3. Report!MqttTask => MqttTask
  BY DEF Report!MqttTask, Report!HubConnected, Report!HubDisconnected,
    Report!HandleTwin, Report!HandleReboot, Report!TriggerOta
<1>4. Report!Crash => Crash /\ SparesWindow
  BY DEF SparesWindow, Report!Crash
<1>5. Report!ServeTwin => ServeTwin
  BY DEF Report!ServeTwin
<1>6. Report!ChangeDesired => ChangeDesired
  BY MCAzureAssumption, AzureOtaAssumption DEF IInv, TypeOK, Report!ChangeDesired,
    Report!Patch
<1> HIDE DEF Main, OtaTask, MqttTask, HandleReboot, Crash, ServeTwin, ChangeDesired
<1> QED
  BY <1>1, <1>2, <1>3, <1>4, <1>5, <1>6, OthersSpareWindow DEF Next, Report!Next

HIDE DEF EspOtaVars, Usable, Unconfirmed, NoEntry, AbortTrial, StartTrial, ActiveSlot,
  AfterReset, NextBoot, Bootloader, AbortedAtReset, NextUpdate, EntryOf, OnTrial,
  OtaBegin, OtaEnd, SetBoot, SetState, MarkValid, nvs, ota, hub, net, history, NoOffer,
  CurrentVersion, Target, Reset, Main, Boot, ReconcilePending, ErasePending, WifiUp,
  ConfirmImage, OtaTask, OpenDownload, RecordPending, Download, AbandonUpdate,
  EndUpdate, ActivateUpdate, RestartIntoUpdate, TaskVars, Done, MqttTask, HubConnected,
  HubDisconnected, HandleTwin, HandleReboot, TriggerOta, Crash, ServeTwin,
  ChangeDesired, Patch

WindowParts == {"antiloop", "install", "report"}

\* Every step is one of AzureOta, in the parts about it.
LEMMA OtaSteps ==
  ASSUME IInv, [MCNext]_allVars
  PROVE  /\ [Next]_vars
         /\ part \in WindowParts => SparesWindow
         /\ part = "badmark" => SparesTask
<1>1. CASE OtaNext
  BY <1>1, AntiloopSteps, BadmarkSteps, InstallSteps, ReportSteps DEF OtaNext, WindowParts
<1>2. CASE UNCHANGED vars
  BY <1>2, OthersSpareWindow, OthersSpareTask
<1> QED
  BY <1>1, <1>2 DEF MCNext, allVars

\* The invariants of AzureOta, each in the parts that have what it needs.
KeysInv ==
  /\ IInv
  /\ part \in WindowParts => AntiLoopInv
  /\ part = "badmark" => BadMarkInv

\* The anti-loop keys refuse a version that was rolled back while it is desired
\* (app_main.c:645-648), and only such a version is called known-bad (817-821).
THEOREM KeysHoldThm ==
  ASSUME \A o \in Offers : Labelled(o)
  PROVE  MCSpec => KeysHold
<1>1. MCInit => KeysInv
  BY InitEstablishes, InitRemembers, InitMarks DEF MCInit, KeysInv
<1>2. KeysInv /\ [MCNext]_allVars => KeysInv'
  <2> SUFFICES ASSUME KeysInv, [MCNext]_allVars PROVE KeysInv'
    OBVIOUS
  <2>1. IInv /\ [Next]_vars /\ part' = part
    BY OtaSteps DEF KeysInv, MCNext, allVars
  <2>2. IInv'
    BY <2>1, NextKeeps
  <2>3. part \in WindowParts => AntiLoopInv'
    BY <2>1, OtaSteps, NextRemembers DEF KeysInv
  <2>4. part = "badmark" => BadMarkInv'
    BY <2>1, OtaSteps, NextMarks DEF KeysInv
  <2> QED
    BY <2>1, <2>2, <2>3, <2>4 DEF KeysInv
<1>3. KeysInv /\ [MCNext]_allVars
        => [ /\ part \in {"antiloop", "install", "report"} => StartsNoRetry
             /\ part = "badmark" => MarksRolledBack ]_vars
  BY OtaSteps, NextStartsNoRetry, NextMarksRolledBack DEF KeysInv, WindowParts
<1> QED
  BY <1>1, <1>2, <1>3, PTL DEF MCSpec, KeysHold

-----------------------------------------------------------------------------
(* The types of all parts. *)

\* The waiting loop has a turn left when it starts a poll.
RegisterTypeInv ==
  /\ Register!TypeOK
  /\ dpsPc = "delay" => ticks < MaxTicks

\* A device that never registered.
LEMMA RegisterTypesStart == Register!Init => RegisterTypeInv
<1> SUFFICES ASSUME Register!Init PROVE RegisterTypeInv
  OBVIOUS
<1> USE DEF Register!Init
<1>1. {synced, dpsConnected, done, success, poll} \subseteq BOOLEAN
  OBVIOUS
<1>2. answers \in Seq(Register!Answer)
  OBVIOUS
<1>3. /\ {assigned, used} \subseteq (Hub \cup {None}) \X (DeviceId \cup {None})
      /\ ticks \in 0..MaxTicks /\ dpsPc = "off"
  BY MCAzureAssumption DEF Register!AzureDpsAssumption
<1>4. /\ nvsHub \in Hub \cup {None} /\ nvsId \in DeviceId \cup {None}
      /\ key \in {"good", "wrong", "undecodable"}
      /\ reqs \subseteq {"register", "status"} /\ given \subseteq Register!Assignment
  OBVIOUS
<1> QED
  BY <1>1, <1>2, <1>3, <1>4 DEF RegisterTypeInv, Register!TypeOK, Register!PC

\* app_main: everything but the answers, which it leaves alone or drops.
LEMMA RegisterTypesKept ==
  ASSUME RegisterTypeInv, Register!Next \/ UNCHANGED dpsVars
  PROVE  RegisterTypeInv'
<1> USE DEF Register!nvs, Register!flags, Register!net
<1>1. /\ answers \in Seq(Register!Answer) /\ ticks \in 0..MaxTicks /\ MaxTicks \in Nat
      /\ {assigned, used} \subseteq (Hub \cup {None}) \X (DeviceId \cup {None})
      /\ nvsHub \in Hub \cup {None} /\ nvsId \in DeviceId \cup {None}
      /\ given \subseteq Register!Assignment /\ reqs \subseteq {"register", "status"}
      /\ key \in {"good", "wrong", "undecodable"} /\ dpsPc \in Register!PC
      /\ dpsPc = "delay" => ticks < MaxTicks
  BY MCAzureAssumption DEF RegisterTypeInv, Register!TypeOK, Register!AzureDpsAssumption
<1>2. synced \in BOOLEAN /\ dpsConnected \in BOOLEAN /\ done \in BOOLEAN
      /\ success \in BOOLEAN /\ poll \in BOOLEAN
  BY DEF RegisterTypeInv, Register!TypeOK
<1>3. CASE Register!Main
  <2>1. /\ UNCHANGED <<key, done, success, assigned, given>>
        /\ answers' \in {answers, <<>>} /\ reqs' \in {reqs, {}, reqs \cup {"status"}}
        /\ (poll' = poll \/ poll' = FALSE) /\ (dpsConnected' = dpsConnected \/ dpsConnected' = FALSE)
        /\ (synced' = synced \/ synced' = TRUE \/ synced' = FALSE)
    BY <1>3 DEF Register!Main, Register!Boot, Register!SyncTime, Register!Lookup,
       Register!Tick, Register!StartPoll, Register!SendPoll, Register!LeaveLoop,
       Register!Close, Register!SaveHub, Register!SaveDeviceId
  <2>2. /\ nvsHub' \in {nvsHub, assigned[1]} /\ nvsId' \in {nvsId, assigned[2]}
        /\ used' \in {used, assigned, <<nvsHub, nvsId>>}
    BY <1>3 DEF Register!Main, Register!Boot, Register!SyncTime, Register!Lookup,
       Register!Tick, Register!StartPoll, Register!SendPoll, Register!LeaveLoop,
       Register!Close, Register!SaveHub, Register!SaveDeviceId
  <2>3. /\ ticks' \in 0..MaxTicks /\ dpsPc' \in Register!PC
        /\ dpsPc' = "delay" => ticks' < MaxTicks
    <3>1. \/ ticks' = ticks /\ dpsPc' \in Register!PC \ {"delay"}
          \/ ticks' = ticks /\ ticks < MaxTicks /\ dpsPc' = "delay"
          \/ ticks' = ticks + 1 /\ ticks < MaxTicks /\ dpsPc' = "register"
      BY <1>1, <1>3 DEF Register!Main, Register!Boot, Register!SyncTime, Register!Lookup,
         Register!Tick, Register!StartPoll, Register!SendPoll, Register!LeaveLoop,
         Register!Close, Register!SaveHub, Register!SaveDeviceId, Register!PC
    <3>2. "register" \in Register!PC \ {"delay"} /\ "delay" \in Register!PC
      BY DEF Register!PC
    <3> QED
      BY <1>1, <3>1, <3>2
  <2>4. answers' \in Seq(Register!Answer)
    <3>1. <<>> \in Seq(Register!Answer)
      OBVIOUS
    <3> QED
      BY <1>1, <2>1, <3>1
  <2>5. /\ nvsHub' \in Hub \cup {None} /\ nvsId' \in DeviceId \cup {None}
        /\ {assigned', used'} \subseteq (Hub \cup {None}) \X (DeviceId \cup {None})
    BY <1>1, <2>1, <2>2
  <2>6. {synced', dpsConnected', done', success', poll'} \subseteq BOOLEAN
    BY <1>2, <2>1, Zenon
  <2> QED
    BY <1>1, <2>1, <2>3, <2>4, <2>5, <2>6 DEF RegisterTypeInv, Register!TypeOK
<1>4. CASE Register!Crash \/ Register!DpsConnected \/ Register!DpsDisconnected
           \/ UNCHANGED dpsVars
  <2>1. /\ UNCHANGED <<nvsHub, nvsId, key, given>>
        /\ answers' \in {answers, <<>>} /\ reqs' \in {reqs, {}, reqs \cup {"register"}}
        /\ dpsPc' \in {dpsPc, "off"} /\ ticks' \in {ticks, 0}
        /\ assigned' \in {assigned, <<None, None>>} /\ used' \in {used, <<None, None>>}
        /\ ticks' = ticks \/ dpsPc' = "off"
    BY <1>4 DEF Register!Crash, Register!DpsConnected, Register!DpsDisconnected, dpsVars
  <2>2. /\ synced' = synced \/ synced' = FALSE
        /\ dpsConnected' = dpsConnected \/ dpsConnected' = FALSE \/ dpsConnected' = TRUE
        /\ done' = done \/ done' = FALSE
        /\ success' = success \/ success' = FALSE
        /\ poll' = poll \/ poll' = FALSE
    BY <1>4 DEF Register!Crash, Register!DpsConnected, Register!DpsDisconnected, dpsVars
  <2>3. answers' \in Seq(Register!Answer)
    <3>1. <<>> \in Seq(Register!Answer)
      OBVIOUS
    <3> QED
      BY <1>1, <2>1, <3>1
  <2>4. {assigned', used'} \subseteq (Hub \cup {None}) \X (DeviceId \cup {None})
    BY <1>1, <2>1
  <2>5. {synced', dpsConnected', done', success', poll'} \subseteq BOOLEAN
    BY <1>2, <2>2, Zenon
  <2>6. dpsPc' \in Register!PC /\ ticks' \in 0..MaxTicks /\ (dpsPc' = "delay" => ticks' < MaxTicks)
    BY <1>1, <2>1 DEF Register!PC
  <2> QED
    BY <1>1, <2>1, <2>3, <2>4, <2>5, <2>6 DEF RegisterTypeInv, Register!TypeOK
<1>5. CASE Register!HandleAnswer
  <2>1. /\ answers # <<>> /\ answers' = Tail(answers)
        /\ UNCHANGED <<nvsHub, nvsId, key, synced, dpsPc, ticks, used, dpsConnected, reqs, given>>
    BY <1>5 DEF Register!HandleAnswer
  <2>2. Head(answers) \in Register!Answer /\ answers' \in Seq(Register!Answer)
    BY <1>1, <2>1
  <2>3. /\ assigned' = assigned \/ (Head(answers).kind = "assigned" /\ assigned' = Head(answers).to)
        /\ done' = done \/ done' = TRUE
        /\ success' = success \/ success' = TRUE
        /\ poll' = poll \/ poll' = TRUE
    BY <1>5 DEF Register!HandleAnswer
  <2>4. assigned' \in (Hub \cup {None}) \X (DeviceId \cup {None})
    BY <1>1, <2>2, <2>3 DEF Register!Answer, Register!Assignment
  <2>5. {synced', dpsConnected', done', success', poll'} \subseteq BOOLEAN
    BY <1>2, <2>1, <2>3, Zenon
  <2> QED
    BY <1>1, <2>1, <2>2, <2>4, <2>5 DEF RegisterTypeInv, Register!TypeOK
<1>6. CASE Register!ServiceAnswers
  <2>1. PICK a \in Register!Answer :
          /\ answers' = Append(answers, a) /\ reqs' \subseteq reqs
          /\ given' = IF a.kind = "assigned" THEN given \cup {a.to} ELSE given
    BY <1>6 DEF Register!ServiceAnswers
  <2>2. UNCHANGED <<nvsHub, nvsId, key, synced, dpsPc, done, success, poll, assigned, ticks,
                    used, dpsConnected>>
    BY <1>6 DEF Register!ServiceAnswers
  <2>3. answers' \in Seq(Register!Answer)
    BY <1>1, <2>1
  <2>4. given' \subseteq Register!Assignment /\ reqs' \subseteq {"register", "status"}
    BY <1>1, <2>1 DEF Register!Answer
  <2> QED
    BY <1>1, <1>2, <2>2, <2>3, <2>4 DEF RegisterTypeInv, Register!TypeOK
<1> QED
  BY <1>3, <1>4, <1>5, <1>6 DEF Register!Next

\* AzureHub: the telemetry task, the handlers and the hub.
LEMMA OperateTypesKept ==
  ASSUME Operate!TypeOK, Operate!Next \/ UNCHANGED hubVars
  PROVE  Operate!TypeOK'
<1> USE DEF Operate!mqtt, Operate!task
<1>1. /\ MaxInt \in Nat /\ Intervals \subseteq 0..MaxInt /\ MinInterval \in 1..MaxInt
      /\ DefaultInterval \in MinInterval..MaxInt
  BY MCAzureAssumption DEF Operate!AzureHubAssumption
<1>2. /\ hubConnected \in BOOLEAN /\ force \in BOOLEAN /\ forced \in BOOLEAN
      /\ rebooting \in BOOLEAN /\ unserved \in BOOLEAN
  BY DEF Operate!TypeOK
<1>3. /\ interval' \in MinInterval..MaxInt /\ reported' \in 0..MaxInt
      /\ waited' \in (-MaxInt - 1)..MaxInt
      /\ tpc' \in {"read", "test", "clear", "publish", "delay"}
  <2>1. CASE Operate!Telemetry \/ UNCHANGED hubVars
    BY <1>1, <2>1 DEF Operate!TypeOK, Operate!Telemetry, Operate!ReadFlag, Operate!TestDue,
       Operate!ClearFlag, Operate!PublishTelemetry, Operate!Delay, hubVars
  <2>2. CASE Operate!HubConnected \/ Operate!HubDisconnected \/ Operate!SetInterval
    BY <1>1, <2>2 DEF Operate!TypeOK, Operate!HubConnected, Operate!HubDisconnected,
       Operate!SetInterval, Operate!ReportTwin
  <2>3. CASE Operate!C2dMessage \/ Operate!HandleMethod \/ Operate!Restart \/ Operate!InvokeMethod
    BY <1>1, <2>3 DEF Operate!TypeOK, Operate!C2dMessage, Operate!HandleMethod,
       Operate!Restart, Operate!InvokeMethod
  <2> QED
    BY <2>1, <2>2, <2>3 DEF Operate!Next
<1>4. calls' \subseteq Operate!Method /\ replies' \subseteq {200, 404}
  <2>1. CASE UNCHANGED <<calls, replies>>
    BY <2>1 DEF Operate!TypeOK
  <2>2. CASE Operate!HubDisconnected \/ Operate!Restart
    <3>1. calls' = {} /\ replies' \in {replies, {}}
      BY <2>2 DEF Operate!HubDisconnected, Operate!Restart
    <3> QED
      BY <3>1 DEF Operate!TypeOK
  <2>3. CASE Operate!InvokeMethod
    BY <2>3 DEF Operate!TypeOK, Operate!InvokeMethod
  <2>4. CASE Operate!HandleMethod
    <3>1. PICK c \in calls : /\ calls' = calls \ {c}
                             /\ replies' \in {replies, replies \cup {200}, replies \cup {404}}
      BY <2>4 DEF Operate!HandleMethod
    <3> QED
      BY <3>1 DEF Operate!TypeOK
  <2> QED
    BY <2>1, <2>2, <2>3, <2>4 DEF Operate!Next, Operate!Telemetry, Operate!ReadFlag, Operate!TestDue,
       Operate!ClearFlag, Operate!PublishTelemetry, Operate!Delay, Operate!HubConnected,
       Operate!SetInterval, Operate!C2dMessage, hubVars
<1>5. /\ hubConnected' = hubConnected \/ hubConnected' = FALSE \/ hubConnected' = TRUE
      /\ force' = force \/ force' = FALSE \/ force' = TRUE
      /\ forced' = forced \/ forced' = force \/ forced' = FALSE
      /\ unserved' = unserved \/ unserved' = FALSE \/ unserved' = TRUE
  BY DEF Operate!Next, Operate!Telemetry, Operate!ReadFlag, Operate!TestDue,
     Operate!ClearFlag, Operate!PublishTelemetry, Operate!Delay, Operate!HubConnected,
     Operate!HubDisconnected, Operate!SetInterval, Operate!C2dMessage,
     Operate!HandleMethod, Operate!Restart, Operate!InvokeMethod, hubVars
<1>6. rebooting' \in BOOLEAN
  <2>1. CASE Operate!HandleMethod
    <3>1. PICK c \in calls : rebooting' = (c.rid /\ c.name = "reboot")
      BY <2>1 DEF Operate!HandleMethod
    <3> QED
      BY <3>1, Zenon
  <2>2. CASE rebooting' = rebooting \/ rebooting' = FALSE
    BY <1>2, <2>2, Zenon
  <2> QED
    BY <2>1, <2>2 DEF Operate!Next, Operate!Telemetry, Operate!ReadFlag, Operate!TestDue,
       Operate!ClearFlag, Operate!PublishTelemetry, Operate!Delay, Operate!HubConnected,
       Operate!HubDisconnected, Operate!SetInterval, Operate!C2dMessage, Operate!Restart,
       Operate!InvokeMethod, hubVars
<1>7. {hubConnected', force', forced', rebooting', unserved'} \subseteq BOOLEAN
  BY <1>2, <1>5, <1>6, Zenon
<1> QED
  BY <1>3, <1>4, <1>7 DEF Operate!TypeOK

\* A device that was just started.
LEMMA OperateTypesStart == Operate!Init => Operate!TypeOK
<1> SUFFICES ASSUME Operate!Init PROVE Operate!TypeOK
  OBVIOUS
<1>1. {hubConnected, force, forced, rebooting, unserved} \subseteq BOOLEAN
  BY DEF Operate!Init
<1> QED
  BY <1>1, MCAzureAssumption DEF Operate!Init, Operate!TypeOK, Operate!AzureHubAssumption

\* Every part's variables keep their types, with all the faults of every part.
THEOREM PartsTypeOKThm == MCSpec => []PartsTypeOK
<1> DEFINE Inv == IInv /\ RegisterTypeInv /\ Operate!TypeOK /\ EncodeInv
<1>1. MCInit => Inv
  BY InitEstablishes, RegisterTypesStart, OperateTypesStart, EncodeStarts DEF MCInit
<1>2. Inv /\ [MCNext]_allVars => Inv'
  BY OtaSteps, NextKeeps, RegisterTypesKept, OperateTypesKept, OnePartMoves, EncodeKeeps
<1>3. Inv => PartsTypeOK
  BY DEF IInv, RegisterTypeInv, EncodeInv, PartsTypeOK
<1> QED
  BY <1>1, <1>2, <1>3, PTL DEF MCSpec
==============================================================================
