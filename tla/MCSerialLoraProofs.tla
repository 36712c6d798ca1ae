------------------------- MODULE MCSerialLoraProofs -------------------------
(***************************************************************************)
(* TLAPS proofs about the two LoRa drivers on a serial line.               *)
(*                                                                         *)
(* Rylr, for any number of threads, any queue and any faults: one          *)
(* operation at a time has the semaphore although three parties give it    *)
(* back, packets that were not overwritten are delivered in order, and the *)
(* end of a command is judged by its own answer while all came in time.    *)
(*                                                                         *)
(* Rn2483, for any number of sends: a configuration that succeeds was      *)
(* accepted in full even if answers come late, cut or not at all, and a    *)
(* transmission that succeeds is the driver's own if the module is in      *)
(* time.  Lines pass from the module to the receiver to the driver, so the *)
(* invariants speak of the receiver and what is due as one wire.           *)
(***************************************************************************)
EXTENDS MCSerialLora, TLAPS

-----------------------------------------------------------------------------
(* Rylr: the invariant. *)

\* The driver has been initialised and nobody has called it.
LEMMA InitEstablishes == Init => RylrInv
<1> SUFFICES ASSUME Init PROVE RylrInv
  OBVIOUS
<1> USE DEF Init
<1>1. TypeOK
  <2>1. rx_msgq \in Seq(0..MaxPackets) /\ Len(rx_msgq) <= QueueSize /\ radio \in Seq(Commands)
    BY RylrAssumption
  <2>2. {tx_pending, rx_pending, is_tx, handler_error, late} \subseteq BOOLEAN
    OBVIOUS
  <2> QED
    BY <2>1, <2>2, RylrAssumption DEF TypeOK, Calls, Commands
<1>2. CallInv /\ OneOperation
  BY RylrAssumption DEF CallInv, OneOperation
<1>3. AnswerInv /\ OrderInv /\ DeliveredInOrder
  BY DEF AnswerInv, OrderInv, DeliveredInOrder
<1> QED
  BY <1>1, <1>2, <1>3 DEF RylrInv

-----------------------------------------------------------------------------
(* The callers. *)

\* The packets are not touched by what is not about packets.
LEMMA PacketsKept ==
  ASSUME RylrInv, UNCHANGED packets
  PROVE  OrderInv' /\ DeliveredInOrder'
BY DEF RylrInv, OrderInv, DeliveredInOrder, packets

\* While nobody has the semaphore no call is under way, no script runs and the
\* radio owes no answer that is not late.
LEMMA FreeIsQuiet ==
  ASSUME RylrInv, operation_sem = 1
  PROVE  /\ \A t \in Threads : op[t] \notin {"config", "send", "recv"}
         /\ \A t \in Threads : at[t] \in {"idle", "wait"}
         /\ ~tx_pending /\ ~rx_pending
         /\ script = "none" /\ (~late => radio = <<>>)
<1>1. /\ \A t \in Threads : op[t] \notin {"config", "send", "recv"}
      /\ ~tx_pending /\ ~rx_pending
  BY DEF RylrInv, TypeOK, OneOperation
<1>2. \A t \in Threads : at[t] \in {"idle", "wait"}
  BY <1>1 DEF RylrInv, TypeOK, CallInv
<1>3. script = "none"
  BY <1>1, <1>2 DEF RylrInv, TypeOK, CallInv
<1> QED
  BY <1>1, <1>2, <1>3 DEF RylrInv, AnswerInv

\* A call that holds the semaphore keeps every other one out.
LEMMA HolderIsAlone ==
  ASSUME RylrInv, NEW t \in Threads, op[t] \in {"config", "send", "recv"}
  PROVE  /\ operation_sem = 0 /\ ~tx_pending /\ ~rx_pending
         /\ \A u \in Threads \ {t} : op[u] \in {"none", "cancel"} /\ at[u] \in {"idle", "wait"}
         /\ script \in {"none", t}
<1>1. /\ operation_sem = 0 /\ ~tx_pending /\ ~rx_pending
      /\ \A u \in Threads \ {t} : op[u] \in {"none", "cancel"}
  BY DEF RylrInv, TypeOK, OneOperation, Calls
<1>2. \A u \in Threads \ {t} : at[u] \in {"idle", "wait"}
  BY <1>1 DEF RylrInv, TypeOK, CallInv
<1>3. script \in {"none", t}
  BY <1>1, <1>2 DEF RylrInv, TypeOK, CallInv
<1> QED
  BY <1>1, <1>2, <1>3

\* A blocking call takes the semaphore and runs its first script.
LEMMA CallKeeps ==
  ASSUME RylrInv, NEW t \in Threads, Config(t) \/ Send(t)
  PROVE  RylrInv'
<1> DEFINE o == IF Config(t) THEN "config" ELSE "send"
           c == IF Config(t) THEN 1 ELSE 4
<1>1. /\ operation_sem = 1 /\ operation_sem' = 0
      /\ at[t] = "idle" /\ op' = [op EXCEPT ![t] = o] /\ at' = [at EXCEPT ![t] = "script"]
      /\ script' = t /\ ended' = "none" /\ radio' = Append(radio, c)
      /\ cmd' = [cmd EXCEPT ![t] = c] /\ late' = late /\ applied' = {}
      /\ UNCHANGED <<script_sem, flags, handler_error, signal, packets>>
  BY DEF Config, Send, Calling, Goes, Take, Runs
<1>2. /\ \A u \in Threads : op[u] \notin {"config", "send", "recv"}
      /\ \A u \in Threads : at[u] \in {"idle", "wait"}
      /\ ~tx_pending /\ ~rx_pending /\ script = "none" /\ (~late => radio = <<>>)
  BY <1>1, FreeIsQuiet
<1>3. /\ op \in [Threads -> Calls \cup {"none"}] /\ cmd \in [Threads -> Commands]
      /\ at \in [Threads -> {"idle", "script", "wait", "copy", "done"}]
      /\ o \in Calls /\ c \in Commands /\ radio \in Seq(Commands)
  BY DEF RylrInv, TypeOK, Calls, Commands
<1> HIDE DEF o, c
<1>4. TypeOK'
  BY <1>1, <1>3 DEF RylrInv, TypeOK, flags, packets
<1>5. CallInv'
  BY <1>1, <1>2, <1>3, RylrAssumption DEF RylrInv, CallInv, flags, o, c
<1>6. OneOperation'
  BY <1>1, <1>2, <1>3 DEF OneOperation, flags, o
<1>7. AnswerInv'
  BY <1>1, <1>2, <1>3, RylrAssumption DEF RylrInv, AnswerInv, CallInv, o, c
<1> QED
  BY <1>1, <1>4, <1>5, <1>6, <1>7, PacketsKept DEF RylrInv

\* An asynchronous transmission takes it too and returns; without a script the
\* operation stays pending.
LEMMA SendAsyncKeeps ==
  ASSUME RylrInv, NEW t \in Threads, SendAsync(t)
  PROVE  RylrInv'
<1>1. /\ operation_sem = 1 /\ operation_sem' = 0
      /\ tx_pending' = TRUE /\ signal' = "none" /\ applied' = {}
      /\ \/ script' = "async" /\ radio' = Append(radio, 4)
         \/ UNCHANGED <<script, radio>>
      /\ UNCHANGED <<script_sem, rx_pending, is_tx, handler_error, calls, ended, late, packets>>
  BY DEF SendAsync, Take
<1>2. /\ \A u \in Threads : op[u] \notin {"config", "send", "recv"}
      /\ \A u \in Threads : at[u] \in {"idle", "wait"}
      /\ ~tx_pending /\ ~rx_pending /\ script = "none" /\ (~late => radio = <<>>)
  BY <1>1, FreeIsQuiet
<1>3. TypeOK'
  <2>1. radio' \in Seq(Commands)
    <3>1. radio \in Seq(Commands)
      BY DEF RylrInv, TypeOK
    <3>2. 4 \in Commands
      BY DEF Commands
    <3> QED
      BY <1>1, <3>1, <3>2
  <2>2. {tx_pending, rx_pending, is_tx, handler_error, late}' \subseteq BOOLEAN
    <3>1. tx_pending' = TRUE
      BY <1>1
    <3>2. tx_pending' \in BOOLEAN
      BY <3>1, Zenon
    <3> QED
      BY <1>1, <3>2 DEF RylrInv, TypeOK
  <2> QED
    BY <1>1, <2>1, <2>2 DEF RylrInv, TypeOK, calls, packets
<1>4. CallInv'
  BY <1>1, <1>2, RylrAssumption DEF RylrInv, CallInv, calls
<1>5. OneOperation'
  BY <1>1, <1>2 DEF OneOperation, calls
<1>6. AnswerInv'
  BY <1>1, <1>2 DEF AnswerInv, calls
<1> QED
  BY <1>1, <1>3, <1>4, <1>5, <1>6, PacketsKept DEF RylrInv

\* A reception takes it: one that waits, or one that returns with it taken.
LEMMA RecvKeeps ==
  ASSUME RylrInv, NEW t \in Threads, Recv(t) \/ RecvAsync(t)
  PROVE  RylrInv'
<1>1. /\ operation_sem = 1 /\ operation_sem' = 0
      /\ UNCHANGED <<script_sem, tx_pending, is_tx, handler_error, signal, cmd, chat, packets, applied>>
  BY DEF Recv, RecvAsync, Take, flags, calls
<1>2. /\ \A u \in Threads : op[u] \notin {"config", "send", "recv"}
      /\ \A u \in Threads : at[u] \in {"idle", "wait"}
      /\ ~tx_pending /\ ~rx_pending /\ script = "none"
  BY <1>1, FreeIsQuiet
<1>3. /\ op \in [Threads -> Calls \cup {"none"}]
      /\ at \in [Threads -> {"idle", "script", "wait", "copy", "done"}]
  BY DEF RylrInv, TypeOK
<1>4. \/ /\ at[t] = "idle" /\ op' = [op EXCEPT ![t] = "recv"] /\ at' = [at EXCEPT ![t] = "wait"]
         /\ rx_pending' = rx_pending
      \/ UNCHANGED <<op, at>> /\ rx_pending' = TRUE
  BY DEF Recv, RecvAsync, Calling, Goes, flags, calls
<1>5. TypeOK'
  <2>1. rx_pending' \in BOOLEAN
    <3>1. rx_pending \in BOOLEAN
      BY DEF RylrInv, TypeOK
    <3>2. rx_pending' = rx_pending \/ rx_pending' = TRUE
      BY <1>4
    <3> QED
      BY <3>1, <3>2, Zenon
  <2>2. op' \in [Threads -> Calls \cup {"none"}] /\ at' \in [Threads -> {"idle", "script", "wait", "copy", "done"}]
    BY <1>3, <1>4 DEF Calls
  <2> QED
    BY <1>1, <2>1, <2>2 DEF RylrInv, TypeOK, chat, packets
<1>6. CallInv'
  BY <1>1, <1>2, <1>3, <1>4 DEF RylrInv, CallInv, chat
<1>7. OneOperation'
  BY <1>1, <1>2, <1>3, <1>4 DEF OneOperation
<1>8. AnswerInv'
  BY <1>1, <1>2, <1>3, <1>4 DEF RylrInv, AnswerInv, chat
<1> QED
  BY <1>1, <1>5, <1>6, <1>7, <1>8, PacketsKept DEF RylrInv

\* A cancellation does not take the semaphore, and clears the flag only where
\* nobody has it, that is, where the flag is clear.
LEMMA CancelKeeps ==
  ASSUME RylrInv, NEW t \in Threads, CallCancel(t) \/ Cancel(t)
  PROVE  RylrInv'
<1>1. /\ UNCHANGED <<sems, tx_pending, is_tx, handler_error, signal, cmd, chat, packets, applied>>
      /\ rx_pending' = rx_pending
  <2>1. CASE CallCancel(t)
    BY <2>1 DEF CallCancel, flags
  <2>2. CASE Cancel(t)
    <3>1. operation_sem = 1 => rx_pending = FALSE
      <4>1. rx_pending \in BOOLEAN
        BY DEF RylrInv, TypeOK
      <4>2. operation_sem = 1 => ~rx_pending
        BY FreeIsQuiet
      <4> QED
        BY <4>1, <4>2, Zenon
    <3> QED
      BY <2>2, <3>1 DEF Cancel
  <2> QED
    BY <2>1, <2>2
<1>2. /\ op \in [Threads -> Calls \cup {"none"}]
      /\ at \in [Threads -> {"idle", "script", "wait", "copy", "done"}]
  BY DEF RylrInv, TypeOK
<1>3. \/ /\ at[t] = "idle" /\ op[t] = "none"
         /\ op' = [op EXCEPT ![t] = "cancel"] /\ at' = [at EXCEPT ![t] = "wait"]
      \/ /\ op[t] = "cancel" /\ at[t] = "wait"
         /\ op' = [op EXCEPT ![t] = "none"] /\ at' = [at EXCEPT ![t] = "idle"]
  BY <1>2 DEF CallCancel, Cancel, Calling, Goes, Returns, RylrInv, CallInv
<1>4. TypeOK'
  BY <1>1, <1>2, <1>3 DEF RylrInv, TypeOK, Calls, sems, chat, packets
<1>5. CallInv'
  BY <1>1, <1>2, <1>3 DEF RylrInv, CallInv, chat
<1>6. OneOperation'
  BY <1>1, <1>2, <1>3 DEF RylrInv, OneOperation, sems
<1>7. AnswerInv'
  BY <1>1, <1>2, <1>3 DEF RylrInv, AnswerInv, chat
<1> QED
  BY <1>1, <1>4, <1>5, <1>6, <1>7, PacketsKept DEF RylrInv

\* A call that returns gives back the semaphore it has.
LEMMA ReturnKeeps ==
  ASSUME RylrInv, NEW t \in Threads, op[t] \in {"config", "send", "recv"},
         script # t, operation_sem' = 1, Returns(t),
         \A u \in Threads \ {t} : cmd'[u] = cmd[u],
         TypeOK', UNCHANGED <<tx_pending, rx_pending, script, ended, radio, late, applied>>
  PROVE  CallInv' /\ OneOperation' /\ AnswerInv'
<1>1. /\ ~tx_pending /\ ~rx_pending /\ script = "none"
      /\ \A u \in Threads \ {t} : op[u] \in {"none", "cancel"}
  BY HolderIsAlone
<1>2. /\ op \in [Threads -> Calls \cup {"none"}]
      /\ at \in [Threads -> {"idle", "script", "wait", "copy", "done"}]
      /\ op' = [op EXCEPT ![t] = "none"] /\ at' = [at EXCEPT ![t] = "idle"]
  BY DEF RylrInv, TypeOK, Returns, Goes
<1>3. CallInv'
  BY <1>1, <1>2, RylrAssumption DEF RylrInv, CallInv
<1>4. OneOperation'
  BY <1>1, <1>2 DEF OneOperation
<1>5. AnswerInv'
  BY <1>1, <1>2 DEF RylrInv, AnswerInv
<1> QED
  BY <1>3, <1>4, <1>5

\* The next command of a configuration, or the end of the call.
LEMMA CommandEndsKeeps ==
  ASSUME RylrInv, NEW t \in Threads, CommandEnds(t)
  PROVE  RylrInv'
<1>1. /\ at[t] = "done" /\ op[t] \in {"config", "send"}
      /\ UNCHANGED <<tx_pending, rx_pending, handler_error, signal, packets, applied>>
      /\ script_sem' \in 0..1
  BY DEF CommandEnds, RylrInv, TypeOK, CallInv
<1>2. /\ ~tx_pending /\ ~rx_pending /\ operation_sem = 0 /\ script = "none"
      /\ \A u \in Threads \ {t} : op[u] \in {"none", "cancel"} /\ at[u] \in {"idle", "wait"}
  BY <1>1, HolderIsAlone DEF RylrInv, CallInv
<1>3. /\ op \in [Threads -> Calls \cup {"none"}] /\ cmd \in [Threads -> Commands]
      /\ at \in [Threads -> {"idle", "script", "wait", "copy", "done"}] /\ radio \in Seq(Commands)
  BY DEF RylrInv, TypeOK
<1>4. CASE Success /\ op[t] = "config" /\ cmd[t] < 3
  <2> DEFINE c == cmd[t] + 1
  <2>1. /\ script' = t /\ ended' = "none" /\ radio' = Append(radio, c)
        /\ cmd' = [cmd EXCEPT ![t] = c] /\ late' = late
        /\ at' = [at EXCEPT ![t] = "script"] /\ UNCHANGED <<op, is_tx, operation_sem>>
    BY <1>4 DEF CommandEnds, Runs, Goes
  <2>2. c \in 2..3 /\ cmd[t] \in 1..2 /\ ended = "ok"
    BY <1>3, <1>4 DEF RylrInv, CallInv, Success
  <2>3. TypeOK'
    BY <1>1, <1>3, <2>1, <2>2 DEF RylrInv, TypeOK, Commands, packets
  <2>4. CallInv'
    BY <1>1, <1>2, <1>3, <1>4, <2>1, <2>2, RylrAssumption DEF RylrInv, CallInv
  <2>5. OneOperation'
    BY <1>1, <2>1 DEF RylrInv, OneOperation
  <2>6. AnswerInv'
    <3> SUFFICES ASSUME ~late
                 PROVE  AnswerInv'
      BY <2>1 DEF AnswerInv
    <3>1. radio = <<>> /\ applied = 1..cmd[t]
      BY <1>1, <1>2, <1>4, <2>2 DEF RylrInv, AnswerInv
    <3>2. radio' = <<c>> /\ applied' = 1..(c - 1)
      BY <1>1, <2>1, <2>2, <3>1
    <3> QED
      BY <1>1, <1>2, <1>3, <2>1, <2>2, <3>2, RylrAssumption DEF AnswerInv
  <2> QED
    BY <1>1, <2>3, <2>4, <2>5, <2>6, PacketsKept DEF RylrInv
<1>5. CASE ~(Success /\ op[t] = "config" /\ cmd[t] < 3)
  <2>1. operation_sem' = 1 /\ Returns(t) /\ cmd' = [cmd EXCEPT ![t] = 1] /\ UNCHANGED chat
    BY <1>5 DEF CommandEnds
  <2>2. is_tx' \in BOOLEAN
    <3>1. is_tx \in BOOLEAN
      BY DEF RylrInv, TypeOK
    <3> QED
      BY <1>5, <3>1, Zenon DEF CommandEnds
  <2>3. TypeOK'
    BY <1>1, <1>3, <2>1, <2>2 DEF RylrInv, TypeOK, Returns, Goes, chat, packets, Commands
  <2> QED
    BY <1>1, <1>2, <1>3, <2>1, <2>3, ReturnKeeps, PacketsKept, RylrAssumption DEF RylrInv, chat
<1> QED
  BY <1>4, <1>5

\* What the invariant says of the queue.
LEMMA QueueHas ==
  ASSUME RylrInv
  PROVE  /\ rx_msgq \in Seq(0..MaxPackets) /\ Len(rx_msgq) \in 0..QueueSize
         /\ MaxPackets \in Nat /\ QueueSize \in Nat
         /\ taken \in 0..seen /\ seen \in 0..MaxPackets /\ given \in 0..seen
         /\ taken # 0 => taken > given
         /\ DOMAIN rx_msgq = 1..Len(rx_msgq)
         /\ \A i \in 1..Len(rx_msgq) :
              /\ rx_msgq[i] \in 0..MaxPackets /\ rx_msgq[i] <= seen
              /\ rx_msgq[i] # 0 => /\ rx_msgq[i] > given /\ rx_msgq[i] > taken
                                   /\ \A j \in 1..(i - 1) : rx_msgq[j] < rx_msgq[i]
<1>1. /\ rx_msgq \in Seq(0..MaxPackets) /\ Len(rx_msgq) <= QueueSize
      /\ {taken, seen, given} \subseteq 0..MaxPackets
      /\ MaxPackets \in Nat /\ QueueSize \in Nat
  BY RylrAssumption DEF RylrInv, TypeOK
<1>2. /\ DOMAIN rx_msgq = 1..Len(rx_msgq) /\ Len(rx_msgq) \in Nat
      /\ \A i \in 1..Len(rx_msgq) : rx_msgq[i] \in 0..MaxPackets
  BY <1>1
<1> QED
  BY <1>1, <1>2 DEF RylrInv, OrderInv, DeliveredInOrder

\* The call of a thread that only goes from one place to another within lora_recv.
LEMMA MovesKeeps ==
  ASSUME RylrInv, NEW t \in Threads, op[t] = "recv", at[t] = "wait", Goes(t, "copy"),
         UNCHANGED <<operation_sem, flags, op, cmd, script, ended, radio, late, applied>>
  PROVE  CallInv' /\ OneOperation' /\ AnswerInv'
<1>1. at \in [Threads -> {"idle", "script", "wait", "copy", "done"}]
  BY DEF RylrInv, TypeOK
<1>2. at' = [at EXCEPT ![t] = "copy"]
  BY DEF Goes
<1>3. CallInv'
  BY <1>1, <1>2 DEF RylrInv, CallInv, flags
<1>4. OneOperation'
  BY DEF RylrInv, OneOperation, flags
<1>5. AnswerInv'
  BY <1>1, <1>2 DEF RylrInv, AnswerInv
<1> QED
  BY <1>3, <1>4, <1>5

\* A reception takes the oldest message; what is left came later.
LEMMA TakesKeeps ==
  ASSUME RylrInv, NEW t \in Threads, RecvMessage(t)
  PROVE  RylrInv'
<1>1. /\ op[t] = "recv" /\ at[t] = "wait" /\ Goes(t, "copy")
      /\ rx_msgq # <<>> /\ rx_msgq' = Tail(rx_msgq) /\ taken' = rx_msgq[1]
      /\ UNCHANGED <<sems, flags, handler_error, signal, op, cmd, chat, seen, given, applied>>
  BY QueueHas DEF RecvMessage
<1>2. /\ Len(rx_msgq) \in Nat \ {0} /\ Len(rx_msgq') = Len(rx_msgq) - 1
      /\ DOMAIN rx_msgq' = 1..Len(rx_msgq')
      /\ \A i \in DOMAIN rx_msgq' : rx_msgq'[i] = rx_msgq[i + 1]
      /\ rx_msgq' \in Seq(0..MaxPackets)
  BY <1>1, QueueHas
<1>3. TypeOK'
  <2>1. /\ at' \in [Threads -> {"idle", "script", "wait", "copy", "done"}]
        /\ taken' \in 0..MaxPackets /\ Len(rx_msgq') <= QueueSize
    BY <1>1, <1>2, QueueHas DEF RylrInv, TypeOK, Goes
  <2> QED
    BY <1>1, <1>2, <2>1 DEF RylrInv, TypeOK, sems, flags, chat
<1>4. CallInv' /\ OneOperation' /\ AnswerInv'
  BY <1>1, MovesKeeps DEF sems, chat
<1>5. ASSUME NEW i \in DOMAIN rx_msgq'
      PROVE  /\ rx_msgq'[i] <= seen
             /\ rx_msgq'[i] # 0 => /\ rx_msgq'[i] > given /\ rx_msgq'[i] > taken'
                                   /\ \A j \in 1..(i - 1) : rx_msgq'[j] < rx_msgq'[i]
  <2>1. i + 1 \in 1..Len(rx_msgq) /\ rx_msgq'[i] = rx_msgq[i + 1] /\ 1 \in 1..((i + 1) - 1)
    BY <1>2
  <2>2. ASSUME rx_msgq'[i] # 0, NEW j \in 1..(i - 1)
        PROVE  rx_msgq'[j] < rx_msgq'[i]
    <3>1. j \in DOMAIN rx_msgq' /\ j + 1 \in 1..((i + 1) - 1)
      BY <1>2
    <3> QED
      BY <1>2, <2>1, <2>2, <3>1, QueueHas
  <2> QED
    BY <1>1, <2>1, <2>2, QueueHas
<1>6. taken' <= seen /\ (taken' # 0 => taken' > given) /\ given <= seen
  BY <1>1, <1>2, QueueHas
<1> QED
  BY <1>1, <1>3, <1>4, <1>5, <1>6 DEF RylrInv, OrderInv, DeliveredInOrder

\* It returns what it took, or nothing.
LEMMA CopiesKeeps ==
  ASSUME RylrInv, NEW t \in Threads, RecvCopies(t)
  PROVE  RylrInv'
<1>1. /\ op[t] = "recv" /\ at[t] = "copy" /\ operation_sem' = 1 /\ Returns(t)
      /\ given' = given \/ (taken # 0 /\ given' = taken)
      /\ taken' = 0
      /\ UNCHANGED <<script_sem, flags, handler_error, signal, cmd, chat, rx_msgq, seen, applied>>
  BY DEF RecvCopies, RylrInv, CallInv
<1>2. TypeOK'
  <2>1. /\ op' \in [Threads -> Calls \cup {"none"}]
        /\ at' \in [Threads -> {"idle", "script", "wait", "copy", "done"}]
    BY <1>1 DEF RylrInv, TypeOK, Returns, Goes
  <2>2. {taken, seen, given}' \subseteq 0..MaxPackets
    BY <1>1, QueueHas
  <2> QED
    BY <1>1, <2>1, <2>2 DEF RylrInv, TypeOK, flags, chat
<1>3. CallInv' /\ OneOperation' /\ AnswerInv'
  <2>1. script # t
    BY <1>1 DEF RylrInv, CallInv
  <2> QED
    BY <1>1, <1>2, <2>1, ReturnKeeps DEF flags, chat
<1>4. OrderInv' /\ DeliveredInOrder'
  <2>1. /\ given' <= seen /\ taken' = 0 /\ rx_msgq' = rx_msgq /\ seen' = seen
        /\ given' \in {given, taken} /\ 0 <= seen
    BY <1>1, QueueHas
  <2>2. OrderInv'
    BY <2>1, QueueHas DEF OrderInv
  <2>3. ASSUME NEW i \in 1..Len(rx_msgq), rx_msgq[i] # 0
        PROVE  rx_msgq[i] > given' /\ rx_msgq[i] > 0
    BY <2>1, <2>3, QueueHas
  <2>4. DeliveredInOrder'
    BY <2>1, <2>3, QueueHas DEF DeliveredInOrder
  <2> QED
    BY <2>2, <2>4
<1> QED
  BY <1>2, <1>3, <1>4 DEF RylrInv

\* A reception whose time is over takes nothing.
LEMMA ExpiresKeeps ==
  ASSUME RylrInv, NEW t \in Threads, RecvExpires(t)
  PROVE  RylrInv'
<1>1. /\ op[t] = "recv" /\ at[t] = "wait" /\ operation_sem' = 1 /\ Returns(t)
      /\ UNCHANGED <<script_sem, flags, handler_error, signal, cmd, chat, packets, applied>>
  BY DEF RecvExpires
<1>2. TypeOK'
  <2>1. /\ op' \in [Threads -> Calls \cup {"none"}]
        /\ at' \in [Threads -> {"idle", "script", "wait", "copy", "done"}]
    BY <1>1 DEF RylrInv, TypeOK, Returns, Goes
  <2> QED
    BY <1>1, <2>1 DEF RylrInv, TypeOK, flags, chat, packets
<1>3. script # t
  BY <1>1 DEF RylrInv, CallInv
<1> QED
  BY <1>1, <1>2, <1>3, ReturnKeeps, PacketsKept DEF RylrInv, flags, chat

-----------------------------------------------------------------------------
(* The chat library and the radio. *)

\* The end of a script gives the semaphore back if an asynchronous transmission
\* has it, and lets its thread go on otherwise.
LEMMA FinishedEffect ==
  ASSUME RylrInv, NEW verdict \in {"ok", "error"}, Finished(verdict),
         UNCHANGED <<rx_pending, is_tx, op, cmd>>
  PROVE  /\ CallInv' /\ OneOperation'
         /\ tx_pending' = FALSE /\ operation_sem' \in 0..1 /\ script_sem' \in 0..1
         /\ at' \in [Threads -> {"idle", "script", "wait", "copy", "done"}]
         /\ signal' \in {"none", "ok", "error"}
         /\ script' = "none" /\ ended' = verdict
         /\ signal' = "ok" /\ signal # "ok" => script = "async" /\ ~handler_error'
         /\ \A u \in Threads : at'[u] = "done" /\ at[u] # "done" => script = u
         /\ \A u \in Threads : at[u] # "done" /\ at'[u] # "script"
<1>1. /\ op \in [Threads -> Calls \cup {"none"}]
      /\ at \in [Threads -> {"idle", "script", "wait", "copy", "done"}]
      /\ operation_sem \in 0..1 /\ tx_pending \in BOOLEAN
      /\ signal \in {"none", "ok", "error"}
      /\ script \in Threads \cup {"none", "async"} /\ script # "none"
      /\ script' = "none" /\ ended' = verdict /\ script_sem' = 1
      /\ at' = [u \in Threads |-> IF script = u THEN "done" ELSE at[u]]
  BY DEF RylrInv, TypeOK, Finished
<1>2. CASE script = "async"
  <2>1. /\ tx_pending /\ tx_pending' = FALSE /\ operation_sem' = 1
        /\ signal' = IF handler_error' THEN "error" ELSE "ok"
    BY <1>2 DEF RylrInv, CallInv, Finished
  <2>2. /\ ~rx_pending /\ \A u \in Threads : op[u] \in {"none", "cancel"}
    BY <1>1, <2>1 DEF RylrInv, OneOperation, Calls
  <2>3. at' = at /\ \A u \in Threads : at[u] \in {"idle", "wait"}
    BY <1>1, <1>2, <2>2, RylrAssumption DEF RylrInv, CallInv
  <2>4. CallInv'
    BY <1>1, <2>1, <2>2, <2>3, RylrAssumption DEF RylrInv, CallInv
  <2>5. OneOperation'
    BY <2>1, <2>2 DEF OneOperation
  <2> QED
    BY <1>1, <1>2, <2>1, <2>3, <2>4, <2>5, RylrAssumption
<1>3. CASE script # "async"
  <2>1. PICK t \in Threads : script = t
    BY <1>1, <1>3
  <2>2. at[t] = "script" /\ op[t] \in {"config", "send"}
    BY <2>1 DEF RylrInv, CallInv
  <2>3. /\ operation_sem = 0 /\ ~tx_pending /\ ~rx_pending
        /\ \A u \in Threads \ {t} : op[u] \in {"none", "cancel"} /\ at[u] \in {"idle", "wait"}
    BY <2>2, HolderIsAlone
  <2>4. tx_pending' = FALSE /\ UNCHANGED <<signal, operation_sem>>
    <3>1. tx_pending = FALSE
      BY <1>1, <2>3, Zenon
    <3> QED
      BY <2>3, <3>1 DEF Finished
  <2>5. CallInv'
    BY <1>1, <2>1, <2>2, <2>3, RylrAssumption DEF RylrInv, CallInv
  <2>6. OneOperation'
    BY <2>3, <2>4 DEF RylrInv, OneOperation
  <2> QED
    BY <1>1, <2>1, <2>2, <2>3, <2>4, <2>5, <2>6, RylrAssumption
<1> QED
  BY <1>2, <1>3

\* The radio has a command in hand, and its answer is taken for the script that
\* runs: while all came in time, that is the one the command is of.
LEMMA AnswerKeeps ==
  ASSUME RylrInv, Answer
  PROVE  RylrInv'
<1>1. /\ radio # <<>> /\ radio' = Tail(radio) /\ Head(radio) \in Commands
      /\ radio \in Seq(Commands) /\ radio' \in Seq(Commands)
      /\ UNCHANGED <<rx_pending, is_tx, op, cmd, late, packets>>
  BY DEF Answer, RylrInv, TypeOK
<1>2. PICK ok \in BOOLEAN :
        /\ applied' = IF ok THEN applied \cup {Head(radio)} ELSE applied
        /\ IF script = "none"
           THEN UNCHANGED <<handler_error, tx_pending, signal, sems, script, ended, at>>
           ELSE /\ handler_error' = ~ok
                /\ Finished(IF ok THEN "ok" ELSE "error")
  BY DEF Answer
<1>3. applied' \subseteq Commands
  BY <1>1, <1>2 DEF RylrInv, TypeOK
<1>4. CASE script = "none"
  <2>1. UNCHANGED <<handler_error, tx_pending, signal, sems, script, ended, at>>
    BY <1>2, <1>4
  <2>2. late
    BY <1>1, <1>4 DEF RylrInv, AnswerInv
  <2>3. TypeOK'
    BY <1>1, <1>3, <2>1 DEF RylrInv, TypeOK, sems, packets
  <2>4. CallInv'
    BY <1>1, <2>1 DEF RylrInv, CallInv
  <2>5. OneOperation'
    BY <1>1, <2>1 DEF RylrInv, OneOperation, sems
  <2>6. AnswerInv'
    BY <1>1, <2>2 DEF AnswerInv
  <2> QED
    BY <1>1, <2>3, <2>4, <2>5, <2>6, PacketsKept DEF RylrInv
<1>5. CASE script # "none"
  <2> DEFINE verdict == IF ok THEN "ok" ELSE "error"
  <2>1. /\ CallInv' /\ OneOperation'
        /\ tx_pending' = FALSE /\ operation_sem' \in 0..1 /\ script_sem' \in 0..1
        /\ at' \in [Threads -> {"idle", "script", "wait", "copy", "done"}]
        /\ signal' \in {"none", "ok", "error"}
        /\ script' = "none" /\ ended' = verdict
        /\ \A u \in Threads : at'[u] = "done" /\ at[u] # "done" => script = u
        /\ \A u \in Threads : at[u] # "done" /\ at'[u] # "script"
    BY <1>1, <1>2, <1>5, FinishedEffect
  <2>2. handler_error' \in BOOLEAN /\ tx_pending' \in BOOLEAN
    <3>1. handler_error' = ~ok
      BY <1>2, <1>5
    <3> QED
      BY <2>1, <3>1, Zenon
  <2>3. TypeOK'
    BY <1>1, <1>3, <2>1, <2>2 DEF RylrInv, TypeOK, packets
  <2>4. AnswerInv'
    <3> SUFFICES ASSUME ~late
                 PROVE  AnswerInv'
      BY <1>1 DEF AnswerInv
    <3>1. radio' = <<>>
      <4>1. PICK c \in Commands : radio = <<c>>
        BY <1>1, <1>5 DEF RylrInv, TypeOK, AnswerInv, CallInv, Commands
      <4> QED
        BY <1>1, <4>1
    <3>2. ASSUME NEW t \in Threads, op'[t] = "config", at'[t] = "done", ended' = "ok"
          PROVE  applied' = 1..cmd'[t]
      <4>1. script = t /\ op[t] = "config" /\ cmd' = cmd /\ ok
        BY <1>1, <2>1, <3>2
      <4>2. at[t] = "script" /\ cmd[t] \in 1..3
        BY <4>1 DEF RylrInv, CallInv
      <4>3. Head(radio) = cmd[t] /\ applied = 1..(cmd[t] - 1)
        BY <1>1, <4>1, <4>2 DEF RylrInv, AnswerInv
      <4>4. applied' = applied \cup {cmd[t]}
        BY <1>2, <4>1, <4>3
      <4> QED
        BY <4>1, <4>2, <4>3, <4>4
    <3> QED
      BY <2>1, <3>1, <3>2 DEF AnswerInv
  <2> QED
    BY <1>1, <2>1, <2>3, <2>4, PacketsKept DEF RylrInv
<1> QED
  BY <1>4, <1>5

\* The library gives up on an answer: from now on one may be late.
LEMMA TimesOutKeeps ==
  ASSUME RylrInv, TimesOut
  PROVE  RylrInv'
<1>1. /\ UNCHANGED <<handler_error, rx_pending, is_tx, op, cmd, radio, packets, applied>>
      /\ Finished("error") /\ late' = TRUE
  BY DEF TimesOut
<1>2. /\ CallInv' /\ OneOperation'
      /\ tx_pending' = FALSE /\ operation_sem' \in 0..1 /\ script_sem' \in 0..1
      /\ at' \in [Threads -> {"idle", "script", "wait", "copy", "done"}]
      /\ signal' \in {"none", "ok", "error"}
      /\ script' = "none" /\ ended' = "error"
  BY <1>1, FinishedEffect
<1>3. late' \in BOOLEAN /\ tx_pending' \in BOOLEAN
  BY <1>1, <1>2, Zenon
<1>4. TypeOK'
  BY <1>1, <1>2, <1>3 DEF RylrInv, TypeOK, packets
<1>5. AnswerInv'
  BY <1>1 DEF AnswerInv
<1> QED
  BY <1>1, <1>2, <1>4, <1>5, PacketsKept DEF RylrInv

\* What a packet does to the queue it is put into.
LEMMA Queued ==
  ASSUME NEW S, NEW q \in Seq(S), NEW x \in S
  PROVE  /\ DOMAIN Append(q, x) = 1..(Len(q) + 1) /\ DOMAIN q = 1..Len(q)
         /\ Append(q, x)[Len(q) + 1] = x
         /\ \A j \in 1..Len(q) : Append(q, x)[j] = q[j]
OBVIOUS

\* A packet is the newest of all: a receiver that waits has nothing before it,
LEMMA HandOverKeeps ==
  ASSUME RylrInv, OnRx, HandOver
  PROVE  RylrInv'
<1>1. PICK t \in Threads :
        /\ op[t] = "recv" /\ at[t] = "wait" /\ rx_msgq = <<>>
        /\ taken' = seen' /\ handler_error' = FALSE /\ Goes(t, "copy")
        /\ UNCHANGED <<rx_msgq, radio, applied>>
  BY DEF HandOver
<1>2. /\ seen < MaxPackets /\ seen' = seen + 1
      /\ UNCHANGED <<sems, flags, signal, op, cmd, script, ended, late, given>>
  BY DEF OnRx
<1>3. TypeOK'
  <2>1. at' \in [Threads -> {"idle", "script", "wait", "copy", "done"}]
    BY <1>1 DEF RylrInv, TypeOK, Goes
  <2>2. {taken, seen, given}' \subseteq 0..MaxPackets
    BY <1>1, <1>2, QueueHas
  <2>3. {tx_pending, rx_pending, is_tx, handler_error, late}' \subseteq BOOLEAN
    <3>1. handler_error' \in BOOLEAN
      BY <1>1, Zenon
    <3> QED
      BY <1>2, <3>1 DEF RylrInv, TypeOK, flags
  <2> QED
    BY <1>1, <1>2, <2>1, <2>2, <2>3 DEF RylrInv, TypeOK, sems, flags
<1>4. CallInv' /\ OneOperation' /\ AnswerInv'
  BY <1>1, <1>2, MovesKeeps DEF sems
<1>5. OrderInv' /\ DeliveredInOrder'
  <2>1. DOMAIN rx_msgq' = {}
    BY <1>1
  <2>2. given' <= seen' /\ taken' <= seen' /\ taken' > given'
    BY <1>1, <1>2, QueueHas
  <2> QED
    BY <2>1, <2>2 DEF OrderInv, DeliveredInOrder
<1> QED
  BY <1>3, <1>4, <1>5 DEF RylrInv

\* it is put behind all others, even where it overwrites an answer, or dropped.
LEMMA EnqueueKeeps ==
  ASSUME RylrInv, OnRx, Enqueue \/ NotQueued
  PROVE  RylrInv'
<1>1. /\ seen < MaxPackets /\ seen' = seen + 1
      /\ UNCHANGED <<sems, flags, signal, calls, script, ended, late, given, taken>>
      /\ \/ rx_msgq' = rx_msgq
         \/ rx_msgq' = Append(rx_msgq, seen') /\ Len(rx_msgq) < QueueSize
      /\ \/ UNCHANGED <<radio, applied>>
         \/ /\ radio # <<>> /\ radio' = Tail(radio)
            /\ applied' \in {applied, applied \cup {Head(radio)}}
  BY DEF OnRx, Enqueue, NotQueued, Overwrites, calls
<1>2. handler_error' \in BOOLEAN
  BY Zenon DEF Enqueue, NotQueued
<1>3. seen' \in 1..MaxPackets
  BY <1>1, QueueHas
<1>4. rx_msgq' \in Seq(0..MaxPackets) /\ Len(rx_msgq') <= QueueSize
  <2>1. CASE rx_msgq' = rx_msgq
    BY <2>1, QueueHas
  <2>2. CASE rx_msgq' = Append(rx_msgq, seen') /\ Len(rx_msgq) < QueueSize
    <3>1. /\ Append(rx_msgq, seen') \in Seq(0..MaxPackets)
          /\ Len(Append(rx_msgq, seen')) = Len(rx_msgq) + 1
      BY <1>3, QueueHas
    <3> QED
      BY <2>2, <3>1, QueueHas
  <2> QED
    BY <1>1, <2>1, <2>2
<1>5. radio' \in Seq(Commands) /\ applied' \subseteq Commands
  <2>1. radio \in Seq(Commands) /\ applied \subseteq Commands
    BY DEF RylrInv, TypeOK
  <2>2. radio # <<>> => Head(radio) \in Commands /\ Tail(radio) \in Seq(Commands)
    BY <2>1
  <2> QED
    BY <1>1, <2>1, <2>2
<1>6. TypeOK'
  <2>1. {taken, seen, given}' \subseteq 0..MaxPackets
    BY <1>1, <1>3, QueueHas
  <2> QED
    BY <1>1, <1>2, <1>4, <1>5, <2>1 DEF RylrInv, TypeOK, sems, flags, calls
<1>7. CallInv' /\ OneOperation' /\ AnswerInv'
  <2>1. CallInv'
    BY <1>1 DEF RylrInv, CallInv, flags, calls
  <2>2. OneOperation'
    BY <1>1 DEF RylrInv, OneOperation, sems, flags, calls
  <2>3. AnswerInv'
    <3> SUFFICES ASSUME ~late
                 PROVE  AnswerInv'
      BY <1>1 DEF AnswerInv
    <3>1. CASE UNCHANGED <<radio, applied>>
      BY <1>1, <3>1 DEF RylrInv, AnswerInv, calls
    <3>2. CASE radio # <<>> /\ radio' = Tail(radio)
      <4>1. /\ script # "none" /\ \A t \in Threads : at[t] = "script" <=> script = t
            /\ script \in Threads \cup {"none", "async"}
            /\ \A t \in Threads : op[t] = "config" /\ at[t] = "done" => script = "none"
        <5>1. script # "none"
          BY <3>2 DEF RylrInv, AnswerInv
        <5>2. ASSUME NEW t \in Threads, op[t] = "config", at[t] = "done"
              PROVE  script = "none"
          BY <5>2, HolderIsAlone DEF RylrInv, CallInv
        <5> QED
          BY <5>1, <5>2 DEF RylrInv, CallInv, TypeOK
      <4>2. PICK c : radio = <<c>>
        BY <3>2, <4>1 DEF RylrInv, AnswerInv
      <4>3. radio' = <<>>
        BY <3>2, <4>2
      <4> QED
        BY <1>1, <4>1, <4>3 DEF AnswerInv, calls
    <3> QED
      BY <1>1, <3>1, <3>2
  <2> QED
    BY <2>1, <2>2, <2>3
<1>8. OrderInv' /\ DeliveredInOrder'
  <2>1. /\ DOMAIN rx_msgq' \subseteq 1..(Len(rx_msgq) + 1)
        /\ \A j \in 1..Len(rx_msgq) : rx_msgq'[j] = rx_msgq[j]
        /\ Len(rx_msgq) + 1 \in DOMAIN rx_msgq' => rx_msgq'[Len(rx_msgq) + 1] = seen'
    <3>1. CASE rx_msgq' = rx_msgq
      BY <3>1, QueueHas
    <3>2. CASE rx_msgq' = Append(rx_msgq, seen')
      BY <1>3, <3>2, QueueHas, Queued
    <3> QED
      BY <1>1, <3>1, <3>2
  <2>2. ASSUME NEW i \in DOMAIN rx_msgq'
        PROVE  /\ rx_msgq'[i] <= seen'
               /\ rx_msgq'[i] # 0 => /\ rx_msgq'[i] > given /\ rx_msgq'[i] > taken
                                     /\ \A j \in 1..(i - 1) : rx_msgq'[j] < rx_msgq'[i]
    <3>1. CASE i \in 1..Len(rx_msgq)
      <4>1. i \in Nat /\ \A j \in 1..i : rx_msgq'[j] = rx_msgq[j]
        BY <2>1, <3>1, QueueHas
      <4>2. ASSUME rx_msgq'[i] # 0, NEW j \in 1..(i - 1)
            PROVE  rx_msgq'[j] < rx_msgq'[i]
        <5>1. rx_msgq'[j] = rx_msgq[j] /\ rx_msgq'[i] = rx_msgq[i]
          BY <4>1
        <5> QED
          BY <3>1, <4>2, <5>1, QueueHas
      <4> QED
        BY <1>1, <3>1, <4>1, <4>2, QueueHas
    <3>2. CASE i \notin 1..Len(rx_msgq)
      <4>1. i = Len(rx_msgq) + 1 /\ rx_msgq'[i] = seen'
        BY <2>1, <3>2, QueueHas
      <4>2. ASSUME NEW j \in 1..(i - 1)
            PROVE  rx_msgq'[j] < rx_msgq'[i]
        <5>1. j \in 1..Len(rx_msgq)
          BY <4>1, QueueHas
        <5> QED
          BY <1>1, <2>1, <4>1, <5>1, QueueHas, SMTT(30)
      <4> QED
        BY <1>1, <4>1, <4>2, QueueHas
    <3> QED
      BY <3>1, <3>2
  <2> QED
    BY <1>1, <2>2, QueueHas DEF OrderInv, DeliveredInOrder
<1> QED
  BY <1>6, <1>7, <1>8 DEF RylrInv

\* Whatever a line does, the invariant is kept.
LEMMA OnRxKeeps ==
  ASSUME RylrInv, OnRx
  PROVE  RylrInv'
<1>1. HandOver \/ Enqueue \/ NotQueued
  BY DEF OnRx
<1> QED
  BY <1>1, HandOverKeeps, EnqueueKeeps

\* A message that is overwritten does not come out of turn.
LEMMA BytesComeKeeps ==
  ASSUME RylrInv, BytesCome
  PROVE  RylrInv'
<1>1. PICK i \in DOMAIN rx_msgq : rx_msgq' = [rx_msgq EXCEPT ![i] = 0]
  BY DEF BytesCome
<1>2. UNCHANGED <<sems, flags, handler_error, signal, calls, chat, taken, seen, given, applied>>
  BY DEF BytesCome
<1>3. /\ rx_msgq' \in Seq(0..MaxPackets) /\ Len(rx_msgq') = Len(rx_msgq)
      /\ DOMAIN rx_msgq' = 1..Len(rx_msgq)
      /\ \A j \in 1..Len(rx_msgq) : rx_msgq'[j] = IF j = i THEN 0 ELSE rx_msgq[j]
  <2>1. 0 \in 0..MaxPackets
    BY QueueHas
  <2> QED
    BY <1>1, <2>1, QueueHas
<1>4. TypeOK'
  BY <1>2, <1>3, QueueHas DEF RylrInv, TypeOK, sems, flags, calls, chat
<1>5. CallInv' /\ OneOperation' /\ AnswerInv'
  <2>1. CallInv'
    BY <1>2 DEF RylrInv, CallInv, flags, calls, chat
  <2>2. OneOperation'
    BY <1>2 DEF RylrInv, OneOperation, sems, flags, calls
  <2>3. AnswerInv'
    BY <1>2 DEF RylrInv, AnswerInv, calls, chat
  <2> QED
    BY <2>1, <2>2, <2>3
<1>6. ASSUME NEW k \in 1..Len(rx_msgq)
      PROVE  /\ rx_msgq'[k] <= seen
             /\ rx_msgq'[k] # 0 => /\ rx_msgq'[k] > given /\ rx_msgq'[k] > taken
                                   /\ \A j \in 1..(k - 1) : rx_msgq'[j] < rx_msgq'[k]
  <2>1. CASE rx_msgq'[k] = 0
    BY <2>1, QueueHas
  <2>2. CASE rx_msgq'[k] # 0
    <3>1. rx_msgq'[k] = rx_msgq[k]
      BY <1>3, <2>2
    <3>2. ASSUME NEW j \in 1..(k - 1)
          PROVE  rx_msgq'[j] < rx_msgq'[k]
      <4>1. j \in 1..Len(rx_msgq) /\ rx_msgq'[j] \in {0, rx_msgq[j]}
        BY <1>3, QueueHas, SMTT(30)
      <4>2. rx_msgq[k] > 0 /\ rx_msgq[j] < rx_msgq[k]
        BY <2>2, <3>1, QueueHas
      <4> QED
        BY <3>1, <4>1, <4>2
    <3> QED
      BY <2>2, <3>1, <3>2, QueueHas
  <2> QED
    BY <2>1, <2>2
<1>7. OrderInv' /\ DeliveredInOrder'
  <2>1. UNCHANGED <<taken, seen, given>>
    BY <1>2
  <2>2. given <= seen /\ taken <= seen /\ (taken # 0 => taken > given)
    BY QueueHas
  <2>3. OrderInv'
    BY <1>3, <1>6, <2>1, <2>2 DEF OrderInv
  <2>4. DeliveredInOrder'
    BY <1>3, <1>6, <2>1, <2>2 DEF DeliveredInOrder
  <2> QED
    BY <2>3, <2>4
<1> QED
  BY <1>4, <1>5, <1>7 DEF RylrInv

-----------------------------------------------------------------------------
(* Rylr: the theorems. *)

\* The invariant is inductive.
LEMMA NextKeeps == ASSUME RylrInv, [Next]_vars PROVE RylrInv'
<1>1. CASE \E t \in Threads : Begin(t)
  BY <1>1, CallKeeps, SendAsyncKeeps, RecvKeeps, CancelKeeps DEF Begin
<1>2. CASE \E t \in Threads : Continue(t)
  BY <1>2, CommandEndsKeeps, TakesKeeps, CopiesKeeps, ExpiresKeeps, CancelKeeps DEF Continue
<1>3. CASE Answer \/ TimesOut \/ OnRx \/ BytesCome
  BY <1>3, AnswerKeeps, TimesOutKeeps, OnRxKeeps, BytesComeKeeps
<1>4. CASE UNCHANGED vars
  <2> USE <1>4 DEF vars, sems, flags, calls, chat, packets
  <2>1. TypeOK'
    BY DEF RylrInv, TypeOK
  <2>2. CallInv'
    BY DEF RylrInv, CallInv
  <2>3. OneOperation'
    BY DEF RylrInv, OneOperation
  <2>4. AnswerInv'
    BY DEF RylrInv, AnswerInv
  <2> QED
    BY <2>1, <2>2, <2>3, <2>4, PacketsKept DEF RylrInv
<1> QED
  BY <1>1, <1>2, <1>3, <1>4 DEF Next

\* The invariant holds in every behaviour.
THEOREM Invariance == Spec => []RylrInv
<1>1. RylrInv /\ [Next]_vars => RylrInv'
  BY NextKeeps
<1> QED
  BY <1>1, InitEstablishes, PTL DEF Spec

\* Every variable keeps its type.
THEOREM TypeCorrect == Spec => []TypeOK
<1>1. RylrInv => TypeOK
  BY DEF RylrInv
<1> QED
  BY <1>1, Invariance, PTL

\* One operation at a time has the semaphore, whoever gives it back (363, 406,
\* 460, 514, 551 and 191), and packets that were not overwritten in the queue are
\* returned in the order they came, each once.
THEOREM SharedHoldsThm == Spec => []SharedHolds
<1>1. RylrInv => SharedHolds
  BY DEF RylrInv, SharedHolds
<1> QED
  BY <1>1, Invariance, PTL

\* The mode changes only at the end of a configuration whose three commands the
\* radio has accepted, if every answer came in time.
LEMMA ChangeIsApplied == ASSUME RylrInv, [Next]_vars PROVE ChangesApplied
<1> SUFFICES ASSUME is_tx' # is_tx, ~late PROVE applied = 1..3
  BY DEF ChangesApplied
<1>1. PICK t \in Threads : CommandEnds(t)
  BY DEF Next, Begin, Continue, Config, Send, SendAsync, Recv, RecvAsync, CallCancel,
     RecvMessage, RecvCopies, RecvExpires, Cancel, Answer, TimesOut, OnRx, BytesCome, vars, flags
<1>2. at[t] = "done" /\ ended = "ok" /\ op[t] = "config" /\ ~(cmd[t] < 3)
  BY <1>1 DEF CommandEnds, Success
<1>3. cmd[t] = 3
  BY <1>2 DEF RylrInv, CallInv
<1> QED
  BY <1>2, <1>3 DEF RylrInv, AnswerInv

\* A transmission is signalled as good when the radio has accepted it, if every
\* answer came in time.
LEMMA SignalIsAnswered == ASSUME RylrInv, [Next]_vars PROVE SignalsAnswered
<1> SUFFICES ASSUME signal' = "ok", signal # "ok", ~late' PROVE 4 \in applied'
  BY DEF SignalsAnswered
<1>1. Answer
  BY DEF Next, Begin, Continue, Config, Send, SendAsync, Recv, RecvAsync, CallCancel,
     CommandEnds, RecvMessage, RecvCopies, RecvExpires, Cancel, TimesOut, OnRx, BytesCome, vars
<1>2. PICK ok \in BOOLEAN :
        /\ applied' = IF ok THEN applied \cup {Head(radio)} ELSE applied
        /\ IF script = "none"
           THEN UNCHANGED <<handler_error, tx_pending, signal, sems, script, ended, at>>
           ELSE /\ handler_error' = ~ok
                /\ Finished(IF ok THEN "ok" ELSE "error")
  BY <1>1 DEF Answer
<1>3. script # "none" /\ ~late /\ UNCHANGED <<rx_pending, is_tx, op, cmd>>
  BY <1>1, <1>2 DEF Answer
<1>4. script = "async" /\ ~handler_error'
  BY <1>2, <1>3, FinishedEffect
<1>5. ok /\ radio = <<4>>
  BY <1>1, <1>2, <1>3, <1>4 DEF RylrInv, AnswerInv, Answer
<1> QED
  BY <1>2, <1>5

\* The end of a command is judged by its own answer, however packets, calls and
\* cancellations fall in between: while every answer came in time, a configuration that
\* succeeds was applied in full (341-360), and a transmission that is signalled
\* as good was accepted by the radio.
THEOREM AnswersAreOwnThm == Spec => AnswersAreOwn
<1>1. RylrInv /\ [Next]_vars => [ChangesApplied /\ SignalsAnswered]_vars
  BY ChangeIsApplied, SignalIsAnswered
<1> QED
  BY <1>1, Invariance, PTL DEF Spec, AnswersAreOwn

-----------------------------------------------------------------------------
(* Rn2483: the module, the wire and the driver. *)

\* How lines pass from the module to the receiver and to the driver.
LEMMA WireMoves ==
  ASSUME NEW S, NEW q \in Seq(S), NEW d \in Seq(S)
  PROVE  /\ q \o d \in Seq(S) /\ <<>> \o d = d /\ q \o <<>> = q
         /\ q \o d = <<>> <=> q = <<>> /\ d = <<>>
         /\ d # <<>> => Append(q, Head(d)) \o Tail(d) = q \o d
         /\ q # <<>> => Tail(q) \o d = Tail(q \o d) /\ Head(q) = (q \o d)[1]
<1>1. /\ q \o d \in Seq(S) /\ <<>> \o d = d /\ q \o <<>> = q
      /\ q \o d = <<>> <=> q = <<>> /\ d = <<>>
  OBVIOUS
<1>2. ASSUME d # <<>> PROVE Append(q, Head(d)) \o Tail(d) = q \o d
  BY <1>2
<1>3. ASSUME q # <<>> PROVE Tail(q) \o d = Tail(q \o d) /\ Head(q) = (q \o d)[1]
  BY <1>3
<1> QED
  BY <1>1, <1>2, <1>3

\* The first line is taken.
LEMMA FirstTaken ==
  ASSUME NEW S, NEW q \in Seq(S), q # <<>>
  PROVE  /\ Head(q) \in S /\ Head(q) = q[1] /\ Tail(q) \in Seq(S)
         /\ Len(q) \in Nat /\ Len(q) >= 1 /\ Len(Tail(q)) = Len(q) - 1
         /\ \A i \in 1..(Len(q) - 1) : Tail(q)[i] = q[i + 1]
OBVIOUS

\* A line is put behind the others.
LEMMA LastPut ==
  ASSUME NEW S, NEW q \in Seq(S), NEW x \in S
  PROVE  /\ Append(q, x) = q \o <<x>> /\ Append(q, x) \in Seq(S)
         /\ Len(q) \in Nat /\ Len(Append(q, x)) = Len(q) + 1
         /\ Append(q, x)[Len(q) + 1] = x
         /\ \A i \in 1..Len(q) : Append(q, x)[i] = q[i]
OBVIOUS

\* The commands and lines of the module.
LEMMA RnTypeKept ==
  ASSUME RnLate!TypeOK, RnLate!Next
  PROVE  RnLate!TypeOK'
<1> USE DEF RnLate!TypeOK
<1>1. /\ MaxSends \in Nat /\ sends \in 0..MaxSends /\ 0 \in 0..MaxSends
      /\ cmds \in Seq(RnLate!Command) /\ due \in Seq(RnLate!Line) /\ rx \in Seq(RnLate!Line)
  BY RnAssumption DEF RnLate!Rn2483Assumption
<1>2. \A l \in RnLate!Line : RnLate!ReadLine(l) => rx' \in Seq(RnLate!Line)
  BY <1>1, FirstTaken DEF RnLate!ReadLine
<1>3. RnLate!ReadTimeout =>
        /\ UNCHANGED <<cmds, rx, programmed>>
        /\ due' \in Seq(RnLate!Line)
  <2>1. ASSUME due # <<>>
        PROVE  /\ [Head(due) EXCEPT !.text = "garbled"] \in RnLate!Line
               /\ Tail(due) \in Seq(RnLate!Line)
    <3>1. Head(due) \in RnLate!Line /\ Tail(due) \in Seq(RnLate!Line)
      BY <2>1, <1>1, FirstTaken
    <3> QED
      BY <3>1 DEF RnLate!Line
  <2>2. ASSUME NEW l \in RnLate!Line, NEW q \in Seq(RnLate!Line)
        PROVE  <<l>> \o q \in Seq(RnLate!Line)
    OBVIOUS
  <2> QED
    BY <1>1, <2>1, <2>2, Zenon DEF RnLate!ReadTimeout
<1>4. ASSUME RnLate!Driver PROVE RnLate!TypeOK'
  <2>1. CASE RnLate!InitModule
    <3>1. <<>> \in Seq(RnLate!Line)
      OBVIOUS
    <3>2. [name |-> "ver", of |-> 0] \in RnLate!Command
      BY <1>1 DEF RnLate!Command
    <3> QED
      BY <2>1, <1>1, <3>1, <3>2, LastPut DEF RnLate!InitModule
  <2>2. CASE RnLate!AwaitVersion
    BY <2>2, <1>1, <1>2, <1>3 DEF RnLate!AwaitVersion
  <2>3. CASE RnLate!WriteSetting
    <3>1. [name |-> RnLate!Settings[step], of |-> 0] \in RnLate!Command
      BY <1>1 DEF RnLate!Command
    <3> QED
      BY <2>3, <1>1, <3>1, LastPut DEF RnLate!WriteSetting, RnLate!Write
  <2>4. CASE RnLate!AwaitSetting
    BY <2>4, <1>1, <1>2, <1>3 DEF RnLate!AwaitSetting
  <2>5. CASE RnLate!WriteTx
    <3>1. sends + 1 \in 0..MaxSends
      BY <2>5, <1>1 DEF RnLate!WriteTx
    <3>2. [name |-> "tx", of |-> sends + 1] \in RnLate!Command
      BY <3>1 DEF RnLate!Command
    <3> QED
      BY <2>5, <1>1, <3>1, <3>2, LastPut DEF RnLate!WriteTx, RnLate!Write
  <2>6. CASE RnLate!AwaitAck
    BY <2>6, <1>1, <1>2, <1>3 DEF RnLate!AwaitAck
  <2>7. CASE RnLate!AwaitTx
    <3>1. \A l \in RnLate!Line : l.of \in 0..MaxSends
      BY DEF RnLate!Line
    <3> QED
      BY <2>7, <1>1, <1>2, <1>3, <3>1 DEF RnLate!AwaitTx
  <2> QED
    BY <1>4, <2>1, <2>2, <2>3, <2>4, <2>5, <2>6, <2>7 DEF RnLate!Driver
<1>5. ASSUME RnLate!Module PROVE RnLate!TypeOK'
  <2>1. cmds # <<>> /\ cmds' = Tail(cmds) /\ cmds' \in Seq(RnLate!Command) /\ Head(cmds) \in RnLate!Command
    BY <1>1, <1>5, FirstTaken DEF RnLate!Module
  <2>2. PICK a \in RnLate!Answers(Head(cmds)) :
          /\ due' = due \o a
          /\ programmed' \in {programmed, programmed \cup {Head(cmds).name}}
          /\ programmed' # programmed => Head(cmds).name \notin {"ver", "tx"}
    BY <1>5 DEF RnLate!Module
  <2>3. a \in Seq(RnLate!Line)
    <3> DEFINE said(t) == [text |-> t, of |-> Head(cmds).of]
    <3>1. \A t \in {"ok", "error", "tx_ok", "tx_err", "version"} : said(t) \in RnLate!Line
      BY <2>1 DEF RnLate!Command, RnLate!Line
    <3>2. \E l, m \in RnLate!Line : a \in {<<>>, <<l>>, <<l, m>>}
      <4> HIDE DEF said
      <4> SUFFICES a \in {<<>>, <<said("version")>>, <<said("ok"), said("tx_ok")>>,
                     <<said("ok"), said("tx_err")>>, <<said("ok")>>, <<said("error")>>}
        BY <3>1
      <4> QED
        BY <2>2 DEF RnLate!Answers, said
    <3>3. \A l, m \in RnLate!Line : {<<>>, <<l>>, <<l, m>>} \subseteq Seq(RnLate!Line)
      OBVIOUS
    <3> QED
      BY <3>2, <3>3
  <2>4. due' \in Seq(RnLate!Line)
    BY <1>1, <2>2, <2>3
  <2>5. programmed' \subseteq {RnLate!Settings[i] : i \in 1..4}
    BY <1>1, <2>1, <2>2 DEF RnLate!Command
  <2> QED
    BY <1>1, <1>5, <2>1, <2>4, <2>5 DEF RnLate!Module, RnLate!driver
<1>6. ASSUME RnLate!Deliver PROVE RnLate!TypeOK'
  <2>1. due' \in Seq(RnLate!Line) /\ rx' \in Seq(RnLate!Line)
    BY <1>1, <1>6, FirstTaken, LastPut DEF RnLate!Deliver
  <2> QED
    BY <1>6, <2>1 DEF RnLate!Deliver, RnLate!driver
<1> QED
  BY <1>4, <1>5, <1>6 DEF RnLate!Next

\* The model "rn2483" is "rn_late" without the late and cut answers.
LEMMA RnInTime == ASSUME Rn!Next PROVE RnLate!Next
<1>1. Rn!ReadTimeout => RnLate!ReadTimeout
  BY DEF Rn!ReadTimeout, RnLate!ReadTimeout
<1>2. \A l : Rn!ReadLine(l) <=> RnLate!ReadLine(l)
  BY DEF Rn!ReadLine, RnLate!ReadLine
<1>3. Rn!Line = RnLate!Line /\ Rn!Settings = RnLate!Settings /\ (Rn!driver' = Rn!driver <=> RnLate!driver' = RnLate!driver)
  BY DEF Rn!Line, RnLate!Line, Rn!Settings, RnLate!Settings, Rn!driver, RnLate!driver
<1>4. \A c : (Rn!Write(c) <=> RnLate!Write(c)) /\ Rn!Answers(c) = RnLate!Answers(c)
  BY DEF Rn!Write, RnLate!Write, Rn!Answers, RnLate!Answers
<1>5. Rn!Driver => RnLate!Driver
  BY <1>1, <1>2, <1>3, <1>4
  DEF Rn!Driver, RnLate!Driver, Rn!InitModule, RnLate!InitModule, Rn!AwaitVersion,
      RnLate!AwaitVersion, Rn!WriteSetting, RnLate!WriteSetting, Rn!AwaitSetting,
      RnLate!AwaitSetting, Rn!WriteTx, RnLate!WriteTx, Rn!AwaitAck, RnLate!AwaitAck,
      Rn!AwaitTx, RnLate!AwaitTx
<1>6. (Rn!Module => RnLate!Module) /\ (Rn!Deliver => RnLate!Deliver)
  BY <1>3, <1>4 DEF Rn!Module, RnLate!Module, Rn!Deliver, RnLate!Deliver
<1> QED
  BY <1>5, <1>6 DEF Rn!Next, RnLate!Next

\* Before the first transmission an "ok" is the last line of all, and of the
\* setting the driver waits for.
LEMMA RnConfigKept ==
  ASSUME RnLate!TypeOK, RnLate!ConfigInv, RnLate!Next
  PROVE  RnLate!ConfigInv'
<1> SUFFICES ASSUME sends' = 0 PROVE RnLate!ConfigInv'
  BY DEF RnLate!ConfigInv
<1>1. /\ cmds \in Seq(RnLate!Command) /\ due \in Seq(RnLate!Line) /\ rx \in Seq(RnLate!Line)
      /\ step \in 1..4 /\ sends \in Nat /\ sends = 0
      /\ programmed \subseteq {RnLate!Settings[i] : i \in 1..4}
  <2>1. sends \in Nat /\ (sends' = sends \/ sends' = sends + 1)
    BY RnAssumption
    DEF RnLate!TypeOK, RnLate!Next, RnLate!Driver, RnLate!InitModule, RnLate!AwaitVersion, RnLate!WriteSetting,
        RnLate!AwaitSetting, RnLate!WriteTx, RnLate!AwaitAck, RnLate!AwaitTx, RnLate!Module,
        RnLate!Deliver, RnLate!driver, RnLate!Rn2483Assumption
  <2> QED
    BY <2>1 DEF RnLate!TypeOK
<1>2. /\ pc = "init" => cmds = <<>> /\ due = <<>>
      /\ pc \in {"init", "version"} => step = 1
      /\ pc \in {"config", "set"} => \A i \in 1..(step - 1) : RnLate!Settings[i] \in programmed
      /\ \A i \in DOMAIN cmds :
           \/ cmds[i].name = "ver"
           \/ pc = "set" /\ i = Len(cmds) /\ cmds[i].name = RnLate!Settings[step]
           \/ pc = "idle"
      /\ \A i \in DOMAIN RnLate!wire : RnLate!wire[i].text = "ok" =>
           \/ pc = "set" /\ i = Len(RnLate!wire) /\ cmds = <<>> /\ RnLate!Settings[step] \in programmed
           \/ pc = "idle"
      /\ pc \notin {"tx", "air"} /\ RnLate!ConfiguredIsTrue
  BY <1>1 DEF RnLate!ConfigInv
<1>3. /\ RnLate!wire \in Seq(RnLate!Line) /\ Len(RnLate!wire) \in Nat
      /\ DOMAIN RnLate!wire = 1..Len(RnLate!wire)
  BY <1>1, WireMoves DEF RnLate!wire
<1>4. ASSUME NEW l \in RnLate!Line, RnLate!ReadLine(l), UNCHANGED due
      PROVE  /\ l = RnLate!wire[1] /\ Len(RnLate!wire) >= 1
             /\ RnLate!wire' \in Seq(RnLate!Line) /\ Len(RnLate!wire') = Len(RnLate!wire) - 1
             /\ \A i \in 1..Len(RnLate!wire') : RnLate!wire'[i] = RnLate!wire[i + 1]
  <2>1. rx # <<>> /\ l = Head(rx) /\ rx' = Tail(rx)
    BY <1>4 DEF RnLate!ReadLine
  <2>2. /\ Tail(rx) \o due = Tail(rx \o due) /\ Head(rx) = (rx \o due)[1]
        /\ rx \o due # <<>>
    <3>1. rx \in Seq(RnLate!Line) /\ due \in Seq(RnLate!Line) /\ rx # <<>>
      BY <1>1, <2>1
    <3> QED
      BY <3>1, WireMoves
  <2>3. RnLate!wire' = Tail(RnLate!wire) /\ l = RnLate!wire[1] /\ RnLate!wire # <<>>
    BY <1>4, <2>1, <2>2 DEF RnLate!wire
  <2> QED
    BY <1>3, <2>3, FirstTaken
<1>5. ASSUME RnLate!ReadTimeout
      PROVE  /\ RnLate!wire' \in Seq(RnLate!Line) /\ Len(RnLate!wire') = Len(RnLate!wire)
             /\ \A i \in 1..Len(RnLate!wire) :
                  RnLate!wire'[i].text = "ok" => RnLate!wire'[i] = RnLate!wire[i]
             /\ UNCHANGED <<cmds, programmed>>
  <2>1. RnLate!wire = due /\ RnLate!wire' = due' /\ UNCHANGED <<cmds, programmed>>
    BY <1>1, <1>5, WireMoves DEF RnLate!ReadTimeout, RnLate!wire
  <2>2. CASE due' = due
    BY <1>3, <2>1, <2>2
  <2>3. CASE due # <<>> /\ due' = <<[Head(due) EXCEPT !.text = "garbled"]>> \o Tail(due)
    <3>1. /\ Tail(due) \in Seq(RnLate!Line) /\ Len(Tail(due)) = Len(due) - 1 /\ Len(due) \in Nat
          /\ \A i \in 1..(Len(due) - 1) : Tail(due)[i] = due[i + 1]
          /\ Head(due) \in RnLate!Line
      BY <1>1, <2>3, FirstTaken
    <3>2. PICK g \in RnLate!Line : g.text = "garbled" /\ due' = <<g>> \o Tail(due)
      BY <2>3, <3>1 DEF RnLate!Line
    <3>3. /\ due' \in Seq(RnLate!Line) /\ Len(due') = Len(due) /\ due'[1] = g
          /\ \A i \in 2..Len(due) : due'[i] = Tail(due)[i - 1]
      BY <3>1, <3>2
    <3>4. \A i \in 2..Len(due) : due'[i] = due[i]
      BY <3>1, <3>3
    <3> QED
      BY <2>1, <3>1, <3>2, <3>3, <3>4
  <2> QED
    BY <1>5, <2>2, <2>3 DEF RnLate!ReadTimeout
<1>6. CASE RnLate!InitModule
  <2>1. cmds' = <<[name |-> "ver", of |-> 0]>> /\ RnLate!wire' = <<>>
    BY <1>2, <1>6 DEF RnLate!InitModule, RnLate!wire
  <2>2. pc' = "version" /\ step' = 1 /\ DOMAIN cmds' = {1} /\ DOMAIN RnLate!wire' = {} /\ cmds'[1].name = "ver"
    BY <1>2, <1>6, <2>1 DEF RnLate!InitModule
  <2> QED
    BY <2>2 DEF RnLate!ConfigInv, RnLate!ConfiguredIsTrue
<1>7. CASE RnLate!AwaitVersion
  <2>1. pc = "version" /\ pc' = "config" /\ UNCHANGED <<step, cmds, programmed>>
    BY <1>5, <1>7 DEF RnLate!AwaitVersion
  <2>2. \A i \in DOMAIN RnLate!wire' : RnLate!wire'[i].text # "ok"
    <3>1. CASE \E l \in RnLate!Line : RnLate!ReadLine(l) /\ UNCHANGED due
      <4>1. /\ DOMAIN RnLate!wire' = 1..Len(RnLate!wire') /\ Len(RnLate!wire') = Len(RnLate!wire) - 1
            /\ \A i \in 1..Len(RnLate!wire') : RnLate!wire'[i] = RnLate!wire[i + 1]
        BY <1>4, <3>1
      <4> QED
        BY <1>2, <1>3, <2>1, <4>1
    <3>2. CASE RnLate!ReadTimeout
      BY <1>2, <1>3, <1>5, <2>1, <3>2
    <3> QED
      BY <1>7, <3>1, <3>2 DEF RnLate!AwaitVersion
  <2>3. \A i \in DOMAIN cmds' : cmds'[i].name = "ver"
    BY <1>2, <2>1
  <2> QED
    BY <1>2, <2>1, <2>2, <2>3 DEF RnLate!ConfigInv, RnLate!ConfiguredIsTrue
<1>8. CASE RnLate!WriteSetting
  <2>1. /\ pc = "config" /\ pc' = "set" /\ UNCHANGED <<step, programmed>> /\ RnLate!wire' = RnLate!wire
        /\ cmds' = Append(cmds, [name |-> RnLate!Settings[step], of |-> 0])
    BY <1>8 DEF RnLate!WriteSetting, RnLate!Write, RnLate!wire
  <2>2. \A i \in DOMAIN cmds' :
           cmds'[i].name = "ver" \/ (i = Len(cmds') /\ cmds'[i].name = RnLate!Settings[step])
    BY <1>1, <1>2, <2>1
  <2> QED
    BY <1>2, <2>1, <2>2 DEF RnLate!ConfigInv, RnLate!ConfiguredIsTrue
<1>9. CASE RnLate!AwaitSetting
  <2>1. pc = "set" /\ pc' \in {"idle", "config"} /\ UNCHANGED <<cmds, programmed>>
    BY <1>5, <1>9 DEF RnLate!AwaitSetting
  <2>2. CASE pc' = "config" \/ result' = "ok"
    <3>1. PICK l \in RnLate!Line :
            /\ RnLate!ReadLine(l) /\ UNCHANGED due /\ l.text = "ok"
            /\ pc' = "config" => step' = step + 1 /\ step < 4
            /\ pc' # "config" => step = 4
      BY <1>1, <1>9, <2>2 DEF RnLate!AwaitSetting
    <3>2. cmds = <<>> /\ RnLate!Settings[step] \in programmed /\ Len(RnLate!wire) = 1
      <4>1. RnLate!wire[1].text = "ok" /\ 1 \in DOMAIN RnLate!wire
        <5>1. l = RnLate!wire[1] /\ Len(RnLate!wire) >= 1
          BY <1>4, <3>1
        <5> QED
          BY <1>3, <3>1, <5>1
      <4> QED
        BY <1>2, <2>1, <4>1
    <3>3. DOMAIN RnLate!wire' = {}
      BY <1>4, <3>1, <3>2
    <3>4. \A i \in 1..step : RnLate!Settings[i] \in programmed
      BY <1>1, <1>2, <2>1, <3>2
    <3> QED
      BY <1>1, <2>1, <3>1, <3>2, <3>3, <3>4 DEF RnLate!ConfigInv, RnLate!ConfiguredIsTrue
  <2>3. CASE pc' = "idle" /\ result' # "ok"
    BY <2>3 DEF RnLate!ConfigInv, RnLate!ConfiguredIsTrue
  <2> QED
    BY <2>1, <2>2, <2>3
<1>10. CASE RnLate!WriteTx \/ RnLate!AwaitAck \/ RnLate!AwaitTx
  BY <1>1, <1>2, <1>10 DEF RnLate!WriteTx, RnLate!AwaitAck, RnLate!AwaitTx
<1>11. CASE RnLate!Module
  <2>1. /\ cmds # <<>> /\ cmds' = Tail(cmds) /\ Head(cmds) \in RnLate!Command /\ Head(cmds) = cmds[1]
        /\ UNCHANGED <<pc, step, sends, result>> /\ cmds' \in Seq(RnLate!Command)
        /\ Len(cmds) \in Nat /\ Len(cmds) >= 1 /\ Len(cmds') = Len(cmds) - 1
        /\ \A i \in 1..Len(cmds') : cmds'[i] = cmds[i + 1]
    BY <1>1, <1>11, FirstTaken DEF RnLate!Module, RnLate!driver
  <2>2. programmed \subseteq programmed'
    BY <1>11 DEF RnLate!Module
  <2>3. RnLate!ConfiguredIsTrue'
    <3>1. programmed' \subseteq {RnLate!Settings[i] : i \in 1..4}
      BY RnTypeKept DEF RnLate!TypeOK
    <3> QED
      BY <1>2, <2>1, <2>2, <3>1 DEF RnLate!ConfiguredIsTrue
  <2>4. CASE pc = "idle"
    BY <2>1, <2>3, <2>4 DEF RnLate!ConfigInv
  <2>5. CASE pc # "idle"
    <3>1. \A i \in DOMAIN RnLate!wire : RnLate!wire[i].text # "ok"
      BY <1>2, <2>1, <2>5
    <3>2. cmds[1].name = "ver" \/ (pc = "set" /\ Len(cmds) = 1 /\ cmds[1].name = RnLate!Settings[step])
      BY <1>1, <1>2, <2>1, <2>5
    <3>3. PICK a \in RnLate!Answers(cmds[1]) :
            /\ due' = due \o a
            /\ a # <<>> /\ a[1].text = "ok" /\ cmds[1].name \notin {"ver", "tx"}
                 => cmds[1].name \in programmed'
      BY <1>11, <2>1 DEF RnLate!Module
    <3>4. \/ due' = due
          \/ \E l \in RnLate!Line :
               /\ due' = Append(due, l)
               /\ l.text = "ok" => pc = "set" /\ cmds' = <<>> /\ RnLate!Settings[step] \in programmed'
      <4> DEFINE said(t) == [text |-> t, of |-> cmds[1].of]
      <4>1. a \in {<<>>, <<said("version")>>, <<said("error")>>}
              \/ (a = <<said("ok")>> /\ cmds[1].name # "ver")
        <5>1. cmds[1].name # "tx"
          BY <1>1, <3>2 DEF RnLate!Settings
        <5> QED
          BY <3>3, <5>1 DEF RnLate!Answers
      <4>2. \A t \in {"ok", "error", "version"} : said(t) \in RnLate!Line /\ said(t).text = t
        BY <1>1, <2>1 DEF RnLate!Command, RnLate!Line
      <4> HIDE DEF said
      <4>3. CASE a = <<>>
        BY <1>1, <3>3, <4>3
      <4>4. CASE a \in {<<said("version")>>, <<said("error")>>}
        <5>1. PICK l \in RnLate!Line : a = <<l>> /\ l.text # "ok"
          BY <4>2, <4>4
        <5> QED
          BY <1>1, <3>3, <5>1, LastPut
      <4>5. CASE a = <<said("ok")>> /\ cmds[1].name # "ver"
        <5>1. pc = "set" /\ Len(cmds) = 1 /\ cmds[1].name = RnLate!Settings[step]
          BY <3>2, <4>5
        <5>2. RnLate!Settings[step] \in programmed'
          <6>1. a # <<>> /\ a[1].text = "ok"
            BY <4>2, <4>5
          <6> QED
            BY <1>1, <3>3, <4>5, <5>1, <6>1 DEF RnLate!Settings
        <5>3. cmds' = <<>>
          BY <2>1, <5>1
        <5> QED
          BY <1>1, <3>3, <4>2, <4>5, <5>1, <5>2, <5>3, LastPut
      <4> QED
        BY <4>1, <4>3, <4>4, <4>5
    <3>5. \A i \in DOMAIN RnLate!wire' : RnLate!wire'[i].text = "ok" =>
             pc = "set" /\ i = Len(RnLate!wire') /\ cmds' = <<>> /\ RnLate!Settings[step] \in programmed'
      <4>1. CASE due' = due
        BY <1>11, <3>1, <4>1 DEF RnLate!Module, RnLate!wire
      <4>2. ASSUME NEW l \in RnLate!Line, due' = Append(due, l),
                   l.text = "ok" => pc = "set" /\ cmds' = <<>> /\ RnLate!Settings[step] \in programmed'
            PROVE  \A i \in DOMAIN RnLate!wire' : RnLate!wire'[i].text = "ok" =>
                     pc = "set" /\ i = Len(RnLate!wire') /\ cmds' = <<>> /\ RnLate!Settings[step] \in programmed'
        <5>1. RnLate!wire' = Append(RnLate!wire, l)
          BY <1>1, <1>11, <4>2 DEF RnLate!Module, RnLate!wire
        <5> QED
          BY <1>3, <3>1, <4>2, <5>1, LastPut
      <4> QED
        BY <3>4, <4>1, <4>2
    <3>6. \A i \in DOMAIN cmds' :
            cmds'[i].name = "ver" \/ (pc = "set" /\ i = Len(cmds') /\ cmds'[i].name = RnLate!Settings[step])
      BY <1>1, <1>2, <2>1, <2>5
    <3>7. pc \in {"config", "set"} => \A i \in 1..(step - 1) : RnLate!Settings[i] \in programmed'
      BY <1>2, <2>2
    <3>8. pc # "init"
      BY <1>2, <2>1
    <3> QED
      BY <1>2, <2>1, <2>3, <3>5, <3>6, <3>7, <3>8 DEF RnLate!ConfigInv
  <2> QED
    BY <2>4, <2>5
<1>12. CASE RnLate!Deliver
  <2>1. RnLate!wire' = RnLate!wire /\ UNCHANGED <<pc, step, sends, result, cmds, programmed>>
    BY <1>1, <1>12, WireMoves DEF RnLate!Deliver, RnLate!wire, RnLate!driver
  <2>2. due' # <<>> => due # <<>>
    BY <1>1, <1>12 DEF RnLate!Deliver
  <2> QED
    BY <1>2, <1>12, <2>1, <2>2 DEF RnLate!ConfigInv, RnLate!ConfiguredIsTrue, RnLate!Deliver
<1> QED
  BY <1>6, <1>7, <1>8, <1>9, <1>10, <1>11, <1>12 DEF RnLate!Next, RnLate!Driver

\* With a module in time what is on its way is the answer to the last command.
LEMMA RnPromptKept ==
  ASSUME Rn!TypeOK, Rn!PromptInv, Rn!Next
  PROVE  Rn!PromptInv'
<1>1. /\ cmds \in Seq(Rn!Command) /\ due \in Seq(Rn!Line) /\ rx \in Seq(Rn!Line)
      /\ Rn!wire \in Seq(Rn!Line) /\ Len(Rn!wire) \in Nat /\ sends \in Nat
  <2>1. cmds \in Seq(Rn!Command) /\ due \in Seq(Rn!Line) /\ rx \in Seq(Rn!Line) /\ sends \in Nat
    BY RnAssumption DEF Rn!TypeOK, Rn!Rn2483Assumption
  <2> QED
    BY <2>1, WireMoves DEF Rn!wire
<1>2. ASSUME NEW l \in Rn!Line, Rn!ReadLine(l), UNCHANGED due
      PROVE  /\ l = Rn!wire[1] /\ Len(Rn!wire) >= 1 /\ Rn!wire' \in Seq(Rn!Line)
             /\ Len(Rn!wire') = Len(Rn!wire) - 1
             /\ \A i \in 1..Len(Rn!wire') : Rn!wire'[i] = Rn!wire[i + 1]
  <2>1. rx # <<>> /\ l = Head(rx) /\ rx' = Tail(rx)
    BY <1>2 DEF Rn!ReadLine
  <2>2. /\ Tail(rx) \o due = Tail(rx \o due) /\ Head(rx) = (rx \o due)[1]
        /\ rx \o due # <<>>
    <3>1. rx \in Seq(Rn!Line) /\ due \in Seq(Rn!Line) /\ rx # <<>>
      BY <1>1, <2>1
    <3> QED
      BY <3>1, WireMoves
  <2>3. Rn!wire' = Tail(Rn!wire) /\ l = Rn!wire[1] /\ Rn!wire # <<>>
    BY <1>2, <2>1, <2>2 DEF Rn!wire
  <2> QED
    BY <1>1, <2>3, FirstTaken
<1>3. ASSUME Rn!ReadTimeout
      PROVE  cmds' = <<>> /\ Rn!wire' = <<>>
  BY <1>1, <1>3, WireMoves DEF Rn!ReadTimeout, Rn!wire
<1>4. CASE Rn!InitModule
  <2>1. /\ cmds' = <<[name |-> "ver", of |-> 0]>> /\ rx' = <<>> /\ due' = <<>> /\ pc' = "version"
        /\ sends = 0 /\ sends' = 0
    BY <1>4 DEF Rn!InitModule, Rn!PromptInv
  <2>2. Len(cmds') = 1 /\ cmds'[1].name = "ver" /\ Rn!wire' = <<>>
    BY <2>1 DEF Rn!wire
  <2> QED
    BY <2>1, <2>2 DEF Rn!PromptInv, Rn!SentIsOwn
<1>5. CASE Rn!AwaitVersion
  <2>1. pc = "version" /\ pc' = "config" /\ sends' = sends /\ cmds' = <<>> /\ Rn!wire' = <<>>
    <3>1. CASE Rn!ReadTimeout
      BY <1>3, <1>5, <3>1 DEF Rn!AwaitVersion
    <3>2. ASSUME NEW l \in Rn!Line, Rn!ReadLine(l), UNCHANGED <<cmds, due>>
          PROVE  cmds' = <<>> /\ Rn!wire' = <<>>
      <4>1. Len(Rn!wire) >= 1 /\ Rn!wire' \in Seq(Rn!Line) /\ Len(Rn!wire') = Len(Rn!wire) - 1
        BY <1>2, <3>2
      <4>2. cmds = <<>> /\ Len(Rn!wire) <= 1
        BY <1>5, <4>1 DEF Rn!AwaitVersion, Rn!PromptInv
      <4> QED
        BY <1>1, <3>2, <4>1, <4>2
    <3> QED
      BY <1>5, <3>1, <3>2 DEF Rn!AwaitVersion
  <2> QED
    BY <2>1 DEF Rn!PromptInv, Rn!SentIsOwn
<1>6. CASE Rn!WriteSetting
  <2>1. /\ pc = "config" /\ pc' = "set" /\ sends' = sends /\ cmds = <<>> /\ Rn!wire = <<>>
        /\ cmds' = <<[name |-> Rn!Settings[step], of |-> 0]>> /\ Rn!wire' = Rn!wire
    BY <1>6 DEF Rn!WriteSetting, Rn!Write, Rn!wire, Rn!PromptInv
  <2>2. Rn!Settings[step] # "tx"
    BY DEF Rn!TypeOK, Rn!Settings
  <2>3. Len(cmds') = 1 /\ cmds'[1].name # "tx" /\ Rn!wire' = <<>>
    BY <2>1, <2>2
  <2> QED
    BY <2>1, <2>3 DEF Rn!PromptInv, Rn!SentIsOwn
<1>7. CASE Rn!AwaitSetting
  <2>1. pc = "set" /\ pc' \in {"config", "idle"} /\ UNCHANGED <<sends, credited>>
    BY <1>7 DEF Rn!AwaitSetting
  <2>2. cmds' = <<>> /\ Rn!wire' = <<>>
    <3>1. CASE Rn!ReadTimeout
      BY <1>3, <3>1
    <3>2. ASSUME NEW l \in Rn!Line, Rn!ReadLine(l), UNCHANGED <<cmds, due>>
          PROVE  cmds' = <<>> /\ Rn!wire' = <<>>
      <4>1. Len(Rn!wire) >= 1 /\ Rn!wire' \in Seq(Rn!Line) /\ Len(Rn!wire') = Len(Rn!wire) - 1
        BY <1>2, <3>2
      <4>2. cmds = <<>> /\ Len(Rn!wire) <= 1
        BY <2>1, <4>1 DEF Rn!PromptInv
      <4> QED
        BY <1>1, <3>2, <4>1, <4>2
    <3> QED
      BY <1>7, <3>1, <3>2 DEF Rn!AwaitSetting
  <2> QED
    BY <2>1, <2>2 DEF Rn!PromptInv, Rn!SentIsOwn
<1>8. CASE Rn!WriteTx
  <2>1. /\ pc' = "tx" /\ sends' = sends + 1 /\ Rn!wire' = <<>>
        /\ cmds' = <<[name |-> "tx", of |-> sends']>>
    BY <1>8 DEF Rn!WriteTx, Rn!Write, Rn!wire, Rn!PromptInv
  <2> QED
    BY <2>1 DEF Rn!PromptInv, Rn!SentIsOwn
<1>9. CASE Rn!AwaitAck
  <2>1. pc = "tx" /\ UNCHANGED sends
    BY <1>9 DEF Rn!AwaitAck
  <2>2. CASE Rn!ReadTimeout /\ pc' = "idle" /\ result' = "timeout"
    BY <1>3, <2>2 DEF Rn!PromptInv, Rn!SentIsOwn
  <2>3. ASSUME NEW l \in Rn!Line, Rn!ReadLine(l), UNCHANGED <<cmds, due>>,
               \/ l.text = "ok" /\ pc' = "air"
               \/ l.text # "ok" /\ pc' = "idle" /\ result' = "eio"
        PROVE  Rn!PromptInv'
    <3>1. /\ l = Rn!wire[1] /\ Len(Rn!wire) >= 1 /\ Rn!wire' \in Seq(Rn!Line)
          /\ Len(Rn!wire') = Len(Rn!wire) - 1
          /\ \A i \in 1..Len(Rn!wire') : Rn!wire'[i] = Rn!wire[i + 1]
      BY <1>2, <2>3
    <3>2. /\ cmds' = <<>>
          /\ \/ Len(Rn!wire) = 1 /\ l.text = "error"
             \/ Len(Rn!wire) = 2 /\ l.text = "ok" /\ Rn!wire[2].of = sends
      BY <2>1, <2>3, <3>1 DEF Rn!PromptInv
    <3>3. CASE l.text = "ok"
      <4>1. Len(Rn!wire) = 2 /\ Rn!wire[2].of = sends
        BY <3>2, <3>3
      <4>2. Len(Rn!wire') = 1 /\ Rn!wire'[1] = Rn!wire[2]
        BY <3>1, <4>1
      <4>3. Rn!wire'[1].of = sends' /\ pc' = "air"
        BY <2>1, <2>3, <3>3, <4>1, <4>2
      <4> QED
        BY <3>2, <4>2, <4>3 DEF Rn!PromptInv, Rn!SentIsOwn
    <3>4. CASE l.text # "ok"
      <4>1. Rn!wire' = <<>> /\ pc' = "idle" /\ result' = "eio"
        BY <2>3, <3>1, <3>2, <3>4
      <4> QED
        BY <3>2, <4>1 DEF Rn!PromptInv, Rn!SentIsOwn
    <3> QED
      BY <3>3, <3>4
  <2> QED
    BY <1>9, <2>2, <2>3 DEF Rn!AwaitAck
<1>10. CASE Rn!AwaitTx
  <2>1. pc = "air" /\ pc' = "idle" /\ UNCHANGED sends /\ cmds = <<>>
    BY <1>10 DEF Rn!AwaitTx, Rn!PromptInv
  <2>2. CASE Rn!ReadTimeout /\ result' = "timeout"
    BY <1>3, <2>1, <2>2 DEF Rn!PromptInv, Rn!SentIsOwn
  <2>3. ASSUME NEW l \in Rn!Line, Rn!ReadLine(l), UNCHANGED <<cmds, due>>, credited' = l.of
        PROVE  Rn!PromptInv'
    <3>1. /\ l = Rn!wire[1] /\ Len(Rn!wire') = Len(Rn!wire) - 1 /\ Rn!wire' \in Seq(Rn!Line)
      BY <1>2, <2>3
    <3>2. Len(Rn!wire) = 1 /\ Rn!wire[1].of = sends
      BY <2>1 DEF Rn!PromptInv
    <3>3. Rn!wire' = <<>>
      BY <3>1, <3>2
    <3>4. credited' = sends'
      BY <2>1, <2>3, <3>1, <3>2
    <3> QED
      BY <2>1, <2>3, <3>3, <3>4 DEF Rn!PromptInv, Rn!SentIsOwn
  <2> QED
    BY <1>10, <2>2, <2>3 DEF Rn!AwaitTx
<1>11. CASE Rn!Module
  <2>1. cmds # <<>> /\ cmds' = Tail(cmds) /\ UNCHANGED <<pc, sends, result, credited, rx>>
    BY <1>11 DEF Rn!Module, Rn!driver
  <2>2. Len(cmds) = 1 /\ Head(cmds) = cmds[1] /\ Rn!wire = <<>> /\ pc \in {"version", "set", "tx"}
    BY <1>1, <2>1 DEF Rn!PromptInv, Rn!TypeOK
  <2>3. cmds' = <<>> /\ rx = <<>> /\ due = <<>>
    BY <1>1, <2>1, <2>2, WireMoves DEF Rn!wire
  <2>4. PICK a \in Rn!Answers(cmds[1]) : due' = due \o a
    BY <1>11, <2>2 DEF Rn!Module
  <2> DEFINE said(t) == [text |-> t, of |-> cmds[1].of]
  <2>5. \A t \in {"ok", "error", "tx_ok", "tx_err", "version"} :
          said(t) \in Rn!Line /\ said(t).text = t /\ said(t).of = cmds[1].of
    <3>1. cmds[1] \in Rn!Command
      BY <1>1, <2>1, FirstTaken
    <3> QED
      BY <3>1 DEF Rn!Command, Rn!Line
  <2>6. CASE pc = "tx"
    <3>1. cmds[1] = [name |-> "tx", of |-> sends]
      BY <2>2, <2>6, <2>1 DEF Rn!PromptInv
    <3>2. a \in {<<said("ok"), said("tx_ok")>>, <<said("ok"), said("tx_err")>>, <<said("error")>>, <<>>}
      BY <2>4, <3>1 DEF Rn!Answers
    <3> HIDE DEF said
    <3>3. \/ a = <<>>
          \/ Len(a) = 1 /\ a[1].text = "error"
          \/ Len(a) = 2 /\ a[1].text = "ok" /\ a[2].of = sends
      BY <2>5, <3>1, <3>2
    <3>4. a \in Seq(Rn!Line)
      <4>1. \E l, m \in Rn!Line : a \in {<<>>, <<l>>, <<l, m>>}
        BY <2>5, <3>2
      <4>2. \A l, m \in Rn!Line : {<<>>, <<l>>, <<l, m>>} \subseteq Seq(Rn!Line)
        OBVIOUS
      <4> QED
        BY <4>1, <4>2
    <3>5. Rn!wire' = a
      BY <2>1, <2>3, <2>4, <3>4, WireMoves DEF Rn!wire
    <3> QED
      BY <2>1, <2>3, <2>6, <3>3, <3>5 DEF Rn!PromptInv, Rn!SentIsOwn
  <2>7. CASE pc # "tx"
    <3>1. cmds[1].name # "tx"
      BY <2>1, <2>2, <2>7 DEF Rn!PromptInv
    <3>2. a \in {<<said("ok")>>, <<said("version")>>, <<said("error")>>, <<>>}
      BY <2>4, <3>1 DEF Rn!Answers
    <3> HIDE DEF said
    <3>3. a \in Seq(Rn!Line) /\ Len(a) <= 1
      <4>1. \E l \in Rn!Line : a \in {<<>>, <<l>>}
        BY <2>5, <3>2
      <4>2. CASE a = <<>>
        BY <4>2
      <4>3. ASSUME NEW l \in Rn!Line, a = <<l>>
            PROVE  a \in Seq(Rn!Line) /\ Len(a) <= 1
        BY <4>3
      <4> QED
        BY <4>1, <4>2, <4>3
    <3>4. Rn!wire' = a
      BY <2>1, <2>3, <2>4, <3>3, WireMoves DEF Rn!wire
    <3> QED
      BY <2>1, <2>2, <2>3, <2>7, <3>3, <3>4 DEF Rn!PromptInv, Rn!SentIsOwn
  <2> QED
    BY <2>6, <2>7
<1>12. CASE Rn!Deliver
  <2>1. due # <<>> /\ UNCHANGED <<pc, sends, result, credited, cmds>>
    BY <1>12 DEF Rn!Deliver, Rn!driver
  <2>2. Rn!wire' = Rn!wire
    BY <1>1, <1>12, WireMoves DEF Rn!Deliver, Rn!wire
  <2> QED
    BY <2>1, <2>2 DEF Rn!PromptInv, Rn!SentIsOwn
<1> QED
  BY <1>4, <1>5, <1>6, <1>7, <1>8, <1>9, <1>10, <1>11, <1>12 DEF Rn!Next, Rn!Driver

\* Nothing has been sent.
LEMMA RnInitEstablishes == Rn!Init => Rn!TypeOK /\ RnLate!ConfigInv /\ Rn!PromptInv
<1> SUFFICES ASSUME Rn!Init PROVE Rn!TypeOK /\ RnLate!ConfigInv /\ Rn!PromptInv
  OBVIOUS
<1>1. [text |-> "version", of |-> 0] \in Rn!Line
  BY RnAssumption DEF Rn!Line, Rn!Rn2483Assumption
<1>2. rx \in Seq(Rn!Line) /\ \A i \in DOMAIN rx : rx[i].text = "version"
  <2>1. CASE rx = <<>>
    BY <2>1
  <2>2. CASE rx = <<[text |-> "version", of |-> 0]>>
    BY <1>1, <2>2
  <2> QED
    BY <2>1, <2>2 DEF Rn!Init
<1>3. /\ pc = "init" /\ step = 1 /\ sends = 0 /\ result = "none" /\ credited = 0
      /\ cmds = <<>> /\ due = <<>> /\ programmed = {}
  BY DEF Rn!Init
<1>4. Rn!TypeOK
  <2>1. cmds \in Seq(Rn!Command) /\ due \in Seq(Rn!Line)
    BY <1>3
  <2> QED
    BY <1>2, <1>3, <2>1, RnAssumption DEF Rn!TypeOK, Rn!Rn2483Assumption
<1>5. RnLate!ConfigInv
  <2>1. RnLate!wire = rx /\ DOMAIN cmds = {}
    BY <1>2, <1>3, WireMoves DEF RnLate!wire
  <2> QED
    BY <1>2, <1>3, <2>1 DEF RnLate!ConfigInv, RnLate!ConfiguredIsTrue
<1>6. Rn!PromptInv
  BY <1>3 DEF Rn!PromptInv, Rn!SentIsOwn
<1> QED
  BY <1>4, <1>5, <1>6

\* The two instances of a module define the same types.
LEMMA RnSameTypes == (Rn!TypeOK <=> RnLate!TypeOK) /\ (Rn!TypeOK' <=> RnLate!TypeOK')
BY DEF Rn!TypeOK, RnLate!TypeOK, Rn!Command, RnLate!Command, Rn!Line, RnLate!Line,
   Rn!Settings, RnLate!Settings

-----------------------------------------------------------------------------
(* Both drivers. *)

\* A driver whose radio is in time does what it does with a late one.
LEMMA RyInTime == ASSUME OnTime!Next PROVE Next
<1>2. OnTime!Answer => Answer
  BY DEF OnTime!Answer, Answer, OnTime!Finished, Finished, OnTime!sems, sems, OnTime!packets, packets
<1>3. OnTime!TimesOut => TimesOut
  BY DEF OnTime!TimesOut, TimesOut, OnTime!Finished, Finished, OnTime!packets, packets
<1>4. OnTime!OnRx => OnRx
  <2>1. (OnTime!HandOver => HandOver) /\ (OnTime!NotQueued => NotQueued)
    BY DEF OnTime!HandOver, HandOver, OnTime!Goes, Goes, OnTime!NotQueued, NotQueued
  <2>2. OnTime!Enqueue => Enqueue
    BY DEF OnTime!Enqueue, Enqueue, OnTime!Overwrites, Overwrites
  <2> QED
    BY <2>1, <2>2 DEF OnTime!OnRx, OnRx, OnTime!sems, sems, OnTime!flags, flags
<1>7. OnTime!BytesCome => BytesCome
  BY DEF OnTime!BytesCome, BytesCome, OnTime!sems, sems, OnTime!flags, flags,
     OnTime!calls, calls, OnTime!chat, chat
<1>5. ASSUME NEW t \in Threads, OnTime!Begin(t) PROVE Begin(t)
  <2> USE DEF OnTime!Take, Take, OnTime!Goes, Goes, OnTime!Calling, Calling, OnTime!Runs, Runs,
      OnTime!flags, flags, OnTime!sems, sems, OnTime!calls, calls, OnTime!chat, chat,
      OnTime!packets, packets
  <2>1. OnTime!Config(t) => Config(t)
    BY DEF OnTime!Config, Config
  <2>2. OnTime!Send(t) => Send(t)
    BY DEF OnTime!Send, Send
  <2>3. OnTime!SendAsync(t) => SendAsync(t)
    BY DEF OnTime!SendAsync, SendAsync
  <2>4. OnTime!Recv(t) => Recv(t)
    BY DEF OnTime!Recv, Recv
  <2>5. OnTime!RecvAsync(t) => RecvAsync(t)
    BY DEF OnTime!RecvAsync, RecvAsync
  <2>6. OnTime!CallCancel(t) => CallCancel(t)
    BY DEF OnTime!CallCancel, CallCancel
  <2> QED
    BY <1>5, <2>1, <2>2, <2>3, <2>4, <2>5, <2>6 DEF OnTime!Begin, Begin
<1>6. ASSUME NEW t \in Threads, OnTime!Continue(t) PROVE Continue(t)
  <2> USE DEF OnTime!Goes, Goes, OnTime!Returns, Returns, OnTime!Runs, Runs,
      OnTime!flags, flags, OnTime!sems, sems, OnTime!chat, chat, OnTime!packets, packets
  <2>1. OnTime!CommandEnds(t) => CommandEnds(t)
    BY DEF OnTime!CommandEnds, CommandEnds, OnTime!Success, Success
  <2>2. OnTime!RecvMessage(t) => RecvMessage(t)
    BY DEF OnTime!RecvMessage, RecvMessage
  <2>3. OnTime!RecvExpires(t) => RecvExpires(t)
    BY DEF OnTime!RecvExpires, RecvExpires
  <2>4. OnTime!Cancel(t) => Cancel(t)
    BY DEF OnTime!Cancel, Cancel
  <2>5. OnTime!RecvCopies(t) => RecvCopies(t)
    BY DEF OnTime!RecvCopies, RecvCopies
  <2> QED
    BY <1>6, <2>1, <2>2, <2>3, <2>4, <2>5 DEF OnTime!Continue, Continue
<1> QED
  BY <1>2, <1>3, <1>4, <1>5, <1>6, <1>7 DEF OnTime!Next, Next

\* The invariants of both drivers hold together, whichever of them runs.
LEMMA BothKeep ==
  LET Inv == /\ RylrInv /\ Rn!TypeOK /\ RnLate!ConfigInv
             /\ driver = "rn2483" => Rn!PromptInv
  IN  MCSpec => []Inv
<1> DEFINE Inv == /\ RylrInv /\ Rn!TypeOK /\ RnLate!ConfigInv
                  /\ driver = "rn2483" => Rn!PromptInv
<1>1. MCInit => Inv
  BY InitEstablishes, RnInitEstablishes DEF MCInit
<1>2. Inv /\ [MCNext]_allVars => Inv'
  <2> SUFFICES ASSUME Inv, [MCNext]_allVars PROVE Inv'
    OBVIOUS
  <2>1. RylrInv'
    <3>1. [Next]_vars
      BY RyInTime DEF MCNext, allVars
    <3> QED
      BY <3>1, NextKeeps
  <2>2. CASE RnLate!Next /\ driver' = driver /\ (driver = "rn2483" => Rn!Next)
    <3>1. Rn!TypeOK' /\ RnLate!ConfigInv'
      BY <2>2, RnSameTypes, RnTypeKept, RnConfigKept
    <3> QED
      BY <2>1, <2>2, <3>1, RnPromptKept
  <2>3. CASE UNCHANGED rnVars /\ driver' = driver
    <3>1. Rn!TypeOK' /\ RnLate!ConfigInv' /\ (Rn!PromptInv => Rn!PromptInv')
      BY <2>3
      DEF rnVars, Rn!TypeOK, RnLate!ConfigInv, RnLate!ConfiguredIsTrue, RnLate!wire,
          Rn!PromptInv, Rn!SentIsOwn, Rn!wire
    <3> QED
      BY <2>1, <2>3, <3>1
  <2> QED
    BY <2>2, <2>3, RnInTime DEF MCNext, allVars, rnVars
<1> QED
  BY <1>1, <1>2, PTL DEF MCSpec

\* Every variable of both drivers keeps its type, with all faults.
THEOREM DriversTypeOKThm == MCSpec => []DriversTypeOK
<1>1. RylrInv /\ Rn!TypeOK => DriversTypeOK
  BY DEF RylrInv, DriversTypeOK
<1> QED
  BY <1>1, BothKeep, PTL

\* What the RN2483 driver reports is about what it did itself: a configuration
\* that returns 0 was accepted in full (rn2483.c:123-150), and a transmission that
\* returns 0 was this one (172-175) if the module answers in time.
THEOREM RnAnswersAreOwnThm == MCSpec => []RnAnswersAreOwn
<1>1. RnLate!ConfigInv /\ (driver = "rn2483" => Rn!PromptInv) => RnAnswersAreOwn
  <2> SUFFICES ASSUME RnLate!ConfigInv, driver = "rn2483" => Rn!PromptInv
               PROVE  RnAnswersAreOwn
    OBVIOUS
  <2>1. Rn!ConfiguredIsTrue
    BY DEF RnLate!ConfigInv, RnLate!ConfiguredIsTrue, Rn!ConfiguredIsTrue,
       Rn!Settings, RnLate!Settings
  <2> QED
    BY <2>1 DEF RnAnswersAreOwn, Rn!PromptInv
<1> QED
  BY <1>1, BothKeep, PTL
=============================================================================
