--------------------------------- MODULE Rylr ---------------------------------
(***************************************************************************)
(* The RYLRxxx LoRa driver (zephyr-drivers-referencia/lora/rylrxxx.c): the *)
(* threads that call it, the chat library that runs its command scripts    *)
(* and its line handlers, and the radio behind the serial line.            *)
(*                                                                         *)
(* Abstractions: packets are numbered; commands are 1 to 3 (band, radio    *)
(* parameters, power) and "send"; a call that finds the radio in the wrong *)
(* mode returns and is left out.  The chat library (external) runs one     *)
(* script at a time and takes the next +OK or +ERR for its answer;         *)
(* modem_chat_run_script returns when the script has ended.  The bytes a   *)
(* message points to are left out: they are those of the last line.        *)
(*                                                                         *)
(* msgq_buffer has as many bytes as k_msgq_init is told there are          *)
(* messages, so the queue reaches into uart_backend_rx_buff, which the     *)
(* serial backend fills (bound: not beyond it).  Received bytes overwrite  *)
(* queued messages, and a message that is queued the bytes of an answer.   *)
(***************************************************************************)
EXTENDS Naturals, Sequences

CONSTANTS
  Threads,
  MaxPackets,  \* bound: packets the radio receives
  MaxLate,     \* bound: commands with an answer to come
  QueueSize,   \* CONFIG_RYLRXXX_UNSOLICITED_RX_MSGQ_SIZE
  Faults       \* subset of {"slow", "refuse"}: an answer that comes late; a
               \* script the chat library does not start

ASSUME RylrAssumption ==
  /\ {"none", "async"} \cap Threads = {}
  /\ MaxPackets \in Nat /\ MaxLate \in Nat /\ QueueSize \in Nat \ {0}
  /\ Faults \subseteq {"slow", "refuse"}

VARIABLES
  operation_sem, script_sem,
  tx_pending, rx_pending,   \* pending_async_flags
  is_tx,
  handler_error,            \* is set
  rx_msgq,   \* packets; 0: a message that was overwritten
  taken,     \* msg: the packet recv has in hand
  signal,    \* async_tx_signal: what it was raised with
  op, at, cmd,  \* per thread: its call, how far it is, the command of it
  script,    \* chat library: whose script runs
  ended,     \* chat library: how the script of a thread ended
  radio,     \* commands the radio has not yet answered
  seen,      \* packets the radio has received
  applied,   \* history: the commands of this call or transmission it accepted
  given,     \* history: the last packet recv returned
  late       \* history: some answer did not come in time

flags == <<tx_pending, rx_pending, is_tx>>
sems == <<operation_sem, script_sem>>
calls == <<op, at, cmd>>
chat == <<script, ended, radio, late>>
packets == <<rx_msgq, taken, seen, given>>
vars == <<sems, flags, handler_error, signal, calls, chat, packets, applied>>

Commands == 1..3 \cup {4}   \* 4: AT+SEND
Calls == {"config", "send", "recv", "cancel"}

TypeOK ==
  /\ operation_sem \in 0..1 /\ script_sem \in 0..1
  /\ {tx_pending, rx_pending, is_tx, handler_error, late} \subseteq BOOLEAN
  /\ rx_msgq \in Seq(0..MaxPackets) /\ Len(rx_msgq) <= QueueSize
  /\ {taken, seen, given} \subseteq 0..MaxPackets
  /\ signal \in {"none", "ok", "error"} /\ ended \in {"none", "ok", "error"}
  /\ op \in [Threads -> Calls \cup {"none"}]
  /\ at \in [Threads -> {"idle", "script", "wait", "copy", "done"}]
  /\ cmd \in [Threads -> Commands]
  /\ script \in Threads \cup {"none", "async"}
  /\ radio \in Seq(Commands)
  /\ applied \subseteq Commands

\* rylr_init, whose ping has been answered
Init ==
  /\ operation_sem = 1 /\ script_sem = 0
  /\ tx_pending = FALSE /\ rx_pending = FALSE /\ is_tx = FALSE
  /\ handler_error = FALSE /\ rx_msgq = <<>> /\ taken = 0 /\ signal = "none"
  /\ op = [t \in Threads |-> "none"] /\ at = [t \in Threads |-> "idle"]
  /\ cmd = [t \in Threads |-> 1]
  /\ script = "none" /\ ended = "none" /\ radio = <<>> /\ seen = 0
  /\ applied = {} /\ given = 0 /\ late = FALSE

-----------------------------------------------------------------------------
(* The callers.  A semaphore that is taken returns -EBUSY. *)

Take == operation_sem = 1 /\ operation_sem' = 0
Goes(t, place) == at' = [at EXCEPT ![t] = place]
Calling(t, o) == at[t] = "idle" /\ op' = [op EXCEPT ![t] = o]
Returns(t) == Goes(t, "idle") /\ op' = [op EXCEPT ![t] = "none"]

\* rylr_send_cmd_buffer up to the wait
Runs(t, c) == /\ script' = t /\ ended' = "none" /\ radio' = Append(radio, c)
              /\ cmd' = [cmd EXCEPT ![t] = c] /\ UNCHANGED late

Config(t) ==
  /\ Calling(t, "config") /\ Goes(t, "script") /\ Take
  /\ Runs(t, 1) /\ applied' = {}
  /\ UNCHANGED <<script_sem, flags, handler_error, signal, packets>>

Send(t) ==
  /\ is_tx
  /\ Calling(t, "send") /\ Goes(t, "script") /\ Take
  /\ Runs(t, 4) /\ applied' = {}
  /\ UNCHANGED <<script_sem, flags, handler_error, signal, packets>>

\* rylr_send_async; the error of modem_chat_run_script_async is returned with
\* the operation pending.
SendAsync(t) ==
  /\ is_tx /\ at[t] = "idle" /\ Take
  /\ tx_pending' = TRUE /\ signal' = "none" /\ applied' = {}
  /\ \/ script' = "async" /\ radio' = Append(radio, 4)
     \/ "refuse" \in Faults /\ UNCHANGED <<script, radio>>
  /\ UNCHANGED <<script_sem, rx_pending, is_tx, handler_error, calls, ended, late, packets>>

Recv(t) ==
  /\ ~is_tx
  /\ Calling(t, "recv") /\ Goes(t, "wait") /\ Take
  /\ UNCHANGED <<script_sem, flags, handler_error, signal, cmd, chat, packets, applied>>

\* Mutant: gives the semaphore back, as every other call does.
RecvAsyncGives(t) ==
  /\ ~is_tx /\ at[t] = "idle" /\ operation_sem = 1
  /\ rx_pending' = TRUE
  /\ UNCHANGED <<sems, tx_pending, is_tx, handler_error, signal, calls, chat, packets, applied>>

\* rylr_recv_async: the semaphore stays taken.
RecvAsync(t) ==
  /\ ~is_tx /\ at[t] = "idle" /\ Take
  /\ rx_pending' = TRUE
  /\ UNCHANGED <<script_sem, tx_pending, is_tx, handler_error, signal, calls, chat, packets, applied>>

\* rylr_recv_async(NULL)
CallCancel(t) ==
  /\ Calling(t, "cancel") /\ Goes(t, "wait")
  /\ UNCHANGED <<sems, flags, handler_error, signal, cmd, chat, packets, applied>>

Cancel(t) ==
  /\ op[t] = "cancel" /\ Returns(t)
  /\ rx_pending' = IF operation_sem = 1 THEN FALSE ELSE rx_pending
  /\ UNCHANGED <<sems, tx_pending, is_tx, handler_error, signal, cmd, chat, packets, applied>>

\* Mutant: an error of one command does not end the configuration.
CommandEndsAnyway(t) ==
  /\ at[t] = "done"
  /\ IF op[t] = "config" /\ cmd[t] < 3
     THEN Runs(t, cmd[t] + 1) /\ Goes(t, "script") /\ UNCHANGED <<op, is_tx, operation_sem>>
     ELSE /\ operation_sem' = 1 /\ Returns(t) /\ cmd' = [cmd EXCEPT ![t] = 1] /\ UNCHANGED chat
          /\ is_tx' \in IF op[t] = "config" THEN BOOLEAN ELSE {is_tx}
  /\ script_sem' = IF ended = "ok" THEN 0 ELSE script_sem
  /\ UNCHANGED <<tx_pending, rx_pending, handler_error, signal, packets, applied>>

Success == ended = "ok" /\ ~handler_error

\* The script has ended: an error returns, leaving script_sem as it is; the
\* next command is sent, or the call is done.
CommandEnds(t) ==
  /\ at[t] = "done"
  /\ IF Success /\ op[t] = "config" /\ cmd[t] < 3
     THEN Runs(t, cmd[t] + 1) /\ Goes(t, "script") /\ UNCHANGED <<op, is_tx, operation_sem>>
     ELSE /\ operation_sem' = 1 /\ Returns(t) /\ cmd' = [cmd EXCEPT ![t] = 1] /\ UNCHANGED chat
          /\ is_tx' \in IF Success /\ op[t] = "config" THEN BOOLEAN ELSE {is_tx}
  /\ script_sem' = IF ended = "ok" THEN 0 ELSE script_sem
  /\ UNCHANGED <<tx_pending, rx_pending, handler_error, signal, packets, applied>>

\* rylr_recv: the message is taken,
RecvMessage(t) ==
  /\ op[t] = "recv" /\ at[t] = "wait" /\ rx_msgq # <<>>
  /\ rx_msgq' = Tail(rx_msgq) /\ taken' = Head(rx_msgq)
  /\ Goes(t, "copy")
  /\ UNCHANGED <<sems, flags, handler_error, signal, op, cmd, chat, seen, given, applied>>

\* and lost if the last handler failed or the caller's buffer is too small.
RecvCopies(t) ==
  /\ at[t] = "copy"
  /\ \/ ~handler_error /\ taken # 0 /\ given' = taken
     \/ UNCHANGED given
  /\ taken' = 0
  /\ operation_sem' = 1 /\ Returns(t)
  /\ UNCHANGED <<script_sem, flags, handler_error, signal, cmd, chat, rx_msgq, seen, applied>>

RecvExpires(t) ==
  /\ op[t] = "recv" /\ at[t] = "wait" /\ rx_msgq = <<>>
  /\ operation_sem' = 1 /\ Returns(t)
  /\ UNCHANGED <<script_sem, flags, handler_error, signal, cmd, chat, packets, applied>>

Begin(t) == Config(t) \/ Send(t) \/ SendAsync(t) \/ Recv(t) \/ RecvAsync(t) \/ CallCancel(t)
Continue(t) ==
  CommandEnds(t) \/ RecvMessage(t) \/ RecvCopies(t) \/ RecvExpires(t) \/ Cancel(t)

-----------------------------------------------------------------------------
(* The chat library's work item and the radio. *)

\* on_script_finished, and what the library does around it
Finished(result) ==
  /\ script # "none"
  /\ IF tx_pending
     THEN /\ tx_pending' = FALSE /\ operation_sem' = 1
          /\ signal' = IF handler_error' THEN "error" ELSE "ok"
     ELSE UNCHANGED <<tx_pending, signal, operation_sem>>
  /\ script_sem' = 1 /\ script' = "none" /\ ended' = result
  /\ at' = [t \in Threads |-> IF script = t THEN "done" ELSE at[t]]

\* on_ok, on_err: the radio answers its commands in order.  Without a script
\* nobody takes the answer.
Answer ==
  /\ radio # <<>> /\ radio' = Tail(radio)
  /\ \E ok \in BOOLEAN :
       /\ applied' = IF ok THEN applied \cup {Head(radio)} ELSE applied
       /\ IF script = "none"
          THEN UNCHANGED <<handler_error, tx_pending, signal, sems, script, ended, at>>
          ELSE /\ handler_error' = ~ok
               /\ Finished(IF ok THEN "ok" ELSE "error")
  /\ UNCHANGED <<rx_pending, is_tx, op, cmd, late, packets>>

\* CONFIG_RYLRXXX_RADIO_CMD_RESPONSE_TIMEOUT_MS are over: the answer is late, or
\* was overwritten.
TimesOut ==
  /\ radio = <<>> \/ ("slow" \in Faults /\ Len(radio) <= MaxLate)
  /\ UNCHANGED handler_error
  /\ Finished("error") /\ late' = TRUE
  /\ UNCHANGED <<rx_pending, is_tx, op, cmd, radio, packets, applied>>

\* k_msgq_put: a receiver that waits is given the message itself.
HandOver ==
  \E t \in Threads :
    /\ op[t] = "recv" /\ at[t] = "wait" /\ rx_msgq = <<>>
    /\ taken' = seen' /\ handler_error' = FALSE /\ Goes(t, "copy")
    /\ UNCHANGED <<rx_msgq, radio, applied>>

\* An answer on its way may be overwritten; the radio has done as it says.
Overwrites ==
  \/ UNCHANGED <<radio, applied>>
  \/ /\ radio # <<>> /\ radio' = Tail(radio)
     /\ applied' \in {applied, applied \cup {Head(radio)}}

\* Mutant: does not ask whether the queue is full.
EnqueueAnyway ==
  /\ handler_error' = FALSE
  /\ rx_msgq' = Append(rx_msgq, seen')
  /\ Overwrites
  /\ UNCHANGED <<at, taken>>

Enqueue ==
  /\ handler_error' = FALSE
  /\ Len(rx_msgq) < QueueSize /\ rx_msgq' = Append(rx_msgq, seen')
  /\ Overwrites
  /\ UNCHANGED <<at, taken>>

\* A line that is malformed, given to the callback, or finds the queue full
NotQueued ==
  /\ handler_error' \in IF rx_pending THEN BOOLEAN ELSE {TRUE}
  /\ UNCHANGED <<rx_msgq, at, taken, radio, applied>>

\* on_rx
OnRx ==
  /\ seen < MaxPackets /\ seen' = seen + 1
  /\ NotQueued \/ (~rx_pending /\ (HandOver \/ Enqueue))
  /\ UNCHANGED <<sems, flags, signal, op, cmd, script, ended, late, given>>

\* Bytes come from the radio, of whatever line.
BytesCome ==
  /\ \E i \in DOMAIN rx_msgq : rx_msgq' = [rx_msgq EXCEPT ![i] = 0]
  /\ UNCHANGED <<sems, flags, handler_error, signal, calls, chat, taken, seen, given, applied>>

Next == Answer \/ TimesOut \/ OnRx \/ BytesCome \/ \E t \in Threads : Begin(t) \/ Continue(t)

Spec == Init /\ [][Next]_vars

\* A thread that can go on does; the radio answers or the library's timer
\* expires.
FairSpec == /\ Spec /\ WF_vars(Answer \/ TimesOut)
            /\ \A t \in Threads : WF_vars(Continue(t))

-----------------------------------------------------------------------------
(* Properties. *)

\* One operation holds the semaphore, whoever gives it back: a call, or an
\* asynchronous one that has returned (363, 406, 460, 514, 551 and 191).
OneOperation ==
  LET holders == {t \in Threads : op[t] \in {"config", "send", "recv"}}
      n == (IF tx_pending THEN 1 ELSE 0) + (IF rx_pending THEN 1 ELSE 0)
  IN  /\ \A t, u \in holders : t = u
      /\ holders # {} => n = 0
      /\ n <= 1 /\ (operation_sem = 0 <=> holders # {} \/ n = 1)

\* A radio that answers in time has accepted all three commands of a
\* configuration when the driver goes into the new mode (341-360), whatever
\* packets came in between.
ChangesApplied == is_tx' # is_tx => late \/ applied = 1..3

\* and the packet of a transmission that is signalled with success.
SignalsAnswered == signal' = "ok" /\ signal # "ok" => late' \/ 4 \in applied'

\* recv returns the packets that were not overwritten in the order they came,
\* each once: what is queued or in hand came after what was returned.
DeliveredInOrder ==
  /\ taken # 0 => taken > given
  /\ \A i \in DOMAIN rx_msgq : rx_msgq[i] # 0 => rx_msgq[i] > given /\ rx_msgq[i] > taken

\* An operation other than a reception ends, and the next can begin.
OperationEnds == operation_sem = 0 /\ ~rx_pending ~> operation_sem = 1

\* What the calls and the chat library share: one operation at a time, and
\* packets that are delivered in order, or were overwritten.
SharedHolds == OneOperation /\ DeliveredInOrder

\* The end of a command is judged by its own answer: while all came in time, a
\* configuration that succeeds was applied in full, and a transmission that is
\* signalled as good was accepted by the radio.
AnswersAreOwn == [][ChangesApplied /\ SignalsAnswered]_vars

-----------------------------------------------------------------------------
(* The inductive invariant behind SharedHolds and AnswersAreOwn. *)

\* How far a call is, and whose script runs; the script of an asynchronous
\* transmission ends no later than the transmission.
CallInv ==
  /\ \A t \in Threads :
       /\ at[t] = "idle" <=> op[t] = "none"
       /\ at[t] \in {"script", "done"} <=> op[t] \in {"config", "send"}
       /\ at[t] = "script" <=> script = t
       /\ at[t] = "copy" => op[t] = "recv"
       /\ op[t] = "config" => cmd[t] \in 1..3
       /\ op[t] = "send" => cmd[t] = 4
  /\ script = "async" => tx_pending

\* While every answer came in time, the radio owes at most the one of the script
\* that runs, and has accepted what the call is through with.
AnswerInv ==
  ~late =>
    /\ script = "none" => radio = <<>>
    /\ script = "async" => radio \in {<<>>, <<4>>}
    /\ \A t \in Threads :
         /\ at[t] = "script" => radio \in {<<>>, <<cmd[t]>>}
         /\ op[t] = "config" /\ at[t] = "script" /\ radio # <<>> => applied = 1..(cmd[t] - 1)
         /\ op[t] = "config" /\ at[t] = "done" /\ ended = "ok" => applied = 1..cmd[t]

\* What is in the queue was received, in this order.
OrderInv ==
  /\ given <= seen /\ taken <= seen
  /\ \A i \in DOMAIN rx_msgq :
       /\ rx_msgq[i] <= seen
       /\ rx_msgq[i] # 0 => \A j \in 1..(i - 1) : rx_msgq[j] < rx_msgq[i]

RylrInv == TypeOK /\ CallInv /\ OneOperation /\ AnswerInv /\ OrderInv /\ DeliveredInOrder
=============================================================================
