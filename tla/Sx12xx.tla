-------------------------------- MODULE Sx12xx --------------------------------
(***************************************************************************)
(* Ownership of the radio in the SX12xx LoRa driver                        *)
(* (zephyr-drivers-referencia/lora/sx12xx_common.c): the threads that call *)
(* the driver, the work queue that runs the radio's events, and the        *)
(* three-state word by which they take the modem and give it back.  Every  *)
(* interleaving of them is a behaviour.                                    *)
(*                                                                         *)
(* Abstractions: payloads and settings are left out.  The threads are      *)
(* preempted anywhere.  The work queue is not, it gives way where the      *)
(* radio library (external) blocks on SPI: after the library has found out *)
(* which event it has and before its handler, and where a handler puts the *)
(* radio to sleep.  A call starts the radio with its last SPI access.      *)
(***************************************************************************)
CONSTANTS
  Threads,  \* the callers
  Nobody    \* no signal, no rx_params: NULL

ASSUME Sx12xxAssumption == Nobody \notin Threads

VARIABLES
  usage,      \* modem_usage
  signal,     \* operation_done: whose
  callback,   \* async_rx_cb is set
  params,     \* rx_params: whose
  op,         \* per thread: the call it is in
  at,         \* per thread: how far it is
  raised,     \* per thread: its signal has been raised
  radio,      \* what the radio does
  ev,         \* work queue: the event it has in hand
  hat,        \* work queue: how far its handler is
  hsig,       \* work queue: sig
  sender,     \* history: the thread whose packet is on the air
  fate,       \* history, per thread: what became of its transmission
  owner,      \* history: who acquired the modem
  listening,  \* history: a lora_recv_async is in force
  late,       \* history: the radio was put to sleep since the event in hand
  astray      \* history: a release or an event took what was not its own

shared == <<usage, signal, callback, params>>
threads == <<op, at, raised>>
air == <<radio, sender, fate>>
work == <<ev, hat, hsig, late>>
held == <<owner, listening>>
vars == <<shared, threads, air, work, held, astray>>

Ops == {"send", "send_async", "recv", "listen", "stop", "config", "cw"}

TypeOK ==
  /\ usage \in {"free", "busy", "cleanup"}
  /\ {signal, params, owner, sender, hsig} \subseteq Threads \cup {Nobody}
  /\ {callback, listening, late, astray} \subseteq BOOLEAN
  /\ op \in [Threads -> Ops \cup {"none"}]
  /\ at \in [Threads -> {"idle", "begin", "start", "wait", "release", "forever",
                         "cleanup", "asleep"}]
  /\ raised \in [Threads -> BOOLEAN]
  /\ fate \in [Threads -> {"none", "sent", "givenup"}]
  /\ radio \in {"sleep", "tx", "rx", "cw", "standby"}
  /\ ev \in {"none", "tx_done", "rx_done", "tx_timeout"}
  /\ hat \in {"idle", "fetched", "cleanup"}

\* sx12xx_init
Init ==
  /\ usage = "free" /\ signal = Nobody /\ callback = FALSE /\ params = Nobody
  /\ op = [t \in Threads |-> "none"] /\ at = [t \in Threads |-> "idle"]
  /\ raised = [t \in Threads |-> FALSE] /\ fate = [t \in Threads |-> "none"]
  /\ radio = "sleep" /\ sender = Nobody
  /\ ev = "none" /\ hat = "idle" /\ hsig = Nobody /\ late = FALSE
  /\ owner = Nobody /\ listening = FALSE /\ astray = FALSE

-----------------------------------------------------------------------------
(* The threads. *)

Goes(t, place) == at' = [at EXCEPT ![t] = place]
Returns(t) == Goes(t, "idle") /\ op' = [op EXCEPT ![t] = "none"]

\* with its signal: the next call initialises its own.
Leaves(t) ==
  /\ Returns(t)
  /\ raised' = [raised EXCEPT ![t] = FALSE] /\ fate' = [fate EXCEPT ![t] = "none"]
Takes(t) ==
  /\ \E o \in Ops \ {"stop"} : op' = [op EXCEPT ![t] = o]
  /\ usage' = "busy" /\ owner' = t /\ Goes(t, "begin")
  /\ UNCHANGED <<signal, callback, params, raised, air, work, listening, astray>>

\* Mutant: does not look at modem_usage.
AcquireUnchecked(t) == at[t] = "idle" /\ Takes(t)

\* modem_acquire; a caller that finds the modem taken gets -EBUSY.
Acquire(t) == at[t] = "idle" /\ usage = "free" /\ Takes(t)

\* What a call stores before it starts the radio
StoreSend(t) ==
  /\ at[t] = "begin" /\ op[t] \in {"send", "send_async"}
  /\ signal' = t /\ Goes(t, "start")
  /\ UNCHANGED <<usage, callback, params, op, raised, air, work, held, astray>>

\* Mutant: the output parameters of the call before.
StoreRecvUnset(t) ==
  /\ at[t] = "begin" /\ op[t] = "recv"
  /\ callback' = FALSE /\ signal' = t
  /\ Goes(t, "start")
  /\ UNCHANGED <<usage, params, op, raised, air, work, held, astray>>

StoreRecv(t) ==
  /\ at[t] = "begin" /\ op[t] = "recv"
  /\ callback' = FALSE /\ signal' = t /\ params' = t
  /\ Goes(t, "start")
  /\ UNCHANGED <<usage, op, raised, air, work, held, astray>>

StoreListen(t) ==
  /\ at[t] = "begin" /\ op[t] = "listen"
  /\ callback' = TRUE /\ Goes(t, "start")
  /\ UNCHANGED <<usage, signal, params, op, raised, air, work, held, astray>>

StartSend(t) ==
  /\ at[t] = "start" /\ op[t] \in {"send", "send_async"}
  /\ radio' = "tx" /\ sender' = t
  /\ Goes(t, IF op[t] = "send" THEN "wait" ELSE "forever")
  /\ UNCHANGED <<shared, op, raised, fate, work, held, astray>>

StartRecv(t) ==
  /\ at[t] = "start" /\ op[t] = "recv"
  /\ radio' = "rx" /\ sender' = Nobody
  /\ Goes(t, "wait")
  /\ UNCHANGED <<shared, op, raised, fate, work, held, astray>>

\* lora_recv_async returns with the modem taken.
StartListen(t) ==
  /\ at[t] = "start" /\ op[t] = "listen"
  /\ radio' = "rx" /\ sender' = Nobody /\ listening' = TRUE
  /\ Returns(t)
  /\ UNCHANGED <<shared, raised, fate, work, owner, astray>>

\* So does lora_test_cw; the event at the end of the wave gives it back.
StartCw(t) ==
  /\ at[t] = "begin" /\ op[t] = "cw"
  /\ radio' = "cw" /\ sender' = Nobody
  /\ Returns(t)
  /\ UNCHANGED <<shared, raised, fate, work, held, astray>>

\* lora_config: the settings are made.
Configure(t) ==
  /\ at[t] = "begin" /\ op[t] = "config"
  /\ Goes(t, "release")
  /\ UNCHANGED <<shared, op, raised, air, work, held, astray>>

\* Mutant: a call the driver does not have.
StopUnnamed(t) ==
  /\ at[t] = "idle"
  /\ op' = [op EXCEPT ![t] = "cancel"] /\ Goes(t, "release")
  /\ UNCHANGED <<shared, raised, air, work, held, astray>>

\* lora_recv_async(NULL), by whichever thread, whatever the modem does
Stop(t) ==
  /\ at[t] = "idle"
  /\ op' = [op EXCEPT ![t] = "stop"] /\ Goes(t, "release")
  /\ UNCHANGED <<shared, raised, air, work, held, astray>>

\* The k_poll of lora_send and lora_recv has timed out.
Expire(t) ==
  /\ at[t] = "wait" /\ ~raised[t]
  /\ Goes(t, "release")
  /\ UNCHANGED <<shared, op, raised, air, work, held, astray>>

\* Is it its own reception or call that the thread releases?
Own(t) == IF op[t] = "stop" THEN listening ELSE owner = t

\* Mutant: a caller that finds the modem released has failed; it does not wait.
ReleaseGivesUp(t) ==
  /\ at[t] = "release"
  /\ IF usage = "busy"
     THEN /\ usage' = "cleanup" /\ Goes(t, "cleanup")
          /\ astray' = (astray \/ ~Own(t)) /\ UNCHANGED op
     ELSE Returns(t) /\ UNCHANGED <<usage, astray>>
  /\ UNCHANGED <<signal, callback, params, raised, air, work, held>>

\* modem_release up to the CAS: it takes the modem if it is busy, for whomever.
\* Who finds it released is done, or waits for the signal for ever.
Release(t) ==
  /\ at[t] = "release"
  /\ IF usage = "busy"
     THEN /\ usage' = "cleanup" /\ Goes(t, "cleanup")
          /\ astray' = (astray \/ ~Own(t)) /\ UNCHANGED op
     ELSE /\ IF op[t] \in {"send", "recv"} THEN Goes(t, "forever") /\ UNCHANGED op
                                           ELSE Returns(t)
          /\ UNCHANGED <<usage, astray>>
  /\ UNCHANGED <<signal, callback, params, raised, air, work, held>>

\* Mutant: the radio is left as it is.
SleepNot(t) ==
  /\ at[t] = "cleanup"
  /\ late' = (hat = "fetched") /\ Goes(t, "asleep")
  /\ UNCHANGED <<shared, op, raised, air, ev, hat, hsig, held, astray>>

\* modem_release: the radio sleeps,
Sleep(t) ==
  /\ at[t] = "cleanup"
  /\ radio' = "sleep" /\ sender' = Nobody
  /\ late' = (hat = "fetched") /\ Goes(t, "asleep")
  /\ UNCHANGED <<shared, op, raised, fate, ev, hat, hsig, held, astray>>

\* and the modem goes back.
FreeModem == signal' = Nobody /\ usage' = "free" /\ owner' = Nobody /\ listening' = FALSE

Cleanup(t) ==
  /\ at[t] = "asleep"
  /\ FreeModem /\ Leaves(t)
  /\ UNCHANGED <<callback, params, radio, sender, work, astray>>

Signalled(t) ==
  /\ at[t] \in {"wait", "forever"} /\ raised[t]
  /\ Leaves(t)
  /\ UNCHANGED <<shared, radio, sender, work, held, astray>>

\* A call that was begun goes on.
Continues(t) ==
  \/ StoreSend(t) \/ StoreRecv(t) \/ StoreListen(t)
  \/ StartSend(t) \/ StartRecv(t) \/ StartListen(t) \/ StartCw(t) \/ Configure(t)
  \/ Expire(t) \/ Release(t) \/ Sleep(t) \/ Cleanup(t) \/ Signalled(t)

Thread(t) == Acquire(t) \/ Stop(t) \/ Continues(t)

-----------------------------------------------------------------------------
(* The work queue. *)

\* A fate is recorded as long as nothing went astray.
Fate(f) == fate' = IF astray THEN fate ELSE [fate EXCEPT ![sender] = f]

\* The radio library: which event is it?  The radio gives a transmission up
\* (SetTxConfig, 4000 ms) as it ends a wave.
Fetch ==
  /\ hat = "idle" /\ hat' = "fetched" /\ late' = FALSE
  /\ \/ radio = "tx" /\ ev' = "tx_done" /\ radio' = "standby" /\ Fate("sent")
     \/ radio = "tx" /\ ev' = "tx_timeout" /\ radio' = "standby" /\ Fate("givenup")
     \/ radio = "cw" /\ ev' = "tx_timeout" /\ radio' = "standby" /\ UNCHANGED fate
     \/ radio = "rx" /\ ev' = "rx_done" /\ UNCHANGED <<radio, fate>>
  /\ sender' = Nobody
  /\ UNCHANGED <<shared, threads, hsig, held, astray>>

\* sx12xx_ev_rx_done in asynchronous mode: reception goes on.
RxDoneAsync ==
  /\ hat = "fetched" /\ ev = "rx_done" /\ callback
  /\ radio' = "rx" /\ sender' = Nobody /\ astray' = (astray \/ late)
  /\ hat' = "idle" /\ ev' = "none" /\ late' = FALSE
  /\ UNCHANGED <<shared, threads, fate, hsig, held>>

\* Mutant: the end of a transmission is signalled, whatever it was.
TakesOverSignalling ==
  /\ usage' = "cleanup" /\ hat' = "cleanup"
  /\ hsig' = signal
  /\ astray' = (astray \/ late) /\ late' = FALSE /\ UNCHANGED ev

\* The handler has taken the modem, whoever has it.
TakesOver ==
  /\ usage' = "cleanup" /\ hat' = "cleanup"
  /\ hsig' = IF ev = "tx_timeout" THEN Nobody ELSE signal
  /\ astray' = (astray \/ late) /\ late' = FALSE /\ UNCHANGED ev

\* Mutant: the handler does not ask whether the modem was released.
TakeOverAnyway ==
  /\ hat = "fetched" /\ ~(ev = "rx_done" /\ callback)
  /\ TakesOver
  /\ UNCHANGED <<signal, callback, params, threads, air, held>>

\* The event handlers up to the CAS; sig is read just before it.
TakeOver ==
  /\ hat = "fetched" /\ ~(ev = "rx_done" /\ callback)
  /\ IF usage = "busy" THEN TakesOver
     ELSE hat' = "idle" /\ ev' = "none" /\ late' = FALSE /\ UNCHANGED <<usage, hsig, astray>>
  /\ UNCHANGED <<signal, callback, params, threads, air, held>>

\* Mutant: the signal is read after the modem was released.
FinishRereads ==
  /\ hat = "cleanup"
  /\ radio' = "sleep" /\ sender' = Nobody /\ FreeModem
  /\ hat' = "idle" /\ ev' = "none" /\ hsig' = Nobody
  /\ UNCHANGED <<callback, params, op, at, raised, fate, late, astray>>

\* A received packet is copied, the radio put to sleep, the modem released and
\* the signal raised.  For NULL the handler of rx_done has undefined behaviour,
\* here nothing: it happens only astray.
Finish ==
  /\ hat = "cleanup"
  /\ radio' = "sleep" /\ sender' = Nobody /\ FreeModem
  /\ raised' = IF hsig # Nobody THEN [raised EXCEPT ![hsig] = TRUE] ELSE raised
  /\ hat' = "idle" /\ ev' = "none" /\ hsig' = Nobody
  /\ UNCHANGED <<callback, params, op, at, fate, late, astray>>

WorkQueue == Fetch \/ RxDoneAsync \/ TakeOver \/ Finish

Next == WorkQueue \/ \E t \in Threads : Thread(t)

Spec == Init /\ [][Next]_vars

\* A call that was begun goes on when it can, a wait expires, and the radio
\* ends what it does.
FairSpec == Spec /\ WF_vars(WorkQueue) /\ \A t \in Threads : WF_vars(Continues(t))

-----------------------------------------------------------------------------
(* Properties of every interleaving. *)

\* modem_release "guarantees that the release operations will only be run once"
\* (78-79): one party at most is between the CAS and the end of its cleanup, and
\* while one is nobody acquires the modem.
Cleaners == {t \in Threads : at[t] \in {"cleanup", "asleep"}}
ReleasedOnce ==
  /\ \A t, u \in Cleaners : t = u
  /\ hat = "cleanup" => Cleaners = {}
  /\ usage = "cleanup" <=> hat = "cleanup" \/ Cleaners # {}

\* A signal on a caller's stack is raised only while the caller is still in its
\* call, however late the event is that raises it.
SignalValid ==
  hat = "cleanup" /\ hsig # Nobody => at[hsig] \in {"start", "wait", "release", "forever"}

-----------------------------------------------------------------------------
(* Properties of a driver in which nothing went astray: no release by a      *)
(* caller whose wait was over, no cancel, and no event of a reception or     *)
(* transmission that had ended took the modem, or restarted the reception,   *)
(* of another call.                                                          *)

\* One party at a time drives the radio: a thread that starts it or cleans up,
\* or the handler that does.  A modem nobody holds is asleep ("automatically
\* placed back into sleep mode", 369-371), whichever of caller and handler
\* released it.
Drivers == {t \in Threads : at[t] \in {"begin", "start", "cleanup", "asleep"}}
Exclusive ==
  ~astray => /\ \A t, u \in Drivers : t = u
             /\ hat = "cleanup" => Drivers = {}
             /\ usage = "free" => radio = "sleep" /\ Drivers = {} /\ hat # "cleanup"

\* "lora_recv hasn't already exited due to a timeout" (123): a packet is copied
\* only for a thread that is still in lora_recv.
ReaderStays ==
  hat = "cleanup" /\ ev = "rx_done" =>
    /\ params # Nobody
    /\ op[params] = "recv" /\ at[params] \in {"wait", "release", "forever"}

\* "This lets us guarantee that the operation_done signal and pointers in
\* rx_params are always valid" (128-129): they are, of one reader, if nothing
\* went astray.
ParamsValid == ~astray => ReaderStays /\ (hat = "cleanup" /\ ev = "rx_done" => hsig = params)

\* A send that is told it succeeded had its own packet transmitted.
SentIsTrue ==
  ~astray => \A t \in Threads : op[t] \in {"send", "send_async"} /\ raised[t] => fate[t] = "sent"

\* Every call returns: "TX done interrupt is currently running" (212), so the
\* signal a caller waits for without a limit is on its way, unless the radio
\* gave its transmission up.
CallsReturn ==
  \A t \in Threads : at[t] # "idle" ~> at[t] = "idle" \/ fate[t] = "givenup" \/ astray

-----------------------------------------------------------------------------
(* The inductive invariant behind ReleasedOnce and SignalValid. *)

Waiting == {"wait", "release", "forever"}
Sends(t) == op[t] \in {"send", "send_async"}

\* A signal that is stored or taken belongs to a call that goes on and has not
\* been told.
Signals(t) == Sends(t) \/ op[t] = "recv"
InCall(t) == Signals(t) /\ ~raised[t]

SignalInv ==
  /\ TypeOK /\ ReleasedOnce
  /\ signal # Nobody => InCall(signal) /\ at[signal] \in Waiting \cup {"start", "cleanup", "asleep"}
  /\ hat = "cleanup" /\ hsig # Nobody => InCall(hsig) /\ at[hsig] \in Waiting \cup {"start"}
  /\ \A t \in Threads : /\ at[t] = "wait" => op[t] \in {"send", "recv"}
                        /\ at[t] = "release" => op[t] # "send_async"
                        /\ at[t] \in {"idle", "begin"} \/ ~Signals(t) => ~raised[t]

(* And the one behind the properties of a driver in which nothing went astray. *)

\* A free modem is asleep and nobody's.
FreeInv ==
  /\ usage = "free" => owner = Nobody /\ radio = "sleep" /\ ~listening
  /\ usage # "free" => owner # Nobody
  /\ signal # Nobody => owner = signal

\* A thread that begins, makes the settings or cleans up has the modem;
ThreadInv ==
  \A t \in Threads :
    /\ at[t] \in {"begin", "start"} \/ (at[t] = "release" /\ op[t] = "config") =>
         /\ owner = t /\ usage = "busy" /\ radio = "sleep" /\ ~listening
         /\ op[t] \notin {"none", "stop"} /\ ~raised[t] /\ fate[t] = "none"
    /\ at[t] = "start" => Signals(t) \/ (op[t] = "listen" /\ callback)
    /\ at[t] = "asleep" => radio = "sleep"
    /\ at[t] = "idle" => op[t] = "none"
    /\ ~Sends(t) => fate[t] = "none"
    /\ at[t] \in {"cleanup", "asleep"} => op[t] = "stop" \/ owner = t

\* the one it is busy for has named its signal, and its parameters.
OwnerInv ==
  /\ owner # Nobody /\ op[owner] # "none" /\ op[owner] # "stop" => ~raised[owner] /\ ~listening
  /\ usage = "busy" /\ owner # Nobody /\ InCall(owner) /\ at[owner] # "begin" =>
       /\ signal = owner
       /\ op[owner] = "recv" => params = owner /\ ~callback

\* What the radio does it does for the owner, and so is the event in hand,
\* unless it is late.
EventInv ==
  /\ radio = "tx" => owner \in Threads /\ sender = owner /\ Sends(owner)
  /\ radio = "rx" => listening \/ op[owner] = "recv"
  /\ radio = "cw" => ~listening
  /\ usage = "busy" /\ listening => radio = "rx" /\ callback
  /\ hat = "fetched" /\ ~late =>
       /\ usage # "free" /\ radio # "sleep" /\ ev # "none"
       /\ ev = "rx_done" => radio = "rx"
       /\ ev # "rx_done" => radio = "standby" /\ ~listening
       /\ ev = "tx_done" => Sends(owner) /\ fate[owner] = "sent"
  /\ hat = "cleanup" /\ hsig # Nobody =>
       /\ hsig = owner
       /\ \/ Sends(hsig) /\ ev = "tx_done" /\ fate[hsig] = "sent"
          \/ op[hsig] = "recv" /\ ev = "rx_done" /\ params = hsig
  /\ hat = "cleanup" /\ ev = "rx_done" => hsig # Nobody
  /\ hat = "cleanup" => ~listening

OwnInv == ~astray => FreeInv /\ ThreadInv /\ OwnerInv /\ EventInv /\ SentIsTrue
===============================================================================
