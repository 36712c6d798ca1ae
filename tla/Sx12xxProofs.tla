----------------------------- MODULE Sx12xxProofs -----------------------------
(***************************************************************************)
(* Proofs about Sx12xx, for any number of threads and every interleaving   *)
(* of them with the work queue.                                            *)
(*                                                                         *)
(* SignalInv carries what holds whatever happens: ReleasedOnce and         *)
(* SignalValid.  A signal that is stored, or taken by the handler, belongs *)
(* to a call that has not been told; such a call leaves only by a cleanup  *)
(* of its own, and there is one cleaner at a time.                         *)
(*                                                                         *)
(* OwnInv carries what holds until something goes astray.  None of         *)
(* Exclusive, ParamsValid and SentIsTrue is inductive: each needs to know  *)
(* for whom the modem is busy.  The history variable owner says it, and    *)
(* OwnInv how usage, signal, params, the radio and the event in hand agree *)
(* with it.  A release or an event that takes what is not its own sets     *)
(* astray in the same step, so no step is excluded.                        *)
(*                                                                         *)
(* There is one lemma per action and invariant.                            *)
(***************************************************************************)
EXTENDS Sx12xx, TLAPS

USE Sx12xxAssumption DEF Goes, Returns, shared, threads, air, work, held, Ops

-----------------------------------------------------------------------------
(* The threads, whatever happens. *)

\* A free modem has no cleaner, and the signal is of no idle thread.
LEMMA AcquireKeepsSignal ==
  ASSUME SignalInv, NEW t \in Threads, Acquire(t)
  PROVE  SignalInv'
<1> USE DEF Acquire, Takes
<1>1. TypeOK'
  BY DEF SignalInv, TypeOK
<1>2. ReleasedOnce'
  BY DEF SignalInv, TypeOK, ReleasedOnce, Cleaners
<1> QED
  BY <1>1, <1>2 DEF SignalInv, TypeOK, ReleasedOnce, Cleaners, InCall, Signals, Sends, Waiting

\* The signal that is stored has not been raised.
LEMMA StoreSendKeepsSignal ==
  ASSUME SignalInv, NEW t \in Threads, StoreSend(t)
  PROVE  SignalInv'
<1> USE DEF StoreSend
<1>1. TypeOK'
  BY DEF SignalInv, TypeOK
<1>2. ReleasedOnce'
  BY DEF SignalInv, TypeOK, ReleasedOnce, Cleaners
<1> QED
  BY <1>1, <1>2 DEF SignalInv, TypeOK, ReleasedOnce, Cleaners, InCall, Signals, Sends, Waiting

\* The same of a receiver, who also stores where the packet goes.
LEMMA StoreRecvKeepsSignal ==
  ASSUME SignalInv, NEW t \in Threads, StoreRecv(t)
  PROVE  SignalInv'
<1> USE DEF StoreRecv
<1>1. TypeOK'
  BY ZenonT(40) DEF SignalInv, TypeOK
<1>2. ReleasedOnce'
  BY DEF SignalInv, TypeOK, ReleasedOnce, Cleaners
<1> QED
  BY <1>1, <1>2 DEF SignalInv, TypeOK, ReleasedOnce, Cleaners, InCall, Signals, Sends, Waiting

\* No signal is stored.
LEMMA StoreListenKeepsSignal ==
  ASSUME SignalInv, NEW t \in Threads, StoreListen(t)
  PROVE  SignalInv'
<1> USE DEF StoreListen
<1>1. TypeOK'
  BY DEF SignalInv, TypeOK
<1>2. ReleasedOnce'
  BY DEF SignalInv, TypeOK, ReleasedOnce, Cleaners
<1> QED
  BY <1>1, <1>2 DEF SignalInv, TypeOK, ReleasedOnce, Cleaners, InCall, Signals, Sends, Waiting

\* The sender waits.
LEMMA StartSendKeepsSignal ==
  ASSUME SignalInv, NEW t \in Threads, StartSend(t)
  PROVE  SignalInv'
<1> USE DEF StartSend
<1>1. TypeOK'
  BY DEF SignalInv, TypeOK
<1>2. ReleasedOnce'
  BY DEF SignalInv, TypeOK, ReleasedOnce, Cleaners
<1> QED
  BY <1>1, <1>2 DEF SignalInv, TypeOK, ReleasedOnce, Cleaners, InCall, Signals, Sends, Waiting

\* The receiver waits.
LEMMA StartRecvKeepsSignal ==
  ASSUME SignalInv, NEW t \in Threads, StartRecv(t)
  PROVE  SignalInv'
<1> USE DEF StartRecv
<1>1. TypeOK'
  BY DEF SignalInv, TypeOK
<1>2. ReleasedOnce'
  BY DEF SignalInv, TypeOK, ReleasedOnce, Cleaners
<1> QED
  BY <1>1, <1>2 DEF SignalInv, TypeOK, ReleasedOnce, Cleaners, InCall, Signals, Sends, Waiting

\* The listener has no signal.
LEMMA StartListenKeepsSignal ==
  ASSUME SignalInv, NEW t \in Threads, StartListen(t)
  PROVE  SignalInv'
<1> USE DEF StartListen
<1>1. TypeOK'
  BY DEF SignalInv, TypeOK
<1>2. ReleasedOnce'
  BY DEF SignalInv, TypeOK, ReleasedOnce, Cleaners
<1> QED
  BY <1>1, <1>2 DEF SignalInv, TypeOK, ReleasedOnce, Cleaners, InCall, Signals, Sends, Waiting

\* Nor has the wave.
LEMMA StartCwKeepsSignal ==
  ASSUME SignalInv, NEW t \in Threads, StartCw(t)
  PROVE  SignalInv'
<1> USE DEF StartCw
<1>1. TypeOK'
  BY DEF SignalInv, TypeOK
<1>2. ReleasedOnce'
  BY DEF SignalInv, TypeOK, ReleasedOnce, Cleaners
<1> QED
  BY <1>1, <1>2 DEF SignalInv, TypeOK, ReleasedOnce, Cleaners, InCall, Signals, Sends, Waiting

\* Nor have the settings.
LEMMA ConfigureKeepsSignal ==
  ASSUME SignalInv, NEW t \in Threads, Configure(t)
  PROVE  SignalInv'
<1> USE DEF Configure
<1>1. TypeOK'
  BY DEF SignalInv, TypeOK
<1>2. ReleasedOnce'
  BY DEF SignalInv, TypeOK, ReleasedOnce, Cleaners
<1> QED
  BY <1>1, <1>2 DEF SignalInv, TypeOK, ReleasedOnce, Cleaners, InCall, Signals, Sends, Waiting

\* A thread that cancels was idle: no signal is its own.
LEMMA StopKeepsSignal ==
  ASSUME SignalInv, NEW t \in Threads, Stop(t)
  PROVE  SignalInv'
<1> USE DEF Stop
<1>1. TypeOK'
  BY DEF SignalInv, TypeOK
<1>2. ReleasedOnce'
  BY DEF SignalInv, TypeOK, ReleasedOnce, Cleaners
<1> QED
  BY <1>1, <1>2 DEF SignalInv, TypeOK, ReleasedOnce, Cleaners, InCall, Signals, Sends, Waiting

\* The wait is over, the call is not.
LEMMA ExpireKeepsSignal ==
  ASSUME SignalInv, NEW t \in Threads, Expire(t)
  PROVE  SignalInv'
<1> USE DEF Expire
<1>1. TypeOK'
  BY DEF SignalInv, TypeOK
<1>2. ReleasedOnce'
  BY DEF SignalInv, TypeOK, ReleasedOnce, Cleaners
<1> QED
  BY <1>1, <1>2 DEF SignalInv, TypeOK, ReleasedOnce, Cleaners, InCall, Signals, Sends, Waiting

\* The CAS finds no cleaner, or the caller waits on.
LEMMA ReleaseKeepsSignal ==
  ASSUME SignalInv, NEW t \in Threads, Release(t)
  PROVE  SignalInv'
<1> USE DEF Release
<1>1. TypeOK'
  BY ZenonT(40) DEF SignalInv, TypeOK
<1>2. ReleasedOnce'
  BY DEF SignalInv, TypeOK, ReleasedOnce, Cleaners
<1> QED
  BY <1>1, <1>2 DEF SignalInv, TypeOK, ReleasedOnce, Cleaners, InCall, Signals, Sends, Waiting

\* The cleaner cleans on.
LEMMA SleepKeepsSignal ==
  ASSUME SignalInv, NEW t \in Threads, Sleep(t)
  PROVE  SignalInv'
<1> USE DEF Sleep
<1>1. TypeOK'
  BY DEF SignalInv, TypeOK
<1>2. ReleasedOnce'
  BY DEF SignalInv, TypeOK, ReleasedOnce, Cleaners
<1> QED
  BY <1>1, <1>2 DEF SignalInv, TypeOK, ReleasedOnce, Cleaners, InCall, Signals, Sends, Waiting

\* The only cleaner ends; no signal is stored any more.
LEMMA CleanupKeepsSignal ==
  ASSUME SignalInv, NEW t \in Threads, Cleanup(t)
  PROVE  SignalInv'
<1> USE DEF Cleanup, FreeModem, Leaves
<1>1. TypeOK'
  BY ZenonT(40) DEF SignalInv, TypeOK
<1>2. ReleasedOnce'
  BY DEF SignalInv, TypeOK, ReleasedOnce, Cleaners
<1> QED
  BY <1>1, <1>2 DEF SignalInv, TypeOK, ReleasedOnce, Cleaners, InCall, Signals, Sends, Waiting

\* A signal that was raised is neither stored nor taken.
LEMMA SignalledKeepsSignal ==
  ASSUME SignalInv, NEW t \in Threads, Signalled(t)
  PROVE  SignalInv'
<1> USE DEF Signalled, Leaves
<1>1. TypeOK'
  BY DEF SignalInv, TypeOK
<1>2. ReleasedOnce'
  BY DEF SignalInv, TypeOK, ReleasedOnce, Cleaners
<1> QED
  BY <1>1, <1>2 DEF SignalInv, TypeOK, ReleasedOnce, Cleaners, InCall, Signals, Sends, Waiting

-----------------------------------------------------------------------------
(* The work queue. *)

\* The radio's word is not the modem's.
LEMMA FetchKeepsSignal ==
  ASSUME SignalInv, Fetch
  PROVE  SignalInv'
<1> USE DEF Fetch, Fate
<1>1. TypeOK'
  BY ZenonT(40) DEF SignalInv, TypeOK
<1>2. ReleasedOnce'
  BY DEF SignalInv, TypeOK, ReleasedOnce, Cleaners
<1> QED
  BY <1>1, <1>2 DEF SignalInv, TypeOK, ReleasedOnce, Cleaners, InCall, Signals, Sends, Waiting

\* Nor is a reception that goes on.
LEMMA RxDoneAsyncKeepsSignal ==
  ASSUME SignalInv, RxDoneAsync
  PROVE  SignalInv'
<1> USE DEF RxDoneAsync
<1>1. TypeOK'
  BY ZenonT(40) DEF SignalInv, TypeOK
<1>2. ReleasedOnce'
  BY DEF SignalInv, TypeOK, ReleasedOnce, Cleaners
<1> QED
  BY <1>1, <1>2 DEF SignalInv, TypeOK, ReleasedOnce, Cleaners, InCall, Signals, Sends, Waiting

\* The signal that is taken is that of a call that goes on.
LEMMA TakeOverKeepsSignal ==
  ASSUME SignalInv, TakeOver
  PROVE  SignalInv'
<1> USE DEF TakeOver, TakesOver
<1>1. TypeOK'
  <2>1. CASE usage = "busy"
    BY <2>1, ZenonT(40) DEF SignalInv, TypeOK
  <2>2. CASE usage # "busy"
    BY <2>2, ZenonT(40) DEF SignalInv, TypeOK
  <2> QED
    BY <2>1, <2>2
<1>2. ReleasedOnce'
  BY DEF SignalInv, TypeOK, ReleasedOnce, Cleaners
<1> QED
  BY <1>1, <1>2 DEF SignalInv, TypeOK, ReleasedOnce, Cleaners, InCall, Signals, Sends, Waiting

\* The handler was the only cleaner; the signal it raises is forgotten.
LEMMA FinishKeepsSignal ==
  ASSUME SignalInv, Finish
  PROVE  SignalInv'
<1> USE DEF Finish, FreeModem
<1>1. TypeOK'
  BY DEF SignalInv, TypeOK
<1>2. ReleasedOnce'
  BY DEF SignalInv, TypeOK, ReleasedOnce, Cleaners
<1> QED
  BY <1>1, <1>2 DEF SignalInv, TypeOK, ReleasedOnce, Cleaners, InCall, Signals, Sends, Waiting

-----------------------------------------------------------------------------
(* The threads, in a driver in which nothing went astray. *)

USE DEF SignalInv, TypeOK, ReleasedOnce, Cleaners, InCall, Signals, Sends, Waiting,
        FreeInv, ThreadInv, OwnerInv, EventInv, SentIsTrue, Own

\* The modem was free, so nothing runs that the new owner would disturb.
LEMMA AcquireKeepsOwn ==
  ASSUME SignalInv, OwnInv, NEW t \in Threads, Acquire(t)
  PROVE  OwnInv'
<1> USE DEF Acquire, Takes
<1>0. SUFFICES ASSUME ~astray, ~astray', FreeInv, ThreadInv, OwnerInv, EventInv, SentIsTrue
               PROVE  FreeInv' /\ ThreadInv' /\ OwnerInv' /\ EventInv' /\ SentIsTrue'
  BY DEF OwnInv
<1>1. FreeInv'
  BY <1>0
<1>2. ThreadInv'
  BY <1>0
<1>3. OwnerInv'
  BY <1>0
<1>4. EventInv'
  BY <1>0
<1>5. SentIsTrue'
  BY <1>0
<1> QED
  BY <1>1, <1>2, <1>3, <1>4, <1>5

\* The owner names its signal.
LEMMA StoreSendKeepsOwn ==
  ASSUME SignalInv, OwnInv, NEW t \in Threads, StoreSend(t)
  PROVE  OwnInv'
<1> USE DEF StoreSend
<1>0. SUFFICES ASSUME ~astray, ~astray', FreeInv, ThreadInv, OwnerInv, EventInv, SentIsTrue
               PROVE  FreeInv' /\ ThreadInv' /\ OwnerInv' /\ EventInv' /\ SentIsTrue'
  BY DEF OwnInv
<1>1. FreeInv'
  BY <1>0
<1>2. ThreadInv'
  BY <1>0
<1>3. OwnerInv'
  BY <1>0
<1>4. EventInv'
  BY <1>0
<1>5. SentIsTrue'
  BY <1>0
<1> QED
  BY <1>1, <1>2, <1>3, <1>4, <1>5

\* And its parameters.
LEMMA StoreRecvKeepsOwn ==
  ASSUME SignalInv, OwnInv, NEW t \in Threads, StoreRecv(t)
  PROVE  OwnInv'
<1> USE DEF StoreRecv
<1>0. SUFFICES ASSUME ~astray, ~astray', FreeInv, ThreadInv, OwnerInv, EventInv, SentIsTrue
               PROVE  FreeInv' /\ ThreadInv' /\ OwnerInv' /\ EventInv' /\ SentIsTrue'
  BY DEF OwnInv
<1>1. FreeInv'
  BY <1>0
<1>2. ThreadInv'
  BY <1>0
<1>3. OwnerInv'
  BY <1>0
<1>4. EventInv'
  BY <1>0
<1>5. SentIsTrue'
  BY <1>0
<1> QED
  BY <1>1, <1>2, <1>3, <1>4, <1>5

\* The owner has no signal.
LEMMA StoreListenKeepsOwn ==
  ASSUME SignalInv, OwnInv, NEW t \in Threads, StoreListen(t)
  PROVE  OwnInv'
<1> USE DEF StoreListen
<1>0. SUFFICES ASSUME ~astray, ~astray', FreeInv, ThreadInv, OwnerInv, EventInv, SentIsTrue
               PROVE  FreeInv' /\ ThreadInv' /\ OwnerInv' /\ EventInv' /\ SentIsTrue'
  BY DEF OwnInv
<1>1. FreeInv'
  BY <1>0
<1>2. ThreadInv'
  BY <1>0
<1>3. OwnerInv'
  BY <1>0
<1>4. EventInv'
  BY <1>0
<1>5. SentIsTrue'
  BY <1>0
<1> QED
  BY <1>1, <1>2, <1>3, <1>4, <1>5

\* The packet on the air is the owner's.
LEMMA StartSendKeepsOwn ==
  ASSUME SignalInv, OwnInv, NEW t \in Threads, StartSend(t)
  PROVE  OwnInv'
<1> USE DEF StartSend
<1>0. SUFFICES ASSUME ~astray, ~astray', FreeInv, ThreadInv, OwnerInv, EventInv, SentIsTrue
               PROVE  FreeInv' /\ ThreadInv' /\ OwnerInv' /\ EventInv' /\ SentIsTrue'
  BY DEF OwnInv
<1>1. FreeInv'
  BY <1>0
<1>2. ThreadInv'
  BY <1>0
<1>3. OwnerInv'
  BY <1>0
<1>4. EventInv'
  BY <1>0
<1>5. SentIsTrue'
  BY <1>0
<1> QED
  BY <1>1, <1>2, <1>3, <1>4, <1>5

\* The radio receives for the owner.
LEMMA StartRecvKeepsOwn ==
  ASSUME SignalInv, OwnInv, NEW t \in Threads, StartRecv(t)
  PROVE  OwnInv'
<1> USE DEF StartRecv
<1>0. SUFFICES ASSUME ~astray, ~astray', FreeInv, ThreadInv, OwnerInv, EventInv, SentIsTrue
               PROVE  FreeInv' /\ ThreadInv' /\ OwnerInv' /\ EventInv' /\ SentIsTrue'
  BY DEF OwnInv
<1>1. FreeInv'
  BY <1>0
<1>2. ThreadInv'
  BY <1>0
<1>3. OwnerInv'
  BY <1>0
<1>4. EventInv'
  BY <1>0
<1>5. SentIsTrue'
  BY <1>0
<1> QED
  BY <1>1, <1>2, <1>3, <1>4, <1>5

\* The modem is busy for the reception.
LEMMA StartListenKeepsOwn ==
  ASSUME SignalInv, OwnInv, NEW t \in Threads, StartListen(t)
  PROVE  OwnInv'
<1> USE DEF StartListen
<1>0. SUFFICES ASSUME ~astray, ~astray', FreeInv, ThreadInv, OwnerInv, EventInv, SentIsTrue
               PROVE  FreeInv' /\ ThreadInv' /\ OwnerInv' /\ EventInv' /\ SentIsTrue'
  BY DEF OwnInv
<1>1. FreeInv'
  BY <1>0
<1>2. ThreadInv'
  BY <1>0
<1>3. OwnerInv'
  BY <1>0
<1>4. EventInv'
  BY <1>0
<1>5. SentIsTrue'
  BY <1>0
<1> QED
  BY <1>1, <1>2, <1>3, <1>4, <1>5

\* The modem is busy for the wave.
LEMMA StartCwKeepsOwn ==
  ASSUME SignalInv, OwnInv, NEW t \in Threads, StartCw(t)
  PROVE  OwnInv'
<1> USE DEF StartCw
<1>0. SUFFICES ASSUME ~astray, ~astray', FreeInv, ThreadInv, OwnerInv, EventInv, SentIsTrue
               PROVE  FreeInv' /\ ThreadInv' /\ OwnerInv' /\ EventInv' /\ SentIsTrue'
  BY DEF OwnInv
<1>1. FreeInv'
  BY <1>0
<1>2. ThreadInv'
  BY <1>0
<1>3. OwnerInv'
  BY <1>0
<1>4. EventInv'
  BY <1>0
<1>5. SentIsTrue'
  BY <1>0
<1> QED
  BY <1>1, <1>2, <1>3, <1>4, <1>5

\* The settings are made, the modem is still the owner's.
LEMMA ConfigureKeepsOwn ==
  ASSUME SignalInv, OwnInv, NEW t \in Threads, Configure(t)
  PROVE  OwnInv'
<1> USE DEF Configure
<1>0. SUFFICES ASSUME ~astray, ~astray', FreeInv, ThreadInv, OwnerInv, EventInv, SentIsTrue
               PROVE  FreeInv' /\ ThreadInv' /\ OwnerInv' /\ EventInv' /\ SentIsTrue'
  BY DEF OwnInv
<1>1. FreeInv'
  BY <1>0
<1>2. ThreadInv'
  BY <1>0
<1>3. OwnerInv'
  BY <1>0
<1>4. EventInv'
  BY <1>0
<1>5. SentIsTrue'
  BY <1>0
<1> QED
  BY <1>1, <1>2, <1>3, <1>4, <1>5

\* A thread that cancels has nothing yet.
LEMMA StopKeepsOwn ==
  ASSUME SignalInv, OwnInv, NEW t \in Threads, Stop(t)
  PROVE  OwnInv'
<1> USE DEF Stop
<1>0. SUFFICES ASSUME ~astray, ~astray', FreeInv, ThreadInv, OwnerInv, EventInv, SentIsTrue
               PROVE  FreeInv' /\ ThreadInv' /\ OwnerInv' /\ EventInv' /\ SentIsTrue'
  BY DEF OwnInv
<1>1. FreeInv'
  BY <1>0
<1>2. ThreadInv'
  BY <1>0
<1>3. OwnerInv'
  BY <1>0
<1>4. EventInv'
  BY <1>0
<1>5. SentIsTrue'
  BY <1>0
<1> QED
  BY <1>1, <1>2, <1>3, <1>4, <1>5

\* The modem is still the owner's.
LEMMA ExpireKeepsOwn ==
  ASSUME SignalInv, OwnInv, NEW t \in Threads, Expire(t)
  PROVE  OwnInv'
<1> USE DEF Expire
<1>0. SUFFICES ASSUME ~astray, ~astray', FreeInv, ThreadInv, OwnerInv, EventInv, SentIsTrue
               PROVE  FreeInv' /\ ThreadInv' /\ OwnerInv' /\ EventInv' /\ SentIsTrue'
  BY DEF OwnInv
<1>1. FreeInv'
  BY <1>0
<1>2. ThreadInv'
  BY <1>0
<1>3. OwnerInv'
  BY <1>0
<1>4. EventInv'
  BY <1>0
<1>5. SentIsTrue'
  BY <1>0
<1> QED
  BY <1>1, <1>2, <1>3, <1>4, <1>5

\* The CAS of a release that does not stray finds the modem busy for its own call.
LEMMA ReleaseKeepsOwn ==
  ASSUME SignalInv, OwnInv, NEW t \in Threads, Release(t)
  PROVE  OwnInv'
<1> USE DEF Release
<1>0. SUFFICES ASSUME ~astray, ~astray', FreeInv, ThreadInv, OwnerInv, EventInv, SentIsTrue
               PROVE  FreeInv' /\ ThreadInv' /\ OwnerInv' /\ EventInv' /\ SentIsTrue'
  BY DEF OwnInv
<1>1. FreeInv'
  BY <1>0
<1>2. ThreadInv'
  <2>1. CASE usage = "busy"
    <3>1. Own(t)
      BY <1>0, <2>1
    <3>2. op[t] # "stop" => owner = t
      BY <3>1
    <3>3. at' = [at EXCEPT ![t] = "cleanup"] /\ at[t] = "release"
      BY <2>1
    <3>4. \A u \in Threads \ {t} : ~(at[u] \in {"begin", "start"} \/ (at[u] = "release" /\ op[u] = "config"))
      BY <1>0, <3>1
    <3> QED
      BY <1>0, <2>1, <3>2, <3>3, <3>4
  <2>2. CASE usage # "busy"
    BY <1>0, <2>2
  <2> QED
    BY <2>1, <2>2
<1>3. OwnerInv'
  BY <1>0
<1>4. EventInv'
  BY <1>0
<1>5. SentIsTrue'
  BY <1>0
<1> QED
  BY <1>1, <1>2, <1>3, <1>4, <1>5

\* From now on the event in hand is late.
LEMMA SleepKeepsOwn ==
  ASSUME SignalInv, OwnInv, NEW t \in Threads, Sleep(t)
  PROVE  OwnInv'
<1> USE DEF Sleep
<1>0. SUFFICES ASSUME ~astray, ~astray', FreeInv, ThreadInv, OwnerInv, EventInv, SentIsTrue
               PROVE  FreeInv' /\ ThreadInv' /\ OwnerInv' /\ EventInv' /\ SentIsTrue'
  BY DEF OwnInv
<1>1. FreeInv'
  BY <1>0
<1>2. ThreadInv'
  BY <1>0
<1>3. OwnerInv'
  BY <1>0
<1>4. EventInv'
  BY <1>0
<1>5. SentIsTrue'
  BY <1>0
<1> QED
  BY <1>1, <1>2, <1>3, <1>4, <1>5

\* A free modem is asleep.
LEMMA CleanupKeepsOwn ==
  ASSUME SignalInv, OwnInv, NEW t \in Threads, Cleanup(t)
  PROVE  OwnInv'
<1> USE DEF Cleanup, FreeModem, Leaves
<1>0. SUFFICES ASSUME ~astray, ~astray', FreeInv, ThreadInv, OwnerInv, EventInv, SentIsTrue
               PROVE  FreeInv' /\ ThreadInv' /\ OwnerInv' /\ EventInv' /\ SentIsTrue'
  BY DEF OwnInv
<1>1. FreeInv'
  BY <1>0
<1>2. ThreadInv'
  BY <1>0
<1>3. OwnerInv'
  BY <1>0
<1>4. EventInv'
  BY <1>0
<1>5. SentIsTrue'
  BY <1>0
<1> QED
  BY <1>1, <1>2, <1>3, <1>4, <1>5

\* A caller that was signalled owns nothing.
LEMMA SignalledKeepsOwn ==
  ASSUME SignalInv, OwnInv, NEW t \in Threads, Signalled(t)
  PROVE  OwnInv'
<1> USE DEF Signalled, Leaves
<1>0. SUFFICES ASSUME ~astray, ~astray', FreeInv, ThreadInv, OwnerInv, EventInv, SentIsTrue
               PROVE  FreeInv' /\ ThreadInv' /\ OwnerInv' /\ EventInv' /\ SentIsTrue'
  BY DEF OwnInv
<1>1. FreeInv'
  BY <1>0
<1>2. ThreadInv'
  BY <1>0
<1>3. OwnerInv'
  BY <1>0
<1>4. EventInv'
  BY <1>0
<1>5. SentIsTrue'
  BY <1>0
<1> QED
  BY <1>1, <1>2, <1>3, <1>4, <1>5

-----------------------------------------------------------------------------
(* The work queue. *)

\* The event is that of the owner.
LEMMA FetchKeepsOwn ==
  ASSUME SignalInv, OwnInv, Fetch
  PROVE  OwnInv'
<1> USE DEF Fetch, Fate
<1>0. SUFFICES ASSUME ~astray, ~astray', FreeInv, ThreadInv, OwnerInv, EventInv, SentIsTrue
               PROVE  FreeInv' /\ ThreadInv' /\ OwnerInv' /\ EventInv' /\ SentIsTrue'
  BY DEF OwnInv
<1>1. FreeInv'
  BY <1>0
<1>2. ThreadInv'
  BY <1>0
<1>3. OwnerInv'
  BY <1>0
<1>4. EventInv'
  <2>1. CASE radio = "rx"
    BY <1>0, <2>1
  <2>2. CASE radio = "cw"
    BY <1>0, <2>2
  <2>3. CASE radio = "tx"
    <3>1. sender = owner /\ owner \in Threads /\ Sends(owner) /\ hat' = "fetched" /\ usage # "free"
      BY <1>0, <2>3
    <3>2. ev' = "tx_done" => fate'[owner] = "sent"
      BY <1>0, <2>3, <3>1
    <3>3. ~listening
      BY <1>0, <3>1
    <3> QED
      BY <1>0, <2>3, <3>1, <3>2, <3>3
  <2> QED
    BY <2>1, <2>2, <2>3
<1>5. SentIsTrue'
  <2>1. \A u \in Threads : Sends(u) /\ raised[u] => owner # u
    BY <1>0
  <2>2. \A u \in Threads : u # owner => fate'[u] = fate[u]
    BY <1>0
  <2> QED
    BY <1>0, <2>1, <2>2
<1> QED
  BY <1>1, <1>2, <1>3, <1>4, <1>5

\* Reception goes on for the owner.
LEMMA RxDoneAsyncKeepsOwn ==
  ASSUME SignalInv, OwnInv, RxDoneAsync
  PROVE  OwnInv'
<1> USE DEF RxDoneAsync
<1>0. SUFFICES ASSUME ~astray, ~astray', FreeInv, ThreadInv, OwnerInv, EventInv, SentIsTrue
               PROVE  FreeInv' /\ ThreadInv' /\ OwnerInv' /\ EventInv' /\ SentIsTrue'
  BY DEF OwnInv
<1>1. FreeInv'
  BY <1>0
<1>2. ThreadInv'
  BY <1>0
<1>3. OwnerInv'
  BY <1>0
<1>4. EventInv'
  BY <1>0
<1>5. SentIsTrue'
  BY <1>0
<1> QED
  BY <1>1, <1>2, <1>3, <1>4, <1>5

\* An event that is not late takes the modem and the signal from the one it is about.
LEMMA TakeOverKeepsOwn ==
  ASSUME SignalInv, OwnInv, TakeOver
  PROVE  OwnInv'
<1> USE DEF TakeOver, TakesOver
<1>0. SUFFICES ASSUME ~astray, ~astray', FreeInv, ThreadInv, OwnerInv, EventInv, SentIsTrue
               PROVE  FreeInv' /\ ThreadInv' /\ OwnerInv' /\ EventInv' /\ SentIsTrue'
  BY DEF OwnInv
<1>1. FreeInv'
  BY <1>0
<1>2. ThreadInv'
  BY <1>0
<1>3. OwnerInv'
  BY <1>0
<1>4. EventInv'
  <2>1. CASE usage = "busy"
    <3>1. ~late
      BY <1>0, <2>1
    <3>2. hat' = "cleanup" /\ usage' = "cleanup" /\ ev' = ev
      BY <2>1
    <3>3. ~listening
      BY <1>0, <2>1, <3>1
    <3>4. CASE ev = "tx_timeout"
      BY <1>0, <2>1, <3>2, <3>3, <3>4
    <3>5. CASE ev = "tx_done"
      BY <1>0, <2>1, <3>1, <3>2, <3>3, <3>5
    <3>6. CASE ev = "rx_done"
      <4>1. radio = "rx" /\ op[owner] = "recv" /\ owner \in Threads
        BY <1>0, <2>1, <3>1, <3>3, <3>6
      <4>2. signal = owner /\ params = owner
        BY <1>0, <2>1, <4>1
      <4>3. hsig' = owner
        BY <2>1, <3>6, <4>2
      <4> QED
        BY <1>0, <3>2, <3>3, <3>6, <4>1, <4>2, <4>3
    <3> QED
      BY <1>0, <2>1, <3>4, <3>5, <3>6
  <2>2. CASE usage # "busy"
    BY <1>0, <2>2
  <2> QED
    BY <2>1, <2>2
<1>5. SentIsTrue'
  BY <1>0
<1> QED
  BY <1>1, <1>2, <1>3, <1>4, <1>5

\* Everything of the owner is gone.
LEMMA FinishKeepsOwn ==
  ASSUME SignalInv, OwnInv, Finish
  PROVE  OwnInv'
<1> USE DEF Finish, FreeModem
<1>0. SUFFICES ASSUME ~astray, ~astray', FreeInv, ThreadInv, OwnerInv, EventInv, SentIsTrue
               PROVE  FreeInv' /\ ThreadInv' /\ OwnerInv' /\ EventInv' /\ SentIsTrue'
  BY DEF OwnInv
<1>1. FreeInv'
  BY <1>0
<1>2. ThreadInv'
  BY <1>0
<1>3. OwnerInv'
  BY <1>0
<1>4. EventInv'
  BY <1>0
<1>5. SentIsTrue'
  BY <1>0
<1> QED
  BY <1>1, <1>2, <1>3, <1>4, <1>5

-----------------------------------------------------------------------------
(* The invariants and what follows from them. *)

\* Every step, whatever happens.
LEMMA NextKeepsSignal ==
  ASSUME SignalInv, [Next]_vars
  PROVE  SignalInv'
<1>1. CASE WorkQueue
  BY <1>1, FetchKeepsSignal, RxDoneAsyncKeepsSignal, TakeOverKeepsSignal, FinishKeepsSignal DEF WorkQueue
<1>2. CASE \E t \in Threads : Thread(t)
  <2>1. PICK t \in Threads : Thread(t)
    BY <1>2
  <2> QED
    BY <2>1, AcquireKeepsSignal, StoreSendKeepsSignal, StoreRecvKeepsSignal,
       StoreListenKeepsSignal, StartSendKeepsSignal, StartRecvKeepsSignal,
       StartListenKeepsSignal, StartCwKeepsSignal, ConfigureKeepsSignal, StopKeepsSignal,
       ExpireKeepsSignal, ReleaseKeepsSignal, SleepKeepsSignal, CleanupKeepsSignal,
       SignalledKeepsSignal
       DEF Thread, Continues
<1>3. CASE UNCHANGED vars
  BY <1>3 DEF vars, SignalInv, OwnInv
<1> QED
  BY <1>1, <1>2, <1>3 DEF Next

\* Every step, if nothing goes astray in it.
LEMMA NextKeepsOwn ==
  ASSUME SignalInv, OwnInv, [Next]_vars
  PROVE  OwnInv'
<1>1. CASE WorkQueue
  BY <1>1, FetchKeepsOwn, RxDoneAsyncKeepsOwn, TakeOverKeepsOwn, FinishKeepsOwn DEF WorkQueue
<1>2. CASE \E t \in Threads : Thread(t)
  <2>1. PICK t \in Threads : Thread(t)
    BY <1>2
  <2> QED
    BY <2>1, AcquireKeepsOwn, StoreSendKeepsOwn, StoreRecvKeepsOwn, StoreListenKeepsOwn,
       StartSendKeepsOwn, StartRecvKeepsOwn, StartListenKeepsOwn, StartCwKeepsOwn,
       ConfigureKeepsOwn, StopKeepsOwn, ExpireKeepsOwn, ReleaseKeepsOwn, SleepKeepsOwn,
       CleanupKeepsOwn, SignalledKeepsOwn
       DEF Thread, Continues
<1>3. CASE UNCHANGED vars
  BY <1>3 DEF vars, SignalInv, OwnInv
<1> QED
  BY <1>1, <1>2, <1>3 DEF Next

\* The driver after sx12xx_init, which nobody has called yet.
LEMMA InitEstablishes == Init => SignalInv /\ OwnInv
<1> SUFFICES ASSUME Init PROVE SignalInv /\ OwnInv
  OBVIOUS
<1>1. TypeOK
  BY DEF Init
<1>2. ReleasedOnce /\ SignalInv
  BY <1>1 DEF Init
<1>3. FreeInv /\ ThreadInv /\ OwnerInv /\ EventInv /\ SentIsTrue
  BY DEF Init
<1> QED
  BY <1>2, <1>3 DEF OwnInv

\* Both invariants together.
LEMMA Invariance == Spec => [](SignalInv /\ OwnInv)
<1>1. SignalInv /\ OwnInv /\ [Next]_vars => (SignalInv /\ OwnInv)'
  BY NextKeepsSignal, NextKeepsOwn
<1> QED
  BY InitEstablishes, <1>1, PTL DEF Spec

\* The variables have their types.
THEOREM TypeCorrect == Spec => []TypeOK
<1>1. SignalInv => TypeOK
  BY DEF SignalInv
<1> QED
  BY <1>1, Invariance, PTL

\* The release operations run once: one party at most cleans up, and the modem
\* word says so (modem_release, sx12xx_ev_rx_done), in every interleaving.
THEOREM ReleasedOnceHolds == Spec => []ReleasedOnce
<1>1. SignalInv => ReleasedOnce
  BY DEF SignalInv
<1> QED
  BY <1>1, Invariance, PTL

\* The signal a handler is going to raise is on the stack of a caller that has
\* not returned (sx12xx_ev_tx_done, sx12xx_ev_rx_done), in every interleaving.
THEOREM SignalValidHolds == Spec => []SignalValid
<1>1. SignalInv => SignalValid
  BY DEF SignalInv, SignalValid
<1> QED
  BY <1>1, Invariance, PTL

\* One party at a time drives the radio, and while none does it sleeps and the
\* modem is free, until a release or an event takes what is not its own
\* (modem_acquire, modem_release and the event handlers).
THEOREM ExclusiveHolds == Spec => []Exclusive
<1>1. SignalInv /\ OwnInv => Exclusive
  BY DEF SignalInv, OwnInv, ReleasedOnce, Cleaners, FreeInv, ThreadInv, Exclusive, Drivers
<1> QED
  BY <1>1, Invariance, PTL

\* A packet is copied, and signalled, only to a thread that is still in lora_recv
\* (sx12xx_ev_rx_done), until something goes astray.
THEOREM ParamsValidHolds == Spec => []ParamsValid
<1>1. SignalInv /\ OwnInv => ParamsValid
  BY DEF SignalInv, OwnInv, ParamsValid, ReaderStays
<1> QED
  BY <1>1, Invariance, PTL

\* A send that is told it succeeded had its own packet transmitted
\* (sx12xx_lora_send, sx12xx_lora_send_async, sx12xx_ev_tx_done), until
\* something goes astray.
THEOREM SentIsTrueHolds == Spec => []SentIsTrue
<1>1. OwnInv => SentIsTrue
  BY DEF OwnInv, SentIsTrue
<1> QED
  BY <1>1, Invariance, PTL
=============================================================================
