------------------------------- MODULE Rn2483 -------------------------------
(***************************************************************************)
(* The RN2483 LoRa driver and its application (zephyr-rn2483-poc:          *)
(* module/drivers/lora/rn2483/rn2483.c, app/src/main.c): commands and      *)
(* answers are lines on a UART, the driver polls for the next line until a *)
(* timeout, and takes any line for the answer to what it wrote last.       *)
(*                                                                         *)
(* Abstractions: a command is its name, a line is what it says and, as     *)
(* history, the transmission it is about; the payload is left out, two     *)
(* sends differ in their number.                                           *)
(***************************************************************************)
EXTENDS Naturals, Sequences

CONSTANTS
  MaxSends,  \* bound: calls of lora_send
  Faults     \* subset of {"slow", "split", "refuse", "deaf"}

Rn2483Assumption ==
  /\ MaxSends \in Nat
  /\ Faults \subseteq {"slow", "split", "refuse", "deaf"}

Settings == <<"freq", "pwr", "sf", "bw">>   \* in the order of rn2483_config
Command == [name : {"ver", "tx"} \cup {Settings[i] : i \in 1..4}, of : 0..MaxSends]
Line == [text : {"ok", "error", "tx_ok", "tx_err", "version", "garbled"},
         of : 0..MaxSends]

VARIABLES
  pc,          \* what the caller is doing
  step,        \* rn2483_config: the setting under way
  sends,       \* calls of lora_send
  result,      \* outcome of the last call
  credited,    \* history: the transmission the last "ok" result is about
  cmds,        \* written by the driver, not yet taken up by the module
  due,         \* lines the module has still to send
  rx,          \* lines in the receiver
  programmed   \* settings the module accepted

driver == <<pc, step, sends, result, credited>>
vars == <<driver, cmds, due, rx, programmed>>

TypeOK ==
  /\ pc \in {"init", "version", "config", "set", "idle", "tx", "air"}
  /\ step \in 1..4 /\ sends \in 0..MaxSends /\ credited \in 0..MaxSends
  /\ result \in {"none", "ok", "eio", "timeout"}
  /\ cmds \in Seq(Command) /\ due \in Seq(Line) /\ rx \in Seq(Line)
  /\ programmed \subseteq {Settings[i] : i \in 1..4}

\* The module may have sent its boot banner.
Init ==
  /\ pc = "init" /\ step = 1 /\ sends = 0 /\ result = "none" /\ credited = 0
  /\ cmds = <<>> /\ due = <<>> /\ programmed = {}
  /\ rx \in {<<>>, <<[text |-> "version", of |-> 0]>>}

-----------------------------------------------------------------------------
(* The driver: write_line and read_line. *)

\* Mutant: the receiver is emptied after the command went out.
WriteAndDrain(c) == cmds' = Append(cmds, c) /\ rx' = <<>>

Write(c) == cmds' = Append(cmds, c) /\ UNCHANGED rx

ReadLine(line) == rx # <<>> /\ line = Head(rx) /\ rx' = Tail(rx)

\* No line before the deadline: the module is late, or silent.  What was read
\* of a line is dropped; its rest is taken for a line later.
ReadTimeout ==
  /\ rx = <<>>
  /\ "slow" \in Faults \/ (cmds = <<>> /\ due = <<>>)
  /\ \/ UNCHANGED due
     \/ /\ "split" \in Faults /\ due # <<>>
        /\ due' = <<[Head(due) EXCEPT !.text = "garbled"]>> \o Tail(due)
  /\ UNCHANGED <<cmds, rx, programmed>>

\* rn2483_init: drain the banner, ask for the version.
InitModule ==
  /\ pc = "init"
  /\ rx' = <<>> /\ cmds' = Append(cmds, [name |-> "ver", of |-> 0])
  /\ pc' = "version"
  /\ UNCHANGED <<step, sends, result, credited, due, programmed>>

\* Any line will do; main goes on in either case.
AwaitVersion ==
  /\ pc = "version"
  /\ \/ (\E l \in Line : ReadLine(l)) /\ UNCHANGED <<cmds, due, programmed>>
     \/ ReadTimeout
  /\ pc' = "config"
  /\ UNCHANGED <<step, sends, result, credited>>

\* rn2483_config: the next setting.
WriteSetting ==
  /\ pc = "config"
  /\ Write([name |-> Settings[step], of |-> 0])
  /\ pc' = "set"
  /\ UNCHANGED <<step, sends, result, credited, due, programmed>>

\* Mutant: goes on after a setting that failed.
AwaitAnySetting ==
  /\ pc = "set"
  /\ \/ (\E l \in Line : ReadLine(l)) /\ UNCHANGED <<cmds, due, programmed>>
     \/ ReadTimeout
  /\ IF step < 4 THEN pc' = "config" /\ step' = step + 1 /\ UNCHANGED result
                 ELSE pc' = "idle" /\ result' = "ok" /\ UNCHANGED step
  /\ UNCHANGED <<sends, credited>>

\* Mutant: steps past the last setting.
AwaitSettingFar ==
  /\ pc = "set"
  /\ \E l \in Line : ReadLine(l)
  /\ pc' = "idle" /\ step' = step + 4 /\ result' = "ok"
  /\ UNCHANGED <<sends, credited, cmds, due, programmed>>

\* The first setting that is not answered "ok" ends the call.
AwaitSetting ==
  /\ pc = "set"
  /\ \/ \E l \in Line :
          /\ ReadLine(l)
          /\ IF l.text = "ok" /\ step < 4
             THEN pc' = "config" /\ step' = step + 1 /\ UNCHANGED result
             ELSE /\ pc' = "idle" /\ UNCHANGED step
                  /\ result' = IF l.text = "ok" THEN "ok" ELSE "eio"
          /\ UNCHANGED <<cmds, due, programmed>>
     \/ ReadTimeout /\ pc' = "idle" /\ result' = "timeout" /\ UNCHANGED step
  /\ UNCHANGED <<sends, credited>>

\* rn2483_send; main calls it every 10 s whatever config returned.
WriteTx ==
  /\ pc = "idle" /\ sends < MaxSends
  /\ sends' = sends + 1
  /\ Write([name |-> "tx", of |-> sends + 1])
  /\ pc' = "tx" /\ result' = "none"
  /\ UNCHANGED <<step, credited, due, programmed>>

\* Mutant: the acknowledgement of the command counts as the transmission.
AwaitAckOnly ==
  /\ pc = "tx"
  /\ \/ \E l \in Line :
          /\ ReadLine(l) /\ pc' = "idle"
          /\ result' = IF l.text = "ok" THEN "ok" ELSE "eio"
          /\ UNCHANGED <<cmds, due, programmed>>
     \/ ReadTimeout /\ pc' = "idle" /\ result' = "timeout"
  /\ UNCHANGED <<step, sends, credited>>

AwaitAck ==
  /\ pc = "tx"
  /\ \/ \E l \in Line :
          /\ ReadLine(l)
          /\ IF l.text = "ok" THEN pc' = "air" /\ UNCHANGED result
                              ELSE pc' = "idle" /\ result' = "eio"
          /\ UNCHANGED <<cmds, due, programmed>>
     \/ ReadTimeout /\ pc' = "idle" /\ result' = "timeout"
  /\ UNCHANGED <<step, sends, credited>>

\* Mutant: waits for the end of the transmission without a deadline.
AwaitTxForever ==
  /\ pc = "air"
  /\ \E l \in Line :
       /\ ReadLine(l) /\ pc' = "idle" /\ credited' = l.of
       /\ result' = IF l.text = "tx_ok" THEN "ok" ELSE "eio"
  /\ UNCHANGED <<step, sends, cmds, due, programmed>>

AwaitTx ==
  /\ pc = "air"
  /\ \/ \E l \in Line :
          /\ ReadLine(l) /\ pc' = "idle" /\ credited' = l.of
          /\ result' = IF l.text = "tx_ok" THEN "ok" ELSE "eio"
          /\ UNCHANGED <<cmds, due, programmed>>
     \/ ReadTimeout /\ pc' = "idle" /\ result' = "timeout" /\ UNCHANGED credited
  /\ UNCHANGED <<step, sends>>

-----------------------------------------------------------------------------
(* The module (external): answers each command in turn; a command can be     *)
(* refused or lost, a transmission can fail.                                 *)
Answers(c) ==
  LET line(t) == [text |-> t, of |-> c.of] IN
    (CASE c.name = "ver" -> {<<line("version")>>}
       [] c.name = "tx"  -> {<<line("ok"), line("tx_ok")>>, <<line("ok"), line("tx_err")>>}
       [] OTHER          -> {<<line("ok")>>})
    \cup (IF "refuse" \in Faults THEN {<<line("error")>>} ELSE {})
    \cup (IF "deaf" \in Faults THEN {<<>>} ELSE {})

Module ==
  /\ cmds # <<>> /\ cmds' = Tail(cmds)
  /\ \E a \in Answers(Head(cmds)) :
       /\ due' = due \o a
       /\ programmed' = IF Head(cmds).name \notin {"ver", "tx"} /\ a # <<>> /\ a[1].text = "ok"
                        THEN programmed \cup {Head(cmds).name} ELSE programmed
  /\ UNCHANGED <<driver, rx>>

Deliver ==
  /\ due # <<>>
  /\ due' = Tail(due) /\ rx' = Append(rx, Head(due))
  /\ UNCHANGED <<driver, cmds, programmed>>

Driver == \/ InitModule \/ AwaitVersion \/ WriteSetting \/ AwaitSetting
          \/ WriteTx \/ AwaitAck \/ AwaitTx

Next == Driver \/ Module \/ Deliver

Spec == Init /\ [][Next]_vars

\* The thread runs, and a polled read ends by its deadline.
FairSpec == Spec /\ WF_vars(Driver) /\ WF_vars(Module) /\ WF_vars(Deliver)

-----------------------------------------------------------------------------
(* Properties. *)

\* If lora_config returns 0, the module took all four settings, late, refused,
\* lost and cut answers notwithstanding (rn2483.c:123-150).
ConfiguredIsTrue ==
  pc = "idle" /\ sends = 0 /\ result = "ok" =>
    programmed = {Settings[i] : i \in 1..4}

\* If lora_send returns 0, it was this transmission that ended well
\* (rn2483.c:172-175: "actual over-the-air completion arrives later,
\* asynchronously, as its own line").
SentIsOwn == pc = "idle" /\ sends > 0 /\ result = "ok" => credited = sends

\* Every call comes back, also when the module never answers again.
SendReturns == pc \in {"tx", "air"} ~> pc = "idle"

-----------------------------------------------------------------------------
(* The inductive invariants behind these properties. *)

wire == rx \o due

\* Before the first transmission an "ok" is on its way only as the last line of
\* all, and only of the setting the driver waits for: an answer that comes late
\* is another one's error, never its success.
ConfigInv ==
  sends = 0 =>
    /\ pc = "init" => cmds = <<>> /\ due = <<>>
    /\ pc \in {"init", "version"} => step = 1
    /\ pc \in {"config", "set"} => \A i \in 1..(step - 1) : Settings[i] \in programmed
    /\ \A i \in DOMAIN cmds :
         \/ cmds[i].name = "ver"
         \/ pc = "set" /\ i = Len(cmds) /\ cmds[i].name = Settings[step]
         \/ pc = "idle"
    /\ \A i \in DOMAIN wire : wire[i].text = "ok" =>
         \/ pc = "set" /\ i = Len(wire) /\ cmds = <<>> /\ Settings[step] \in programmed
         \/ pc = "idle"
    /\ pc \notin {"tx", "air"} /\ ConfiguredIsTrue

\* If the module is in time, what is on its way is the answer to the command
\* the driver wrote last, and there is nothing between two calls.
PromptInv ==
  /\ pc = "init" => cmds = <<>> /\ due = <<>>
  /\ pc \in {"init", "version", "config", "set"} => sends = 0
  /\ pc \in {"config", "idle"} => cmds = <<>> /\ wire = <<>>
  /\ pc \in {"version", "set"} =>
       \/ Len(cmds) = 1 /\ cmds[1].name # "tx" /\ wire = <<>>
       \/ cmds = <<>> /\ Len(wire) <= 1
  /\ pc = "tx" =>
       \/ cmds = <<[name |-> "tx", of |-> sends]>> /\ wire = <<>>
       \/ /\ cmds = <<>>
          /\ \/ wire = <<>>
             \/ Len(wire) = 1 /\ wire[1].text = "error"
             \/ Len(wire) = 2 /\ wire[1].text = "ok" /\ wire[2].of = sends
  /\ pc = "air" => cmds = <<>> /\ Len(wire) = 1 /\ wire[1].of = sends
  /\ SentIsOwn
=============================================================================
