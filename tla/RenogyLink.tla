------------------------------- MODULE RenogyLink -------------------------------
(***************************************************************************)
(* The serial line to the solar charge controller                          *)
(* (src/main/drivers/renogy_driver.cpp), which two tasks use without a     *)
(* lock: the poller reads three blocks of registers, the watering task     *)
(* switches the load with two register writes.                             *)
(*                                                                         *)
(* One exchange discards what was received, sends a request and reads as   *)
(* many bytes as its answer has.  The answer to a read says how many       *)
(* registers it holds, not which; the answer to a write repeats the write. *)
(* Bytes that are not one whole answer fail the checksum.                  *)
(*                                                                         *)
(* The watering task has the higher priority: the poller makes a step of   *)
(* its own only while the watering task is idle or blocked.  The UART      *)
(* driver of ESP-IDF lets one task at a time read or flush, so that a task *)
(* that flushes waits for a reader to finish.                              *)
(***************************************************************************)
EXTENDS Integers, Sequences, FiniteSets

CONSTANTS
  BlockLength,       \* bytes of the answer with the ten registers of block 1 or 2
  StatusLength,      \* bytes of the answer with the one register of block 3
  EchoLength,        \* bytes of the answer to a write
  MaxTrouble,        \* bound: how often a request or a byte is lost or an answer late
  MaxLate            \* bound: how many echoes are still owed when setLoad() is called

ASSUME LinkConstantsOK ==
  /\ {BlockLength, StatusLength, EchoLength} \subseteq Nat \ {0}
  /\ {MaxTrouble, MaxLate} \subseteq Nat

VARIABLES
  setter,            \* where setLoad(value) is, writing to register target
  target, value,
  acked,             \* history: setLoad(value) returned true, and was not called since
  poller, block,     \* where poll() is, and the block it reads
  got,               \* the requests whose answers poll() has taken so far
  turn,              \* tells the present poll from the one before
  requests,          \* requests the controller has not answered yet
  wire,              \* bytes of answers still to arrive
  rx,                \* bytes received and not read
  loadReg,           \* the load register of the controller
  trouble            \* how often something was lost or late

watering == <<setter, target, value, acked>>
polling == <<poller, block, got, turn>>
line == <<requests, wire, rx, loadReg>>
vars == <<watering, polling, line, trouble>>

Block == {"realtime", "historical", "status"}
Before(b) == CASE b = "realtime" -> 0 [] b = "historical" -> 1 [] b = "status" -> 2
Request == [reg : Block \cup {"mode", "load"}, arg : BOOLEAN]
Byte == [of : Request, no : Nat \ {0}]

LinkTypeOK ==
  /\ setter \in {"idle", "flush", "write", "read"}
  /\ target \in {"mode", "load"} /\ value \in BOOLEAN /\ acked \in BOOLEAN
  /\ poller \in {"rest", "flush", "write", "enter", "read"} /\ block \in Block
  /\ got \in Seq(Request) /\ turn \in BOOLEAN
  /\ poller # "rest" => Len(got) = Before(block)
  /\ requests \in Seq(Request) /\ wire \in Seq(Byte) /\ rx \in Seq(Byte)
  /\ loadReg \in BOOLEAN /\ trouble \in 0 .. MaxTrouble

--------------------------------------------------------------------------------
Length(reg) ==
  CASE reg \in {"realtime", "historical"} -> BlockLength
    [] reg = "status"                     -> StatusLength
    [] OTHER                              -> EchoLength

Answer(q) == [i \in 1 .. Length(q.reg) |-> [of |-> q, no |-> i]]

\* The answers to requests for these registers that are still to come: those not
\* given yet, and those whose last byte has not arrived.
Owed(regs) ==
  {<<"asked", i>> : i \in {k \in DOMAIN requests : requests[k].reg \in regs}} \cup
  {<<"sent", i>> : i \in {k \in DOMAIN wire : /\ wire[k].of.reg \in regs
                                             /\ wire[k].no = Length(wire[k].of.reg)}}

\* When setLoad() is called, at most one earlier switch of the load is still to be
\* echoed (a call that got as far takes longer), and MaxLate echoes in all.
FewOwed ==
  /\ \A e, f \in Owed({"load"}) : e = f
  /\ Cardinality(Owed({"mode", "load"})) <= MaxLate

Take(n) == SubSeq(rx, 1, n)
Rest(n) == SubSeq(rx, n + 1, Len(rx))

\* The request for block b, and what the watering task writes.
PollRequest(b) == [reg |-> b, arg |-> turn]
LoadRequest == [reg |-> target, arg |-> IF target = "load" THEN value ELSE TRUE]

\* parseResponse(): the bytes are the whole answer to a read of as many registers.
Plausible(bytes, b) ==
  \E c \in Block, t \in BOOLEAN :
    Length(c) = Length(b) /\ bytes = Answer([reg |-> c, arg |-> t])

Trouble == trouble < MaxTrouble /\ trouble' = trouble + 1

\* uart_.read(n) takes n bytes, or after the time-out what there is.  A reader gives
\* up when nothing is under way; an answer still under way then is late.
TimesOut(n) ==
  /\ Len(rx) < n
  /\ rx' = <<>>
  /\ IF requests = <<>> /\ wire = <<>> THEN UNCHANGED trouble ELSE Trouble

--------------------------------------------------------------------------------
\* setLoad(on), called by the watering task at any time between its calls.
SetLoad(on) ==
  /\ setter = "idle"
  /\ FewOwed
  /\ setter' = "flush" /\ value' = on /\ acked' = FALSE
  /\ UNCHANGED <<target, polling, line, trouble>>

\* flushRx() waits for a reader.
SetterFlush ==
  /\ setter = "flush" /\ poller # "read"
  /\ rx' = <<>>
  /\ setter' = "write"
  /\ UNCHANGED <<target, value, acked, polling, requests, wire, loadReg, trouble>>

SetterWrite ==
  /\ setter = "write"
  /\ requests' = Append(requests, LoadRequest)
  /\ setter' = "read"
  /\ UNCHANGED <<target, value, acked, polling, wire, rx, loadReg, trouble>>

\* Defect: any echo is taken for an acknowledgement.
SetterAcknowledgedByAny ==
  /\ setter = "read" /\ Len(rx) >= EchoLength
  /\ \E reg \in {"mode", "load"}, arg \in BOOLEAN :
       Take(EchoLength) = Answer([reg |-> reg, arg |-> arg])
  /\ rx' = Rest(EchoLength)
  /\ IF target = "mode" THEN setter' = "flush" /\ target' = "load"
                        ELSE setter' = "idle" /\ target' = "mode"
  /\ acked' = (target = "load")
  /\ UNCHANGED <<value, polling, requests, wire, loadReg, trouble>>

\* The mode is written first, then the load register; then setLoad() returns true.
SetterAcknowledged ==
  /\ setter = "read" /\ Len(rx) >= EchoLength
  /\ Take(EchoLength) = Answer(LoadRequest)
  /\ rx' = Rest(EchoLength)
  /\ IF target = "mode" THEN setter' = "flush" /\ target' = "load"
                        ELSE setter' = "idle" /\ target' = "mode"
  /\ acked' = (target = "load")
  /\ UNCHANGED <<value, polling, requests, wire, loadReg, trouble>>

\* setLoad() returns false.
SetterFails ==
  /\ setter = "read"
  /\ \/ /\ Len(rx) >= EchoLength /\ Take(EchoLength) # Answer(LoadRequest)
        /\ rx' = Rest(EchoLength)
        /\ UNCHANGED trouble
     \/ TimesOut(EchoLength)
  /\ setter' = "idle" /\ target' = "mode"
  /\ UNCHANGED <<value, acked, polling, requests, wire, loadReg>>

SetterStep == SetterFlush \/ SetterWrite \/ SetterAcknowledged \/ SetterFails

--------------------------------------------------------------------------------
SetterBlocked == setter \in {"idle", "read"}

\* Defect: the answers of the poll before are still there.
PollBeginsKeeping ==
  /\ poller = "rest" /\ SetterBlocked
  /\ Owed(Block) = {}
  /\ poller' = "flush" /\ turn' = ~turn
  /\ UNCHANGED <<watering, block, got, line, trouble>>

\* poll() begins.  POLL_INTERVAL_MS is much longer than any answer is late: nothing
\* the polls before asked for is under way; echoes for the watering task may be.
PollBegins ==
  /\ poller = "rest" /\ SetterBlocked
  /\ Owed(Block) = {}
  /\ poller' = "flush" /\ got' = <<>> /\ turn' = ~turn
  /\ UNCHANGED <<watering, block, line, trouble>>

\* Defect: what was received before is not discarded.
PollerFlushNot ==
  /\ poller = "flush" /\ setter = "idle"
  /\ poller' = "write"
  /\ UNCHANGED <<watering, block, got, turn, line, trouble>>

PollerFlush ==
  /\ poller = "flush" /\ setter = "idle"
  /\ rx' = <<>>
  /\ poller' = "write"
  /\ UNCHANGED <<watering, block, got, turn, requests, wire, loadReg, trouble>>

PollerWrite ==
  /\ poller = "write" /\ SetterBlocked
  /\ requests' = Append(requests, PollRequest(block))
  /\ poller' = "enter"
  /\ UNCHANGED <<watering, block, got, turn, wire, rx, loadReg, trouble>>

\* poll() returns false, and the answers it has taken are forgotten.
PollFails == poller' = "rest" /\ block' = "realtime" /\ got' = <<>>

\* Between write() and read() the watering task may come in.  Then read() waits
\* for it, and may give up waiting.
PollerEnters ==
  /\ poller = "enter"
  /\ \/ /\ setter = "idle" /\ poller' = "read"
        /\ UNCHANGED <<block, got>>
     \/ setter = "read" /\ PollFails
  /\ UNCHANGED <<watering, turn, line, trouble>>

PollerReads ==
  /\ poller = "read" /\ Len(rx) >= Length(block)
  /\ LET bytes == Take(Length(block))
     IN \/ /\ Plausible(bytes, block)
           /\ got' = Append(got, bytes[1].of)
           /\ \/ block = "realtime" /\ block' = "historical" /\ poller' = "flush"
              \/ block = "historical" /\ block' = "status" /\ poller' = "flush"
              \/ block = "status" /\ block' = "realtime" /\ poller' = "rest"
        \/ ~Plausible(bytes, block) /\ PollFails
  /\ rx' = Rest(Length(block))
  /\ UNCHANGED <<watering, turn, requests, wire, loadReg, trouble>>

PollerTimesOut ==
  /\ poller = "read" /\ TimesOut(Length(block))
  /\ PollFails
  /\ UNCHANGED <<watering, turn, requests, wire, loadReg>>

PollerStep ==
  PollBegins \/ PollerFlush \/ PollerWrite \/ PollerEnters \/ PollerReads \/ PollerTimesOut

--------------------------------------------------------------------------------
\* The controller takes the requests in their order; a write takes effect before it
\* is answered.
ControllerAnswers ==
  /\ requests # <<>>
  /\ LET q == Head(requests)
     IN /\ wire' = wire \o Answer(q)
        /\ loadReg' = IF q.reg = "load" THEN q.arg ELSE loadReg
  /\ requests' = Tail(requests)
  /\ UNCHANGED <<watering, polling, rx, trouble>>

ByteArrives ==
  /\ wire # <<>>
  /\ rx' = Append(rx, Head(wire)) /\ wire' = Tail(wire)
  /\ UNCHANGED <<watering, polling, requests, loadReg, trouble>>

RequestLost ==
  /\ Trouble /\ requests # <<>>
  /\ requests' = Tail(requests)
  /\ UNCHANGED <<watering, polling, wire, rx, loadReg>>

ByteLost ==
  /\ Trouble /\ wire # <<>>
  /\ wire' = Tail(wire)
  /\ UNCHANGED <<watering, polling, requests, rx, loadReg>>

Init ==
  /\ setter = "idle" /\ target = "mode" /\ value = FALSE /\ acked = FALSE
  /\ poller = "rest" /\ block = "realtime" /\ got = <<>> /\ turn = FALSE
  /\ requests = <<>> /\ wire = <<>> /\ rx = <<>>
  /\ loadReg \in BOOLEAN /\ trouble = 0

Next ==
  \/ \E on \in BOOLEAN : SetLoad(on)
  \/ SetterStep \/ PollerStep
  \/ ControllerAnswers \/ ByteArrives
  \/ RequestLost \/ ByteLost

\* Both tasks go on when they can, the controller answers what it was asked, and
\* bytes arrive unless they are lost.
Fairness ==
  /\ WF_vars(SetterStep) /\ WF_vars(PollerStep)
  /\ WF_vars(ControllerAnswers) /\ WF_vars(ByteArrives)

Spec == Init /\ [][Next]_vars /\ Fairness

--------------------------------------------------------------------------------
\* Properties.

Publishes == poller = "read" /\ poller' = "rest" /\ Len(got') = 3

\* A snapshot is made of the three blocks asked for in this poll, each in its place,
\* although an answer does not say which block it is: no late answer of an earlier
\* request, nor one meant for the other task, is ever taken for one of them.
SnapshotIsWhole ==
  [][Publishes => got' = <<PollRequest("realtime"), PollRequest("historical"),
                           PollRequest("status")>>]_vars

\* When setLoad() returns true the controller has the load as it was asked to, and keeps
\* it so until the next call: neither the echo of an earlier call nor a switch that is
\* still under way for one makes it otherwise. The state machine opens valves on this.
AcknowledgedIsDone == acked => loadReg = value

\* Whatever lost, late or interleaved answers leave behind in the receiver, polls
\* succeed again and again once these cease and the load is left alone.
PollRecovers == <>[](setter = "idle") => []<>(poller = "rest" /\ Len(got) = 3)

\* renogy_driver.hpp:38-39: setLoad() "Returns true if the controller echoed a valid
\* acknowledgement": it does not fail while that echo is under way in time.
EchoIsAwaited ==
  [][SetterFails => /\ \A i \in DOMAIN requests : requests[i] # LoadRequest
                    /\ \A i \in DOMAIN wire : wire[i].of # LoadRequest]_vars
================================================================================
