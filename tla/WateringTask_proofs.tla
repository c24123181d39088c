-------------------------- MODULE WateringTask_proofs --------------------------
(***************************************************************************)
(* Proofs about WateringTask: the loop calls the state machine as          *)
(* WateringFsm assumes, so that what WateringFsm_proofs shows of the       *)
(* machine with any such caller holds of the machine in its loop.          *)
(***************************************************************************)
EXTENDS WateringTask, TLAPS

\* The machine as the loop drives it, with the theorems proved about it.
Proven == INSTANCE WateringFsm_proofs WITH sleep <- UntilTick, Lags <- Elapsed

\* What ConstantsOK and TaskConstantsOK say of the constants a step uses.
LEMMA TaskConstantTypes ==
  /\ ClockMod \in Nat \ {0} /\ TickGap \in Nat \ {0}
  /\ QueueDepth \in Nat \ {0}
  /\ MinDuration \in Nat \ {0} /\ MaxDuration \in Nat
  /\ DefaultDuration \in Allowed /\ Allowed \subseteq Durations
  /\ RawDurations \subseteq Nat /\ NaN \notin Nat
BY ConstantsOK, TaskConstantsOK DEF ConstantsOK, TaskConstantsOK

\* The reports of a clear-fault command.
Clearing == ResetTrigger \/ ForceOff \/ AllForced

\* The assumptions of the machine hold of the machine in the loop.
LEMMA ProvenConstants == Proven!ConstantsOK
BY ConstantsOK DEF ConstantsOK, Proven!ConstantsOK, Elapsed, Proven!Elapsed

\* A duration is valid whatever the coordinator writes, also if it is no number.
LEMMA ClampedType ==
  ASSUME NEW raw \in RawDurations \cup {NaN}
  PROVE  Clamped(raw) \in Allowed
<1>1. CASE raw = NaN
  BY <1>1, TaskConstantTypes DEF Clamped, Allowed
<1>2. CASE raw # NaN
  <2>1. raw \in Nat
    BY <1>2, TaskConstantTypes
  <2>2. CASE raw >= 2 * MinDuration /\ ~(raw > 2 * MaxDuration)
    <3>1. Clamped(raw) = (raw + 1) \div 2
      BY <1>2, <2>2 DEF Clamped
    <3>2. (raw + 1) \div 2 \in MinDuration .. MaxDuration
      BY <2>1, <2>2, TaskConstantTypes
    <3> QED BY <3>1, <3>2 DEF Allowed
  <2>3. CASE ~(raw >= 2 * MinDuration)
    BY <2>3, TaskConstantTypes DEF Clamped, Allowed
  <2>4. CASE raw >= 2 * MinDuration /\ raw > 2 * MaxDuration
    BY <1>2, <2>4, TaskConstantTypes DEF Clamped, Allowed
  <2> QED BY <2>2, <2>3, <2>4
<1> QED BY <1>1, <1>2

--------------------------------------------------------------------------------
\* The variables of the loop keep their types, and its pace.

LoopOK == LoopTypeOK /\ Paced /\ now \in Elapsed /\ sleep \in 0 .. TickGap

LEMMA InitLoop == TaskInit => LoopOK
<1> SUFFICES ASSUME TaskInit PROVE LoopOK
  OBVIOUS
<1>1. queue \in Seq(Command) /\ Len(queue) <= QueueDepth
  BY TaskConstantTypes DEF TaskInit
<1>2. now \in Elapsed /\ loopNow \in Elapsed /\ sleep \in 0 .. TickGap
  BY TaskConstantTypes DEF TaskInit, Init, Elapsed
<1> QED
  BY <1>1, <1>2, TaskConstantTypes DEF TaskInit, Init, LoopOK, LoopTypeOK, Paced, Command, Draining

LEMMA PostType ==
  ASSUME queue \in Seq(Command), Len(queue) <= QueueDepth, NEW c \in Command, NEW ep, Post(ep, c)
  PROVE  queue' \in Seq(Command) /\ Len(queue') <= QueueDepth
BY TaskConstantTypes DEF Post

LEMMA ReceiveType ==
  ASSUME queue \in Seq(Command), Len(queue) <= QueueDepth, NEW type, Receive(type)
  PROVE  /\ queue' \in Seq(Command) /\ Len(queue') <= QueueDepth
         /\ Head(queue) \in Command /\ Head(queue).type = type
<1>1. queue # <<>> /\ queue' = Tail(queue) /\ Head(queue).type = type
  BY DEF Receive
<1>2. Head(queue) \in Command /\ Tail(queue) \in Seq(Command) /\ Len(Tail(queue)) = Len(queue) - 1
  BY <1>1
<1> QED BY <1>1, <1>2, TaskConstantTypes

\* Only a valid request is ever in the queue.
LEMMA CommandRequest ==
  ASSUME NEW c \in Command, c.type = "Request"
  PROVE  c.zone \in Zone /\ c.duration \in Allowed
BY DEF Command, Plain

LEMMA ZigbeeLoop ==
  ASSUME LoopOK, ZigbeeTask
  PROVE  LoopOK'
<1> USE DEF LoopOK, LoopTypeOK, Paced, vars, call, taskOnly
<1>1. ASSUME NEW z \in Zone, SwitchOn(z)
      PROVE  LoopOK'
  <2>1. [type |-> "Request", zone |-> z, duration |-> duration[z]] \in Command
    BY DEF Command
  <2>2. queue' \in Seq(Command) /\ Len(queue') <= QueueDepth
    BY <1>1, <2>1, PostType DEF SwitchOn
  <2> QED BY <1>1, <2>2 DEF SwitchOn
<1>2. ASSUME NEW z \in Zone, SwitchOff(z)
      PROVE  LoopOK'
  <2>1. queue' \in Seq(Command) /\ Len(queue') <= QueueDepth
    BY <1>2, PostType DEF SwitchOff, Command
  <2> QED BY <1>2, <2>1 DEF SwitchOff
<1>3. ASSUME NEW z \in Zone, DurationWritten(z)
      PROVE  LoopOK'
  BY <1>3, ClampedType DEF DurationWritten
<1>4. CASE ClearSwitchWritten
  <2>1. queue' \in Seq(Command) /\ Len(queue') <= QueueDepth
    BY <1>4, PostType DEF ClearSwitchWritten, Command
  <2> QED BY <1>4, <2>1 DEF ClearSwitchWritten
<1> QED BY <1>1, <1>2, <1>3, <1>4 DEF ZigbeeTask

\* The calls of the drain: the queue gets shorter, the loop goes on with its drain.
LEMMA DrainLoop ==
  ASSUME LoopOK,
         DrainIgnoredRequest \/ DrainRequest \/ DrainCancel \/ DrainClearFault
  PROVE  LoopOK'
<1> USE DEF LoopOK, LoopTypeOK, Paced, vars, taskOnly, zigbee, Draining
<1>1. ASSUME NEW type, Receive(type)
      PROVE  /\ queue' \in Seq(Command) /\ Len(queue') <= QueueDepth
             /\ Head(queue) \in Command /\ loop = "drain"
  BY <1>1, ReceiveType DEF Receive
<1>2. CASE DrainIgnoredRequest
  <2>1. /\ queue' \in Seq(Command) /\ Len(queue') <= QueueDepth /\ loop = "drain"
        /\ cmd' \in Command /\ cmd'.type = "Request"
    BY <1>1, <1>2, ReceiveType DEF DrainIgnoredRequest
  <2> QED BY <1>2, <2>1 DEF DrainIgnoredRequest
<1>3. CASE DrainRequest
  <2>1. /\ queue' \in Seq(Command) /\ Len(queue') <= QueueDepth /\ loop = "drain"
        /\ cmd' \in Command /\ cmd'.type = "Request"
    BY <1>1, <1>3, ReceiveType DEF DrainRequest
  <2> QED BY <1>3, <2>1 DEF DrainRequest
<1>4. CASE DrainCancel
  <2>1. queue' \in Seq(Command) /\ Len(queue') <= QueueDepth /\ loop = "drain"
    BY <1>1, <1>4 DEF DrainCancel
  <2> QED BY <1>4, <2>1 DEF DrainCancel
<1>5. CASE DrainClearFault
  <2>1. queue' \in Seq(Command) /\ Len(queue') <= QueueDepth /\ loop = "drain"
    BY <1>1, <1>5 DEF DrainClearFault
  <2> QED BY <1>5, <2>1 DEF DrainClearFault
<1> QED BY <1>2, <1>3, <1>4, <1>5

LEMMA LoopLoop ==
  ASSUME LoopOK, LoopStep
  PROVE  LoopOK'
<1> USE DEF LoopOK, LoopTypeOK, Paced, vars, call, taskOnly, zigbee, Draining
<1>1. CASE Wake
  BY <1>1 DEF Wake
<1>2. CASE RequestReturns
  BY <1>2 DEF RequestReturns, Command
<1>3. CASE LoopTick
  BY <1>3 DEF LoopTick
<1>4. CASE Account
  BY <1>4 DEF Account, TakeDeliveryRecord
<1>5. CASE ReportZone
  BY <1>5 DEF ReportZone
<1>6. CASE GoToSleep
  <2>1. 0 \in Elapsed /\ TickGap \in 0 .. TickGap
    BY TaskConstantTypes DEF Elapsed
  <2> QED BY <1>6, <2>1 DEF GoToSleep
<1>7. CASE Clearing
  BY <1>7 DEF Clearing, ResetTrigger, ForceOff, AllForced
<1> QED BY <1>1, <1>2, <1>3, <1>4, <1>5, <1>6, <1>7, DrainLoop DEF LoopStep, Clearing

LEMMA OthersLoop ==
  ASSUME LoopOK,
         \/ (Resume \/ Elapse \/ PollSucceeds \/ TankChanges \/ FlowPulse) /\ Quiet
         \/ TaskReboot
  PROVE  LoopOK'
<1> USE DEF LoopOK, LoopTypeOK, Paced, call, taskOnly, zigbee, Quiet
<1>1. CASE Resume /\ Quiet
  BY <1>1 DEF Resume, LoadEnabled, LoadEnableFailed, OpenValve, StartPump, CloseValves, DisableLoad
<1>2. CASE Elapse /\ Quiet
  <2>1. now' \in Elapsed /\ sleep' \in 0 .. TickGap
    BY <1>2, TaskConstantTypes DEF Elapse, Elapsed
  <2>2. pc' = pc /\ (pc # "ready" \/ loop = "sleep")
    BY <1>2 DEF Elapse
  <2> QED BY <1>2, <2>1, <2>2 DEF Elapse
<1>3. CASE (PollSucceeds \/ TankChanges \/ FlowPulse) /\ Quiet
  BY <1>3 DEF PollSucceeds, TankChanges, FlowPulse
<1>4. CASE TaskReboot
  <2>1. 0 \in Elapsed /\ TickGap \in 0 .. TickGap
    BY TaskConstantTypes DEF Elapsed
  <2>2. queue' \in Seq(Command) /\ Len(queue') <= QueueDepth /\ cmd' \in Command
    BY <1>4, TaskConstantTypes DEF TaskReboot, Command
  <2> QED BY <1>4, <2>1, <2>2, TaskConstantTypes DEF TaskReboot, Reboot
<1> QED BY <1>1, <1>2, <1>3, <1>4

\* The loop's part of the type invariant, and its pace.
LEMMA LoopCorrect == TaskSpec => []LoopOK
<1>1. LoopOK /\ [TaskNext]_taskVars => LoopOK'
  <2>1. LoopOK /\ UNCHANGED taskVars => LoopOK'
    BY DEF taskVars, vars, call, taskOnly, zigbee, LoopOK, LoopTypeOK, Paced
  <2> QED BY <2>1, ZigbeeLoop, LoopLoop, OthersLoop DEF TaskNext
<1> QED BY <1>1, InitLoop, PTL DEF TaskSpec

--------------------------------------------------------------------------------
\* Every step of the loop is a step of the machine with some caller, or a stutter.

\* Any earlier reading of the clock is the present one less some lag.
LEMMA LagExists ==
  ASSUME NEW a \in Elapsed, NEW b \in Elapsed
  PROVE  \E lag \in Elapsed : Sub(a, lag) = b
<1>1. Sub(a, b) \in Elapsed /\ Sub(a, Sub(a, b)) = b
  BY TaskConstantTypes DEF Sub, Elapsed
<1> QED BY <1>1

LEMMA InitMachine == TaskInit => Machine!Init
BY DEF TaskInit, Init, UntilTick, Machine!Init, NoDelivery, Machine!NoDelivery,
       NoRequest, Machine!NoRequest, NoFault, Machine!NoFault, NoData, Machine!NoData

\* What the loop does of itself: the machine does not notice.
LEMMA StutterMachine ==
  ASSUME LoopOK,
         \/ ZigbeeTask \/ Wake \/ DrainIgnoredRequest \/ RequestReturns
         \/ Clearing \/ ReportZone \/ GoToSleep \/ UNCHANGED taskVars
  PROVE  UNCHANGED Machine!vars
<1> USE DEF Machine!vars, Machine!fsm, Machine!call, Machine!outputs, Machine!plant,
            vars, fsm, call, outputs, plant, UntilTick
<1>1. CASE ZigbeeTask
  BY <1>1 DEF ZigbeeTask, SwitchOn, SwitchOff, DurationWritten, ClearSwitchWritten, taskOnly
<1>2. CASE Wake
  BY <1>2 DEF Wake
<1>3. CASE DrainIgnoredRequest \/ RequestReturns
  BY <1>3 DEF DrainIgnoredRequest, RequestReturns, Receive
<1>4. CASE ReportZone
  BY <1>4 DEF ReportZone
<1>5. CASE GoToSleep
  BY <1>5 DEF GoToSleep
<1>6. CASE UNCHANGED taskVars
  BY <1>6 DEF taskVars, taskOnly
<1>7. CASE Clearing
  BY <1>7 DEF Clearing, ResetTrigger, ForceOff, AllForced
<1> QED BY <1>1, <1>2, <1>3, <1>4, <1>5, <1>6, <1>7

\* request(): the time was taken when the loop woke up, the zone and the duration
\* when the command was posted.
LEMMA RequestMachine ==
  ASSUME LoopOK, DrainRequest
  PROVE  Machine!CallRequest
<1> DEFINE req == [zone |-> Head(queue).zone, duration |-> Head(queue).duration]
<1>1. loop = "drain" /\ Head(queue) \in Command /\ Head(queue).type = "Request"
  BY ReceiveType DEF DrainRequest, Receive, LoopOK, LoopTypeOK
<1>2. req \in Machine!Request
  BY <1>1, CommandRequest, TaskConstantTypes DEF Machine!Request
<1>3. PICK lag \in Elapsed : Sub(now, lag) = loopNow
  BY LagExists DEF LoopOK, LoopTypeOK
<1>4. Machine!Sub(now, lag) = loopNow /\ lag \in Machine!Elapsed
  BY <1>3 DEF Machine!Sub, Sub, Machine!Elapsed, Elapsed
<1>5. /\ RequestRejected(req, loopNow) \/ RequestAdmitted(req, loopNow)
      /\ UNCHANGED <<plant, now, sleep>> /\ loop' = "requested"
  BY DEF DrainRequest
<1>6. RequestRejected(req, loopNow) => Machine!RequestRejected(req, loopNow)
  BY DEF RequestRejected, Machine!RequestRejected, BeginReject, Machine!BeginReject,
         Verdict, Machine!Verdict, Stale, Machine!Stale, Sub, Machine!Sub,
         NoFault, Machine!NoFault
<1>7. RequestAdmitted(req, loopNow) => Machine!RequestAdmitted(req, loopNow)
  BY DEF RequestAdmitted, Machine!RequestAdmitted, Verdict, Machine!Verdict,
         Stale, Machine!Stale, Sub, Machine!Sub, NoFault, Machine!NoFault,
         outputs, Machine!outputs
<1>8. UNCHANGED <<Machine!plant, now, UntilTick>>
  BY <1>1, <1>5 DEF plant, Machine!plant, UntilTick
<1> QED BY <1>2, <1>4, <1>5, <1>6, <1>7, <1>8, Zenon DEF Machine!CallRequest

\* cancel(), clearFault() and takeDeliveryRecord(): the interval to the next tick()
\* does not change.
LEMMA CallsMachine ==
  ASSUME LoopOK, DrainCancel \/ DrainClearFault \/ Account
  PROVE  Machine!Next \/ UNCHANGED Machine!vars
<1> USE DEF fsm, call, outputs, plant, Machine!fsm, Machine!call, Machine!outputs, Machine!plant,
            Machine!vars, NoFault, Machine!NoFault
<1>1. UNCHANGED <<Machine!plant, now, UntilTick>>
  <2>1. CASE DrainCancel
    BY <2>1 DEF DrainCancel, Receive, UntilTick, taskOnly
  <2>2. CASE DrainClearFault
    BY <2>2 DEF DrainClearFault, Receive, UntilTick
  <2>3. CASE Account
    BY <2>3 DEF Account, UntilTick
  <2> QED BY <2>1, <2>2, <2>3
<1>2. Cancel => Machine!CallCancel
  BY <1>1 DEF Cancel, Machine!CallCancel, Machine!Cancel, Active, Machine!Active,
              BeginStop, Machine!BeginStop, CaptureDelivery, Machine!CaptureDelivery,
              Milliliters, Machine!Milliliters
<1>3. ClearFault => Machine!CallClearFault
  BY <1>1 DEF ClearFault, Machine!CallClearFault, Machine!ClearFault
<1>4. TakeDeliveryRecord => Machine!CallTakeDeliveryRecord
  BY <1>1 DEF TakeDeliveryRecord, Machine!CallTakeDeliveryRecord, Machine!TakeDeliveryRecord,
              NoDelivery, Machine!NoDelivery
<1>5. UNCHANGED <<fsm, call, outputs>> => UNCHANGED Machine!vars
  BY <1>1
<1> QED BY <1>2, <1>3, <1>4, <1>5 DEF DrainCancel, DrainClearFault, Account, Machine!Next

\* tick(): the machine may now go without one for a whole interval.
LEMMA TickMachine ==
  ASSUME LoopOK, LoopTick
  PROVE  Machine!CallTick
<1>1. UntilTick' = TickGap /\ UNCHANGED <<Machine!plant, now>>
  BY DEF LoopTick, UntilTick, plant, Machine!plant
<1>2. TickFsm(now) => Machine!TickFsm(now)
  BY DEF TickFsm, Machine!TickFsm, TickPriming, Machine!TickPriming,
         TickWatering, Machine!TickWatering, TickAtRest, Machine!TickAtRest,
         RunVerdict, Machine!RunVerdict, Stale, Machine!Stale, Sub, Machine!Sub,
         BeginStop, Machine!BeginStop, CaptureDelivery, Machine!CaptureDelivery,
         Milliliters, Machine!Milliliters, Active, Machine!Active,
         FaultCode, Machine!FaultCode, NoFault, Machine!NoFault,
         fsm, Machine!fsm, call, Machine!call, outputs, Machine!outputs
<1> QED BY <1>1, <1>2 DEF LoopTick, Machine!CallTick

\* What goes on besides the loop.
LEMMA OthersMachine ==
  ASSUME LoopOK,
         \/ (Resume \/ Elapse \/ PollSucceeds \/ TankChanges \/ FlowPulse) /\ Quiet
         \/ TaskReboot
  PROVE  Machine!Next
<1> USE DEF fsm, call, outputs, plant, Machine!fsm, Machine!call, Machine!outputs, Machine!plant,
            UntilTick
<1>1. CASE Resume /\ Quiet
  <2>1. UNCHANGED loop /\ NoRequest = Machine!NoRequest /\ NoFault = Machine!NoFault
    BY <1>1 DEF Quiet, taskOnly, NoRequest, Machine!NoRequest, NoFault, Machine!NoFault
  <2>2. LoadEnabled => Machine!LoadEnabled
    BY <2>1 DEF LoadEnabled, Machine!LoadEnabled
  <2>3. LoadEnableFailed => Machine!LoadEnableFailed
    BY <2>1, Zenon DEF LoadEnableFailed, Machine!LoadEnableFailed
  <2>4. OpenValve => Machine!OpenValve
    BY <2>1 DEF OpenValve, Machine!OpenValve
  <2>5. StartPump => Machine!StartPump
    BY <2>1 DEF StartPump, Machine!StartPump
  <2>6. CloseValves => Machine!CloseValves
    BY <2>1 DEF CloseValves, Machine!CloseValves
  <2>7. DisableLoad => Machine!DisableLoad
    BY <2>1, Zenon DEF DisableLoad, Machine!DisableLoad
  <2> QED BY <1>1, <2>2, <2>3, <2>4, <2>5, <2>6, <2>7 DEF Resume, Machine!Resume, Machine!Next
<1>2. CASE Elapse /\ Quiet
  <2>1. pc = "ready" => loop = "sleep"
    BY <1>2 DEF Elapse, LoopOK, Paced
  <2>2. loop' = loop
    BY <1>2 DEF Quiet, taskOnly
  <2>3. Machine!Elapse
    BY <1>2, <2>1, <2>2 DEF Elapse, Machine!Elapse
  <2> QED BY <2>3 DEF Machine!Next
<1>3. CASE (PollSucceeds \/ TankChanges \/ FlowPulse) /\ Quiet
  <2>1. Machine!PollSucceeds \/ Machine!TankChanges \/ Machine!FlowPulse
    BY <1>3 DEF Quiet, taskOnly, PollSucceeds, Machine!PollSucceeds,
                TankChanges, Machine!TankChanges, FlowPulse, Machine!FlowPulse
  <2> QED BY <2>1 DEF Machine!Next, Machine!Environment
<1>4. CASE TaskReboot
  <2>1. Machine!Reboot
    BY <1>4 DEF TaskReboot, Reboot, Machine!Reboot, NoFault, Machine!NoFault,
                NoDelivery, Machine!NoDelivery, NoRequest, Machine!NoRequest,
                NoData, Machine!NoData
  <2> QED BY <2>1 DEF Machine!Next, Machine!Environment
<1> QED BY <1>1, <1>2, <1>3, <1>4

\* The watering task, with every command the coordinator may post between its steps,
\* implements the state machine with an arbitrary caller.
THEOREM TaskImplementsMachine == TaskSpec => MachineSpec
<1>1. LoopOK /\ [TaskNext]_taskVars => [Machine!Next]_(Machine!vars)
  <2>1. LoopOK /\ LoopStep => [Machine!Next]_(Machine!vars)
    BY StutterMachine, RequestMachine, CallsMachine, TickMachine DEF LoopStep, Clearing, Machine!Next
  <2> QED BY <2>1, StutterMachine, OthersMachine DEF TaskNext
<1> QED BY <1>1, InitMachine, LoopCorrect, PTL DEF TaskSpec, MachineSpec, Machine!Spec

--------------------------------------------------------------------------------
\* What was proved of the machine with an arbitrary caller holds in the loop.

LEMMA SameMachine ==
  /\ Machine!Init => Proven!Init
  /\ [Machine!Next]_(Machine!vars) => [Proven!Next]_(Proven!vars)
BY DEF Proven!Next, Machine!Next, Proven!CallRequest, Machine!CallRequest,
       Proven!CallTick, Machine!CallTick, Proven!CallCancel, Machine!CallCancel,
       Proven!CallClearFault, Machine!CallClearFault,
       Proven!CallTakeDeliveryRecord, Machine!CallTakeDeliveryRecord,
       Proven!Resume, Machine!Resume, Proven!Elapse, Machine!Elapse,
       Proven!Environment, Machine!Environment, Proven!Request, Machine!Request,
       Proven!RequestRejected, Machine!RequestRejected,
       Proven!RequestAdmitted, Machine!RequestAdmitted, Proven!Verdict, Machine!Verdict,
       Proven!Stale, Machine!Stale, Proven!Sub, Machine!Sub,
       Proven!BeginReject, Machine!BeginReject, Proven!TickFsm, Machine!TickFsm,
       Proven!TickPriming, Machine!TickPriming, Proven!TickWatering, Machine!TickWatering,
       Proven!TickAtRest, Machine!TickAtRest, Proven!RunVerdict, Machine!RunVerdict,
       Proven!BeginStop, Machine!BeginStop, Proven!CaptureDelivery, Machine!CaptureDelivery,
       Proven!Milliliters, Machine!Milliliters, Proven!FaultCode, Machine!FaultCode,
       Proven!NoFault, Machine!NoFault, Proven!Cancel, Machine!Cancel,
       Proven!ClearFault, Machine!ClearFault,
       Proven!TakeDeliveryRecord, Machine!TakeDeliveryRecord,
       Proven!NoDelivery, Machine!NoDelivery, Proven!LoadEnabled, Machine!LoadEnabled,
       Proven!LoadEnableFailed, Machine!LoadEnableFailed, Proven!OpenValve, Machine!OpenValve,
       Proven!StartPump, Machine!StartPump, Proven!CloseValves, Machine!CloseValves,
       Proven!DisableLoad, Machine!DisableLoad, Proven!PollSucceeds, Machine!PollSucceeds,
       Proven!TankChanges, Machine!TankChanges, Proven!FlowPulse, Machine!FlowPulse,
       Proven!Reboot, Machine!Reboot, Proven!NoData, Machine!NoData,
       Proven!NoRequest, Machine!NoRequest, Proven!Active, Machine!Active,
       Proven!fsm, Machine!fsm, Proven!call, Machine!call, Proven!outputs, Machine!outputs,
       Proven!plant, Machine!plant, Proven!vars, Machine!vars, Proven!Elapsed, Machine!Elapsed,
       Proven!Init, Machine!Init

LEMMA MachineProven == TaskSpec => Proven!Spec
BY TaskImplementsMachine, SameMachine, PTL DEF MachineSpec, Machine!Spec, Proven!Spec

\* The pump never runs against a closed valve, whatever order commands arrive in.
THEOREM TaskPumpSafe == TaskSpec => []PumpSafe
<1>1. Proven!PumpSafe => PumpSafe
  BY DEF Proven!PumpSafe, PumpSafe
<1>2. Proven!Spec => []Proven!PumpSafe
  BY ProvenConstants, Proven!PumpSafeCorrect
<1> QED BY <1>1, <1>2, MachineProven, PTL

\* No phase of the pump outlasts its limit by a tick interval, whatever the drain of
\* the loop is blocked by before it ticks the machine.
THEOREM TaskRunBounded == TaskSpec => []RunBounded
<1>1. Proven!RunBounded => RunBounded
  BY DEF Proven!RunBounded, RunBounded, Proven!Sub, Sub, Proven!PhaseLimit, PhaseLimit
<1>2. Proven!Spec => []Proven!RunBounded
  BY ProvenConstants, Proven!RunBoundedCorrect
<1> QED BY <1>1, <1>2, MachineProven, PTL

\* Between the calls of the loop, pump and valves are on exactly while a cycle runs.
THEOREM TaskRestIsDry == TaskSpec => []RestIsDry
<1>1. Proven!RestIsDry => RestIsDry
  BY DEF Proven!RestIsDry, RestIsDry, Proven!Active, Active
<1>2. Proven!Spec => []Proven!RestIsDry
  BY ProvenConstants, Proven!RestIsDryCorrect
<1> QED BY <1>1, <1>2, MachineProven, PTL

\* The loop switches load supply, valves and pump in the order of OutputInterlock,
\* whatever commands arrive in whatever order: the task implements that promise.
THEOREM TaskInterlocked == TaskSpec => InterlockSpec
<1>1. /\ Proven!Interlock!Init => Interlock!Init
      /\ [Proven!Interlock!Next]_(Proven!Interlock!outputs) => [Interlock!Next]_(Interlock!outputs)
  BY DEF Proven!Interlock!Init, Interlock!Init, Proven!Interlock!Next, Interlock!Next,
         Proven!Interlock!outputs, Interlock!outputs,
         Proven!Interlock!EnableLoad, Interlock!EnableLoad,
         Proven!Interlock!OpenValve, Interlock!OpenValve,
         Proven!Interlock!StartPump, Interlock!StartPump,
         Proven!Interlock!StopPump, Interlock!StopPump,
         Proven!Interlock!CloseValve, Interlock!CloseValve,
         Proven!Interlock!DisableLoad, Interlock!DisableLoad,
         Proven!Interlock!PowerLoss, Interlock!PowerLoss
<1>2. Proven!Spec => Proven!InterlockSpec
  BY ProvenConstants, Proven!InterlockRefined
<1> QED
  BY <1>1, <1>2, MachineProven, PTL
     DEF Proven!InterlockSpec, Proven!Interlock!Spec, InterlockSpec, Interlock!Spec

--------------------------------------------------------------------------------
\* Type correctness, and that no command of the user is ever invalid.

LEMMA ZoneStatusType ==
  ASSUME TypeOK, NEW z
  PROVE  ZoneStatus(z) \in {"Idle", "Priming", "Running", "Fault"}
BY DEF TypeOK, ZoneStatus, Active

LEMMA ReportType ==
  ASSUME SwitchTypeOK, NEW z \in Zone, Report(z, "Idle") \/ (TypeOK /\ Report(z, ZoneStatus(z)))
  PROVE  /\ switch' \in [Zone -> BOOLEAN]
         /\ lastStatus' \in [Zone -> {"Idle", "Priming", "Running", "Fault"}]
         /\ lost' \subseteq Zone \cup {Trigger}
<1>1. ASSUME NEW status \in {"Idle", "Priming", "Running", "Fault"}, Report(z, status)
      PROVE  /\ switch' \in [Zone -> BOOLEAN]
             /\ lastStatus' \in [Zone -> {"Idle", "Priming", "Running", "Fault"}]
             /\ lost' \subseteq Zone \cup {Trigger}
  <2>1. (status \in Running) \in BOOLEAN
    BY SMT DEF Running
  <2>2. switch' = [switch EXCEPT ![z] = status \in Running] \/ switch' = switch
    BY <1>1 DEF Report
  <2>3. switch' \in [Zone -> BOOLEAN]
    BY <2>1, <2>2, Zenon DEF SwitchTypeOK
  <2>4. lastStatus' \in [Zone -> {"Idle", "Priming", "Running", "Fault"}]
    BY <1>1 DEF Report, SwitchTypeOK
  <2>5. lost' \subseteq Zone \cup {Trigger}
    BY <1>1 DEF Report, SwitchTypeOK, Lost, Regained
  <2> QED BY <2>3, <2>4, <2>5
<1> QED BY <1>1, ZoneStatusType

\* The attributes of the switches, written by the coordinator and by the loop.
LEMMA SwitchesType ==
  ASSUME TypeOK, LoopOK, SwitchTypeOK, [TaskNext]_taskVars
  PROVE  SwitchTypeOK'
<1>1. CASE UNCHANGED <<lastStatus, switch, clearSwitch, lost>>
  BY <1>1 DEF SwitchTypeOK
<1>2. ASSUME NEW z \in Zone, SwitchOn(z) \/ SwitchOff(z)
      PROVE  SwitchTypeOK'
  <2>1. switch' \in [Zone -> BOOLEAN] /\ UNCHANGED <<lastStatus, clearSwitch>>
    BY <1>2, Zenon DEF SwitchOn, SwitchOff, SwitchTypeOK, taskOnly
  <2>2. lost' \subseteq Zone \cup {Trigger}
    BY <1>2 DEF SwitchOn, SwitchOff, Post, Lost, Regained, SwitchTypeOK
  <2> QED BY <2>1, <2>2 DEF SwitchTypeOK
<1>3. CASE ClearSwitchWritten
  <2>1. clearSwitch' \in BOOLEAN
    BY <1>3, Zenon DEF ClearSwitchWritten
  <2>2. lost' \subseteq Zone \cup {Trigger}
    BY <1>3 DEF ClearSwitchWritten, Post, Lost, Regained, SwitchTypeOK
  <2> QED BY <1>3, <2>1, <2>2 DEF ClearSwitchWritten, SwitchTypeOK, taskOnly
<1>5. CASE RequestReturns
  <2>1. cmd.zone \in Zone
    BY <1>5, CommandRequest DEF RequestReturns, LoopOK, LoopTypeOK
  <2> QED BY <1>1, <1>5, <2>1, ReportType DEF RequestReturns, NoReport, SwitchTypeOK
<1>6. CASE ResetTrigger
  <2>1. clearSwitch' \in BOOLEAN
    BY <1>6, Zenon DEF ResetTrigger, SwitchTypeOK
  <2>2. lost' \subseteq Zone \cup {Trigger}
    BY <1>6 DEF ResetTrigger, Lost, Regained, SwitchTypeOK
  <2> QED BY <1>6, <2>1, <2>2 DEF ResetTrigger, SwitchTypeOK
<1>7. CASE ReportZone
  BY <1>7, ReportType DEF ReportZone, SwitchTypeOK
<1>8. CASE TaskReboot
  <2>1. clearSwitch' \in BOOLEAN /\ switch' \in [Zone -> BOOLEAN]
    BY <1>8, Zenon DEF TaskReboot
  <2>2. lastStatus' \in [Zone -> {"Idle", "Priming", "Running", "Fault"}] /\ lost' = {}
    BY <1>8 DEF TaskReboot
  <2> QED BY <2>1, <2>2 DEF SwitchTypeOK
<1>9. CASE ForceOff
  <2>1. PICK z \in Zone : Report(z, "Idle")
    BY <1>9 DEF ForceOff, LoopOK, LoopTypeOK
  <2> QED BY <1>9, <2>1, ReportType DEF ForceOff, SwitchTypeOK
<1> QED
  BY <1>1, <1>2, <1>3, <1>5, <1>6, <1>7, <1>8, <1>9
     DEF TaskNext, ZigbeeTask, DurationWritten, LoopStep, Wake, DrainIgnoredRequest, DrainRequest,
         DrainCancel, DrainClearFault, AllForced, LoopTick, Account, GoToSleep, Quiet, taskOnly,
         zigbee, taskVars

\* Type correctness of the machine in its loop.
THEOREM TaskTypeCorrect == TaskSpec => []TaskTypeOK
<1>1. Proven!Spec => []Proven!TypeOK
  BY ProvenConstants, Proven!TypeCorrect
<1>2. Proven!TypeOK /\ LoopOK => TypeOK
  BY DEF Proven!TypeOK, TypeOK, LoopOK, Proven!FaultCode, FaultCode, Proven!NoFault, NoFault,
         Proven!Elapsed, Elapsed, Proven!Request, Request, Proven!NoRequest, NoRequest,
         Proven!Active, Active
<1>3. TaskInit => SwitchTypeOK
  <2> SUFFICES ASSUME TaskInit PROVE SwitchTypeOK
    OBVIOUS
  <2>1. switch \in [Zone -> BOOLEAN] /\ clearSwitch \in BOOLEAN
    BY Zenon DEF TaskInit
  <2>2. lastStatus \in [Zone -> {"Idle", "Priming", "Running", "Fault"}] /\ lost = {}
    BY DEF TaskInit
  <2> QED BY <2>1, <2>2 DEF SwitchTypeOK
<1>4. TaskSpec => []TypeOK
  BY <1>1, <1>2, MachineProven, LoopCorrect, PTL
<1>5. TypeOK /\ LoopOK /\ SwitchTypeOK /\ [TaskNext]_taskVars => SwitchTypeOK'
  BY SwitchesType
<1>6. TypeOK /\ LoopOK /\ SwitchTypeOK => TaskTypeOK
  BY DEF TaskTypeOK, LoopOK
<1> QED BY <1>3, <1>4, <1>5, <1>6, LoopCorrect, PTL DEF TaskSpec

\* Neither the machine nor the loop finds fault with a command the queue can hold.
LEMMA RequestValid ==
  ASSUME LoopOK, DrainRequest
  PROVE  after' = after \/ after' # "InvalidRequest"
<1> DEFINE req == [zone |-> Head(queue).zone, duration |-> Head(queue).duration]
<1>1. Head(queue) \in Command /\ Head(queue).type = "Request"
  BY ReceiveType DEF DrainRequest, LoopOK, LoopTypeOK
<1>2. req.zone \in Zone /\ req.duration # 0
  BY <1>1, CommandRequest, TaskConstantTypes DEF Allowed
<1>3. Verdict(req, loopNow) # "InvalidRequest"
  BY <1>2 DEF Verdict, NoFault
<1>4. RequestRejected(req, loopNow) \/ RequestAdmitted(req, loopNow)
  BY DEF DrainRequest
<1> QED BY <1>3, <1>4 DEF RequestRejected, BeginReject, RequestAdmitted

LEMMA TickValid ==
  ASSUME TickFsm(now)
  PROVE  after' = after \/ after' # "InvalidRequest"
<1>1. RunVerdict(now) # "InvalidRequest"
  BY DEF RunVerdict
<1>2. ASSUME NEW code, code # "InvalidRequest", BeginStop(code)
      PROVE  after' # "InvalidRequest"
  BY <1>2 DEF BeginStop
<1>3. CASE TickPriming(now)
  BY <1>2, <1>3 DEF TickPriming, call
<1>4. CASE TickWatering(now)
  BY <1>1, <1>2, <1>4 DEF TickWatering, call, NoFault
<1>5. CASE TickAtRest
  BY <1>5 DEF TickAtRest, call
<1> QED BY <1>3, <1>4, <1>5 DEF TickFsm

LEMMA StepValid ==
  ASSUME LoopOK, NeverInvalid, [TaskNext]_taskVars
  PROVE  NeverInvalid'
<1> USE DEF NeverInvalid, NoFault
<1>1. CASE UNCHANGED <<fault, after>>
  BY <1>1
<1>2. CASE DrainRequest
  BY <1>2, RequestValid DEF DrainRequest, RequestRejected, BeginReject, RequestAdmitted
<1>3. CASE LoopTick
  BY <1>3, TickValid DEF LoopTick, TickFsm, TickPriming, TickWatering, TickAtRest, fsm,
                         BeginStop
<1>4. CASE DrainCancel \/ DrainClearFault
  BY <1>4 DEF DrainCancel, DrainClearFault, Cancel, ClearFault, BeginStop, fsm, call
<1>5. CASE Resume
  BY <1>5 DEF Resume, LoadEnabled, LoadEnableFailed, OpenValve, StartPump, CloseValves,
              DisableLoad, fsm
<1>6. CASE TaskReboot
  BY <1>6 DEF TaskReboot, Reboot
<1> QED
  BY <1>1, <1>2, <1>3, <1>4, <1>5, <1>6
     DEF TaskNext, ZigbeeTask, SwitchOn, SwitchOff, DurationWritten, ClearSwitchWritten,
         LoopStep, Wake, DrainIgnoredRequest, RequestReturns, ResetTrigger, ForceOff, AllForced,
         Account, TakeDeliveryRecord, ReportZone, GoToSleep, Elapse, PollSucceeds, TankChanges, FlowPulse, taskVars, vars,
         fsm, call

\* Whatever the coordinator writes, no command of the user is an invalid request.
THEOREM NeverInvalidCorrect == TaskSpec => []NeverInvalid
<1>1. TaskInit => NeverInvalid
  BY DEF TaskInit, Init, NeverInvalid, NoFault
<1>2. LoopOK /\ NeverInvalid /\ [TaskNext]_taskVars => NeverInvalid'
  BY StepValid
<1> QED BY <1>1, <1>2, LoopCorrect, PTL DEF TaskSpec

\* The inductive invariant of the loop.
THEOREM TaskInductiveCorrect == TaskSpec => []TaskInductive
<1>1. TaskTypeOK /\ LoopOK /\ NeverInvalid => TaskInductive
  BY DEF TaskInductive, LoopOK
<1> QED BY <1>1, TaskTypeCorrect, LoopCorrect, NeverInvalidCorrect, PTL

--------------------------------------------------------------------------------
\* What a step of the loop may do.

LEMMA MachineSequenced == TaskSpec => []Sequenced
<1>1. Proven!Spec => [](Proven!TypeOK /\ Proven!Sequenced)
  BY ProvenConstants, Proven!SequencedCorrect
<1>2. Proven!Sequenced => Sequenced
  BY DEF Proven!Sequenced, Sequenced, Proven!RestIsDry, RestIsDry, Proven!PumpSafe, PumpSafe,
         Proven!FaultIsState, FaultIsState, Proven!Active, Active, Proven!NoFault, NoFault
<1> QED BY <1>1, <1>2, MachineProven, PTL

\* The steps that leave the machine and its outputs as they are.
Unrelated ==
  \/ ZigbeeTask \/ Wake \/ DrainIgnoredRequest \/ RequestReturns \/ Clearing \/ ReportZone
  \/ GoToSleep \/ Elapse \/ PollSucceeds \/ TankChanges \/ FlowPulse
  \/ UNCHANGED taskVars

LEMMA UnrelatedKeeps ==
  ASSUME Unrelated
  PROVE  UNCHANGED <<fsm, outputs, pc>>
<1>1. CASE ZigbeeTask
  BY <1>1 DEF ZigbeeTask, SwitchOn, SwitchOff, DurationWritten, ClearSwitchWritten, vars, call
<1>2. CASE Elapse \/ PollSucceeds \/ TankChanges \/ FlowPulse
  BY <1>2 DEF Elapse, PollSucceeds, TankChanges, FlowPulse, call
<1> QED
  BY <1>1, <1>2 DEF Unrelated, Wake, DrainIgnoredRequest, RequestReturns, Clearing, ResetTrigger,
                    ForceOff, AllForced, ReportZone, GoToSleep, taskVars, vars, call

LEMMA TaskSteps ==
  ASSUME [TaskNext]_taskVars
  PROVE  \/ Unrelated
         \/ DrainRequest \/ DrainCancel \/ DrainClearFault \/ LoopTick \/ Account
         \/ Resume
         \/ TaskReboot
BY DEF TaskNext, LoopStep, Clearing, Unrelated

\* Whatever stops the pump in the middle of the loop, a command for another zone, a
\* limit or a fault, the cycle it ends is recorded; only a reset loses it.
THEOREM TaskStopIsRecorded == TaskSpec => StopIsRecorded
<1> DEFINE Recorded == pump /\ ~pump' => \/ pending' = [zone |-> zone, ml |-> Milliliters(pulses)]
                                         \/ Reboot
<1>1. Sequenced /\ [TaskNext]_taskVars => [Recorded]_vars
  <2> SUFFICES ASSUME Sequenced, [TaskNext]_taskVars, pump, ~pump', ~Reboot
               PROVE  pending' = [zone |-> zone, ml |-> Milliliters(pulses)]
    OBVIOUS
  <2>1. owned /\ pc = "ready" /\ state \in Active
    BY DEF Sequenced, PumpSafe, RestIsDry
  <2>2. ASSUME NEW code, BeginStop(code)
        PROVE  pending' = [zone |-> zone, ml |-> Milliliters(pulses)]
    BY <2>1, <2>2 DEF BeginStop, CaptureDelivery
  <2>3. ~Unrelated
    BY UnrelatedKeeps DEF outputs
  <2>4. ~DrainRequest
    BY <2>1 DEF DrainRequest, RequestRejected, RequestAdmitted, Active
  <2>5. CASE DrainCancel \/ LoopTick
    BY <2>2, <2>5 DEF DrainCancel, Cancel, ClearFault, LoopTick, TickFsm, TickPriming,
                      TickWatering, TickAtRest, outputs
  <2>6. ~DrainClearFault /\ ~Account
    BY DEF DrainClearFault, ClearFault, Account, TakeDeliveryRecord, outputs
  <2>7. ~Resume
    BY <2>1 DEF Resume, LoadEnabled, LoadEnableFailed, OpenValve, StartPump,
                CloseValves, DisableLoad
  <2>8. ~TaskReboot
    BY DEF TaskReboot
  <2> QED BY <2>3, <2>4, <2>5, <2>6, <2>7, <2>8, TaskSteps
<1> QED BY <1>1, MachineSequenced, PTL DEF TaskSpec, StopIsRecorded

\* No step of the loop switches pump and valves together; only a reset does.
THEOREM TaskOneAtATime == TaskSpec => OneAtATime
<1> DEFINE OneOutput == pump' = pump \/ open' = open \/ Reboot
<1>1. Sequenced /\ [TaskNext]_taskVars => [OneOutput]_vars
  <2> SUFFICES ASSUME Sequenced, [TaskNext]_taskVars PROVE OneOutput
    OBVIOUS
  <2> USE DEF outputs
  <2>1. ASSUME NEW code, BeginStop(code)
        PROVE  open' = open
    BY <2>1 DEF BeginStop
  <2>2. CASE Unrelated
    BY <2>2, UnrelatedKeeps
  <2>3. CASE DrainRequest
    <3>1. state = "Idle" /\ pc = "ready"
      BY <2>3 DEF DrainRequest, RequestRejected, RequestAdmitted
    <3>2. open = {}
      BY <3>1 DEF Sequenced, RestIsDry, Active
    <3> QED BY <2>3, <3>2 DEF DrainRequest, RequestRejected, RequestAdmitted, BeginReject
  <2>4. CASE DrainCancel \/ LoopTick
    BY <2>1, <2>4 DEF DrainCancel, Cancel, ClearFault, LoopTick, TickFsm, TickPriming,
                      TickWatering, TickAtRest
  <2>5. CASE DrainClearFault \/ Account
    BY <2>5 DEF DrainClearFault, ClearFault, Account, TakeDeliveryRecord
  <2>6. CASE Resume
    BY <2>6 DEF Resume, LoadEnabled, LoadEnableFailed, OpenValve, StartPump, CloseValves,
                DisableLoad, Sequenced
  <2>7. CASE TaskReboot
    BY <2>7 DEF TaskReboot
  <2> QED BY <2>2, <2>3, <2>4, <2>5, <2>6, <2>7, TaskSteps
<1> QED BY <1>1, MachineSequenced, PTL DEF TaskSpec, OneAtATime

\* However the commands of the user interrupt one another, the loop never comes to
\* rest with the load supply on without having tried to switch it off.
THEOREM TaskRestTriesLoadOff == TaskSpec => RestTriesLoadOff
<1> DEFINE Tried == load' /\ Resting' /\ ~(load /\ Resting) => DisableLoad \/ Reboot
<1>1. Sequenced /\ [TaskNext]_taskVars => [Tried]_vars
  <2> SUFFICES ASSUME Sequenced, [TaskNext]_taskVars, load', Resting', ~(load /\ Resting),
                      ~DisableLoad, ~Reboot
               PROVE  FALSE
    OBVIOUS
  <2> USE DEF Resting
  <2>1. ASSUME NEW code, BeginStop(code)
        PROVE  FALSE
    BY <2>1 DEF BeginStop
  <2>2. ~Unrelated
    BY UnrelatedKeeps DEF fsm, outputs
  <2>3. ~DrainRequest
    BY DEF DrainRequest, RequestRejected, RequestAdmitted, BeginReject
  <2>4. ~DrainCancel /\ ~LoopTick
    BY <2>1 DEF DrainCancel, Cancel, ClearFault, LoopTick, TickFsm, TickPriming, TickWatering,
                TickAtRest, fsm, call, outputs, Active
  <2>5. ~DrainClearFault /\ ~Account
    BY DEF DrainClearFault, ClearFault, Account, TakeDeliveryRecord, fsm, call, outputs, Active
  <2>6. ~Resume
    BY DEF Resume, LoadEnabled, LoadEnableFailed, OpenValve, StartPump, CloseValves, Active
  <2>7. ~TaskReboot
    BY DEF TaskReboot
  <2> QED BY <2>2, <2>3, <2>4, <2>5, <2>6, <2>7, TaskSteps
<1> QED BY <1>1, MachineSequenced, PTL DEF TaskSpec, RestTriesLoadOff

\* A fault is left only for a Cancel or ClearFault command, and that one is consumed.
THEOREM FaultNeedsCommandCorrect == TaskSpec => FaultNeedsCommand
<1> DEFINE Commanded ==
      fault # NoFault /\ fault' # fault
        => \/ queue # <<>> /\ Head(queue).type # "Request" /\ queue' = Tail(queue)
           \/ TaskReboot
<1>1. Sequenced /\ [TaskNext]_taskVars => [Commanded]_taskVars
  <2> SUFFICES ASSUME Sequenced, TaskNext, fault # NoFault, fault' # fault, ~TaskReboot
               PROVE  queue # <<>> /\ Head(queue).type # "Request" /\ queue' = Tail(queue)
    OBVIOUS
  <2>1. state = "Fault"
    BY DEF Sequenced, FaultIsState
  <2>2. ~Resume
    BY <2>1 DEF Sequenced, Resume, LoadEnabled, LoadEnableFailed, OpenValve, StartPump,
                CloseValves, DisableLoad, fsm
  <2>3. ~DrainRequest /\ ~LoopTick
    BY <2>1 DEF DrainRequest, RequestRejected, RequestAdmitted, LoopTick, TickFsm, TickPriming,
                TickWatering, TickAtRest, Active, fsm
  <2>4. CASE DrainCancel \/ DrainClearFault
    BY <2>4 DEF DrainCancel, DrainClearFault, Receive
  <2>5. ~ZigbeeTask
    BY DEF ZigbeeTask, SwitchOn, SwitchOff, DurationWritten, ClearSwitchWritten, vars, fsm
  <2>6. /\ ~Wake /\ ~DrainIgnoredRequest /\ ~RequestReturns /\ ~Account /\ ~ReportZone /\ ~GoToSleep
        /\ ~ResetTrigger /\ ~ForceOff /\ ~AllForced
    BY DEF Wake, DrainIgnoredRequest, RequestReturns, Account, TakeDeliveryRecord, ReportZone,
           GoToSleep, ResetTrigger, ForceOff, AllForced, vars, fsm
  <2>7. ~Elapse /\ ~PollSucceeds /\ ~TankChanges /\ ~FlowPulse
    BY DEF Elapse, PollSucceeds, TankChanges, FlowPulse, fsm
  <2> QED BY <2>2, <2>3, <2>4, <2>5, <2>6, <2>7 DEF TaskNext, LoopStep
<1> QED BY <1>1, MachineSequenced, PTL DEF TaskSpec, FaultNeedsCommand

\* A time limit is reported only for a phase of the pump that lasted as long, however
\* long the drain was blocked before the tick.
THEOREM LimitsAreRealCorrect == TaskSpec => LimitsAreReal
<1> DEFINE Real == after' # after =>
                     /\ after' = "PrimeTimeout" => Sub(now, phaseStart) >= PrimeTimeout
                     /\ after' = "MaxDuration" => Sub(now, phaseStart) >= MaxDispense
<1>1. [TaskNext]_taskVars => [Real]_taskVars
  <2> SUFFICES ASSUME TaskNext, after' # after, after' \in {"PrimeTimeout", "MaxDuration"}
               PROVE  Real
    OBVIOUS
  <2>1. CASE LoopTick
    <3>1. ASSUME NEW code, BeginStop(code)
          PROVE  after' = code
      BY <3>1 DEF BeginStop
    <3>2. CASE TickPriming(now)
      BY <3>1, <3>2 DEF TickPriming, call
    <3>3. CASE TickWatering(now)
      BY <3>1, <3>3 DEF TickWatering, RunVerdict, call, NoFault
    <3>4. ~TickAtRest
      BY DEF TickAtRest, call
    <3> QED BY <2>1, <3>2, <3>3, <3>4 DEF LoopTick, TickFsm
  <2>2. ~DrainRequest
    BY DEF DrainRequest, RequestRejected, RequestAdmitted, BeginReject, Verdict, NoFault
  <2>3. ~DrainCancel /\ ~DrainClearFault /\ ~Account
    BY DEF DrainCancel, DrainClearFault, Account, TakeDeliveryRecord, Cancel, ClearFault,
           BeginStop, call, NoFault
  <2>4. ~Resume
    BY DEF Resume, LoadEnabled, LoadEnableFailed, OpenValve, StartPump, CloseValves,
           DisableLoad, NoFault
  <2>5. ~ZigbeeTask
    BY DEF ZigbeeTask, SwitchOn, SwitchOff, DurationWritten, ClearSwitchWritten, vars, call
  <2>6. /\ ~Wake /\ ~DrainIgnoredRequest /\ ~RequestReturns /\ ~ReportZone /\ ~GoToSleep
        /\ ~ResetTrigger /\ ~ForceOff /\ ~AllForced
    BY DEF Wake, DrainIgnoredRequest, RequestReturns, ReportZone, GoToSleep, ResetTrigger, ForceOff,
           AllForced, vars, call
  <2>7. ~Elapse /\ ~PollSucceeds /\ ~TankChanges /\ ~FlowPulse /\ ~TaskReboot
    BY DEF Elapse, PollSucceeds, TankChanges, FlowPulse, TaskReboot, Reboot, call, NoFault
  <2> QED BY <2>1, <2>2, <2>3, <2>4, <2>5, <2>6, <2>7 DEF TaskNext, LoopStep
<1> QED BY <1>1, PTL DEF TaskSpec, LimitsAreReal

--------------------------------------------------------------------------------
\* The clear-fault trigger.

ClearIsQueued == \E i \in DOMAIN queue : queue[i].type = "ClearFault"

\* Posting never takes a command out of the queue, and a clear-fault command leaves it
\* only by being received.
LEMMA PostKeeps ==
  ASSUME LoopOK, ClearIsQueued, NEW ep, NEW c, Post(ep, c)
  PROVE  ClearIsQueued'
BY DEF LoopOK, LoopTypeOK, Post, ClearIsQueued

LEMMA ReceiveKeeps ==
  ASSUME LoopOK, ClearIsQueued, NEW type, type # "ClearFault", Receive(type)
  PROVE  ClearIsQueued'
<1>1. PICK i \in DOMAIN queue : queue[i].type = "ClearFault"
  BY DEF ClearIsQueued
<1>2. /\ queue \in Seq(Command) /\ queue # <<>> /\ queue' = Tail(queue)
      /\ Head(queue).type = type
  BY DEF LoopOK, LoopTypeOK, Receive
<1>3. i # 1 /\ i - 1 \in DOMAIN queue' /\ queue'[i - 1] = queue[i]
  BY <1>1, <1>2
<1> QED BY <1>1, <1>3 DEF ClearIsQueued

\* The trigger that shows On is pending, or its last write came to nothing: for every
\* depth of the queue, whatever it drops and whatever the stack refuses.
THEOREM TriggerIsPendingCorrect == TaskSpec => []TriggerIsPending
<1>1. TaskInit => TriggerIsPending
  BY DEF TaskInit, TriggerIsPending
<1>2. LoopOK /\ TriggerIsPending /\ [TaskNext]_taskVars => TriggerIsPending'
  <2> SUFFICES ASSUME LoopOK, [TaskNext]_taskVars, clearSwitch',
                      clearSwitch => ClearIsQueued \/ loop = "clearing" \/ Trigger \in lost
               PROVE  ClearIsQueued' \/ loop' = "clearing" \/ Trigger \in lost'
    BY DEF TriggerIsPending, ClearIsQueued
  <2>1. CASE UNCHANGED <<queue, clearSwitch, lost>> /\ (loop' = loop \/ loop # "clearing")
    BY <2>1 DEF ClearIsQueued
  <2>2. ASSUME NEW z \in Zone, SwitchOn(z) \/ SwitchOff(z)
        PROVE  ClearIsQueued' \/ loop' = "clearing" \/ Trigger \in lost'
    <3>1. z # Trigger
      BY ConstantsOK DEF ConstantsOK, Trigger
    <3>2. UNCHANGED <<clearSwitch, loop>> /\ \E c : Post(z, c)
      BY <2>2 DEF SwitchOn, SwitchOff, taskOnly
    <3>3. Trigger \in lost => Trigger \in lost'
      BY <3>1, <3>2 DEF Post, Lost, Regained
    <3> QED BY <3>2, <3>3, PostKeeps
  <2>3. CASE ClearSwitchWritten
    <3>1. Post(Trigger, Plain("ClearFault"))
      BY <2>3 DEF ClearSwitchWritten
    <3>2. CASE Lost(Trigger)
      BY <3>2 DEF Lost
    <3>3. CASE queue' = Append(queue, Plain("ClearFault"))
      <4>1. queue \in Seq(Command)
        BY DEF LoopOK, LoopTypeOK
      <4>2. Len(queue) + 1 \in DOMAIN queue' /\ queue'[Len(queue) + 1].type = "ClearFault"
        BY <3>3, <4>1 DEF Plain
      <4> QED BY <4>2 DEF ClearIsQueued
    <3> QED BY <3>1, <3>2, <3>3 DEF Post
  <2>4. CASE DrainIgnoredRequest \/ DrainRequest \/ DrainCancel
    <3>1. UNCHANGED <<clearSwitch, lost>> /\ loop = "drain"
      BY <2>4 DEF DrainIgnoredRequest, DrainRequest, DrainCancel, Receive, zigbee
    <3> QED BY <2>4, <3>1, ReceiveKeeps DEF DrainIgnoredRequest, DrainRequest, DrainCancel
  <2>5. CASE DrainClearFault
    BY <2>5 DEF DrainClearFault
  <2>6. CASE ResetTrigger
    BY <2>6 DEF ResetTrigger, Lost
  <2>7. ASSUME NEW z \in Zone, NEW status, Report(z, status), UNCHANGED <<queue, clearSwitch>>,
               loop # "clearing"
        PROVE  ClearIsQueued' \/ loop' = "clearing" \/ Trigger \in lost'
    <3>1. z # Trigger
      BY ConstantsOK DEF ConstantsOK, Trigger
    <3>2. Trigger \in lost => Trigger \in lost'
      BY <2>7, <3>1 DEF Report, Lost, Regained
    <3> QED BY <2>7, <3>2 DEF ClearIsQueued
  <2>8. CASE RequestReturns
    <3>1. cmd.zone \in Zone
      BY <2>8, CommandRequest DEF RequestReturns, LoopOK, LoopTypeOK
    <3> QED BY <2>1, <2>7, <2>8, <3>1 DEF RequestReturns, NoReport
  <2>9. CASE ForceOff \/ ReportZone
    BY <2>7, <2>9 DEF ForceOff, ReportZone, LoopOK, LoopTypeOK
  <2>10. ~TaskReboot
    BY DEF TaskReboot
  <2> QED
    BY <2>1, <2>2, <2>3, <2>4, <2>5, <2>6, <2>8, <2>9, <2>10
       DEF TaskNext, ZigbeeTask, DurationWritten, LoopStep, Wake, AllForced, LoopTick,
           Account, GoToSleep, Quiet, taskOnly, zigbee, taskVars
<1> QED BY <1>1, <1>2, LoopCorrect, PTL DEF TaskSpec

--------------------------------------------------------------------------------
\* A watered zone shows On.  Unless the last write of its switch came to nothing, it
\* can show Off for a while only: then either a Cancel with no request for the zone
\* behind it is still in the queue, or the machine is not on its way to water this
\* zone, nor is it told to.

\* The machine waters the zone, or a call in progress will.
Bound(z) ==
  \/ pc \in {"enableLoad", "settle"} /\ arg.zone = z
  \/ zone = z /\ (pc = "pullIn" \/ (pc = "ready" /\ state \in Active))

Asks(c, z) == c.type = "Request" /\ c.zone = z
NotAsked(z) == \A i \in DOMAIN queue : ~Asks(queue[i], z)

CancelWaits(z) ==
  \E i \in DOMAIN queue :
    /\ queue[i].type = "Cancel"
    /\ \A j \in DOMAIN queue : j > i => ~Asks(queue[j], z)

OffIsMeant ==
  \A z \in Zone \ lost : lastStatus[z] \in Running /\ ~switch[z]
                    => CancelWaits(z) \/ (NotAsked(z) /\ ~Bound(z))

\* When the loop sleeps everything is reported.
SleepReported ==
  loop = "sleep" => \A z \in Zone : lastStatus[z] = ZoneStatus(z)

LEMMA PostAsks ==
  ASSUME queue \in Seq(Command), NEW c, NEW z, ~Asks(c, z), queue' = Append(queue, c)
  PROVE  /\ CancelWaits(z) => CancelWaits(z)'
         /\ NotAsked(z) => NotAsked(z)'
<1>1. DOMAIN queue = 1 .. Len(queue) /\ Len(queue) \in Nat
  OBVIOUS
<1>2. DOMAIN queue' = 1 .. (Len(queue) + 1)
  BY <1>1
<1>3. \A i \in DOMAIN queue' : queue'[i] = IF i \in DOMAIN queue THEN queue[i] ELSE c
  BY <1>1
<1>4. DOMAIN queue \subseteq DOMAIN queue'
  BY <1>1, <1>2
<1>5. NotAsked(z) => NotAsked(z)'
  BY <1>3 DEF NotAsked
<1>6. ASSUME CancelWaits(z)
      PROVE  CancelWaits(z)'
  <2>1. PICK i \in DOMAIN queue :
               /\ queue[i].type = "Cancel"
               /\ \A j \in DOMAIN queue : j > i => ~Asks(queue[j], z)
    BY <1>6 DEF CancelWaits
  <2>2. i \in DOMAIN queue' /\ queue'[i].type = "Cancel"
    BY <1>3, <1>4, <2>1
  <2>3. ASSUME NEW j \in DOMAIN queue', j > i
        PROVE  ~Asks(queue'[j], z)
    BY <1>3, <2>1, <2>3
  <2> QED BY <2>2, <2>3 DEF CancelWaits
<1> QED BY <1>5, <1>6

\* A Cancel just posted is the last command.
LEMMA PostCancel ==
  ASSUME queue \in Seq(Command), NEW z, queue' = Append(queue, Plain("Cancel"))
  PROVE  CancelWaits(z)'
<1>1. Len(queue) \in Nat /\ DOMAIN queue' = 1 .. (Len(queue) + 1)
  OBVIOUS
<1>2. queue'[Len(queue) + 1].type = "Cancel"
  BY DEF Plain
<1>3. Len(queue) + 1 \in DOMAIN queue' /\ \A j \in DOMAIN queue' : ~(j > Len(queue) + 1)
  BY <1>1
<1> QED BY <1>2, <1>3 DEF CancelWaits

\* What is received is the first command; the rest moves up.
LEMMA ReceiveAsks ==
  ASSUME queue \in Seq(Command), NEW type, Receive(type), NEW z
  PROVE  /\ NotAsked(z) => NotAsked(z)' /\ ~Asks(Head(queue), z)
         /\ CancelWaits(z) => CancelWaits(z)' \/ (type = "Cancel" /\ NotAsked(z)')
<1>1. queue # <<>> /\ queue' = Tail(queue) /\ Head(queue).type = type
  BY DEF Receive
<1>2. /\ Len(queue) \in Nat \ {0} /\ DOMAIN queue = 1 .. Len(queue)
      /\ DOMAIN queue' = 1 .. (Len(queue) - 1)
      /\ Head(queue) = queue[1]
  BY <1>1
<1>3. \A j \in DOMAIN queue' : j + 1 \in DOMAIN queue /\ queue'[j] = queue[j + 1]
  BY <1>1, <1>2
<1>4. NotAsked(z) => NotAsked(z)' /\ ~Asks(Head(queue), z)
  BY <1>2, <1>3 DEF NotAsked
<1>5. ASSUME CancelWaits(z)
      PROVE  CancelWaits(z)' \/ (type = "Cancel" /\ NotAsked(z)')
  <2>1. PICK i \in DOMAIN queue :
               /\ queue[i].type = "Cancel"
               /\ \A j \in DOMAIN queue : j > i => ~Asks(queue[j], z)
    BY <1>5 DEF CancelWaits
  <2>2. CASE i = 1
    <3>1. \A j \in DOMAIN queue' : j + 1 > 1
      BY <1>2
    <3> QED BY <1>1, <1>2, <1>3, <2>1, <2>2, <3>1 DEF NotAsked
  <2>3. CASE i # 1
    <3>1. i - 1 \in DOMAIN queue' /\ queue'[i - 1] = queue[i]
      BY <1>1, <1>2, <2>3
    <3>2. ASSUME NEW j \in DOMAIN queue', j > i - 1
          PROVE  ~Asks(queue'[j], z)
      <4>1. j + 1 > i
        BY <1>2, <3>2
      <4> QED BY <1>3, <2>1, <4>1
    <3> QED BY <2>1, <3>1, <3>2 DEF CancelWaits
  <2> QED BY <2>2, <2>3
<1> QED BY <1>4, <1>5

\* Only a request for the zone sets the machine on its way to water it.
LEMMA BoundByRequest ==
  ASSUME [TaskNext]_taskVars, NEW z \in Zone, Bound(z)'
  PROVE  Bound(z) \/ (DrainRequest /\ Asks(Head(queue), z))
<1> USE DEF Bound, Active
<1>1. CASE UNCHANGED <<pc, arg, zone, state>>
  BY <1>1
<1>2. CASE DrainRequest
  <2> DEFINE req == [zone |-> Head(queue).zone, duration |-> Head(queue).duration]
  <2>2. Head(queue).type = "Request"
    BY <1>2 DEF DrainRequest, Receive
  <2>3. CASE RequestRejected(req, loopNow)
    BY <2>3 DEF RequestRejected, BeginReject
  <2>4. CASE RequestAdmitted(req, loopNow)
    BY <1>2, <2>2, <2>4 DEF RequestAdmitted, Asks
  <2> QED BY <1>2, <2>3, <2>4 DEF DrainRequest
<1>3. CASE LoopTick
  BY <1>3 DEF LoopTick, TickFsm, TickPriming, TickWatering, TickAtRest, BeginStop, fsm, call
<1>4. CASE DrainCancel \/ DrainClearFault
  BY <1>4 DEF DrainCancel, DrainClearFault, Cancel, ClearFault, BeginStop, fsm, call
<1>5. CASE Resume
  <2>1. CASE LoadEnabled
    BY <2>1 DEF LoadEnabled, fsm
  <2>2. CASE LoadEnableFailed \/ CloseValves
    BY <2>2 DEF LoadEnableFailed, CloseValves
  <2>3. CASE OpenValve \/ StartPump
    BY <2>3 DEF OpenValve, StartPump
  <2>4. CASE DisableLoad
    <3>1. pc' = "ready" /\ state' \in {"Idle", "Fault"}
      BY <2>4, Zenon DEF DisableLoad
    <3> QED BY <3>1
  <2> QED BY <1>5, <2>1, <2>2, <2>3, <2>4 DEF Resume
<1>6. CASE TaskReboot
  BY <1>6 DEF TaskReboot, Reboot
<1>7. CASE ZigbeeTask \/ UNCHANGED taskVars
  BY <1>1, <1>7 DEF ZigbeeTask, SwitchOn, SwitchOff, DurationWritten, ClearSwitchWritten, taskVars,
                    vars, fsm, call
<1>8. CASE \/ Wake \/ DrainIgnoredRequest \/ RequestReturns \/ Clearing \/ Account
           \/ ReportZone \/ GoToSleep
  BY <1>1, <1>8 DEF Wake, DrainIgnoredRequest, RequestReturns, Clearing, ResetTrigger, ForceOff,
                    AllForced, Account, TakeDeliveryRecord, ReportZone, GoToSleep, vars, fsm, call
<1>9. CASE Elapse \/ PollSucceeds \/ TankChanges \/ FlowPulse
  BY <1>1, <1>9 DEF Elapse, PollSucceeds, TankChanges, FlowPulse, fsm, call
<1> QED
  BY <1>2, <1>3, <1>4, <1>5, <1>6, <1>7, <1>8, <1>9 DEF TaskNext, LoopStep, Clearing

\* A Cancel leaves no zone with water to come.
LEMMA CancelEnds ==
  ASSUME TypeOK, DrainCancel, NEW z \in Zone
  PROVE  ~Bound(z)'
<1>1. pc = "ready" /\ state \in {"Idle", "Fault"} \cup Active
  BY DEF TypeOK, DrainCancel, Receive
<1>2. CASE Cancel
  BY <1>2 DEF Cancel, BeginStop, Bound
<1>3. CASE ClearFault
  BY <1>1, <1>3 DEF ClearFault, Bound, Active, call
<1>4. CASE state = "Idle" /\ UNCHANGED <<fsm, call, outputs>>
  BY <1>1, <1>4 DEF Bound, Active, fsm, call
<1> QED BY <1>2, <1>3, <1>4 DEF DrainCancel

\* A zone whose report says watered and whose switch is Off was so before, or its
\* user has just switched it off, unless the write came to nothing.
LEMMA OffAgain ==
  ASSUME TypeOK, SwitchTypeOK, LoopOK, [TaskNext]_taskVars, NEW z \in Zone,
         lastStatus'[z] \in Running, ~switch'[z], z \notin lost'
  PROVE  (lastStatus[z] \in Running /\ ~switch[z] /\ z \notin lost) \/ SwitchOff(z)
<1>1. ASSUME NEW y, NEW status, Report(y, status)
      PROVE  lastStatus[z] \in Running /\ ~switch[z] /\ z \notin lost
  <2>1. y # z
    <3> SUFFICES ASSUME y = z PROVE FALSE
      OBVIOUS
    <3>1. lastStatus'[z] = status
      BY <1>1 DEF Report, SwitchTypeOK
    <3>2. switch' = [switch EXCEPT ![z] = status \in Running]
      BY <1>1 DEF Report, Lost
    <3>3. switch'[z] = (status \in Running)
      BY <3>2, Zenon DEF SwitchTypeOK
    <3> QED BY <3>1, <3>3
  <2>2. switch' = switch \/ \E on : switch' = [switch EXCEPT ![y] = on]
    BY <1>1 DEF Report
  <2>3. switch'[z] = switch[z]
    BY <2>1, <2>2, Zenon DEF SwitchTypeOK
  <2>4. lastStatus'[z] = lastStatus[z] /\ (z \in lost => z \in lost')
    BY <1>1, <2>1 DEF Report, SwitchTypeOK, Lost, Regained
  <2> QED BY <2>3, <2>4
<1>2. CASE UNCHANGED <<lastStatus, switch>> /\ (z \in lost => z \in lost')
  BY <1>2
<1>3. ASSUME NEW y \in Zone, SwitchOn(y)
      PROVE  lastStatus[z] \in Running /\ ~switch[z] /\ z \notin lost
  <2>1. lastStatus' = lastStatus /\ switch' = [switch EXCEPT ![y] = TRUE]
    BY <1>3 DEF SwitchOn, taskOnly
  <2>2. switch'[z] = (IF z = y THEN TRUE ELSE switch[z])
    BY <2>1, Zenon DEF SwitchTypeOK
  <2>3. z # y => (z \in lost => z \in lost')
    BY <1>3 DEF SwitchOn, Post, Lost, Regained
  <2> QED BY <2>1, <2>2, <2>3
<1>4. ASSUME NEW y \in Zone, SwitchOff(y), y # z
      PROVE  lastStatus[z] \in Running /\ ~switch[z] /\ z \notin lost
  <2>1. lastStatus' = lastStatus /\ switch' = [switch EXCEPT ![y] = FALSE]
    BY <1>4 DEF SwitchOff, taskOnly
  <2>2. switch'[z] = switch[z]
    BY <1>4, <2>1, Zenon DEF SwitchTypeOK
  <2>3. z \in lost => z \in lost'
    BY <1>4 DEF SwitchOff, Post, Lost, Regained
  <2> QED BY <2>1, <2>2, <2>3
<1>5. CASE RequestReturns \/ ForceOff \/ ReportZone
  BY <1>1, <1>2, <1>5 DEF RequestReturns, ForceOff, ReportZone, NoReport
<1>6. CASE ClearSwitchWritten \/ ResetTrigger
  <2>1. z # Trigger
    BY ConstantsOK DEF ConstantsOK, Trigger
  <2>2. UNCHANGED <<lastStatus, switch>> /\ (Lost(Trigger) \/ Regained(Trigger))
    BY <1>6 DEF ClearSwitchWritten, ResetTrigger, Post, taskOnly
  <2>3. z \in lost => z \in lost'
    BY <2>1, <2>2 DEF Lost, Regained
  <2> QED BY <1>2, <2>2, <2>3
<1>7. ~TaskReboot
  BY DEF TaskReboot, Running
<1> QED
  BY <1>2, <1>3, <1>4, <1>5, <1>6, <1>7
     DEF TaskNext, ZigbeeTask, DurationWritten, LoopStep, Wake, DrainIgnoredRequest, DrainRequest,
         DrainCancel, DrainClearFault, AllForced, LoopTick, Account, GoToSleep, Quiet, taskOnly,
         zigbee, taskVars

LEMMA OffStaysMeant ==
  ASSUME TaskTypeOK, LoopOK, OffIsMeant, [TaskNext]_taskVars
  PROVE  OffIsMeant'
<1> SUFFICES ASSUME NEW z \in Zone, z \notin lost', lastStatus'[z] \in Running, ~switch'[z]
             PROVE  CancelWaits(z)' \/ (NotAsked(z)' /\ ~Bound(z)')
  BY DEF OffIsMeant
<1>1. queue \in Seq(Command) /\ TypeOK /\ SwitchTypeOK
  BY DEF TaskTypeOK, LoopTypeOK
<1>2. CASE SwitchOff(z)
  <2>1. queue' = Append(queue, Plain("Cancel"))
    BY <1>2 DEF SwitchOff, Post, Lost
  <2> QED BY <1>1, <2>1, PostCancel
<1>3. CASE lastStatus[z] \in Running /\ ~switch[z] /\ z \notin lost
  <2>1. CancelWaits(z) \/ (NotAsked(z) /\ ~Bound(z))
    BY <1>3 DEF OffIsMeant
  <2>2. CASE queue' = queue
    <3>1. ~DrainRequest
      BY <1>1, <2>2 DEF DrainRequest, Receive
    <3> QED BY <2>1, <2>2, <3>1, BoundByRequest DEF CancelWaits, NotAsked
  <2>3. ASSUME NEW c, NEW ep, ~Asks(c, z), Post(ep, c), ~DrainRequest
        PROVE  CancelWaits(z)' \/ (NotAsked(z)' /\ ~Bound(z)')
    BY <1>1, <2>1, <2>2, <2>3, PostAsks, BoundByRequest DEF Post
  <2>4. ASSUME NEW y \in Zone, SwitchOn(y)
        PROVE  CancelWaits(z)' \/ (NotAsked(z)' /\ ~Bound(z)')
    <3>1. y # z
      BY <1>1, <2>4, Zenon DEF SwitchOn, SwitchTypeOK
    <3>2. ~DrainRequest
      BY <2>4 DEF SwitchOn, DrainRequest, Receive, taskOnly
    <3> QED BY <2>3, <2>4, <3>1, <3>2 DEF SwitchOn, Asks
  <2>5. ASSUME NEW y \in Zone, SwitchOff(y)
        PROVE  CancelWaits(z)' \/ (NotAsked(z)' /\ ~Bound(z)')
    <3>1. ~DrainRequest
      BY <2>5 DEF SwitchOff, DrainRequest, Receive, taskOnly
    <3> QED BY <2>3, <2>5, <3>1 DEF SwitchOff, Asks, Plain
  <2>6. CASE ClearSwitchWritten
    <3>1. ~DrainRequest
      BY <2>6 DEF ClearSwitchWritten, DrainRequest, Receive, taskOnly
    <3> QED BY <2>2, <2>3, <2>6, <3>1 DEF ClearSwitchWritten, Asks, Plain
  <2>7. ASSUME NEW type, type # "Cancel", Receive(type)
        PROVE  CancelWaits(z)' \/ (NotAsked(z)' /\ ~Bound(z)')
    BY <1>1, <2>1, <2>7, ReceiveAsks, BoundByRequest
  <2>8. CASE DrainCancel
    BY <1>1, <2>1, <2>8, ReceiveAsks, CancelEnds DEF DrainCancel
  <2>9. ~TaskReboot
    BY DEF TaskReboot, Running
  <2> QED
    BY <2>2, <2>4, <2>5, <2>6, <2>7, <2>8, <2>9
       DEF TaskNext, ZigbeeTask, DurationWritten, LoopStep, Wake, DrainIgnoredRequest,
           DrainRequest, RequestReturns, DrainClearFault, ResetTrigger, ForceOff, AllForced, LoopTick, Account, ReportZone,
           GoToSleep, Quiet, taskOnly, zigbee, taskVars
<1> QED BY <1>1, <1>2, <1>3, OffAgain

LEMMA StaysReported ==
  ASSUME LoopOK, SleepReported, [TaskNext]_taskVars
  PROVE  SleepReported'
<1> SUFFICES ASSUME loop' = "sleep", NEW z \in Zone
             PROVE  lastStatus'[z] = ZoneStatus(z)'
  BY DEF SleepReported
<1> USE DEF ZoneStatus
<1>1. CASE UNCHANGED <<loop, lastStatus, owned, zone, state>>
  BY <1>1 DEF SleepReported
<1>2. CASE GoToSleep
  BY <1>2 DEF GoToSleep, fsm
<1>3. CASE TaskReboot
  BY <1>3 DEF TaskReboot, Reboot
<1>4. CASE Resume /\ Quiet
  <2>1. loop # "sleep" \/ pc = "ready"
    BY DEF LoopOK, Paced
  <2> QED BY <1>4, <2>1 DEF Resume, LoadEnabled, LoadEnableFailed, OpenValve, StartPump,
                            CloseValves, DisableLoad, Quiet, taskOnly
<1>5. ~Wake /\ ~DrainIgnoredRequest /\ ~DrainRequest /\ ~RequestReturns /\ ~DrainCancel
      /\ ~DrainClearFault /\ ~LoopTick /\ ~Account /\ ~ReportZone
      /\ ~ResetTrigger /\ ~ForceOff /\ ~AllForced
  BY DEF ResetTrigger, ForceOff, AllForced, Wake, DrainIgnoredRequest, DrainRequest, RequestReturns, DrainCancel, DrainClearFault,
         Receive, LoopTick, Account, ReportZone, taskOnly
<1> QED
  BY <1>1, <1>2, <1>3, <1>4, <1>5
     DEF TaskNext, ZigbeeTask, SwitchOn, SwitchOff, DurationWritten, ClearSwitchWritten,
         LoopStep, Elapse, PollSucceeds, TankChanges, FlowPulse, Quiet, taskOnly, zigbee,
         taskVars, vars, fsm

\* A zone that is watered shows On once every command is handled, unless the last write
\* of its switch came to nothing: for every number of zones, every depth of the queue,
\* every order of commands, whatever is dropped and whatever is refused.
THEOREM RunningShowsOnCorrect == TaskSpec => []RunningShowsOn
<1>1. TaskInit => OffIsMeant /\ SleepReported
  BY DEF TaskInit, Init, OffIsMeant, SleepReported, ZoneStatus, Running
<1>2. TaskTypeOK /\ LoopOK /\ OffIsMeant /\ [TaskNext]_taskVars => OffIsMeant'
  BY OffStaysMeant
<1>3. LoopOK /\ SleepReported /\ [TaskNext]_taskVars => SleepReported'
  BY StaysReported
<1>4. TaskTypeOK /\ LoopOK /\ OffIsMeant /\ SleepReported => RunningShowsOn
  <2> SUFFICES ASSUME TaskTypeOK, LoopOK, OffIsMeant, SleepReported, loop = "sleep", queue = <<>>,
                      NEW z \in Zone \ lost, ZoneStatus(z) \in Running, ~switch[z]
               PROVE  FALSE
    BY DEF RunningShowsOn, AtRest
  <2>1. pc = "ready"
    BY DEF LoopOK, Paced
  <2>2. owned /\ z = zone
    BY DEF TaskTypeOK, TypeOK, ZoneStatus, Running
  <2>3. state \in Active
    BY <2>2 DEF TaskTypeOK, TypeOK, ZoneStatus, Running, Active
  <2>4. Bound(z)
    BY <2>1, <2>2, <2>3 DEF Bound
  <2>5. ~CancelWaits(z)
    BY DEF CancelWaits
  <2> QED BY <2>4, <2>5 DEF OffIsMeant, SleepReported
<1> QED BY <1>1, <1>2, <1>3, <1>4, TaskTypeCorrect, LoopCorrect, PTL DEF TaskSpec
================================================================================
