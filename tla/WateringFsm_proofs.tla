-------------------------- MODULE WateringFsm_proofs ---------------------------
(***************************************************************************)
(* Proofs about WateringFsm, for every set of zones and every value of the *)
(* timing constants that satisfies ConstantsOK.                            *)
(***************************************************************************)
EXTENDS WateringFsm, TLAPS

\* An unsigned difference is a reading of the clock.
LEMMA SubType ==
  ASSUME NEW a \in Elapsed, NEW b \in Elapsed
  PROVE  Sub(a, b) \in Elapsed
BY ConstantsOK DEF Sub, Elapsed

\* The conversion of the flow meter yields a natural number.
LEMMA MillilitersType ==
  ASSUME NEW p \in Nat
  PROVE  Milliliters(p) \in Nat
BY DEF Milliliters

LEMMA VerdictType ==
  ASSUME NEW req, NEW nowMs
  PROVE  Verdict(req, nowMs) \in FaultCode
BY DEF Verdict, FaultCode, NoFault

\* Only a request for a valid zone passes the preconditions.
LEMMA VerdictNone ==
  ASSUME NEW req, NEW nowMs, Verdict(req, nowMs) = NoFault
  PROVE  req.zone \in Zone
BY DEF Verdict, NoFault

LEMMA InitType == Init => TypeOK
<1> SUFFICES ASSUME Init PROVE TypeOK
  OBVIOUS
<1>1. tankLow \in BOOLEAN /\ load \in BOOLEAN
  <2>1. LowTankReadings \subseteq BOOLEAN
    BY ConstantsOK DEF ConstantsOK
  <2> QED BY <2>1 DEF Init
<1>2. 0 \in Elapsed /\ TickGap \in 0 .. TickGap
  BY ConstantsOK DEF ConstantsOK, Elapsed
<1> QED
  BY <1>1, <1>2 DEF Init, TypeOK, NoFault, FaultCode, NoDelivery, NoRequest, NoData

--------------------------------------------------------------------------------
\* TypeOK is preserved, one lemma for each group of actions.

\* What ConstantsOK says of each constant a step stores.
LEMMA ConstantTypes ==
  /\ ClockMod \in Nat \ {0} /\ TickGap \in Nat \ {0}
  /\ LoadSettle \in Nat /\ PullIn \in Nat /\ PumpToClose \in Nat /\ CloseToLoadOff \in Nat
  /\ UartTimes \subseteq Nat
  /\ Durations \subseteq Nat
BY ConstantsOK DEF ConstantsOK

LEMMA FaultCodes ==
  {NoFault, "PrimeTimeout", "LoadEnableFailed"} \subseteq FaultCode
BY DEF FaultCode

\* stopOutputs(), from whatever call.
LEMMA BeginStopType ==
  ASSUME TypeOK, NEW code \in FaultCode, BeginStop(code), UNCHANGED plant,
         now' = now, sleep' \in 0 .. TickGap
  PROVE  TypeOK'
BY ConstantTypes, MillilitersType
   DEF TypeOK, BeginStop, CaptureDelivery, plant

\* The calls of the task.
LEMMA CallsType ==
  ASSUME TypeOK,
         \/ CallRequest \/ CallTick \/ CallCancel \/ CallClearFault
         \/ CallTakeDeliveryRecord
  PROVE  TypeOK'
<1> USE DEF TypeOK, fsm, call, outputs, plant
<1>1. CASE CallRequest
  <2>1. ASSUME NEW req \in Request, NEW t, RequestRejected(req, t), UNCHANGED <<plant, now, sleep>>
        PROVE  TypeOK'
    BY <2>1, VerdictType, ConstantTypes DEF RequestRejected, BeginReject
  <2>2. ASSUME NEW req \in Request, NEW t, RequestAdmitted(req, t), UNCHANGED <<plant, now, sleep>>
        PROVE  TypeOK'
    BY <2>2, VerdictNone, ConstantTypes DEF RequestAdmitted
  <2> QED BY <1>1, <2>1, <2>2 DEF CallRequest
<1>2. CASE CallTick
  <2>1. TickGap \in 0 .. TickGap
    BY ConstantTypes
  <2>2. CASE TickPriming(now)
    <3>1. CASE BeginStop("PrimeTimeout")
      BY <1>2, <2>1, <3>1, BeginStopType, FaultCodes DEF CallTick
    <3>2. CASE ~BeginStop("PrimeTimeout")
      BY <1>2, <2>1, <2>2, <3>2 DEF CallTick, TickPriming, Active
    <3> QED BY <3>1, <3>2
  <2>3. CASE TickWatering(now)
    <3>1. ASSUME NEW code \in FaultCode, BeginStop(code)
          PROVE  TypeOK'
      BY <1>2, <2>1, <3>1, BeginStopType DEF CallTick
    <3>2. CASE UNCHANGED <<fsm, call, outputs>>
      BY <1>2, <2>1, <3>2 DEF CallTick
    <3> QED BY <2>3, <3>1, <3>2, FaultCodes DEF TickWatering
  <2>4. CASE TickAtRest
    BY <1>2, <2>1, <2>4 DEF CallTick, TickAtRest
  <2> QED BY <1>2, <2>2, <2>3, <2>4 DEF CallTick, TickFsm
<1>3. CASE CallCancel
  BY <1>3, BeginStopType, FaultCodes DEF CallCancel, Cancel
<1>4. CASE CallClearFault
  BY <1>4, FaultCodes DEF CallClearFault, ClearFault
<1>5. CASE CallTakeDeliveryRecord
  BY <1>5 DEF CallTakeDeliveryRecord, TakeDeliveryRecord, NoDelivery
<1> QED BY <1>1, <1>2, <1>3, <1>4, <1>5

\* The steps of a blocked call.
LEMMA ResumeType ==
  ASSUME TypeOK, Resume
  PROVE  TypeOK'
<1> USE DEF TypeOK, fsm, call, outputs, plant
<1>1. CASE LoadEnabled
  BY <1>1, ConstantTypes DEF LoadEnabled
<1>2. CASE LoadEnableFailed
  <2>1. load' \in BOOLEAN
    BY <1>2, Zenon DEF LoadEnableFailed
  <2> QED BY <1>2, <2>1, ConstantTypes, FaultCodes DEF LoadEnableFailed
<1>3. CASE OpenValve
  <2>1. arg.zone \in Zone /\ arg.duration \in Nat
    <3>1. ASSUME NEW r \in Request
          PROVE  r.duration \in Nat
      BY ConstantTypes DEF Request
    <3>2. NoRequest.duration \in Nat
      BY DEF NoRequest
    <3>3. arg \in Request \/ arg = NoRequest
      OBVIOUS
    <3> QED BY <1>3, <3>1, <3>2, <3>3 DEF OpenValve
  <2> QED BY <1>3, <2>1, ConstantTypes DEF OpenValve
<1>4. CASE StartPump
  BY <1>4 DEF StartPump, Active
<1>5. CASE CloseValves
  BY <1>5, ConstantTypes DEF CloseValves
<1>6. CASE DisableLoad
  <2>1. load' \in BOOLEAN /\ owned' \in BOOLEAN
    BY <1>6, Zenon DEF DisableLoad
  <2> QED BY <1>6, <2>1, FaultCodes DEF DisableLoad
<1> QED BY <1>1, <1>2, <1>3, <1>4, <1>5, <1>6 DEF Resume

\* Time and the environment.
LEMMA EnvironmentType ==
  ASSUME TypeOK, Elapse \/ Environment
  PROVE  TypeOK'
<1> USE DEF TypeOK, fsm, call, outputs, plant
<1>1. CASE Elapse
  BY <1>1, ConstantTypes DEF Elapse, Elapsed
<1>2. CASE PollSucceeds
  BY <1>2, ConstantsOK DEF ConstantsOK, PollSucceeds
<1>3. CASE TankChanges
  BY <1>3, ConstantsOK DEF ConstantsOK, TankChanges
<1>4. CASE FlowPulse
  BY <1>4 DEF FlowPulse
<1>5. CASE Reboot
  <2>1. load' \in BOOLEAN /\ tankLow' \in BOOLEAN
    BY <1>5, Zenon DEF Reboot
  <2>2. 0 \in Elapsed /\ TickGap \in 0 .. TickGap
    BY ConstantTypes DEF Elapsed
  <2> QED BY <1>5, <2>1, <2>2, FaultCodes DEF Reboot, NoDelivery, NoData
<1> QED BY <1>1, <1>2, <1>3, <1>4, <1>5 DEF Environment

\* Type correctness of the whole state machine.
THEOREM TypeCorrect == Spec => []TypeOK
<1>1. Init => TypeOK
  BY InitType
<1>2. TypeOK /\ [Next]_vars => TypeOK'
  <2>1. CASE UNCHANGED vars
    BY <2>1 DEF vars, TypeOK, fsm, call, outputs, plant
  <2> QED BY <2>1, CallsType, ResumeType, EnvironmentType DEF Next
<1> QED BY <1>1, <1>2, PTL DEF Spec

--------------------------------------------------------------------------------
\* The sequencing of the outputs.

LEMMA InitSequenced == Init => Sequenced
BY DEF Init, Sequenced, RestIsDry, PumpSafe, FaultIsState, Active

\* Only a running cycle is stopped with the delays.
LEMMA BeginStopSequenced ==
  ASSUME Sequenced, pc = "ready", state \in Active, NEW code, BeginStop(code)
  PROVE  Sequenced'
BY DEF Sequenced, RestIsDry, PumpSafe, FaultIsState, Active, BeginStop, CaptureDelivery

LEMMA CallsSequenced ==
  ASSUME TypeOK, Sequenced,
         \/ CallRequest \/ CallTick \/ CallCancel \/ CallClearFault
         \/ CallTakeDeliveryRecord
  PROVE  Sequenced'
<1> USE DEF fsm, call, outputs
<1>1. CASE CallRequest
  <2>1. ASSUME NEW req, NEW t, RequestRejected(req, t)
        PROVE  Sequenced'
    BY <2>1 DEF RequestRejected, BeginReject,
                Sequenced, RestIsDry, PumpSafe, FaultIsState, Active
  <2>2. ASSUME NEW req, NEW t, RequestAdmitted(req, t)
        PROVE  Sequenced'
    BY <2>2 DEF RequestAdmitted, Sequenced, RestIsDry, PumpSafe, FaultIsState, Active
  <2> QED BY <1>1, <2>1, <2>2 DEF CallRequest
<1>2. CASE CallTick
  <2>1. CASE TickPriming(now)
    <3>1. CASE BeginStop("PrimeTimeout")
      BY <2>1, <3>1, BeginStopSequenced DEF TickPriming, Active
    <3>2. CASE ~BeginStop("PrimeTimeout")
      BY <2>1, <3>2 DEF TickPriming, Sequenced, RestIsDry, PumpSafe, FaultIsState, Active
    <3> QED BY <3>1, <3>2
  <2>2. CASE TickWatering(now)
    <3>1. ASSUME NEW code, BeginStop(code)
          PROVE  Sequenced'
      BY <2>2, <3>1, BeginStopSequenced DEF TickWatering, Active
    <3>2. CASE UNCHANGED <<fsm, call, outputs>>
      BY <3>2 DEF Sequenced, RestIsDry, PumpSafe, FaultIsState
    <3> QED BY <2>2, <3>1, <3>2 DEF TickWatering
  <2>3. CASE TickAtRest
    BY <2>3 DEF TickAtRest, Sequenced, RestIsDry, PumpSafe, FaultIsState
  <2> QED BY <1>2, <2>1, <2>2, <2>3 DEF CallTick, TickFsm
<1>3. CASE CallCancel
  BY <1>3, BeginStopSequenced DEF CallCancel, Cancel
<1>4. CASE CallClearFault
  BY <1>4 DEF CallClearFault, ClearFault, Sequenced, RestIsDry, PumpSafe, FaultIsState, Active
<1>5. CASE CallTakeDeliveryRecord
  BY <1>5 DEF CallTakeDeliveryRecord, TakeDeliveryRecord,
              Sequenced, RestIsDry, PumpSafe, FaultIsState
<1> QED BY <1>1, <1>2, <1>3, <1>4, <1>5

LEMMA ResumeSequenced ==
  ASSUME TypeOK, Sequenced, Resume
  PROVE  Sequenced'
<1> USE DEF Sequenced, RestIsDry, PumpSafe, FaultIsState, Active, fsm, plant
<1>1. CASE LoadEnabled
  BY <1>1 DEF LoadEnabled
<1>2. CASE LoadEnableFailed
  BY <1>2 DEF LoadEnableFailed
<1>3. CASE OpenValve
  BY <1>3 DEF OpenValve
<1>4. CASE StartPump
  BY <1>4 DEF StartPump
<1>5. CASE CloseValves
  BY <1>5 DEF CloseValves
<1>6. CASE DisableLoad
  BY <1>6 DEF DisableLoad
<1> QED BY <1>1, <1>2, <1>3, <1>4, <1>5, <1>6 DEF Resume

LEMMA EnvironmentSequenced ==
  ASSUME Sequenced, Elapse \/ Environment
  PROVE  Sequenced'
<1> USE DEF Sequenced, RestIsDry, PumpSafe, FaultIsState, Active, fsm, call, outputs
<1>1. CASE Elapse
  BY <1>1 DEF Elapse
<1>2. CASE PollSucceeds \/ TankChanges \/ FlowPulse
  BY <1>2 DEF PollSucceeds, TankChanges, FlowPulse
<1>3. CASE Reboot
  BY <1>3 DEF Reboot
<1> QED BY <1>1, <1>2, <1>3 DEF Environment

\* The outputs follow the order of the start-up and shut-down sequences, whatever
\* the operations are called with and wherever a reset strikes.
THEOREM SequencedCorrect == Spec => [](TypeOK /\ Sequenced)
<1>1. Init => Sequenced
  BY InitSequenced
<1>2. TypeOK /\ Sequenced /\ [Next]_vars => Sequenced'
  <2>1. CASE UNCHANGED vars
    BY <2>1 DEF vars, fsm, call, outputs, Sequenced, RestIsDry, PumpSafe, FaultIsState
  <2> QED BY <2>1, CallsSequenced, ResumeSequenced, EnvironmentSequenced DEF Next
<1> QED BY <1>1, <1>2, TypeCorrect, PTL DEF Spec

\* The pump never runs against a closed valve or an unpowered supply.
THEOREM PumpSafeCorrect == Spec => []PumpSafe
<1>1. Sequenced => PumpSafe
  BY DEF Sequenced
<1> QED BY <1>1, SequencedCorrect, PTL

\* Outside a call, pump and valves are on exactly while a cycle runs.
THEOREM RestIsDryCorrect == Spec => []RestIsDry
<1>1. Sequenced => RestIsDry
  BY DEF Sequenced
<1> QED BY <1>1, SequencedCorrect, PTL

--------------------------------------------------------------------------------
\* The duration of a phase.

LEMMA SubSelf ==
  ASSUME NEW a \in Elapsed
  PROVE  Sub(a, a) = 0
BY ConstantTypes DEF Sub, Elapsed

\* As long as it cannot wrap, an unsigned difference grows with the clock, also
\* over the wrap of the clock itself.
LEMMA SubNext ==
  ASSUME NEW a \in Elapsed, NEW b \in Elapsed, Sub(a, b) + 1 < ClockMod
  PROVE  Sub(IF a = ClockMod - 1 THEN 0 ELSE a + 1, b) = Sub(a, b) + 1
BY ConstantTypes DEF Sub, Elapsed

LEMMA PhaseLimits ==
  /\ PrimeTimeout \in Nat \ {0} /\ MaxDispense \in Nat \ {0}
  /\ PrimeTimeout + TickGap < ClockMod /\ MaxDispense + TickGap < ClockMod
BY ConstantsOK DEF ConstantsOK

\* A phase that begins now has its limit and a tick interval before it.
LEMMA PhaseBegins ==
  ASSUME NEW s \in 0 .. TickGap, NEW limit \in Nat, limit > 0
  PROVE  0 + s < limit + TickGap
BY ConstantTypes

LEMMA InitTimed == Init => Timed
BY DEF Init, Timed

LEMMA CallsTimed ==
  ASSUME TypeOK, Sequenced, Timed,
         \/ CallRequest \/ CallTick \/ CallCancel \/ CallClearFault
         \/ CallTakeDeliveryRecord
  PROVE  Timed'
<1> USE DEF fsm, call, outputs
<1>1. ASSUME NEW code, BeginStop(code)
      PROVE  Timed'
  BY <1>1 DEF BeginStop, Timed
<1>2. CASE CallRequest
  <2>1. ASSUME NEW req \in Request, NEW t, RequestRejected(req, t)
        PROVE  Timed'
    BY <2>1 DEF RequestRejected, BeginReject, Timed
  <2>2. ASSUME NEW req \in Request, NEW t, RequestAdmitted(req, t)
        PROVE  Timed'
    <3>1. req.duration > 0
      <4>1. req.duration \in Nat
        BY ConstantTypes DEF Request
      <4>2. req.duration # 0
        BY <2>2 DEF RequestAdmitted, Verdict, NoFault
      <4> QED BY <4>1, <4>2
    <3>2. ~pump'
      BY <2>2 DEF RequestAdmitted, Sequenced, RestIsDry, Active
    <3> QED BY <2>2, <3>1, <3>2 DEF RequestAdmitted, Timed
  <2> QED BY <1>2, <2>1, <2>2 DEF CallRequest
<1>3. CASE CallTick
  <2> USE <1>3 DEF CallTick
  <2>1. CASE TickPriming(now)
    <3>1. CASE state' = "Watering"
      <4>1. Sub(now, phaseStart)' = 0
        BY <2>1, <3>1, SubSelf DEF TickPriming, TypeOK, BeginStop
      <4>2. target > 0 /\ target' = target /\ target \in Nat /\ pc' = "ready"
        BY <2>1, <3>1 DEF TickPriming, BeginStop, Timed, Sequenced, RestIsDry, Active, TypeOK
      <4>3. PhaseLimit' > 0 /\ PhaseLimit' \in Nat
        BY <3>1, <4>2, PhaseLimits DEF PhaseLimit
      <4>4. Sub(now, phaseStart)' + sleep' < PhaseLimit' + TickGap
        <5>1. sleep' \in 0 .. TickGap
          BY ConstantTypes
        <5>2. 0 + sleep' < PhaseLimit' + TickGap
          BY <4>3, <5>1, PhaseBegins
        <5> QED BY <4>1, <5>2, Zenon
      <4> QED BY <4>2, <4>4 DEF Timed
    <3>2. CASE UNCHANGED <<fsm, call, outputs>> /\ Sub(now, phaseStart) < PrimeTimeout
      <4>1. Sub(now, phaseStart)' < PrimeTimeout /\ PhaseLimit' = PrimeTimeout
        BY <2>1, <3>2 DEF TickPriming, PhaseLimit, Sub
      <4>2. Sub(now, phaseStart)' \in Int
        BY <3>2, SubType, ConstantTypes DEF TypeOK, Elapsed, Sub
      <4> QED BY <3>2, <4>1, <4>2, ConstantTypes, PhaseLimits DEF Timed
    <3> QED BY <2>1, <3>1, <3>2, <1>1 DEF TickPriming
  <2>2. CASE TickWatering(now)
    <3>1. CASE RunVerdict(now) = "Continue" /\ UNCHANGED <<fsm, call, outputs>>
      <4>1. ~(Sub(now, phaseStart) >= MaxDispense) /\ ~(Sub(now, phaseStart) >= target)
        BY <3>1 DEF RunVerdict
      <4>2. Sub(now, phaseStart) \in Int /\ target \in Nat
        BY SubType, ConstantTypes DEF TypeOK, Elapsed
      <4>3. PhaseLimit' = IF target < MaxDispense THEN target ELSE MaxDispense
        BY <2>2, <3>1 DEF TickWatering, PhaseLimit
      <4>4. Sub(now, phaseStart)' = Sub(now, phaseStart)
        BY <3>1 DEF Sub
      <4>5. Sub(now, phaseStart)' + TickGap < PhaseLimit' + TickGap
        BY <4>1, <4>2, <4>3, <4>4, ConstantTypes, PhaseLimits
      <4> QED BY <3>1, <4>5 DEF Timed
    <3> QED BY <2>2, <3>1, <1>1 DEF TickWatering
  <2>3. CASE TickAtRest
    BY <2>3 DEF TickAtRest, Timed, Sequenced, RestIsDry
  <2> QED BY <2>1, <2>2, <2>3 DEF TickFsm
<1>4. CASE CallCancel
  BY <1>1, <1>4 DEF CallCancel, Cancel
<1>5. CASE CallClearFault
  BY <1>5 DEF CallClearFault, ClearFault, Timed, Sequenced, RestIsDry, Active
<1>6. CASE CallTakeDeliveryRecord
  BY <1>6 DEF CallTakeDeliveryRecord, TakeDeliveryRecord, Timed, PhaseLimit, Sub
<1> QED BY <1>2, <1>3, <1>4, <1>5, <1>6

LEMMA ResumeTimed ==
  ASSUME TypeOK, Sequenced, Timed, Resume
  PROVE  Timed'
<1> USE DEF fsm, plant
<1>1. CASE LoadEnabled
  BY <1>1 DEF LoadEnabled, Timed, Sequenced
<1>2. CASE LoadEnableFailed
  BY <1>2 DEF LoadEnableFailed, Timed
<1>3. CASE OpenValve
  BY <1>3 DEF OpenValve, Timed, Sequenced
<1>4. CASE StartPump
  <2>1. Sub(now, phaseStart)' = 0
    BY <1>4, SubSelf DEF StartPump, TypeOK
  <2>2. PhaseLimit' = PrimeTimeout
    BY <1>4 DEF StartPump, PhaseLimit
  <2>3. sleep' \in 0 .. TickGap
    BY <1>4 DEF StartPump, TypeOK
  <2>4. Sub(now, phaseStart)' + sleep' < PhaseLimit' + TickGap
    <3>1. 0 + sleep' < PrimeTimeout + TickGap
      BY <2>3, PhaseLimits, PhaseBegins
    <3> QED BY <2>1, <2>2, <3>1, Zenon
  <2> QED BY <1>4, <2>4 DEF StartPump, Timed
<1>5. CASE CloseValves
  BY <1>5 DEF CloseValves, Timed, Sequenced
<1>6. CASE DisableLoad
  BY <1>6 DEF DisableLoad, Timed, Sequenced
<1> QED BY <1>1, <1>2, <1>3, <1>4, <1>5, <1>6 DEF Resume

LEMMA EnvironmentTimed ==
  ASSUME TypeOK, Sequenced, Timed, Elapse \/ Environment
  PROVE  Timed'
<1> USE DEF fsm, call, outputs
<1>1. CASE Elapse
  <2>1. CASE pump
    <3>1. pc = "ready" /\ sleep > 0 /\ sleep' = sleep - 1 /\ PhaseLimit' = PhaseLimit
      BY <1>1, <2>1 DEF Elapse, Sequenced, PhaseLimit
    <3>2. Sub(now, phaseStart) + sleep < PhaseLimit + TickGap
      BY <2>1 DEF Timed
    <3>3. PhaseLimit \in Nat /\ PhaseLimit + TickGap < ClockMod
      BY PhaseLimits, ConstantTypes DEF PhaseLimit, TypeOK
    <3>4. Sub(now, phaseStart) \in Nat /\ sleep \in Nat
      <4>1. Sub(now, phaseStart) \in Elapsed
        BY SubType DEF TypeOK
      <4>2. sleep \in Nat
        BY ConstantTypes DEF TypeOK
      <4> QED BY <4>1, <4>2, ConstantTypes DEF Elapsed
    <3>5. Sub(now, phaseStart) + 1 < ClockMod
      BY <3>1, <3>2, <3>3, <3>4, ConstantTypes
    <3>6. Sub(now, phaseStart)' = Sub(now, phaseStart) + 1
      <4>1. Sub(now, phaseStart)' = Sub(IF now = ClockMod - 1 THEN 0 ELSE now + 1, phaseStart)
        BY <1>1 DEF Elapse, Sub
      <4> QED BY <3>5, <4>1, SubNext DEF TypeOK
    <3>7. Sub(now, phaseStart)' + sleep' < PhaseLimit' + TickGap
      BY <3>1, <3>2, <3>3, <3>4, <3>6, ConstantTypes
    <3> QED BY <1>1, <3>7 DEF Elapse, Timed
  <2>2. CASE ~pump
    BY <1>1, <2>2 DEF Elapse, Timed
  <2> QED BY <2>1, <2>2
<1>2. CASE PollSucceeds \/ TankChanges \/ FlowPulse
  BY <1>2 DEF PollSucceeds, TankChanges, FlowPulse, Timed, PhaseLimit, Sub
<1>3. CASE Reboot
  BY <1>3 DEF Reboot, Timed
<1> QED BY <1>1, <1>2, <1>3 DEF Environment

\* The inductive invariant of the state machine.
THEOREM InductiveCorrect == Spec => []Inductive
<1>1. Init => Inductive
  BY InitType, InitSequenced, InitTimed DEF Inductive
<1>2. Inductive /\ [Next]_vars => Inductive'
  <2> SUFFICES ASSUME Inductive, [Next]_vars PROVE Inductive'
    OBVIOUS
  <2>1. CASE UNCHANGED vars
    BY <2>1 DEF vars, fsm, call, outputs, plant, Inductive, TypeOK, Sequenced, RestIsDry,
                PumpSafe, FaultIsState, Timed, PhaseLimit, Sub
  <2>2. CASE \/ CallRequest \/ CallTick \/ CallCancel \/ CallClearFault
             \/ CallTakeDeliveryRecord
    BY <2>2, CallsType, CallsSequenced, CallsTimed DEF Inductive
  <2>3. CASE Resume
    BY <2>3, ResumeType, ResumeSequenced, ResumeTimed DEF Inductive
  <2>4. CASE Elapse \/ Environment
    BY <2>4, EnvironmentType, EnvironmentSequenced, EnvironmentTimed DEF Inductive
  <2> QED BY <2>1, <2>2, <2>3, <2>4 DEF Next
<1> QED BY <1>1, <1>2, PTL DEF Spec

\* No phase of the pump outlasts its limit by a tick interval, whatever the
\* limits are and wherever in the phase the clock wraps.
THEOREM RunBoundedCorrect == Spec => []RunBounded
<1>1. Inductive => RunBounded
  <2> SUFFICES ASSUME Inductive, pump PROVE Sub(now, phaseStart) < PhaseLimit + TickGap
    BY DEF RunBounded
  <2>1. Sub(now, phaseStart) + sleep < PhaseLimit + TickGap
    BY DEF Inductive, Timed
  <2>2. Sub(now, phaseStart) \in Nat /\ sleep \in Nat /\ PhaseLimit \in Nat
    <3>1. Sub(now, phaseStart) \in Elapsed
      BY SubType DEF Inductive, TypeOK
    <3>2. sleep \in Nat /\ PhaseLimit \in Nat
      BY ConstantTypes, PhaseLimits DEF Inductive, TypeOK, PhaseLimit
    <3> QED BY <3>1, <3>2, ConstantTypes DEF Elapsed
  <2> QED BY <2>1, <2>2, ConstantTypes
<1> QED BY <1>1, InductiveCorrect, PTL

--------------------------------------------------------------------------------
\* What a step may do.

\* A latched fault is neither replaced nor cleared except by clearFault() or by a
\* reset: no call that reports a fault can be in progress in the Fault state.
THEOREM FaultLatchedCorrect == Spec => FaultLatched
<1> DEFINE Latched == fault # NoFault /\ fault' # fault => CallClearFault \/ Reboot
<1>1. Sequenced /\ [Next]_vars => [Latched]_vars
  <2> SUFFICES ASSUME Sequenced, Next, fault # NoFault, fault' # fault
               PROVE  CallClearFault \/ Reboot
    OBVIOUS
  <2>1. state = "Fault"
    BY DEF Sequenced, FaultIsState
  <2>2. ~Resume
    BY <2>1 DEF Sequenced, Resume, LoadEnabled, LoadEnableFailed, OpenValve, StartPump,
                CloseValves, DisableLoad, fsm
  <2>3. ~CallRequest
    BY <2>1 DEF CallRequest, RequestRejected, RequestAdmitted
  <2>4. ~CallTick /\ ~CallCancel
    BY <2>1 DEF CallTick, TickFsm, TickPriming, TickWatering, TickAtRest, CallCancel, Cancel,
                Active, fsm
  <2>5. ~CallTakeDeliveryRecord /\ ~Elapse
    BY DEF CallTakeDeliveryRecord, TakeDeliveryRecord, Elapse, fsm
  <2>6. ~PollSucceeds /\ ~TankChanges /\ ~FlowPulse
    BY DEF PollSucceeds, TankChanges, FlowPulse, fsm
  <2> QED BY <2>2, <2>3, <2>4, <2>5, <2>6 DEF Next, Environment
<1> QED BY <1>1, SequencedCorrect, PTL DEF Spec, FaultLatched

\* Whatever stops the pump records the cycle it ends; only a reset loses it.
THEOREM StopIsRecordedCorrect == Spec => StopIsRecorded
<1> DEFINE Recorded == pump /\ ~pump' => \/ pending' = [zone |-> zone, ml |-> Milliliters(pulses)]
                                         \/ Reboot
<1>1. Sequenced /\ [Next]_vars => [Recorded]_vars
  <2> SUFFICES ASSUME Sequenced, Next, pump, ~pump', ~Reboot
               PROVE  pending' = [zone |-> zone, ml |-> Milliliters(pulses)]
    OBVIOUS
  <2>1. owned /\ pc = "ready" /\ state \in Active
    BY DEF Sequenced, PumpSafe, RestIsDry
  <2>2. ASSUME NEW code, BeginStop(code)
        PROVE  pending' = [zone |-> zone, ml |-> Milliliters(pulses)]
    BY <2>1, <2>2 DEF BeginStop, CaptureDelivery
  <2>3. ~CallRequest /\ ~CallClearFault
    BY <2>1 DEF CallRequest, RequestRejected, RequestAdmitted, CallClearFault, ClearFault, Active
  <2>4. CASE CallTick \/ CallCancel
    BY <2>2, <2>4 DEF CallTick, TickFsm, TickPriming, TickWatering, TickAtRest,
                      CallCancel, Cancel, outputs
  <2>5. ~CallTakeDeliveryRecord /\ ~Elapse
    BY DEF CallTakeDeliveryRecord, TakeDeliveryRecord, Elapse, outputs
  <2>6. ~Resume
    BY <2>1 DEF Resume, LoadEnabled, LoadEnableFailed, OpenValve, StartPump,
                CloseValves, DisableLoad
  <2>7. ~PollSucceeds /\ ~TankChanges /\ ~FlowPulse
    BY DEF PollSucceeds, TankChanges, FlowPulse, outputs
  <2> QED BY <2>3, <2>4, <2>5, <2>6, <2>7 DEF Next, Environment
<1> QED BY <1>1, SequencedCorrect, PTL DEF Spec, StopIsRecorded

\* No step but a reset switches pump and valves together.
THEOREM OneAtATimeCorrect == Spec => OneAtATime
<1> DEFINE OneOutput == pump' = pump \/ open' = open \/ Reboot
<1>1. TypeOK /\ Sequenced /\ [Next]_vars => [OneOutput]_vars
  <2> SUFFICES ASSUME TypeOK, Sequenced, Next PROVE OneOutput
    OBVIOUS
  <2> USE DEF outputs
  <2>1. ASSUME NEW code, BeginStop(code)
        PROVE  open' = open
    BY <2>1 DEF BeginStop
  <2>2. CASE CallRequest
    <3>1. state = "Idle" /\ pc = "ready"
      BY <2>2 DEF CallRequest, RequestRejected, RequestAdmitted
    <3>2. open = {}
      BY <3>1 DEF Sequenced, RestIsDry, Active
    <3> QED BY <2>2, <3>2 DEF CallRequest, RequestRejected, RequestAdmitted, BeginReject
  <2>3. CASE CallTick \/ CallCancel
    BY <2>1, <2>3 DEF CallTick, TickFsm, TickPriming, TickWatering, TickAtRest, CallCancel, Cancel
  <2>4. CASE CallClearFault \/ CallTakeDeliveryRecord
    BY <2>4 DEF CallClearFault, ClearFault, CallTakeDeliveryRecord, TakeDeliveryRecord
  <2>5. CASE Resume
    BY <2>5 DEF Resume, LoadEnabled, LoadEnableFailed, OpenValve, StartPump, CloseValves,
                DisableLoad, Sequenced
  <2>6. CASE Elapse \/ Environment
    BY <2>6 DEF Elapse, Environment, PollSucceeds, TankChanges, FlowPulse
  <2> QED BY <2>2, <2>3, <2>4, <2>5, <2>6 DEF Next
<1> QED BY <1>1, SequencedCorrect, PTL DEF Spec, OneAtATime

\* No call leaves the load supply on at rest without having tried to switch it off.
THEOREM RestTriesLoadOffCorrect == Spec => RestTriesLoadOff
<1> DEFINE Tried == load' /\ Resting' /\ ~(load /\ Resting) => DisableLoad \/ Reboot
<1>1. Sequenced /\ [Next]_vars => [Tried]_vars
  <2> SUFFICES ASSUME Sequenced, Next, load', Resting', ~(load /\ Resting), ~DisableLoad, ~Reboot
               PROVE  FALSE
    OBVIOUS
  <2> USE DEF Resting
  <2>1. ASSUME NEW code, BeginStop(code)
        PROVE  FALSE
    BY <2>1 DEF BeginStop
  <2>2. ~CallRequest
    BY DEF CallRequest, RequestRejected, RequestAdmitted, BeginReject
  <2>3. ~CallTick /\ ~CallCancel
    BY <2>1 DEF CallTick, TickFsm, TickPriming, TickWatering, TickAtRest, CallCancel, Cancel,
                fsm, call, outputs, Active
  <2>4. ~CallClearFault /\ ~CallTakeDeliveryRecord
    BY DEF CallClearFault, ClearFault, CallTakeDeliveryRecord, TakeDeliveryRecord,
           call, outputs, Active
  <2>5. ~Resume
    BY DEF Resume, LoadEnabled, LoadEnableFailed, OpenValve, StartPump, CloseValves, Active
  <2>6. ~Elapse /\ ~PollSucceeds /\ ~TankChanges /\ ~FlowPulse
    BY DEF Elapse, PollSucceeds, TankChanges, FlowPulse, fsm, call, outputs
  <2> QED BY <2>2, <2>3, <2>4, <2>5, <2>6 DEF Next, Environment
<1> QED BY <1>1, SequencedCorrect, PTL DEF Spec, RestTriesLoadOff

--------------------------------------------------------------------------------
\* The refinement of OutputInterlock.

LEMMA InitInterlock == Init => Interlock!Init
BY DEF Init, Interlock!Init

\* A step of a call or of the environment that leaves the outputs alone, or a stop.
LEMMA CallsInterlock ==
  ASSUME TypeOK, Sequenced,
         \/ CallRequest \/ CallTick \/ CallCancel \/ CallClearFault
         \/ CallTakeDeliveryRecord
  PROVE  Interlock!StopPump \/ UNCHANGED outputs
<1>1. ASSUME NEW code, BeginStop(code), state \in Active, pc = "ready"
      PROVE  Interlock!StopPump
  BY <1>1 DEF BeginStop, Sequenced, RestIsDry, Interlock!StopPump
<1>2. CASE CallRequest
  <2>1. state = "Idle" /\ pc = "ready"
    BY <1>2 DEF CallRequest, RequestRejected, RequestAdmitted
  <2>2. ~pump /\ open = {}
    BY <2>1 DEF Sequenced, RestIsDry, Active
  <2>3. pump = FALSE
    BY <2>2, Zenon DEF TypeOK
  <2> QED BY <1>2, <2>2, <2>3
          DEF CallRequest, RequestRejected, RequestAdmitted, BeginReject, outputs
<1>3. CASE CallTick \/ CallCancel
  BY <1>1, <1>3 DEF CallTick, TickFsm, TickPriming, TickWatering, TickAtRest,
                    CallCancel, Cancel, Active
<1>4. CASE CallClearFault \/ CallTakeDeliveryRecord
  BY <1>4 DEF CallClearFault, ClearFault, CallTakeDeliveryRecord, TakeDeliveryRecord
<1> QED BY <1>2, <1>3, <1>4

LEMMA ResumeInterlock ==
  ASSUME TypeOK, Sequenced, Resume
  PROVE  [Interlock!Next]_(Interlock!outputs)
<1> USE DEF Interlock!Next, Interlock!outputs, Sequenced
<1>1. CASE LoadEnabled
  BY <1>1 DEF LoadEnabled, Interlock!EnableLoad
<1>2. CASE LoadEnableFailed
  <2>1. ~pump /\ open = {}
    BY <1>2 DEF LoadEnableFailed
  <2>2. pump = FALSE
    BY <2>1, Zenon DEF TypeOK
  <2> QED BY <1>2, <2>1, <2>2 DEF LoadEnableFailed, Interlock!EnableLoad
<1>3. CASE OpenValve
  BY <1>3 DEF OpenValve, TypeOK, Interlock!OpenValve
<1>4. CASE StartPump
  BY <1>4 DEF StartPump, Interlock!StartPump, PumpSafe
<1>5. CASE CloseValves
  BY <1>5 DEF CloseValves, Interlock!CloseValve
<1>6. CASE DisableLoad
  BY <1>6 DEF DisableLoad, Interlock!DisableLoad
<1> QED BY <1>1, <1>2, <1>3, <1>4, <1>5, <1>6 DEF Resume

\* The state machine implements OutputInterlock.
THEOREM InterlockRefined == Spec => InterlockSpec
<1>1. TypeOK /\ Sequenced /\ [Next]_vars => [Interlock!Next]_(Interlock!outputs)
  <2> SUFFICES ASSUME TypeOK, Sequenced, [Next]_vars
               PROVE  [Interlock!Next]_(Interlock!outputs)
    OBVIOUS
  <2>1. CASE UNCHANGED outputs
    BY <2>1 DEF outputs, Interlock!outputs
  <2>2. CASE Reboot
    BY <2>2 DEF Reboot, Interlock!Next, Interlock!PowerLoss
  <2>3. UNCHANGED vars \/ Elapse \/ PollSucceeds \/ TankChanges \/ FlowPulse
          => UNCHANGED outputs
    BY DEF vars, Elapse, PollSucceeds, TankChanges, FlowPulse
  <2> QED BY <2>1, <2>2, <2>3, CallsInterlock, ResumeInterlock DEF Next, Environment, Interlock!Next
<1> QED BY <1>1, InitInterlock, SequencedCorrect, PTL DEF Spec, InterlockSpec, Interlock!Spec
================================================================================
