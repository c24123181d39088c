----------------------------- MODULE DataAge_proofs -----------------------------
(***************************************************************************)
(* How old the data can be that a cycle goes on with: proofs about         *)
(* DataAge, for every clock, limit and delay under which the longest age   *)
(* that matters is shorter than a lap of the clock.                        *)
(***************************************************************************)
EXTENDS DataAge, WateringFsm_proofs

--------------------------------------------------------------------------------
\* The longest age that matters is visible to an unsigned difference.
AgesFit == StartAge + PrimeTimeout + 2 * TickGap < ClockMod

\* What is left of a call that starts a cycle, and how old the machine sees the data by then.
Blocked ==
  /\ pc = "enableLoad" => wait <= MaxUart
  /\ pc = "settle" => wait <= LoadSettle
  /\ pc = "pullIn" => wait <= PullIn

Aged ==
  LET seen == Sub(now, data.at)
  IN  data.at > 0 =>
        /\ pc = "enableLoad" => seen + wait <= StaleThreshold + MaxLag + MaxUart
        /\ pc = "settle" => seen + wait <= StaleThreshold + MaxLag + MaxUart + LoadSettle
        /\ pc = "pullIn" => seen + wait <= StartAge
        /\ pump /\ state = "Priming" => seen <= StartAge + Sub(now, phaseStart)
        /\ pump /\ state = "Watering" => seen + sleep < StartAge + PrimeTimeout + 2 * TickGap

AgeOK == Inductive /\ Blocked /\ Aged

LEMMA MaximaTypes ==
  /\ MaxUart \in UartTimes /\ (\A u \in UartTimes : u <= MaxUart)
  /\ MaxLag \in Lags /\ (\A lag \in Lags : lag <= MaxLag)
  /\ Lags \subseteq Elapsed
<1>1. \E u \in UartTimes : \A v \in UartTimes : v <= u
  BY ConstantsOK DEF ConstantsOK
<1>2. \E l \in Lags : \A k \in Lags : k <= l
  BY ConstantsOK DEF ConstantsOK
<1> QED BY <1>1, <1>2, ConstantsOK DEF ConstantsOK, MaxUart, MaxLag

\* The terms of StartAge, and StartAge itself, are natural numbers.
LEMMA AgeTypes ==
  /\ StaleThreshold \in Nat /\ MaxLag \in Nat /\ MaxUart \in Nat
  /\ LoadSettle \in Nat /\ PullIn \in Nat /\ StartAge \in Nat
  /\ PrimeTimeout \in Nat \ {0} /\ TickGap \in Nat \ {0}
<1>1. StaleThreshold \in Nat
  BY ConstantsOK DEF ConstantsOK
<1>2. MaxLag \in Nat
  BY MaximaTypes, ConstantTypes DEF Elapsed
<1> QED BY <1>1, <1>2, MaximaTypes, ConstantTypes, PhaseLimits DEF StartAge

\* The terms of Aged that change.
LEMMA AgeType ==
  ASSUME TypeOK
  PROVE  /\ data.at \in Elapsed /\ now \in Elapsed /\ phaseStart \in Elapsed
         /\ Sub(now, data.at) \in Nat /\ Sub(now, phaseStart) \in Nat
         /\ wait \in Nat /\ sleep \in Nat
<1>1. data.at \in Elapsed /\ now \in Elapsed /\ phaseStart \in Elapsed
  BY DEF TypeOK
<1>2. Sub(now, data.at) \in Elapsed /\ Sub(now, phaseStart) \in Elapsed
  BY <1>1, SubType
<1>3. Elapsed \subseteq Nat
  BY ConstantTypes DEF Elapsed
<1>4. wait \in Nat /\ sleep \in Nat
  BY ConstantTypes DEF TypeOK
<1> QED BY <1>1, <1>2, <1>3, <1>4

\* Data that were fresh at an earlier reading are older now by the lag at most.
LEMMA SubLag ==
  ASSUME NEW a \in Elapsed, NEW b \in Elapsed, NEW lag \in Elapsed, NEW t \in Nat,
         Sub(Sub(a, lag), b) <= t, t + lag < ClockMod
  PROVE  Sub(a, b) <= t + lag
BY ConstantTypes DEF Sub, Elapsed

LEMMA InitAge == Init => Blocked /\ Aged
BY DEF Init, Blocked, Aged, NoData

\* A call that starts no cycle and leaves no pump on.
LEMMA OffAge ==
  ASSUME ~pump', pc' \notin {"enableLoad", "settle", "pullIn"}
  PROVE  Blocked' /\ Aged'
BY DEF Blocked, Aged

LEMMA CallsAge ==
  ASSUME AgesFit, AgeOK,
         \/ CallRequest \/ CallTick \/ CallCancel \/ CallClearFault
         \/ CallTakeDeliveryRecord
  PROVE  Blocked' /\ Aged'
<1> USE DEF AgeOK, Inductive, fsm, call, outputs
<1>1. ASSUME NEW code, BeginStop(code)
      PROVE  Blocked' /\ Aged'
  BY <1>1, OffAge DEF BeginStop
<1>2. CASE CallRequest
  <2>1. ASSUME NEW req, NEW t, RequestRejected(req, t)
        PROVE  Blocked' /\ Aged'
    BY <2>1, OffAge DEF RequestRejected, BeginReject
  <2>2. ASSUME NEW req, NEW lag \in Lags, RequestAdmitted(req, Sub(now, lag)), UNCHANGED <<plant, now>>
        PROVE  Blocked' /\ Aged'
    <3>1. /\ pc' = "enableLoad" /\ wait' \in UartTimes /\ ~pump' /\ data' = data /\ now' = now
      BY <2>2 DEF RequestAdmitted, Sequenced, RestIsDry, Active, plant
    <3>2. wait' <= MaxUart
      BY <3>1, MaximaTypes
    <3>3. data.at > 0 => Sub(now, data.at) <= StaleThreshold + MaxLag
      <4>1. lag \in Elapsed /\ lag \in Nat /\ lag <= MaxLag
        BY MaximaTypes, ConstantTypes DEF Elapsed
      <4>2. ASSUME data.at > 0
            PROVE  Sub(Sub(now, lag), data.at) <= StaleThreshold
        <5>1. ~Stale(Sub(now, lag))
          BY <2>2 DEF RequestAdmitted, Verdict, NoFault
        <5>2. Sub(Sub(now, lag), data.at) \in Elapsed
          BY <4>1, SubType DEF TypeOK
        <5> QED BY <4>2, <5>1, <5>2, ConstantTypes, AgeTypes DEF Stale, Elapsed
      <4>3. StaleThreshold + lag < ClockMod
        BY <4>1, AgeTypes, ConstantTypes DEF AgesFit, StartAge
      <4>4. ASSUME data.at > 0
            PROVE  Sub(now, data.at) <= StaleThreshold + lag
        BY <4>1, <4>2, <4>3, <4>4, SubLag, AgeTypes DEF TypeOK
      <4>5. Sub(now, data.at) \in Nat
        BY AgeType
      <4> QED BY <4>1, <4>4, <4>5, AgeTypes
    <3>4. Sub(now, data.at)' = Sub(now, data.at) /\ Sub(now, data.at) \in Nat
      BY <3>1, AgeType DEF Sub
    <3>5. wait' \in Nat
      BY <3>1, ConstantTypes
    <3>6. data'.at > 0 => Sub(now, data.at)' + wait' <= StaleThreshold + MaxLag + MaxUart
      BY <3>1, <3>2, <3>3, <3>4, <3>5, AgeTypes
    <3> QED BY <3>1, <3>2, <3>6 DEF Blocked, Aged
  <2> QED BY <1>2, <2>1, <2>2 DEF CallRequest
<1>3. CASE CallTick
  <2> USE <1>3 DEF CallTick, plant
  <2>1. Sub(now, data.at)' = Sub(now, data.at) /\ Sub(now, data.at) \in Nat
    BY AgeType DEF Sub
  <2>2. CASE TickPriming(now)
    <3>1. CASE state' = "Watering" /\ ~BeginStop("PrimeTimeout")
      <4>1. pump /\ pc' = "ready" /\ sleep' = TickGap /\ data' = data
        BY <2>2, <3>1 DEF TickPriming, Sequenced, RestIsDry, Active
      <4>2. Sub(now, phaseStart) + sleep < PrimeTimeout + TickGap
        BY <2>2, <4>1 DEF TickPriming, Timed, PhaseLimit
      <4>3. data.at > 0 => Sub(now, data.at) <= StartAge + Sub(now, phaseStart)
        BY <2>2, <4>1 DEF TickPriming, Aged
      <4>4. Sub(now, phaseStart) \in Nat /\ sleep \in Nat
        BY AgeType
      <4>5. data.at > 0 => Sub(now, data.at) + TickGap < StartAge + PrimeTimeout + 2 * TickGap
        BY <2>1, <4>2, <4>3, <4>4, AgeTypes
      <4>6. data'.at > 0 => Sub(now, data.at)' + sleep' < StartAge + PrimeTimeout + 2 * TickGap
        BY <2>1, <4>1, <4>5
      <4> QED BY <3>1, <4>1, <4>6 DEF Blocked, Aged
    <3>2. CASE UNCHANGED <<fsm, call, outputs>>
      <4>1. Sub(now, phaseStart)' = Sub(now, phaseStart)
        BY <3>2 DEF Sub
      <4>2. state' = "Priming" /\ pc' = "ready" /\ data' = data /\ pump' = pump
        BY <2>2, <3>2 DEF TickPriming
      <4> QED BY <2>1, <2>2, <4>1, <4>2 DEF TickPriming, Blocked, Aged
    <3> QED BY <1>1, <2>2, <3>1, <3>2 DEF TickPriming
  <2>3. CASE TickWatering(now)
    <3>1. CASE RunVerdict(now) = "Continue" /\ UNCHANGED <<fsm, call, outputs>>
      <4>1. data.at > 0 => Sub(now, data.at) <= StaleThreshold
        BY <2>1, <3>1, AgeTypes DEF RunVerdict, Stale
      <4>2. data.at > 0 => Sub(now, data.at) + TickGap < StartAge + PrimeTimeout + 2 * TickGap
        BY <2>1, <4>1, AgeTypes DEF StartAge
      <4>3. data'.at > 0 => Sub(now, data.at)' + sleep' < StartAge + PrimeTimeout + 2 * TickGap
        BY <2>1, <4>2
      <4>4. state' = "Watering" /\ pc' = "ready"
        BY <2>3, <3>1 DEF TickWatering
      <4> QED BY <4>3, <4>4 DEF Blocked, Aged
    <3> QED BY <1>1, <2>3, <3>1 DEF TickWatering
  <2>4. CASE TickAtRest
    BY <2>4, OffAge DEF TickAtRest, Sequenced, RestIsDry
  <2> QED BY <2>2, <2>3, <2>4 DEF TickFsm
<1>4. CASE CallCancel
  BY <1>1, <1>4 DEF CallCancel, Cancel
<1>5. CASE CallClearFault
  BY <1>5, OffAge DEF CallClearFault, ClearFault, Sequenced, RestIsDry, Active
<1>6. CASE CallTakeDeliveryRecord
  BY <1>6 DEF CallTakeDeliveryRecord, TakeDeliveryRecord, Blocked, Aged, Sub, plant
<1> QED BY <1>2, <1>3, <1>4, <1>5, <1>6

LEMMA ResumeAge ==
  ASSUME AgesFit, AgeOK, Resume
  PROVE  Blocked' /\ Aged'
<1> USE DEF AgeOK, Inductive, fsm, plant
<1>1. Sub(now, data.at) \in Nat
  BY AgeType
<1>2. CASE LoadEnabled
  <2>1. /\ pc' = "settle" /\ wait' = LoadSettle /\ ~pump' /\ now' = now /\ data' = data
        /\ pc = "enableLoad" /\ wait = 0
    BY <1>2 DEF LoadEnabled, Sequenced
  <2>2. Sub(now, data.at)' = Sub(now, data.at)
    BY <2>1 DEF Sub
  <2>3. data.at > 0 => Sub(now, data.at) + LoadSettle <= StaleThreshold + MaxLag + MaxUart + LoadSettle
    BY <1>1, <2>1, AgeTypes DEF Aged
  <2> QED BY <2>1, <2>2, <2>3, AgeTypes DEF Blocked, Aged
<1>3. CASE LoadEnableFailed
  BY <1>3, OffAge DEF LoadEnableFailed
<1>4. CASE OpenValve
  <2>1. /\ pc' = "pullIn" /\ wait' = PullIn /\ ~pump' /\ now' = now /\ data' = data
        /\ pc = "settle" /\ wait = 0
    BY <1>4 DEF OpenValve, Sequenced
  <2>2. Sub(now, data.at)' = Sub(now, data.at)
    BY <2>1 DEF Sub
  <2>3. data.at > 0 => Sub(now, data.at) + PullIn <= StartAge
    BY <1>1, <2>1, AgeTypes DEF Aged, StartAge
  <2> QED BY <2>1, <2>2, <2>3, AgeTypes DEF Blocked, Aged
<1>5. CASE StartPump
  <2>1. /\ pc = "pullIn" /\ wait = 0 /\ pc' = "ready" /\ state' = "Priming"
        /\ now' = now /\ data' = data
    BY <1>5 DEF StartPump
  <2>2. Sub(now, data.at)' = Sub(now, data.at)
    BY <2>1 DEF Sub
  <2>3. Sub(now, phaseStart)' = 0
    BY <1>5, SubSelf DEF StartPump, TypeOK
  <2>4. data.at > 0 => Sub(now, data.at) <= StartAge + 0
    BY <1>1, <2>1, AgeTypes DEF Aged
  <2>5. data'.at > 0 => Sub(now, data.at)' <= StartAge + Sub(now, phaseStart)'
    BY <2>1, <2>2, <2>3, <2>4, Zenon
  <2> QED BY <2>1, <2>5 DEF Blocked, Aged
<1>6. CASE CloseValves
  BY <1>6, OffAge DEF CloseValves, Sequenced
<1>7. CASE DisableLoad
  BY <1>7, OffAge DEF DisableLoad, Sequenced
<1> QED BY <1>2, <1>3, <1>4, <1>5, <1>6, <1>7 DEF Resume

LEMMA ElapseAge ==
  ASSUME AgesFit, AgeOK, Elapse
  PROVE  Blocked' /\ Aged'
<1> USE DEF AgeOK, Inductive
<1>1. /\ wait \in Nat /\ sleep \in Nat /\ now \in Elapsed /\ data.at \in Elapsed
      /\ phaseStart \in Elapsed
      /\ Sub(now, data.at) \in Nat /\ Sub(now, phaseStart) \in Nat
  BY AgeType
<1>2. data' = data /\ pc' = pc /\ pump' = pump /\ state' = state /\ phaseStart' = phaseStart
  BY DEF Elapse, plant, outputs, fsm
<1>3. ASSUME NEW b \in Elapsed, Sub(now, b) + 1 < ClockMod
      PROVE  Sub(now', b) = Sub(now, b) + 1
  BY <1>1, <1>3, SubNext DEF Elapse
<1>4. Blocked'
  BY <1>1, <1>2, ConstantTypes, AgeTypes DEF Blocked, Elapse
<1>5. ASSUME data.at > 0, pc \in {"enableLoad", "settle", "pullIn"}
      PROVE  Sub(now, data.at)' + wait' = Sub(now, data.at) + wait
  <2>1. wait > 0 /\ wait' = wait - 1
    BY <1>5 DEF Elapse
  <2>2. Sub(now, data.at) + wait <= StartAge
    BY <1>1, <1>5, AgeTypes DEF Aged, StartAge
  <2>3. Sub(now, data.at) + 1 < ClockMod
    BY <1>1, <2>1, <2>2, AgeTypes, ConstantTypes DEF AgesFit
  <2>4. Sub(now', data.at) = Sub(now, data.at) + 1
    BY <1>1, <1>3, <2>3
  <2>5. Sub(now, data.at)' = Sub(now', data.at)
    BY <1>2 DEF Sub
  <2> QED BY <1>1, <2>1, <2>4, <2>5
<1>6. ASSUME data.at > 0, pump
      PROVE  /\ state = "Priming" =>
                   Sub(now, data.at)' <= StartAge + Sub(now, phaseStart)'
             /\ state = "Watering" =>
                   Sub(now, data.at)' + sleep' < StartAge + PrimeTimeout + 2 * TickGap
  <2>1. pc = "ready" /\ sleep > 0 /\ sleep' = sleep - 1
    BY <1>6 DEF Elapse, Sequenced
  <2>2. Sub(now, data.at)' = Sub(now', data.at) /\ Sub(now, phaseStart)' = Sub(now', phaseStart)
    BY <1>2 DEF Sub
  <2>3. CASE state = "Priming"
    <3>1. Sub(now, phaseStart) + sleep < PrimeTimeout + TickGap
      BY <1>6, <2>3 DEF Timed, PhaseLimit
    <3>2. Sub(now, data.at) <= StartAge + Sub(now, phaseStart)
      BY <1>6, <2>3 DEF Aged
    <3>3. Sub(now, phaseStart) + 1 < ClockMod /\ Sub(now, data.at) + 1 < ClockMod
      BY <1>1, <2>1, <3>1, <3>2, AgeTypes, ConstantTypes DEF AgesFit
    <3>4. /\ Sub(now', phaseStart) = Sub(now, phaseStart) + 1
          /\ Sub(now', data.at) = Sub(now, data.at) + 1
      BY <1>1, <1>3, <3>3
    <3>5. Sub(now', data.at) <= StartAge + Sub(now', phaseStart)
      BY <1>1, <3>2, <3>4, AgeTypes
    <3> QED BY <2>2, <2>3, <3>5
  <2>4. CASE state = "Watering"
    <3>1. Sub(now, data.at) + sleep < StartAge + PrimeTimeout + 2 * TickGap
      BY <1>6, <2>4 DEF Aged
    <3>2. Sub(now, data.at) + 1 < ClockMod
      BY <1>1, <2>1, <3>1, AgeTypes, ConstantTypes DEF AgesFit
    <3>3. Sub(now', data.at) = Sub(now, data.at) + 1
      BY <1>1, <1>3, <3>2
    <3>4. Sub(now', data.at) + sleep' < StartAge + PrimeTimeout + 2 * TickGap
      BY <1>1, <2>1, <3>1, <3>3
    <3> QED BY <2>2, <2>4, <3>4
  <2> QED BY <2>1, <2>3, <2>4 DEF Sequenced, RestIsDry, Active
<1>7. Aged'
  <2> SUFFICES ASSUME data.at > 0 PROVE Aged'
    BY <1>2 DEF Aged
  <2>1. CASE pump
    BY <1>2, <1>6, <2>1 DEF Aged, Sequenced
  <2>2. CASE ~pump
    BY <1>2, <1>5, <2>2 DEF Aged
  <2> QED BY <2>1, <2>2
<1> QED BY <1>4, <1>7

LEMMA EnvironmentAge ==
  ASSUME AgesFit, AgeOK, Environment
  PROVE  Blocked' /\ Aged'
<1> USE DEF AgeOK, Inductive, fsm, call, outputs
<1>1. CASE PollSucceeds
  <2>1. data'.at = now /\ now' = now /\ UNCHANGED <<fsm, call, outputs, sleep>>
    BY <1>1 DEF PollSucceeds
  <2>2. Sub(now, data.at)' = 0
    BY <2>1, SubSelf DEF TypeOK
  <2>3. /\ wait \in Nat /\ sleep \in 0 .. TickGap
        /\ Sub(now, phaseStart)' \in Nat
    BY <2>1, SubType, ConstantTypes DEF TypeOK, Elapsed, Sub
  <2>4. Blocked /\ Blocked'
    BY <2>1 DEF Blocked
  <2>5. pc = "enableLoad" => 0 + wait <= StaleThreshold + MaxLag + MaxUart
    BY <2>3, <2>4, AgeTypes DEF Blocked
  <2>6. pc = "settle" => 0 + wait <= StaleThreshold + MaxLag + MaxUart + LoadSettle
    BY <2>3, <2>4, AgeTypes DEF Blocked
  <2>7. pc = "pullIn" => 0 + wait <= StartAge
    BY <2>3, <2>4, AgeTypes DEF Blocked, StartAge
  <2>8. 0 <= StartAge + Sub(now, phaseStart)'
    BY <2>3, AgeTypes
  <2>9. 0 + sleep < StartAge + PrimeTimeout + 2 * TickGap
    BY <2>3, AgeTypes
  <2>10. pc' = pc /\ wait' = wait /\ sleep' = sleep
    BY <2>1
  <2>11. Aged'
    BY <2>2, <2>5, <2>6, <2>7, <2>8, <2>9, <2>10, Zenon DEF Aged
  <2> QED BY <2>4, <2>11
<1>2. CASE TankChanges \/ FlowPulse
  BY <1>2 DEF TankChanges, FlowPulse, Blocked, Aged, Sub
<1>3. CASE Reboot
  BY <1>3, OffAge DEF Reboot
<1> QED BY <1>1, <1>2, <1>3 DEF Environment

LEMMA AgedStep ==
  AgeOK /\ AgesFit /\ [Next]_vars => Blocked' /\ Aged'
<1> SUFFICES ASSUME AgesFit, AgeOK, [Next]_vars PROVE Blocked' /\ Aged'
  OBVIOUS
<1>1. CASE UNCHANGED vars
  BY <1>1 DEF AgeOK, vars, fsm, call, outputs, plant, Blocked, Aged, Sub
<1> QED BY <1>1, CallsAge, ResumeAge, ElapseAge, EnvironmentAge DEF Next

--------------------------------------------------------------------------------
\* The true age: as long as it is less than a lap, it is what the machine sees.
Linked ==
  /\ age \in 0 .. ClockMod
  /\ data.at > 0 => data.valid
  /\ data.valid /\ age < ClockMod => Sub(now, data.at) = age

LEMMA LinkedInit == AgedInit => Linked
BY ConstantTypes DEF AgedInit, Init, Linked, NoData

LEMMA LinkedNext ==
  TypeOK /\ Linked /\ [AgedNext]_<<vars, age>> => Linked'
<1> SUFFICES ASSUME TypeOK, Linked, [AgedNext]_<<vars, age>> PROVE Linked'
  OBVIOUS
<1> USE DEF Linked
<1>1. CASE PollSucceeds /\ age' = 0
  <2>1. data'.at = now /\ now' = now /\ data'.valid
    BY <1>1 DEF PollSucceeds
  <2>2. Sub(now, data.at)' = 0
    BY <2>1, SubSelf DEF TypeOK
  <2> QED BY <1>1, <2>1, <2>2, ConstantTypes
<1>2. CASE Reboot /\ age' = 0
  BY <1>2, ConstantTypes DEF Reboot, NoData
<1>3. CASE Elapse /\ age' = IF age < ClockMod THEN age + 1 ELSE age
  <2>1. data' = data /\ now \in Elapsed /\ data.at \in Elapsed
    BY <1>3, AgeType DEF Elapse, plant
  <2>2. age' \in 0 .. ClockMod
    BY <1>3, ConstantTypes
  <2>3. ASSUME data.valid, age' < ClockMod
        PROVE  Sub(now', data.at) = age'
    <3>1. age' = age + 1 /\ Sub(now, data.at) = age /\ Sub(now, data.at) + 1 < ClockMod
      BY <1>3, <2>3, ConstantTypes
    <3>2. Sub(now', data.at) = Sub(now, data.at) + 1
      BY <1>3, <2>1, <3>1, SubNext DEF Elapse
    <3> QED BY <3>1, <3>2
  <2>4. Sub(now, data.at)' = Sub(now', data.at)
    BY <2>1 DEF Sub
  <2> QED BY <2>1, <2>2, <2>3, <2>4
<1>4. CASE UNCHANGED <<now, data, age>>
  BY <1>4 DEF Sub
<1>5. CASE \/ CallRequest \/ CallTick \/ CallCancel \/ CallClearFault \/ CallTakeDeliveryRecord
           \/ Resume \/ TankChanges \/ FlowPulse
  <2>1. UNCHANGED <<now, data>>
    BY <1>5 DEF CallRequest, CallTick, CallCancel, CallClearFault, CallTakeDeliveryRecord,
                Resume, LoadEnabled, LoadEnableFailed, OpenValve, StartPump, CloseValves,
                DisableLoad, TankChanges, FlowPulse, plant
  <2>2. CASE UNCHANGED age
    BY <1>4, <2>1, <2>2
  <2> QED BY <1>1, <1>2, <1>3, <2>2 DEF AgedNext
<1>6. CASE UNCHANGED <<vars, age>>
  BY <1>4, <1>6 DEF vars, plant
<1> QED BY <1>1, <1>2, <1>3, <1>5, <1>6 DEF AgedNext

\* The history restricts nothing.
LEMMA AgedRefines == AgedSpec => Spec
<1>1. AgedInit => Init
  BY DEF AgedInit
<1>2. [AgedNext]_<<vars, age>> => [Next]_vars
  BY DEF AgedNext, Next, Environment
<1> QED BY <1>1, <1>2, PTL DEF AgedSpec, Spec

\* Watering never goes on with data that are older, on a clock that does not wrap, than
\* FreshEnough allows, but for the two kinds of data the code cannot tell from fresh
\* ones.
THEOREM FreshEnoughCorrect ==
  ASSUME AgesFit
  PROVE  AgedSpec => []FreshEnough
<1>1. AgedInit => Blocked /\ Aged /\ Linked
  BY InitAge, LinkedInit DEF AgedInit
<1>2. Inductive /\ Blocked /\ Aged /\ Linked /\ [AgedNext]_<<vars, age>>
        => Blocked' /\ Aged' /\ Linked'
  <2>1. [AgedNext]_<<vars, age>> => [Next]_vars
    BY DEF AgedNext, Next, Environment
  <2>2. Inductive => TypeOK
    BY DEF Inductive
  <2> QED BY <2>1, <2>2, AgedStep, LinkedNext DEF AgeOK
<1>3. Inductive /\ Aged /\ Linked => FreshEnough
  <2> SUFFICES ASSUME Inductive, Aged, Linked, state = "Watering", pump, data.at > 0,
                      age # ClockMod
               PROVE  age < StartAge + PrimeTimeout + 2 * TickGap
    BY DEF FreshEnough
  <2>1. Sub(now, data.at) + sleep < StartAge + PrimeTimeout + 2 * TickGap
    BY DEF Aged
  <2>2. Sub(now, data.at) \in Nat /\ sleep \in Nat
    BY AgeType DEF Inductive
  <2>3. age = Sub(now, data.at)
    BY ConstantTypes DEF Linked
  <2> QED BY <2>1, <2>2, <2>3, AgeTypes
<1> QED BY <1>1, <1>2, <1>3, AgedRefines, InductiveCorrect, PTL DEF AgedSpec
================================================================================
