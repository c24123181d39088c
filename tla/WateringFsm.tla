------------------------------ MODULE WateringFsm ------------------------------
(***************************************************************************)
(* The watering state machine, src/main/watering/watering_fsm.cpp, with    *)
(* the actuators and sensors it drives.                                    *)
(*                                                                         *)
(* Every public operation is called by one task.  request(), tick() and    *)
(* cancel() block inside: for the settling delays of the start-up and      *)
(* shut-down sequences and for the Modbus exchange behind setLoad().  A    *)
(* blocked call is the value of pc and what is left of its delay is wait;  *)
(* meanwhile the other tasks (the Renogy poller) and the plant go on.      *)
(*                                                                         *)
(* Time is counted in model ticks on a clock that wraps at ClockMod, as    *)
(* the 32-bit millisecond tick count of FreeRTOS does, and every age is    *)
(* an unsigned difference.  The module closes the system with a caller     *)
(* that may invoke any operation whenever no call is in progress and that  *)
(* calls tick() at least every TickGap; WateringTask replaces that caller  *)
(* by the real loop.                                                       *)
(***************************************************************************)
EXTENDS Integers, FiniteSets

CONSTANTS
  Zone,              \* the valid zone ids
  InvalidZone,       \* stands for every id outside Zone
  Durations,         \* requested durations, in ticks (durationSec * 1000)
  ClockMod,          \* the clock wraps here: 2^32 ms
  LoadSettle,        \* config::renogy::LOAD_ENABLE_SETTLE_MS
  PullIn,            \* config::solenoid::PULL_IN_MS
  PumpToClose,       \* PUMP_STOP_TO_SOLENOID_CLOSE_MS
  CloseToLoadOff,    \* SOLENOID_CLOSE_TO_LOAD_DISABLE_MS
  PrimeTimeout,      \* config::pump::PRIME_TIMEOUT_MS
  PrimePulses,       \* config::pump::PRIME_PULSE_COUNT
  MaxDispense,       \* config::pump::MAX_DISPENSE_MS
  StaleThreshold,    \* config::renogy::STALE_THRESHOLD_MS
  UartTimes,         \* how long one setLoad() exchange may block
  TickGap,           \* the caller ticks at least this often
  Lags,              \* how old the time may be that a request is judged by
  LowBatteryReadings,\* the battery readings a poll may bring: TRUE is at or below 15 %
  LowTankReadings,   \* the float sensor readings: TRUE is at or below 5 %
  PollTimes,         \* bound: the clock readings at which a poll may complete
  MaxPulses          \* bound: the pulses counted in one cycle

Elapsed == 0 .. ClockMod - 1
MaxUart == CHOOSE u \in UartTimes : \A v \in UartTimes : v <= u
MaxLag == CHOOSE l \in Lags : \A k \in Lags : k <= l

\* The shortest and the longest time a phase may need must both be visible to
\* an unsigned difference of the wrapping clock.
ASSUME ConstantsOK ==
  /\ InvalidZone \notin Zone
  /\ Durations \subseteq Nat
  /\ UartTimes \subseteq Nat /\ \E u \in UartTimes : \A v \in UartTimes : v <= u
  /\ {LoadSettle, PullIn, PumpToClose, CloseToLoadOff, StaleThreshold} \subseteq Nat
  /\ {PrimeTimeout, PrimePulses, MaxDispense, TickGap, ClockMod} \subseteq Nat \ {0}
  /\ LowBatteryReadings \subseteq BOOLEAN /\ LowTankReadings \subseteq BOOLEAN
  /\ Lags \subseteq Elapsed /\ \E l \in Lags : \A k \in Lags : k <= l
  /\ PollTimes \subseteq Elapsed /\ MaxPulses \in Nat
  /\ PrimeTimeout + TickGap < ClockMod
  /\ MaxDispense + TickGap < ClockMod

NoFault == "None"
FaultCode == {NoFault, "LowBattery", "LowWater", "PrimeTimeout", "MaxDuration",
              "InvalidRequest", "LoadEnableFailed", "StaleData"}

NoDelivery == [zone |-> InvalidZone, ml |-> 0]

VARIABLES
  state,             \* state_
  fault,             \* fault_
  zone,              \* req_.zone
  target,            \* targetDurationMs_
  phaseStart,        \* phaseStartMs_
  delivered,         \* deliveredMl_
  owned,             \* zoneOwned_
  pending,           \* pendingDelivery_, NoDelivery when hasPendingDelivery_ is false
  pc,                \* "ready", or the delay or exchange the current call is blocked in
  wait,              \* what is left of that delay
  arg,               \* the argument of the request() in progress
  after,             \* the fault the stopping call will report; NoFault: back to Idle
  pump, open, load,  \* the outputs, see OutputInterlock
  pulses,            \* the hardware pulse counter of the flow meter
  data,              \* the last snapshot of the charge controller
  tankLow,           \* the float sensor reads at or below MIN_WATER_LEVEL_PCT
  now,               \* the FreeRTOS tick count
  sleep              \* what is left until the caller must tick again

fsm     == <<state, fault, zone, target, phaseStart, delivered, owned, pending>>
call    == <<pc, wait, arg, after>>
outputs == <<pump, open, load>>
plant   == <<pulses, data, tankLow>>
vars    == <<fsm, call, outputs, plant, now, sleep>>

Request == [zone : Zone \cup {InvalidZone}, duration : Durations]
NoRequest == [zone |-> InvalidZone, duration |-> 0]
Active == {"Priming", "Watering"}

TypeOK ==
  /\ state \in {"Idle", "Fault"} \cup Active
  /\ fault \in FaultCode /\ after \in FaultCode
  /\ zone \in Zone \cup {InvalidZone} /\ target \in Nat
  /\ phaseStart \in Elapsed /\ now \in Elapsed
  /\ delivered \in Nat
  /\ owned \in BOOLEAN
  /\ pending \in [zone : Zone \cup {InvalidZone}, ml : Nat]
  /\ pc \in {"ready", "enableLoad", "settle", "pullIn", "closeValves", "disableLoad"}
  /\ wait \in Nat /\ sleep \in 0 .. TickGap
  /\ arg \in Request \cup {NoRequest}
  /\ pc \in {"enableLoad", "settle"} => arg.zone \in Zone
  /\ pump \in BOOLEAN /\ open \subseteq Zone /\ load \in BOOLEAN
  /\ pulses \in Nat
  /\ data \in [valid : BOOLEAN, low : BOOLEAN, at : Elapsed]
  /\ tankLow \in BOOLEAN

--------------------------------------------------------------------------------
\* Unsigned difference of two readings of the wrapping clock.
Sub(a, b) == IF b <= a THEN a - b ELSE (a + ClockMod) - b

\* lround(pulses * ML_PER_PULSE) with ML_PER_PULSE = 0.706
Milliliters(p) == (p * 706 + 500) \div 1000

\* The age test shared by request() and tick(); lastUpdateMs = 0 means "never".
Stale(nowMs) == data.at > 0 /\ Sub(nowMs, data.at) > StaleThreshold

\* The first precondition of request() that fails, NoFault when all hold.
Verdict(req, nowMs) ==
  IF req.zone \notin Zone \/ req.duration = 0 THEN "InvalidRequest"
  ELSE IF ~data.valid \/ Stale(nowMs) THEN "StaleData"
  ELSE IF data.low THEN "LowBattery"
  ELSE IF tankLow THEN "LowWater"
  ELSE NoFault

ZoneStatus(z) ==
  IF ~owned \/ z # zone THEN "Idle"
  ELSE IF state = "Watering" THEN "Running"
  ELSE state

--------------------------------------------------------------------------------
\* Defect: only a cycle that got as far as watering is recorded.
CaptureWatering ==
  /\ delivered' = Milliliters(pulses)
  /\ pending' = IF owned /\ state = "Watering"
                THEN [zone |-> zone, ml |-> Milliliters(pulses)] ELSE pending

\* captureDelivery() of an accepted cycle: only such a cycle reaches it with a
\* measured volume, every other caller reports zero.
CaptureDelivery ==
  /\ delivered' = Milliliters(pulses)
  /\ pending' = IF owned THEN [zone |-> zone, ml |-> Milliliters(pulses)] ELSE pending

\* Defect: the pump is still driven when the valves are closed.
BeginStopPumpOn(code) ==
  /\ CaptureDelivery
  /\ pc' = "closeValves" /\ wait' = PumpToClose /\ after' = code
  /\ UNCHANGED <<state, fault, zone, target, phaseStart, owned, arg, outputs>>

\* Defect: pump and valves are switched off together.
BeginStopAtOnce(code) ==
  /\ CaptureDelivery
  /\ pump' = FALSE /\ open' = {}
  /\ pc' = "closeValves" /\ wait' = PumpToClose /\ after' = code
  /\ UNCHANGED <<state, fault, zone, target, phaseStart, owned, arg, load>>

\* stopOutputs(true, _) of an accepted cycle, entered from enterFault(code) or,
\* with NoFault, from a cycle that completes or is cancelled.
BeginStop(code) ==
  /\ CaptureDelivery
  /\ pump' = FALSE
  /\ pc' = "closeValves" /\ wait' = PumpToClose /\ after' = code
  /\ UNCHANGED <<state, fault, zone, target, phaseStart, owned, arg, open, load>>

\* enterFault(code) while no cycle was accepted: the outputs are dropped
\* without delays, and setLoad(false) blocks on the serial line.
BeginReject(code) ==
  /\ delivered' = 0 /\ owned' = FALSE
  /\ pump' = FALSE /\ open' = {}
  /\ pc' = "disableLoad" /\ wait' \in UartTimes /\ after' = code
  /\ UNCHANGED <<state, fault, zone, target, phaseStart, pending, arg, load>>

\* Defect: a latched fault does not keep a request from being judged.
RequestRejectedInFault(req, nowMs) ==
  /\ pc = "ready" /\ state \notin Active
  /\ Verdict(req, nowMs) # NoFault
  /\ BeginReject(Verdict(req, nowMs))

\* request(req, nowMs) is ignored unless the machine is Idle.
RequestRejected(req, nowMs) ==
  /\ pc = "ready" /\ state = "Idle"
  /\ Verdict(req, nowMs) # NoFault
  /\ BeginReject(Verdict(req, nowMs))

RequestAdmitted(req, nowMs) ==
  /\ pc = "ready" /\ state = "Idle"
  /\ Verdict(req, nowMs) = NoFault
  /\ owned' = FALSE
  /\ pc' = "enableLoad" /\ wait' \in UartTimes /\ arg' = req
  /\ UNCHANGED <<state, fault, zone, target, phaseStart, delivered, pending, after, outputs>>

\* setLoad(true) acknowledged.
LoadEnabled ==
  /\ pc = "enableLoad" /\ wait = 0
  /\ load' = TRUE
  /\ pc' = "settle" /\ wait' = LoadSettle
  /\ UNCHANGED <<fsm, arg, after, pump, open, plant, now, sleep>>

\* Defect: a refused load supply is taken to be off.
LoadEnableAbandoned ==
  /\ pc = "enableLoad" /\ wait = 0
  /\ load' \in {load, TRUE}
  /\ delivered' = 0
  /\ state' = "Fault" /\ fault' = "LoadEnableFailed"
  /\ pc' = "ready" /\ arg' = NoRequest
  /\ UNCHANGED <<zone, target, phaseStart, owned, pending, wait, after, pump, open,
                 plant, now, sleep>>

\* setLoad(true) reported a failure.  It is two register writes, and a lost
\* answer to the second leaves the load switched on.
LoadEnableFailed ==
  /\ pc = "enableLoad" /\ wait = 0
  /\ load' \in {load, TRUE}
  /\ delivered' = 0
  /\ pump' = FALSE /\ open' = {}
  /\ pc' = "disableLoad" /\ wait' \in UartTimes /\ after' = "LoadEnableFailed"
  /\ arg' = NoRequest
  /\ UNCHANGED <<state, fault, zone, target, phaseStart, owned, pending, plant, now, sleep>>

\* The settle delay is over: the cycle is accepted and its valve opens.
OpenValve ==
  /\ pc = "settle" /\ wait = 0
  /\ zone' = arg.zone /\ target' = arg.duration
  /\ delivered' = 0 /\ owned' = TRUE
  /\ pulses' = 0
  /\ open' = open \cup {arg.zone}
  /\ pc' = "pullIn" /\ wait' = PullIn /\ arg' = NoRequest
  /\ UNCHANGED <<state, fault, phaseStart, pending, after, pump, load, data, tankLow, now, sleep>>

\* Defect: the start of the priming phase is not noted.
StartPumpUntimed ==
  /\ pc = "pullIn" /\ wait = 0
  /\ pump' = TRUE
  /\ state' = "Priming"
  /\ pc' = "ready"
  /\ UNCHANGED <<fault, zone, target, phaseStart, delivered, owned, pending, wait, arg, after,
                 open, load, plant, now, sleep>>

StartPump ==
  /\ pc = "pullIn" /\ wait = 0
  /\ pump' = TRUE
  /\ phaseStart' = now /\ state' = "Priming"
  /\ pc' = "ready"
  /\ UNCHANGED <<fault, zone, target, delivered, owned, pending, wait, arg, after,
                 open, load, plant, now, sleep>>

\* Defect: the valves are forgotten.
CloseNothing ==
  /\ pc = "closeValves" /\ wait = 0
  /\ pc' = "disableLoad" /\ \E u \in UartTimes : wait' = CloseToLoadOff + u
  /\ UNCHANGED <<fsm, arg, after, outputs, plant, now, sleep>>

CloseValves ==
  /\ pc = "closeValves" /\ wait = 0
  /\ open' = {}
  /\ pc' = "disableLoad" /\ \E u \in UartTimes : wait' = CloseToLoadOff + u
  /\ UNCHANGED <<fsm, arg, after, pump, load, plant, now, sleep>>

\* Defect: setLoad(false) is repeated until it is acknowledged.
DisableLoadInsist ==
  /\ pc = "disableLoad" /\ wait = 0
  /\ \/ /\ wait' = MaxUart
        /\ UNCHANGED <<fsm, pc, arg, after, outputs>>
     \/ /\ load' = FALSE
        /\ pc' = "ready" /\ after' = NoFault
        /\ IF after = NoFault
           THEN /\ state' = "Idle" /\ owned' = FALSE
                /\ UNCHANGED fault
           ELSE /\ state' = "Fault" /\ fault' = after
                /\ UNCHANGED owned
        /\ UNCHANGED <<zone, target, phaseStart, delivered, pending, wait, arg, pump, open>>
  /\ UNCHANGED <<plant, now, sleep>>

\* setLoad(false) returns; its result is not looked at, and a failed exchange
\* may have left the load on.  Then the caller of stopOutputs() finishes.
DisableLoad ==
  /\ pc = "disableLoad" /\ wait = 0
  /\ load' \in {load, FALSE}
  /\ pc' = "ready" /\ after' = NoFault
  /\ IF after = NoFault
     THEN /\ state' = "Idle" /\ owned' = FALSE
          /\ UNCHANGED fault
     ELSE /\ state' = "Fault" /\ fault' = after
          /\ UNCHANGED owned
  /\ UNCHANGED <<zone, target, phaseStart, delivered, pending, wait, arg, pump, open,
                 plant, now, sleep>>

--------------------------------------------------------------------------------
\* Defect: priming has no timeout.
TickPrimingForever(nowMs) ==
  /\ pc = "ready" /\ state = "Priming"
  /\ IF pulses >= PrimePulses
     THEN phaseStart' = nowMs /\ state' = "Watering"
     ELSE UNCHANGED <<phaseStart, state>>
  /\ UNCHANGED <<fault, zone, target, delivered, owned, pending, call, outputs>>

\* tick(nowMs), one action for each way through it.
TickPriming(nowMs) ==
  /\ pc = "ready" /\ state = "Priming"
  /\ \/ /\ pulses >= PrimePulses
        /\ phaseStart' = nowMs /\ state' = "Watering"
        /\ UNCHANGED <<fault, zone, target, delivered, owned, pending, call, outputs>>
     \/ /\ pulses < PrimePulses
        /\ Sub(nowMs, phaseStart) >= PrimeTimeout
        /\ BeginStop("PrimeTimeout")
     \/ /\ pulses < PrimePulses
        /\ Sub(nowMs, phaseStart) < PrimeTimeout
        /\ UNCHANGED <<fsm, call, outputs>>

\* Defect: the limits are exceeded before they are acted upon.
RunVerdictLate(nowMs) ==
  LET elapsed == Sub(nowMs, phaseStart)
  IN IF elapsed > MaxDispense THEN "MaxDuration"
     ELSE IF elapsed > target THEN "Complete"
     ELSE IF Stale(nowMs) THEN "StaleData"
     ELSE IF data.low THEN "LowBattery"
     ELSE "Continue"

\* Defect: the age of the controller data is checked before the start only.
RunVerdictUnaged(nowMs) ==
  LET elapsed == Sub(nowMs, phaseStart)
  IN IF elapsed >= MaxDispense THEN "MaxDuration"
     ELSE IF elapsed >= target THEN "Complete"
     ELSE IF data.low THEN "LowBattery"
     ELSE "Continue"

\* What tick() finds to stop a running cycle for, in the order it looks.
RunVerdict(nowMs) ==
  LET elapsed == Sub(nowMs, phaseStart)
  IN IF elapsed >= MaxDispense THEN "MaxDuration"
     ELSE IF elapsed >= target THEN "Complete"
     ELSE IF Stale(nowMs) THEN "StaleData"
     ELSE IF data.low THEN "LowBattery"
     ELSE "Continue"

TickWatering(nowMs) ==
  /\ pc = "ready" /\ state = "Watering"
  /\ LET v == RunVerdict(nowMs)
     IN \/ v = "Continue" /\ UNCHANGED <<fsm, call, outputs>>
        \/ v = "Complete" /\ BeginStop(NoFault)
        \/ v \in FaultCode /\ BeginStop(v)

TickAtRest ==
  /\ pc = "ready" /\ state \notin Active
  /\ UNCHANGED <<fsm, call, outputs>>

TickFsm(nowMs) == TickPriming(nowMs) \/ TickWatering(nowMs) \/ TickAtRest

Cancel ==
  /\ pc = "ready" /\ state \in Active
  /\ BeginStop(NoFault)

ClearFault ==
  /\ pc = "ready" /\ state = "Fault"
  /\ fault' = NoFault /\ owned' = FALSE /\ state' = "Idle"
  /\ UNCHANGED <<zone, target, phaseStart, delivered, pending, call, outputs>>

TakeDeliveryRecord ==
  /\ pc = "ready" /\ pending # NoDelivery
  /\ pending' = NoDelivery
  /\ UNCHANGED <<state, fault, zone, target, phaseStart, delivered, owned, call, outputs>>

\* A blocked call goes on.
Resume ==
  LoadEnabled \/ LoadEnableFailed \/ OpenValve \/ StartPump \/ CloseValves \/ DisableLoad

--------------------------------------------------------------------------------
\* The environment: the Renogy poller, the reservoir, the flow meter, the reset
\* line.  Water can reach the meter only through an open valve.
PollSucceeds ==
  /\ now \in PollTimes
  /\ \E low \in LowBatteryReadings : data' = [valid |-> TRUE, low |-> low, at |-> now]
  /\ UNCHANGED <<fsm, call, outputs, pulses, tankLow, now, sleep>>

TankChanges ==
  /\ tankLow' \in LowTankReadings
  /\ UNCHANGED <<fsm, call, outputs, pulses, data, now, sleep>>

FlowPulse ==
  /\ open # {} /\ pulses < MaxPulses
  /\ pulses' = pulses + 1
  /\ UNCHANGED <<fsm, call, outputs, data, tankLow, now, sleep>>

\* A reset restarts the clock, drops pump and valves and forgets the machine's
\* memory; the charge controller keeps its load output as it was.
NoData == [valid |-> FALSE, low |-> TRUE, at |-> 0]

Reboot ==
  /\ state' = "Idle" /\ fault' = NoFault /\ zone' = InvalidZone
  /\ target' = 0 /\ phaseStart' = 0 /\ delivered' = 0
  /\ owned' = FALSE /\ pending' = NoDelivery
  /\ pc' = "ready" /\ wait' = 0 /\ arg' = NoRequest /\ after' = NoFault
  /\ pump' = FALSE /\ open' = {}
  /\ pulses' = 0 /\ data' = NoData
  /\ now' = 0 /\ sleep' = TickGap
  /\ UNCHANGED <<load, tankLow>>

\* Time passes while a call waits, and between calls until the next tick is due.
Elapse ==
  /\ IF pc = "ready" THEN sleep > 0 ELSE wait > 0
  /\ now' = IF now = ClockMod - 1 THEN 0 ELSE now + 1
  /\ IF pc = "ready"
     THEN sleep' = sleep - 1 /\ UNCHANGED wait
     ELSE wait' = wait - 1 /\ UNCHANGED sleep
  /\ UNCHANGED <<fsm, pc, arg, after, outputs, plant>>

--------------------------------------------------------------------------------
Init ==
  /\ state = "Idle" /\ fault = NoFault /\ zone = InvalidZone
  /\ target = 0 /\ phaseStart = 0 /\ delivered = 0
  /\ owned = FALSE /\ pending = NoDelivery
  /\ pc = "ready" /\ wait = 0 /\ arg = NoRequest /\ after = NoFault
  /\ pump = FALSE /\ open = {} /\ load \in BOOLEAN
  /\ pulses = 0 /\ data = NoData /\ tankLow \in LowTankReadings
  /\ now = 0 /\ sleep = TickGap

\* The caller passes a time it took before: other commands may have been handled,
\* and may have blocked, since.
CallRequest ==
  /\ \E req \in Request, lag \in Lags :
       RequestRejected(req, Sub(now, lag)) \/ RequestAdmitted(req, Sub(now, lag))
  /\ UNCHANGED <<plant, now, sleep>>

CallTick ==
  /\ TickFsm(now)
  /\ sleep' = TickGap
  /\ UNCHANGED <<plant, now>>

CallCancel == Cancel /\ UNCHANGED <<plant, now, sleep>>

CallClearFault == ClearFault /\ UNCHANGED <<plant, now, sleep>>

CallTakeDeliveryRecord == TakeDeliveryRecord /\ UNCHANGED <<plant, now, sleep>>

Environment == PollSucceeds \/ TankChanges \/ FlowPulse \/ Reboot

Next ==
  \/ CallRequest \/ CallTick \/ CallCancel \/ CallClearFault \/ CallTakeDeliveryRecord
  \/ Resume
  \/ Elapse
  \/ Environment

Spec == Init /\ [][Next]_vars

--------------------------------------------------------------------------------
\* Properties.

\* No call is in progress and no cycle is.
Resting == pc = "ready" /\ state \notin Active

\* The pump never runs against a closed valve, an unpowered supply or a zone
\* nobody owns: watering_fsm.cpp opens the valve before the pump and stops the
\* pump before the valve on every path, whatever call is interrupted by a reset.
PumpSafe == pump => owned /\ load /\ open = {zone}

\* "Fault - all outputs off" (watering_fsm.hpp:26), and likewise Idle: whenever
\* no call is in progress, pump and valves are on exactly while a cycle runs.
RestIsDry == pc = "ready" => /\ pump <=> state \in Active
                             /\ ~pump => open = {}

\* The fault code says Fault exactly when the machine is in Fault: the reports of
\* main.cpp are computed from the code, the guards of the machine from the state.
FaultIsState == fault # NoFault <=> state = "Fault"

\* How long the present phase of the pump may last, not counting the wait for
\* the next tick().
PhaseLimit == IF state = "Priming" THEN PrimeTimeout
              ELSE IF target < MaxDispense THEN target ELSE MaxDispense

\* The pump never runs a phase longer than its limit and one tick interval, also
\* when the 32-bit clock wraps in the middle of the phase.
RunBounded == pump => Sub(now, phaseStart) < PhaseLimit + TickGap

\* A latched fault is never replaced by another fault, nor left except through
\* clearFault() or a reset (spec: "Faults remain latched until an explicit clear").
FaultLatched ==
  [][fault # NoFault /\ fault' # fault => CallClearFault \/ Reboot]_vars

\* Whatever stops the pump, a limit, a fault or cancel(), the cycle it ends is
\* recorded with its zone and with what the meter had counted; only a reset
\* loses it.
StopIsRecorded ==
  [][pump /\ ~pump' => \/ pending' = [zone |-> zone, ml |-> Milliliters(pulses)]
                       \/ Reboot]_vars

\* Pump and valves are never switched by the same step: "graceful shutdown mirrors
\* startup in reverse" (config.hpp:128), on every path. Only a reset drops both.
OneAtATime == [][pump' = pump \/ open' = open \/ Reboot]_vars

\* Nothing switches the load supply off once a cycle is over, and the result of the
\* attempt is not looked at: so no call may come to rest, in Idle or in Fault, with
\* the supply on unless its last act was that attempt.
RestTriesLoadOff ==
  [][load' /\ Resting' /\ ~(load /\ Resting) => DisableLoad \/ Reboot]_vars

\* The inductive invariant behind these: what is on, and in which state the
\* machine is, at each place where a call can be blocked ...
Sequenced ==
  /\ RestIsDry /\ PumpSafe /\ FaultIsState
  /\ pump => pc = "ready"
  /\ pc # "ready" => state # "Fault"
  /\ pc \in {"enableLoad", "settle", "disableLoad"} => open = {}
  /\ pc \in {"enableLoad", "settle", "pullIn"} => state = "Idle"
  /\ pc \in {"settle", "pullIn"} => load
  /\ pc = "pullIn" => owned /\ open = {zone}

\* ... and what is left of the present phase: the time it has taken and the time
\* to the next tick() together never exceed the limit by a whole tick interval.
Timed ==
  /\ pc \in {"enableLoad", "settle"} => arg.duration > 0
  /\ pc = "pullIn" \/ pump => target > 0
  /\ pump => Sub(now, phaseStart) + sleep < PhaseLimit + TickGap

Inductive == TypeOK /\ Sequenced /\ Timed

\* The outputs are only ever switched in the order OutputInterlock prescribes.
Interlock == INSTANCE OutputInterlock WITH load <- load, open <- open, pump <- pump
InterlockSpec == Interlock!Spec

\* fault_code.hpp:11: MaxDuration means "Watering exceeded MAX_DISPENSE_MS hard
\* cap", so a request within the cap, the last one made, does not end in it.
CapOnlyWhenExceeded == fault = "MaxDuration" => target > MaxDispense
================================================================================
