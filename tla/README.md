# A verification project for the solar plant waterer

The firmware under `src/main` waters plants from a reservoir: an ESP32 drives a
pump and one solenoid valve per zone through the switched load output of a
Renogy solar charge controller, and is commanded over Zigbee. This directory
holds TLA+ models of its logic, the TLC configurations that check them on small
instances, and TLAPS proofs of the most important results for every instance.

- Check a model: `tlc -config FsmSafety.cfg MCWateringFsm`
- Check the proofs: `tlapm WateringFsm_proofs.tla`, and likewise `DataAge_proofs`,
  `WateringTask_proofs`, `EchoSuppressor_proofs`, `WaterUsage_proofs`, `RenogyLink_proofs`, `RenogyLinkAnswers_proofs`,
  `StatusReports_proofs`

`PROJECT.json` lists the runs, the theorems, the source lines behind every
definition, the findings and the hazards.

## 1. Inventory

### Tasks and what they share

| Task (priority) | Runs | Shares |
|---|---|---|
| Zigbee task (5) | the stack, its signal handler, `ZbHandlers::handleSetAttr` | the attributes, `zoneDurationSec_`, the echo table (all under the Zigbee lock), the command queue, the joined flags (atomics) |
| watering task (3) | the loop of `main.cpp`: drain queue, tick the state machine, account water, report | the state machine (alone), the queue, the attributes (under the lock), the serial line |
| Renogy poller (2) | `RenogyDriver::poll` every few seconds | the snapshot (mutex), the serial line (no lock) |
| LED task (1) | the blink pattern | the LED mode (atomic) |

### Components

| Component (source) | State | Operations | Hard behaviour | What makes it correct |
|---|---|---|---|---|
| State machine (`watering/watering_fsm.cpp`) | state, fault, request, phase start, one pending delivery record | `request`, `tick`, `cancel`, `clearFault`, `takeDeliveryRecord` | calls that block for seconds between two outputs; 32-bit clock; failed exchanges; resets | outputs in order, pump bounded, faults latch, deliveries recorded, cycles end |
| Watering task (`main.cpp` 383-645) | command queue, local time, `lastStatus[]` | one loop iteration | commands posted between any two steps; a time taken before a call that blocks; reports by difference; refused writes that are noted all the same | switches show what is watered, faults wait for the user, limits are real, the queue drains |
| Command handlers (`zb/zb_handlers.cpp`) | durations, queue handle | one callback per attribute write | full queue; a duration is any float | a command that is accepted is acted upon, and is always a valid one |
| Echo suppressor (`zb/attr_echo_suppressor.cpp`) | a few slots | remember, consume, clear, reset | echoes late, absent, or of older writes | the device never obeys itself, and never ignores a real command |
| Water totals (`watering/water_usage_tracker.cpp`, `main.cpp` 220-292) | totals in memory and flash, what was reported | add, save, load, report | resets inside a save, flash errors, a flash erased at boot | a lifetime total goes back only if flash lost it |
| Actuators (`drivers/*_actuator.cpp`, `zone_manager.cpp`) | which output is on | open, close, start, stop | pull-in delay blocks | part of the state machine's model |
| Sensors (`drivers/flow_meter.cpp`, `float_sensor.cpp`) | pulse count, reading | read, reset | count goes on between read and use | part of the state machine's model |
| Renogy driver (`drivers/renogy_driver.cpp`) | snapshot with time stamp | `poll`, `getData`, `setLoad` | two tasks, one serial line; lost and late answers | a reader gets the answer to its own question |
| Zigbee reports (`zb/zb_device.cpp`, `main.cpp` 527-643) | joined flags, time of join, last-reported values | report, join, leave | report refused, rejoin between two reads | what is shown converges to what is |
| Commissioning (`main.cpp` 293-376) | commissioning in progress, joined | the signal handler | failed start | the device joins in the end |
| Status LED (`hal/status_led.cpp`) | mode | set, blink | stored by two tasks | shows fault, watering, link in this order |
| Board support, Zigbee2MQTT converter | - | - | - | not modelled, see section 7 |

## 2. The modules

```
OutputInterlock          abstract: the order in which outputs may be switched
    ^ implemented by (InterlockSpec)
WateringFsm              the state machine, its plant, an arbitrary caller
    ^ implemented by (MachineSpec), and extended by
WateringTask             the real loop as caller, queue, Zigbee callbacks

DataAge                  WateringFsm with the true age of the controller data

EchoMemory               abstract: one remembered value for each switch
    ^ implemented by (MemorySpec)
EchoSuppressor           own writes against commands: the table of slots

WaterUsage               totals in memory, flash and on the sensors
RenogyLink               two tasks on one serial line
StatusReports            joining, and what coordinator and LED show
```

`MCWateringFsm`, `MCWateringTask` and `MCEchoSuppressor` add symmetry sets for TLC;
`X_proofs` holds the theorems about module `X`, and `RenogyLinkAnswers_proofs` those of
`RenogyLink` that say which answers its tasks take. The proofs of `WateringTask` use those
of `WateringFsm` through the refinement between them.

**OutputInterlock** has only `load`, `open`, `pump`. It says which output may be
switched when, and that a power loss may drop pump and valves together. It
leaves that last step enabled always, so it would also admit a controller that
stops both at once; the action property `OneAtATime` of `WateringFsm` excludes
this for every step that is not a reset.

**WateringFsm** translates `watering_fsm.cpp`. Every public operation is called
by one task, but `request`, `tick` and `cancel` block inside. A call is
therefore split where it blocks:

| In the code | In the model |
|---|---|
| `request`, checks fail | `RequestRejected`: outputs dropped, `pc = "disableLoad"` |
| `request`, checks pass, `setLoad(true)` in progress | `RequestAdmitted`, `pc = "enableLoad"` |
| its result; settle delay; open valve, reset the meter; pull-in delay; pump on | `LoadEnabled` or `LoadEnableFailed`, `OpenValve`, `StartPump` |
| `tick` in Priming, Watering, otherwise | `TickPriming`, `TickWatering`, `TickAtRest` |
| `stopOutputs(true, ..)` from `tick`, `cancel`, `enterFault` | `BeginStop` (pump off), `CloseValves`, `DisableLoad`, with the two delays between |
| what the caller of `stopOutputs` does after it | the end of `DisableLoad`, by `after` |

`pc` is the delay a call is blocked in, `wait` what is left of it. The
environment polls the controller (`PollSucceeds`), moves the float, sends flow
pulses and resets the device anywhere (`Reboot`). The load output belongs to the
controller and outlives a reset. `setLoad` is two register writes whose answers
may be lost, hence `LoadEnableFailed` may leave the load on (module `RenogyLink`
looks into such a call). Time is a counter
that wraps at `ClockMod`, as the tick count does; ages are unsigned differences.
The caller of this module invokes any operation at any time between calls, and
`tick` at least every `TickGap`; the time it passes to `request()` may lag behind the
clock by any of `Lags`, since the code takes it before it handles other commands.

**DataAge** extends `WateringFsm` by a history variable: the ticks since the last
successful poll on a clock that does not wrap, up to a lap. What the code computes is the
age modulo a lap; `FreshEnough` is about the true one. `fsm_safety` checks `WateringFsm`
with this history (`AgedSpec`), which restricts nothing (`AgedRefines`).

**WateringTask** replaces that caller by the loop of `main.cpp`. Its program
counter `loop` has one value for each place where the Zigbee task may come in
between. `loopNow` is the local `nowMs`: taken at `Wake`, used for every request
of the drain, taken again for the tick. The Zigbee task's actions store an
attribute and post a command, which is dropped when the queue is full.

A clear-fault command takes many steps, because `resetClearFaultTrigger()` and each
`reportZoneStatus()` take the Zigbee lock for themselves and callbacks run in between:
`DrainClearFault` (receive, `clearFault()`), `ResetTrigger`, `ForceOff` for each zone in
`toForce`, `AllForced`. A request is likewise received (`DrainRequest`,
`DrainIgnoredRequest`), and its forced report comes when it has returned (`RequestReturns`).
`setClusterAttribute()` may refuse a write: then the switch stays as it was, `lastStatus[]` is
updated all the same, and nobody repeats the write (`Report`, `ResetTrigger`). The history
variable `lost` holds the switches whose last write came to nothing, because its command
was dropped (`Post`) or the report refused; the next write of the switch that succeeds takes
it out again (`Regained`). `Trigger` stands for EP43 among them.

The drain itself takes no time; time passes while the task sleeps or a call blocks it, and
the poller completes then. A duration written by the coordinator is a float: numbers
in half seconds and `NaN` are enough to reach every branch of `clampDurationSec()`.

The loop is shown to be a caller as `WateringFsm` assumes one: `Machine` is
`WateringFsm` with `sleep <- UntilTick` and `Lags <- Elapsed`, and `MachineSpec` is what
`TaskSpec` implements. The machine counts the interval to the next tick from the tick,
the loop counts its own delay from `GoToSleep`; `UntilTick` is the former in terms of the
latter. A step of the loop that the machine does not take part in (waking, reports, a
command of the coordinator) is a stutter of `Machine`.

**EchoSuppressor** has the slot table, the attributes and the callbacks still to
come. What the Zigbee library does for a write of the device itself (a callback
during the write, one later, or none) cannot be read in this repository; it is
the parameter `Echoes`. The history variable `crossed` holds the switches that were
written again while a callback for them was still to come.

**EchoMemory** is what the header promises of that table without its slots: for each
switch the value the device wrote last, until it is heard or refused. A step
for one switch leaves every other alone by construction. `EchoSuppressor` implements it
with `memory <- Remembered(slots)`, the values in the slots a switch holds; this is where
the search for a slot, its reuse and the order of slots must not show. It needs a slot for each
switch: with fewer, a write is not remembered, which `EchoMemory` does not allow.

**WaterUsage** has the totals in memory, in flash and as last shown. A save may
report an error with or without effect, a reset may strike inside it, and a read
at boot may fail (`Load`). `app_main()` erases flash that has no free page or is of another
version just before the totals are loaded, which loses all of them without an error of a
save or a read (`Erase`). The history variable `suspect` holds the zones whose latest save or
read reported an error, `lost` those whose total a reset took back, by such an error or by
the erase, until the sensor has shown the new total.

**RenogyLink** has the two users of the UART, `poll()` and `setLoad()`, the
receive buffer and the controller. Each exchange is flush, write, read, and the
watering task may come in between any two of the poller's steps, because its
priority is higher. A frame is a sequence of numbered bytes of the answer to one
request; an answer with a byte missing fails its checksum, and an answer to a
read does not say which registers it holds. `turn` marks the polls alternately,
to tell a late answer from a present one. `acked` says that the last call of `setLoad()` returned
true and none was made since.

Two guards state how long an answer can be late. A poll begins only when no answer to an earlier
poll is under way: polls are `POLL_INTERVAL_MS` (30 s) apart, a read waits 0.5 s, an answer
has at most 25 bytes, which take 26 ms at 9600 baud. `setLoad()` is called only when at
most one switch of the load and `MaxLate` echoes in all are still owed (`FewOwed`). An echo owed
then is half a second late already, since the call that asked for it gave it up; the guard
says that it does not stay away while another call with two exchanges goes by. This is an
assumption about the controller and the line, not something the code
looks after: without it, three calls with the values v, not v, v within the time of one late echo
take the first call's echo for an acknowledgement of the third, while the
second one's switch is still on its way.

`WateringFsm` abstracts such a call to its result and the state of `load` when it returns. That
is justified by `AcknowledgedIsDone` for a call that returned true: the load is as asked for, until
the next call. After a call that returned false, the machine takes the effect to be decided at the
return; on the line it may come later, but in order with later calls and before the next
acknowledgement.

| In the code | In the model |
|---|---|
| `writeRegister`: `flushRx`, `write`, `read` and the comparison with the request | `SetterFlush`, `SetterWrite`, `SetterAcknowledged` or `SetterFails` |
| `setLoad`: mode register, then load register | `target` |
| `readRegisters`: `flushRx`, `write`, `read`, `parseResponse` | `PollerFlush`, `PollerWrite`, `PollerEnters`, `PollerReads` or `PollerTimesOut` |
| `poll`: three blocks, published only if all succeed | `block`, `got` |
| ESP-IDF's lock around a read or a flush | guard of `SetterFlush`; `PollerEnters` waits or gives up |

**StatusReports** has the signal handler with each of its stores a step (`Stamp`,
`Flag`, `Announce`), the reporting half of the loop, the LED mode and the
coordinator's view. One critical sensor, `state`, and one bulk sensor, `total`,
stand for all of their kind that the loop reports; of the poller's sensors, `solar` and
`battery`, only the frames are followed. `battery` is a sensor of its own because
`allowsImmediateReporting()` looks at endpoints and the battery shares that of the active
zone (`Immediate`). The loop notes a value (`NoteState`, `NoteTotal`) and
sends it in a later step, since it waits for the Zigbee lock in between; a clock
tick may fall there. The stack may refuse to store the value (`setClusterAttribute()` fails):
then the attribute stays, no frame is sent, and the value, noted already, is not sent again
(`ReportSensor`; the history variable `refused` holds the sensors whose latest write was
refused). `StackReports` is the stack's own periodic report of a
registered attribute, which `configureReporting()` asks for and the code cannot
see.

In every module an operator under a comment "Defect:" is a plausible mistake in
the definition that follows it. None of them is used by a specification; each
is there to show that a property does notice that mistake (`mutants` in
`PROJECT.json`).

## 3. Runs

| Run | Instance | Shows |
|---|---|---|
| `fsm_safety` | 2 zones (symmetric), clock 11, cap 4, durations 0, 3 and 5, request times up to 1 late | the safety properties of `WateringFsm` and `DataAge`, the inductive invariant, the refinement of `OutputInterlock` |
| `task_safety` | 2 zones (symmetric), queue 2, one switch at a time out of step by a drop or a refusal | the loop with every interleaving of commands |
| `task_liveness` | 1 zone, queue 2, no drop and no refusal | the queue drains, a clear is answered, calls return, cycles end; the loop implements `WateringFsm` |
| `usage_safety` | 2 zones, volumes 1 and 2, totals up to 4, saves and reads that fail, an erased flash | what flash and sensors can lose |
| `echo_safety` | 2 switches (symmetric), 3 slots, every echo behaviour, 3 callbacks still to come | the device does not obey itself, only repetitions are ignored, and the table implements `EchoMemory` |
| `link_safety` | answers of 4, 2 and 3 bytes, two losses or late answers, one echo owed when `setLoad()` is called | snapshots are whole, acknowledgements hold until the next call, polls recover |
| `reports_safety` | clock 5, delay 2, writes refused, frames lost, resets | quiet in the grace period, state at once, everything shown in the end |

The other runs end in a counterexample and are the findings of section 6.

*Bounds and why they are enough.*
`ClockMod` (11, 4, 3; 13 in `fsm_cap`; module `WateringFsm`) exceeds the longest phase plus a tick interval, which
is all the code needs of 2^32 ms (`ConstantsOK`, and a theorem for every value),
and is small enough for the clock to wrap in the middle of every phase and every
delay. The durations are zero (refused), one below the cap and one above it. The
delays are one tick, or zero in the task runs, whose questions are about
commands and not about outputs; they keep the settle delay, because it is what
blocks the drain. `UartTimes` lets an exchange take no time or one tick.
`StaleThreshold` is 2 in `fsm_safety`; it is 0 in `task_safety`, so that data are fresh in the tick of
their poll only, and `request()` finds them fresh and stale within one lap of four.
`PollTimes` limits when a poll may complete to a few readings of the clock: early
in a lap, in its middle and late, so that data become stale before, in and after
the wrap; reading 0 is there because the code takes the time stamp 0 for
"never". In `fsm_safety` watering goes on with data of a lap ago and with data stamped 0
too, the two cases `FreshEnough` excepts. `MaxPulses = PrimePulses = 1` gives a meter that has and has not primed.
Queues of two suffice for a command behind another and for a full queue, two
zones for "this zone" and "another zone": no operator compares more than two.
`MaxLost` bounds how many switches may be out of step at a time: with 1 (task_safety) a
drop or a refusal happens to each zone and to EP43, at any step, while the other switches
are in step and must stay so; the theorems hold for any `MaxLost`. It is 0 in `task_liveness`,
where drops and refusals would change nothing: they decide about `switch`, `clearSwitch` and
`lost`, which no step of the loop or of the machine reads, and a drop leaves the queue full
as it was. It is 0 as well in the runs of section 6, so that their counterexamples need neither.
`MaxTotal` leaves room for
two records in each zone and three of the small ones. `MaxLater = 3` allows three echoes
outstanding, of one switch or of two, while further writes happen.
`Lags = {0, 1}` (fsm_safety) lets data be one reading of the clock newer than the time a
request is judged with; in the task runs the lag comes from the loop itself. The
durations the task runs admit are one value, so that they check which branch
`Clamped` takes for each raw value (`NaN` in `task_safety`; below, within
and above the limits in `task_liveness`, where `MachineSpec` asks that a request has an admitted duration), and
rounding between two limits is covered by the theorem `NeverInvalidCorrect` only. `MachineSpec` is checked with one zone, and proved for
any number. The firmware has eight slots for six
switches, so the table of `echo_safety` has a slot for each of its switches and one to
spare, so that the slot of a switch may lie behind a free one. The theorems hold for any number of
switches and slots (those of section 5 that ask for enough slots say so).
The answers of `link_safety` have three different lengths, as in the firmware
(25, 7 and 8 bytes), in the order block, echo, status; only equality of lengths
decides what can be taken for what. `MaxTrouble = 2` troubles (each a lost request, a lost
byte or a late answer) leave answers behind in every way the code could confuse: two
blocks of equal length, an echo of the call before, half an answer, and two of these at
once. `MaxLate = 1` lets one echo be late. The theorems hold for any `MaxTrouble` and `MaxLate`.
In `reports_safety` the clock (5) wraps while the device is joined, so that reports
are disabled again for the length of the delay (2), and an iteration of the loop
(one to three ticks) is as long as the time in which they are enabled.

*Symmetry* is used in safety runs only, over zones and over switches, none of which is
singled out.

*Deadlock* is checked in every run.

## 4. Fairness

`WateringTask` (`TaskFairness`): weak fairness of the steps of the loop, of `Elapse`
(time passes) and of `Resume` (a blocked call goes on when its delay has ended).
FreeRTOS delays end; an exchange has a time-out
(`config::renogy::RESPONSE_TIMEOUT_MS`); the task has a higher priority than the
poller, and the Zigbee task above it blocks between messages. Nothing is assumed
of water, polls or the radio, and no command ever has to be sent: `CycleEnds`
holds with a dry tank and a dead controller.

`QueueDrains` and `ClearAnswered` hold although the callback may refill the
queue at every step, because a request handled outside Idle or after a failed
check does not block, and the callback cannot starve a task for good. They say
nothing about how long the drain takes. `CycleEnds` makes one exception: the
inner loop of the drain runs until the queue is empty, so that commands posted
without end could keep the task from its `tick()` for good; the property asks
that a cycle ends unless the loop stays in its drain forever.

`RenogyLink`: weak fairness of each task, of the controller's answer and of the
arrival of a byte. `PollRecovers` is about histories in which the load is left
alone from some time on, and troubles are bounded; without the first, setLoad()
could come in between the poller's write and read every time.

`StatusReports`: weak fairness of both tasks and of the stack's periodic reports
(the latter because `ViewSettles` is about a value that stays: one of the reports
sent every 30 or 90 s arrives), strong fairness of `SteeringSucceeds` (a network
that can be joined is joined by one of the repeated attempts). A one-shot frame
may always be lost.

## 5. Properties and proofs

Proved with TLAPS for every value of the constants that satisfies the named
assumptions of the modules (`ConstantsOK`, `TaskConstantsOK`, `EchoConstantsOK`,
`UsageConstantsOK`, `LinkConstantsOK`, `ReportsConstantsOK`), and the assumption in the
third column where there is one:

| Theorem | Says | Also assumes |
|---|---|---|
| `TypeCorrect`, `TaskTypeCorrect`, `EchoTypeCorrect`, `UsageTypeCorrect`, `LinkTypeCorrect`, `ReportsTypeCorrect` | every reachable state is well typed: the queue keeps its depth, a poll has one answer for each block read, the joined flags agree with how far the join is | |
| `PumpSafeCorrect`, `TaskPumpSafe` | the pump runs only with the load on and exactly its zone's valve open | |
| `RestIsDryCorrect`, `TaskRestIsDry` | between calls pump and valves are on exactly while a cycle runs | |
| `RunBoundedCorrect`, `TaskRunBounded` | no phase of the pump outlasts its limit by a tick interval, across the wrap too | |
| `FreshEnoughCorrect` | how old, on a clock that does not wrap, the controller data behind a running pump can be, but for data of a lap ago and data stamped 0 | `AgesFit`: the delays that can add up are shorter than a lap of the clock |
| `FaultLatchedCorrect` | a fault is never replaced, and left only by `clearFault` or reset | |
| `StopIsRecordedCorrect`, `TaskStopIsRecorded` | whatever stops the pump leaves a record of zone and volume | |
| `OneAtATimeCorrect`, `TaskOneAtATime` | no step but a reset switches pump and valves together | |
| `RestTriesLoadOffCorrect`, `TaskRestTriesLoadOff` | no call comes to rest with the supply on unless its last act was to switch it off | |
| `InductiveCorrect` | the invariant below | |
| `InterlockRefined`, `TaskInterlocked` | `WateringFsm`, and `WateringTask` with it, implement `OutputInterlock` | |
| `TaskImplementsMachine` | `WateringTask` implements `WateringFsm` | |
| `TaskInductiveCorrect`, `NeverInvalidCorrect` | the loop keeps its pace, and no command of the user is ever invalid | |
| `FaultNeedsCommandCorrect` | a fault is left only for a command at the head of the queue, or a reset | |
| `LimitsAreRealCorrect` | a time limit is reported only after that time | |
| `TriggerIsPendingCorrect` | the clear-fault switch shows On only while its command waits or is handled, or after a dropped press or a refused reset | |
| `RunningShowsOnCorrect` | a watered zone shows On once every command is handled, but for switches whose last command was dropped or whose last report was refused | |
| `OneSlotPerKeyCorrect`, `RememberedIsLastCorrect`, `EchoInductiveCorrect` | a switch has one slot at most, with the value the device wrote last | |
| `IgnoredIsRepeatCorrect` | a write of the user is ignored only if it repeats the device's own last write of that switch | |
| `EchoIsNoCommandCorrect`, `LateOnlyIfCrossedCorrect` | no callback during an own write is a command; a late one only if its switch was written in between | at least as many slots as switches |
| `MemoryRefined` | `EchoSuppressor` implements `EchoMemory` | at least as many slots as switches |
| `SnapshotIsWholeCorrect` | a published snapshot is made of this poll's three answers, each in its place | |
| `AcknowledgedIsDoneCorrect` | an acknowledged load is switched and stays so until the next call | |
| `ShownIsSavedCorrect`, `OneRecordBehindCorrect`, `DropsOnlyIfLostCorrect` | flash covers what the sensors show, and lags at most by the record being saved; a sensor goes back only for a total that a reset lost by an error or an erase, and once for each | |
| `QuietAfterJoinCorrect` | no bulk frame but the battery's leaves in the grace period | |
| `NotedIsOfferedCorrect` | a state noted as reported was handed to the radio, unless the stack refused the write | |

*`WateringFsm`.* None of the properties is inductive alone:
`PumpSafe` says nothing of the moment before the pump starts. `Sequenced` adds
what is on at each value of `pc`: nothing before the valve opens, the load from
`settle` on, exactly the requested valve at `pullIn`, and the pump only at
`ready`; and it ties `state`, `fault` and `owned` to these places, since `tick`
chooses its branch by `state`, and `pump` must follow. `RunBounded` needs
`Timed`: during a phase the time since its start and what is left of the caller's
tick interval stay together below the limit plus one interval, and the
duration, admitted as positive, is still positive when the pump starts. As long as this
sum is below `ClockMod` the unsigned difference is the true time, which is where
the assumptions on `ClockMod` come in. `Inductive == TypeOK /\ Sequenced /\ Timed`
is an invariant of `fsm_safety` too, and takes the place of `TypeOK` there. `FreshEnough`
has a strengthening of its own in `DataAge_proofs`: at each `pc` from the admitted
request to the running pump the unsigned age of the data together with what is left of the delay
or of the phase is bounded (`Aged`), and while less than a lap has passed since the last poll
the unsigned age is the true one (`Linked`). The action properties and the refinement
are then proved for one step; the steps map to steps of
`OutputInterlock` by their name (`LoadEnabled` to `EnableLoad`, a completed
`request` failure or `Reboot` to `PowerLoss`, `BeginStop` to `StopPump`, and so on).

*`WateringTask`.* The refinement needs `Paced`: outside its delay the task owes the machine
a tick (`sleep = 0`), and it comes to the reports with no call open, so that
time passes in `Machine` only where it may. With it each step of the loop is a
step of `Machine` by name; the time passed to `request()` is the clock less some lag because
both are readings of the same clock (`LagExists`). The theorems of `WateringFsm_proofs` are
then instantiated with the same substitution (`Proven`) and carried over.
An invariant carries over as it is (`TaskRestIsDry`), and so does the refinement
(`TaskInterlocked`: a step that changes no output is a stutter of the interlock). An action property
that names an action of the machine, as `Reboot` or `DisableLoad`, has to be shown again for
the loop's own actions (`TaskSteps`, `UnrelatedKeeps`), from the machine's invariant
`Sequenced`. Two do not carry over: `FaultLatched` is weaker than `FaultNeedsCommand`, which names
the command; and `FreshEnough` assumes that what delays can add up to fits the clock
(`AgesFit`), including the lag of the time given to `request()`, for which the loop has
no bound (`Lags <- Elapsed`: a drain may be blocked by one command after another).
`RunningShowsOn` rests on `OffIsMeant`: whenever a zone reported as watered shows Off, either
a Cancel is still in the queue with no request for that zone behind it, or the machine is
not on its way to water that zone and no request for it is in the queue. It survives
every step because only a request for the zone sets the machine on that way
(`BoundByRequest`) and a Cancel always takes it off (`CancelEnds`). When the loop sleeps with an
empty queue everything is reported (`SleepReported`), and what is left of the cases contradicts
a watered zone that shows Off. All of it is claimed of the zones outside `lost` only: a zone
enters `lost` with a dropped command or a refused report, and leaves it with a write that
made switch, queue and `lastStatus[]` agree again.
`TriggerIsPending` is inductive with the types alone: each way EP43 becomes On
is followed by a command in the queue or an entry in `lost`, and the command leaves
the queue only for `clearing`.

*`EchoSuppressor`.* `EchoInductive` is inductive, and is checked by `echo_safety` as well. With no more switches than slots there is always a slot for a new key, by
counting the slots held (`OneSlotPerKey`). For `LateOnlyIfCrossed` the invariant `Lateness`
says that the slot of every callback still to come, whose switch is not in `crossed`, holds
exactly its value, and that no second callback for that switch is to come. For the refinement,
each operation on the table changes one slot at most, whose key was the written switch or
none (`OneSlotChanges`), so what is remembered of the other switches stays; what is remembered of the
written one follows from `OneSlotPerKey`: the slot that `Remember` writes, `Consume` or `Forget` empties is its only one.

*`WaterUsage`.* `Totals` adds to the two invariants that no sensor shows more than memory
holds (`ShownIsReal`): this is why a save whose error is made good by the next one does no
harm. A zone leaves `lost` when its sensor shows what is in memory, which a report that the
stack accepts does, so that each loss takes a sensor back at most once.

*`RenogyLink`.* An answer does not name its registers, so nothing that is compared in the code
tells answers apart; they are told apart by what can still be on the line. `AnswersInv` says
that from a request on every byte of a block's answer that is on the wire or received belongs to
that request (`OnLine`), in rising order and each once; that before the request there is none; and that
what was taken before is in its place (`InPlace`). Of an answer with a byte missing the
rest is discarded by the flush or fails the checksum, whatever echoes lie in between. `WireEnds`
ties the last byte of each answer on the wire to `Owed`, so that "nothing owed" means
that no byte is left. For `AcknowledgedIsDone` the echoes of two calls with one value cannot be told apart,
and need not be: `EchoInv` says that while an echo with the present value can still be heard
the load has that value and no request for the other is under way, `LastEcho` that the last
echo on the wire shows the state of the load. An acknowledgement then leaves the
load `Settled` until the next call: as asked, and no other switch under way.

*`StatusReports`.* `QuietAfterJoin` rests on `Counted`: from the store of `joinedAt` to the end of
the grace period the unsigned difference the code computes is the true age.

*Only model-checked*: liveness, which is out of the prover's reach: `CycleEnds`, `QueueDrains`,
`ClearAnswered`, `CallsReturn`, `PollRecovers`, `ViewSettles`, `LedSettles` and `JoinsInTheEnd`.
Every other property of a passing run is stated by a theorem.

*Assumed*: `EchoIsNoCommand` is about callbacks that come during the write. A callback
that comes after the next write of the same switch finds the slot overwritten or emptied
and is taken for a command (`LateOnlyIfCrossed` says that it takes such a write); the code
cannot avoid this with one slot for each switch, and whether it can happen is decided by
the library.

## 6. Findings

Each is a run whose one property TLC refutes; the property is what the quoted
document or comment says.

| Run | The code | The text |
|---|---|---|
| `fsm_cap` | a request for exactly the cap ends in a latched `MaxDuration` fault | "exceeded MAX_DISPENSE_MS hard cap" (`fault_code.hpp:11`) |
| `task_record_lost` | two cycles ended in one drain leave one record | "records the flow-meter total for every accepted cycle" (spec, line 934) |
| `task_cross_off` | an Off of another zone in the same drain leaves the switch of the ended zone On | "so the HA switch reflects reality" (spec, line 665) |
| `task_false_stale` | a poll during a blocked drain makes the next request look stale | "absent or older than STALE_THRESHOLD_MS" (`fault_code.hpp:14`) |
| `link_shared` | on a line that loses nothing, setLoad() fails if it comes in between the poller's write and read | "Returns true if the controller echoed a valid acknowledgement" (`renogy_driver.hpp:38`) |

Further things the models show and no run repeats:

- A `setLoad(false)` that fails leaves the load output on in Fault, although
  `watering_fsm.hpp:26` says "all outputs off": nothing repeats the attempt
  (`RestTriesLoadOff` promises the attempt and no more).
- A total that cannot be read at boot starts again at zero, and a sensor then goes
  back, although `README.md:378` calls it monotonic (`Load`, admitted by `DropsOnlyIfLost`).
  So do all of them when `app_main()` erases flash for want of a free page or after a
  change of its format (`main.cpp:690-695`), which `README.md:378` does not mention
  (`Erase`).
- After a reset in a cycle the load output is still on, and start-up does not switch it off:
  it stays on until the next cycle ends (`Reboot`; `RestTriesLoadOff` excepts it).
- A command that finds the queue full is dropped and the attribute stays: a switch then shows
  On with nothing watered, shows Off while its zone is watered, or EP43 stays On. Nothing differs from
  `lastStatus[]`, so no report corrects it before the next command or change of status
  (`lost` in `WateringTask`).
- A write that the stack refuses (`zb_device.cpp:113-121`) is logged, and the
  value noted as reported all the same (`main.cpp:441`, `452`, `484`, `552`, `583`, `596`), so that
  the write is never repeated: a watered zone may stay Off, EP43 stay On, a sensor keep
  its old value until the next change, and the periodic reports of the stack repeat the old
  one (`lost` in `WateringTask`, `refused` in `StatusReports`). The spec's "so the HA switch reflects
  reality" (line 665) and "critical fault/state updates are allowed immediately after join"
  do not hold then.
- Data left for a lap of the clock, 49.7 days without a successful poll, count as fresh again
  for `STALE_THRESHOLD_MS`, and data of a poll at the very reading 0 are never stale,
  because 0 stands for "never" (`watering_fsm.cpp:68`, `152`), although `fault_code.hpp:14` says
  "absent or older than STALE_THRESHOLD_MS". Both happen in `fsm_safety`; `FreshEnough` excepts them.
- The pump may run on data that are older than `STALE_THRESHOLD_MS` while it primes,
  because neither the delays of `request()` nor Priming looks again, which is what the
  bound of `FreshEnough` adds to the threshold.
- The frames of the battery percentage do not wait for the end of the grace period, since
  EP20 is the endpoint of the active zone as well, although the spec (line 564), `README.md:334`
  and `config.hpp:148` say that bulk telemetry does (`QuietAfterJoin` names the exception).
- A frame of a zone switch that changes in the grace period is suppressed, although the spec
  (lines 708-710) says that updates are sent on every zone state change.
- If the library never calls back for own writes, the slot of the device's last Off is still
  taken when the user switches On; an Off that follows before the device has reported On
  matches it and is ignored, and the cycle starts all the same. `IgnoredIsRepeat` compares with
  the device's last write, which is as much as the table can promise.
- The fault `InvalidRequest` cannot be reached by any command of the coordinator
  (`NeverInvalid`).

## 7. Not modelled

- The blink patterns of the LED (`StatusLed`), among them that a colour painted on some ticks of
  a pattern only may stay until its next turn after the mode has changed.
- Frames of a zone switch that are suppressed in the minute after a join: the attribute
  stays right (`RunningShowsOn`), and no periodic report follows it; what the coordinator then shows
  depends on its own reads.
- Peripheral set-up (`hal/`, pure I/O), the ADC calibration (analogue arithmetic), the tables of
  endpoints (static data), and the Zigbee2MQTT converter, a stateless translation
  that runs in the coordinator.
- Pump and solenoid duty cycles are abstracted to on and off; readings of the battery and the
  tank to which side of their threshold they are on.

## 8. Plan

1. `IgnoredIsRepeat` and `LateOnlyIfCrossed` from `EchoMemory` alone, so that what a command handler
   relies on needs no table.
2. The switches in StatusReports, as a third kind of sensor with no periodic report.
3. Composition of WateringTask with EchoSuppressor: the loop's own writes as
   callbacks, for the switch properties.
4. A bound for the lag of the drain when the queue is bounded and commands are not posted
   without end, under which `FreshEnough` carries over to the loop.
