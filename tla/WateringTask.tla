----------------------------- MODULE WateringTask ------------------------------
(***************************************************************************)
(* The watering task of src/main/main.cpp around the state machine, and    *)
(* the Zigbee callback that feeds it: commands cross from the Zigbee task  *)
(* to the watering task through a bounded queue, and the task answers by   *)
(* writing the On/Off attribute of each zone.                              *)
(*                                                                         *)
(* One iteration of the loop sleeps, takes the time, drains the queue,     *)
(* ticks the machine, takes the delivery record and writes the zone        *)
(* attributes.  Commands are handled with the time taken before the drain, *)
(* the tick with a fresh one.  Between any two steps the Zigbee task may   *)
(* run, because its priority is higher; the Renogy poller runs whenever    *)
(* the watering task sleeps or blocks.                                     *)
(*                                                                         *)
(* The task notes a status as reported whether or not the stack takes the  *)
(* write, and each report takes the Zigbee lock for itself.                *)
(*                                                                         *)
(* A write of the task itself is not mistaken for a command here: that is  *)
(* the job of AttrEchoSuppressor, which module EchoSuppressor models.      *)
(***************************************************************************)
EXTENDS WateringFsm, Sequences

CONSTANTS
  QueueDepth,        \* xQueueCreate() in app_main
  MaxLost,           \* bound: how many switches may be out of step at a time
  MinDuration,       \* config::pump::MIN_WATERING_DURATION_SEC
  MaxDuration,       \* config::pump::MAX_WATERING_DURATION_SEC
  DefaultDuration,   \* config::pump::DEFAULT_WATERING_DURATION_SEC
  RawDurations,      \* the durations the coordinator writes, in half units
  NaN                \* the float that is not a number

Allowed == MinDuration .. MaxDuration

ASSUME TaskConstantsOK ==
  /\ QueueDepth \in Nat \ {0} /\ MaxLost \in Nat
  /\ MinDuration \in Nat \ {0} /\ MaxDuration \in Nat
  /\ DefaultDuration \in Allowed /\ Allowed \subseteq Durations
  /\ RawDurations \subseteq Nat /\ NaN \notin Nat

VARIABLES
  queue,             \* s_cmdQueue
  loop,              \* where the task is in its loop
  loopNow,           \* nowMs, local to one iteration; 0 outside
  cmd,               \* the request being handled
  toForce,           \* the zones a clear-fault command has yet to report Idle
  lastStatus,        \* lastStatus[]
  switch,            \* the On/Off attribute of each zone endpoint
  clearSwitch,       \* the On/Off attribute of the clear-fault endpoint
  duration,          \* zoneDurationSec_[]
  lost               \* history: the switches whose last write came to nothing, as
                     \* its command was dropped or the stack refused the report

taskOnly == <<loop, loopNow, cmd, toForce, lastStatus>>
zigbee   == <<switch, clearSwitch, duration, lost>>
taskVars == <<vars, queue, taskOnly, zigbee>>

Running == {"Priming", "Running"}

\* Where the loop is while it drains the queue.
Draining == {"drain", "requested", "clearing", "forcing"}

\* The clear-fault endpoint among those with a switch: it is no zone's.
Trigger == InvalidZone

\* The zone of a Cancel or ClearFault command only reaches the log.
Plain(type) == [type |-> type, zone |-> InvalidZone, duration |-> 0]

Command == [type : {"Request"}, zone : Zone, duration : Allowed]
             \cup {Plain("Cancel"), Plain("ClearFault")}

LoopTypeOK ==
  /\ queue \in Seq(Command) /\ Len(queue) <= QueueDepth
  /\ loop \in {"sleep", "account", "report"} \cup Draining
  /\ loopNow \in Elapsed
  /\ cmd \in Command /\ (loop = "requested" => cmd.type = "Request")
  /\ toForce \subseteq Zone
  /\ duration \in [Zone -> Allowed]

SwitchTypeOK ==
  /\ lastStatus \in [Zone -> {"Idle", "Priming", "Running", "Fault"}]
  /\ switch \in [Zone -> BOOLEAN] /\ clearSwitch \in BOOLEAN
  /\ lost \subseteq Zone \cup {Trigger}

TaskTypeOK == TypeOK /\ LoopTypeOK /\ SwitchTypeOK

--------------------------------------------------------------------------------
\* What becomes of the last write to the switch of ep.
Regained(ep) == lost' = lost \ {ep}
Lost(ep) == lost' = lost \cup {ep} /\ Cardinality(lost') <= MaxLost

\* The Zigbee task: an attribute was written by the coordinator.  The stack has
\* stored it already when the callback posts the command without waiting; on a
\* full queue the command is dropped and the attribute stays.
Post(ep, c) ==
  \/ Len(queue) < QueueDepth /\ queue' = Append(queue, c) /\ Regained(ep)
  \/ Len(queue) = QueueDepth /\ UNCHANGED queue /\ Lost(ep)

SwitchOn(z) ==
  /\ switch' = [switch EXCEPT ![z] = TRUE]
  /\ Post(z, [type |-> "Request", zone |-> z, duration |-> duration[z]])
  /\ UNCHANGED <<vars, taskOnly, clearSwitch, duration>>

SwitchOff(z) ==
  /\ switch' = [switch EXCEPT ![z] = FALSE]
  /\ Post(z, Plain("Cancel"))
  /\ UNCHANGED <<vars, taskOnly, clearSwitch, duration>>

\* Writing Off to the clear-fault endpoint is accepted and posts nothing.
ClearSwitchWritten ==
  /\ \/ clearSwitch' = TRUE
        /\ Post(Trigger, Plain("ClearFault"))
     \/ clearSwitch' = FALSE /\ Regained(Trigger) /\ UNCHANGED queue
  /\ UNCHANGED <<vars, taskOnly, switch, duration>>

\* Defect: the lower bound is tested the other way round.  Every comparison with
\* NaN is false, so that it passes both, and its conversion may yield zero.
ClampedBelow(raw) ==
  IF raw = NaN THEN 0
  ELSE IF raw < 2 * MinDuration THEN MinDuration
  ELSE IF raw > 2 * MaxDuration THEN MaxDuration
  ELSE (raw + 1) \div 2

\* clampDurationSec(): what is not at least the minimum becomes the minimum, what
\* exceeds the maximum the maximum, and the rest is rounded.
Clamped(raw) ==
  IF ~(raw # NaN /\ raw >= 2 * MinDuration) THEN MinDuration
  ELSE IF raw # NaN /\ raw > 2 * MaxDuration THEN MaxDuration
  ELSE (raw + 1) \div 2

DurationWritten(z) ==
  /\ \E raw \in RawDurations \cup {NaN} : duration' = [duration EXCEPT ![z] = Clamped(raw)]
  /\ UNCHANGED <<vars, queue, taskOnly, switch, clearSwitch, lost>>

ZigbeeTask ==
  \/ \E z \in Zone : SwitchOn(z) \/ SwitchOff(z) \/ DurationWritten(z)
  \/ ClearSwitchWritten

--------------------------------------------------------------------------------
\* reportZoneStatus(z, status) and the update of lastStatus[] that goes with it.  A
\* write the stack refuses leaves the switch as it was, and nobody repeats it.
Report(z, status) ==
  /\ lastStatus' = [lastStatus EXCEPT ![z] = status]
  /\ \/ switch' = [switch EXCEPT ![z] = status \in Running] /\ Regained(z)
     \/ UNCHANGED switch /\ Lost(z)

NoReport == UNCHANGED <<switch, lastStatus, lost>>

\* Defect: anything may wake the loop before its delay is over.
WakeEarly ==
  /\ loop = "sleep" /\ pc = "ready"
  /\ loopNow' = now
  /\ loop' = "drain"
  /\ UNCHANGED <<vars, queue, cmd, toForce, lastStatus, zigbee>>

Wake ==
  /\ loop = "sleep" /\ pc = "ready" /\ sleep = 0
  /\ loopNow' = now
  /\ loop' = "drain"
  /\ UNCHANGED <<vars, queue, cmd, toForce, lastStatus, zigbee>>

\* xQueueReceive() of the drain loop.
Receive(type) ==
  /\ loop = "drain" /\ pc = "ready"
  /\ queue # <<>> /\ Head(queue).type = type
  /\ queue' = Tail(queue)

\* Defect: a request in the Fault state is left in the queue.
DrainIgnoredUnlessFault ==
  /\ Receive("Request") /\ state \in Active
  /\ cmd' = Head(queue) /\ loop' = "requested"
  /\ UNCHANGED <<vars, loopNow, toForce, lastStatus, zigbee>>

\* A request while the machine is not Idle returns false at once.
DrainIgnoredRequest ==
  /\ Receive("Request") /\ state # "Idle"
  /\ cmd' = Head(queue) /\ loop' = "requested"
  /\ UNCHANGED <<vars, loopNow, toForce, lastStatus, zigbee>>

DrainRequest ==
  /\ Receive("Request")
  /\ LET req == [zone |-> Head(queue).zone, duration |-> Head(queue).duration]
     IN RequestRejected(req, loopNow) \/ RequestAdmitted(req, loopNow)
  /\ cmd' = Head(queue) /\ loop' = "requested"
  /\ UNCHANGED <<plant, now, sleep, loopNow, toForce, lastStatus, zigbee>>

\* request() has returned. The zone's switch is forced off if there is a fault or the
\* request was ignored, unless it was for the very zone that is running.
RequestReturns ==
  /\ loop = "requested" /\ pc = "ready"
  /\ IF fault # NoFault \/ ZoneStatus(cmd.zone) = "Idle"
     THEN Report(cmd.zone, "Idle")
     ELSE NoReport
  /\ loop' = "drain" /\ cmd' = Plain("Cancel")
  /\ UNCHANGED <<vars, queue, loopNow, toForce, clearSwitch, duration>>

\* cancel() then clearFault(), whatever zone the Off was for.  After cancel() of
\* a running cycle the machine is Idle and clearFault() finds nothing to do.
DrainCancel ==
  /\ Receive("Cancel")
  /\ \/ Cancel
     \/ ClearFault
     \/ state = "Idle" /\ UNCHANGED <<fsm, call, outputs>>
  /\ UNCHANGED <<plant, now, sleep, taskOnly, zigbee>>

\* Defect: only a fault of an accepted cycle is cleared.
DrainClearOwned ==
  /\ Receive("ClearFault")
  /\ IF state = "Fault" /\ owned THEN ClearFault ELSE UNCHANGED <<fsm, call, outputs>>
  /\ loop' = "clearing"
  /\ UNCHANGED <<plant, now, sleep, loopNow, cmd, toForce, lastStatus, zigbee>>

\* Defect: a command that finds no fault is done with at once.
DrainClearNothing ==
  /\ Receive("ClearFault")
  /\ IF state = "Fault"
     THEN ClearFault /\ loop' = "clearing"
     ELSE UNCHANGED <<fsm, call, outputs, loop>>
  /\ UNCHANGED <<plant, now, sleep, loopNow, cmd, toForce, lastStatus, zigbee>>

\* clearFault() of a clear-fault command; the reports that follow take the Zigbee
\* lock one by one, so that callbacks run between them.
DrainClearFault ==
  /\ Receive("ClearFault")
  /\ IF state = "Fault" THEN ClearFault ELSE UNCHANGED <<fsm, call, outputs>>
  /\ loop' = "clearing"
  /\ UNCHANGED <<plant, now, sleep, loopNow, cmd, toForce, lastStatus, zigbee>>

\* resetClearFaultTrigger()
ResetTrigger ==
  /\ loop = "clearing"
  /\ \/ clearSwitch' = FALSE /\ Regained(Trigger)
     \/ UNCHANGED clearSwitch /\ Lost(Trigger)
  /\ loop' = "forcing" /\ toForce' = Zone
  /\ UNCHANGED <<vars, queue, loopNow, cmd, lastStatus, switch, duration>>

\* Defect: the forced reports are not noted in lastStatus[].
ForceOffUnnoted ==
  /\ loop = "forcing"
  /\ \E z \in toForce :
       /\ \/ switch' = [switch EXCEPT ![z] = FALSE] /\ Regained(z)
          \/ UNCHANGED switch /\ Lost(z)
       /\ toForce' = toForce \ {z}
  /\ UNCHANGED <<vars, queue, loop, loopNow, cmd, lastStatus, clearSwitch, duration>>

\* Every zone is reported Idle, also one that is being watered.
ForceOff ==
  /\ loop = "forcing"
  /\ \E z \in toForce : Report(z, "Idle") /\ toForce' = toForce \ {z}
  /\ UNCHANGED <<vars, queue, loop, loopNow, cmd, clearSwitch, duration>>

AllForced ==
  /\ loop = "forcing" /\ toForce = {}
  /\ loop' = "drain"
  /\ UNCHANGED <<vars, queue, loopNow, cmd, toForce, lastStatus, zigbee>>

\* Defect: the machine is ticked with the time taken before the drain.
LoopTickOldTime ==
  /\ loop = "drain" /\ queue = <<>>
  /\ TickFsm(loopNow)
  /\ loop' = "account"
  /\ UNCHANGED <<plant, now, sleep, queue, loopNow, cmd, toForce, lastStatus, zigbee>>

\* The queue is empty: the time is taken again and the machine is ticked.
LoopTick ==
  /\ loop = "drain" /\ queue = <<>>
  /\ loopNow' = now
  /\ TickFsm(now)
  /\ loop' = "account"
  /\ UNCHANGED <<plant, now, sleep, queue, cmd, toForce, lastStatus, zigbee>>

\* while (takeDeliveryRecord()): the record goes to the usage accounting.
Account ==
  /\ loop = "account" /\ pc = "ready"
  /\ IF pending # NoDelivery THEN TakeDeliveryRecord ELSE UNCHANGED <<fsm, call, outputs>>
  /\ loop' = "report"
  /\ UNCHANGED <<plant, now, sleep, queue, loopNow, cmd, toForce, lastStatus, zigbee>>

ReportZone ==
  /\ loop = "report"
  /\ \E z \in Zone : lastStatus[z] # ZoneStatus(z) /\ Report(z, ZoneStatus(z))
  /\ UNCHANGED <<vars, queue, loop, loopNow, cmd, toForce, clearSwitch, duration>>

\* Defect: the loop sleeps longer than the machine may go without a tick.
GoToSleepTwice ==
  /\ loop = "report"
  /\ \A z \in Zone : lastStatus[z] = ZoneStatus(z)
  /\ loop' = "sleep" /\ sleep' = 2 * TickGap
  /\ loopNow' = 0
  /\ UNCHANGED <<fsm, call, outputs, plant, now, queue, cmd, toForce, lastStatus, zigbee>>

GoToSleep ==
  /\ loop = "report"
  /\ \A z \in Zone : lastStatus[z] = ZoneStatus(z)
  /\ loop' = "sleep" /\ sleep' = TickGap
  /\ loopNow' = 0
  /\ UNCHANGED <<fsm, call, outputs, plant, now, queue, cmd, toForce, lastStatus, zigbee>>

LoopStep ==
  \/ Wake
  \/ DrainIgnoredRequest \/ DrainRequest \/ RequestReturns
  \/ DrainCancel
  \/ DrainClearFault \/ ResetTrigger \/ ForceOff \/ AllForced
  \/ LoopTick \/ Account \/ ReportZone \/ GoToSleep

--------------------------------------------------------------------------------
Quiet == UNCHANGED <<queue, taskOnly, zigbee>>

\* A reset loses the queue, the durations and the attributes of the endpoints.
TaskReboot ==
  /\ Reboot
  /\ queue' = <<>> /\ loop' = "sleep" /\ loopNow' = 0
  /\ cmd' = Plain("Cancel") /\ toForce' = {}
  /\ lastStatus' = [z \in Zone |-> "Idle"]
  /\ switch' = [z \in Zone |-> FALSE] /\ clearSwitch' = FALSE /\ lost' = {}
  /\ duration' = [z \in Zone |-> DefaultDuration]

TaskInit ==
  /\ Init
  /\ queue = <<>> /\ loop = "sleep" /\ loopNow = 0
  /\ cmd = Plain("Cancel") /\ toForce = {}
  /\ lastStatus = [z \in Zone |-> "Idle"]
  /\ switch = [z \in Zone |-> FALSE] /\ clearSwitch = FALSE /\ lost = {}
  /\ duration = [z \in Zone |-> DefaultDuration]

TaskNext ==
  \/ ZigbeeTask
  \/ LoopStep
  \/ Resume /\ Quiet
  \/ Elapse /\ Quiet
  \/ (PollSucceeds \/ TankChanges \/ FlowPulse) /\ Quiet
  \/ TaskReboot

\* The watering task is never starved for good: the Zigbee task above it blocks
\* between messages, and every delay and serial exchange is bounded.
TaskFairness ==
  /\ WF_taskVars(LoopStep)
  /\ WF_taskVars(Resume /\ Quiet)
  /\ WF_taskVars(Elapse /\ Quiet)

TaskSpec == TaskInit /\ [][TaskNext]_taskVars
FairTaskSpec == TaskSpec /\ TaskFairness

--------------------------------------------------------------------------------
\* Properties.

AtRest == loop = "sleep" /\ queue = <<>>

\* While a zone is watered its switch shows On, once every command posted so far
\* is handled, unless the last write of that very switch came to nothing: no report
\* of the loop, not the forced ones of a clear-fault command either, and no command
\* lost for another switch leaves a running zone looking off.
RunningShowsOn ==
  AtRest => \A z \in Zone \ lost : ZoneStatus(z) \in Running => switch[z]

\* The spec's "so the HA switch reflects reality": a switch that shows On belongs
\* to a zone that is being watered.
OnMeansRunning ==
  AtRest => \A z \in Zone : switch[z] => ZoneStatus(z) \in Running

\* EP43 is a trigger: it shows On only while a clear-fault command waits or is being
\* handled, so that the next press is a change again; it stays On only after a press
\* the full queue dropped or a reset the stack refused.
TriggerIsPending ==
  clearSwitch => \/ \E i \in DOMAIN queue : queue[i].type = "ClearFault"
                 \/ loop = "clearing"
                 \/ Trigger \in lost

\* Whatever the coordinator writes as a duration, and whenever, no command of the
\* user is refused as an invalid request: zone and duration are made valid before
\* they reach the queue.
NeverInvalid == after # "InvalidRequest" /\ fault # "InvalidRequest"

\* A fault is left only for a command of the user at the head of the queue.
FaultNeedsCommand ==
  [][fault # NoFault /\ fault' # fault
       => \/ queue # <<>> /\ Head(queue).type # "Request" /\ queue' = Tail(queue)
          \/ TaskReboot]_taskVars

\* "FSM records the flow-meter total for every accepted cycle": a record that was
\* not taken yet is not replaced by the record of the next cycle.
RecordNotLost ==
  [][pending.ml > 0 /\ pending' # pending => pending' = NoDelivery]_taskVars

\* A request is refused for stale data only when the data are absent or older
\* than the threshold at that moment.
StaleMeansStale ==
  [][after # "StaleData" /\ after' = "StaleData" => ~data.valid \/ Stale(now)]_taskVars

\* The comment main.cpp:501-502: request() can block, so tick() gets a fresh time.
\* A limit is reported only for a pump that ran that long.
LimitsAreReal ==
  [][after' # after =>
       /\ after' = "PrimeTimeout" => Sub(now, phaseStart) >= PrimeTimeout
       /\ after' = "MaxDuration" => Sub(now, phaseStart) >= MaxDispense]_taskVars

\* The inductive invariant behind NeverInvalid and MachineSpec: outside its delay the
\* task owes the machine a tick, and it never leaves the reports with a call open.
Paced ==
  /\ loop # "sleep" => sleep = 0
  /\ loop \in {"report", "sleep"} => pc = "ready"
TaskInductive == TaskTypeOK /\ Paced /\ NeverInvalid

\* The loop is a caller as WateringFsm assumes one: it calls one operation at a
\* time, with times it took before, and ticks the machine at least every TickGap.
\* The machine counts that interval from the tick, the loop from its delay.
UntilTick == IF loop \in {"account", "report"} THEN TickGap ELSE sleep
Machine == INSTANCE WateringFsm WITH sleep <- UntilTick, Lags <- Elapsed
MachineSpec == Machine!Spec

\* However many commands the Zigbee task posts, and whatever blocks the loop, a
\* full queue has room again.
QueueDrains == Len(queue) = QueueDepth ~> Len(queue) < QueueDepth

\* A clear-fault command that reached the queue ends a latched fault, whatever
\* raised it and whatever is queued before it.
ClearAnswered == (\E i \in DOMAIN queue : queue[i].type = "ClearFault") ~> fault = NoFault

\* A cycle once started ends, whether or not water flows or the controller answers,
\* unless commands posted without end keep the loop in its drain.
CycleEnds == <>[](loop \in Draining) \/ (state \in Active ~> state \notin Active)

\* Every blocked call returns, whatever the controller does.
CallsReturn == pc # "ready" ~> pc = "ready"
================================================================================
