----------------------------- MODULE StatusReports -----------------------------
(***************************************************************************)
(* How the device joins the Zigbee network and what it shows then: the     *)
(* signal handler of src/main/main.cpp on the Zigbee task, the report part *)
(* of the watering task's loop, and the report functions of                *)
(* src/main/zb/zb_device.cpp that both tasks and the Renogy poller use.    *)
(*                                                                         *)
(* Two sensors stand for all.  "state" is a critical one (fault code,      *)
(* waterer state, active zone): its frames are sent as soon as the device  *)
(* has joined.  "total" is a bulk one (water totals, level): its frames    *)
(* wait for a delay after the join, in which the coordinator asks the      *)
(* device for its endpoints.  "solar" and "battery" are the poller's, of   *)
(* which only the frames are followed.                                     *)
(*                                                                         *)
(* The loop notes a value as reported before it takes the Zigbee lock,     *)
(* and the frame may be suppressed or lost; but the stack also reports     *)
(* every registered attribute from time to time by itself.  A value the    *)
(* stack refuses to store is reported by neither.                          *)
(***************************************************************************)
EXTENDS Integers

CONSTANTS
  ClockMod,          \* the tick count in milliseconds wraps (2^32)
  ReportDelay        \* config::zigbee::REPORT_DELAY_AFTER_JOIN_MS

\* One iteration of the loop, at most three ticks long, cannot leap over the time in
\* which reports are enabled.
ASSUME ReportsConstantsOK ==
  ReportDelay \in Nat \ {0} /\ ClockMod \in Nat /\ ReportDelay + 3 <= ClockMod

Sensor == {"state", "total"}
Bulk == {"total", "solar", "battery"}
Situation == {"idle", "watering", "fault"}
Totals == {"low", "high"}
Values == [state |-> Situation, total |-> Totals]
Mode == {"Connecting", "Joined", "Watering", "Fault"}
Never == "never"     \* 0xFF or UINT64_MAX: nothing was reported yet

VARIABLES
  zb,                \* where joining the network is
  joined, joinedAt,  \* s_joined, s_joinedAtMs
  mainJoined,        \* s_zigbeeJoined
  now,               \* the tick count in milliseconds
  loop,              \* where the watering task is
  actual,            \* fault and zone statuses, and the total in memory
  last,              \* lastReported...
  attr,              \* the attributes of the endpoints
  refused,           \* history: the sensors whose latest write the stack refused
  led, ledNext,      \* the LED mode, and the mode about to be stored
  view,              \* what the coordinator received last
  offered,           \* history: what the last one-shot frame of a sensor held
  age,               \* history: the time since the join, up to ReportDelay
  early              \* history: the bulk sensors sent in the present grace period

flags == <<zb, joined, joinedAt, mainJoined>>
task == <<loop, actual, last, ledNext>>
air == <<view, offered, early>>
endpoints == <<attr, refused>>
vars == <<flags, now, task, endpoints, led, air, age>>

ReportsTypeOK ==
  /\ zb \in {"boot", "failed", "steering", "stuck", "alarm", "stamp", "flag", "announce", "up"}
  /\ joined \in BOOLEAN /\ mainJoined \in BOOLEAN
  /\ joined <=> zb \in {"announce", "up"}
  /\ mainJoined <=> zb = "up"
  /\ joinedAt \in 0 .. ClockMod - 1 /\ now \in 0 .. ClockMod - 1
  /\ loop \in {"sleep", "tick", "state", "sendState", "total", "sendTotal", "led", "setLed"}
  /\ actual \in [state : Situation, total : Totals]
  /\ last \in [state : Situation \cup {Never}, total : Totals \cup {Never}]
  /\ attr \in [state : Situation, total : Totals]
  /\ view \in [state : Situation, total : Totals]
  /\ led \in Mode /\ ledNext \in Mode
  /\ offered \in Situation \cup Totals \cup {Never}
  /\ age \in 0 .. ReportDelay /\ early \subseteq Bulk /\ refused \subseteq Sensor

--------------------------------------------------------------------------------
\* The age of the join is an unsigned difference.  Joining happens once after each
\* reset, and joinedAt is stored before joined, so that one reading suffices.
SinceJoin == IF now >= joinedAt THEN now - joinedAt ELSE now - joinedAt + ClockMod

ReportsEnabled == joined /\ SinceJoin >= ReportDelay
CriticalReportsEnabled == joined

\* The callbacks of the Zigbee task hold the Zigbee lock.
LockFree == zb \notin {"stamp", "flag", "announce"}

\* Defect: the delay after a join holds back every sensor.
AllowedAfterDelay(s) == ReportsEnabled

\* Defect: the delay after a join is not looked at.
AllowedOnceJoined(s) == joined

\* allowsImmediateReporting() tells endpoints and not attributes apart: the battery's
\* is the active zone's (EP20).
Immediate == {"state", "battery"}

\* sendAttrReport() gets as far as the stack.
Allowed(s) == joined /\ (s \in Immediate \/ ReportsEnabled)

Sent(s) == early' = IF s \in Bulk /\ age < ReportDelay THEN early \cup {s} ELSE early

\* The attribute of s is set and a one-shot frame is sent, which may be lost; or the
\* stack refuses the value, and the old one stays with no frame sent.
ReportSensor(s, v) ==
  /\ LockFree
  /\ \/ /\ attr' = [attr EXCEPT ![s] = v] /\ refused' = refused \ {s}
        /\ IF Allowed(s)
           THEN /\ \/ view' = [view EXCEPT ![s] = v]
                   \/ UNCHANGED view
                /\ offered' = IF s = "state" THEN v ELSE offered
                /\ Sent(s)
           ELSE UNCHANGED air
     \/ refused' = refused \cup {s} /\ UNCHANGED <<attr, air>>

Clock ==
  /\ now' = IF now = ClockMod - 1 THEN 0 ELSE now + 1
  /\ age' = IF zb \in {"flag", "announce", "up"} /\ age < ReportDelay THEN age + 1 ELSE age
  /\ early' = IF age' = ReportDelay THEN {} ELSE early

--------------------------------------------------------------------------------
\* esp_zb_app_signal_handler() on the Zigbee task.

\* startNetworkSteering(): an error of the call is only logged.
Steer == zb' = "steering" \/ zb' = "stuck"

NotJoined == mainJoined' = FALSE /\ led' = "Connecting"

StartSignal ==
  /\ zb = "boot"
  /\ \/ zb' = "failed" /\ UNCHANGED <<mainJoined, led>>
     \/ NotJoined /\ Steer
     \/ zb' = "stamp" /\ UNCHANGED <<mainJoined, led>>
  /\ UNCHANGED <<joined, joinedAt, now, task, endpoints, air, age>>

SteeringSucceeds ==
  /\ zb = "steering"
  /\ zb' = "stamp"
  /\ UNCHANGED <<joined, joinedAt, mainJoined, now, task, endpoints, led, air, age>>

\* Defect: steering is not tried again.
SteeringFailsForGood ==
  /\ zb = "steering"
  /\ NotJoined /\ zb' = "idle"
  /\ UNCHANGED <<joined, joinedAt, now, task, endpoints, air, age>>

\* A second later it is tried again.
SteeringFails ==
  /\ zb = "steering"
  /\ NotJoined /\ zb' = "alarm"
  /\ UNCHANGED <<joined, joinedAt, now, task, endpoints, air, age>>

AlarmFires ==
  /\ zb = "alarm"
  /\ Steer
  /\ UNCHANGED <<joined, joinedAt, mainJoined, now, task, endpoints, led, air, age>>

\* ZbDevice::configureReporting() in two stores, then the flag and the LED of main.cpp.
Stamp ==
  /\ zb = "stamp"
  /\ joinedAt' = now /\ zb' = "flag" /\ age' = 0
  /\ UNCHANGED <<joined, mainJoined, now, task, endpoints, led, air>>

Flag ==
  /\ zb = "flag"
  /\ joined' = TRUE /\ zb' = "announce"
  /\ UNCHANGED <<joinedAt, mainJoined, now, task, endpoints, led, air, age>>

\* Defect: only the LED is told.
AnnounceLightOnly ==
  /\ zb = "announce"
  /\ led' = "Joined" /\ zb' = "up"
  /\ UNCHANGED <<joined, joinedAt, mainJoined, now, task, endpoints, air, age>>

Announce ==
  /\ zb = "announce"
  /\ mainJoined' = TRUE /\ led' = "Joined" /\ zb' = "up"
  /\ UNCHANGED <<joined, joinedAt, now, task, endpoints, air, age>>

Handler == StartSignal \/ AlarmFires \/ Stamp \/ Flag \/ Announce

--------------------------------------------------------------------------------
\* The watering task.

Wake ==
  /\ loop = "sleep"
  /\ Clock /\ loop' = "tick"
  /\ UNCHANGED <<flags, actual, last, ledNext, endpoints, led, view, offered>>

\* Commands, tick() and the delivery records.  A total that changed is due anew.
Tick ==
  /\ loop = "tick" /\ loop' = "state"
  /\ \E s \in Situation, t \in Totals : actual' = [state |-> s, total |-> t]
  /\ last' = IF actual'.total # actual.total THEN [last EXCEPT !.total = Never] ELSE last
  /\ UNCHANGED <<flags, now, ledNext, endpoints, led, air, age>>

\* Defect: a change is noted although the network is not joined yet.
NoteUnjoined(s, enabled, send, skip) ==
  IF actual[s] # last[s]
  THEN /\ last' = [last EXCEPT ![s] = actual[s]]
       /\ loop' = IF enabled THEN send ELSE skip
       /\ Clock \/ UNCHANGED <<now, age, early>>
  ELSE loop' = skip /\ UNCHANGED <<last, now, age, early>>

\* A change is noted if reports are enabled, and sent in the next step; between
\* them time may pass, in which the task waits for the Zigbee lock.
Note(s, enabled, send, skip) ==
  IF enabled /\ actual[s] # last[s]
  THEN /\ last' = [last EXCEPT ![s] = actual[s]] /\ loop' = send
       /\ Clock \/ UNCHANGED <<now, age, early>>
  ELSE loop' = skip /\ UNCHANGED <<last, now, age, early>>

NoteState ==
  /\ loop = "state"
  /\ Note("state", CriticalReportsEnabled, "sendState", "total")
  /\ UNCHANGED <<flags, actual, ledNext, endpoints, led, view, offered>>

NoteTotal ==
  /\ loop = "total"
  /\ Note("total", ReportsEnabled, "sendTotal", "led")
  /\ UNCHANGED <<flags, actual, ledNext, endpoints, led, view, offered>>

SendState ==
  /\ loop = "sendState"
  /\ ReportSensor("state", last.state)
  /\ loop' = "total"
  /\ UNCHANGED <<flags, now, actual, last, ledNext, led, age>>

SendTotal ==
  /\ loop = "sendTotal"
  /\ ReportSensor("total", last.total)
  /\ loop' = "led"
  /\ UNCHANGED <<flags, now, actual, last, ledNext, led, age>>

\* Fault before watering before the state of the link; the mode is stored in the
\* next step, and the handler may have stored another one in between.
ChooseLed ==
  /\ loop = "led" /\ loop' = "setLed"
  /\ ledNext' = CASE actual.state = "fault"    -> "Fault"
                  [] actual.state = "watering" -> "Watering"
                  [] OTHER -> IF mainJoined THEN "Joined" ELSE "Connecting"
  /\ UNCHANGED <<flags, now, actual, last, endpoints, led, air, age>>

SetLed ==
  /\ loop = "setLed" /\ loop' = "sleep"
  /\ led' = ledNext
  /\ UNCHANGED <<flags, now, actual, last, ledNext, endpoints, air, age>>

LoopStep ==
  Wake \/ Tick \/ NoteState \/ SendState \/ NoteTotal \/ SendTotal \/ ChooseLed \/ SetLed

--------------------------------------------------------------------------------
\* The Renogy poller reports without asking whether reports are enabled.
PollerReports ==
  /\ LockFree
  /\ \E s \in {"solar", "battery"} : Allowed(s) /\ Sent(s)
  /\ UNCHANGED <<flags, now, task, endpoints, led, view, offered, age>>

\* The stack's own report of a registered attribute arrives.
StackReports(s) ==
  /\ zb \in {"announce", "up"}
  /\ view' = [view EXCEPT ![s] = attr[s]]
  /\ UNCHANGED <<flags, now, task, endpoints, led, offered, early, age>>

Init ==
  /\ zb = "boot" /\ joined = FALSE /\ joinedAt = 0 /\ mainJoined = FALSE
  /\ now = 0 /\ loop = "sleep"
  /\ actual = [state |-> "idle", total |-> "low"]
  /\ last = [state |-> Never, total |-> Never]
  /\ attr = [state |-> "idle", total |-> "low"] /\ view = attr /\ refused = {}
  /\ led = "Connecting" /\ ledNext = "Connecting"
  /\ offered = Never /\ age = 0 /\ early = {}

Reset ==
  /\ zb' = "boot" /\ joined' = FALSE /\ joinedAt' = 0 /\ mainJoined' = FALSE
  /\ now' = 0 /\ loop' = "sleep"
  /\ actual' = [state |-> "idle", total |-> "low"]
  /\ last' = [state |-> Never, total |-> Never]
  /\ attr' = [state |-> "idle", total |-> "low"] /\ refused' = {}
  /\ led' = "Connecting" /\ ledNext' = "Connecting"
  /\ offered' = Never /\ age' = 0 /\ early' = {}
  /\ UNCHANGED view

Next ==
  \/ Handler \/ SteeringSucceeds \/ SteeringFails
  \/ LoopStep \/ PollerReports
  \/ \E s \in Sensor : StackReports(s)
  \/ Reset

\* Both tasks go on; steering succeeds if it is tried again and again; the reports
\* of the stack arrive now and then.
Fairness ==
  /\ WF_vars(LoopStep) /\ WF_vars(Handler) /\ SF_vars(SteeringSucceeds)
  /\ \A s \in Sensor : WF_vars(StackReports(s))

Spec == Init /\ [][Next]_vars /\ Fairness

--------------------------------------------------------------------------------
\* Properties.

\* "Bulk one-shot telemetry reports are suppressed until the Zigbee interview grace
\* period expires" (spec, line 564), whoever sends them and however the clock wraps,
\* with one exception the documents do not name: the battery's, which share the
\* endpoint of the active zone.
QuietAfterJoin == early \subseteq {"battery"}

\* "critical fault/state updates are allowed immediately after join": a state noted
\* as reported was handed to the radio in the same iteration, grace period or not,
\* unless the stack refused it -- noted all the same, it is then not offered again.
NotedIsOffered ==
  (loop # "sendState" /\ last.state # Never /\ "state" \notin refused) => offered = last.state

\* Whatever was suppressed, lost, or changed before the join, the coordinator shows
\* a state or a total that stays; only if the stack refused to store it does the
\* coordinator keep the old one, because the loop never tries again.
ViewSettles ==
  \A s \in Sensor : \A v \in Values[s] :
    <>[](joined /\ actual[s] = v /\ s \notin refused) => <>[](view[s] = v)

\* Although two tasks store the LED mode, it shows a situation and a link that stay.
LedSettles ==
  /\ <>[](actual.state = "fault") => <>[](led = "Fault")
  /\ <>[](actual.state = "idle" /\ zb = "up") => <>[](led = "Joined")
  /\ <>[](actual.state = "idle" /\ zb = "stuck") => <>[](led = "Connecting")

\* However often steering fails it is tried until the device has joined, unless the
\* stack refuses to start it.
JoinsInTheEnd == []<>(zb \in {"up", "boot", "failed", "stuck"})
================================================================================
