-------------------------- MODULE StatusReports_proofs --------------------------
(***************************************************************************)
(* Proofs about StatusReports, for every length of the delay after a join  *)
(* and every clock that is longer.                                         *)
(***************************************************************************)
EXTENDS StatusReports, TLAPS

LEMMA ConstantTypes ==
  /\ ReportDelay \in Nat \ {0} /\ ClockMod \in Nat /\ ReportDelay + 3 <= ClockMod
BY ReportsConstantsOK DEF ReportsConstantsOK

--------------------------------------------------------------------------------
\* Types, and that a value to be sent is one.

ToSend ==
  /\ loop = "sendState" => joined /\ last.state # Never
  /\ loop = "sendTotal" => last.total # Never

Typed == ReportsTypeOK /\ ToSend

Strings == Situation \cup Totals \cup {Never}

LEMMA NeverIsNoValue == Never \notin Situation /\ Never \notin Totals
BY DEF Never, Situation, Totals

LEMMA TypedInit == Init => Typed
<1> SUFFICES ASSUME Init PROVE Typed
  OBVIOUS
<1>1. 0 \in 0 .. ClockMod - 1 /\ 0 \in 0 .. ReportDelay
  BY ConstantTypes
<1> QED BY <1>1 DEF Init, Typed, ReportsTypeOK, ToSend, Mode, Situation, Totals, Never, Bulk

LEMMA ClockType ==
  ASSUME now \in 0 .. ClockMod - 1, age \in 0 .. ReportDelay,
         early \subseteq Bulk, Clock \/ UNCHANGED <<now, age, early>>
  PROVE  now' \in 0 .. ClockMod - 1 /\ age' \in 0 .. ReportDelay /\ early' \subseteq Bulk
BY ConstantTypes DEF Clock

\* A report stores a value of its sensor, in the attribute and perhaps in the view.
LEMMA ReportType ==
  ASSUME attr \in [state : Situation, total : Totals], view \in [state : Situation, total : Totals],
         early \subseteq Bulk, offered \in Strings, refused \subseteq Sensor,
         NEW s \in Sensor, NEW v, v \in (IF s = "state" THEN Situation ELSE Totals),
         ReportSensor(s, v)
  PROVE  /\ attr' \in [state : Situation, total : Totals]
         /\ view' \in [state : Situation, total : Totals]
         /\ early' \subseteq Bulk /\ offered' \in Strings /\ refused' \subseteq Sensor
<1>1. early' \subseteq Bulk /\ offered' \in Strings /\ refused' \subseteq Sensor
  BY DEF ReportSensor, Sent, air, Strings
<1>2. attr' \in [state : Situation, total : Totals]
  BY DEF ReportSensor, Sensor
<1>3. view' \in [state : Situation, total : Totals]
  BY DEF ReportSensor, Sensor, air
<1> QED BY <1>1, <1>2, <1>3

LEMMA HandlerTyped ==
  ASSUME Typed, Handler \/ SteeringSucceeds \/ SteeringFails
  PROVE  Typed'
<1> USE DEF Typed, ReportsTypeOK, ToSend, Mode, flags, task, air, endpoints
<1>1. CASE StartSignal
  <2>1. /\ zb = "boot" /\ zb' \in {"failed", "steering", "stuck", "stamp"} /\ joined' = joined
        /\ UNCHANGED <<joinedAt, now, task, endpoints, air, age>>
    BY <1>1 DEF StartSignal, Steer
  <2>2. mainJoined' = FALSE \/ mainJoined' = mainJoined
    BY <1>1 DEF StartSignal, NotJoined
  <2>3. led' \in Mode
    BY <1>1 DEF StartSignal, NotJoined
  <2>4. ~joined /\ mainJoined = FALSE
    BY <2>1
  <2>5. mainJoined' = FALSE
    BY <2>2, <2>4
  <2>6. mainJoined' \in BOOLEAN /\ ~mainJoined'
    BY <2>5, Zenon
  <2> QED BY <2>1, <2>3, <2>4, <2>6
<1>2. CASE SteeringSucceeds
  BY <1>2 DEF SteeringSucceeds
<1>3. CASE SteeringFails
  <2>1. /\ zb = "steering" /\ zb' = "alarm" /\ joined' = joined /\ led' \in Mode
        /\ UNCHANGED <<joinedAt, now, task, endpoints, air, age>>
    BY <1>3 DEF SteeringFails, NotJoined
  <2>2. mainJoined' \in BOOLEAN /\ ~mainJoined'
    BY <1>3 DEF SteeringFails, NotJoined
  <2> QED BY <2>1, <2>2
<1>4. CASE AlarmFires
  BY <1>4 DEF AlarmFires, Steer
<1>5. CASE Stamp
  BY <1>5, ConstantTypes DEF Stamp
<1>6. CASE Flag
  BY <1>6 DEF Flag
<1>7. CASE Announce
  BY <1>7 DEF Announce
<1> QED BY <1>1, <1>2, <1>3, <1>4, <1>5, <1>6, <1>7 DEF Handler

LEMMA LoopTyped ==
  ASSUME Typed, LoopStep
  PROVE  Typed'
<1> USE DEF Typed, ReportsTypeOK, ToSend, Mode, flags, task, air, endpoints
<1>1. CASE Wake
  BY <1>1, ClockType DEF Wake
<1>2. CASE Tick
  BY <1>2 DEF Tick
<1>3. CASE NoteState
  BY <1>3, ClockType, NeverIsNoValue DEF NoteState, Note, CriticalReportsEnabled
<1>4. CASE SendState
  BY <1>4, ReportType DEF SendState, Strings, Sensor
<1>5. CASE NoteTotal
  BY <1>5, ClockType, NeverIsNoValue DEF NoteTotal, Note
<1>6. CASE SendTotal
  BY <1>6, ReportType DEF SendTotal, Strings, Sensor
<1>7. CASE ChooseLed
  BY <1>7 DEF ChooseLed
<1>8. CASE SetLed
  BY <1>8 DEF SetLed
<1> QED BY <1>1, <1>2, <1>3, <1>4, <1>5, <1>6, <1>7, <1>8 DEF LoopStep

LEMMA TypedNext == Typed /\ [Next]_vars => Typed'
<1> SUFFICES ASSUME Typed, [Next]_vars PROVE Typed'
  OBVIOUS
<1> USE DEF Typed, ReportsTypeOK, ToSend, Mode, flags, task, air, endpoints
<1>1. CASE PollerReports
  BY <1>1 DEF PollerReports, Sent, Bulk
<1>2. ASSUME NEW s \in Sensor, StackReports(s)
      PROVE  Typed'
  BY <1>2 DEF StackReports, Sensor
<1>3. CASE Reset
  <2>1. joined' \in BOOLEAN /\ mainJoined' \in BOOLEAN /\ ~joined' /\ ~mainJoined'
    BY <1>3, Zenon DEF Reset
  <2>2. zb' = "boot" /\ loop' = "sleep"
    BY <1>3 DEF Reset
  <2> QED BY <1>3, <2>1, <2>2, ConstantTypes DEF Reset, Situation, Totals, Never
<1>4. CASE UNCHANGED vars
  BY <1>4 DEF vars
<1> QED BY <1>1, <1>2, <1>3, <1>4, HandlerTyped, LoopTyped DEF Next

\* Whatever the two tasks and the stack do, every variable keeps its type, and the
\* flags tell how far the join has come.
THEOREM ReportsTypeCorrect == Spec => []ReportsTypeOK
<1>1. Typed => ReportsTypeOK
  BY DEF Typed
<1> QED BY <1>1, TypedInit, TypedNext, PTL DEF Spec

--------------------------------------------------------------------------------
\* The grace period.

\* As long as the delay has not passed, the unsigned difference is the time since
\* the join; the clock cannot come round meanwhile.
Counted == zb \in {"flag", "announce", "up"} /\ age < ReportDelay => SinceJoin = age

Grace == ReportsTypeOK /\ Counted /\ QuietAfterJoin

LEMMA SinceJoinNext ==
  ASSUME now \in 0 .. ClockMod - 1, joinedAt \in 0 .. ClockMod - 1,
         SinceJoin + 1 < ClockMod, joinedAt' = joinedAt,
         now' = IF now = ClockMod - 1 THEN 0 ELSE now + 1
  PROVE  SinceJoin' = SinceJoin + 1
BY ConstantTypes DEF SinceJoin

LEMMA ClockCounted ==
  ASSUME ReportsTypeOK, Counted, zb' = zb, joinedAt' = joinedAt,
         Clock \/ UNCHANGED <<now, age>>
  PROVE  Counted'
<1>1. CASE UNCHANGED <<now, age>>
  BY <1>1 DEF Counted, SinceJoin
<1>2. CASE Clock /\ zb \in {"flag", "announce", "up"} /\ age < ReportDelay
  <2>1. SinceJoin = age /\ age + 1 < ClockMod /\ age \in Nat
    BY <1>2, ConstantTypes DEF Counted, ReportsTypeOK
  <2>2. SinceJoin' = age + 1 /\ age' = age + 1
    BY <1>2, <2>1, SinceJoinNext DEF Clock, ReportsTypeOK
  <2> QED BY <2>2 DEF Counted
<1>3. CASE Clock /\ ~(zb \in {"flag", "announce", "up"} /\ age < ReportDelay)
  BY <1>3 DEF Clock, Counted
<1> QED BY <1>1, <1>2, <1>3

\* Reports that are enabled are enabled because the delay has passed.
LEMMA EnabledIsLate ==
  ASSUME ReportsTypeOK, Counted, ReportsEnabled
  PROVE  ~(age < ReportDelay)
BY ConstantTypes DEF ReportsTypeOK, Counted, ReportsEnabled

LEMMA SentQuiet ==
  ASSUME ReportsTypeOK, Counted, QuietAfterJoin, NEW s, Allowed(s), Sent(s)
  PROVE  QuietAfterJoin'
<1>1. CASE s \in Immediate
  BY <1>1 DEF Immediate, Sent, Bulk, QuietAfterJoin
<1>2. CASE s \notin Immediate
  BY <1>2, EnabledIsLate DEF Allowed, Sent, QuietAfterJoin
<1> QED BY <1>1, <1>2

LEMMA GraceNext == Grace /\ Typed /\ [Next]_vars => Grace'
<1> SUFFICES ASSUME Grace, Typed, [Next]_vars PROVE Grace'
  OBVIOUS
<1>1. ReportsTypeOK'
  BY TypedNext DEF Typed
<1>2. Counted'
  <2> USE DEF flags, task, Counted
  <2>1. CASE StartSignal \/ SteeringSucceeds \/ SteeringFails \/ AlarmFires
    BY <2>1 DEF StartSignal, Steer, SteeringSucceeds, SteeringFails, AlarmFires
  <2>2. CASE Stamp
    BY <2>2, ConstantTypes DEF Stamp, SinceJoin, Grace, ReportsTypeOK
  <2>3. CASE Flag \/ Announce
    BY <2>3 DEF Flag, Announce, SinceJoin, Grace
  <2>4. CASE LoopStep
    <3>1. zb' = zb /\ joinedAt' = joinedAt /\ (Clock \/ UNCHANGED <<now, age>>)
      BY <2>4 DEF LoopStep, Wake, Tick, NoteState, SendState, NoteTotal, SendTotal,
                  ChooseLed, SetLed, Note
    <3> QED BY <3>1, ClockCounted DEF Grace
  <2>5. CASE PollerReports \/ (\E s \in Sensor : StackReports(s)) \/ UNCHANGED vars
    BY <2>5 DEF PollerReports, StackReports, vars, SinceJoin, Grace
  <2>6. CASE Reset
    BY <2>6 DEF Reset
  <2> QED BY <2>1, <2>2, <2>3, <2>4, <2>5, <2>6 DEF Next, Handler
<1>3. QuietAfterJoin'
  <2>1. CASE early' = early
    BY <2>1 DEF Grace, QuietAfterJoin
  <2>2. ASSUME NEW s, NEW v, ReportSensor(s, v)
        PROVE  QuietAfterJoin'
    BY <2>1, <2>2, SentQuiet DEF ReportSensor, air, Grace
  <2>3. CASE PollerReports
    BY <2>3, SentQuiet DEF PollerReports, Grace
  <2>4. CASE SendState \/ SendTotal
    BY <2>2, <2>4 DEF SendState, SendTotal
  <2>5. CASE \/ Handler \/ SteeringSucceeds \/ SteeringFails
             \/ (\E s \in Sensor : StackReports(s)) \/ UNCHANGED vars
    BY <2>1, <2>5 DEF Handler, StartSignal, AlarmFires, Stamp, Flag, Announce,
                      SteeringSucceeds, SteeringFails, StackReports, vars, air
  <2>6. CASE Wake \/ NoteState \/ NoteTotal
    <3>1. early' = {} \/ early' = early
      BY <2>6 DEF Wake, NoteState, NoteTotal, Note, Clock
    <3> QED BY <2>1, <3>1 DEF QuietAfterJoin
  <2>7. CASE Tick \/ ChooseLed \/ SetLed
    BY <2>1, <2>7 DEF Tick, ChooseLed, SetLed, air
  <2>8. CASE Reset
    BY <2>8 DEF Reset, QuietAfterJoin
  <2> QED BY <2>3, <2>4, <2>5, <2>6, <2>7, <2>8 DEF Next, LoopStep
<1> QED BY <1>1, <1>2, <1>3 DEF Grace

\* No bulk frame but the battery's leaves in the grace period, although the tick
\* count wraps and the poller asks nobody.
THEOREM QuietAfterJoinCorrect == Spec => []QuietAfterJoin
<1>1. Init => Grace
  BY TypedInit DEF Init, Typed, Grace, Counted, QuietAfterJoin
<1>2. Grace => QuietAfterJoin
  BY DEF Grace
<1> QED BY <1>1, <1>2, TypedInit, TypedNext, GraceNext, PTL DEF Spec

--------------------------------------------------------------------------------
\* A state noted is a state sent.

LEMMA OfferedNext == Typed /\ NotedIsOffered /\ [Next]_vars => NotedIsOffered'
<1> SUFFICES ASSUME Typed, NotedIsOffered, [Next]_vars PROVE NotedIsOffered'
  OBVIOUS
<1> USE DEF NotedIsOffered, Typed, ToSend, flags, task, air, endpoints
<1>1. CASE Handler \/ SteeringSucceeds \/ SteeringFails
  BY <1>1 DEF Handler, StartSignal, AlarmFires, Stamp, Flag, Announce, SteeringSucceeds,
              SteeringFails
<1>2. CASE PollerReports \/ (\E s \in Sensor : StackReports(s)) \/ UNCHANGED vars
  BY <1>2 DEF PollerReports, StackReports, vars
<1>3. CASE Reset
  BY <1>3 DEF Reset
<1>4. CASE Wake \/ ChooseLed \/ SetLed
  BY <1>4 DEF Wake, ChooseLed, SetLed
<1>5. CASE Tick
  BY <1>5 DEF Tick, ReportsTypeOK
<1>6. CASE NoteState
  BY <1>6 DEF NoteState, Note
<1>7. CASE SendState
  BY <1>7 DEF SendState, ReportSensor, Allowed, Immediate
<1>8. CASE NoteTotal
  BY <1>8 DEF NoteTotal, Note, ReportsTypeOK
<1>9. CASE SendTotal
  BY <1>9 DEF SendTotal, ReportSensor
<1> QED BY <1>1, <1>2, <1>3, <1>4, <1>5, <1>6, <1>7, <1>8, <1>9 DEF Next, LoopStep

\* Between two sends the state noted as reported is the one handed to the radio last,
\* whatever the clock and the other sensors do, if its write was accepted.
THEOREM NotedIsOfferedCorrect == Spec => []NotedIsOffered
<1>1. Init => NotedIsOffered
  BY DEF Init, NotedIsOffered
<1> QED BY <1>1, TypedInit, TypedNext, OfferedNext, PTL DEF Spec
================================================================================
