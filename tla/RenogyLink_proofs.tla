--------------------------- MODULE RenogyLink_proofs ----------------------------
(***************************************************************************)
(* Proofs about RenogyLink, for answers of any length and any number of    *)
(* troubles.                                                               *)
(***************************************************************************)
EXTENDS RenogyLink, TLAPS

LEMMA LengthType == \A reg : Length(reg) \in Nat \ {0}
BY LinkConstantsOK, SMT DEF Length, LinkConstantsOK

\* An answer is made of bytes.
LEMMA AnswerType ==
  ASSUME NEW q \in Request
  PROVE  Answer(q) \in Seq(Byte)
<1>1. Length(q.reg) \in Nat
  BY LengthType
<1>2. \A i \in 1 .. Length(q.reg) : [of |-> q, no |-> i] \in Byte
  BY <1>1 DEF Byte
<1> QED BY <1>1, <1>2 DEF Answer

\* Generic facts about sequences over some set.
LEMMA AppendType ==
  ASSUME NEW S, NEW s \in Seq(S), NEW e \in S
  PROVE  Append(s, e) \in Seq(S) /\ Len(Append(s, e)) = Len(s) + 1
OBVIOUS

LEMMA HeadTailType ==
  ASSUME NEW S, NEW s \in Seq(S), s # <<>>
  PROVE  Head(s) \in S /\ Tail(s) \in Seq(S)
OBVIOUS

LEMMA JoinType ==
  ASSUME NEW S, NEW s \in Seq(S), NEW t \in Seq(S)
  PROVE  s \o t \in Seq(S)
OBVIOUS

\* What is left of the receive buffer after n bytes are read, and what was read.
LEMMA RestType ==
  ASSUME rx \in Seq(Byte), NEW n \in Nat \ {0}, Len(rx) >= n
  PROVE  Rest(n) \in Seq(Byte) /\ Take(n)[1] \in Byte
<1>1. Rest(n) \in Seq(Byte)
  BY DEF Rest
<1>2. Take(n)[1] = rx[1] /\ rx[1] \in Byte
  BY DEF Take
<1> QED BY <1>1, <1>2

LEMMA EmptyType == \A S : <<>> \in Seq(S) /\ Len(<<>>) = 0
OBVIOUS

LEMMA SetterRequests == target \in {"mode", "load"} /\ value \in BOOLEAN => LoadRequest \in Request
<1>1. ASSUME NEW v \in BOOLEAN, NEW t \in {"mode", "load"}
      PROVE  [reg |-> t, arg |-> v] \in Request
  BY <1>1 DEF Request
<1>2. value \in BOOLEAN => (IF target = "load" THEN value ELSE TRUE) \in BOOLEAN
  BY Zenon
<1> QED BY <1>1, <1>2, Zenon DEF LoadRequest

LEMMA PollerRequests == block \in Block /\ turn \in BOOLEAN => PollRequest(block) \in Request
BY DEF PollRequest, Request

LEMMA TroubleType ==
  ASSUME trouble \in 0 .. MaxTrouble, Trouble
  PROVE  trouble' \in 0 .. MaxTrouble
BY LinkConstantsOK DEF Trouble, LinkConstantsOK

LEMMA TimesOutType ==
  ASSUME trouble \in 0 .. MaxTrouble, NEW n, TimesOut(n)
  PROVE  trouble' \in 0 .. MaxTrouble /\ rx' \in Seq(Byte)
BY TroubleType, EmptyType DEF TimesOut

\* The part of the type invariant each party to the line may change.
SetterOK ==
  /\ setter \in {"idle", "flush", "write", "read"}
  /\ target \in {"mode", "load"} /\ value \in BOOLEAN /\ acked \in BOOLEAN
PollerOK ==
  /\ poller \in {"rest", "flush", "write", "enter", "read"} /\ block \in Block
  /\ got \in Seq(Request) /\ turn \in BOOLEAN
  /\ poller # "rest" => Len(got) = Before(block)
  /\ poller = "rest" => block = "realtime"
LineOK ==
  /\ requests \in Seq(Request) /\ wire \in Seq(Byte) /\ rx \in Seq(Byte)
  /\ loadReg \in BOOLEAN /\ trouble \in 0 .. MaxTrouble
LinkOK == SetterOK /\ PollerOK /\ LineOK

LEMMA SetterKeeps ==
  ASSUME LinkOK, SetterStep \/ \E on \in BOOLEAN : SetLoad(on)
  PROVE  LinkOK'
<1> USE DEF LinkOK
<1>1. UNCHANGED polling => PollerOK'
  BY DEF PollerOK, polling, Before
<1>2. ASSUME NEW on \in BOOLEAN, SetLoad(on)
      PROVE  LinkOK'
  <2>1. SetterOK'
    BY <1>2, Zenon DEF SetLoad, SetterOK
  <2>2. LineOK'
    BY <1>2 DEF SetLoad, LineOK, line
  <2> QED BY <1>1, <1>2, <2>1, <2>2 DEF SetLoad
<1>3. CASE SetterFlush
  <2>1. SetterOK' /\ LineOK'
    BY <1>3, EmptyType DEF SetterFlush, SetterOK, LineOK
  <2> QED BY <1>1, <1>3, <2>1 DEF SetterFlush
<1>4. CASE SetterWrite
  <2>1. LoadRequest \in Request
    BY SetterRequests DEF SetterOK
  <2>2. requests' \in Seq(Request)
    BY <1>4, <2>1, AppendType, Zenon DEF SetterWrite, LineOK
  <2>3. SetterOK' /\ LineOK'
    BY <1>4, <2>2 DEF SetterWrite, SetterOK, LineOK
  <2> QED BY <1>1, <1>4, <2>3 DEF SetterWrite
<1>5. EchoLength \in Nat \ {0}
  BY LinkConstantsOK DEF LinkConstantsOK
<1>6. CASE SetterAcknowledged
  <2>1. rx' \in Seq(Byte)
    BY <1>5, <1>6, RestType DEF SetterAcknowledged, LineOK
  <2>2. acked' \in BOOLEAN
    BY <1>6, Zenon DEF SetterAcknowledged
  <2>3. SetterOK' /\ LineOK'
    BY <1>6, <2>1, <2>2 DEF SetterAcknowledged, SetterOK, LineOK
  <2> QED BY <1>1, <1>6, <2>3 DEF SetterAcknowledged
<1>7. CASE SetterFails
  <2>1. rx' \in Seq(Byte) /\ trouble' \in 0 .. MaxTrouble
    BY <1>5, <1>7, RestType, TimesOutType DEF SetterFails, LineOK
  <2>2. SetterOK' /\ LineOK'
    BY <1>7, <2>1 DEF SetterFails, SetterOK, LineOK
  <2> QED BY <1>1, <1>7, <2>2 DEF SetterFails
<1> QED BY <1>2, <1>3, <1>4, <1>6, <1>7 DEF SetterStep

LEMMA FailedPoll == PollFails => poller' = "rest" /\ block' = "realtime" /\ got' \in Seq(Request)
BY EmptyType DEF PollFails

LEMMA PollerKeeps ==
  ASSUME LinkOK, PollerStep
  PROVE  LinkOK'
<1> USE DEF LinkOK
<1>1. UNCHANGED watering => SetterOK'
  BY DEF SetterOK, watering
<1>2. Len(<<>>) = 0 /\ Before("realtime") = 0
  BY EmptyType DEF Before
<1>3. CASE PollBegins
  <2>1. turn' \in BOOLEAN /\ got' \in Seq(Request)
    BY <1>3, EmptyType, Zenon DEF PollBegins, PollerOK
  <2>2. PollerOK' /\ LineOK'
    BY <1>2, <1>3, <2>1 DEF PollBegins, PollerOK, LineOK, line
  <2> QED BY <1>1, <1>3, <2>2 DEF PollBegins
<1>4. CASE PollerFlush
  <2>1. PollerOK' /\ LineOK'
    BY <1>4, EmptyType DEF PollerFlush, PollerOK, LineOK
  <2> QED BY <1>1, <1>4, <2>1 DEF PollerFlush
<1>5. CASE PollerWrite
  <2>1. PollRequest(block) \in Request
    BY PollerRequests DEF PollerOK
  <2>2. requests' \in Seq(Request)
    BY <1>5, <2>1, AppendType, Zenon DEF PollerWrite, LineOK
  <2>3. PollerOK' /\ LineOK'
    BY <1>5, <2>2 DEF PollerWrite, PollerOK, LineOK
  <2> QED BY <1>1, <1>5, <2>3 DEF PollerWrite
<1>6. CASE PollerEnters
  <2>1. PollerOK' /\ LineOK'
    BY <1>6, FailedPoll DEF PollerEnters, PollerOK, LineOK, line, Block
  <2> QED BY <1>1, <1>6, <2>1 DEF PollerEnters
<1>7. CASE PollerReads
  <2> DEFINE bytes == Take(Length(block))
  <2>1. rx' \in Seq(Byte) /\ bytes[1] \in Byte
    BY <1>7, LengthType, RestType DEF PollerReads, LineOK
  <2>2. LineOK'
    BY <1>7, <2>1 DEF PollerReads, LineOK
  <2>3. CASE got' = Append(got, bytes[1].of) /\ ~PollFails
    <3>1. bytes[1].of \in Request
      BY <2>1 DEF Byte
    <3>2. got' \in Seq(Request) /\ Len(got') = Len(got) + 1
      BY <2>3, <3>1, AppendType, Zenon DEF PollerOK
    <3>3. \/ block = "realtime" /\ block' = "historical" /\ poller' = "flush"
          \/ block = "historical" /\ block' = "status" /\ poller' = "flush"
          \/ block = "status" /\ block' = "realtime" /\ poller' = "rest"
      BY <1>7, <2>3, Zenon DEF PollerReads
    <3>4. /\ Before("realtime") = 0 /\ Before("historical") = 1 /\ Before("status") = 2
      BY DEF Before
    <3>5. poller = "read" /\ Len(got) = Before(block) /\ turn' = turn
      BY <1>7 DEF PollerReads, PollerOK
    <3>6. PollerOK'
      BY <3>2, <3>3, <3>4, <3>5 DEF PollerOK, Block
    <3> QED BY <1>1, <1>7, <2>2, <3>6 DEF PollerReads
  <2>4. got' = Append(got, bytes[1].of) \/ PollFails
    BY <1>7, Zenon DEF PollerReads
  <2>5. PollFails => LinkOK'
    <3>1. PollFails => PollerOK'
      BY <1>7, FailedPoll DEF PollerReads, PollerOK, Block
    <3> QED BY <1>1, <1>7, <2>2, <3>1 DEF PollerReads
  <2> QED BY <2>3, <2>4, <2>5
<1>8. CASE PollerTimesOut
  <2>1. rx' \in Seq(Byte) /\ trouble' \in 0 .. MaxTrouble
    BY <1>8, TimesOutType DEF PollerTimesOut, LineOK
  <2>2. PollerOK' /\ LineOK'
    BY <1>8, <2>1, FailedPoll DEF PollerTimesOut, PollerOK, LineOK, Block
  <2> QED BY <1>1, <1>8, <2>2 DEF PollerTimesOut
<1> QED BY <1>3, <1>4, <1>5, <1>6, <1>7, <1>8 DEF PollerStep

LEMMA LineKeeps ==
  ASSUME LinkOK, ControllerAnswers \/ ByteArrives \/ RequestLost \/ ByteLost
  PROVE  LinkOK'
<1> USE DEF LinkOK
<1>1. UNCHANGED <<watering, polling>> => SetterOK' /\ PollerOK'
  BY DEF SetterOK, PollerOK, watering, polling, Before
<1>2. CASE ControllerAnswers
  <2>1. Head(requests) \in Request /\ requests' \in Seq(Request)
    BY <1>2, HeadTailType, Zenon DEF ControllerAnswers, LineOK
  <2>2. Answer(Head(requests)) \in Seq(Byte)
    BY <2>1, AnswerType
  <2>3. wire' \in Seq(Byte)
    BY <1>2, <2>2, JoinType, Zenon DEF ControllerAnswers, LineOK
  <2>4. Head(requests).arg \in BOOLEAN
    BY <2>1 DEF Request
  <2>5. loadReg' \in BOOLEAN
    BY <1>2, <2>4, Zenon DEF ControllerAnswers, LineOK
  <2>6. LineOK'
    BY <1>2, <2>1, <2>3, <2>5 DEF ControllerAnswers, LineOK
  <2> QED BY <1>1, <1>2, <2>6 DEF ControllerAnswers
<1>3. CASE ByteArrives
  <2>1. rx' \in Seq(Byte) /\ wire' \in Seq(Byte)
    BY <1>3, HeadTailType, AppendType, Zenon DEF ByteArrives, LineOK
  <2>2. LineOK'
    BY <1>3, <2>1 DEF ByteArrives, LineOK
  <2> QED BY <1>1, <1>3, <2>2 DEF ByteArrives
<1>4. CASE RequestLost
  <2>1. requests' \in Seq(Request)
    BY <1>4, HeadTailType, Zenon DEF RequestLost, LineOK
  <2>2. LineOK'
    BY <1>4, <2>1, TroubleType DEF RequestLost, LineOK
  <2> QED BY <1>1, <1>4, <2>2 DEF RequestLost
<1>5. CASE ByteLost
  <2>1. wire' \in Seq(Byte)
    BY <1>5, HeadTailType, Zenon DEF ByteLost, LineOK
  <2>2. LineOK'
    BY <1>5, <2>1, TroubleType DEF ByteLost, LineOK
  <2> QED BY <1>1, <1>5, <2>2 DEF ByteLost
<1> QED BY <1>2, <1>3, <1>4, <1>5

LEMMA LinkOKAtFirst == Init => LinkOK
<1>1. Init => SetterOK /\ PollerOK
  BY EmptyType DEF Init, SetterOK, PollerOK, Block
<1>2. 0 \in 0 .. MaxTrouble
  BY LinkConstantsOK DEF LinkConstantsOK
<1>3. Init => LineOK
  BY <1>2, EmptyType DEF Init, LineOK
<1> QED BY <1>1, <1>3 DEF LinkOK

LEMMA LinkOKKept == LinkOK /\ [Next]_vars => LinkOK'
<1>1. LinkOK /\ UNCHANGED vars => LinkOK'
  BY DEF LinkOK, SetterOK, PollerOK, LineOK, vars, watering, polling, line, Before
<1> QED BY <1>1, SetterKeeps, PollerKeeps, LineKeeps DEF Next

\* Both tasks, the controller and the line keep their types, and a poll has as many
\* answers as it has read blocks: three when it publishes.
THEOREM LinkTypeCorrect == Spec => []LinkTypeOK
<1>1. LinkOK => LinkTypeOK
  BY DEF LinkOK, SetterOK, PollerOK, LineOK, LinkTypeOK
<1> QED BY <1>1, LinkOKAtFirst, LinkOKKept, PTL DEF Spec
================================================================================
