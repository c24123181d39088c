------------------------ MODULE RenogyLinkAnswers_proofs -------------------------
(***************************************************************************)
(* Which answers the two users of the serial line take, for answers of any *)
(* length and any number of troubles: those to their own requests.         *)
(***************************************************************************)
EXTENDS RenogyLink_proofs

\* s without some of its first elements.
Suffix(t, s) == \E n \in Nat : \A i \in DOMAIN t : i + n \in DOMAIN s /\ t[i] = s[i + n]

LEMMA EmptySuffix == \A s : Suffix(<<>>, s)
<1>1. DOMAIN <<>> = {} /\ 0 \in Nat
  OBVIOUS
<1> QED BY <1>1, Zenon DEF Suffix

LEMMA TailSuffix ==
  ASSUME NEW S, NEW s \in Seq(S), s # <<>>
  PROVE  Suffix(Tail(s), s)
<1>1. \A i \in DOMAIN Tail(s) : i + 1 \in DOMAIN s /\ Tail(s)[i] = s[i + 1]
  OBVIOUS
<1> QED BY <1>1 DEF Suffix

LEMMA SameSuffix ==
  ASSUME NEW S, NEW s \in Seq(S)
  PROVE  Suffix(s, s)
<1>1. \A i \in DOMAIN s : i + 0 \in DOMAIN s /\ s[i] = s[i + 0]
  OBVIOUS
<1> QED BY <1>1 DEF Suffix

LEMMA RestSuffix ==
  ASSUME rx \in Seq(Byte), NEW n \in Nat, n <= Len(rx)
  PROVE  Suffix(Rest(n), rx)
<1>1. \A i \in DOMAIN Rest(n) : i + n \in DOMAIN rx /\ Rest(n)[i] = rx[i + n]
  BY DEF Rest
<1> QED BY <1>1 DEF Suffix

--------------------------------------------------------------------------------
\* Bytes of answers to the poller: none in s; only bytes of the answer to q; in
\* their order; those in s before those in t.
OfPoll(b) == b.of.reg \in Block
NoPoll(s) == \A i \in DOMAIN s : ~OfPoll(s[i])
Only(s, q) == \A i \in DOMAIN s : OfPoll(s[i]) => s[i].of = q /\ s[i].no <= Length(q.reg)
Rising(s) ==
  \A i, j \in DOMAIN s : i < j /\ OfPoll(s[i]) /\ OfPoll(s[j]) => s[i].no < s[j].no
Precedes(s, t) ==
  \A i \in DOMAIN s, j \in DOMAIN t : OfPoll(s[i]) /\ OfPoll(t[j]) => s[i].no < t[j].no

LEMMA SuffixKeeps ==
  ASSUME NEW s \in Seq(Byte), NEW t \in Seq(Byte), NEW u \in Seq(Byte), Suffix(t, s), NEW q
  PROVE  /\ NoPoll(s) => NoPoll(t)
         /\ Only(s, q) => Only(t, q)
         /\ Rising(s) => Rising(t)
         /\ Precedes(s, u) => Precedes(t, u)
         /\ Precedes(u, s) => Precedes(u, t)
<1>1. PICK n \in Nat : \A i \in DOMAIN t : i + n \in DOMAIN s /\ t[i] = s[i + n]
  BY DEF Suffix
<1>2. NoPoll(s) => NoPoll(t)
  BY <1>1 DEF NoPoll
<1>3. Only(s, q) => Only(t, q)
  BY <1>1 DEF Only
<1>4. Rising(s) => Rising(t)
  <2>1. ASSUME Rising(s), NEW i \in DOMAIN t, NEW j \in DOMAIN t, i < j, OfPoll(t[i]), OfPoll(t[j])
        PROVE  t[i].no < t[j].no
    <3>1. i + n < j + n
      BY <2>1
    <3> QED BY <1>1, <2>1, <3>1 DEF Rising
  <2> QED BY <2>1 DEF Rising
<1>5. Precedes(s, u) => Precedes(t, u)
  BY <1>1 DEF Precedes
<1>6. Precedes(u, s) => Precedes(u, t)
  BY <1>1 DEF Precedes
<1> QED BY <1>2, <1>3, <1>4, <1>5, <1>6

\* A byte that moves from the head of one sequence to the end of the other.
LEMMA MoveKeeps ==
  ASSUME NEW s \in Seq(Byte), NEW t \in Seq(Byte), t # <<>>, NEW q
  PROVE  /\ NoPoll(s) /\ NoPoll(t) => NoPoll(Append(s, Head(t)))
         /\ Only(s, q) /\ Only(t, q) => Only(Append(s, Head(t)), q)
         /\ Rising(s) /\ Precedes(s, t) => Rising(Append(s, Head(t)))
         /\ Rising(t) /\ Precedes(s, t) => Precedes(Append(s, Head(t)), Tail(t))
<1> DEFINE u == Append(s, Head(t))
<1>1. /\ DOMAIN u = 1 .. Len(s) + 1 /\ DOMAIN s = 1 .. Len(s) /\ Len(s) \in Nat
      /\ \A i \in DOMAIN s : u[i] = s[i]
      /\ u[Len(s) + 1] = t[1] /\ 1 \in DOMAIN t
      /\ \A i \in DOMAIN Tail(t) : i + 1 \in DOMAIN t /\ Tail(t)[i] = t[i + 1] /\ 1 < i + 1
  OBVIOUS
<1> HIDE DEF u
<1>2. NoPoll(s) /\ NoPoll(t) => NoPoll(u)
  BY <1>1 DEF NoPoll
<1>3. Only(s, q) /\ Only(t, q) => Only(u, q)
  BY <1>1 DEF Only
<1>4. Rising(s) /\ Precedes(s, t) => Rising(u)
  BY <1>1 DEF Rising, Precedes
<1>5. Rising(t) /\ Precedes(s, t) => Precedes(u, Tail(t))
  BY <1>1 DEF Rising, Precedes
<1> QED BY <1>2, <1>3, <1>4, <1>5 DEF u

\* The answer to q after what is on the wire.
LEMMA AnswerJoins ==
  ASSUME NEW s \in Seq(Byte), NEW q \in Request
  PROVE  /\ DOMAIN (s \o Answer(q)) = 1 .. Len(s) + Length(q.reg)
         /\ Len(s) \in Nat /\ DOMAIN s = 1 .. Len(s)
         /\ \A i \in 1 .. Len(s) : (s \o Answer(q))[i] = s[i]
         /\ \A i \in 1 .. Length(q.reg) : (s \o Answer(q))[Len(s) + i] = [of |-> q, no |-> i]
<1>1. Length(q.reg) \in Nat /\ Answer(q) \in Seq(Byte)
  BY LengthType, AnswerType
<1>2. Len(Answer(q)) = Length(q.reg)
  BY <1>1 DEF Answer
<1>3. \A i \in 1 .. Length(q.reg) : Answer(q)[i] = [of |-> q, no |-> i]
  BY DEF Answer
<1>4. Len(s) \in Nat /\ DOMAIN s = 1 .. Len(s)
  OBVIOUS
<1>5. /\ DOMAIN (s \o Answer(q)) = 1 .. Len(s) + Len(Answer(q))
      /\ \A i \in 1 .. Len(s) : (s \o Answer(q))[i] = s[i]
      /\ \A i \in 1 .. Len(Answer(q)) : (s \o Answer(q))[Len(s) + i] = Answer(q)[i]
  <2> DEFINE a == Answer(q)
  <2>1. a \in Seq(Byte)
    BY <1>1
  <2> HIDE DEF a
  <2>2. /\ DOMAIN (s \o a) = 1 .. Len(s) + Len(a)
        /\ \A i \in 1 .. Len(s) : (s \o a)[i] = s[i]
        /\ \A i \in 1 .. Len(a) : (s \o a)[Len(s) + i] = a[i]
    BY <2>1
  <2> QED BY <2>2 DEF a
<1>6. \A i \in 1 .. Length(q.reg) : (s \o Answer(q))[Len(s) + i] = [of |-> q, no |-> i]
  BY <1>2, <1>3, <1>5, Zenon
<1> QED BY <1>2, <1>4, <1>5, <1>6, Zenon

\* An answer to somebody else adds nothing to the poller's bytes.
LEMMA OtherAnswerKeeps ==
  ASSUME NEW s \in Seq(Byte), NEW r \in Request, r.reg \notin Block, NEW u \in Seq(Byte), NEW q
  PROVE  /\ NoPoll(s) => NoPoll(s \o Answer(r))
         /\ Only(s, q) => Only(s \o Answer(r), q)
         /\ Rising(s) => Rising(s \o Answer(r))
         /\ Precedes(u, s) => Precedes(u, s \o Answer(r))
<1> DEFINE t == s \o Answer(r)
<1>1. \A i \in DOMAIN t : OfPoll(t[i]) => i \in DOMAIN s /\ t[i] = s[i]
  <2>1. ASSUME NEW i \in DOMAIN t, i \notin DOMAIN s
        PROVE  t[i].of = r
    <3>1. i - Len(s) \in 1 .. Length(r.reg) /\ Len(s) + (i - Len(s)) = i
      BY <2>1, AnswerJoins, LengthType
    <3>2. t[Len(s) + (i - Len(s))] = [of |-> r, no |-> i - Len(s)]
      BY <3>1, AnswerJoins, Zenon
    <3> QED BY <3>1, <3>2
  <2>2. \A i \in DOMAIN s : t[i] = s[i]
    BY AnswerJoins
  <2> QED BY <2>1, <2>2 DEF OfPoll
<1> HIDE DEF t
<1>2. NoPoll(s) => NoPoll(t)
  BY <1>1 DEF NoPoll
<1>3. Only(s, q) => Only(t, q)
  BY <1>1 DEF Only
<1>4. Rising(s) => Rising(t)
  BY <1>1 DEF Rising
<1>5. Precedes(u, s) => Precedes(u, t)
  BY <1>1 DEF Precedes
<1> QED BY <1>2, <1>3, <1>4, <1>5 DEF t

\* The answer to q alone is in its order.
LEMMA OwnAnswerRises ==
  ASSUME NEW s \in Seq(Byte), NEW q \in Request, NoPoll(s)
  PROVE  Only(s \o Answer(q), q) /\ Rising(s \o Answer(q))
<1> DEFINE t == s \o Answer(q)
<1>1. ASSUME NEW i \in DOMAIN t, OfPoll(t[i])
      PROVE  i - Len(s) \in 1 .. Length(q.reg) /\ t[i].of = q /\ t[i].no = i - Len(s)
  <2>1. i \notin DOMAIN s
    BY <1>1, AnswerJoins DEF NoPoll
  <2>2. i - Len(s) \in 1 .. Length(q.reg) /\ Len(s) + (i - Len(s)) = i
    BY <2>1, AnswerJoins, LengthType
  <2>3. t[Len(s) + (i - Len(s))] = [of |-> q, no |-> i - Len(s)]
    BY <2>2, AnswerJoins, Zenon
  <2> QED BY <2>2, <2>3
<1>2. Len(s) \in Nat /\ Length(q.reg) \in Nat /\ \A i \in DOMAIN t : i \in Int
  BY AnswerJoins, LengthType
<1> HIDE DEF t
<1>3. Only(t, q)
  BY <1>1, <1>2 DEF Only
<1>4. Rising(t)
  BY <1>1, <1>2 DEF Rising
<1> QED BY <1>3, <1>4 DEF t

--------------------------------------------------------------------------------
\* Nothing the poller asked for is unanswered.
NonePolled == \A i \in DOMAIN requests : requests[i].reg \notin Block

\* Of the poller's there is one request on the line or (a part of) its answer, not both.
OneAnswer(q) ==
  /\ \A i \in DOMAIN requests : requests[i].reg \in Block =>
        /\ requests[i] = q /\ NoPoll(rx) /\ NoPoll(wire)
        /\ \A j \in DOMAIN requests : requests[j].reg \in Block => j = i
  /\ Only(rx, q) /\ Only(wire, q)
  /\ Rising(rx) /\ Rising(wire) /\ Precedes(rx, wire)

\* What a poll finds on the line: nothing of an earlier request before it writes its
\* own, which is the only one while it awaits the answer.
OnLine ==
  /\ poller \in {"flush", "write"} => NonePolled /\ NoPoll(wire)
  /\ poller = "write" => NoPoll(rx)
  /\ poller \in {"enter", "read"} => \A q \in {PollRequest(block)} : OneAnswer(q)

\* Reading or discarding takes the first bytes away.
LEMMA ReadKeeps ==
  ASSUME LinkOK, LinkOK', Suffix(rx', rx), UNCHANGED <<requests, wire>>, NEW q
  PROVE  /\ NonePolled => NonePolled'
         /\ NoPoll(wire) => NoPoll(wire)'
         /\ NoPoll(rx) => NoPoll(rx)'
         /\ OneAnswer(q) => OneAnswer(q)'
<1>1. rx \in Seq(Byte) /\ rx' \in Seq(Byte) /\ wire \in Seq(Byte)
  BY DEF LinkOK, LineOK
<1>2. /\ NoPoll(rx) => NoPoll(rx)'
      /\ Only(rx, q) => Only(rx, q)'
      /\ Rising(rx) => Rising(rx)'
      /\ Precedes(rx, wire) => Precedes(rx', wire)
  BY <1>1, SuffixKeeps, Zenon DEF NoPoll, Only, Rising
<1>3. Precedes(rx', wire) = Precedes(rx, wire)'
  BY DEF Precedes
<1>4. NoPoll(wire)' = NoPoll(wire) /\ Only(wire, q)' = Only(wire, q) /\ Rising(wire)' = Rising(wire)
  BY DEF NoPoll, Only, Rising
<1>5. OneAnswer(q) => OneAnswer(q)'
  BY <1>2, <1>3, <1>4 DEF OneAnswer
<1> QED BY <1>2, <1>4, <1>5 DEF NonePolled

LEMMA ArrivalKeeps ==
  ASSUME LinkOK, ByteArrives, NEW q
  PROVE  /\ NonePolled => NonePolled'
         /\ NoPoll(wire) => NoPoll(wire)'
         /\ NoPoll(rx) /\ NoPoll(wire) => NoPoll(rx)'
         /\ OneAnswer(q) => OneAnswer(q)'
<1>1. rx \in Seq(Byte) /\ wire \in Seq(Byte) /\ wire # <<>> /\ Tail(wire) \in Seq(Byte)
  BY HeadTailType DEF LinkOK, LineOK, ByteArrives
<1>2. rx' = Append(rx, Head(wire)) /\ wire' = Tail(wire) /\ requests' = requests
  BY DEF ByteArrives
<1>3. Suffix(wire', wire)
  BY <1>1, <1>2, TailSuffix, Zenon
<1>4. NonePolled => NonePolled'
  BY <1>2 DEF NonePolled
<1>5. NoPoll(wire) => NoPoll(wire')
  BY <1>1, <1>2, <1>3, SuffixKeeps, Zenon
<1>6. NoPoll(rx) /\ NoPoll(wire) => NoPoll(rx')
  BY <1>1, <1>2, MoveKeeps, Zenon
<1>7. ASSUME OneAnswer(q)
      PROVE  /\ Only(rx', q) /\ Only(wire', q)
             /\ Rising(rx') /\ Rising(wire') /\ Precedes(rx', wire')
  <2>1. Only(rx, q) /\ Only(wire, q) /\ Rising(rx) /\ Rising(wire) /\ Precedes(rx, wire)
    BY <1>7, Zenon DEF OneAnswer
  <2>2. Only(rx', q) /\ Rising(rx') /\ Precedes(rx', wire')
    BY <1>1, <1>2, <2>1, MoveKeeps, Zenon
  <2>3. Only(wire', q) /\ Rising(wire')
    BY <1>1, <1>2, <1>3, <2>1, SuffixKeeps, Zenon
  <2> QED BY <2>2, <2>3, Zenon
<1>8. ASSUME OneAnswer(q), NEW i \in DOMAIN requests', requests'[i].reg \in Block
      PROVE  /\ requests'[i] = q /\ NoPoll(rx') /\ NoPoll(wire')
             /\ \A j \in DOMAIN requests' : requests'[j].reg \in Block => j = i
  BY <1>2, <1>5, <1>6, <1>8, Zenon DEF OneAnswer
<1>9. OneAnswer(q) => OneAnswer(q)'
  BY <1>7, <1>8, Zenon DEF OneAnswer, Only, Rising, Precedes, NoPoll
<1> QED BY <1>4, <1>5, <1>6, <1>9, Zenon DEF NoPoll

LEMMA LossKeeps ==
  ASSUME LinkOK, ByteLost \/ RequestLost, NEW q
  PROVE  /\ NonePolled => NonePolled'
         /\ NoPoll(wire) => NoPoll(wire)'
         /\ NoPoll(rx) => NoPoll(rx)'
         /\ OneAnswer(q) => OneAnswer(q)'
<1>1. rx' = rx
  BY DEF ByteLost, RequestLost
<1>2. rx \in Seq(Byte) /\ wire \in Seq(Byte) /\ wire' \in Seq(Byte) /\ Suffix(wire', wire)
  <2>1. CASE ByteLost
    BY <2>1, HeadTailType, TailSuffix, Zenon DEF ByteLost, LinkOK, LineOK
  <2>2. CASE RequestLost
    BY <2>2, SameSuffix, Zenon DEF RequestLost, LinkOK, LineOK
  <2> QED BY <2>1, <2>2
<1>3. PICK n \in Nat : \A i \in DOMAIN requests' :
        i + n \in DOMAIN requests /\ requests'[i] = requests[i + n]
  <2>1. Suffix(requests', requests)
    <3>1. CASE ByteLost
      BY <3>1, SameSuffix, Zenon DEF ByteLost, LinkOK, LineOK
    <3>2. CASE RequestLost
      BY <3>2, TailSuffix, Zenon DEF RequestLost, LinkOK, LineOK
    <3> QED BY <3>1, <3>2
  <2> QED BY <2>1 DEF Suffix
<1>4. NonePolled => NonePolled'
  BY <1>3 DEF NonePolled
<1>5. NoPoll(wire) => NoPoll(wire')
  BY <1>2, SuffixKeeps, Zenon
<1>6. ASSUME OneAnswer(q)
      PROVE  /\ Only(rx', q) /\ Only(wire', q)
             /\ Rising(rx') /\ Rising(wire') /\ Precedes(rx', wire')
  BY <1>1, <1>2, <1>6, SuffixKeeps, Zenon DEF OneAnswer
<1>7. ASSUME OneAnswer(q), NEW i \in DOMAIN requests', requests'[i].reg \in Block
      PROVE  /\ requests'[i] = q /\ NoPoll(rx') /\ NoPoll(wire')
             /\ \A j \in DOMAIN requests' : requests'[j].reg \in Block => j = i
  <2>1. i + n \in DOMAIN requests /\ requests[i + n] = requests'[i]
    BY <1>3, <1>7
  <2>2. requests'[i] = q /\ NoPoll(rx') /\ NoPoll(wire')
    BY <1>1, <1>5, <1>7, <2>1, Zenon DEF OneAnswer
  <2>3. ASSUME NEW j \in DOMAIN requests', requests'[j].reg \in Block
        PROVE  j = i
    <3>1. j + n \in DOMAIN requests /\ requests[j + n].reg \in Block
      BY <1>3, <2>3
    <3>2. j + n = i + n
      BY <1>7, <2>1, <3>1, Zenon DEF OneAnswer
    <3>3. requests' \in Seq(Request)
      BY HeadTailType, Zenon DEF ByteLost, RequestLost, LinkOK, LineOK
    <3>4. i \in Nat /\ j \in Nat
      BY <1>7, <2>3, <3>3
    <3> QED BY <3>2, <3>4
  <2> QED BY <2>2, <2>3
<1>8. OneAnswer(q) => OneAnswer(q)'
  BY <1>6, <1>7, Zenon DEF OneAnswer, Only, Rising, Precedes, NoPoll
<1> QED BY <1>1, <1>4, <1>5, <1>8, Zenon DEF NoPoll

\* The controller answers the poller's request, or somebody else's.
LEMMA AnsweringKeeps ==
  ASSUME LinkOK, ControllerAnswers, NEW q
  PROVE  /\ NonePolled => NonePolled'
         /\ NonePolled /\ NoPoll(wire) => NoPoll(wire)'
         /\ NoPoll(rx) => NoPoll(rx)'
         /\ OneAnswer(q) => OneAnswer(q)'
<1> DEFINE r == Head(requests)
<1>1. /\ rx \in Seq(Byte) /\ wire \in Seq(Byte) /\ requests \in Seq(Request) /\ r \in Request
      /\ requests # <<>> /\ 1 \in DOMAIN requests /\ requests[1] = r
      /\ requests' \in Seq(Request)
      /\ rx' = rx /\ wire' = wire \o Answer(r) /\ requests' = Tail(requests)
  BY HeadTailType DEF ControllerAnswers, LinkOK, LineOK
<1>2. /\ \A i \in DOMAIN requests' : i + 1 \in DOMAIN requests /\ requests'[i] = requests[i + 1]
      /\ \A i \in DOMAIN requests' : i + 1 # 1
  BY <1>1
<1> HIDE DEF r
<1>3. NonePolled => NonePolled'
  BY <1>2 DEF NonePolled
<1>4. NonePolled => r.reg \notin Block
  BY <1>1, Zenon DEF NonePolled
<1>5. r.reg \notin Block /\ NoPoll(wire) => NoPoll(wire')
  BY <1>1, OtherAnswerKeeps, Zenon
<1>6. ASSUME OneAnswer(q)
      PROVE  OneAnswer(q)'
  <2>1. \A i \in DOMAIN requests : requests[i].reg \in Block =>
          /\ requests[i] = q /\ NoPoll(rx) /\ NoPoll(wire)
          /\ \A j \in DOMAIN requests : requests[j].reg \in Block => j = i
    BY <1>6, Zenon DEF OneAnswer
  <2>2. Only(rx, q) /\ Only(wire, q) /\ Rising(rx) /\ Rising(wire) /\ Precedes(rx, wire)
    BY <1>6, Zenon DEF OneAnswer
  <2>3. CASE r.reg \in Block
    <3>1. r = q /\ NoPoll(rx) /\ NoPoll(wire)
      BY <1>1, <2>1, <2>3, Zenon
    <3>2. NonePolled'
      BY <1>1, <1>2, <2>1, <2>3, Zenon DEF NonePolled
    <3>3. Only(wire', q) /\ Rising(wire')
      BY <1>1, <3>1, OwnAnswerRises, Zenon
    <3>4. Precedes(rx', wire')
      BY <1>1, <3>1, Zenon DEF Precedes, NoPoll
    <3> QED BY <1>1, <2>2, <3>2, <3>3, <3>4, Zenon DEF OneAnswer, NonePolled, Only, Rising, Precedes
  <2>4. CASE r.reg \notin Block
    <3>1. Only(wire', q) /\ Rising(wire') /\ Precedes(rx', wire')
      BY <1>1, <2>2, <2>4, OtherAnswerKeeps, Zenon
    <3>2. ASSUME NEW i \in DOMAIN requests', requests'[i].reg \in Block
          PROVE  /\ requests'[i] = q /\ NoPoll(rx') /\ NoPoll(wire')
                 /\ \A j \in DOMAIN requests' : requests'[j].reg \in Block => j = i
      <4>1. i + 1 \in DOMAIN requests /\ requests[i + 1] = requests'[i]
        BY <1>2, <3>2
      <4>2. requests'[i] = q /\ NoPoll(rx') /\ NoPoll(wire')
        BY <1>1, <1>5, <2>1, <2>4, <3>2, <4>1, Zenon
      <4>3. ASSUME NEW j \in DOMAIN requests', requests'[j].reg \in Block
            PROVE  j = i
        <5>1. j + 1 = i + 1
          BY <1>2, <2>1, <3>2, <4>1, <4>3, Zenon
        <5>2. i \in Nat /\ j \in Nat
          BY <1>1, <3>2, <4>3
        <5> QED BY <5>1, <5>2
      <4> QED BY <4>2, <4>3
    <3> QED BY <1>1, <2>2, <3>1, <3>2, Zenon DEF OneAnswer, NoPoll, Only, Rising, Precedes
  <2> QED BY <2>3, <2>4
<1> QED BY <1>1, <1>3, <1>4, <1>5, <1>6, Zenon DEF NoPoll

\* The watering task writes a request of its own.
LEMMA OtherWriteKeeps ==
  ASSUME LinkOK, SetterWrite, NEW q
  PROVE  /\ NonePolled => NonePolled'
         /\ OneAnswer(q) => OneAnswer(q)'
<1>1. LoadRequest.reg \notin Block
  BY DEF LinkOK, SetterOK, LoadRequest, Block
<1>2. \A i \in DOMAIN requests' : requests'[i].reg \in Block =>
        i \in DOMAIN requests /\ requests'[i] = requests[i]
  <2>1. requests' = Append(requests, LoadRequest) /\ requests \in Seq(Request)
    BY DEF SetterWrite, LinkOK, LineOK
  <2> HIDE DEF LoadRequest
  <2>2. \A i \in DOMAIN requests' : i \in DOMAIN requests \/ requests'[i] = LoadRequest
    BY <2>1
  <2>3. \A i \in DOMAIN requests : requests'[i] = requests[i]
    BY <2>1
  <2> QED BY <1>1, <2>2, <2>3, Zenon
<1>3. NonePolled => NonePolled'
  BY <1>2, Zenon DEF NonePolled
<1>4. OneAnswer(q) => OneAnswer(q)'
  BY <1>2, Zenon DEF OneAnswer, SetterWrite, NoPoll, Only, Rising, Precedes
<1> QED BY <1>3, <1>4

--------------------------------------------------------------------------------
\* Bytes are lost and arrive at the head of the wire, so that every answer on it is
\* there up to its last byte.
WireEnds ==
  \A i \in DOMAIN wire : \E j \in DOMAIN wire :
    j >= i /\ wire[j].of = wire[i].of /\ wire[j].no = Length(wire[j].of.reg)

LEMMA WireEndsKept ==
  ASSUME LinkOK, WireEnds, [Next]_vars
  PROVE  WireEnds'
<1>1. CASE UNCHANGED wire
  BY <1>1 DEF WireEnds
<1>2. CASE ByteArrives \/ ByteLost
  <2>1. wire \in Seq(Byte) /\ wire # <<>> /\ wire' = Tail(wire)
    BY <1>2 DEF LinkOK, LineOK, ByteArrives, ByteLost
  <2>2. ASSUME NEW i \in DOMAIN wire'
        PROVE  \E j \in DOMAIN wire' :
                 j >= i /\ wire'[j].of = wire'[i].of /\ wire'[j].no = Length(wire'[j].of.reg)
    <3>1. i + 1 \in DOMAIN wire /\ wire[i + 1] = wire'[i] /\ i \in Nat /\ i > 0
      BY <2>1, <2>2
    <3>2. PICK j \in DOMAIN wire :
            j >= i + 1 /\ wire[j].of = wire[i + 1].of /\ wire[j].no = Length(wire[j].of.reg)
      BY <3>1 DEF WireEnds
    <3>3. j - 1 \in DOMAIN wire' /\ wire'[j - 1] = wire[j] /\ j - 1 >= i
      BY <2>1, <3>1, <3>2
    <3> QED BY <3>1, <3>2, <3>3
  <2> QED BY <2>2 DEF WireEnds
<1>3. CASE ControllerAnswers
  <2> DEFINE r == Head(requests)
  <2>1. r \in Request /\ wire \in Seq(Byte) /\ wire' = wire \o Answer(r)
    BY <1>3, HeadTailType DEF ControllerAnswers, LinkOK, LineOK
  <2> HIDE DEF r
  <2>2. Length(r.reg) \in Nat \ {0} /\ Len(wire) \in Nat /\ DOMAIN wire = 1 .. Len(wire)
    BY <2>1, LengthType
  <2>3. /\ DOMAIN wire' = 1 .. Len(wire) + Length(r.reg)
        /\ \A i \in 1 .. Len(wire) : wire'[i] = wire[i]
        /\ \A i \in 1 .. Length(r.reg) : wire'[Len(wire) + i] = [of |-> r, no |-> i]
    BY <2>1, AnswerJoins, Zenon
  <2>4. ASSUME NEW i \in DOMAIN wire', i \notin DOMAIN wire
        PROVE  \E j \in DOMAIN wire' :
                 j >= i /\ wire'[j].of = wire'[i].of /\ wire'[j].no = Length(wire'[j].of.reg)
    <3> DEFINE j == Len(wire) + Length(r.reg)
    <3>1. i - Len(wire) \in 1 .. Length(r.reg) /\ Len(wire) + (i - Len(wire)) = i
      BY <2>2, <2>3, <2>4
    <3>2. wire'[i] = [of |-> r, no |-> i - Len(wire)]
      BY <2>3, <3>1, Zenon
    <3>3. Length(r.reg) \in 1 .. Length(r.reg) /\ j >= i /\ j \in DOMAIN wire'
      BY <2>2, <2>3
    <3>4. wire'[j] = [of |-> r, no |-> Length(r.reg)]
      BY <2>3, <3>3, Zenon
    <3> HIDE DEF j
    <3> QED BY <3>2, <3>3, <3>4
  <2>5. ASSUME NEW i \in DOMAIN wire
        PROVE  \E j \in DOMAIN wire' :
                 j >= i /\ wire'[j].of = wire'[i].of /\ wire'[j].no = Length(wire'[j].of.reg)
    <3>1. \A k \in DOMAIN wire : k \in DOMAIN wire' /\ wire'[k] = wire[k]
      BY <2>2, <2>3
    <3> QED BY <2>5, <3>1, Zenon DEF WireEnds
  <2> QED BY <2>4, <2>5, Zenon DEF WireEnds
<1> QED BY <1>1, <1>2, <1>3 DEF Next, SetLoad, SetterStep, SetterFlush, SetterWrite,
     SetterAcknowledged, SetterFails, PollerStep, PollBegins, PollerFlush, PollerWrite,
     PollerEnters, PollerReads, PollerTimesOut, RequestLost, line, vars

\* A poll that finds nothing owed to it finds nothing of its own on the line.
LEMMA NothingOwed ==
  ASSUME LinkOK, WireEnds, Owed(Block) = {}
  PROVE  NonePolled /\ NoPoll(wire)
<1>1. \A i \in DOMAIN requests : requests[i].reg \in Block => <<"asked", i>> \in Owed(Block)
  BY DEF Owed
<1>2. \A i \in DOMAIN wire : wire[i].of.reg \in Block /\ wire[i].no = Length(wire[i].of.reg)
        => <<"sent", i>> \in Owed(Block)
  BY DEF Owed
<1>3. NonePolled
  BY <1>1 DEF NonePolled
<1>4. NoPoll(wire)
  BY <1>2, Zenon DEF NoPoll, OfPoll, WireEnds
<1> QED BY <1>3, <1>4

\* The answers taken so far are those to this poll's requests, in their order.
InPlace == \A i \in DOMAIN got : \E b \in Block : Before(b) = i - 1 /\ got[i] = PollRequest(b)

AnswersInv == WireEnds /\ OnLine /\ InPlace

\* Whatever the watering task, the controller and the line do leaves the poller's
\* part of the line in order.
LEMMA OthersKeep ==
  ASSUME LinkOK, LinkOK', OnLine, UNCHANGED polling,
         \/ \E on \in BOOLEAN : SetLoad(on)
         \/ SetterStep \/ ControllerAnswers \/ ByteArrives \/ RequestLost \/ ByteLost
  PROVE  OnLine'
<1>1. poller' = poller /\ PollRequest(block)' = PollRequest(block)
  BY DEF polling, PollRequest
<1>2. SUFFICES ASSUME NEW q
               PROVE  /\ NonePolled /\ NoPoll(wire) => NonePolled' /\ NoPoll(wire)'
                      /\ NoPoll(wire) /\ NoPoll(rx) => NoPoll(rx)'
                      /\ OneAnswer(q) => OneAnswer(q)'
  BY <1>1, Zenon DEF OnLine
<1>3. CASE \E on \in BOOLEAN : SetLoad(on)
  <2>1. UNCHANGED <<requests, wire, rx>>
    BY <1>3 DEF SetLoad, line
  <2> QED BY <1>1, <2>1, Zenon DEF NonePolled, NoPoll, OneAnswer, Only, Rising, Precedes
<1>4. CASE SetterFlush \/ SetterAcknowledged \/ SetterFails
  <2>1. rx \in Seq(Byte) /\ EchoLength \in Nat /\ UNCHANGED <<requests, wire>>
    BY <1>4, LinkConstantsOK
       DEF LinkOK, LineOK, LinkConstantsOK, SetterFlush, SetterAcknowledged, SetterFails
  <2>2. rx' = <<>> \/ (EchoLength <= Len(rx) /\ rx' = Rest(EchoLength))
    BY <1>4, <2>1 DEF SetterFlush, SetterAcknowledged, SetterFails, TimesOut
  <2>3. Suffix(rx', rx)
    BY <2>1, <2>2, EmptySuffix, RestSuffix, Zenon
  <2> QED BY <2>1, <2>3, ReadKeeps, Zenon
<1>5. CASE SetterWrite
  <2>1. UNCHANGED <<wire, rx>>
    BY <1>5 DEF SetterWrite
  <2> QED BY <1>5, <2>1, OtherWriteKeeps, Zenon DEF NoPoll
<1>6. CASE ControllerAnswers
  BY <1>6, AnsweringKeeps, Zenon
<1>7. CASE ByteArrives
  BY <1>7, ArrivalKeeps, Zenon
<1>8. CASE RequestLost \/ ByteLost
  BY <1>8, LossKeeps, Zenon
<1> QED BY <1>3, <1>4, <1>5, <1>6, <1>7, <1>8, Zenon DEF SetterStep

\* A whole answer the poller reads is the one to its request, and nothing of it is left.
LEMMA WholeAnswer ==
  ASSUME LinkOK, NEW q, q = PollRequest(block), OneAnswer(q), Len(rx) >= Length(block),
         Plausible(Take(Length(block)), block)
  PROVE  /\ Take(Length(block))[1].of = q
         /\ NoPoll(Rest(Length(block))) /\ NoPoll(wire) /\ NonePolled
<1> DEFINE n == Length(block)
<1>1. n \in Nat \ {0} /\ rx \in Seq(Byte) /\ wire \in Seq(Byte) /\ Rest(n) \in Seq(Byte)
  BY LengthType, RestType DEF LinkOK, LineOK
<1>2. /\ \A i \in 1 .. n : i \in DOMAIN rx /\ Take(n)[i] = rx[i]
      /\ \A i \in DOMAIN Rest(n) : i + n \in DOMAIN rx /\ Rest(n)[i] = rx[i + n] /\ n < i + n
  BY <1>1 DEF Take, Rest
<1>3. PICK c \in Block, t \in BOOLEAN :
        Length(c) = Length(block) /\ Take(n) = Answer([reg |-> c, arg |-> t])
  BY DEF Plausible
<1>4. \A i \in 1 .. n : rx[i] = [of |-> [reg |-> c, arg |-> t], no |-> i]
  <2>1. \A i \in 1 .. n : Answer([reg |-> c, arg |-> t])[i] = [of |-> [reg |-> c, arg |-> t], no |-> i]
    BY <1>1, <1>3 DEF Answer
  <2> QED BY <1>2, <1>3, <2>1, Zenon
<1>5. 1 \in 1 .. n /\ n \in 1 .. n
  BY <1>1
<1>6. OfPoll(rx[1]) /\ OfPoll(rx[n]) /\ rx[n].no = n
  <2>1. rx[1] = [of |-> [reg |-> c, arg |-> t], no |-> 1] /\ rx[n] = [of |-> [reg |-> c, arg |-> t], no |-> n]
    BY <1>4, <1>5, Zenon
  <2> QED BY <2>1 DEF OfPoll
<1>7. Length(q.reg) = n
  BY DEF PollRequest
<1> HIDE DEF n
<1>8. Only(rx, q) /\ Only(wire, q) /\ Rising(rx) /\ Precedes(rx, wire)
  BY Zenon DEF OneAnswer
<1>9. Take(n)[1].of = q
  BY <1>2, <1>5, <1>6, <1>8, Zenon DEF Only
<1>10. NoPoll(Rest(n))
  <2>1. ASSUME NEW i \in DOMAIN Rest(n), OfPoll(Rest(n)[i])
        PROVE  FALSE
    <3>1. rx[n].no < rx[i + n].no
      BY <1>2, <1>5, <1>6, <1>8, <2>1, Zenon DEF Rising
    <3>2. rx[i + n].no <= n
      BY <1>2, <1>7, <1>8, <2>1, Zenon DEF Only
    <3>3. rx[i + n] \in Byte
      BY <1>1, <1>2, <2>1
    <3>4. rx[i + n].no \in Nat
      BY <3>3 DEF Byte
    <3> QED BY <1>1, <1>6, <3>1, <3>2, <3>4
  <2> QED BY <2>1, Zenon DEF NoPoll
<1>11. NoPoll(wire)
  <2>1. ASSUME NEW i \in DOMAIN wire, OfPoll(wire[i])
        PROVE  FALSE
    <3>1. rx[n].no < wire[i].no
      BY <1>2, <1>5, <1>6, <1>8, <2>1, Zenon DEF Precedes
    <3>2. wire[i].no <= n
      BY <1>7, <1>8, <2>1, Zenon DEF Only
    <3>3. wire[i] \in Byte
      BY <1>1, <2>1
    <3>4. wire[i].no \in Nat
      BY <3>3 DEF Byte
    <3> QED BY <1>1, <1>6, <3>1, <3>2, <3>4
  <2> QED BY <2>1, Zenon DEF NoPoll
<1>12. NonePolled
  BY <1>2, <1>5, <1>6, Zenon DEF OneAnswer, NonePolled, NoPoll
<1> QED BY <1>9, <1>10, <1>11, <1>12, Zenon DEF n

LEMMA NothingTaken == got' = <<>> => InPlace'
BY EmptyType DEF InPlace

LEMMA SameTaken == UNCHANGED <<got, turn>> => (InPlace => InPlace')
BY DEF InPlace, PollRequest

\* The poller writes the only request of its own on the line.
LEMMA OwnWriteMakes ==
  ASSUME LinkOK, PollerWrite, NonePolled, NoPoll(wire), NoPoll(rx), NEW q, q = PollRequest(block)
  PROVE  OneAnswer(q)'
<1>1. requests' = Append(requests, q) /\ requests \in Seq(Request) /\ UNCHANGED <<rx, wire>>
  BY DEF PollerWrite, LinkOK, LineOK
<1>2. ASSUME NEW i \in DOMAIN requests', requests'[i].reg \in Block
      PROVE  i = Len(requests) + 1 /\ requests'[i] = q
  <2>1. i \notin DOMAIN requests
    BY <1>1, <1>2 DEF NonePolled
  <2> QED BY <1>1, <1>2, <2>1
<1>3. NoPoll(rx)' /\ NoPoll(wire)'
  BY <1>1 DEF NoPoll
<1>4. \A i \in DOMAIN requests' : requests'[i].reg \in Block =>
        /\ requests'[i] = q /\ NoPoll(rx)' /\ NoPoll(wire)'
        /\ \A j \in DOMAIN requests' : requests'[j].reg \in Block => j = i
  BY <1>2, <1>3, Zenon
<1>5. Only(rx, q)' /\ Only(wire, q)' /\ Rising(rx)' /\ Rising(wire)' /\ Precedes(rx, wire)'
  BY <1>3, Zenon DEF NoPoll, Only, Rising, Precedes
<1> QED BY <1>4, <1>5, Zenon DEF OneAnswer

LEMMA PollerKeepsAnswers ==
  ASSUME LinkOK, LinkOK', WireEnds, OnLine, InPlace, PollerStep
  PROVE  OnLine' /\ InPlace'
<1>1. ASSUME poller' = "rest"
      PROVE  OnLine'
  BY <1>1 DEF OnLine
<1>2. CASE PollBegins
  <2>1. poller' = "flush" /\ got' = <<>> /\ UNCHANGED <<requests, wire>> /\ Owed(Block) = {}
    BY <1>2 DEF PollBegins, line
  <2>2. NonePolled' /\ NoPoll(wire)'
    BY <2>1, NothingOwed DEF NonePolled, NoPoll
  <2>3. OnLine'
    BY <2>1, <2>2 DEF OnLine
  <2> QED BY <2>1, <2>3, NothingTaken
<1>3. CASE PollerFlush
  <2>1. NonePolled /\ NoPoll(wire)
    BY <1>3 DEF PollerFlush, OnLine
  <2>2. NonePolled' /\ NoPoll(wire)' /\ NoPoll(rx)'
    BY <1>3, <2>1, EmptyType DEF PollerFlush, NonePolled, NoPoll
  <2>3. OnLine'
    BY <1>3, <2>2 DEF OnLine, PollerFlush
  <2> QED BY <1>3, <2>3, SameTaken DEF PollerFlush
<1>4. CASE PollerWrite
  <2>1. NonePolled /\ NoPoll(wire) /\ NoPoll(rx) /\ poller' = "enter" /\ UNCHANGED <<block, got, turn>>
    BY <1>4 DEF PollerWrite, OnLine
  <2>2. PollRequest(block)' = PollRequest(block)
    BY <2>1 DEF PollRequest
  <2>3. ASSUME NEW q, q = PollRequest(block)
        PROVE  OneAnswer(q)'
    BY <1>4, <2>1, <2>3, OwnWriteMakes, Zenon
  <2>4. OnLine'
    BY <2>1, <2>2, <2>3 DEF OnLine
  <2> QED BY <2>1, <2>4, SameTaken
<1>5. CASE PollerEnters
  <2>1. CASE PollFails
    BY <1>1, <2>1, NothingTaken DEF PollFails
  <2>2. CASE poller' = "read" /\ UNCHANGED <<block, got>>
    <3>1. UNCHANGED <<requests, wire, rx, turn, block, got>> /\ poller = "enter"
      BY <1>5, <2>2 DEF PollerEnters, line
    <3>2. PollRequest(block)' = PollRequest(block)
      BY <3>1 DEF PollRequest
    <3>3. ASSUME NEW q, q = PollRequest(block)
          PROVE  OneAnswer(q)'
      <4>1. OneAnswer(q)
        BY <3>1, <3>3 DEF OnLine
      <4> QED BY <3>1, <4>1, Zenon DEF OneAnswer, NoPoll, Only, Rising, Precedes
    <3>4. OnLine'
      BY <2>2, <3>2, <3>3 DEF OnLine
    <3> QED BY <3>1, <3>4, SameTaken
  <2> QED BY <1>5, <2>1, <2>2 DEF PollerEnters
<1>6. CASE PollerReads /\ ~PollFails
  <2> DEFINE bytes == Take(Length(block))
  <2>1. PICK q : q = PollRequest(block)
    OBVIOUS
  <2>2. /\ poller = "read" /\ Len(rx) >= Length(block) /\ Plausible(bytes, block)
        /\ got' = Append(got, bytes[1].of)
        /\ rx' = Rest(Length(block)) /\ UNCHANGED <<turn, requests, wire>>
    BY <1>6, Zenon DEF PollerReads
  <2>3. poller' \in {"flush", "rest"}
    BY <1>6, Zenon DEF PollerReads
  <2>4. OneAnswer(q)
    BY <2>1, <2>2 DEF OnLine
  <2>5. bytes[1].of = q /\ NoPoll(Rest(Length(block))) /\ NoPoll(wire) /\ NonePolled
    BY <2>1, <2>2, <2>4, WholeAnswer, Zenon
  <2> HIDE DEF bytes
  <2>6. NonePolled' /\ NoPoll(wire)'
    BY <2>2, <2>5 DEF NonePolled, NoPoll
  <2>7. OnLine'
    BY <2>3, <2>6 DEF OnLine
  <2>8. got \in Seq(Request) /\ Len(got) = Before(block) /\ block \in Block
    BY <2>2 DEF LinkOK, PollerOK
  <2>9. ASSUME NEW i \in DOMAIN got'
        PROVE  \E b \in Block : Before(b) = i - 1 /\ got'[i] = PollRequest(b)'
    <3>1. \A b : PollRequest(b)' = PollRequest(b)
      BY <2>2 DEF PollRequest
    <3>2. CASE i \in DOMAIN got
      <4>1. got'[i] = got[i]
        BY <2>2, <2>8, <3>2
      <4> QED BY <3>1, <3>2, <4>1, Zenon DEF InPlace
    <3>3. CASE i \notin DOMAIN got
      <4>1. i = Len(got) + 1 /\ got'[i] = q
        BY <2>2, <2>5, <2>8, <3>3
      <4>2. Before(block) = i - 1
        BY <2>8, <4>1
      <4> QED BY <2>1, <2>8, <3>1, <4>1, <4>2
    <3> QED BY <3>2, <3>3
  <2> QED BY <2>7, <2>9, Zenon DEF InPlace
<1>7. CASE PollFails
  BY <1>1, <1>7, NothingTaken DEF PollFails
<1> QED BY <1>2, <1>3, <1>4, <1>5, <1>6, <1>7 DEF PollerStep, PollerTimesOut

LEMMA LinkOKAlways == Spec => []LinkOK
<1>1. Init => LinkOK
  BY LinkOKAtFirst
<1>2. LinkOK /\ [Next]_vars => LinkOK'
  BY LinkOKKept
<1> QED BY <1>1, <1>2, PTL DEF Spec

LEMMA AnswersInvAlways == Spec => []AnswersInv
<1>1. Init => AnswersInv
  <2>1. Init => WireEnds /\ InPlace
    BY EmptyType DEF Init, WireEnds, InPlace
  <2>2. Init => OnLine
    BY DEF Init, OnLine
  <2> QED BY <2>1, <2>2 DEF AnswersInv
<1>2. LinkOK /\ LinkOK' /\ AnswersInv /\ [Next]_vars => AnswersInv'
  <2> SUFFICES ASSUME LinkOK, LinkOK', WireEnds, OnLine, InPlace, [Next]_vars
               PROVE  WireEnds' /\ OnLine' /\ InPlace'
    BY Zenon DEF AnswersInv
  <2>1. WireEnds'
    BY WireEndsKept
  <2>2. CASE PollerStep
    BY <2>1, <2>2, PollerKeepsAnswers
  <2>3. CASE \/ \E on \in BOOLEAN : SetLoad(on)
             \/ SetterStep \/ ControllerAnswers \/ ByteArrives \/ RequestLost \/ ByteLost
    <3>1. UNCHANGED polling
      BY <2>3 DEF SetLoad, SetterStep, SetterFlush, SetterWrite, SetterAcknowledged, SetterFails,
                  ControllerAnswers, ByteArrives, RequestLost, ByteLost
    <3>2. UNCHANGED <<got, turn>>
      BY <3>1 DEF polling
    <3>3. OnLine'
      BY <2>3, <3>1, OthersKeep
    <3> QED BY <2>1, <3>2, <3>3, SameTaken
  <2>4. CASE UNCHANGED vars
    <3>1. UNCHANGED <<poller, block, got, turn, requests, wire, rx>>
      BY <2>4 DEF vars, polling, line
    <3>2. PollRequest(block)' = PollRequest(block)
      BY <3>1 DEF PollRequest
    <3>3. OnLine'
      BY <3>1, <3>2, Zenon DEF OnLine, OneAnswer, NonePolled, NoPoll, Only, Rising, Precedes
    <3> QED BY <2>1, <3>1, <3>3, SameTaken
  <2> QED BY <2>2, <2>3, <2>4 DEF Next
<1> QED BY <1>1, <1>2, LinkOKAlways, PTL DEF Spec

\* Whatever is lost, late or read by the other task, for answers of any length: the
\* three blocks that poll() publishes are those asked for in this poll, in their places.
THEOREM SnapshotIsWholeCorrect == Spec => SnapshotIsWhole
<1>1. AnswersInv' /\ LinkOK' /\ [Next]_vars =>
        [Publishes => got' = <<PollRequest("realtime"), PollRequest("historical"),
                               PollRequest("status")>>]_vars
  <2> SUFFICES ASSUME InPlace', LinkOK', [Next]_vars, Publishes
               PROVE  got' = <<PollRequest("realtime"), PollRequest("historical"),
                               PollRequest("status")>>
    BY Zenon DEF AnswersInv
  <2>1. turn' = turn
    BY DEF Publishes, Next, SetLoad, SetterStep, SetterFlush, SetterWrite, SetterAcknowledged,
           SetterFails, PollerStep, PollBegins, PollerFlush, PollerWrite, PollerEnters,
           PollerReads, PollerTimesOut, ControllerAnswers, ByteArrives, RequestLost, ByteLost,
           vars, polling
  <2>2. \A b : PollRequest(b)' = PollRequest(b)
    BY <2>1 DEF PollRequest
  <2>3. got' \in Seq(Request) /\ Len(got') = 3
    BY DEF LinkOK, PollerOK, Publishes
  <2>4. \A i \in 1 .. 3 : \E b \in Block : Before(b) = i - 1 /\ got'[i] = PollRequest(b)
    BY <2>2, <2>3 DEF InPlace
  <2>5. Before("realtime") = 0 /\ Before("historical") = 1 /\ Before("status") = 2
    BY DEF Before
  <2>6. /\ got'[1] = PollRequest("realtime")
        /\ got'[2] = PollRequest("historical")
        /\ got'[3] = PollRequest("status")
    BY <2>4, <2>5 DEF Block
  <2> QED BY <2>3, <2>6
<1> QED BY <1>1, AnswersInvAlways, LinkOKAlways, PTL DEF Spec, SnapshotIsWhole

--------------------------------------------------------------------------------
\* The last switch of the load that is on the wire is the one in force.
LastEcho ==
  \A i \in DOMAIN wire : wire[i].of.reg = "load" =>
    \E j \in DOMAIN wire : j >= i /\ wire[j].of.reg = "load" /\ wire[j].of.arg = loadReg

LEMMA LastEchoKept ==
  ASSUME LinkOK, LastEcho, [Next]_vars
  PROVE  LastEcho'
<1>1. CASE UNCHANGED <<wire, loadReg>>
  BY <1>1 DEF LastEcho
<1>2. CASE ByteArrives \/ ByteLost
  <2>1. wire \in Seq(Byte) /\ wire # <<>> /\ wire' = Tail(wire) /\ loadReg' = loadReg
    BY <1>2 DEF LinkOK, LineOK, ByteArrives, ByteLost
  <2>2. ASSUME NEW i \in DOMAIN wire', wire'[i].of.reg = "load"
        PROVE  \E j \in DOMAIN wire' :
                 j >= i /\ wire'[j].of.reg = "load" /\ wire'[j].of.arg = loadReg'
    <3>1. i + 1 \in DOMAIN wire /\ wire[i + 1] = wire'[i] /\ i \in Nat /\ i > 0
      BY <2>1, <2>2
    <3>2. PICK j \in DOMAIN wire :
            j >= i + 1 /\ wire[j].of.reg = "load" /\ wire[j].of.arg = loadReg
      BY <2>2, <3>1 DEF LastEcho
    <3>3. j - 1 \in DOMAIN wire' /\ wire'[j - 1] = wire[j] /\ j - 1 >= i
      BY <2>1, <3>1, <3>2
    <3> QED BY <2>1, <3>2, <3>3, Zenon
  <2> QED BY <2>2 DEF LastEcho
<1>3. CASE ControllerAnswers
  <2> DEFINE r == Head(requests)
  <2>1. r \in Request /\ wire \in Seq(Byte) /\ wire' = wire \o Answer(r)
    BY <1>3, HeadTailType DEF ControllerAnswers, LinkOK, LineOK
  <2>2. loadReg' = IF r.reg = "load" THEN r.arg ELSE loadReg
    BY <1>3 DEF ControllerAnswers
  <2> HIDE DEF r
  <2>3. Length(r.reg) \in Nat \ {0} /\ Len(wire) \in Nat /\ DOMAIN wire = 1 .. Len(wire)
    BY <2>1, LengthType
  <2>4. /\ DOMAIN wire' = 1 .. Len(wire) + Length(r.reg)
        /\ \A i \in 1 .. Len(wire) : wire'[i] = wire[i]
        /\ \A i \in 1 .. Length(r.reg) : wire'[Len(wire) + i] = [of |-> r, no |-> i]
    BY <2>1, AnswerJoins, Zenon
  <2>5. ASSUME NEW i \in DOMAIN wire', i \notin DOMAIN wire
        PROVE  wire'[i].of = r
    <3>1. i - Len(wire) \in 1 .. Length(r.reg) /\ Len(wire) + (i - Len(wire)) = i
      BY <2>3, <2>4, <2>5
    <3>2. wire'[Len(wire) + (i - Len(wire))] = [of |-> r, no |-> i - Len(wire)]
      BY <2>4, <3>1, Zenon
    <3> QED BY <3>1, <3>2
  <2>6. CASE r.reg = "load"
    <3> DEFINE j == Len(wire) + Length(r.reg)
    <3>1. j \in DOMAIN wire' /\ j \notin DOMAIN wire /\ \A i \in DOMAIN wire' : j >= i
      BY <2>3, <2>4
    <3>2. wire'[j].of = r
      BY <2>5, <3>1
    <3> HIDE DEF j
    <3>3. wire'[j].of.reg = "load" /\ wire'[j].of.arg = loadReg'
      BY <2>2, <2>6, <3>2, Zenon
    <3> QED BY <3>1, <3>3, Zenon DEF LastEcho
  <2>7. CASE r.reg # "load"
    <3>1. loadReg' = loadReg
      BY <2>2, <2>7, Zenon
    <3>2. ASSUME NEW i \in DOMAIN wire', wire'[i].of.reg = "load"
          PROVE  i \in DOMAIN wire /\ wire[i].of.reg = "load"
      BY <2>3, <2>4, <2>5, <2>7, <3>2
    <3>3. \A k \in DOMAIN wire : k \in DOMAIN wire' /\ wire'[k] = wire[k]
      BY <2>3, <2>4
    <3> QED BY <3>1, <3>2, <3>3, Zenon DEF LastEcho
  <2> QED BY <2>6, <2>7
<1> QED BY <1>1, <1>2, <1>3 DEF Next, SetLoad, SetterStep, SetterFlush, SetterWrite,
     SetterAcknowledged, SetterFails, PollerStep, PollBegins, PollerFlush, PollerWrite,
     PollerEnters, PollerReads, PollerTimesOut, RequestLost, line, vars

\* Echoes of switches to v that setLoad(v) may still hear: those on the wire and, once
\* it has discarded what was received before its second write, those received.
Switches(q, v) == q.reg = "load" /\ q.arg = v
Echoes(s, v) == \E i \in DOMAIN s : Switches(s[i].of, v)
Hears(v) ==
  \/ Echoes(wire, v)
  \/ target = "load" /\ setter \in {"write", "read"} /\ Echoes(rx, v)

\* While setLoad(v) hears such an echo the load is at v, and a switch to the other
\* value is not going to be done after one to v.
EchoFor(v) ==
  /\ Hears(v) => loadReg = v
  /\ \A i \in DOMAIN requests : requests[i].reg = "load" /\ requests[i].arg # v =>
       ~Hears(v) /\ \A j \in DOMAIN requests : j < i => ~Switches(requests[j], v)
EchoInv == setter # "idle" => \A v \in {value} : EchoFor(v)

LEMMA FewerRequestsKeep ==
  ASSUME LinkOK, LinkOK', NEW v, EchoFor(v), Suffix(requests', requests), loadReg' = loadReg,
         Hears(v)' => Hears(v)
  PROVE  EchoFor(v)'
<1>1. PICK n \in Nat : \A i \in DOMAIN requests' :
        i + n \in DOMAIN requests /\ requests'[i] = requests[i + n]
  BY DEF Suffix
<1>2. Hears(v)' => loadReg' = v
  BY Zenon DEF EchoFor
<1>3. ASSUME NEW i \in DOMAIN requests', requests'[i].reg = "load", requests'[i].arg # v
      PROVE  ~Hears(v)' /\ \A j \in DOMAIN requests' : j < i => ~Switches(requests'[j], v)
  <2>1. i + n \in DOMAIN requests /\ requests[i + n] = requests'[i]
    BY <1>1, <1>3
  <2>2. ~Hears(v) /\ \A j \in DOMAIN requests : j < i + n => ~Switches(requests[j], v)
    BY <1>3, <2>1, Zenon DEF EchoFor
  <2>3. ASSUME NEW j \in DOMAIN requests', j < i
        PROVE  ~Switches(requests'[j], v)
    <3>1. requests' \in Seq(Request)
      BY DEF LinkOK, LineOK
    <3>2. j + n < i + n
      BY <1>3, <2>3, <3>1
    <3> QED BY <1>1, <2>2, <2>3, <3>2, Zenon
  <2> QED BY <2>2, <2>3, Zenon
<1> QED BY <1>2, <1>3, Zenon DEF EchoFor

LEMMA LaterRequestKeeps ==
  ASSUME LinkOK, NEW v, EchoFor(v), NEW q, requests' = Append(requests, q), loadReg' = loadReg,
         q.reg = "load" => q.arg = v, Hears(v)' => Hears(v)
  PROVE  EchoFor(v)'
<1>1. Hears(v)' => loadReg' = v
  BY Zenon DEF EchoFor
<1>2. ASSUME NEW i \in DOMAIN requests', requests'[i].reg = "load", requests'[i].arg # v
      PROVE  ~Hears(v)' /\ \A j \in DOMAIN requests' : j < i => ~Switches(requests'[j], v)
  <2>1. requests \in Seq(Request)
    BY DEF LinkOK, LineOK
  <2>2. i \in DOMAIN requests \/ requests'[i] = q
    BY <1>2, <2>1
  <2>3. i \in DOMAIN requests
    BY <1>2, <2>2, Zenon
  <2>4. requests'[i] = requests[i] /\ \A j \in DOMAIN requests' :
          j < i => j \in DOMAIN requests /\ requests'[j] = requests[j]
    BY <2>1, <2>3
  <2>5. ~Hears(v) /\ \A j \in DOMAIN requests : j < i => ~Switches(requests[j], v)
    BY <1>2, <2>3, <2>4, Zenon DEF EchoFor
  <2> QED BY <2>4, <2>5, Zenon
<1> QED BY <1>1, <1>2, Zenon DEF EchoFor

LEMMA SuffixEchoes ==
  ASSUME NEW s, NEW t, Suffix(t, s), NEW v, Echoes(t, v)
  PROVE  Echoes(s, v)
BY DEF Suffix, Echoes

\* At a call at most one earlier switch is still to be echoed: it is in force, or it
\* is not done yet and nothing of another one is on the wire.
LEMMA CallBegins ==
  ASSUME LinkOK, WireEnds, LastEcho, NEW on \in BOOLEAN, SetLoad(on), NEW v, v = on
  PROVE  EchoFor(v)'
<1>1. FewOwed /\ setter' = "flush" /\ UNCHANGED <<requests, wire, rx, loadReg>>
  BY DEF SetLoad, line
<1>2. /\ \A i \in DOMAIN requests : requests[i].reg = "load" => <<"asked", i>> \in Owed({"load"})
      /\ \A j \in DOMAIN wire : wire[j].of.reg = "load" /\ wire[j].no = Length(wire[j].of.reg)
           => <<"sent", j>> \in Owed({"load"})
  BY DEF Owed
<1>3. \A e, f \in Owed({"load"}) : e = f
  BY <1>1, Zenon DEF FewOwed
<1>4. ASSUME NEW i \in DOMAIN wire, wire[i].of.reg = "load"
      PROVE  \E j \in DOMAIN wire : wire[j].of = wire[i].of /\ <<"sent", j>> \in Owed({"load"})
  BY <1>2, <1>4, Zenon DEF WireEnds
<1>5. ASSUME NEW i \in DOMAIN wire, wire[i].of.reg = "load", NEW j \in DOMAIN wire, wire[j].of.reg = "load"
      PROVE  wire[i].of = wire[j].of
  <2>1. PICK k \in DOMAIN wire : wire[k].of = wire[i].of /\ <<"sent", k>> \in Owed({"load"})
    BY <1>4, <1>5, Zenon
  <2>2. PICK m \in DOMAIN wire : wire[m].of = wire[j].of /\ <<"sent", m>> \in Owed({"load"})
    BY <1>4, <1>5, Zenon
  <2>3. <<"sent", k>> = <<"sent", m>>
    BY <1>3, <2>1, <2>2, Zenon
  <2>4. k = m
    BY <2>3
  <2> QED BY <2>1, <2>2, <2>4
<1>6. ASSUME NEW i \in DOMAIN wire, wire[i].of.reg = "load", NEW j \in DOMAIN requests, requests[j].reg = "load"
      PROVE  FALSE
  <2>1. PICK k \in DOMAIN wire : <<"sent", k>> \in Owed({"load"})
    BY <1>4, <1>6, Zenon
  <2>2. <<"sent", k>> = <<"asked", j>>
    BY <1>2, <1>3, <1>6, <2>1, Zenon
  <2> QED BY <2>2
<1>7. ASSUME NEW i \in DOMAIN requests, requests[i].reg = "load", NEW j \in DOMAIN requests, requests[j].reg = "load"
      PROVE  i = j
  <2>1. <<"asked", i>> = <<"asked", j>>
    BY <1>2, <1>3, <1>7, Zenon
  <2> QED BY <2>1
<1>8. Hears(v)' => Echoes(wire, v)
  BY <1>1 DEF Hears, Echoes
<1>9. ASSUME Echoes(wire, v)
      PROVE  loadReg = v
  <2>1. PICK i \in DOMAIN wire : wire[i].of.reg = "load" /\ wire[i].of.arg = v
    BY <1>9, Zenon DEF Echoes, Switches
  <2>2. PICK j \in DOMAIN wire : wire[j].of.reg = "load" /\ wire[j].of.arg = loadReg
    BY <2>1, Zenon DEF LastEcho
  <2>3. wire[i].of = wire[j].of
    BY <1>5, <2>1, <2>2, Zenon
  <2> QED BY <2>1, <2>2, <2>3
<1>10. ASSUME NEW i \in DOMAIN requests, requests[i].reg = "load"
       PROVE  ~Echoes(wire, v) /\ \A j \in DOMAIN requests : j < i => ~Switches(requests[j], v)
  <2>1. ~Echoes(wire, v)
    BY <1>6, <1>10, Zenon DEF Echoes, Switches
  <2>2. ASSUME NEW j \in DOMAIN requests, j < i, Switches(requests[j], v)
        PROVE  FALSE
    <3>1. i = j
      BY <1>7, <1>10, <2>2, Zenon DEF Switches
    <3>2. requests \in Seq(Request)
      BY DEF LinkOK, LineOK
    <3>3. i \in Nat
      BY <1>10, <3>2
    <3> QED BY <2>2, <3>1, <3>3
  <2> QED BY <2>1, <2>2
<1>11. requests' = requests /\ loadReg' = loadReg
  BY <1>1
<1> QED BY <1>8, <1>9, <1>10, <1>11, Zenon DEF EchoFor, Switches

\* The controller switches the load before it answers.
LEMMA SwitchingKeeps ==
  ASSUME LinkOK, LinkOK', ControllerAnswers, NEW v, EchoFor(v)
  PROVE  EchoFor(v)'
<1> DEFINE r == Head(requests)
<1>1. /\ wire \in Seq(Byte) /\ requests \in Seq(Request) /\ requests' \in Seq(Request)
      /\ r \in Request /\ requests # <<>> /\ 1 \in DOMAIN requests /\ requests[1] = r
      /\ wire' = wire \o Answer(r) /\ requests' = Tail(requests)
      /\ UNCHANGED <<setter, target, rx>>
  BY HeadTailType DEF ControllerAnswers, LinkOK, LineOK, watering
<1>2. loadReg' = IF r.reg = "load" THEN r.arg ELSE loadReg
  BY DEF ControllerAnswers
<1>3. /\ \A i \in DOMAIN requests' : i + 1 \in DOMAIN requests /\ requests'[i] = requests[i + 1]
      /\ \A i \in DOMAIN requests' : 1 < i + 1
  BY <1>1
<1>4. Suffix(requests', requests)
  BY <1>1, TailSuffix, Zenon
<1> HIDE DEF r
<1>5. Len(wire) \in Nat /\ Length(r.reg) \in Nat /\ DOMAIN wire = 1 .. Len(wire)
  BY <1>1, LengthType
<1>6. /\ DOMAIN wire' = 1 .. Len(wire) + Length(r.reg)
      /\ \A i \in 1 .. Len(wire) : wire'[i] = wire[i]
      /\ \A i \in 1 .. Length(r.reg) : wire'[Len(wire) + i] = [of |-> r, no |-> i]
  <2>1. r \in Request /\ wire \in Seq(Byte) /\ wire' = wire \o Answer(r)
    BY <1>1
  <2> QED BY <2>1, AnswerJoins, Zenon
<1>7. ASSUME NEW i \in DOMAIN wire'
      PROVE  (i \in DOMAIN wire /\ wire'[i] = wire[i]) \/ wire'[i].of = r
  <2>1. CASE i \in DOMAIN wire
    BY <1>5, <1>6, <2>1
  <2>2. CASE i \notin DOMAIN wire
    <3>1. i - Len(wire) \in 1 .. Length(r.reg) /\ Len(wire) + (i - Len(wire)) = i
      BY <1>5, <1>6, <1>7, <2>2
    <3>2. wire'[Len(wire) + (i - Len(wire))] = [of |-> r, no |-> i - Len(wire)]
      BY <1>6, <3>1, Zenon
    <3> QED BY <3>1, <3>2
  <2> QED BY <2>1, <2>2
<1>8. ~Switches(r, v) => (Hears(v)' => Hears(v))
  <2>1. Echoes(wire, v)' => Echoes(wire, v) \/ Switches(r, v)
    BY <1>7, Zenon DEF Echoes, Switches
  <2>2. Echoes(rx, v)' = Echoes(rx, v) /\ target' = target /\ setter' = setter
    BY <1>1 DEF Echoes
  <2> QED BY <2>1, <2>2, Zenon DEF Hears
<1>9. CASE r.reg # "load"
  <2>1. loadReg' = loadReg /\ ~Switches(r, v)
    BY <1>2, <1>9, Zenon DEF Switches
  <2> QED BY <1>4, <1>8, <2>1, FewerRequestsKeep, Zenon
<1>10. CASE r.reg = "load" /\ r.arg # v
  <2>1. ~Switches(r, v) /\ ~Hears(v)
    BY <1>1, <1>10, Zenon DEF Switches, EchoFor
  <2>2. ~Hears(v)'
    BY <1>8, <2>1, Zenon
  <2>3. ASSUME NEW i \in DOMAIN requests', requests'[i].reg = "load", requests'[i].arg # v
        PROVE  \A j \in DOMAIN requests' : j < i => ~Switches(requests'[j], v)
    <3>1. \A j \in DOMAIN requests : j < i + 1 => ~Switches(requests[j], v)
      BY <1>3, <2>3, Zenon DEF EchoFor
    <3>2. \A j \in DOMAIN requests' : j < i => j + 1 < i + 1
      BY <1>1, <2>3
    <3> QED BY <1>3, <3>1, <3>2, Zenon
  <2> QED BY <2>2, <2>3, Zenon DEF EchoFor
<1>11. CASE Switches(r, v)
  <2>1. loadReg' = v
    BY <1>2, <1>11, Zenon DEF Switches
  <2>2. ASSUME NEW i \in DOMAIN requests', requests'[i].reg = "load", requests'[i].arg # v
        PROVE  FALSE
    <3>1. \A j \in DOMAIN requests : j < i + 1 => ~Switches(requests[j], v)
      BY <1>3, <2>2, Zenon DEF EchoFor
    <3> QED BY <1>1, <1>3, <1>11, <2>2, <3>1, Zenon
  <2> QED BY <2>1, <2>2, Zenon DEF EchoFor
<1> QED BY <1>9, <1>10, <1>11, Zenon DEF Switches

LEMMA SetterKeepsEcho ==
  ASSUME LinkOK, LinkOK', SetterStep, setter' # "idle", NEW v, v = value, EchoFor(v)
  PROVE  EchoFor(v)'
<1>1. CASE SetterFlush
  <2>1. UNCHANGED <<requests, wire, loadReg>> /\ rx' = <<>>
    BY <1>1 DEF SetterFlush
  <2>2. Suffix(requests', requests)
    BY <2>1, SameSuffix, Zenon DEF LinkOK, LineOK
  <2>3. Hears(v)' => Hears(v)
    BY <2>1 DEF Hears, Echoes
  <2> QED BY <2>1, <2>2, <2>3, FewerRequestsKeep, Zenon
<1>2. CASE SetterWrite
  <2>1. PICK q : q = LoadRequest
    OBVIOUS
  <2>2. /\ UNCHANGED <<wire, rx, loadReg, target>> /\ setter = "write" /\ setter' = "read"
        /\ requests' = Append(requests, q)
    BY <1>2, <2>1 DEF SetterWrite
  <2>3. q.reg = "load" => q.arg = v
    BY <2>1 DEF LoadRequest
  <2>4. Hears(v)' => Hears(v)
    BY <2>2 DEF Hears, Echoes
  <2> QED BY <2>2, <2>3, <2>4, LaterRequestKeeps, Zenon
<1>3. CASE SetterAcknowledged
  <2>1. setter' = "flush" /\ UNCHANGED <<requests, wire, loadReg>>
    BY <1>3 DEF SetterAcknowledged
  <2>2. Suffix(requests', requests)
    BY <2>1, SameSuffix, Zenon DEF LinkOK, LineOK
  <2>3. Hears(v)' => Hears(v)
    BY <2>1 DEF Hears, Echoes
  <2> QED BY <2>1, <2>2, <2>3, FewerRequestsKeep, Zenon
<1>4. CASE SetterFails
  BY <1>4 DEF SetterFails
<1> QED BY <1>1, <1>2, <1>3, <1>4 DEF SetterStep

LEMMA PollerKeepsEcho ==
  ASSUME LinkOK, LinkOK', PollerStep, NEW v, EchoFor(v)
  PROVE  EchoFor(v)'
<1>1. UNCHANGED <<setter, target, wire, loadReg>>
  BY DEF PollerStep, PollBegins, PollerFlush, PollerWrite, PollerEnters, PollerReads,
         PollerTimesOut, watering, line
<1>2. Length(block) \in Nat /\ rx \in Seq(Byte)
  BY LengthType DEF LinkOK, LineOK
<1>3. Suffix(rx', rx)
  <2>1. rx' = rx \/ rx' = <<>> \/ (Length(block) <= Len(rx) /\ rx' = Rest(Length(block)))
    BY <1>2 DEF PollerStep, PollBegins, PollerFlush, PollerWrite, PollerEnters, PollerReads,
           PollerTimesOut, TimesOut, line
  <2> QED BY <1>2, <2>1, SameSuffix, EmptySuffix, RestSuffix, Zenon
<1>4. Hears(v)' => Hears(v)
  <2>1. Echoes(rx, v)' => Echoes(rx, v)
    BY <1>3, SuffixEchoes, Zenon DEF Echoes
  <2> QED BY <1>1, <2>1 DEF Hears, Echoes
<1>5. CASE requests' = requests
  <2>1. Suffix(requests', requests)
    BY <1>5, SameSuffix, Zenon DEF LinkOK, LineOK
  <2> QED BY <1>1, <1>4, <2>1, FewerRequestsKeep, Zenon
<1>6. CASE PollerWrite
  <2>1. PICK q : q = PollRequest(block)
    OBVIOUS
  <2>2. requests' = Append(requests, q)
    BY <1>6, <2>1 DEF PollerWrite
  <2>3. q.reg # "load"
    BY <2>1 DEF PollRequest, LinkOK, PollerOK, Block
  <2> QED BY <1>1, <1>4, <2>2, <2>3, LaterRequestKeeps, Zenon
<1> QED BY <1>5, <1>6 DEF PollerStep, PollBegins, PollerFlush, PollerEnters, PollerReads,
     PollerTimesOut, line

LEMMA LineKeepsEcho ==
  ASSUME LinkOK, LinkOK', ByteArrives \/ ByteLost \/ RequestLost, NEW v, EchoFor(v)
  PROVE  EchoFor(v)'
<1>1. UNCHANGED <<setter, target, loadReg>>
  BY DEF ByteArrives, ByteLost, RequestLost, watering
<1>2. Suffix(requests', requests)
  BY SameSuffix, TailSuffix, Zenon DEF LinkOK, LineOK, ByteArrives, ByteLost, RequestLost
<1>3. Suffix(wire', wire)
  BY SameSuffix, TailSuffix, Zenon DEF LinkOK, LineOK, ByteArrives, ByteLost, RequestLost
<1>4. Echoes(wire', v) => Echoes(wire, v)
  BY <1>3, SuffixEchoes, Zenon
<1>5. Echoes(rx', v) => Echoes(rx, v) \/ Echoes(wire, v)
  <2>1. CASE ByteArrives
    <3>1. /\ wire # <<>> /\ wire \in Seq(Byte) /\ rx \in Seq(Byte)
          /\ rx' = Append(rx, Head(wire))
      BY <2>1 DEF ByteArrives, LinkOK, LineOK
    <3>2. /\ 1 \in DOMAIN wire
          /\ \A i \in DOMAIN rx' : (i \in DOMAIN rx /\ rx'[i] = rx[i]) \/ rx'[i] = wire[1]
      BY <3>1
    <3> QED BY <3>2, Zenon DEF Echoes
  <2>2. CASE rx' = rx
    BY <2>2
  <2> QED BY <2>1, <2>2 DEF ByteLost, RequestLost
<1>6. Hears(v)' => Hears(v)
  BY <1>1, <1>4, <1>5, Zenon DEF Hears, Echoes
<1> QED BY <1>1, <1>2, <1>6, FewerRequestsKeep, Zenon

EchoesInv == WireEnds /\ LastEcho /\ EchoInv

LEMMA EchoesInvKept ==
  ASSUME LinkOK, LinkOK', WireEnds, LastEcho, EchoInv, [Next]_vars
  PROVE  WireEnds' /\ LastEcho' /\ EchoInv'
<1>1. WireEnds' /\ LastEcho'
  BY WireEndsKept, LastEchoKept
<1> SUFFICES EchoInv'
  BY <1>1
<1>2. ASSUME NEW on \in BOOLEAN, SetLoad(on)
      PROVE  EchoInv'
  <2>1. value' = on
    BY <1>2 DEF SetLoad
  <2>2. ASSUME NEW v, v = on
        PROVE  EchoFor(v)'
    BY <1>2, <2>2, CallBegins, Zenon
  <2> QED BY <2>1, <2>2, Zenon DEF EchoInv
<1>3. ASSUME SetterStep \/ PollerStep \/ ControllerAnswers \/ ByteArrives \/ RequestLost \/ ByteLost
      PROVE  EchoInv'
  <2>1. value' = value /\ (setter' # "idle" => setter # "idle")
    BY <1>3 DEF SetterStep, SetterFlush, SetterWrite, SetterAcknowledged, SetterFails, PollerStep,
           PollBegins, PollerFlush, PollerWrite, PollerEnters, PollerReads, PollerTimesOut,
           ControllerAnswers, ByteArrives, RequestLost, ByteLost, watering
  <2>2. ASSUME NEW v, v = value, EchoFor(v), setter' # "idle"
        PROVE  EchoFor(v)'
    BY <1>3, <2>2, SetterKeepsEcho, PollerKeepsEcho, SwitchingKeeps, LineKeepsEcho, Zenon
  <2> QED BY <2>1, <2>2, Zenon DEF EchoInv
<1>4. CASE UNCHANGED vars
  <2>1. UNCHANGED <<setter, target, value, requests, wire, rx, loadReg>>
    BY <1>4 DEF vars, watering, line
  <2> QED BY <2>1, Zenon DEF EchoInv, EchoFor, Hears, Echoes
<1> QED BY <1>2, <1>3, <1>4, Zenon DEF Next

LEMMA EchoesInvAlways == Spec => []EchoesInv
<1>1. Init => EchoesInv
  BY EmptyType DEF Init, EchoesInv, WireEnds, LastEcho, EchoInv
<1>2. LinkOK /\ LinkOK' /\ EchoesInv /\ [Next]_vars => EchoesInv'
  BY EchoesInvKept, Zenon DEF EchoesInv
<1> QED BY <1>1, <1>2, LinkOKAlways, PTL DEF Spec

\* Once setLoad() has returned true the load is as asked, and so it stays: nothing that
\* is still to be done switches it to the other value.
Settled ==
  acked => /\ setter = "idle" /\ loadReg = value
           /\ \A i \in DOMAIN requests : requests[i].reg = "load" => requests[i].arg = value

\* The echo setLoad() takes for its acknowledgement may be that of an earlier call: then
\* the load is at the same value, and nothing under way switches it back.
LEMMA AcknowledgementSettles ==
  ASSUME LinkOK, EchoInv, SetterAcknowledged, target = "load"
  PROVE  Settled'
<1> DEFINE n == EchoLength
           bytes == Take(n)
<1>1. n \in Nat \ {0} /\ rx \in Seq(Byte) /\ Len(rx) >= n /\ setter = "read"
  BY LinkConstantsOK DEF LinkConstantsOK, LinkOK, LineOK, SetterAcknowledged
<1>2. 1 \in DOMAIN rx /\ bytes[1] = rx[1] /\ DOMAIN bytes = 1 .. n
  BY <1>1 DEF Take
<1>3. bytes = Answer(LoadRequest)
  BY DEF SetterAcknowledged
<1>4. Answer(LoadRequest)[1] = [of |-> LoadRequest, no |-> 1]
  <2>1. 1 \in 1 .. Length(LoadRequest.reg)
    BY LengthType
  <2> QED BY <2>1 DEF Answer
<1>5. rx[1].of = LoadRequest
  BY <1>2, <1>3, <1>4
<1>6. LoadRequest.reg = "load" /\ LoadRequest.arg = value
  BY DEF LoadRequest
<1>7. Hears(value)
  BY <1>1, <1>2, <1>5, <1>6 DEF Hears, Echoes, Switches
<1>8. EchoFor(value)
  BY <1>1 DEF EchoInv
<1>9. /\ loadReg = value
      /\ \A i \in DOMAIN requests : requests[i].reg = "load" => requests[i].arg = value
  BY <1>7, <1>8, Zenon DEF EchoFor
<1>10. setter' = "idle" /\ UNCHANGED <<value, requests, loadReg>>
  BY DEF SetterAcknowledged
<1> QED BY <1>9, <1>10, Zenon DEF Settled

LEMMA SettledKept ==
  ASSUME LinkOK, EchoInv, Settled, [Next]_vars
  PROVE  Settled'
<1> SUFFICES ASSUME acked' PROVE Settled'
  BY DEF Settled
<1>1. CASE UNCHANGED <<setter, value, acked, requests, loadReg>>
  BY <1>1, Zenon DEF Settled
<1>2. CASE SetterAcknowledged
  <2>1. target = "load"
    BY <1>2 DEF SetterAcknowledged
  <2> QED BY <1>2, <2>1, AcknowledgementSettles
<1>3. ~(\E on \in BOOLEAN : SetLoad(on))
  BY DEF SetLoad
<1>4. CASE SetterFlush \/ SetterWrite \/ SetterFails
  <2>1. acked' = acked /\ setter # "idle"
    BY <1>4 DEF SetterFlush, SetterWrite, SetterFails
  <2> QED BY <2>1 DEF Settled
<1>5. CASE PollerWrite
  <2>1. UNCHANGED <<setter, value, acked, loadReg>> /\ requests' = Append(requests, PollRequest(block))
    BY <1>5 DEF PollerWrite, watering
  <2>2. acked /\ setter = "idle" /\ loadReg = value
    BY <2>1, Zenon DEF Settled
  <2>3. PollRequest(block).reg # "load"
    BY DEF PollRequest, LinkOK, PollerOK, Block
  <2>4. requests \in Seq(Request)
    BY DEF LinkOK, LineOK
  <2>5. \A i \in DOMAIN requests' :
          (i \in DOMAIN requests /\ requests'[i] = requests[i]) \/ requests'[i].reg # "load"
    BY <2>1, <2>3, <2>4
  <2> QED BY <2>1, <2>2, <2>5, Zenon DEF Settled
<1>6. CASE ControllerAnswers \/ RequestLost
  <2>1. /\ UNCHANGED <<setter, value, acked>> /\ requests # <<>> /\ requests' = Tail(requests)
        /\ requests \in Seq(Request)
    BY <1>6 DEF ControllerAnswers, RequestLost, watering, LinkOK, LineOK
  <2>2. acked /\ setter = "idle" /\ loadReg = value
    BY <2>1, Zenon DEF Settled
  <2>3. 1 \in DOMAIN requests /\ Head(requests) = requests[1]
    BY <2>1
  <2>4. loadReg' = value
    BY <1>6, <2>2, <2>3 DEF ControllerAnswers, RequestLost, Settled
  <2>5. \A i \in DOMAIN requests' : i + 1 \in DOMAIN requests /\ requests'[i] = requests[i + 1]
    BY <2>1
  <2> QED BY <2>1, <2>2, <2>4, <2>5, Zenon DEF Settled
<1> QED
  BY <1>1, <1>2, <1>3, <1>4, <1>5, <1>6
     DEF Next, SetterStep, PollerStep, PollBegins, PollerFlush, PollerEnters, PollerReads,
         PollerTimesOut, ByteArrives, ByteLost, watering, line, vars

\* Whatever is lost, late or taken by the poller: when setLoad() has returned true the
\* load is as asked until the next call.
THEOREM AcknowledgedIsDoneCorrect == Spec => []AcknowledgedIsDone
<1>1. Init => Settled
  BY DEF Init, Settled
<1>2. LinkOK /\ EchoesInv /\ Settled /\ [Next]_vars => Settled'
  BY SettledKept DEF EchoesInv
<1>3. Settled => AcknowledgedIsDone
  BY DEF Settled, AcknowledgedIsDone
<1> QED BY <1>1, <1>2, <1>3, EchoesInvAlways, LinkOKAlways, PTL DEF Spec
================================================================================
