------------------------- MODULE EchoSuppressor_proofs -------------------------
(***************************************************************************)
(* Proofs about EchoSuppressor, for every number of switches and of slots  *)
(* and for everything the Zigbee stack may do with the echo of a write.    *)
(***************************************************************************)
EXTENDS EchoSuppressor, FiniteSetTheorems, TLAPS

\* The invariants, as predicates of a table s and of the last own writes d.
Table == [Slot -> {Free} \cup [key : Key, value : BOOLEAN]]
Unique(s) == \A i, j \in Slot : s[i].key = s[j].key /\ s[i].key # NoKey => i = j
Recalls(s, d) == \A i \in Slot : s[i].key # NoKey => s[i].value = d[s[i].key]
Sound(s, d) == s \in Table /\ Unique(s) /\ Recalls(s, d)

LEMMA PutChanges ==
  ASSUME NEW s, NEW I \in SUBSET Slot, NEW e
  PROVE  \/ I = {} /\ Put(s, I, e) = s
         \/ \E i \in I : Put(s, I, e) = [s EXCEPT ![i] = e]
BY DEF Put

\* Emptying a slot.
LEMMA PutFree ==
  ASSUME NEW s, NEW d \in [Key -> BOOLEAN], Sound(s, d), NEW I \in SUBSET Slot
  PROVE  Sound(Put(s, I, Free), d)
<1>1. CASE Put(s, I, Free) = s
  BY <1>1
<1>2. ASSUME NEW i \in I, Put(s, I, Free) = [s EXCEPT ![i] = Free]
      PROVE  Sound(Put(s, I, Free), d)
  <2> DEFINE t == [s EXCEPT ![i] = Free]
  <2>1. s \in Table /\ i \in Slot
    BY DEF Sound
  <2>2. t \in Table
    BY <2>1 DEF Table
  <2>3. \A j \in Slot : t[j] = IF j = i THEN Free ELSE s[j]
    BY <2>1 DEF Table
  <2>4. Free.key = NoKey
    BY DEF Free
  <2>5. Unique(t)
    BY <2>3, <2>4 DEF Sound, Unique
  <2>6. Recalls(t, d)
    BY <2>3, <2>4 DEF Sound, Recalls
  <2> QED BY <1>2, <2>2, <2>5, <2>6 DEF Sound
<1> QED BY <1>1, <1>2, PutChanges

\* Remembering a value for the switch it is written to.
LEMMA RememberSound ==
  ASSUME NEW s, NEW d \in [Key -> BOOLEAN], Sound(s, d), NEW k \in Key, NEW v \in BOOLEAN
  PROVE  Sound(Remember(s, k, v), [d EXCEPT ![k] = v])
<1> DEFINE I == IF HeldBy(s, k) # {} THEN HeldBy(s, k) ELSE HeldBy(s, NoKey)
           e == [d EXCEPT ![k] = v]
<1>1. I \in SUBSET Slot /\ Remember(s, k, v) = Put(s, I, Entry(k, v))
  BY DEF HeldBy, Remember
<1>2. NoKey \notin Key /\ k # NoKey
  BY EchoConstantsOK DEF EchoConstantsOK
<1>3. \A j \in Slot : s[j].key \in Key \cup {NoKey}
  BY DEF Sound, Table, Free
<1>4. CASE I = {} /\ Put(s, I, Entry(k, v)) = s
  <2>1. \A j \in Slot : s[j].key # k
    BY <1>4 DEF HeldBy
  <2>2. Recalls(s, e)
    BY <1>3, <2>1 DEF Sound, Recalls
  <2> QED BY <1>1, <1>4, <2>2 DEF Sound
<1>5. ASSUME NEW i \in I, Put(s, I, Entry(k, v)) = [s EXCEPT ![i] = Entry(k, v)]
      PROVE  Sound(Put(s, I, Entry(k, v)), e)
  <2> DEFINE t == [s EXCEPT ![i] = Entry(k, v)]
  <2> HIDE DEF I
  <2>1. s \in Table /\ i \in Slot
    BY <1>1 DEF Sound
  <2>2. Entry(k, v) \in [key : Key, value : BOOLEAN] /\ Entry(k, v).key = k /\ Entry(k, v).value = v
    BY DEF Entry
  <2>3. t \in Table
    BY <2>1, <2>2 DEF Table
  <2>4. \A j \in Slot : t[j] = IF j = i THEN Entry(k, v) ELSE s[j]
    BY <2>1 DEF Table
  <2>5. \A j \in Slot : j # i => s[j].key # k
    <3>1. CASE HeldBy(s, k) # {}
      BY <1>2, <3>1 DEF I, HeldBy, Sound, Unique
    <3>2. CASE HeldBy(s, k) = {}
      BY <3>2 DEF HeldBy
    <3> QED BY <3>1, <3>2
  <2>6. Unique(t)
    BY <2>2, <2>4, <2>5 DEF Sound, Unique
  <2>7. Recalls(t, e)
    BY <1>2, <1>3, <2>2, <2>4, <2>5 DEF Sound, Recalls
  <2> QED BY <1>5, <2>3, <2>6, <2>7 DEF Sound
<1> HIDE DEF I
<1> QED BY <1>1, <1>4, <1>5, PutChanges

\* A refused write leaves no trace: its slot is the only one of that switch.
LEMMA ForgetSound ==
  ASSUME NEW s, NEW d \in [Key -> BOOLEAN], NEW k \in Key, NEW v \in BOOLEAN,
         Sound(s, [d EXCEPT ![k] = v])
  PROVE  Sound(Forget(s, k), d)
<1> DEFINE e == [d EXCEPT ![k] = v]
<1>1. HeldBy(s, k) \in SUBSET Slot /\ e \in [Key -> BOOLEAN]
  BY DEF HeldBy
<1>2. Sound(Forget(s, k), e)
  BY <1>1, PutFree DEF Forget
<1>3. \A j \in Slot : Forget(s, k)[j].key # k
  <2>1. NoKey \notin Key /\ Free.key = NoKey
    BY EchoConstantsOK DEF EchoConstantsOK, Free
  <2>2. CASE HeldBy(s, k) = {} /\ Forget(s, k) = s
    BY <2>2 DEF HeldBy
  <2>3. ASSUME NEW i \in HeldBy(s, k), Forget(s, k) = [s EXCEPT ![i] = Free]
        PROVE  \A j \in Slot : Forget(s, k)[j].key # k
    <3>1. \A j \in Slot : Forget(s, k)[j] = IF j = i THEN Free ELSE s[j]
      BY <2>3 DEF Sound, Table
    <3>2. \A j \in Slot : j # i => s[j].key # k
      BY <2>1 DEF HeldBy, Sound, Unique
    <3> QED BY <2>1, <3>1, <3>2
  <2> QED BY <1>1, <2>2, <2>3, PutChanges DEF Forget
<1>4. \A j \in Slot : Forget(s, k)[j].key \in Key \cup {NoKey}
  BY <1>2 DEF Sound, Table, Free
<1>5. Recalls(Forget(s, k), d)
  BY <1>2, <1>3, <1>4 DEF Sound, Recalls
<1> QED BY <1>2, <1>5 DEF Sound

--------------------------------------------------------------------------------
\* The inductive invariant: both invariants together, and the types they need.
TableSound ==
  /\ said \in [Key -> BOOLEAN]
  /\ Sound(slots, said)

LEMMA EchoInit == Init => TableSound
<1> SUFFICES ASSUME Init PROVE TableSound
  OBVIOUS
<1>1. said \in [Key -> BOOLEAN] /\ slots = [i \in Slot |-> Free]
  BY DEF Init
<1>2. slots \in Table /\ \A i \in Slot : slots[i].key = NoKey
  BY <1>1 DEF Table, Free
<1> QED BY <1>1, <1>2 DEF TableSound, Sound, Unique, Recalls

LEMMA CallbackSound ==
  ASSUME NEW s, NEW d \in [Key -> BOOLEAN], Sound(s, d), NEW by, NEW k, NEW v,
         Callback(s, by, k, v)
  PROVE  Sound(slots', d)
<1>1. Matching(s, k, v) \in SUBSET Slot
  BY DEF Matching
<1> QED BY <1>1, PutFree DEF Callback, Consume

LEMMA EchoNext == TableSound /\ [Next]_vars => TableSound'
<1> SUFFICES ASSUME TableSound, [Next]_vars PROVE TableSound'
  OBVIOUS
<1> USE DEF TableSound
<1>1. ASSUME NEW k \in Key, NEW v \in BOOLEAN, DeviceWrites(k, v)
      PROVE  TableSound'
  <2> DEFINE s == Remember(slots, k, v)
             d == [said EXCEPT ![k] = v]
  <2>1. Sound(s, d) /\ d \in [Key -> BOOLEAN]
    BY RememberSound
  <2>2. CASE slots' = Forget(s, k) /\ said' = said
    BY <2>1, <2>2, ForgetSound
  <2>3. CASE said' = d /\ Callback(s, "device", k, v)
    <3> HIDE DEF s, d
    <3> QED BY <2>1, <2>3, CallbackSound
  <2>4. CASE said' = d /\ slots' = s
    BY <2>1, <2>4
  <2> QED BY <1>1, <2>2, <2>3, <2>4 DEF DeviceWrites
<1>2. ASSUME NEW k \in Key, NEW v \in BOOLEAN, UserWrites(k, v)
      PROVE  TableSound'
  BY <1>2, CallbackSound DEF UserWrites
<1>3. CASE LateCallback
  BY <1>3, CallbackSound DEF LateCallback
<1>4. CASE Reset
  BY <1>4 DEF Reset, Sound, Table, Unique, Recalls, Free
<1>5. CASE UNCHANGED vars
  BY <1>5 DEF vars
<1> QED BY <1>1, <1>2, <1>3, <1>4, <1>5 DEF Next

LEMMA EchoSound == Spec => []TableSound
BY EchoInit, EchoNext, PTL DEF Spec

\* No switch ever has two slots, however many slots and switches there are.
THEOREM OneSlotPerKeyCorrect == Spec => []OneSlotPerKey
<1>1. TableSound => OneSlotPerKey
  BY DEF TableSound, Sound, Unique, OneSlotPerKey
<1> QED BY <1>1, EchoSound, PTL

\* What is remembered of a switch is what the device wrote to it last.
THEOREM RememberedIsLastCorrect == Spec => []RememberedIsLast
<1>1. TableSound => RememberedIsLast
  BY DEF TableSound, Sound, Recalls, RememberedIsLast
<1> QED BY <1>1, EchoSound, PTL

\* A write of the user that contradicts the device's last report is always taken
\* for a command, whatever the stack does with echoes.
THEOREM IgnoredIsRepeatCorrect == Spec => IgnoredIsRepeat
<1> DEFINE Repeat == \A k \in Key, v \in BOOLEAN :
                       UserWrites(k, v) /\ ~outcome'.command => v = said[k]
<1>1. TableSound /\ [Next]_vars => [Repeat]_vars
  <2> SUFFICES ASSUME TableSound, NEW k \in Key, NEW v \in BOOLEAN,
                      UserWrites(k, v), ~outcome'.command
               PROVE  v = said[k]
    OBVIOUS
  <2>1. Matching(slots, k, v) # {}
    BY DEF UserWrites, Callback
  <2>2. PICK i \in Slot : slots[i] = Entry(k, v)
    BY <2>1 DEF Matching
  <2>3. slots[i].key = k /\ slots[i].value = v /\ k # NoKey
    BY <2>2, EchoConstantsOK DEF Entry, EchoConstantsOK
  <2> QED BY <2>3 DEF TableSound, Sound, Recalls
<1> QED BY <1>1, EchoSound, PTL DEF Spec, IgnoredIsRepeat

--------------------------------------------------------------------------------
\* Type correctness.

LEMMA CallbackOutcome ==
  ASSUME NEW s, NEW by \in {"user", "device", "device late"}, NEW k \in Key, NEW v \in BOOLEAN,
         Callback(s, by, k, v)
  PROVE  outcome' \in Outcome
<1>1. CASE Matching(s, k, v) = {}
  <2>1. outcome' = [by |-> by, key |-> k, value |-> v, command |-> TRUE]
    BY <1>1 DEF Callback
  <2> QED BY <2>1, Zenon DEF Outcome
<1>2. CASE Matching(s, k, v) # {}
  <2>1. outcome' = [by |-> by, key |-> k, value |-> v, command |-> FALSE]
    BY <1>2 DEF Callback
  <2> QED BY <2>1, Zenon DEF Outcome
<1> QED BY <1>1, <1>2

LEMMA EntryType ==
  ASSUME NEW k \in Key, NEW v \in BOOLEAN
  PROVE  Entry(k, v) \in [key : Key, value : BOOLEAN]
BY Zenon DEF Entry

\* A queue of elements of S.
LEMMA AppendType ==
  ASSUME NEW S, NEW q \in Seq(S), NEW e \in S
  PROVE  Append(q, e) \in Seq(S)
OBVIOUS

LEMMA HeadTailType ==
  ASSUME NEW S, NEW q \in Seq(S), q # <<>>
  PROVE  Head(q) \in S /\ Tail(q) \in Seq(S) /\ Head(q) = q[1] /\ 1 \in DOMAIN q
OBVIOUS

LEMMA ElementType ==
  ASSUME NEW S, NEW q \in Seq(S), NEW i \in DOMAIN q
  PROVE  q[i] \in S
OBVIOUS

OthersOK ==
  /\ attr \in [Key -> BOOLEAN]
  /\ later \in Seq([key : Key, value : BOOLEAN])
  /\ crossed \subseteq Key
  /\ outcome \in Outcome

LEMMA DeviceWritesType ==
  ASSUME OthersOK, NEW k \in Key, NEW v \in BOOLEAN, DeviceWrites(k, v)
  PROVE  OthersOK'
<1>1. crossed' \subseteq Key
  BY DEF DeviceWrites, Written, OthersOK
<1>2. attr' \in [Key -> BOOLEAN]
  BY Zenon DEF DeviceWrites, OthersOK
<1>3. later' \in Seq([key : Key, value : BOOLEAN])
  <2>1. later' = later \/ later' = Append(later, Entry(k, v))
    BY Zenon DEF DeviceWrites
  <2>2. Append(later, Entry(k, v)) \in Seq([key : Key, value : BOOLEAN])
    BY EntryType, AppendType, Zenon DEF OthersOK
  <2> QED BY <2>1, <2>2, Zenon DEF OthersOK
<1>4. outcome' \in Outcome
  <2>1. outcome' = outcome \/ \E s : Callback(s, "device", k, v)
    BY Zenon DEF DeviceWrites
  <2> QED BY <2>1, CallbackOutcome DEF OthersOK
<1> QED BY <1>1, <1>2, <1>3, <1>4 DEF OthersOK

LEMMA OthersNext == OthersOK /\ [Next]_vars => OthersOK'
<1> SUFFICES ASSUME OthersOK, [Next]_vars PROVE OthersOK'
  OBVIOUS
<1>1. ASSUME NEW k \in Key, NEW v \in BOOLEAN, UserWrites(k, v)
      PROVE  OthersOK'
  <2>1. attr' \in [Key -> BOOLEAN]
    BY <1>1, Zenon DEF UserWrites, OthersOK
  <2>2. outcome' \in Outcome
    BY <1>1, CallbackOutcome DEF UserWrites
  <2> QED BY <1>1, <2>1, <2>2 DEF UserWrites, Written, OthersOK
<1>2. CASE LateCallback
  <2>1. Head(later) \in [key : Key, value : BOOLEAN] /\ Tail(later) \in Seq([key : Key, value : BOOLEAN])
    BY <1>2, HeadTailType, Zenon DEF LateCallback, OthersOK
  <2>2. outcome' \in Outcome
    BY <1>2, <2>1, CallbackOutcome DEF LateCallback
  <2> QED BY <1>2, <2>1, <2>2 DEF LateCallback, OthersOK
<1>3. CASE Reset
  <2>1. attr' \in [Key -> BOOLEAN]
    BY <1>3, Zenon DEF Reset
  <2> QED BY <1>3, <2>1 DEF Reset, OthersOK
<1>4. CASE UNCHANGED vars
  BY <1>4 DEF vars, OthersOK
<1> QED BY <1>1, <1>2, <1>3, <1>4, DeviceWritesType DEF Next

\* The table, the attributes and the callbacks keep their types.
THEOREM EchoTypeCorrect == Spec => []EchoTypeOK
<1>1. Init => OthersOK
  <2> SUFFICES ASSUME Init PROVE OthersOK
    OBVIOUS
  <2>1. attr \in [Key -> BOOLEAN] /\ outcome \in Outcome
    BY Zenon DEF Init, Outcome
  <2> QED BY <2>1 DEF Init, OthersOK
<1>2. OthersOK /\ TableSound => EchoTypeOK
  BY DEF OthersOK, TableSound, Sound, Table, EchoTypeOK
<1> QED BY <1>1, <1>2, OthersNext, EchoSound, PTL DEF Spec

\* The table, the attributes and the callbacks keep their types; no switch has two
\* slots, and what is remembered of it is what the device wrote last.
THEOREM EchoInductiveCorrect == Spec => []EchoInductive
BY EchoTypeCorrect, OneSlotPerKeyCorrect, RememberedIsLastCorrect, PTL DEF EchoInductive

--------------------------------------------------------------------------------
\* Echoes, when there is a slot for every switch.

\* A table in which no switch has two slots always has one for the next write.
LEMMA RoomForAll ==
  ASSUME IsFiniteSet(Key), Cardinality(Key) <= Capacity,
         NEW s, NEW d, Sound(s, d), NEW k \in Key, HeldBy(s, k) = {}
  PROVE  HeldBy(s, NoKey) # {}
<1> SUFFICES ASSUME HeldBy(s, NoKey) = {} PROVE FALSE
  OBVIOUS
<1> DEFINE f == [i \in Slot |-> s[i].key]
           T == Key \ {k}
<1>1. f \in [Slot -> T]
  <2>1. \A i \in Slot : s[i].key \in Key \cup {NoKey}
    BY DEF Sound, Table, Free
  <2>2. \A i \in Slot : s[i].key # k /\ s[i].key # NoKey
    BY DEF HeldBy
  <2> QED BY <2>1, <2>2
<1>2. Capacity \in Nat /\ Cardinality(Key) \in Nat
  BY EchoConstantsOK, FS_CardinalityType DEF EchoConstantsOK
<1>3. IsFiniteSet(T) /\ Cardinality(T) = Cardinality(Key) - 1
  BY FS_RemoveElement
<1>4. IsFiniteSet(Slot) /\ Cardinality(Slot) = Capacity
  <2>1. IsFiniteSet(1 .. Capacity) /\ Cardinality(1 .. Capacity) = IF 1 > Capacity THEN 0 ELSE Capacity - 1 + 1
    BY <1>2, FS_Interval
  <2> QED BY <1>2, <2>1 DEF Slot
<1>5. Cardinality(T) < Cardinality(Slot)
  BY <1>2, <1>3, <1>4
<1>6. PICK i \in Slot, j \in Slot : i # j /\ f[i] = f[j]
  <2> HIDE DEF f, T
  <2> QED BY <1>1, <1>3, <1>4, <1>5, FS_PigeonHole
<1>7. s[i].key = s[j].key /\ s[i].key # NoKey
  BY <1>6 DEF HeldBy
<1> QED BY <1>6, <1>7 DEF Sound, Unique

\* A write is remembered, and the slots of the other switches are left alone.
LEMMA RememberHolds ==
  ASSUME IsFiniteSet(Key), Cardinality(Key) <= Capacity,
         NEW s, NEW d, Sound(s, d), NEW k \in Key, NEW v
  PROVE  /\ Matching(Remember(s, k, v), k, v) # {}
         /\ \A j \in Slot : s[j].key \notin {k, NoKey} => Remember(s, k, v)[j] = s[j]
<1> DEFINE I == IF HeldBy(s, k) # {} THEN HeldBy(s, k) ELSE HeldBy(s, NoKey)
<1>1. I # {} /\ I \in SUBSET Slot /\ Remember(s, k, v) = Put(s, I, Entry(k, v))
  BY RoomForAll DEF HeldBy, Remember
<1>2. \A j \in I : s[j].key \in {k, NoKey}
  BY DEF HeldBy
<1> HIDE DEF I
<1>3. PICK i \in I : Put(s, I, Entry(k, v)) = [s EXCEPT ![i] = Entry(k, v)]
  BY <1>1, PutChanges
<1>4. \A j \in Slot : Remember(s, k, v)[j] = IF j = i THEN Entry(k, v) ELSE s[j]
  BY <1>1, <1>3 DEF Sound, Table
<1> QED BY <1>1, <1>2, <1>4 DEF Matching

\* The stack's callback during a write never becomes a command.
THEOREM EchoIsNoCommandCorrect ==
  ASSUME IsFiniteSet(Key), Cardinality(Key) <= Capacity
  PROVE  Spec => []EchoIsNoCommand
<1>1. Init => EchoIsNoCommand
  BY DEF Init, EchoIsNoCommand
<1>2. TableSound /\ EchoIsNoCommand /\ [Next]_vars => EchoIsNoCommand'
  <2> SUFFICES ASSUME TableSound, EchoIsNoCommand, [Next]_vars
               PROVE  EchoIsNoCommand'
    OBVIOUS
  <2>1. CASE outcome' = outcome
    BY <2>1 DEF EchoIsNoCommand
  <2>2. ASSUME NEW k \in Key, NEW v \in BOOLEAN, DeviceWrites(k, v)
        PROVE  EchoIsNoCommand'
    <3>1. Matching(Remember(slots, k, v), k, v) # {}
      BY RememberHolds DEF TableSound
    <3>2. outcome' = outcome \/ Callback(Remember(slots, k, v), "device", k, v)
      BY <2>2 DEF DeviceWrites
    <3>3. CASE Callback(Remember(slots, k, v), "device", k, v)
      <4>1. outcome' = [by |-> "device", key |-> k, value |-> v, command |-> FALSE]
        BY <3>1, <3>3 DEF Callback
      <4> QED BY <4>1 DEF EchoIsNoCommand
    <3> QED BY <2>1, <3>2, <3>3
  <2>3. ASSUME NEW k \in Key, NEW v \in BOOLEAN, UserWrites(k, v)
        PROVE  EchoIsNoCommand'
    BY <2>3 DEF UserWrites, Callback, EchoIsNoCommand
  <2>4. CASE LateCallback
    BY <2>4 DEF LateCallback, Callback, EchoIsNoCommand
  <2>5. Reset \/ UNCHANGED vars => outcome' = outcome
    BY DEF Reset, vars
  <2> QED BY <2>1, <2>2, <2>3, <2>4, <2>5 DEF Next
<1> QED BY <1>1, <1>2, EchoSound, PTL DEF Spec

--------------------------------------------------------------------------------
\* Late callbacks.

\* A callback still to come for a switch not written since finds its value in the
\* table s, and is the only one of that switch in the queue q.
Expected(s, q, c) ==
  \A i \in DOMAIN q : q[i].key \notin c =>
     /\ \E j \in Slot : s[j] = q[i]
     /\ \A h \in DOMAIN q : q[h].key = q[i].key => h = i

Lateness == Expected(slots, later, crossed)

\* Slots of one switch are emptied: the others stay.
LEMMA PutFreeKeeps ==
  ASSUME NEW s \in Table, NEW k, NEW I \in SUBSET HeldBy(s, k), NEW j \in Slot, s[j].key # k
  PROVE  Put(s, I, Free)[j] = s[j]
<1>1. \A i \in I : i \in Slot /\ i # j
  BY DEF HeldBy
<1>2. \A i \in I : [s EXCEPT ![i] = Free][j] = s[j]
  BY <1>1 DEF Table
<1>3. I \in SUBSET Slot
  BY <1>1
<1>4. Put(s, I, Free) = s \/ \E i \in I : Put(s, I, Free) = [s EXCEPT ![i] = Free]
  BY <1>3, PutChanges
<1> QED BY <1>2, <1>4

LEMMA ConsumeKeeps ==
  ASSUME NEW s \in Table, NEW k, NEW v, NEW j \in Slot, s[j].key # k
  PROVE  Consume(s, k, v)[j] = s[j]
<1>1. Matching(s, k, v) \in SUBSET HeldBy(s, k)
  BY DEF Matching, HeldBy, Entry
<1> QED BY <1>1, PutFreeKeeps DEF Consume

\* A write of k that leaves the slots of the other switches alone.
LEMMA OthersExpected ==
  ASSUME NEW s, NEW t, NEW k, Lateness, s = slots,
         later \in Seq([key : Key, value : BOOLEAN]),
         \A j \in Slot : s[j].key \notin {k, NoKey} => t[j] = s[j]
  PROVE  Expected(t, later, crossed \cup ({k} \cap Awaited(later)))
<1> DEFINE c == crossed \cup ({k} \cap Awaited(later))
<1> SUFFICES ASSUME NEW i \in DOMAIN later, later[i].key \notin c
             PROVE  /\ \E j \in Slot : t[j] = later[i]
                    /\ \A h \in DOMAIN later : later[h].key = later[i].key => h = i
  BY DEF Expected
<1>1. later[i].key # k /\ later[i].key \notin crossed
  BY DEF Awaited
<1>2. later[i].key # NoKey
  <2>1. later[i] \in [key : Key, value : BOOLEAN]
    BY ElementType, Zenon
  <2>2. later[i].key \in Key
    BY <2>1
  <2> QED BY <2>2, EchoConstantsOK DEF EchoConstantsOK
<1>3. PICK j \in Slot : slots[j] = later[i]
  BY <1>1 DEF Lateness, Expected
<1>4. t[j] = later[i]
  BY <1>1, <1>2, <1>3
<1> QED BY <1>1, <1>4 DEF Lateness, Expected

LEMMA DeviceWritesLate ==
  ASSUME IsFiniteSet(Key), Cardinality(Key) <= Capacity,
         TableSound, OthersOK, Lateness, NEW k \in Key, NEW v \in BOOLEAN, DeviceWrites(k, v)
  PROVE  Lateness'
<1> DEFINE s == Remember(slots, k, v)
           c == crossed \cup ({k} \cap Awaited(later))
<1>1. s \in Table /\ Matching(s, k, v) # {}
  BY RememberHolds, RememberSound DEF TableSound, Sound
<1>2. \A j \in Slot : slots[j].key \notin {k, NoKey} => s[j] = slots[j]
  BY RememberHolds DEF TableSound
<1>3. later \in Seq([key : Key, value : BOOLEAN]) /\ crossed' = c
  BY DEF OthersOK, DeviceWrites, Written
<1> HIDE DEF s
<1>4. CASE slots' = Forget(s, k) /\ later' = later
  <2>1. \A j \in Slot : s[j].key # k => Forget(s, k)[j] = s[j]
    BY <1>1, PutFreeKeeps DEF Forget
  <2>2. \A j \in Slot : slots[j].key \notin {k, NoKey} => Forget(s, k)[j] = slots[j]
    BY <1>2, <2>1
  <2> QED BY <1>3, <1>4, <2>2, OthersExpected DEF Lateness
<1>5. CASE slots' = Consume(s, k, v) /\ later' = later
  <2>1. \A j \in Slot : slots[j].key \notin {k, NoKey} => Consume(s, k, v)[j] = slots[j]
    BY <1>1, <1>2, ConsumeKeeps
  <2> QED BY <1>3, <1>5, <2>1, OthersExpected DEF Lateness
<1>6. CASE slots' = s /\ later' = later
  BY <1>2, <1>3, <1>6, OthersExpected DEF Lateness
<1>7. CASE slots' = s /\ later' = Append(later, Entry(k, v))
  <2> DEFINE e == Entry(k, v)
  <2>1. Expected(s, later, c)
    BY <1>2, <1>3, OthersExpected
  <2>2. /\ DOMAIN later' = 1 .. Len(later) + 1 /\ DOMAIN later = 1 .. Len(later) /\ Len(later) \in Nat
        /\ \A i \in DOMAIN later : later'[i] = later[i]
        /\ later'[Len(later) + 1] = e
    BY <1>3, <1>7, EntryType
  <2>3. e.key = k /\ \E j \in Slot : s[j] = e
    BY <1>1 DEF Matching, Entry
  <2>4. \A i \in DOMAIN later : later[i].key = k => k \in c
    BY DEF Awaited
  <2>5. ASSUME NEW i \in DOMAIN later', later'[i].key \notin c
        PROVE  /\ \E j \in Slot : s[j] = later'[i]
               /\ \A h \in DOMAIN later' : later'[h].key = later'[i].key => h = i
    <3> HIDE DEF c, e
    <3>1. CASE i \in DOMAIN later
      <4>1. later[i].key # k
        BY <2>2, <2>4, <2>5, <3>1
      <4> QED BY <2>1, <2>2, <2>3, <2>5, <3>1, <4>1 DEF Expected
    <3>2. CASE i = Len(later) + 1
      BY <2>2, <2>3, <2>4, <2>5, <3>2
    <3> QED BY <2>2, <3>1, <3>2
  <2> QED BY <1>3, <1>7, <2>5 DEF Lateness, Expected
<1> QED BY <1>4, <1>5, <1>6, <1>7 DEF DeviceWrites, Callback, s

LEMMA LateCallbackLate ==
  ASSUME TableSound, OthersOK, Lateness, LateCallback
  PROVE  Lateness'
<1> DEFINE e == Head(later)
           t == Consume(slots, e.key, e.value)
<1>1. /\ later \in Seq([key : Key, value : BOOLEAN]) /\ later # <<>>
      /\ slots \in Table
  BY DEF OthersOK, LateCallback, TableSound, Sound
<1>2. slots' = t /\ later' = Tail(later) /\ crossed' = crossed \cap Awaited(Tail(later))
  BY DEF LateCallback, Callback
<1>3. /\ DOMAIN later' = 1 .. Len(later) - 1 /\ DOMAIN later = 1 .. Len(later) /\ Len(later) \in Nat
      /\ \A i \in DOMAIN later' : later'[i] = later[i + 1]
      /\ e = later[1]
  BY <1>1, <1>2
<1>4. \A j \in Slot : slots[j].key # e.key => slots'[j] = slots[j]
  BY <1>1, <1>2, ConsumeKeeps
<1> HIDE DEF e, t
<1>5. ASSUME NEW i \in DOMAIN later', later'[i].key \notin crossed'
      PROVE  /\ \E j \in Slot : slots'[j] = later'[i]
             /\ \A h \in DOMAIN later' : later'[h].key = later'[i].key => h = i
  <2>1. later'[i].key \in Awaited(Tail(later))
    BY <1>2 DEF Awaited
  <2>2. later'[i].key \notin crossed
    BY <1>2, <1>5, <2>1
  <2>3. i + 1 \in DOMAIN later /\ 1 \in DOMAIN later /\ i + 1 # 1 /\ later'[i] = later[i + 1]
    BY <1>3
  <2>4. /\ \E j \in Slot : slots[j] = later[i + 1]
        /\ \A h \in DOMAIN later : later[h].key = later[i + 1].key => h = i + 1
    BY <2>2, <2>3 DEF Lateness, Expected
  <2>5. later[i + 1].key # e.key
    BY <1>3, <2>3, <2>4
  <2>6. \A h \in DOMAIN later' : h + 1 \in DOMAIN later /\ later'[h] = later[h + 1] /\ h \in Int
    BY <1>3
  <2>7. \A h \in DOMAIN later' : later'[h].key = later'[i].key => h = i
    BY <2>3, <2>4, <2>6
  <2> QED BY <1>4, <2>3, <2>4, <2>5, <2>7
<1> QED BY <1>5 DEF Lateness, Expected

\* However late the stack calls back, an own write becomes a command only when the
\* same switch was written in between.
THEOREM LateOnlyIfCrossedCorrect ==
  ASSUME IsFiniteSet(Key), Cardinality(Key) <= Capacity
  PROVE  Spec => LateOnlyIfCrossed
<1> DEFINE Crossed == LateCallback /\ outcome'.command => Head(later).key \in crossed
<1>1. Init => OthersOK /\ Lateness
  <2> SUFFICES ASSUME Init PROVE OthersOK /\ Lateness
    OBVIOUS
  <2>1. attr \in [Key -> BOOLEAN] /\ outcome \in Outcome
    BY Zenon DEF Init, Outcome
  <2> QED BY <2>1 DEF Init, OthersOK, Lateness, Expected
<1>2. TableSound /\ OthersOK /\ Lateness /\ [Next]_vars => Lateness'
  <2> SUFFICES ASSUME TableSound, OthersOK, Lateness, [Next]_vars PROVE Lateness'
    OBVIOUS
  <2>1. ASSUME NEW k \in Key, NEW v \in BOOLEAN, UserWrites(k, v)
        PROVE  Lateness'
    <3>1. /\ slots' = Consume(slots, k, v) /\ later' = later
          /\ crossed' = crossed \cup ({k} \cap Awaited(later))
      BY <2>1 DEF UserWrites, Callback, Written
    <3>2. \A j \in Slot : slots[j].key \notin {k, NoKey} => Consume(slots, k, v)[j] = slots[j]
      BY ConsumeKeeps DEF TableSound, Sound
    <3>3. later \in Seq([key : Key, value : BOOLEAN])
      BY DEF OthersOK
    <3> QED BY <3>1, <3>2, <3>3, OthersExpected DEF Lateness
  <2>2. CASE Reset
    BY <2>2 DEF Reset, Lateness, Expected
  <2>3. CASE UNCHANGED vars
    BY <2>3 DEF vars, Lateness
  <2> QED BY <2>1, <2>2, <2>3, DeviceWritesLate, LateCallbackLate DEF Next
<1>3. TableSound /\ OthersOK /\ Lateness /\ [Next]_vars => [Crossed]_vars
  <2> SUFFICES ASSUME OthersOK, Lateness, LateCallback, Head(later).key \notin crossed
               PROVE  ~outcome'.command
    OBVIOUS
  <2>1. 1 \in DOMAIN later /\ Head(later) = later[1] /\ later[1] \in [key : Key, value : BOOLEAN]
    <3>1. later \in Seq([key : Key, value : BOOLEAN]) /\ later # <<>>
      BY DEF OthersOK, LateCallback
    <3> QED BY <3>1, HeadTailType, Zenon
  <2>2. Matching(slots, Head(later).key, Head(later).value) # {}
    BY <2>1 DEF Lateness, Expected, Matching, Entry
  <2> QED BY <2>2 DEF LateCallback, Callback
<1> QED BY <1>1, <1>2, <1>3, OthersNext, EchoSound, PTL DEF Spec, LateOnlyIfCrossed

--------------------------------------------------------------------------------
\* The refinement of EchoMemory.

LEMMA RememberedOf ==
  ASSUME NEW s, NEW k \in Key, NEW v
  PROVE  v \in Remembered(s)[k] <=> \E i \in Slot : s[i].key = k /\ s[i].value = v
BY DEF Remembered, HeldBy

\* Two tables that hold the same of every other switch, and M of switch k.
LEMMA RememberedChanges ==
  ASSUME NEW s, NEW t, NEW k \in Key, NEW M, Remembered(t)[k] = M,
         \A j \in Key \ {k} : Remembered(t)[j] = Remembered(s)[j]
  PROVE  Remembered(t) = [Remembered(s) EXCEPT ![k] = M]
BY DEF Remembered

\* Writing one slot, that was free or held k and so it does afterwards.
LEMMA OneSlotChanges ==
  ASSUME NEW s, NEW t, NEW i \in Slot, NEW k \in Key,
         s[i].key \in {k, NoKey}, t[i].key \in {k, NoKey},
         \A h \in Slot : h # i => t[h] = s[h]
  PROVE  \A j \in Key \ {k} : Remembered(t)[j] = Remembered(s)[j]
<1> SUFFICES ASSUME NEW j \in Key \ {k} PROVE Remembered(t)[j] = Remembered(s)[j]
  OBVIOUS
<1>1. j # NoKey /\ j # k /\ j \in Key
  BY EchoConstantsOK DEF EchoConstantsOK
<1>2. \A h \in Slot : s[h].key = j \/ t[h].key = j => t[h] = s[h]
  BY <1>1
<1>3. \A v : v \in Remembered(t)[j] <=> v \in Remembered(s)[j]
  <2>1. \A v : (\E h \in Slot : t[h].key = j /\ t[h].value = v)
                 <=> (\E h \in Slot : s[h].key = j /\ s[h].value = v)
    BY <1>2, Zenon
  <2>2. \A v : v \in Remembered(t)[j] <=> \E h \in Slot : t[h].key = j /\ t[h].value = v
    BY <1>1, RememberedOf
  <2>3. \A v : v \in Remembered(s)[j] <=> \E h \in Slot : s[h].key = j /\ s[h].value = v
    BY <1>1, RememberedOf
  <2> QED BY <2>1, <2>2, <2>3, Zenon
<1> QED BY <1>1, <1>3 DEF Remembered

LEMMA RememberMemory ==
  ASSUME IsFiniteSet(Key), Cardinality(Key) <= Capacity,
         NEW s, NEW d, Sound(s, d), NEW k \in Key, NEW v \in BOOLEAN
  PROVE  Remembered(Remember(s, k, v)) = [Remembered(s) EXCEPT ![k] = {v}]
<1> DEFINE I == IF HeldBy(s, k) # {} THEN HeldBy(s, k) ELSE HeldBy(s, NoKey)
           t == Remember(s, k, v)
           e == Entry(k, v)
<1>1. I # {} /\ I \in SUBSET Slot /\ t = Put(s, I, e)
  BY RoomForAll DEF HeldBy, Remember
<1>2. \A j \in I : s[j].key \in {k, NoKey}
  BY DEF HeldBy
<1>3. \A j \in Slot, h \in Slot : j \in I /\ s[h].key = k => h = j
  BY EchoConstantsOK DEF EchoConstantsOK, HeldBy, Sound, Unique
<1> HIDE DEF I
<1>4. PICK i \in I : Put(s, I, e) = [s EXCEPT ![i] = e]
  BY <1>1, PutChanges
<1>5. s \in Table /\ i \in Slot /\ t = [s EXCEPT ![i] = e]
  BY <1>1, <1>4 DEF Sound
<1>6. e.key = k /\ e.value = v
  BY DEF Entry
<1> HIDE DEF t, e
<1>7. \A h \in Slot : t[h] = IF h = i THEN e ELSE s[h]
  BY <1>5 DEF Table
<1>8. \A w : w \in Remembered(t)[k] <=> w = v
  <2>1. \A h \in Slot : t[h].key = k => h = i
    BY <1>3, <1>4, <1>5, <1>7
  <2>2. t[i] = e
    BY <1>5, <1>7
  <2>3. \A w : w \in Remembered(t)[k] <=> \E h \in Slot : t[h].key = k /\ t[h].value = w
    BY RememberedOf, Zenon
  <2>4. i \in Slot /\ t[i].key = k /\ t[i].value = v
    BY <1>5, <1>6, <2>2
  <2> QED BY <2>1, <2>3, <2>4, Zenon
<1>9. Remembered(t)[k] = {v}
  BY <1>8
<1>10. \A j \in Key \ {k} : Remembered(t)[j] = Remembered(s)[j]
  <2>1. /\ i \in Slot /\ s[i].key \in {k, NoKey} /\ t[i].key \in {k, NoKey}
        /\ \A h \in Slot : h # i => t[h] = s[h]
    BY <1>2, <1>4, <1>5, <1>6, <1>7
  <2> QED BY <2>1, OneSlotChanges, Zenon
<1>11. Remembered(t) = [Remembered(s) EXCEPT ![k] = {v}]
  BY <1>9, <1>10, RememberedChanges
<1> QED BY <1>11 DEF t

\* Emptying the one slot a switch has: nothing is remembered of it any more.
LEMMA EmptiedSlot ==
  ASSUME NEW s, NEW t, NEW i \in Slot, NEW k \in Key, s[i].key = k, t[i].key = NoKey,
         \A h \in Slot : h # i => t[h] = s[h],
         \A h \in Slot : s[h].key = k => h = i
  PROVE  Remembered(t) = [Remembered(s) EXCEPT ![k] = {}]
<1>1. k # NoKey
  BY EchoConstantsOK DEF EchoConstantsOK
<1>2. \A h \in Slot : t[h].key # k
  BY <1>1
<1>3. \A w : w \notin Remembered(t)[k]
  BY <1>2, RememberedOf
<1>4. Remembered(t)[k] = {}
  BY <1>3
<1>5. \A j \in Key \ {k} : Remembered(t)[j] = Remembered(s)[j]
  <2>1. s[i].key \in {k, NoKey} /\ t[i].key \in {k, NoKey}
    OBVIOUS
  <2> QED BY <2>1, OneSlotChanges
<1> QED BY <1>4, <1>5, RememberedChanges

\* Emptying a slot of a set of slots of one switch, if the set has any.
LEMMA EmptiedMemory ==
  ASSUME NEW s, NEW d, Sound(s, d), NEW k \in Key, NEW I \in SUBSET HeldBy(s, k)
  PROVE  /\ I # {} => Remembered(Put(s, I, Free)) = [Remembered(s) EXCEPT ![k] = {}]
         /\ I = {} => Put(s, I, Free) = s
<1>1. I \in SUBSET Slot /\ \A i \in I : s[i].key = k
  BY DEF HeldBy
<1>2. I = {} => Put(s, I, Free) = s
  BY DEF Put
<1>3. ASSUME I # {}
      PROVE  Remembered(Put(s, I, Free)) = [Remembered(s) EXCEPT ![k] = {}]
  <2>1. PICK i \in I : Put(s, I, Free) = [s EXCEPT ![i] = Free]
    BY <1>1, <1>3, PutChanges
  <2>2. s \in Table /\ i \in Slot /\ s[i].key = k /\ Free.key = NoKey
    BY <1>1 DEF Sound, Free
  <2>3. Put(s, I, Free)[i].key = NoKey /\ \A h \in Slot : h # i => Put(s, I, Free)[h] = s[h]
    BY <2>1, <2>2 DEF Table
  <2>4. \A h \in Slot : s[h].key = k => h = i
    BY <2>2, EchoConstantsOK DEF EchoConstantsOK, Sound, Unique
  <2> QED BY <2>2, <2>3, <2>4, EmptiedSlot
<1> QED BY <1>2, <1>3

LEMMA SameMemory ==
  ASSUME NEW s, NEW k \in Key
  PROVE  [Remembered(s) EXCEPT ![k] = Remembered(s)[k]] = Remembered(s)
BY DEF Remembered

LEMMA ForgetMemory ==
  ASSUME NEW s, NEW d, Sound(s, d), NEW k \in Key
  PROVE  Remembered(Forget(s, k)) = [Remembered(s) EXCEPT ![k] = {}]
<1>1. CASE HeldBy(s, k) # {}
  BY <1>1, EmptiedMemory DEF Forget
<1>2. CASE HeldBy(s, k) = {}
  <2>1. Remembered(s)[k] = {}
    BY <1>2 DEF Remembered
  <2>2. Forget(s, k) = s
    BY <1>2 DEF Forget, Put
  <2> QED BY <2>1, <2>2, SameMemory, Zenon
<1> QED BY <1>1, <1>2

\* A callback is judged by what is remembered of its switch.
LEMMA ConsumeMemory ==
  ASSUME NEW s, NEW d, Sound(s, d), NEW k \in Key, NEW v
  PROVE  /\ Matching(s, k, v) = {} <=> v \notin Remembered(s)[k]
         /\ Remembered(Consume(s, k, v)) = [Remembered(s) EXCEPT ![k] = Remembered(s)[k] \ {v}]
<1>1. \A i \in Slot : s[i] = Entry(k, v) <=> s[i].key = k /\ s[i].value = v
  <2>1. k # NoKey /\ Free.key = NoKey
    BY EchoConstantsOK DEF EchoConstantsOK, Free
  <2> SUFFICES ASSUME NEW i \in Slot PROVE s[i] = Entry(k, v) <=> s[i].key = k /\ s[i].value = v
    OBVIOUS
  <2>2. s[i] = Free \/ s[i] \in [key : Key, value : BOOLEAN]
    BY DEF Sound, Table
  <2> QED BY <2>1, <2>2 DEF Entry
<1>2. Matching(s, k, v) = {} <=> v \notin Remembered(s)[k]
  BY <1>1, RememberedOf DEF Matching
<1>3. Matching(s, k, v) \in SUBSET HeldBy(s, k)
  BY <1>1 DEF Matching, HeldBy
<1>4. CASE Matching(s, k, v) = {}
  <2>1. Remembered(s)[k] \ {v} = Remembered(s)[k]
    BY <1>2, <1>4
  <2>2. Consume(s, k, v) = s
    BY <1>4 DEF Consume, Put
  <2> QED BY <1>2, <2>1, <2>2, SameMemory, Zenon
<1>5. CASE Matching(s, k, v) # {}
  <2>1. PICK i \in Slot : s[i].key = k /\ s[i].value = v
    BY <1>1, <1>5 DEF Matching
  <2>2. \A h \in Slot : s[h].key = k => h = i
    BY <2>1, EchoConstantsOK DEF EchoConstantsOK, Sound, Unique
  <2>3. \A w : w \in Remembered(s)[k] => w = v
    BY <2>1, <2>2, RememberedOf
  <2>4. Remembered(s)[k] \ {v} = {}
    BY <2>3
  <2>5. Remembered(Consume(s, k, v)) = [Remembered(s) EXCEPT ![k] = {}]
    BY <1>3, <1>5, EmptiedMemory DEF Consume
  <2> QED BY <1>2, <2>4, <2>5
<1> QED BY <1>2, <1>4, <1>5

LEMMA CallbackMemory ==
  ASSUME TableSound, NEW k \in Key, NEW v, NEW by, Callback(slots, by, k, v)
  PROVE  Memory!Heard(by, k, v, Remembered(slots)[k])
<1>1. slots' = Consume(slots, k, v) /\ Sound(slots, said)
  BY DEF Callback, TableSound
<1>2. outcome' = [by |-> by, key |-> k, value |-> v, command |-> Matching(slots, k, v) = {}]
  BY DEF Callback
<1>3. Matching(slots, k, v) = {} <=> v \notin Remembered(slots)[k]
  BY <1>1, ConsumeMemory
<1>4. (Matching(slots, k, v) = {}) = (v \notin Remembered(slots)[k])
  BY <1>3
<1>5. Remembered(slots') = [Remembered(slots) EXCEPT ![k] = Remembered(slots)[k] \ {v}]
  BY <1>1, ConsumeMemory
<1> QED BY <1>2, <1>4, <1>5, Zenon DEF Memory!Heard

LEMMA DeviceWritesMemory ==
  ASSUME IsFiniteSet(Key), Cardinality(Key) <= Capacity,
         TableSound, NEW k \in Key, NEW v \in BOOLEAN, DeviceWrites(k, v)
  PROVE  Memory!DeviceWrites(k, v)
<1> DEFINE s == Remember(slots, k, v)
           d == [said EXCEPT ![k] = v]
           m == Remembered(slots)
<1>1. Sound(s, d) /\ Remembered(s) = [m EXCEPT ![k] = {v}]
  BY RememberSound, RememberMemory DEF TableSound
<1>2. \/ slots' = Forget(s, k) /\ UNCHANGED <<attr, outcome>>
      \/ attr' = [attr EXCEPT ![k] = v] /\ Callback(s, "device", k, v)
      \/ attr' = [attr EXCEPT ![k] = v] /\ slots' = s /\ UNCHANGED outcome
  BY DEF DeviceWrites
<1> HIDE DEF s, d
<1>3. Remembered(s)[k] = {v}
  BY <1>1 DEF Remembered
<1>4. \A M : [Remembered(s) EXCEPT ![k] = M] = [m EXCEPT ![k] = M]
  BY <1>1 DEF Remembered
<1> HIDE DEF m
<1>5. CASE slots' = Forget(s, k) /\ UNCHANGED <<attr, outcome>>
  <2>1. Remembered(slots') = [m EXCEPT ![k] = {}]
    BY <1>1, <1>4, <1>5, ForgetMemory, Zenon
  <2> QED BY <1>5, <2>1 DEF Memory!DeviceWrites, m
<1>6. CASE attr' = [attr EXCEPT ![k] = v] /\ Callback(s, "device", k, v)
  <2>1. slots' = Consume(s, k, v)
    BY <1>6 DEF Callback
  <2>2. Remembered(slots') = [m EXCEPT ![k] = {v} \ {v}]
    BY <1>1, <1>3, <1>4, <2>1, ConsumeMemory, Zenon
  <2>3. Matching(s, k, v) # {}
    BY <1>1, <1>3, ConsumeMemory
  <2>4. outcome' = [by |-> "device", key |-> k, value |-> v, command |-> v \notin {v}]
    <3>1. (Matching(s, k, v) = {}) = (v \notin {v})
      BY <2>3
    <3> QED BY <1>6, <3>1, Zenon DEF Callback
  <2>5. Memory!Heard("device", k, v, {v})
    BY <2>2, <2>4, Zenon DEF Memory!Heard, m
  <2> QED BY <1>6, <2>5, Zenon DEF Memory!DeviceWrites, Memory!Set
<1>7. CASE attr' = [attr EXCEPT ![k] = v] /\ slots' = s /\ UNCHANGED outcome
  BY <1>1, <1>7, Zenon DEF Memory!DeviceWrites, Memory!Set, m
<1> QED BY <1>2, <1>5, <1>6, <1>7

LEMMA NothingRemembered ==
  ASSUME NEW s, s = [i \in Slot |-> Free]
  PROVE  Remembered(s) = [k \in Key |-> {}]
<1>1. \A k \in Key, i \in Slot : s[i].key # k
  BY EchoConstantsOK DEF EchoConstantsOK, Free
<1>2. \A k \in Key : HeldBy(s, k) = {}
  BY <1>1 DEF HeldBy
<1> QED BY <1>2 DEF Remembered

\* With a slot for every switch, the one table does what a memory for each would.
THEOREM MemoryRefined ==
  ASSUME IsFiniteSet(Key), Cardinality(Key) <= Capacity
  PROVE  Spec => MemorySpec
<1>1. Init => Memory!Init
  <2> SUFFICES ASSUME Init PROVE Memory!Init
    OBVIOUS
  <2>1. Remembered(slots) = [k \in Key |-> {}]
    BY NothingRemembered DEF Init
  <2> QED BY <2>1, Zenon DEF Init, Memory!Init, Memory!Off, Memory!Nothing
<1>2. TableSound /\ OthersOK /\ [Next]_vars => [Memory!Next]_(Memory!vars)
  <2> SUFFICES ASSUME TableSound, OthersOK, [Next]_vars
               PROVE  Memory!Next \/ UNCHANGED Memory!vars
    OBVIOUS
  <2>1. ASSUME NEW k \in Key, NEW v \in BOOLEAN, DeviceWrites(k, v)
        PROVE  Memory!Next
    BY <2>1, DeviceWritesMemory, Zenon DEF Memory!Next
  <2>2. ASSUME NEW k \in Key, NEW v \in BOOLEAN, UserWrites(k, v)
        PROVE  Memory!Next
    <3>1. Memory!UserWrites(k, v)
      BY <2>2, CallbackMemory, Zenon DEF UserWrites, Memory!UserWrites, Memory!Set
    <3> QED BY <3>1, Zenon DEF Memory!Next
  <2>3. CASE LateCallback
    <3>1. Head(later) \in [key : Key, value : BOOLEAN]
      BY <2>3, HeadTailType, Zenon DEF LateCallback, OthersOK
    <3>2. Head(later).key \in Key /\ Head(later).value \in BOOLEAN
      BY <3>1, Zenon
    <3>3. ASSUME NEW k \in Key, NEW v \in BOOLEAN, Callback(slots, "device late", k, v), attr' = attr
          PROVE  Memory!Next
      BY <3>3, CallbackMemory, Zenon DEF Memory!Next, Memory!LateCallback
    <3> QED BY <2>3, <3>2, <3>3, Zenon DEF LateCallback
  <2>4. CASE Reset
    <3>1. Remembered(slots') = [k \in Key |-> {}]
      BY <2>4, NothingRemembered DEF Reset
    <3> QED BY <2>4, <3>1, Zenon DEF Reset, Memory!Next, Memory!Reset, Memory!Off, Memory!Nothing
  <2>5. CASE UNCHANGED vars
    BY <2>5 DEF vars, Memory!vars
  <2> QED BY <2>1, <2>2, <2>3, <2>4, <2>5 DEF Next
<1>3. Spec => []OthersOK
  <2>1. Init => OthersOK
    <3> SUFFICES ASSUME Init PROVE OthersOK
      OBVIOUS
    <3>1. attr \in [Key -> BOOLEAN] /\ outcome \in Outcome
      BY Zenon DEF Init, Outcome
    <3> QED BY <3>1 DEF Init, OthersOK
  <2> QED BY <2>1, OthersNext, PTL DEF Spec
<1> QED BY <1>1, <1>2, <1>3, EchoSound, PTL DEF Spec, MemorySpec, Memory!Spec
================================================================================
