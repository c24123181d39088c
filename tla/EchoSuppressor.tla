---------------------------- MODULE EchoSuppressor -----------------------------
(***************************************************************************)
(* How the device tells its own attribute writes from commands.            *)
(*                                                                         *)
(* The On/Off attributes are the commands of the user and the reports of   *)
(* the device at once.  Before the watering task writes one it remembers   *)
(* the value in a table of Capacity slots                                  *)
(* (src/main/zb/attr_echo_suppressor.cpp); the callback for a write that   *)
(* matches a slot empties it and is ignored, every other callback is taken *)
(* for a command.  Both sides hold the Zigbee lock, so each is one step.   *)
(*                                                                         *)
(* Whether and when the Zigbee stack calls back for a write of the device  *)
(* itself is the stack's business: Echoes says what it may do.             *)
(***************************************************************************)
EXTENDS Integers, Sequences

CONSTANTS
  Key,               \* the endpoint, cluster and attribute of an On/Off switch
  NoKey,             \* marks a free slot
  Capacity,          \* kCapacity, the number of slots
  Echoes,            \* the callback for an own write comes "during" it, "later" or "never"
  MaxLater           \* bound: the number of callbacks still to come

ASSUME EchoConstantsOK ==
  /\ NoKey \notin Key
  /\ Capacity \in Nat /\ MaxLater \in Nat
  /\ Echoes \subseteq {"during", "later", "never"}

VARIABLES
  slots,             \* slots_
  attr,              \* the attributes in the stack
  later,             \* callbacks for own writes still to come
  said,              \* history: the value the device itself wrote last, FALSE at first
  crossed,           \* history: the switches written again before a callback still to come
  outcome            \* history: the last callback and whether it was taken for a command

vars == <<slots, attr, later, said, crossed, outcome>>

Slot == 1 .. Capacity
Free == [key |-> NoKey, value |-> FALSE]
Entry(k, v) == [key |-> k, value |-> v]
Outcome == [by : {"user", "device", "device late"}, key : Key, value : BOOLEAN, command : BOOLEAN]

EchoTypeOK ==
  /\ slots \in [Slot -> {Free} \cup [key : Key, value : BOOLEAN]]
  /\ attr \in [Key -> BOOLEAN] /\ said \in [Key -> BOOLEAN]
  /\ later \in Seq([key : Key, value : BOOLEAN])
  /\ crossed \subseteq Key /\ outcome \in Outcome

--------------------------------------------------------------------------------
\* The table.  The code takes the first slot of several that would do; which one
\* makes no difference.
HeldBy(s, k) == {i \in Slot : s[i].key = k}

Put(s, I, e) == IF I = {} THEN s ELSE [s EXCEPT ![CHOOSE i \in I : TRUE] = e]

\* Defect: the value of a slot in use is not replaced.
RememberFirst(s, k, v) ==
  IF HeldBy(s, k) # {} THEN s ELSE Put(s, HeldBy(s, NoKey), Entry(k, v))

\* remember(): the slot of the key is overwritten, a free one taken otherwise;
\* with neither the write is not remembered.
Remember(s, k, v) ==
  Put(s, IF HeldBy(s, k) # {} THEN HeldBy(s, k) ELSE HeldBy(s, NoKey), Entry(k, v))

Matching(s, k, v) == {i \in Slot : s[i] = Entry(k, v)}

\* consume() empties a slot with that key and value.
Consume(s, k, v) == Put(s, Matching(s, k, v), Free)

\* Defect: a refused write stays remembered.
ForgetNot(s, k) == s

\* Defect: the whole table is cleared for one refused write.
ForgetAll(s, k) == [i \in Slot |-> Free]

\* clear()
Forget(s, k) == Put(s, HeldBy(s, k), Free)

--------------------------------------------------------------------------------
\* The switches with callbacks still to come in queue q.
Awaited(q) == {q[i].key : i \in DOMAIN q}

\* A switch is written, or the device tries to: callbacks still to come for it are
\* older than that from now on.
Written(k) == crossed' = crossed \cup ({k} \cap Awaited(later))

\* handleSetAttr() for a write by the user or by the device itself, with table s.
Callback(s, by, k, v) ==
  /\ slots' = Consume(s, k, v)
  /\ outcome' = [by |-> by, key |-> k, value |-> v, command |-> Matching(s, k, v) = {}]

\* reportZoneStatus() and resetClearFaultTrigger(): remember the value, write the
\* attribute, forget the value if the stack refuses the write.
DeviceWrites(k, v) ==
  /\ Written(k)
  /\ LET s == Remember(slots, k, v)
     IN
     \/ /\ slots' = Forget(s, k)
        /\ UNCHANGED <<attr, later, said, outcome>>
     \/ /\ attr' = [attr EXCEPT ![k] = v]
        /\ said' = [said EXCEPT ![k] = v]
        /\ \/ /\ "during" \in Echoes
              /\ Callback(s, "device", k, v)
              /\ UNCHANGED later
           \/ /\ "later" \in Echoes /\ Len(later) < MaxLater
              /\ slots' = s
              /\ later' = Append(later, Entry(k, v))
              /\ UNCHANGED outcome
           \/ /\ "never" \in Echoes
              /\ slots' = s
              /\ UNCHANGED <<later, outcome>>

LateCallback ==
  /\ later # <<>>
  /\ Callback(slots, "device late", Head(later).key, Head(later).value)
  /\ later' = Tail(later)
  /\ crossed' = crossed \cap Awaited(Tail(later))
  /\ UNCHANGED <<attr, said>>

UserWrites(k, v) ==
  /\ attr' = [attr EXCEPT ![k] = v]
  /\ Callback(slots, "user", k, v)
  /\ Written(k)
  /\ UNCHANGED <<later, said>>

\* ZbHandlers::init() after a reset.
Reset ==
  /\ slots' = [i \in Slot |-> Free]
  /\ attr' = [k \in Key |-> FALSE] /\ said' = [k \in Key |-> FALSE]
  /\ later' = <<>> /\ crossed' = {}
  /\ UNCHANGED outcome

Init ==
  /\ slots = [i \in Slot |-> Free]
  /\ attr = [k \in Key |-> FALSE] /\ said = [k \in Key |-> FALSE]
  /\ later = <<>> /\ crossed = {}
  /\ outcome \in [by : {"user"}, key : Key, value : {TRUE}, command : {TRUE}]

Next ==
  \/ \E k \in Key, v \in BOOLEAN : DeviceWrites(k, v) \/ UserWrites(k, v)
  \/ LateCallback
  \/ Reset

Spec == Init /\ [][Next]_vars

--------------------------------------------------------------------------------
\* Properties.

\* No key ever has two slots, so a value remembered for an older write of the same
\* switch cannot survive a newer one.
OneSlotPerKey ==
  \A i, j \in Slot : slots[i].key = slots[j].key /\ slots[i].key # NoKey => i = j

\* What is remembered of a switch is what the device wrote to it last.
RememberedIsLast ==
  \A i \in Slot : slots[i].key # NoKey => slots[i].value = said[slots[i].key]

\* The inductive invariant behind the properties: refused writes, writes of other
\* switches and callbacks in any order leave one slot a switch, with its last value.
EchoInductive == EchoTypeOK /\ OneSlotPerKey /\ RememberedIsLast

\* With a slot for every switch the table is as good as a memory for each: searched,
\* shared and reused slots never let one switch's writes tell on another's commands.
Remembered(s) == [k \in Key |-> {s[i].value : i \in HeldBy(s, k)}]
Memory == INSTANCE EchoMemory WITH memory <- Remembered(slots)
MemorySpec == Memory!Spec

\* However the stack handles echoes, a write of the user is ignored only if it
\* repeats the device's own last write: an Off for a zone the device has reported
\* On, or an On for one it has reported Off, is always taken for a command.
IgnoredIsRepeat ==
  [][\A k \in Key, v \in BOOLEAN :
       UserWrites(k, v) /\ ~outcome'.command => v = said[k]]_vars

\* "So command handlers can ignore the corresponding local echo"
\* (attr_echo_suppressor.hpp:7-8): an own write is never taken for a command when
\* the stack calls back during it, whatever is remembered of writes whose callback
\* never came or is still to come.
EchoIsNoCommand == outcome.by = "device" => ~outcome.command

\* A callback that comes late is taken for a command only if its switch was written
\* in between, by the user or by the device: writes of other switches, refused or
\* not, never make a command of it.
LateOnlyIfCrossed ==
  [][LateCallback /\ outcome'.command => Head(later).key \in crossed]_vars
================================================================================
