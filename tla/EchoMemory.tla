------------------------------ MODULE EchoMemory -------------------------------
(***************************************************************************)
(* What AttrEchoSuppressor promises the command handlers, whatever it      *)
(* keeps it in: for every switch the value the device wrote to it last,    *)
(* until that value is heard or the write is refused.  What is done to one *)
(* switch makes no difference to another (src/main/zb/                     *)
(* attr_echo_suppressor.hpp:7-8).  EchoSuppressor, with one table of slots *)
(* for all switches, implements this specification.                        *)
(***************************************************************************)
CONSTANT Key         \* the On/Off switches

VARIABLES
  attr,              \* the attributes in the stack
  memory,            \* the values remembered of each switch, one at most
  outcome            \* the last callback and whether it was taken for a command

vars == <<attr, memory, outcome>>

Off == [k \in Key |-> FALSE]
Nothing == [k \in Key |-> {}]

Init ==
  /\ attr = Off /\ memory = Nothing
  /\ outcome \in [by : {"user"}, key : Key, value : {TRUE}, command : {TRUE}]

Set(k, v) == attr' = [attr EXCEPT ![k] = v]

\* The callback for value v: it is a command unless v is remembered of the switch.
Heard(by, k, v, remembered) ==
  /\ outcome' = [by |-> by, key |-> k, value |-> v, command |-> v \notin remembered]
  /\ memory' = [memory EXCEPT ![k] = remembered \ {v}]

\* A write of the device is heard at once, or remembered until it is heard, or refused.
DeviceWrites(k, v) ==
  \/ Set(k, v) /\ Heard("device", k, v, {v})
  \/ Set(k, v) /\ UNCHANGED outcome /\ memory' = [memory EXCEPT ![k] = {v}]
  \/ UNCHANGED <<attr, outcome>> /\ memory' = [memory EXCEPT ![k] = {}]

LateCallback(k, v) == UNCHANGED attr /\ Heard("device late", k, v, memory[k])

UserWrites(k, v) == Set(k, v) /\ Heard("user", k, v, memory[k])

Reset == attr' = Off /\ UNCHANGED outcome /\ memory' = Nothing

Next ==
  \/ \E k \in Key, v \in BOOLEAN : DeviceWrites(k, v) \/ LateCallback(k, v) \/ UserWrites(k, v)
  \/ Reset

Spec == Init /\ [][Next]_vars
================================================================================
