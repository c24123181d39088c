---------------------------- MODULE OutputInterlock ----------------------------
(***************************************************************************)
(* What the watering controller promises about its three kinds of output,  *)
(* independently of why a cycle starts or stops: the load supply of the    *)
(* solar charge controller, the zone valves (solenoids) and the pump are   *)
(* switched on in that order and off in the reverse order                  *)
(* (src/main/config.hpp:125-132), at most one valve is open, and only a    *)
(* power loss may drop pump and valve together.  WateringFsm implements    *)
(* this specification.                                                     *)
(***************************************************************************)
CONSTANT Zone        \* the irrigated zones, one valve each

VARIABLES
  load,              \* TRUE iff the charge controller supplies the actuators
  open,              \* the set of zones whose valve is energised
  pump               \* TRUE iff the pump is driven

outputs == <<load, open, pump>>

Init ==
  /\ load \in BOOLEAN        \* the supply survives a reboot of the controller
  /\ open = {}
  /\ pump = FALSE

EnableLoad ==
  /\ ~pump /\ open = {}
  /\ load' = TRUE
  /\ UNCHANGED <<open, pump>>

OpenValve ==
  /\ load /\ open = {} /\ ~pump
  /\ \E z \in Zone : open' = {z}
  /\ UNCHANGED <<load, pump>>

StartPump ==
  /\ load /\ open # {}
  /\ pump' = TRUE
  /\ UNCHANGED <<load, open>>

StopPump ==
  /\ pump
  /\ pump' = FALSE
  /\ UNCHANGED <<load, open>>

CloseValve ==
  /\ ~pump
  /\ open' = {}
  /\ UNCHANGED <<load, pump>>

DisableLoad ==
  /\ ~pump /\ open = {}
  /\ load' = FALSE
  /\ UNCHANGED <<open, pump>>

PowerLoss ==
  /\ open' = {} /\ pump' = FALSE
  /\ UNCHANGED load

Next ==
  \/ EnableLoad \/ OpenValve \/ StartPump
  \/ StopPump \/ CloseValve \/ DisableLoad
  \/ PowerLoss

Spec == Init /\ [][Next]_outputs
================================================================================
