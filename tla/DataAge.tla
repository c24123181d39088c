-------------------------------- MODULE DataAge --------------------------------
(***************************************************************************)
(* WateringFsm with a clock that does not wrap: how long ago the snapshot  *)
(* of the charge controller was taken, which the machine only knows as an  *)
(* unsigned difference of two 32-bit readings.                             *)
(***************************************************************************)
EXTENDS WateringFsm

VARIABLE
  age                \* history: ticks since the last successful poll, or the reset if
                     \* there was none; counted up to a lap of the clock

AgedInit == Init /\ age = 0

AgedNext ==
  \/ (PollSucceeds \/ Reboot) /\ age' = 0
  \/ Elapse /\ age' = IF age < ClockMod THEN age + 1 ELSE age
  \/ /\ \/ CallRequest \/ CallTick \/ CallCancel \/ CallClearFault \/ CallTakeDeliveryRecord
        \/ Resume \/ TankChanges \/ FlowPulse
     /\ UNCHANGED age

AgedSpec == AgedInit /\ [][AgedNext]_<<vars, age>>

--------------------------------------------------------------------------------
\* Properties.

\* The oldest data a cycle may start with.
StartAge == StaleThreshold + MaxLag + MaxUart + LoadSettle + PullIn

\* Watering never goes on with data older than the threshold by more than what
\* request() and Priming, which do not look again, can let pass: the age is looked at
\* again one tick after the tick that ends Priming.  Two kinds of data are never too
\* old for the code, because it has no other clock: data of the reading 0, the mark
\* of "never polled", and data of a lap of the clock ago and more.
FreshEnough ==
  (state = "Watering" /\ pump /\ data.at > 0)
    => age < StartAge + PrimeTimeout + 2 * TickGap \/ age = ClockMod
================================================================================
