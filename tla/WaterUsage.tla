------------------------------- MODULE WaterUsage -------------------------------
(***************************************************************************)
(* The lifetime water totals of src/main/main.cpp: the watering task adds  *)
(* every delivery record to a total in memory, saves that total to flash   *)
(* (NVS) and reports it to the coordinator when reports are enabled; a     *)
(* reset loses the memory and loads the totals from flash again.           *)
(*                                                                         *)
(* Saving takes three calls (open, set, commit), any of which may report   *)
(* an error, and a reset may strike between them: then the flash holds     *)
(* either the old or the new total, which the model leaves open.  A boot   *)
(* that finds the flash partition unusable erases it, the totals with it.  *)
(***************************************************************************)
EXTENDS Integers

CONSTANTS
  Zone,              \* the zones
  NoZone,            \* none of them
  Volumes,           \* the volumes a delivery record may carry, in ml
  SaveErrors,        \* TRUE among these: a save may report an error
  ReadFailures,      \* the sets of zones whose total may fail to be read at boot
  MaxTotal           \* bound: the total delivered in one zone

ASSUME UsageConstantsOK ==
  /\ NoZone \notin Zone
  /\ Volumes \subseteq Nat \ {0} /\ MaxTotal \in Nat
  /\ SaveErrors \subseteq BOOLEAN
  /\ ReadFailures \subseteq SUBSET Zone

Never == -1          \* lastReportedWaterTotalMl[] = UINT64_MAX

VARIABLES
  total,             \* s_waterUsage.totalsMl_
  lastReported,      \* lastReportedWaterTotalMl[]
  saving,            \* the zone whose total is being saved, NoZone otherwise
  volume,            \* the record taken last
  nvs,               \* the totals in flash; 0 stands for a missing entry too
  shown,             \* the total each sensor last received
  enabled,           \* ZbDevice::reportsEnabled()
  suspect,           \* history: zones whose total was last saved or read with an error
  lost               \* history: zones whose total a reset took back -- suspect then, not
                     \* read at boot or erased -- until their sensor shows the new one

memory == <<total, lastReported, saving, volume>>
vars == <<memory, nvs, shown, enabled, suspect, lost>>

UsageTypeOK ==
  /\ total \in [Zone -> 0 .. MaxTotal]
  /\ lastReported \in [Zone -> {Never} \cup 0 .. MaxTotal]
  /\ saving \in Zone \cup {NoZone} /\ volume \in Volumes \cup {0}
  /\ nvs \in [Zone -> 0 .. MaxTotal] /\ shown \in [Zone -> 0 .. MaxTotal]
  /\ enabled \in BOOLEAN /\ suspect \subseteq Zone /\ lost \subseteq Zone

--------------------------------------------------------------------------------
\* takeDeliveryRecord() and addDelivery(): a record of 0 ml changes nothing.
TakeRecord ==
  /\ saving = NoZone
  /\ \E z \in Zone, ml \in Volumes :
       /\ total[z] + ml <= MaxTotal
       /\ total' = [total EXCEPT ![z] = @ + ml]
       /\ saving' = z /\ volume' = ml
  /\ UNCHANGED <<lastReported, nvs, shown, enabled, suspect, lost>>

\* Defect: the volume of the last record is stored instead of the total.
SaveVolume ==
  /\ saving # NoZone
  /\ nvs' = [nvs EXCEPT ![saving] = volume]
  /\ suspect' = suspect \ {saving}
  /\ lastReported' = [lastReported EXCEPT ![saving] = Never]
  /\ saving' = NoZone
  /\ UNCHANGED <<total, volume, shown, enabled, lost>>

\* saveWaterUsageTotal() returned, and the total is due for a report.
Save ==
  /\ saving # NoZone
  /\ \/ /\ nvs' = [nvs EXCEPT ![saving] = total[saving]]
        /\ suspect' = suspect \ {saving}
     \/ /\ TRUE \in SaveErrors
        /\ \/ UNCHANGED nvs
           \/ nvs' = [nvs EXCEPT ![saving] = total[saving]]
        /\ suspect' = suspect \cup {saving}
  /\ lastReported' = [lastReported EXCEPT ![saving] = Never]
  /\ saving' = NoZone
  /\ UNCHANGED <<total, volume, shown, enabled, lost>>

\* Defect: totals are reported as soon as they have changed.
ReportEarly ==
  /\ enabled
  /\ \E z \in Zone :
       /\ total[z] # lastReported[z]
       /\ lastReported' = [lastReported EXCEPT ![z] = total[z]]
       /\ shown' = [shown EXCEPT ![z] = total[z]] /\ lost' = lost \ {z}
  /\ UNCHANGED <<total, saving, volume, nvs, enabled, suspect>>

\* The report step of the loop comes after the save.  lastReported[] is set
\* first, and a report the stack refuses or the radio loses is not repeated.
ReportTotal ==
  /\ saving = NoZone /\ enabled
  /\ \E z \in Zone :
       /\ total[z] # lastReported[z]
       /\ lastReported' = [lastReported EXCEPT ![z] = total[z]]
       /\ \/ shown' = [shown EXCEPT ![z] = total[z]] /\ lost' = lost \ {z}
          \/ UNCHANGED <<shown, lost>>
  /\ UNCHANGED <<total, saving, volume, nvs, enabled, suspect>>

\* The network is joined, the delay after a join ends or a rejoin starts it anew.
LinkChanges ==
  /\ enabled' = ~enabled
  /\ UNCHANGED <<memory, nvs, shown, suspect, lost>>

\* Defect: a missing entry is taken for the mark of an unreported total.
RestartMissing ==
  /\ total' = [z \in Zone |-> IF nvs[z] = 0 THEN Never ELSE nvs[z]]
  /\ lastReported' = [z \in Zone |-> Never]
  /\ saving' = NoZone /\ volume' = 0
  /\ enabled' = FALSE
  /\ lost' = lost \cup suspect
  /\ UNCHANGED <<nvs, shown, suspect>>

\* loadWaterUsageTotals() after a reset that may have struck in the middle of a save;
\* totals that cannot be read stay 0.
Load ==
  \E failed \in ReadFailures :
    /\ \/ UNCHANGED nvs
       \/ saving # NoZone /\ nvs' = [nvs EXCEPT ![saving] = total[saving]]
    /\ total' = [z \in Zone |-> IF z \in failed THEN 0 ELSE nvs'[z]]
    /\ suspect' = failed /\ lost' = lost \cup suspect \cup failed

\* Flash without a free page, or in the format of another version, is erased, and
\* there is nothing to load.
Erase ==
  /\ nvs' = [z \in Zone |-> 0] /\ total' = nvs'
  /\ suspect' = {} /\ lost' = Zone

\* A reset, then app_main().
Restart ==
  /\ Load \/ Erase
  /\ lastReported' = [z \in Zone |-> Never]
  /\ saving' = NoZone /\ volume' = 0
  /\ enabled' = FALSE
  /\ UNCHANGED shown

Init ==
  /\ total = [z \in Zone |-> 0] /\ nvs = total /\ shown = total
  /\ lastReported = [z \in Zone |-> Never]
  /\ saving = NoZone /\ volume = 0
  /\ enabled = FALSE /\ suspect = {} /\ lost = {}

Next == TakeRecord \/ Save \/ ReportTotal \/ LinkChanges \/ Restart

Spec == Init /\ [][Next]_vars

--------------------------------------------------------------------------------
\* Properties.

\* What the sensors have shown survives a reset: a total is reported only after
\* it was saved, so that flash lags behind a sensor only after an error of a save or a
\* read, or after the flash was erased at boot, and only until the next report.
ShownIsSaved == \A z \in Zone \ (suspect \cup lost) : shown[z] <= nvs[z]

\* Flash is at most one record behind memory, the record being saved, except for
\* zones whose latest save or read reported an error: that error is made good by the
\* next save, because the whole total is stored and not an increment.
OneRecordBehind ==
  \A z \in Zone \ suspect :
    total[z] - nvs[z] \in {0, IF saving = z THEN volume ELSE 0}

\* README.md:378, "Monotonic lifetime water total": a sensor goes back only if a
\* total could not be read at boot, the flash was erased at boot, or a reset struck
\* between a save that reported an error and the next one, and at most once for
\* that; the error of a save alone is harmless.
DropsOnlyIfLost == [][\A z \in Zone \ lost : shown'[z] >= shown[z]]_vars
================================================================================
