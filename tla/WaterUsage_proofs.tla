--------------------------- MODULE WaterUsage_proofs ----------------------------
(***************************************************************************)
(* Proofs about WaterUsage, for every set of zones, every set of volumes   *)
(* and whatever saves and reads at boot may report.                        *)
(***************************************************************************)
EXTENDS WaterUsage, TLAPS

LEMMA ConstantTypes ==
  /\ NoZone \notin Zone /\ Volumes \subseteq Nat \ {0} /\ MaxTotal \in Nat
  /\ ReadFailures \subseteq SUBSET Zone
BY UsageConstantsOK DEF UsageConstantsOK

--------------------------------------------------------------------------------
\* Types.

LEMMA TypeInit == Init => UsageTypeOK
<1> SUFFICES ASSUME Init PROVE UsageTypeOK
  OBVIOUS
<1>1. 0 \in 0 .. MaxTotal
  BY ConstantTypes
<1>2. total \in [Zone -> 0 .. MaxTotal] /\ nvs = total /\ shown = total
  BY <1>1 DEF Init
<1>3. lastReported \in [Zone -> {Never} \cup 0 .. MaxTotal]
  BY DEF Init
<1>4. enabled \in BOOLEAN
  BY Zenon DEF Init
<1> QED BY <1>2, <1>3, <1>4 DEF Init, UsageTypeOK

LEMMA TypeNext == UsageTypeOK /\ [Next]_vars => UsageTypeOK'
<1> SUFFICES ASSUME UsageTypeOK, [Next]_vars PROVE UsageTypeOK'
  OBVIOUS
<1> USE DEF UsageTypeOK
<1>1. CASE TakeRecord
  <2>1. PICK z \in Zone, ml \in Volumes :
           /\ total[z] + ml <= MaxTotal
           /\ total' = [total EXCEPT ![z] = @ + ml]
           /\ saving' = z /\ volume' = ml
    BY <1>1 DEF TakeRecord
  <2>2. total[z] + ml \in 0 .. MaxTotal
    BY <2>1, ConstantTypes
  <2> QED BY <1>1, <2>1, <2>2 DEF TakeRecord
<1>2. CASE Save
  BY <1>2 DEF Save
<1>3. CASE ReportTotal
  BY <1>3 DEF ReportTotal
<1>4. CASE LinkChanges
  BY <1>4 DEF LinkChanges, memory
<1>5. CASE Restart
  <2>1. nvs' \in [Zone -> 0 .. MaxTotal] /\ total' \in [Zone -> 0 .. MaxTotal]
        /\ suspect' \subseteq Zone /\ lost' \subseteq Zone
    <3>1. CASE Load
      <4>1. PICK failed \in ReadFailures :
               /\ \/ UNCHANGED nvs
                  \/ saving # NoZone /\ nvs' = [nvs EXCEPT ![saving] = total[saving]]
               /\ total' = [z \in Zone |-> IF z \in failed THEN 0 ELSE nvs'[z]]
               /\ suspect' = failed /\ lost' = lost \cup suspect \cup failed
        BY <3>1 DEF Load
      <4>2. nvs' \in [Zone -> 0 .. MaxTotal]
        BY <4>1
      <4> QED BY <4>1, <4>2, ConstantTypes
    <3>2. CASE Erase
      BY <3>2, ConstantTypes DEF Erase
    <3> QED BY <1>5, <3>1, <3>2 DEF Restart
  <2>2. lastReported' \in [Zone -> {Never} \cup 0 .. MaxTotal]
    BY <1>5 DEF Restart
  <2>3. enabled' \in BOOLEAN
    BY <1>5, Zenon DEF Restart
  <2> QED BY <1>5, <2>1, <2>2, <2>3 DEF Restart
<1>6. CASE UNCHANGED vars
  BY <1>6 DEF vars, memory
<1> QED BY <1>1, <1>2, <1>3, <1>4, <1>5, <1>6 DEF Next

\* Totals stay within their range, whatever is read or written.
THEOREM UsageTypeCorrect == Spec => []UsageTypeOK
BY TypeInit, TypeNext, PTL DEF Spec

--------------------------------------------------------------------------------
\* The inductive invariant adds what makes a save worth its error: a sensor never
\* shows more than there is in memory, so that the next save covers it.
ShownIsReal == \A z \in Zone \ lost : shown[z] <= total[z]

Totals == UsageTypeOK /\ ShownIsReal /\ ShownIsSaved /\ OneRecordBehind

LEMMA TotalsInit == Init => Totals
<1> SUFFICES ASSUME Init PROVE Totals
  OBVIOUS
<1>1. \A z \in Zone : total[z] = 0 /\ nvs[z] = 0 /\ shown[z] = 0
  BY DEF Init
<1> QED BY <1>1, TypeInit DEF Totals, ShownIsReal, ShownIsSaved, OneRecordBehind

\* What the invariant says of one zone.
LEMMA OfZone ==
  ASSUME Totals, NEW z \in Zone
  PROVE  /\ total[z] \in Nat /\ nvs[z] \in Nat /\ shown[z] \in Nat /\ volume \in Nat
         /\ z \notin lost => shown[z] <= total[z]
         /\ z \notin suspect /\ z \notin lost => shown[z] <= nvs[z]
         /\ z \notin suspect /\ z = saving => total[z] - nvs[z] \in {0, volume}
         /\ z \notin suspect /\ z # saving => total[z] = nvs[z]
BY ConstantTypes DEF Totals, UsageTypeOK, ShownIsReal, ShownIsSaved, OneRecordBehind

\* What has to be shown of one zone after a step.
LEMMA ZoneByZone ==
  ASSUME UsageTypeOK',
         \A z \in Zone :
           /\ z \notin lost' => shown'[z] <= total'[z]
           /\ z \notin suspect' /\ z \notin lost' => shown'[z] <= nvs'[z]
           /\ z \notin suspect' =>
                total'[z] - nvs'[z] \in {0, IF saving' = z THEN volume' ELSE 0}
  PROVE  Totals'
BY DEF Totals, ShownIsReal, ShownIsSaved, OneRecordBehind

LEMMA TakeRecordTotals == Totals /\ TakeRecord => Totals'
<1> SUFFICES ASSUME Totals, TakeRecord PROVE Totals'
  OBVIOUS
<1>1. UsageTypeOK'
  BY TypeNext DEF Totals, Next
<1>2. PICK y \in Zone, ml \in Volumes :
         /\ total' = [total EXCEPT ![y] = @ + ml]
         /\ saving' = y /\ volume' = ml
  BY DEF TakeRecord
<1>3. saving = NoZone /\ UNCHANGED <<nvs, shown, suspect, lost>> /\ ml \in Nat
  BY ConstantTypes DEF TakeRecord
<1>4. \A z \in Zone : total'[z] = IF z = y THEN total[z] + ml ELSE total[z]
  BY <1>2 DEF Totals, UsageTypeOK
<1>5. \A z \in Zone : z # saving
  BY <1>3, ConstantTypes
<1> QED BY <1>1, <1>2, <1>3, <1>4, <1>5, OfZone, ZoneByZone

LEMMA SaveTotals == Totals /\ Save => Totals'
<1> SUFFICES ASSUME Totals, Save PROVE Totals'
  OBVIOUS
<1>1. UsageTypeOK'
  BY TypeNext DEF Totals, Next
<1>2. saving \in Zone /\ saving' = NoZone /\ UNCHANGED <<total, volume, shown, lost>>
  BY DEF Save, Totals, UsageTypeOK
<1>3. \/ nvs' = [nvs EXCEPT ![saving] = total[saving]] /\ suspect' = suspect \ {saving}
      \/ nvs' = [nvs EXCEPT ![saving] = total[saving]] /\ suspect' = suspect \cup {saving}
      \/ nvs' = nvs /\ suspect' = suspect \cup {saving}
  BY DEF Save
<1>4. \A z \in Zone : z # saving => nvs'[z] = nvs[z] /\ (z \in suspect' <=> z \in suspect)
  BY <1>3 DEF Totals, UsageTypeOK
<1>5. saving \notin suspect' => nvs'[saving] = total[saving]
  BY <1>2, <1>3 DEF Totals, UsageTypeOK
<1>6. \A z \in Zone : z # saving'
  BY <1>2, ConstantTypes
<1> QED BY <1>1, <1>2, <1>4, <1>5, <1>6, OfZone, ZoneByZone

LEMMA ReportTotals == Totals /\ ReportTotal => Totals'
<1> SUFFICES ASSUME Totals, ReportTotal PROVE Totals'
  OBVIOUS
<1>1. UsageTypeOK'
  BY TypeNext DEF Totals, Next
<1>2. saving = NoZone /\ UNCHANGED <<total, saving, volume, nvs, suspect>>
  BY DEF ReportTotal
<1>3. PICK y \in Zone : \/ shown' = [shown EXCEPT ![y] = total[y]] /\ lost' = lost \ {y}
                        \/ UNCHANGED <<shown, lost>>
  BY DEF ReportTotal
<1>4. \A z \in Zone : z # saving
  BY <1>2, ConstantTypes
<1>5. \A z \in Zone : \/ shown'[z] = total[z]
                      \/ shown'[z] = shown[z] /\ (z \in lost' <=> z \in lost)
  BY <1>3 DEF Totals, UsageTypeOK
<1> QED BY <1>1, <1>2, <1>4, <1>5, OfZone, ZoneByZone

LEMMA RestartTotals == Totals /\ Restart => Totals'
<1> SUFFICES ASSUME Totals, Restart PROVE Totals'
  OBVIOUS
<1>1. UsageTypeOK'
  BY TypeNext DEF Totals, Next
<1>2. saving' = NoZone /\ shown' = shown
  BY DEF Restart
<1>3. CASE Load
  <2>1. PICK failed \in ReadFailures :
           /\ \/ UNCHANGED nvs
              \/ saving # NoZone /\ nvs' = [nvs EXCEPT ![saving] = total[saving]]
           /\ total' = [z \in Zone |-> IF z \in failed THEN 0 ELSE nvs'[z]]
           /\ suspect' = failed /\ lost' = lost \cup suspect \cup failed
    BY <1>3 DEF Load
  <2>2. \A z \in Zone : nvs'[z] = nvs[z] \/ (z = saving /\ nvs'[z] = total[z])
    BY <2>1 DEF Totals, UsageTypeOK
  <2>3. \A z \in Zone : z \notin failed => total'[z] = nvs'[z]
    BY <2>1
  <2>4. \A z \in Zone : nvs'[z] \in Nat
    BY <2>2, OfZone
  <2> QED BY <1>1, <1>2, <2>1, <2>2, <2>3, <2>4, OfZone, ZoneByZone
<1>4. CASE Erase
  BY <1>1, <1>4, ZoneByZone DEF Erase
<1> QED BY <1>3, <1>4 DEF Restart

LEMMA TotalsNext == Totals /\ [Next]_vars => Totals'
<1> SUFFICES ASSUME Totals, [Next]_vars PROVE Totals'
  OBVIOUS
<1>1. CASE LinkChanges \/ UNCHANGED vars
  BY <1>1 DEF LinkChanges, vars, memory, Totals, UsageTypeOK, ShownIsReal, ShownIsSaved,
              OneRecordBehind
<1> QED BY <1>1, TakeRecordTotals, SaveTotals, ReportTotals, RestartTotals DEF Next

\* A sensor is never ahead of flash, but for zones an error or an erase has touched and
\* whose sensor has not been told yet.
THEOREM ShownIsSavedCorrect == Spec => []ShownIsSaved
<1>1. Totals => ShownIsSaved
  BY DEF Totals
<1> QED BY <1>1, TotalsInit, TotalsNext, PTL DEF Spec

\* A reset loses at most the record being saved, and an error of a save is made good
\* by the next save.
THEOREM OneRecordBehindCorrect == Spec => []OneRecordBehind
<1>1. Totals => OneRecordBehind
  BY DEF Totals
<1> QED BY <1>1, TotalsInit, TotalsNext, PTL DEF Spec

\* A lifetime sensor never goes back, but once for each reset that lost a total after
\* an error, could not read it or found the flash to be erased.
THEOREM DropsOnlyIfLostCorrect == Spec => DropsOnlyIfLost
<1> DEFINE Drops == \A z \in Zone \ lost : shown'[z] >= shown[z]
<1>1. Totals /\ [Next]_vars => [Drops]_vars
  <2> SUFFICES ASSUME Totals, Next, NEW z \in Zone, z \notin lost
               PROVE  shown'[z] >= shown[z]
    OBVIOUS
  <2>1. shown[z] \in Nat /\ shown[z] <= total[z] /\ total[z] \in Nat
    BY OfZone
  <2>2. CASE ReportTotal
    <3>1. shown'[z] \in {shown[z], total[z]}
      BY <2>2 DEF ReportTotal, Totals, UsageTypeOK
    <3> QED BY <2>1, <3>1
  <2>3. CASE ~ReportTotal
    <3>1. shown' = shown
      BY <2>3 DEF Next, TakeRecord, Save, LinkChanges, Restart
    <3> QED BY <2>1, <3>1
  <2> QED BY <2>2, <2>3
<1> QED BY <1>1, TotalsInit, TotalsNext, PTL DEF Spec, DropsOnlyIfLost
================================================================================
