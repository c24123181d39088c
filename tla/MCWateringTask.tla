---------------------------- MODULE MCWateringTask -----------------------------
(***************************************************************************)
(* Instances of WateringTask for TLC.                                      *)
(***************************************************************************)
EXTENDS WateringTask, TLC

\* The zones are interchangeable: the loop visits them in no particular order.
ZoneSymmetry == Permutations(Zone)
================================================================================
