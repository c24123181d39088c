----------------------------- MODULE MCWateringFsm -----------------------------
(***************************************************************************)
(* The instance of WateringFsm, with DataAge, for TLC.                     *)
(***************************************************************************)
EXTENDS DataAge, TLC

\* The zones are interchangeable: no operator of WateringFsm orders them.
ZoneSymmetry == Permutations(Zone)
================================================================================
