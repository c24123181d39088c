--------------------------- MODULE MCEchoSuppressor ----------------------------
(***************************************************************************)
(* Instances of EchoSuppressor for TLC.                                    *)
(***************************************************************************)
EXTENDS EchoSuppressor, TLC

\* The switches are interchangeable: the table does not order its keys.
KeySymmetry == Permutations(Key)
================================================================================
