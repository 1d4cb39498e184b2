------------------------------ MODULE MCAdminGate ------------------------------
(* Instances of AdminGate for TLC.                                         *)
EXTENDS AdminGate, TLC

Interchangeable == Permutations(Requests)
================================================================================
