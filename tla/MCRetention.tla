------------------------------ MODULE MCRetention ------------------------------
(* Instances of Retention for TLC.                                         *)
EXTENDS Retention, TLC

Interchangeable == Permutations(Captures) \cup Permutations(Runs)
================================================================================
