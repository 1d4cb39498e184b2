----------------------------- MODULE MCIdempotency -----------------------------
(* Instances of Idempotency for TLC.                                       *)
EXTENDS Idempotency, TLC

Interchangeable == Permutations(Calls) \cup Permutations(Keys)
================================================================================
