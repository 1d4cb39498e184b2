------------------------------- MODULE MCCapture -------------------------------
(* Instances of Capture for TLC.                                           *)
EXTENDS Capture, TLC

\* Deliveries are interchangeable.
Interchangeable == Permutations(Hooks)
================================================================================
