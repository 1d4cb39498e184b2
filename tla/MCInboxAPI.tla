------------------------------ MODULE MCInboxAPI -------------------------------
(* Instances of InboxAPI for TLC.                                          *)
EXTENDS InboxAPI, TLC

Interchangeable == Permutations(Rows)
================================================================================
