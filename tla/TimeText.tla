------------------------------- MODULE TimeText --------------------------------
(***************************************************************************)
(* Times as the SQL store compares them: as the text time.Format gives     *)
(* them, with the layout RFC3339Nano.  Times are half seconds, the finest  *)
(* scale at which the text of a time orders otherwise than the time.       *)
(***************************************************************************)
EXTENDS Integers

\* a < b on the texts of two times.  The fraction is written without trailing
\* zeros, so that "05.5Z" sorts before "05Z".
TextBefore(a, b) ==
    \/ a \div 2 < b \div 2
    \/ a \div 2 = b \div 2 /\ a % 2 = 1 /\ b % 2 = 0
================================================================================
