------------------------------- MODULE MCFactLog -------------------------------
(* Instances of FactLog for TLC. *)
EXTENDS FactLog

CONSTANTS f1, f2, f3, f4

\* A chapter with an event reported twice, and one that repeats an old event.
TwoBatches == {<<f1, f2, f1>>, <<f2, f3, f4>>}
OldEvents  == <<f2, f1>>
================================================================================
