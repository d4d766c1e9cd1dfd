------------------------------- MODULE MCPlayLog -------------------------------
(* Instances of PlayLog for TLC. *)
EXTENDS PlayLog

BothFiles == {"events", "stream"}
================================================================================
