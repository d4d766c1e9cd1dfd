------------------------------ MODULE MCImageJobs ------------------------------
(* Instances of ImageJobs for TLC. *)
EXTENDS ImageJobs

CONSTANTS u1, u2

TwoUsers == {u1, u2}
================================================================================
