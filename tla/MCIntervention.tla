---------------------------- MODULE MCIntervention ----------------------------
(* Instances of Intervention for TLC. *)
EXTENDS Intervention, TLC

CONSTANTS m1, m2, e1, e2

Symmetric == Permutations({e1, e2}) \cup Permutations({m1, m2})

Answer     == NoPlan
Dispatched == [NoPlan EXCEPT !.dispatch = TRUE]
Held       == [NoPlan EXCEPT !.hold = "boundary"]
Reworked   == [NoPlan EXCEPT !.hold = "drained", !.dispatch = TRUE]
Reopened   == [NoPlan EXCEPT !.reopen = TRUE]

\* Interleavings of holds and dispatches
HoldPlans  == {Held, Reworked}
\* Decisions that cannot conflict with a hold
LightPlans == {Answer, Dispatched, Reopened}
================================================================================
