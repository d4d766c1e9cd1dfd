-------------------------------- MODULE FactList -------------------------------
(***************************************************************************)
(* What the append-only files of facts promise to chapter commits: a list  *)
(* that only grows, without repetition.  A call that returns without error *)
(* has brought all its facts into the list for good; a call that fails may *)
(* have brought in some of them, and a power failure may take away what no *)
(* call has confirmed.                                                     *)
(***************************************************************************)
EXTENDS Naturals, Sequences, Functions

CONSTANTS
  Batches,   \* the batches of facts that commits bring
  Legacy     \* what an earlier version of the program has left

VARIABLES
  facts,      \* the list, as a reader would find it
  confirmed   \* facts some call has returned success for

vars == <<facts, confirmed>>

Init == /\ facts \in {<<>>, Legacy}
        /\ confirmed = Range(facts)

\* A call brings in facts of its batch that are not in the list yet.
Grow(b) == /\ Len(facts) <= Len(facts')
           /\ SubSeq(facts', 1, Len(facts)) = facts
           /\ Range(facts') \subseteq Range(facts) \cup Range(b)
           /\ IsInjective(facts')
           /\ UNCHANGED confirmed

\* It returns.
Confirm(b) == /\ Range(b) \subseteq Range(facts)
              /\ confirmed' = confirmed \cup Range(b)
              /\ UNCHANGED facts

\* The power fails.
Lose == /\ \E n \in 0 .. Len(facts) : facts' = SubSeq(facts, 1, n)
        /\ confirmed \subseteq Range(facts')
        /\ UNCHANGED confirmed

Next == \/ \E b \in Batches : Grow(b) \/ Confirm(b)
        \/ Lose

Spec == Init /\ [][Next]_vars
================================================================================
