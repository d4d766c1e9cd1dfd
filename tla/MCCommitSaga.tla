----------------------------- MODULE MCCommitSaga -----------------------------
(* Instances of CommitSaga for TLC. *)
EXTENDS CommitSaga, TLC

CONSTANTS t1, t2, p1, p2

MCText    == {t1, t2}
MCPayload == {p1, p2}

\* p1 carries records for two stores, p2 is the automatic commit's payload,
\* which carries none
MCTouches == (p1 :> {"timeline", "state_changes"}) @@ (p2 :> {})

Flat(n) == [layered |-> FALSE, chapters |-> n, open |-> FALSE,
            finale |-> FALSE, threads |-> FALSE, settled |-> TRUE]

\* A flat outline that may be cut or extended
FlatOutlines == {Flat(n) : n \in 1..2}

Layered(n) == [Flat(n) EXCEPT !.layered = TRUE]

\* A layered outline: with an arc to expand, exhausted with a foreshadow still
\* active, settled, or closed by a declared final volume
LayeredOutlines ==
  UNION {{[Layered(n) EXCEPT !.open = TRUE, !.threads = TRUE, !.settled = FALSE],
          [Layered(n) EXCEPT !.settled = FALSE],
          Layered(n),
          [Layered(n) EXCEPT !.finale = TRUE, !.threads = TRUE,
                             !.settled = FALSE]} : n \in 1..2}

MCOutlines == FlatOutlines \cup LayeredOutlines

\* Both chapters committed and one of them rewritten
FewRewrites == Cardinality(checkpoints) <= 3

TextSymmetry == Permutations(MCText)
================================================================================
