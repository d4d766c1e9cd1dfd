----------------------------- MODULE MCAutoCommit -----------------------------
(* Instances of AutoCommit for TLC. *)
EXTENDS AutoCommit, TLC

CONSTANTS t1, t2, auto

MCText    == {t1, t2}
MCPayload == {auto}
MCTouches == (auto :> {})

\* A flat book that may be extended by a chapter once
MCOutlines == {[layered |-> FALSE, chapters |-> n, open |-> FALSE, finale |-> FALSE,
                threads |-> FALSE, settled |-> TRUE] :
                 n \in {Cardinality(Chapters) - 1, Cardinality(Chapters)}}
================================================================================
