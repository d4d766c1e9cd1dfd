----------------------------- MODULE MCPlayEngine -----------------------------
(* Instances of PlayEngine for TLC: one request of each kind. *)
EXTENDS PlayEngine, TLC

CONSTANTS turn, choose, replan, pause

\* One plan without a choice and one that ends in one
Narrow == {<<"beat">>, <<"beat", "choice">>}

\* Two requests at a time beside the engine, followed until the exception of the
\* properties holds
TwoUnraced == ~raced /\ Cardinality({c \in Callers : ~Is(c, "idle")}) <= 2
================================================================================
