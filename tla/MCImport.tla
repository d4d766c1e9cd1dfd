------------------------------ MODULE MCImport ------------------------------
(* A source of a preface and two chapters, cut in two ways. *)
EXTENDS Import

MCSplits == {<<"a", "c">>, <<"pa", "c">>}
MCAnswers == {[premise |-> "p", status |-> "uncertain"]}
\* Up to its first outline an import treats the interrupted book like an empty one.
MCBooks == {Interrupted, Planned}

\* A plain request, and one with guidance, a larger window, a decision on the
\* story and the wish to go on writing
MCRequests ==
  {Plain, [guide |-> "g", reset |-> FALSE, story |-> "closed", cont |-> TRUE,
           deep |-> 1, accept |-> FALSE]}
=============================================================================
