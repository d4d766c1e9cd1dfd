---------------------------- MODULE MCBookOutline ------------------------------
(* A small instance of BookOutline: a long book that opens with one written  *)
(* out arc and a skeleton, a long one whose only arc is written out, and a   *)
(* short one of one chapter.                                                 *)
EXTENDS BookOutline

MCOpenings ==
  {[entries |-> <<"b">>, ends |-> <<1, 1>>, final |-> FALSE],
   [entries |-> <<"b">>, ends |-> <<1>>, final |-> FALSE],
   [entries |-> <<"a">>, ends |-> <<>>, final |-> FALSE]}
MCPayloads == {<<>>, <<"b">>}
================================================================================
