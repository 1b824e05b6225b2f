------------------------------- MODULE MCUsers -------------------------------
(* Users, and what they may write as an amount: up to four characters. *)
EXTENDS Users

CONSTANTS wallet, operator

Characters == {0, 1, 9, Point, Blank, Blank + 1}
ShortTexts == UNION {[1..n -> Characters] : n \in 0..4}
=============================================================================
