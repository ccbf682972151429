----------------------------- MODULE MCStatements -----------------------------
(***************************************************************************)
(* Model checking of Statements: two accounts, one with transactions; two       *)
(* months, the first a day shorter; an amount and one that wraps around.      *)
(***************************************************************************)
EXTENDS Statements

MCMonthLength == <<1, 2>>
MCTaskValue == {[negative |-> FALSE, whole |-> 0, places |-> 1, frac |-> 5]}
MCTyped == {[negative |-> FALSE, whole |-> 7, places |-> 0, frac |-> 0]}
===============================================================================
