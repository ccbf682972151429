------------------------------- MODULE MCHolds -------------------------------
(* The request handlers on a small household. *)
EXTENDS HoldsInductive, TLC

CONSTANTS Transfers, Rows, MaxAmount

MCTransferId == 1..Transfers
MCRowId == 1..Rows
MCAmount == 1..MaxAmount

(* Request slots are interchangeable. *)
Symmetry == Permutations(Request)
=============================================================================
