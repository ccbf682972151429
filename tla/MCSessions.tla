------------------------------ MODULE MCSessions ------------------------------
(***************************************************************************)
(* Model checking of Sessions: nothing tells the tabs of the browser apart,  *)
(* nor the slots of its calls.                                               *)
(***************************************************************************)
EXTENDS Sessions, TLC

Symmetry == Permutations(Tab) \cup Permutations(Call)
===============================================================================
