----------------------------- MODULE MCTestPods -----------------------------
(* Three runs compete for one pod name: what one leaves, two others meet.   *)
(* The names are independent of each other in every action.                 *)
EXTENDS TestPods, TLC

Symmetry == Permutations(Runs)
=============================================================================
