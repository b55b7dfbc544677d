------------------------------ MODULE MCClusters ------------------------------
(* Five paths are enough for RolesApart with all roles present (the two     *)
(* clients may share one) and three for every way roles can coincide.       *)
EXTENDS Clusters, TLC

Symmetry == Permutations(Paths)
=============================================================================
