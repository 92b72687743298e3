------------------------------ MODULE MCRemoval ------------------------------
(* Scale-down against GitHub, on small instances.                          *)
EXTENDS Removal, TLC
Symmetry == Permutations(Launches)
=============================================================================
