------------------------------ MODULE MCReaper -------------------------------
(* The pool, the launches and the reaper of a tier, on small instances.    *)
EXTENDS Reaper, TLC
Symmetry == Permutations(Instances) \cup Permutations(Runners)
=============================================================================
