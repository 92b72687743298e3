----------------------------- MODULE MCScheduler -----------------------------
(* The scheduler in its open environment, on small instances.              *)
EXTENDS Scheduler, TLC
Symmetry == Permutations(Launches)
=============================================================================
