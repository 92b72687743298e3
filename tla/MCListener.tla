----------------------------- MODULE MCListener ------------------------------
(* A redeploy on small instances.                                          *)
EXTENDS Listener, TLC
Symmetry == Permutations(Procs)
=============================================================================
