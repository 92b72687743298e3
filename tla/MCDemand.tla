------------------------------ MODULE MCDemand -------------------------------
(* Jobs, messages and re-plans, on small instances.                        *)
EXTENDS Demand, TLC
Symmetry == Permutations(Launches)
=============================================================================
