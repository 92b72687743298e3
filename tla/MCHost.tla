------------------------------- MODULE MCHost --------------------------------
(* One host on small instances.                                            *)
EXTENDS Host, TLC
Symmetry == Permutations(Tiers)
=============================================================================
