------------------------------ MODULE MCCache --------------------------------
(* The cache of one host, on small instances.                              *)
EXTENDS CacheServer, TLC
Symmetry ==
    {h @@ k @@ r : h \in Permutations(Handlers), k \in Permutations(Keys),
                   r \in Permutations(Runners)}
=============================================================================
