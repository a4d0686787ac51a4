------------------------- MODULE MCRuntimeHandover -------------------------
(* RuntimeHandover on small sets of model values.                           *)
EXTENDS RuntimeHandover, TLC

Symmetry == Permutations(Updates) \cup Permutations(Restores)
=============================================================================
