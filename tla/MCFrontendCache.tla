--------------------------- MODULE MCFrontendCache ---------------------------
(* FrontendCache on small sets. *)
EXTENDS FrontendCache, TLC

Symmetry == Permutations(Keys) \cup Permutations(Paths)
=============================================================================
