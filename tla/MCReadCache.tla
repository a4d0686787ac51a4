----------------------------- MODULE MCReadCache -----------------------------
(* ReadCache on small sets of model values.                                 *)
EXTENDS ReadCache, TLC

Symmetry == Permutations(Readers) \cup Permutations(Keys) \cup Permutations(Writers)
=============================================================================
