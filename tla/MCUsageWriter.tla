--------------------------- MODULE MCUsageWriter ---------------------------
(* UsageWriter on small sets of model values.                               *)
EXTENDS UsageWriter, TLC

Symmetry ==
    Permutations(Events \ Expired) \cup Permutations(Restorers) \cup Permutations(Exporters)
=============================================================================
