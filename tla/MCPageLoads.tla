----------------------------- MODULE MCPageLoads -----------------------------
(* PageLoads on small sets. *)
EXTENDS PageLoads, TLC

RangeSymmetry == Permutations(Ranges)
KeySymmetry == Permutations(Keys)
PageSymmetry == RangeSymmetry \cup KeySymmetry
=============================================================================
