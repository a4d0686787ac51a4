---------------------------- MODULE MCStoreParts ----------------------------
(* StoreParts on a few minutes of two milliseconds. *)
EXTENDS StoreParts, TLC

Symmetry == Permutations(Models)
MCWindows == {[from |-> 1, to |-> 4], [from |-> 3, to |-> 6], [from |-> 4, to |-> 5]}
=============================================================================
