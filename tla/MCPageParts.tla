---------------------------- MODULE MCPageParts -----------------------------
(* PageParts on small sets. *)
EXTENDS PageParts

\* Three points that are not evenly spaced, one alone, and a range without usage.
MCTrends == {[times |-> <<1, 2, 5>>, usage |-> TRUE], [times |-> <<3>>, usage |-> TRUE],
             [times |-> <<1, 2>>, usage |-> FALSE]}
=============================================================================
