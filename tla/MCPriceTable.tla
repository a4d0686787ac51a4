---------------------------- MODULE MCPriceTable ----------------------------
(* PriceTable on three names, two of which differ only in case. *)
EXTENDS PriceTable, TLC
MCOrder == <<"m", "M", "m-copy">>
MCFold == [n \in Range(MCOrder) |-> IF n = "M" THEN "m" ELSE n]
MCCopyOf == [n \in {"m"} |-> "m-copy"]
MCCalled == {"M", "m-copy"}
MCSymmetry == Permutations(Slots)
MCFiles == {<<Row("m-copy", 1), Row("m-copy", 0)>>}
=============================================================================
