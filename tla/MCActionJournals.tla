--------------------------- MODULE MCActionJournals ---------------------------
(* ActionJournals for TLC: two cells of one chunk. *)
EXTENDS ActionJournals, TLC

CONSTANTS c1, c2, f1, v1, v2

MCCells == {c1, c2}
MCFormulas == {f1}
MCValues == {v1, v2}
MCLimits == 0..2
MCSymmetry == Permutations(MCCells) \cup Permutations(MCValues)
===============================================================================
