----------------------------- MODULE MCEditHistory -----------------------------
(* EditHistory for TLC: two cells of one chunk, which is compacted as soon  *)
(* as both have delta entries.                                              *)
EXTENDS EditHistory

CONSTANTS c1, c2, f1, v1, v2

MCCells == {c1, c2}
MCFormulas == {f1}
Deferred == {TRUE}
Immediate == {FALSE}
BothModes == BOOLEAN
MCValues == {v1, v2}
MCSymmetry == Permutations(MCCells) \cup Permutations(MCValues)
AllRules == {"grouped", "redo_first", "close_first", "no_overwrite"}
NoGrouping == AllRules \ {"grouped"}
StaleRedo == AllRules \ {"redo_first"}
Overwriting == AllRules \ {"no_overwrite"}
===============================================================================
