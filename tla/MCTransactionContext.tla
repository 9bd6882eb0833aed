------------------------- MODULE MCTransactionContext -------------------------
(* TransactionContext on a small instance. *)
EXTENDS TransactionContext
CONSTANTS a1, f1, d1, d2, s1
MCCells == {a1}
MCFormulas == {f1}
MCDefinitions == {d1, d2}
MCSavepoints == {s1}
MCScopes == {Workbook, 1}
MCDefaultSheetScopes == {Workbook, DefaultSheet}
===============================================================================
