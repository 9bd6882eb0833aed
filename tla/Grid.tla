--------------------------------- MODULE Grid ---------------------------------
(***************************************************************************)
(* What the Arrow store of a sheet promises to the engine: a grid of cells *)
(* that a write changes in one place and a structural edit shifts.  After  *)
(* a structural edit the results at and behind the edited line are gone,   *)
(* because the formulas there are evaluated again.                         *)
(***************************************************************************)
EXTENDS Integers

CONSTANTS
    Rows,       \* the number of rows of the grid
    Cols,       \* the number of columns
    Values,     \* what a user writes
    Results,    \* what formulas and spills write
    Empty       \* a cell with neither

VARIABLE cells

Cells == (0..Rows - 1) \X (0..Cols - 1)
Contents == Values \cup Results \cup {Empty}

Init == cells \in [Cells -> Contents]

Write(r, c, v) == cells' = [cells EXCEPT ![<<r, c>>] = v]

\* The content that moves to r, c from source row and column; nothing comes
\* from outside the grid, and results do not survive behind the line.
Moved(r, c, behind) ==
    IF <<r, c>> \notin Cells \/ (behind /\ cells[<<r, c>>] \in Results)
    THEN Empty ELSE cells[<<r, c>>]

InsertRows(before, n) ==
    cells' = [p \in Cells |->
        IF p[1] < before THEN cells[p]
        ELSE IF p[1] < before + n THEN Empty
        ELSE Moved(p[1] - n, p[2], TRUE)]

DeleteRows(start, n) ==
    cells' = [p \in Cells |->
        IF p[1] < start THEN cells[p] ELSE Moved(p[1] + n, p[2], TRUE)]

InsertColumns(before, n) ==
    cells' = [p \in Cells |->
        IF p[2] < before THEN cells[p]
        ELSE IF p[2] < before + n THEN Empty
        ELSE Moved(p[1], p[2] - n, TRUE)]

DeleteColumns(start, n) ==
    cells' = [p \in Cells |->
        IF p[2] < start THEN cells[p] ELSE Moved(p[1], p[2] + n, TRUE)]

Next ==
    \/ \E p \in Cells, v \in Contents : Write(p[1], p[2], v)
    \/ \E at \in 0..Rows, n \in 1..Rows : InsertRows(at, n) \/ DeleteRows(at, n)
    \/ \E at \in 0..Cols, n \in 1..Cols : InsertColumns(at, n) \/ DeleteColumns(at, n)

Spec == Init /\ [][Next]_cells
===============================================================================
