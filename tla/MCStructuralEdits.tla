--------------------------- MODULE MCStructuralEdits ---------------------------
(* Workbooks of five formulas on six rows: a family of three on the edited  *)
(* sheet or on the other, and readers of it by cell, range, column or name. *)
EXTENDS StructuralEdits

CONSTANTS x, none, refError, rowMark

OneValue == {x}

\* References to rows lo to hi of a column; bounds are relative or absolute.
Ref(kind, col, lo, hi, loAbs, hiAbs) ==
    [kind |-> kind, col |-> col, lo |-> lo, hi |-> hi, loAbs |-> loAbs, hiAbs |-> hiAbs]
CellRef(col, r) == Ref("cell", col, r, r, FALSE, FALSE)
RangeRef(col, lo, hi) == Ref("range", col, lo, hi, TRUE, TRUE)
NameRef == Ref("name", "A", Open, Open, TRUE, TRUE)

\* A family of three formulas, two single ones, and a name.
Book(sheet, member, fourth, fifth, name) ==
    [sheet |-> <<sheet, sheet, sheet, "Out", "Out">>,
     fn |-> [f \in Formulas |-> "lookup"],
     row |-> <<1, 2, 3, 0, 1>>,
     text |-> [n \in 0..5 |->
                 CASE n = 0 -> name
                   [] n \in 1..3 -> Relocate(member, n - 1)
                   [] n = 4 -> fourth
                   [] n = 5 -> fifth],
     joined |-> TRUE]

\* The same with the family on the other sheet, reading the single formulas.
Across(member, joined, fourth, fifth, name) ==
    [Book("Out", member, fourth, fifth, name) EXCEPT
        !.sheet = <<"Out", "Out", "Out", "Data", "Data">>, !.joined = joined]

Books == {
    \* each the cell beside it; readers of the whole column and of one cell
    Book("Data", CellRef("A", 1), RangeRef("B", Open, Open), CellRef("B", 2), RangeRef("A", 1, 2)),
    \* running totals; readers of a range of them and of a name over a cell
    Book("Data", Ref("range", "A", 0, 1, TRUE, FALSE), RangeRef("B", 1, 3), NameRef, RangeRef("B", 2, 2)),
    \* windows of two rows; readers of the rest of a column and of a name
    Book("Data", Ref("range", "A", 0, 1, FALSE, FALSE), RangeRef("B", 2, Open), NameRef, RangeRef("A", 1, 3)),
    \* a family on the other sheet; readers of columns
    Book("Out", CellRef("A", 1), RangeRef("A", Open, Open), RangeRef("A", 2, Open), CellRef("A", 2)),
    \* members that all read the whole column; a name over them
    Book("Data", RangeRef("A", Open, Open), CellRef("B", 3), NameRef, RangeRef("B", 1, 3)),
    \* shrinking and growing ranges over formulas, small by the first or not
    Across(Ref("range", "B", 0, 3, FALSE, TRUE), TRUE, CellRef("A", 1), RangeRef("A", 1, 3), RangeRef("A", 1, 2)),
    Across(Ref("range", "B", 0, 1, TRUE, FALSE), TRUE, RangeRef("A", 0, Open), NameRef, CellRef("A", 2)),
    Across(Ref("range", "B", 0, 1, TRUE, FALSE), FALSE, RangeRef("A", 0, Open), NameRef, CellRef("A", 2))
}

\* Observations described in the README.
\* A range from the first row to a given one: RefsFollow fails.
HeadBooks == {
    Book("Data", CellRef("A", 1), RangeRef("A", Open, 2), CellRef("B", 2), RangeRef("A", 1, 2))}
\* Formulas that show where they point, and readers of them: CleanIsFresh fails.
RowBooks == {
    [Book("Data", CellRef("A", 3), RangeRef("B", 1, 3), CellRef("B", 1), RangeRef("A", 1, 2))
        EXCEPT !.fn = [f \in Formulas |-> IF f \in 1..3 THEN "row" ELSE "lookup"]]}
\* A large range over an empty column is deleted: CleanIsFresh fails.
EmptyBooks == {
    Book("Data", RangeRef("A", 3, 4), CellRef("B", 1), RangeRef("B", Open, Open), RangeRef("B", 1, 3))}
================================================================================
