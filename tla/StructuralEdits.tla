---------------------------- MODULE StructuralEdits ----------------------------
(***************************************************************************)
(* Row edits of a sheet as the engine carries them out: cells and formulas *)
(* move, references and names are rewritten, and the formulas whose values *)
(* may change are made dirty, each for a reason of its own:                *)
(*   - readers of the deleted band, and readers whose range the edit cuts  *)
(*     (with everything downstream),                                       *)
(*   - names that changed (with everything downstream),                    *)
(*   - rewritten formulas, moved formulas and direct readers of moved      *)
(*     ones (these alone).                                                 *)
(* Families of formulas move and are rewritten in runs.                    *)
(*                                                                         *)
(* The edited sheet has a column A of values and a column B of formulas;   *)
(* more formulas are on another sheet.  A formula is a lookup: its result  *)
(* is what its range holds and where in the range.  Only `row` formulas    *)
(* also see where the range is.  Evaluation is one step here; Freshness is *)
(* about what happens inside.                                              *)
(***************************************************************************)
EXTENDS ReferenceAdjuster, FiniteSets

CONSTANTS
    N,          \* formulas are numbered 1..N; members of a family in a row
    Workbooks,  \* what the sheet may hold at first
    Values, Empty, RefError, RowMark,
    RangeExpansionLimit,
    MaxRow,     \* bound: the last row of the sheet
    MaxCount,   \* bound: rows one edit inserts or deletes
    MaxFilled,  \* bound: cells with a value
    MaxEdits    \* bound: row edits in a behaviour

Formulas == 1..N
TheName == 0    \* the vertex of the one name
Nodes == {TheName} \cup Formulas
Gone == -1      \* the row of a removed formula
Rows == 0..MaxRow
Cols == {"A", "B"}

ASSUME EditAssumption ==
    /\ N \in Nat /\ MaxRow \in Nat /\ MaxCount \in Nat
    /\ MaxFilled \in Nat /\ MaxEdits \in Nat /\ RangeExpansionLimit \in Nat
    /\ \A w \in Workbooks :
           /\ w.sheet \in [Formulas -> {"Data", "Out"}]
           /\ w.fn \in [Formulas -> {"lookup", "row"}]
           /\ w.row \in [Formulas -> Rows]
           /\ w.text \in [Nodes -> Reference]
           /\ w.joined \in BOOLEAN

VARIABLES
    book,       \* the workbook: sheets and functions do not change
    data,       \* column A
    row,        \* rows of formulas
    text,       \* references of formulas and of the name
    runs,       \* runs of family members, by first and last number
    dirty, value,
    intent,     \* history: the rows a reference is about
    edits       \* row edits so far
vars == <<book, data, row, text, runs, dirty, value, intent, edits>>

OnSheet(f) == book.sheet[f] = "Data"
Live == {f \in Formulas : row[f] # Gone}

----------------------------------------------------------------------------
(* Results *)

First(ref) == IF ref.lo = Open THEN 0 ELSE ref.lo

\* What a reference reads, given the results of the formulas.
Read(ref, val) ==
    IF ref.col = "A"
    THEN {<<r - First(ref), data[r]>> : r \in {r \in Rows : Covers(ref, r) /\ data[r] # Empty}}
    ELSE {<<row[f] - First(ref), val[f]>> :
             f \in {f \in Live : OnSheet(f) /\ Covers(ref, row[f])}}

Result(f, val) ==
    LET ref == IF text[f].kind = "name" THEN text[TheName] ELSE text[f]
    IN  IF ref.kind = "error" THEN RefError
        ELSE IF book.fn[f] = "row" THEN {<<First(ref), RowMark>>}
        ELSE Read(ref, val)

\* The results of a recalculation of everything, and of the dirty formulas.
Exact == LET val[f \in Formulas] == Result(f, val) IN val
Recalculated ==
    LET val[f \in Formulas] == IF f \in dirty THEN Result(f, val) ELSE value[f] IN val

----------------------------------------------------------------------------
(* Dependents *)

IsRange(ref) == ref.kind \in {"cell", "range"}
Reads(ref, col, r) == IsRange(ref) /\ ref.col = col /\ Covers(ref, r)

\* Nodes that read one of these nodes, in a state of the references.
Readers(t, at, nodes) ==
    {n \in Nodes : \E m \in nodes :
        IF m = TheName THEN n # TheName /\ t[n].kind = "name"
        ELSE OnSheet(m) /\ at[m] # Gone /\ Reads(t[n], "B", at[m])}

Closure(t, at, seeds) ==
    LET reach[k \in 0..N + 1] ==
            IF k = 0 THEN seeds
            ELSE LET near == reach[k - 1] IN near \cup Readers(t, at, near)
    IN  reach[N + 1]

\* The reference is kept as single cells.
Small(ref) ==
    \/ ref.kind = "cell"
    \/ /\ ref.kind = "range" /\ Open \notin {ref.lo, ref.hi}
       /\ Area(ref) <= RangeExpansionLimit

\* The formula whose image stands for that of n in the edge records: a record
\* covers formulas that follow each other in row and reference and is
\* measured at its first.  Records are joined when a group is repartitioned,
\* so a workbook has them joined or one for each formula.
RecordHead(t, at, n) ==
    LET joined == {g \in 1..n : \A f \in g..n :
            /\ at[f] # Gone /\ at[f] = at[g] + (f - g)
            /\ book.sheet[f] = book.sheet[g] /\ t[f] = Relocate(t[g], f - g)}
    IN  IF book.joined /\ joined # {} THEN CHOOSE g \in joined : \A h \in joined : g <= h ELSE n

\* direct_small_dependents: readers of these formulas by cells and small
\* ranges; one cell is always small.
SmallReaders(t, at, nodes) ==
    {n \in Readers(t, at, nodes) :
        LET image == t[RecordHead(t, at, n)]
        IN  IsRange(t[n]) /\ (Small(image) \/ (image.lo = image.hi /\ image.lo # Open))}

\* structural_occupancy: columns that hold something, or a cell some formula
\* or name reads by itself; the extent record may keep a column longer.
\* (It forgets a cell that is still read in an undo, a rollback and a move
\* of cells, which are not operations of this module.)
Occupancies ==
    {cols \in SUBSET Cols :
        /\ (\E r \in Rows : data[r] # Empty) => "A" \in cols
        /\ (\E f \in Live : OnSheet(f)) => "B" \in cols
        /\ \A n \in Live \cup {TheName} : Small(text[n]) => text[n].col \in cols}

\* Mutant of authority_structural_band_readers: whole columns are forgotten.
BandReadersClosed(op, occupied) ==
    {n \in Nodes : LET ref == text[n] IN
        /\ IsRange(ref) /\ ref.col \in occupied
        /\ IF op.kind = "insert"
           THEN First(ref) < op.at /\ (ref.hi = Open \/ op.at <= ref.hi)
           ELSE First(ref) < op.at + op.count /\ (ref.hi = Open \/ ref.hi >= op.at)}

\* Nodes whose range the edit cuts, in occupied columns.
authority_structural_band_readers(op, occupied) ==
    {n \in Nodes : LET ref == text[n] IN
        /\ IsRange(ref) /\ ref.col \in occupied
        /\ IF op.kind = "insert"
           THEN ((First(ref) = 0 /\ ref.hi = Open) \/ First(ref) < op.at)
                /\ (ref.hi = Open \/ op.at <= ref.hi)
           ELSE First(ref) < op.at + op.count /\ (ref.hi = Open \/ ref.hi >= op.at)}

\* mark_dirty_rects: readers of the deleted band in the occupied columns, or
\* in all when nothing is known of them.
BandRectReaders(op, occupied) ==
    LET cols == IF occupied = {} THEN Cols ELSE occupied
    IN  {n \in Nodes : \E r \in Rows, col \in cols : InBand(r, op) /\ Reads(text[n], col, r)}

----------------------------------------------------------------------------
(* Runs *)

Members(run) == run[1]..run[2]

\* Formulas that follow each other in number and row, with the template of
\* the first.
OneTemplate(t, at, run) ==
    \A f \in Members(run) :
        /\ at[f] # Gone /\ at[f] = at[run[1]] + (f - run[1])
        /\ book.sheet[f] = book.sheet[run[1]] /\ book.fn[f] = book.fn[run[1]]
        /\ t[f] = Relocate(t[run[1]], f - run[1])

\* virtualize_family_members: the longest runs of two or more.
RunsOf(t, at) ==
    LET families == {run \in Formulas \X Formulas :
            run[1] < run[2] /\ t[run[1]].kind # "error" /\ OneTemplate(t, at, run)}
    IN  {run \in families : \A other \in families :
            Members(run) \subseteq Members(other) => other = run}

\* The intervals a set of numbers consists of.
Intervals(s) ==
    {part \in s \X s : /\ part[1] <= part[2] /\ Members(part) \subseteq s
                       /\ part[1] - 1 \notin s /\ part[2] + 1 \notin s}

\* Formulas leave their runs, which are split.
Without(rs, gone) == UNION {Intervals(Members(run) \ gone) : run \in rs}

\* Mutant of split_for: a run stays one across inserted rows.
NotSplit(run, op) == {run}

\* split_for: a run on the edited sheet is split at the inserted rows.
split_for(run, op) ==
    LET behind == {f \in Members(run) : row[f] >= op.at}
    IN  IF OnSheet(run[1]) /\ op.kind = "insert"
        THEN Intervals(Members(run) \ behind) \cup Intervals(behind)
        ELSE {run}

\* Parts that move and are rewritten as blocks; the others fall back to
\* single formulas.
Blocks(rs, op) ==
    {part \in UNION {split_for(run, op) : run \in rs} :
        plan_part(text[part[1]], part[2] - part[1], op, RangeExpansionLimit)}

\* shift_virtual_runs and shift_and_adjust: references after the edit.
Adjusted(op, blocks) ==
    [n \in Nodes |->
        IF n = TheName THEN adjust_named_definition(text[n], op)
        ELSE IF \E part \in blocks : n \in Members(part)
        THEN LET part == CHOOSE part \in blocks : n \in Members(part)
             IN  Relocate(adjust_reference(text[part[1]], op), n - part[1])
        ELSE adjust_reference(text[n], op)]

----------------------------------------------------------------------------
(* Operations *)

Init ==
    /\ book \in Workbooks
    /\ data = [r \in Rows |-> Empty]
    /\ row = book.row
    /\ text = book.text
    /\ runs = RunsOf(text, row)
    /\ dirty = Formulas
    /\ value = [f \in Formulas |-> Empty]
    /\ intent = [n \in Nodes |-> {r \in Rows : IsRange(text[n]) /\ Covers(text[n], r)}]
    /\ edits = 0

SetValue(r, v) ==
    /\ v # data[r]
    /\ v # Empty => Cardinality({i \in Rows : data[i] # Empty /\ i # r}) < MaxFilled
    /\ data' = [data EXCEPT ![r] = v]
    /\ dirty' = dirty \cup
           (Closure(text, row, {n \in Nodes : Reads(text[n], "A", r)}) \cap Live)
    /\ UNCHANGED <<book, row, text, runs, value, intent, edits>>

\* evaluate_all; families are compressed again at its start.
Evaluate ==
    /\ dirty # {}
    /\ value' = Recalculated
    /\ dirty' = {}
    /\ runs' = RunsOf(text, row)
    /\ UNCHANGED <<book, data, row, text, intent, edits>>

\* The rows references are about, behind the last row as well.
Intended(op) ==
    [n \in Nodes |-> {r \in Rows :
        Follows(LAMBDA i : i \in intent[n] \/ (i > MaxRow /\ IsRange(text[n]) /\ text[n].hi = Open),
                op, text[n].lo = Open, r)}]

\* Rows are moved in the store, results behind the line are cleared there,
\* and the vertices of formulas move with them.
Shifted(op) ==
    [r \in Rows |->
        IF r < op.at THEN data[r]
        ELSE IF op.kind = "insert" /\ r >= op.at + op.count THEN data[r - op.count]
        ELSE IF op.kind = "delete" /\ r + op.count <= MaxRow THEN data[r + op.count]
        ELSE Empty]

Removed(op) == {f \in Live : OnSheet(f) /\ CellDeleted(row[f], op)}
Moved(op) == {f \in Live \ Removed(op) : OnSheet(f) /\ row[f] >= op.at}

RefErrors(op) == SmallReaders(text, row, Removed(op))

\* Rows of formulas after the edit.
Placed(op) ==
    [f \in Formulas |-> IF f \in Removed(op) THEN Gone
                       ELSE IF f \in Moved(op) THEN adjust_cell_ref(row[f], op)
                       ELSE row[f]]

\* Runs after the edit: formulas that are removed or marked leave them.
BlocksFor(op) == Blocks(Without(runs, Removed(op) \cup RefErrors(op)), op)

\* Formulas to be computed again, given references and rows after the edit.
Marked(op, occupied, t, at) ==
    LET names == {n \in {TheName} : t[n] # text[n]}
        seeds == authority_structural_band_readers(op, occupied) \cup RefErrors(op) \cup names
        deleted == IF op.kind = "delete" THEN BandRectReaders(op, occupied) ELSE {}
        rewritten == {f \in Formulas : t[f] # text[f]}
    IN  (dirty \cup Closure(text, row, deleted) \cup Closure(t, at, seeds)
               \cup rewritten \cup Moved(op) \cup SmallReaders(t, at, Moved(op)))
        \cap (Live \ Removed(op))

\* What an edit does to values, rows, references, runs, marks and results.
EditRows(op, occupied) ==
    /\ edits < MaxEdits /\ edits' = edits + 1
    /\ data' = Shifted(op)
    /\ row' = Placed(op)
    /\ runs' = BlocksFor(op)
    /\ text' = Adjusted(op, BlocksFor(op))
    /\ dirty' = Marked(op, occupied, text', row')
    /\ value' = [f \in Formulas |-> IF f \in Removed(op) \cup Moved(op) THEN Empty ELSE value[f]]
    /\ intent' = Intended(op)
    /\ UNCHANGED book

\* Nothing is pushed off the sheet.
InsertRows(at, count) ==
    LET op == [kind |-> "insert", at |-> at, count |-> count]
    IN  /\ \A r \in Rows : r > MaxRow - count =>
               /\ data[r] = Empty
               /\ \A f \in Live : row[f] # r
               /\ \A n \in Nodes : text[n].lo # r /\ text[n].hi # r
        /\ \E occupied \in Occupancies : EditRows(op, occupied)

DeleteRows(at, count) ==
    LET op == [kind |-> "delete", at |-> at, count |-> count]
    IN  \E occupied \in Occupancies : EditRows(op, occupied)

Next ==
    \/ \E r \in Rows, v \in Values \cup {Empty} : SetValue(r, v)
    \/ Evaluate
    \/ \E at \in Rows, count \in 1..MaxCount : InsertRows(at, count) \/ DeleteRows(at, count)

Spec == Init /\ [][Next]_vars

----------------------------------------------------------------------------
(* Properties *)

\* Rows, references, runs and marks have their types.
TypeOK ==
    /\ data \in [Rows -> Values \cup {Empty}]
    /\ row \in [Formulas -> Rows \cup {Gone}]
    /\ text \in [Nodes -> Reference]
    /\ runs \subseteq Formulas \X Formulas
    /\ dirty \subseteq Live
    /\ intent \in [Nodes -> SUBSET Rows]
    /\ edits \in 0..MaxEdits

\* A reference of a live formula covers exactly the rows it was about,
\* wherever edits have moved them, and is #REF! exactly when all of them are
\* gone, whether it was rewritten alone or with its run.  A name never
\* covers other rows (it may become #REF! earlier).
RefsFollow ==
    \A n \in Live \cup {TheName} :
        /\ IsRange(text[n]) => {r \in Rows : Covers(text[n], r)} = intent[n]
        /\ IsRange(text[n]) => intent[n] # {}
        /\ text[n].kind = "error" => intent[n] = {} \/ n = TheName

\* The members of a run are live, one below the other, and have the template
\* of the first: what the run stands for, and what a block edit relies on.
RunsHold ==
    \A run \in runs : run[1] \in Members(run) /\ OneTemplate(text, row, run)

\* The state has its type and its runs stand for their members.
RunsOK == TypeOK /\ RunsHold

\* A formula that is not dirty shows what a full recalculation would give.
CleanIsFresh == \A f \in Live \ dirty : value[f] = Exact[f]
================================================================================
