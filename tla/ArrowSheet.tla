------------------------------ MODULE ArrowSheet ------------------------------
(***************************************************************************)
(* The Arrow store of one sheet: columns of row chunks under one chunk map *)
(* (`chunk_starts`).  A column holds a dense prefix of chunks and, behind  *)
(* it, the chunks somebody wrote to; a chunk that is missing is empty.     *)
(* Writes grow the map, and row edits cut chunks and rebuild it, in one of *)
(* two ways: `dense_aligned` sheets from the chunks of the first column,   *)
(* all others from the map.                                                *)
(*                                                                         *)
(* Rows and columns count from 0 as in the code, chunks from 1.  A cell    *)
(* shows a user's value, a result or nothing; how the overlays and the     *)
(* base lanes of a chunk make up what it shows is CellStore's subject.     *)
(* Results stay in the computed overlay: `max_overlay_memory_bytes` (None  *)
(* by default) is not set.  With it, compact_all_computed_overlays moves   *)
(* them into the base lanes, where the clearing after a row or column edit *)
(* does not find them.                                                     *)
(***************************************************************************)
EXTENDS Integers, Sequences, SequencesExt, FiniteSets, FiniteSetsExt

CONSTANTS
    ChunkRows,  \* `chunk_rows`
    UserValues, Results, Blank,
    MaxRows,    \* bound: rows of the sheet
    MaxCols,    \* bound: columns
    MaxShown,   \* bound: cells that show something
    MaxBand,    \* bound: rows or columns one edit inserts or deletes
    Rules       \* what clients keep to, of AllRules

\* small_inserts: no more rows than a chunk has are inserted at once;
\* has_columns: rows are edited only while the sheet has a column, and the
\* last column is not deleted.
AllRules == {"small_inserts", "has_columns"}

ASSUME SheetAssumption ==
    /\ ChunkRows \in Nat \ {0} /\ MaxRows \in Nat /\ MaxCols \in Nat
    /\ MaxShown \in Nat /\ MaxBand \in Nat
    /\ Blank \notin UserValues \cup Results /\ UserValues \cap Results = {}
    /\ Rules \subseteq AllRules

VARIABLES
    sheet,      \* `nrows`, `chunk_starts` and `columns`
    cells       \* history: the grid these operations promise (module Grid)

Contents == UserValues \cup Results \cup {Blank}

----------------------------------------------------------------------------
(* Chunks and the chunk map *)

make_empty_chunk(len) == [i \in 1..len |-> Blank]

slice_chunk(ch, off, len) == SubSeq(ch, off + 1, off + len)

\* The length the map gives chunk i.
MapLen(s, i) ==
    (IF i < Len(s.starts) THEN s.starts[i + 1] ELSE s.nrows) - s.starts[i]

\* The chunk of a row, by binary search in the map, and the offset in it.
chunk_of_row(s, row) ==
    LET upto == {i \in 1..Len(s.starts) : s.starts[i] <= row}
        i == IF upto = {} THEN 1 ELSE Max(upto)
    IN  [chunk |-> i, off |-> row - s.starts[i]]

\* A column: `n` chunks of the dense vector, then the sparse ones.
EmptyColumn(lens) ==
    [n |-> Len(lens), chunk |-> [i \in 1..Len(lens) |-> make_empty_chunk(lens[i])]]

DenseAligned(s) ==
    \A c \in 1..Len(s.cols) : s.cols[c].n = Len(s.starts)
                              /\ DOMAIN s.cols[c].chunk = 1..Len(s.starts)

get_cell_value(s, row, col) ==
    IF row >= s.nrows \/ col >= Len(s.cols) THEN Blank
    ELSE LET p == chunk_of_row(s, row)
             column == s.cols[col + 1]
         IN  IF p.chunk \in DOMAIN column.chunk
             THEN column.chunk[p.chunk][p.off + 1]
             ELSE Blank

\* The starts of consecutive chunks of these lengths.
StartsOf(lens) ==
    LET start[i \in 1..Len(lens)] == IF i = 1 THEN 0 ELSE start[i - 1] + lens[i - 1]
    IN  start

recompute_chunk_starts(s) ==
    [s EXCEPT !.starts =
        IF s.cols = <<>> THEN <<>>
        ELSE StartsOf([i \in 1..s.cols[1].n |-> Len(s.cols[1].chunk[i])])]

\* The map of a sheet with rows is never empty where rows are inserted,
\* deleted or added.
WithMap(s) == IF s.starts = <<>> THEN [s EXCEPT !.starts = <<0>>] ELSE s

----------------------------------------------------------------------------
(* Growth and writes *)

grow_len_to(ch, len) ==
    IF len <= Len(ch) THEN ch ELSE ch \o make_empty_chunk(len - Len(ch))

\* Mutant of ensure_row_capacity: a chunk that starts at the last row too.
OneChunkMore(s, target) ==
    IF target <= s.nrows THEN s
    ELSE LET m == WithMap(s).starts
         IN  [s EXCEPT !.nrows = target,
                       !.starts = m \o [k \in 1..Max({0, (target - Last(m)) \div ChunkRows}) |->
                                            Last(m) + k * ChunkRows]]

ensure_row_capacity(s, target) ==
    IF target <= s.nrows THEN s
    ELSE LET m == WithMap(s).starts
             more == Max({0, (target - 1 - Last(m)) \div ChunkRows})
             grown == [nrows |-> target, cols |-> s.cols,
                       starts |-> m \o [k \in 1..more |-> Last(m) + k * ChunkRows]]
         IN  [grown EXCEPT !.cols =
                 [c \in 1..Len(s.cols) |->
                     [s.cols[c] EXCEPT !.chunk =
                         [i \in DOMAIN s.cols[c].chunk |->
                             IF i <= Len(grown.starts)
                             THEN grow_len_to(s.cols[c].chunk[i], MapLen(grown, i))
                             ELSE s.cols[c].chunk[i]]]]]

\* New columns get the chunks of the first one in a dense sheet, one chunk
\* with all rows in a sheet without columns, and none in a sparse sheet.
insert_columns(s, before, count) ==
    LET lens == IF s.cols = <<>> THEN IF s.nrows > 0 THEN <<s.nrows>> ELSE <<>>
                ELSE IF DenseAligned(s)
                THEN [i \in 1..s.cols[1].n |-> Len(s.cols[1].chunk[i])] ELSE <<>>
        at == Min({before, Len(s.cols)})
    IN  [s EXCEPT !.cols = SubSeq(@, 1, at) \o [i \in 1..count |-> EmptyColumn(lens)]
                           \o SubSeq(@, at + 1, Len(@))]

delete_columns(s, start, count) ==
    [s EXCEPT !.cols = SubSeq(@, 1, start) \o SubSeq(@, start + count + 1, Len(@))]

ensure_column_chunk(s, col, i) ==
    IF i \in DOMAIN s.cols[col + 1].chunk THEN s
    ELSE [s EXCEPT !.cols[col + 1].chunk =
             [j \in DOMAIN @ \cup {i} |-> IF j = i THEN make_empty_chunk(MapLen(s, i)) ELSE @[j]]]

\* A write to a cell: columns, then rows, then the chunk are made as needed.
WriteCell(s, row, col, v) ==
    LET wide == IF col >= Len(s.cols)
                THEN insert_columns(s, Len(s.cols), col + 1 - Len(s.cols)) ELSE s
        tall == IF row >= wide.nrows THEN ensure_row_capacity(wide, row + 1) ELSE wide
        p == chunk_of_row(tall, row)
    IN  [ensure_column_chunk(tall, col, p.chunk)
             EXCEPT !.cols[col + 1].chunk[p.chunk][p.off + 1] = v]

----------------------------------------------------------------------------
(* Row edits *)

\* The part of a chunk, unless it is empty.
Part(ch, off, len) == IF len > 0 THEN <<slice_chunk(ch, off, len)>> ELSE <<>>

\* A sheet all of whose columns have all chunks: every column is cut by its
\* own chunk lengths, and the map is made anew from the first column.
RebuildDense(s, nrows, cut) ==
    recompute_chunk_starts(
        [nrows |-> nrows, starts |-> s.starts,
         cols |-> [c \in 1..Len(s.cols) |-> [n |-> Len(cut[c]), chunk |-> cut[c]]]])

\* Any other sheet: a plan of slices of old chunks and empty stretches is
\* made from the map, and every column keeps what it has of it.  The dense
\* prefix ends at the first chunk the column does not have.
RebuildSparse(s, nrows, plan) ==
    [nrows |-> nrows,
     starts |-> StartsOf([i \in 1..Len(plan) |-> plan[i].len]),
     cols |-> [c \in 1..Len(s.cols) |->
         LET old == s.cols[c].chunk
             kept == {i \in 1..Len(plan) : plan[i].old \in DOMAIN old}
         IN  [n |-> Max({k \in 0..Len(plan) : 1..k \subseteq kept}),
              chunk |-> [i \in kept |->
                            slice_chunk(old[plan[i].old], plan[i].off, plan[i].len)]]]]

\* No chunk has this number: an empty stretch of a plan.
Missing == 0

\* An item of a plan, unless it has no rows.
Slice(old, off, len) ==
    IF len > 0 THEN <<[old |-> old, off |-> off, len |-> len]>> ELSE <<>>

\* What becomes of chunk i of a dense column, and of chunk i of the map, when
\* `count` rows are inserted at `split`.
ChunksInserted(chunks, split, count, i) ==
    IF i # split.chunk THEN <<chunks[i]>>
    ELSE Part(chunks[i], 0, split.off) \o <<make_empty_chunk(count)>>
         \o Part(chunks[i], split.off, Len(chunks[i]) - split.off)

PlanInserted(s, split, count, i) ==
    IF i # split.chunk THEN Slice(i, 0, MapLen(s, i))
    ELSE Slice(i, 0, split.off) \o Slice(Missing, 0, count)
         \o Slice(i, split.off, MapLen(s, i) - split.off)

insert_rows(s, before, count) ==
    IF s.nrows = 0
    THEN [WithMap(s) EXCEPT !.nrows = count]
    ELSE LET t == WithMap(s)
             at == Min({before, t.nrows})
             split == IF at = t.nrows
                      THEN [chunk |-> Len(t.starts), off |-> t.nrows - Last(t.starts)]
                      ELSE chunk_of_row(t, at)
             Cut(chunks) == FlattenSeq([i \in 1..Len(chunks) |->
                                           ChunksInserted(chunks, split, count, i)])
             plan == FlattenSeq([i \in 1..Len(t.starts) |-> PlanInserted(t, split, count, i)])
         IN  IF DenseAligned(t)
             THEN RebuildDense(t, t.nrows + count,
                               [c \in 1..Len(t.cols) |-> Cut(t.cols[c].chunk)])
             ELSE RebuildSparse(t, t.nrows + count, plan)

\* What is left of `len` rows that begin at row `from`, before and behind the
\* rows from `start` up to `end` that are deleted.
Outside(from, len, start, end) == from + len <= start \/ from >= end
LeftOf(from, len, start) == Max({0, Min({start, from + len}) - from})
RightOf(from, len, end) == Max({0, from + len - Max({end, from})})

ChunksDeleted(ch, from, start, end) ==
    LET len == Len(ch)
        right == RightOf(from, len, end)
    IN  IF Outside(from, len, start, end) THEN <<ch>>
        ELSE Part(ch, 0, LeftOf(from, len, start)) \o Part(ch, len - right, right)

PlanDeleted(i, from, len, start, end) ==
    IF Outside(from, len, start, end) THEN Slice(i, 0, len)
    ELSE Slice(i, 0, LeftOf(from, len, start))
         \o Slice(i, end - from, RightOf(from, len, end))

delete_rows(s, start, count) ==
    IF start >= s.nrows THEN s
    ELSE LET t == WithMap(s)
             end == Min({start + count, t.nrows})
             Cut(chunks) ==
                 LET from == StartsOf([i \in 1..Len(chunks) |-> Len(chunks[i])])
                 IN  FlattenSeq([i \in 1..Len(chunks) |->
                                    ChunksDeleted(chunks[i], from[i], start, end)])
             plan == FlattenSeq([i \in 1..Len(t.starts) |->
                                    PlanDeleted(i, t.starts[i], MapLen(t, i), start, end)])
         IN  IF DenseAligned(t)
             THEN RebuildDense(t, t.nrows - (end - start),
                               [c \in 1..Len(t.cols) |-> Cut(t.cols[c].chunk)])
             ELSE RebuildSparse(t, t.nrows - (end - start), plan)

\* Mutant of clear_computed_overlay_after_row: the sparse chunks are forgotten.
ClearDenseOnly(s, start) ==
    IF start >= s.nrows THEN s
    ELSE [s EXCEPT !.cols = [c \in 1..Len(s.cols) |->
             [s.cols[c] EXCEPT !.chunk = [i \in DOMAIN s.cols[c].chunk |->
                 LET ch == s.cols[c].chunk[i]
                 IN  IF i > s.cols[c].n THEN ch
                     ELSE [k \in 1..Len(ch) |->
                              IF s.starts[i] + k - 1 >= start /\ ch[k] \in Results
                              THEN Blank ELSE ch[k]]]]]]

\* Results are cleared from a row on, chunk by chunk.
clear_computed_overlay_after_row(s, start) ==
    IF start >= s.nrows THEN s
    ELSE [s EXCEPT !.cols = [c \in 1..Len(s.cols) |->
             [s.cols[c] EXCEPT !.chunk = [i \in DOMAIN s.cols[c].chunk |->
                 LET ch == s.cols[c].chunk[i]
                 IN  IF i > Len(s.starts) THEN ch
                     ELSE [k \in 1..Len(ch) |->
                              IF s.starts[i] + k - 1 >= start /\ ch[k] \in Results
                              THEN Blank ELSE ch[k]]]]]]

clear_computed_overlay_after_col(s, start) ==
    [s EXCEPT !.cols = [c \in 1..Len(s.cols) |->
        IF c <= start THEN s.cols[c]
        ELSE [s.cols[c] EXCEPT !.chunk = [i \in DOMAIN s.cols[c].chunk |->
                 LET ch == s.cols[c].chunk[i]
                 IN  [k \in 1..Len(ch) |-> IF ch[k] \in Results THEN Blank ELSE ch[k]]]]]]

----------------------------------------------------------------------------
(* The sheet as a state machine: every operation on the chunks beside what *)
(* it means for the grid.                                                  *)

G == INSTANCE Grid WITH Rows <- MaxRows, Cols <- MaxCols, Values <- UserValues, Empty <- Blank

NoSheet == [nrows |-> 0, starts |-> <<>>, cols |-> <<>>]

\* A sheet made by IngestBuilder: full chunks and a rest, in every column.
Ingested(rows, ncols) ==
    LET count == (rows + ChunkRows - 1) \div ChunkRows
        lens == [i \in 1..count |-> IF i < count THEN ChunkRows ELSE rows - (count - 1) * ChunkRows]
    IN  [nrows |-> rows, starts |-> StartsOf(lens),
         cols |-> [c \in 1..ncols |-> EmptyColumn(lens)]]

\* What the cells of the sheet show.
Shown(s) == [p \in (0..MaxRows - 1) \X (0..MaxCols - 1) |-> get_cell_value(s, p[1], p[2])]
ShownCells == {p \in DOMAIN cells : cells[p] # Blank}

SheetInit ==
    /\ sheet \in {NoSheet} \cup {Ingested(r, c) : r \in 1..MaxRows - 1, c \in 1..MaxCols}
    /\ cells = Shown(sheet)

\* mirror_value_to_overlay and write_computed_overlay_value_0based.  The
\* code writes a result wherever it is told to; here only to a cell that shows
\* no user's value.  A formula's cell has left the delta overlay, and over a
\* value in the base the result shows until it is cleared: a matter of layers,
\* which CellStore has and this module has not.
Write(row, col, v) ==
    /\ v \in Results => cells[<<row, col>>] \notin UserValues
    /\ v # Blank => Cardinality(ShownCells \cup {<<row, col>>}) <= MaxShown
    /\ sheet' = WriteCell(sheet, row, col, v)
    /\ G!Write(row, col, v)

EngineInsertRows(before, count) ==
    /\ sheet.nrows + count <= MaxRows
    /\ "small_inserts" \in Rules => count <= ChunkRows
    /\ "has_columns" \in Rules => sheet.cols # <<>>
    /\ sheet' = clear_computed_overlay_after_row(insert_rows(sheet, before, count), before)
    /\ G!InsertRows(before, count)

EngineDeleteRows(start, count) ==
    /\ sheet.nrows > 0
    /\ "has_columns" \in Rules => sheet.cols # <<>>
    /\ sheet' = clear_computed_overlay_after_row(delete_rows(sheet, start, count), start)
    /\ G!DeleteRows(start, count)

EngineInsertColumns(before, count) ==
    /\ Len(sheet.cols) + count <= MaxCols
    /\ sheet' = clear_computed_overlay_after_col(insert_columns(sheet, before, count), before)
    /\ G!InsertColumns(before, count)

EngineDeleteColumns(start, count) ==
    /\ start < Len(sheet.cols)
    /\ "has_columns" \in Rules => \E c \in 0..Len(sheet.cols) - 1 : c \notin start..start + count - 1
    /\ sheet' = clear_computed_overlay_after_col(delete_columns(sheet, start, count), start)
    /\ G!DeleteColumns(start, count)

SheetNext ==
    \/ \E row \in 0..MaxRows - 1, col \in 0..MaxCols - 1, v \in Contents : Write(row, col, v)
    \/ \E at \in 0..MaxRows, count \in 1..MaxBand :
           EngineInsertRows(at, count) \/ EngineDeleteRows(at, count)
    \/ \E at \in 0..MaxCols, count \in 1..MaxBand :
           EngineInsertColumns(at, count) \/ EngineDeleteColumns(at, count)

SheetSpec == SheetInit /\ [][SheetNext]_<<sheet, cells>>

----------------------------------------------------------------------------
(* Properties *)

\* The sheet is a table of chunks of contents under a map.
SheetTypeOK ==
    /\ sheet.nrows \in 0..MaxRows
    /\ \A i \in 1..Len(sheet.starts) : sheet.starts[i] \in 0..MaxRows
    /\ Len(sheet.cols) <= MaxCols
    /\ \A c \in 1..Len(sheet.cols) :
           /\ 1..sheet.cols[c].n \subseteq DOMAIN sheet.cols[c].chunk
           /\ \A i \in DOMAIN sheet.cols[c].chunk :
                  \A k \in 1..Len(sheet.cols[c].chunk[i]) : sheet.cols[c].chunk[i][k] \in Contents

\* The chunk map starts at row 0, grows strictly and ends before the last
\* row: every row of the sheet has exactly one chunk, however the map was
\* made (`chunk_of_row` would otherwise index past it).
MapOK ==
    /\ (sheet.nrows = 0) <=> (sheet.starts = <<>>)
    /\ sheet.starts # <<>> => sheet.starts[1] = 0 /\ Last(sheet.starts) < sheet.nrows
    /\ \A i \in 1..Len(sheet.starts) - 1 : sheet.starts[i] < sheet.starts[i + 1]

\* Chunks agree with the map: a stored chunk has a place in the map and as
\* many rows as the map gives it, so that reads and slices stay in bounds
\* and the two ways of rebuilding the sheet cut at the same rows.
ChunksFit ==
    \A c \in 1..Len(sheet.cols) : \A i \in DOMAIN sheet.cols[c].chunk :
        i <= Len(sheet.starts) /\ Len(sheet.cols[c].chunk[i]) = MapLen(sheet, i)

\* The layout of the sheet: types, the chunk map, and chunks that fit it.
LayoutOK == SheetTypeOK /\ MapOK /\ ChunksFit

\* The chunked sheet shows the grid: no write or structural edit, in
\* whichever way it rebuilds chunks and map, loses, moves or brings back a
\* cell other than the ones it is about.
ShowsGrid == Shown(sheet) = cells

===============================================================================
