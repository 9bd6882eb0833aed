----------------------------- MODULE EditHistory -----------------------------
(***************************************************************************)
(* Undo and redo of a workbook with its change log on: Workbook's          *)
(* set_value, set_formula, begin_action, end_action, undo and redo         *)
(* (formualizer-workbook, workbook.rs), over Engine::edit_with_logger,     *)
(* undo_logged and redo_logged (engine/eval.rs) and UndoEngine             *)
(* (engine/graph/editor/undo_engine.rs).                                   *)
(*                                                                         *)
(* A cell's contents are in four places: the graph holds its formula, the  *)
(* staging area a formula that has no vertex yet (deferred graph           *)
(* building), the store its value, and the log what undo needs to know.    *)
(* Every call runs to its end (&mut self) and is one action.               *)
(*                                                                         *)
(* Rules names what a careful client does.  With all of them the workbook  *)
(* implements LinearHistory; the runs that drop one show why it is there.  *)
(* Left out: spills, row visibility, structural edits, admission budgets,  *)
(* the log switched off half way, and evaluation while formulas are staged *)
(* (its undo is a limitation CHANGELOG.md lists as #412).                  *)
(***************************************************************************)
EXTENDS ChangeLogOps, CellStore, SequencesExt

CONSTANTS
  Cells, Formulas,
  Values,      \* what set_value is called with
  Empty,       \* LiteralValue::Empty
  Result,      \* what evaluating a formula gives
  Defers,      \* what config.defer_graph_building may be
  Limit,       \* of the store's chunk
  Rules,       \* the rules the client follows
  MaxSeq,      \* bound: events logged
  MaxDepth,    \* bound: nested actions
  MaxEdits     \* bound: edits of an action

ASSUME RulesAssumption ==
  /\ Defers \subseteq BOOLEAN
  /\ Rules \subseteq {"grouped", "redo_first", "close_first", "no_overwrite"}

\* None is no content.
ASSUME NoneAssumption == None \notin Formulas \cup Values \cup {Empty, Result}

VARIABLES
  book,      \* defer (config.defer_graph_building), formula (the graph),
             \* extent (cells the graph still knows without a vertex), staged,
             \* and the store
  log,       \* the change log
  undone,    \* UndoEngine.undone: the batches redo can bring back
  past, future   \* history: the sheet before each action done, and after
                 \* each action undone, as LinearHistory keeps them

vars == <<book, log, undone, past, future>>

-----------------------------------------------------------------------------
(* Reading a cell *)

\* Engine::get_cell_value: an empty cell has no value.
GetCellValue(b, c) == IF ReadCell(b, c) = Empty THEN None ELSE ReadCell(b, c)

\* Engine::get_cell(..).is_some()
IsKnown(b, c) == b.formula[c] # None \/ GetCellValue(b, c) # None \/ b.extent[c]

\* What a cell holds: a formula in the graph or else a value, and perhaps a
\* staged formula, which get_formula shows first.
SheetOf(b) ==
  [c \in Cells |-> [formula |-> b.formula[c],
                    value   |-> IF b.formula[c] # None THEN None ELSE ReadCell(b, c),
                    staged  |-> b.staged[c]]]

Init ==
  /\ \E defer \in Defers :
       book = [formula  |-> [c \in Cells |-> None], extent |-> [c \in Cells |-> FALSE],
               staged   |-> [c \in Cells |-> None], delta  |-> [c \in Cells |-> None],
               computed |-> [c \in Cells |-> None], base   |-> [c \in Cells |-> Empty],
               limit    |-> Limit,                   defer  |-> defer]
  /\ log = EmptyLog
  /\ undone = <<>> /\ past = <<>> /\ future = <<>>

-----------------------------------------------------------------------------
(* The graph, the staging area and the store, one logged event at a time *)

CellEvent(tag, c, oldValue, oldFormula, new) ==
  [tag |-> tag, cell |-> c, oldValue |-> oldValue, oldFormula |-> oldFormula, new |-> new]

\* StagedFormulaCellChanged
StagedEvent(c, old, new) == [tag |-> "Staged", cell |-> c, old |-> old, new |-> new]

\* DependencyGraph::set_cell_value: the cell loses its formula.
Vacate(b, c) == [b EXCEPT !.formula[c] = None, !.extent[c] = TRUE]

\* retire_cell_for_replay: it also leaves the used extent.
Retire(b, c) == [b EXCEPT !.formula[c] = None, !.extent[c] = FALSE]

SetGraphFormula(b, c, f) == [b EXCEPT !.formula[c] = f]

CellEdit(e) == e.tag \in {"SetValue", "SetFormula"}

\* What an event does to the graph: the editor's set_cell_value and
\* set_cell_formula, when the edit is made and in UndoEngine::redo.
GraphForward(b, e) ==
  CASE e.tag = "SetValue"   -> Vacate(b, e.cell)
    [] e.tag = "SetFormula" -> SetGraphFormula(b, e.cell, e.new)
    [] OTHER                -> b

\* VertexEditor::apply_inverse: the old formula, the old value (which leaves
\* no vertex), or neither.
GraphBackward(b, e) ==
  CASE CellEdit(e) /\ e.oldFormula # None -> SetGraphFormula(b, e.cell, e.oldFormula)
    [] CellEdit(e) /\ e.oldFormula = None /\ e.oldValue # None -> Vacate(b, e.cell)
    [] CellEdit(e) /\ e.oldFormula = None /\ e.oldValue = None -> Retire(b, e.cell)
    [] OTHER -> b

\* apply_forward_staged_formula_event, apply_inverse_staged_formula_event
StagedForward(b, e) ==
  IF e.tag = "Staged" THEN [b EXCEPT !.staged[e.cell] = e.new] ELSE b
StagedBackward(b, e) ==
  IF e.tag = "Staged" THEN [b EXCEPT !.staged[e.cell] = e.old] ELSE b

\* mirror_forward_change_to_arrow: a new formula keeps its computed entry.
ArrowForward(b, e) ==
  CASE e.tag = "SetValue"   -> MirrorValue(b, e.cell, e.new)
    [] e.tag = "SetFormula" -> ClearDelta(b, e.cell)
    [] OTHER                -> b

\* Mutant of ArrowBackward: the old value is not written back.
ArrowBackwardForgets(b, e) ==
  CASE CellEdit(e) /\ e.oldFormula # None -> ClearDelta(b, e.cell)
    [] CellEdit(e) /\ e.oldFormula = None -> MirrorValue(b, e.cell, Empty)
    [] OTHER -> b

\* mirror_inverse_change_to_arrow
ArrowBackward(b, e) ==
  CASE CellEdit(e) /\ e.oldFormula # None -> ClearDelta(b, e.cell)
    [] CellEdit(e) /\ e.oldFormula = None ->
         MirrorValue(b, e.cell, IF e.oldValue = None THEN Empty ELSE e.oldValue)
    [] OTHER -> b

\* edit_with_logger: the editor changes the graph and the engine mirrors what
\* it captured.
EditCell(b, e) == ArrowForward(GraphForward(b, e), e)

\* One event of redo_logged and of undo_logged.  The code takes the whole
\* batch through the graph, then through the staging area, then through the
\* store; an event touches each of the three on its own, so one pass does
\* the same.
Forward(b, e) == ArrowForward(StagedForward(GraphForward(b, e), e), e)
Backward(b, e) == ArrowBackward(StagedBackward(GraphBackward(b, e), e), e)

\* redo_logged, first event first, and undo_logged, last event first: s[n] is
\* the workbook after n events.
ReplayForward(b, batch) ==
  LET s[n \in 0..Len(batch)] == IF n = 0 THEN b ELSE Forward(s[n - 1], batch[n])
  IN  s[Len(batch)]

ReplayBackward(b, batch) ==
  LET s[n \in 0..Len(batch)] ==
        IF n = 0 THEN b ELSE Backward(s[n - 1], batch[Len(batch) + 1 - n])
  IN  s[Len(batch)]

-----------------------------------------------------------------------------
(* Edits *)

MayEdit ==
  /\ "grouped" \in Rules => log.depth > 0
  /\ "redo_first" \in Rules => undone = <<>>
  /\ log.seq < MaxSeq
  /\ log.depth > 0 =>
       Cardinality({i \in DOMAIN log.retained :
                      /\ log.retained[i].group = CurrentGroup(log)
                      /\ log.retained[i].ev.tag \in {"SetValue", "SetFormula", "Staged"}})
         < MaxEdits

\* History: an edit outside an action is an action of its own.
NewStep ==
  IF log.depth = 0
  THEN past' = Append(past, SheetOf(book)) /\ future' = <<>>
  ELSE UNCHANGED <<past, future>>

\* clear_staged_formula_text, and record_staged_formula_cell_change: nothing
\* is logged when the cell had no staged formula.
ClearStaged(l, c) ==
  IF book.staged[c] = None THEN l ELSE RecordEvent(l, StagedEvent(c, book.staged[c], None))

\* set_value: a logged edit with the old state read from the store; then the
\* workbook writes the delta overlay once more and clears the staged text.
SetValue(c, v) ==
  LET e == CellEvent("SetValue", c, GetCellValue(book, c), book.formula[c], v) IN
  /\ MayEdit /\ NewStep
  /\ book' = [EditCell(book, e) EXCEPT !.delta[c] = v, !.staged[c] = None]
  /\ log' = ClearStaged(RecordEvent(log, e), c)
  /\ UNCHANGED undone

\* set_formula of a cell the engine knows, or without deferred building: a
\* logged edit.  Without deferred building no old value is handed over, and
\* the graph has none (its value cache is off).
SetFormulaInGraph(c, f) ==
  LET oldValue == IF book.defer THEN GetCellValue(book, c) ELSE None
      e == CellEvent("SetFormula", c, oldValue, book.formula[c], f)
  IN
  /\ MayEdit /\ NewStep
  /\ book.defer => IsKnown(book, c)
  /\ "no_overwrite" \in Rules /\ ~book.defer =>
       book.formula[c] # None \/ GetCellValue(book, c) = None
  /\ book' = [EditCell(book, e) EXCEPT !.staged[c] = None]
  /\ log' = ClearStaged(RecordEvent(log, e), c)
  /\ UNCHANGED undone

\* set_formula of a cell the engine does not know: the text is staged.
StageFormula(c, f) ==
  /\ MayEdit /\ NewStep
  /\ book.defer /\ ~IsKnown(book, c)
  /\ book' = [book EXCEPT !.staged[c] = f]
  /\ log' = IF book.staged[c] = f THEN log
            ELSE RecordEvent(log, StagedEvent(c, book.staged[c], f))
  /\ UNCHANGED undone

\* evaluate_all: every formula in the graph gets its result.
Evaluate ==
  /\ \A c \in Cells : book.staged[c] = None
  /\ book' = [book EXCEPT !.computed =
                [c \in Cells |-> IF book.formula[c] # None THEN Result ELSE @[c]]]
  /\ UNCHANGED <<log, undone, past, future>>

-----------------------------------------------------------------------------
(* Actions, undo and redo *)

BeginAction ==
  /\ "redo_first" \in Rules => undone = <<>>
  /\ log.seq < MaxSeq /\ log.depth < MaxDepth
  /\ NewStep
  /\ log' = BeginCompound(log)
  /\ UNCHANGED <<book, undone>>

EndAction ==
  /\ log.depth > 0
  /\ log' = EndCompound(log)
  /\ UNCHANGED <<book, undone, past, future>>

MayReplay == "close_first" \in Rules => log.depth = 0

\* Mutant of Undo: the last event of the group is left out.
UndoAllButLast ==
  LET group == LastGroupIndices(log)
      first == Min(group)
      batch == [i \in 1..(Cardinality(group) - 1) |-> log.retained[first + i - 1].ev]
  IN
  /\ MayReplay
  /\ group # {} /\ Max(group) = Len(log.retained)
  /\ log' = TruncateLog(log, first - 1)
  /\ book' = ReplayBackward(book, batch)
  /\ undone' = Append(undone, batch)
  /\ past' = IF past = <<>> THEN past ELSE Front(past)
  /\ future' = Append(future, SheetOf(book))

\* undo.  A group that does not end the log is refused ("Non-tail undo not
\* supported"), an empty log is nothing to undo.
Undo ==
  LET group == LastGroupIndices(log)
      first == Min(group)
      batch == [i \in 1..Cardinality(group) |-> log.retained[first + i - 1].ev]
  IN
  /\ MayReplay
  /\ group # {} /\ Max(group) = Len(log.retained)
  /\ log' = TruncateLog(log, first - 1)
  /\ book' = ReplayBackward(book, batch)
  /\ undone' = Append(undone, batch)
  /\ past' = IF past = <<>> THEN past ELSE Front(past)
  /\ future' = Append(future, SheetOf(book))

\* The loop of UndoEngine::redo that logs a batch again.
Relogged(l, batch) ==
  LET s[n \in 0..Len(batch)] == IF n = 0 THEN l ELSE RecordEvent(s[n - 1], batch[n])
  IN  s[Len(batch)]

\* redo: the batch is logged again, its own markers included, as one group.
Redo ==
  LET batch == undone[Len(undone)] IN
  /\ MayReplay
  /\ undone # <<>> /\ log.seq + Len(batch) < MaxSeq
  /\ undone' = Front(undone)
  /\ log' = EndCompound(Relogged(BeginCompound(log), batch))
  /\ book' = ReplayForward(book, batch)
  /\ past' = Append(past, SheetOf(book))
  /\ future' = IF future = <<>> THEN future ELSE Front(future)

Next ==
  \/ \E c \in Cells : \/ \E v \in Values : SetValue(c, v)
                      \/ \E f \in Formulas : SetFormulaInGraph(c, f) \/ StageFormula(c, f)
  \/ Evaluate
  \/ BeginAction
  \/ EndAction
  \/ Undo
  \/ Redo

Spec == Init /\ [][Next]_vars

-----------------------------------------------------------------------------
(* Properties *)

AllValues == Values \cup {Empty, Result}

\* Type invariant.
TypeOK ==
  /\ book \in [formula : [Cells -> Formulas \cup {None}], extent : [Cells -> BOOLEAN],
               staged : [Cells -> Formulas \cup {None}],
               delta : [Cells -> AllValues \cup {None}],
               computed : [Cells -> {Result, None}], base : [Cells -> AllValues],
               limit : {Limit}, defer : BOOLEAN]
  /\ log.depth \in Nat /\ log.seq \in Nat /\ Len(log.stack) = log.depth
  /\ \A i \in DOMAIN undone : undone[i] # <<>>

\* Whenever there is history and no action is open, undo can take the last
\* action back: it is never refused as "Non-tail".
UndoAvailable ==
  log.depth = 0 /\ log.retained # <<>> =>
    Max(LastGroupIndices(log)) = Len(log.retained)

\* One undo per action: the groups on the log are the actions that were
\* done and not undone, and the batches kept for redo the ones undone, no
\* matter how often they went back and forth.
StepsMatchGroups ==
  log.depth = 0 =>
    /\ Cardinality({log.retained[i].group : i \in DOMAIN log.retained}) = Len(past)
    /\ Len(undone) = Len(future)

\* How many events of a batch have this tag.
Count(batch, tag) == Cardinality({i \in DOMAIN batch : batch[i].tag = tag})

\* What undo takes is a whole action: every batch kept for redo has as many
\* ends as starts (last_group_indices: "the last complete group").
UndoneWhole ==
  \A i \in DOMAIN undone : Count(undone[i], "CompoundStart") = Count(undone[i], "CompoundEnd")

\* The steps of undo and redo are the client's actions, whole and one by one,
\* in a state of the right shape.
StepsAreActions == TypeOK /\ StepsMatchGroups /\ UndoneWhole

\* Undo brings back the sheet as it was before the action it undoes, staged
\* formulas included, whatever was evaluated, compacted, undone and redone
\* since.
UndoReverts ==
  [][Len(undone') > Len(undone) /\ past # <<>> =>
       SheetOf(book)' = past[Len(past)]]_vars

Abstract == INSTANCE LinearHistory WITH
              sheet <- SheetOf(book), open <- log.depth > 0,
              Contents <- [formula : Formulas \cup {None}, value : AllValues \cup {None},
                           staged : Formulas \cup {None}]

\* The workbook implements LinearHistory: an edit changes one cell, an undo
\* or redo goes to the neighbouring sheet of the history, and evaluation,
\* staging and compaction change nothing the user entered.
ImplementsLinearHistory == Abstract!Spec
===============================================================================
