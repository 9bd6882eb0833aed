---------------------------- MODULE ActionJournals ----------------------------
(***************************************************************************)
(* Atomic actions without a change log: Workbook::action, undo and redo    *)
(* with enable_changelog off, over Engine::action_atomic_journal,          *)
(* undo_action and redo_action (engine/eval.rs), the journal they keep     *)
(* (engine/journal.rs) and UndoEngine's two stacks of journals.            *)
(*                                                                         *)
(* A journal has two parts: the graph's events, whose inverses go through  *)
(* the editor, and the overlay entries before and after each write, which  *)
(* are put back as they are (set_delta_overlay_cell_raw), not through      *)
(* mirror_value_to_overlay.  The closure of an action may fail after any   *)
(* of its edits.  Edits outside actions, spills, structural edits and      *)
(* admission budgets are left out.                                         *)
(***************************************************************************)
EXTENDS CellStore, Sequences

CONSTANTS
  Cells, Formulas, Values,
  Empty,        \* LiteralValue::Empty
  Result,       \* what evaluating a formula gives
  Limits,       \* of the store's chunk
  MaxActions,   \* bound: journals kept for undo
  MaxEdits      \* bound: edits of an action

ASSUME BoundsAssumption == Limits \subseteq Nat /\ {MaxActions, MaxEdits} \subseteq Nat

\* A chunk has finitely many cells, and what a cell holds tells what it is.
ASSUME ContentsAssumption ==
  /\ IsFiniteSet(Cells)
  /\ None \notin Formulas \cup Values \cup {Empty, Result}
  /\ Formulas \cap (Values \cup {Empty, Result}) = {}
  /\ Result \notin Values \cup {Empty}

VARIABLES
  book,      \* formula (the graph), and the store
  open,      \* action_depth = 1
  journal,   \* of the open action: events and ops, in the order made
  done,      \* actions_done
  undone,    \* actions_undone
  past, future   \* history: the sheet before each action of done (and of
                 \* the open one), and after each action of undone

vars == <<book, open, journal, done, undone, past, future>>

EmptyJournal == [events |-> <<>>, ops |-> <<>>]

Last(s) == s[Len(s)]
Front(s) == SubSeq(s, 1, Len(s) - 1)

\* What the user sees in a cell: its formula, or else its value.
SheetOf(b) ==
  [c \in Cells |-> IF b.formula[c] # None THEN b.formula[c] ELSE ReadCell(b, c)]

Init ==
  /\ \E limit \in Limits :
       book = [formula  |-> [c \in Cells |-> None], delta |-> [c \in Cells |-> None],
               computed |-> [c \in Cells |-> None], base  |-> [c \in Cells |-> Empty],
               limit    |-> limit]
  /\ open = FALSE /\ journal = EmptyJournal
  /\ done = <<>> /\ undone = <<>> /\ past = <<>> /\ future = <<>>

-----------------------------------------------------------------------------
(* Inside an action: EngineAction *)

\* What one cell of a layer held before and after a write.
Entry(layer, c, old, new) == [layer |-> layer, cell |-> c, old |-> old, new |-> new]

\* The graph's part of SetValue and SetFormula events (a value cell has no
\* formula).
Event(c, old, new) == Entry("formula", c, old, new)

\* record_delta_cell, record_computed_cell: an entry that does not change
\* is not recorded.
Op(layer, c, old, new) ==
  IF old = new THEN <<>> ELSE <<Entry(layer, c, old, new)>>

\* The delta entry to put back: the value the cell shows, wherever it is
\* stored, or none under a formula.
OldDelta(c) == IF book.formula[c] # None THEN None ELSE ReadCell(book, c)

BeginAction ==
  /\ ~open /\ Len(done) < MaxActions
  /\ open' = TRUE
  /\ journal' = EmptyJournal
  /\ past' = Append(past, SheetOf(book))
  /\ UNCHANGED <<book, done, undone, future>>

MayEdit == open /\ Len(journal.events) < MaxEdits

SetValue(c, v) ==
  /\ MayEdit
  /\ book' = MirrorValue([book EXCEPT !.formula[c] = None], c, v)
  /\ journal' = [events |-> Append(journal.events, Event(c, book.formula[c], None)),
                 ops    |-> journal.ops
                              \o Op("delta", c, OldDelta(c), v)
                              \o Op("computed", c, book.computed[c], book'.computed[c])]
  /\ UNCHANGED <<open, done, undone, past, future>>

SetFormula(c, f) ==
  /\ MayEdit
  /\ book' = ClearDelta([book EXCEPT !.formula[c] = f], c)
  /\ journal' = [events |-> Append(journal.events, Event(c, book.formula[c], f)),
                 ops    |-> journal.ops \o Op("delta", c, OldDelta(c), None)]
  /\ UNCHANGED <<open, done, undone, past, future>>

\* action_atomic_impl, Ok: push_action forgets what was undone.
Commit ==
  /\ open
  /\ open' = FALSE /\ journal' = EmptyJournal
  /\ done' = Append(done, journal) /\ undone' = <<>> /\ future' = <<>>
  /\ UNCHANGED <<book, past>>

-----------------------------------------------------------------------------
(* Replaying a journal *)

\* One write of a replay: the graph's formula (apply_inverse,
\* apply_forward_change_event), or one overlay entry as it is
\* (set_delta_overlay_cell_raw, which leaves the computed entry alone, and
\* set_computed_overlay_cell_raw).
SetRaw(b, w) ==
  CASE w.layer = "formula"  -> [b EXCEPT !.formula[w.cell] = w.value]
    [] w.layer = "delta"    -> SetDeltaRaw(b, w.cell, w.value)
    [] w.layer = "computed" -> SetComputed(b, w.cell, w.value)

\* The loop over the entries of a journal: s[n] is the workbook after n writes.
Replay(b, writes) ==
  LET s[n \in 0..Len(writes)] == IF n = 0 THEN b ELSE SetRaw(s[n - 1], writes[n])
  IN  s[Len(writes)]

\* Undo goes through the entries last first, redo first first.
Inverses(es) ==
  [n \in 1..Len(es) |-> LET e == es[Len(es) + 1 - n]
                        IN  [layer |-> e.layer, cell |-> e.cell, value |-> e.old]]
Forwards(es) ==
  [n \in 1..Len(es) |-> [layer |-> es[n].layer, cell |-> es[n].cell, value |-> es[n].new]]

\* GraphUndoBatch::undo, then apply_arrow_undo_batch.
UndoJournal(b, j) == Replay(Replay(b, Inverses(j.events)), Inverses(j.ops))

\* GraphUndoBatch::redo, then apply_arrow_undo_batch.
RedoJournal(b, j) == Replay(Replay(b, Forwards(j.events)), Forwards(j.ops))

\* Mutant of Fail: the edits made before the failure stay.
FailKeepsEdits ==
  /\ open
  /\ open' = FALSE /\ journal' = EmptyJournal
  /\ past' = Front(past)
  /\ UNCHANGED <<book, done, undone, future>>

\* action_atomic_impl, Err: rollback_from_action_journal; the stacks stay.
Fail ==
  /\ open
  /\ open' = FALSE /\ journal' = EmptyJournal
  /\ book' = UndoJournal(book, journal)
  /\ past' = Front(past)
  /\ UNCHANGED <<done, undone, future>>

Undo ==
  /\ ~open /\ done # <<>>
  /\ book' = UndoJournal(book, Last(done))
  /\ done' = Front(done) /\ undone' = Append(undone, Last(done))
  /\ past' = Front(past) /\ future' = Append(future, SheetOf(book))
  /\ UNCHANGED <<open, journal>>

Redo ==
  /\ ~open /\ undone # <<>>
  /\ book' = RedoJournal(book, Last(undone))
  /\ undone' = Front(undone) /\ done' = Append(done, Last(undone))
  /\ past' = Append(past, SheetOf(book)) /\ future' = Front(future)
  /\ UNCHANGED <<open, journal>>

\* Mutant of Evaluate: every cell is taken for a formula, the ones that
\* undo or an edit made a value again too.
EvaluateEveryCell ==
  /\ ~open
  /\ book' = [book EXCEPT !.computed = [c \in Cells |-> Result]]
  /\ UNCHANGED <<open, journal, done, undone, past, future>>

\* evaluate_all: every formula gets its result.
Evaluate ==
  /\ ~open
  /\ book' = [book EXCEPT !.computed =
                [c \in Cells |-> IF book.formula[c] # None THEN Result ELSE @[c]]]
  /\ UNCHANGED <<open, journal, done, undone, past, future>>

Next ==
  \/ BeginAction
  \/ \E c \in Cells : \/ \E v \in Values : SetValue(c, v)
                      \/ \E f \in Formulas : SetFormula(c, f)
  \/ Commit
  \/ Fail
  \/ Undo
  \/ Redo
  \/ Evaluate

Spec == Init /\ [][Next]_vars

-----------------------------------------------------------------------------
(* Results under values *)

\* Undo, redo and rollback put a value back over the result of the formula it
\* replaces, and leave the result where it is.  An action that then enters
\* the same value once more takes the result away, and its journal has an
\* entry for the result and none for the value.
Restores(j, layer) ==
  {j.ops[i].cell : i \in {k \in 1..Len(j.ops) : j.ops[k].layer = layer}}
Retyped(j) == Restores(j, "computed") \ Restores(j, "delta")

AllRetyped ==
  Retyped(journal) \cup (UNION {Retyped(done[i]) : i \in 1..Len(done)})
                   \cup (UNION {Retyped(undone[i]) : i \in 1..Len(undone)})

\* The value cells that only a delta entry keeps from showing a result, now or
\* after an undo.
Hiding ==
  {c \in Cells : book.formula[c] = None /\ (book.computed[c] # None \/ c \in AllRetyped)}

\* An edit whose compaction moves such entries into the base, below the result.
Buries ==
  \E c \in Cells, v \in Values : SetValue(c, v) /\ book'.delta[c] = None /\ Hiding' # {}

\* The behaviours in which no edit does.
UnburiedSpec == Init /\ [][Next /\ ~Buries]_vars

-----------------------------------------------------------------------------
(* Properties *)

AllValues == Values \cup {Empty, Result}

\* Type invariant.
TypeOK ==
  /\ book \in [formula : [Cells -> Formulas \cup {None}],
               delta : [Cells -> AllValues \cup {None}],
               computed : [Cells -> {Result, None}], base : [Cells -> AllValues], limit : Limits]
  /\ Len(journal.events) <= MaxEdits /\ Len(done) + Len(undone) <= MaxActions
  /\ Len(past) = Len(done) + (IF open THEN 1 ELSE 0) /\ Len(future) = Len(undone)

\* A cell that holds no formula never shows a formula's result: what undo,
\* redo and rollback leave in the computed overlay stays masked.
NoStaleResult ==
  \A c \in Cells : book.formula[c] = None => ReadCell(book, c) # Result

\* The workbook has its type and shows what was entered.
StoreOK == TypeOK /\ NoStaleResult

Abstract == INSTANCE LinearHistory WITH
              sheet <- SheetOf(book), Contents <- Formulas \cup AllValues

\* The journals implement LinearHistory: a failed action leaves no trace,
\* undo and redo go to the neighbouring sheet of the history, and an edit
\* changes no other cell.
ImplementsLinearHistory == Abstract!Spec
===============================================================================
