-------------------------- MODULE TransactionContext --------------------------
(***************************************************************************)
(* Transactions over the dependency graph (transaction_context.rs and      *)
(* transaction_manager.rs): an editor logs every change; rollback and      *)
(* rollback_to_savepoint take the changes off the log's tail and apply     *)
(* their inverses in reverse order (VertexEditor::apply_inverse).          *)
(*                                                                         *)
(* The graph holds structure only (the formula of a cell, the definition   *)
(* of a name in a scope); cell values are in the Arrow store, which a      *)
(* transaction does not touch.  Structural edits (rows, columns), spills   *)
(* and the compounds they open are not edits of this module.               *)
(*                                                                         *)
(* An editor operation runs to its end before the next (&mut borrow).  The *)
(* rollback loop is one step per change, because an inverse may fail.      *)
(***************************************************************************)
EXTENDS ChangeLogOps

CONSTANTS
  Cells, Formulas,
  Scopes,        \* the scopes in which clients use the name: Workbook, or a
                 \* sheet id
  Workbook,      \* NameScope::Workbook
  Definitions,   \* what a name may be defined as
  None,          \* no formula, no definition, no transaction
  Savepoints,    \* savepoint names
  MaxSize,       \* max_transaction_size
  MaxChanges,    \* bound: changes logged
  MaxSavepoints  \* bound: savepoints alive at once

ASSUME ScopesAssumption ==
  Workbook \notin Nat /\ Workbook \in Scopes /\ Scopes \subseteq {Workbook} \cup Nat
ASSUME NoneAssumption == None \notin Formulas \cup Definitions
ASSUME BoundsAssumption ==
  MaxSize \in Nat /\ MaxChanges \in Nat /\ MaxSavepoints \in Nat

\* The sheet id 0: the workbook's default sheet.
DefaultSheet == 0

VARIABLES
  graph,       \* formula[c]: the formula of cell c; name[s]: the name's
               \* definition in scope s
  change_log,  \* the context's own ChangeLog
  tx,          \* active_transaction: None, or the start index and the savepoints
  undo,        \* the changes a rollback has still to invert, oldest first
  phase,       \* "idle" or "rollback"
  goal         \* history: the graph the rollback in progress must restore

vars == <<graph, change_log, tx, undo, phase, goal>>

\* `was` is history: the graph before the change (in a change), the graph
\* when the transaction began or the savepoint was set (in tx).
Change(tag, at, old) == [tag |-> tag, at |-> at, old |-> old, was |-> graph]

Init ==
  /\ graph = [formula |-> [c \in Cells |-> None], name |-> [s \in Scopes |-> None]]
  /\ change_log = EmptyLog
  /\ tx = None
  /\ undo = <<>>
  /\ phase = "idle"
  /\ goal = graph

-----------------------------------------------------------------------------
(* The editor: VertexEditor over the graph and the log *)

Edit(newGraph, change) ==
  /\ phase = "idle" /\ change_log.seq < MaxChanges
  /\ graph' = newGraph
  /\ change_log' = RecordEvent(change_log, change)
  /\ UNCHANGED <<tx, undo, phase, goal>>

\* set_cell_formula, and set_cell_value (f = None: a value cell has no
\* formula and no vertex).
SetCell(c, f) == Edit([graph EXCEPT !.formula[c] = f],
                      Change("SetCell", c, graph.formula[c]))

\* resolve_name(name, sheet): a sheet's own name shadows the workbook's.
ResolveName(sheet) ==
  IF sheet \in Scopes /\ graph.name[sheet] # None
  THEN graph.name[sheet]
  ELSE graph.name[Workbook]

\* The old definition the editor records: it looks the name up from the
\* sheet of the scope, and from sheet 0 for the workbook scope.
OldDefinition(s) == ResolveName(IF s = Workbook THEN DefaultSheet ELSE s)

DefineName(s, d) ==
  /\ graph.name[s] = None
  /\ Edit([graph EXCEPT !.name[s] = d], Change("DefineName", s, None))

UpdateName(s, d) ==
  /\ graph.name[s] # None
  /\ Edit([graph EXCEPT !.name[s] = d], Change("UpdateName", s, OldDefinition(s)))

\* Mutant of DeleteName: the definition is looked up after the deletion.
DeleteNameUncaptured(s) ==
  /\ graph.name[s] # None
  /\ Edit([graph EXCEPT !.name[s] = None], Change("DeleteName", s, None))

DeleteName(s) ==
  /\ graph.name[s] # None
  /\ Edit([graph EXCEPT !.name[s] = None], Change("DeleteName", s, OldDefinition(s)))

-----------------------------------------------------------------------------
(* Transactions *)

BeginTransaction ==
  /\ phase = "idle" /\ tx = None
  /\ tx' = [start |-> Len(change_log.retained), savepoints |-> <<>>, was |-> graph]
  /\ UNCHANGED <<graph, change_log, undo, phase, goal>>

\* check_size, then take the transaction: one that is too large stays open.
Commit ==
  /\ phase = "idle" /\ tx # None
  /\ Len(change_log.retained) - tx.start <= MaxSize
  /\ tx' = None
  /\ UNCHANGED <<graph, change_log, undo, phase, goal>>

Savepoint(name) ==
  /\ phase = "idle" /\ tx # None /\ Len(tx.savepoints) < MaxSavepoints
  /\ tx' = [tx EXCEPT !.savepoints =
              Append(@, [name |-> name, index |-> Len(change_log.retained), was |-> graph])]
  /\ UNCHANGED <<graph, change_log, undo, phase, goal>>

\* take_from(index), with logging off until the inverses have been applied.
StartRollback(index, target) ==
  /\ undo' = SubSeq(change_log.retained, index + 1, Len(change_log.retained))
  /\ change_log' = [TruncateLog(change_log, index) EXCEPT !.enabled = FALSE]
  /\ phase' = "rollback"
  /\ goal' = target
  /\ UNCHANGED graph

\* Mutant of Rollback: the whole log is taken.
RollbackAll ==
  /\ phase = "idle" /\ tx # None
  /\ tx' = None
  /\ StartRollback(0, tx.was)

\* rollback: rollback_info ends the transaction first.
Rollback ==
  /\ phase = "idle" /\ tx # None
  /\ tx' = None
  /\ StartRollback(tx.start, tx.was)

Least(S) == CHOOSE k \in S : \A j \in S : k <= j

\* get_savepoint: the oldest savepoint of that name.
Named(name) == {k \in DOMAIN tx.savepoints : tx.savepoints[k].name = name}

\* Mutant of RetainBefore: the savepoints stay.
RetainAll(savepoints, index) == savepoints

\* truncate_savepoints: retain the savepoints before `index`.  They were
\* pushed in index order (IndexesValid), so those are a prefix.
RetainBefore(savepoints, index) ==
  LET late == {k \in DOMAIN savepoints : savepoints[k].index >= index}
  IN  IF late = {} THEN savepoints ELSE SubSeq(savepoints, 1, Least(late) - 1)

RollbackToSavepoint(name) ==
  /\ phase = "idle" /\ tx # None /\ Named(name) # {}
  /\ LET sp == tx.savepoints[Least(Named(name))] IN
       /\ tx' = [tx EXCEPT !.savepoints = RetainBefore(@, sp.index)]
       /\ StartRollback(sp.index, sp.was)

-----------------------------------------------------------------------------
(* apply_rollback_events *)

\* The inverse can be applied: define_name refuses a name that exists,
\* delete_name and update_name one that does not, and a deletion logged
\* without its definition cannot be undone.
Invertible(g, change) ==
  \/ change.tag = "SetCell"
  \/ change.tag \in {"DefineName", "UpdateName"} /\ g.name[change.at] # None
  \/ change.tag = "DeleteName" /\ g.name[change.at] = None /\ change.old # None

\* Mutant of ApplyInverse: a cell that had no formula keeps the new one.
ApplyInverseKeepsFormula(g, change) ==
  IF change.tag = "SetCell"
  THEN [g EXCEPT !.formula[change.at] = IF change.old = None THEN @ ELSE change.old]
  ELSE [g EXCEPT !.name[change.at] =
          IF change.tag = "DefineName" THEN None ELSE change.old]

\* VertexEditor::apply_inverse: the cell gets its old formula back, or is
\* retired; the name gets its old definition back, or is deleted.
ApplyInverse(g, change) ==
  IF change.tag = "SetCell"
  THEN [g EXCEPT !.formula[change.at] = change.old]
  ELSE [g EXCEPT !.name[change.at] =
          IF change.tag = "DefineName" THEN None ELSE change.old]

UndoLast ==
  /\ phase = "rollback" /\ undo # <<>>
  /\ LET change == undo[Len(undo)].ev IN
       /\ Invertible(graph, change)
       /\ graph' = ApplyInverse(graph, change)
  /\ undo' = SubSeq(undo, 1, Len(undo) - 1)
  /\ UNCHANGED <<change_log, tx, phase, goal>>

EndRollback ==
  /\ phase = "rollback" /\ undo = <<>>
  /\ change_log' = [change_log EXCEPT !.enabled = TRUE]
  /\ phase' = "idle"
  /\ UNCHANGED <<graph, tx, undo, goal>>

\* clear_change_log.  The code does not look for a transaction; its comment
\* says "useful between transactions", and clients are taken to keep to that.
\* Inside one it would leave the start and the savepoints behind the end of
\* the log.
ClearChangeLog ==
  /\ phase = "idle" /\ tx = None
  /\ change_log' = ClearLog(change_log)
  /\ UNCHANGED <<graph, tx, undo, phase, goal>>

-----------------------------------------------------------------------------
Next ==
  \/ \E c \in Cells, f \in Formulas \cup {None} : SetCell(c, f)
  \/ \E s \in Scopes, d \in Definitions : DefineName(s, d) \/ UpdateName(s, d)
  \/ \E s \in Scopes : DeleteName(s)
  \/ BeginTransaction
  \/ Commit
  \/ \E name \in Savepoints : Savepoint(name) \/ RollbackToSavepoint(name)
  \/ Rollback
  \/ UndoLast
  \/ EndRollback
  \/ ClearChangeLog

Spec == Init /\ [][Next]_vars

-----------------------------------------------------------------------------
(* Types *)

Graphs == [formula : [Cells -> Formulas \cup {None}],
           name : [Scopes -> Definitions \cup {None}]]
Changes == [tag : {"SetCell"}, at : Cells, old : Formulas \cup {None}, was : Graphs]
             \cup [tag : {"DefineName", "UpdateName", "DeleteName"}, at : Scopes,
                   old : Definitions \cup {None}, was : Graphs]
Entries == [ev : Changes, seq : Nat, group : Nat]
Transactions ==
  [start : Nat, was : Graphs,
   savepoints : Seq([name : Savepoints, index : Nat, was : Graphs])]

\* Type invariant.  The context's own log is never capped and no edit of
\* this module opens a compound.
TypeOK ==
  /\ graph \in Graphs /\ goal \in Graphs
  /\ change_log \in [enabled : BOOLEAN, max : {NoCap}, depth : {0}, seq : Nat,
                     stack : {<<>>}, gid : Nat, retained : Seq(Entries)]
  /\ tx \in Transactions \/ tx = None
  /\ undo \in Seq(Entries)
  /\ phase \in {"idle", "rollback"}

-----------------------------------------------------------------------------
(* Properties *)

\* A rollback, to the beginning of the transaction or to a savepoint,
\* restores the graph as it was there: cells edited several times, names
\* redefined and deleted, savepoints of one name set twice or at one index.
RollbackRestores == phase = "rollback" /\ undo = <<>> => graph = goal

\* A rollback never stops half way: whatever inverse comes next can be
\* applied.  rollback_info has ended the transaction and take_from has
\* emptied the log by then, so a failure could not be retried.
RollbackNeverFails ==
  phase = "rollback" /\ undo # <<>> => Invertible(graph, undo[Len(undo)].ev)

\* The indexes a transaction keeps stay inside the log, in the order they
\* were taken: take_from does not panic, check_size does not underflow, and
\* a savepoint that survives a partial rollback is still usable.
IndexesValid ==
  tx # None =>
    /\ tx.start <= Len(change_log.retained)
    /\ \A k \in DOMAIN tx.savepoints :
         tx.savepoints[k].index \in tx.start..Len(change_log.retained)
    /\ \A j, k \in DOMAIN tx.savepoints :
         j < k => tx.savepoints[j].index <= tx.savepoints[k].index

\* The context is well formed: its fields have their types, and the indexes
\* it keeps are valid.
IndexesOK == TypeOK /\ IndexesValid

\* A transaction never takes back what was logged before it began: the
\* entries before its start survive every rollback, until the log is cleared.
CommittedHistoryKept ==
  [][tx # None => /\ Len(change_log'.retained) >= tx.start
                  /\ SubSeq(change_log'.retained, 1, tx.start)
                       = SubSeq(change_log.retained, 1, tx.start)]_vars
===============================================================================
