# A verification development for formualizer

formualizer is a spreadsheet engine in Rust. This directory holds TLA+ models of
the parts of it that keep state over many calls, the TLC configurations that check
them on small instances, and TLAPS proofs, for every value of the constants, of the
properties that matter most about the change log, transactions, undo and redo,
recalculation, cycles, the lookup index cache, the resource ledger, the reference
adjuster and row edits.

Run everything from this directory:

    tlc -workers 2 -config MCFreshness.cfg MCFreshness
    tlapm ChangeLogProofs.tla

`PROJECT.json` lists the components, the runs, the mutants (a plausible bug for
every checked property, which TLC must find), the map from definitions to source
lines, the hazards, the findings and the theorems. Paths below are relative to
`src/crates/`; `engine/` is `formualizer-eval/src/engine/`.

## 1. The system

### Parts, state and operations

| Part | State | Operations |
|---|---|---|
| **Change log** (`engine/graph/editor/change_log.rs`) | retained events with sequence number and group, open compounds, cap; formula runs kept as single records until read | record, begin/end compound, truncate, take_from, clear, set cap, enable; `MutationCapture` and its publication or discarding |
| **Transactions** (`transaction_context.rs`, `transaction_manager.rs`) | the active transaction: start index, savepoints | begin, commit, savepoint, rollback, rollback to savepoint |
| **Vertex editor** (`vertex_editor.rs`, `graph/names.rs`) | none of its own; edits the graph and logs | set value and formula, names, rows and columns, tables, apply_inverse |
| **Undo engine** (`undo_engine.rs`) | `undone` batches (with a log), `actions_done`/`actions_undone` journals (without) | undo, redo, push_action, undo_action, redo_action |
| **Engine edit path** (`engine/eval.rs`, `journal.rs`) | graph, Arrow store, staged formulas; the journal of an open action | edit_with_logger, undo_logged, redo_logged, action_atomic_journal |
| **Arrow store** (`formualizer-eval/src/arrow_store/mod.rs`) | base lanes, delta overlay (user), computed overlay (results) per chunk | read cascade, overlay writes, compaction |
| **Workbook** (`formualizer-workbook/src/workbook.rs`) | the engine, the log, the undo engine, staging mode | set_value, set_formula, actions, undo, redo, evaluate |
| **Dependency graph** (`engine/graph/mod.rs`) | vertices, edges, dirty set, volatile set, spill registry | edits and their propagation of dirtiness, spill commit and clear |
| **Evaluation pass** (`engine/eval.rs`, `freshness.rs`, `virtual_deps.rs`, `scheduler.rs`) | candidates, layers, write buffer, freshness notes, observed reads, schedule cache | evaluate_all, evaluate_cell, cancellable variants, plans |
| **Cycle evaluation** (`engine/eval.rs` `evaluate_scc_unit`, `live_graph.rs`, `convergence.rs`) | recorded reads, stamped members, iteration counters of a task; retained cycles and their values between requests | run, settle, stamp, iterate, retain, restore |
| **Formula authority** (`engine/authority/`) | formulas compressed into families and runs | dependents, precedents, layers |
| **Spills** (`engine/spill.rs`) | region reservations | reserve, commit, release |
| **Lookup index cache** (`engine/lookup_index_cache.rs`) | indexes by range and snapshot, byte count, call counts, builds in flight; shared by the threads of a layer | should_build, single_flight, get, insert_if_room, reset |
| **Resource ledger** (`engine/resource_ledger.rs` and its callers in `eval.rs`) | retained and scratch bytes, work, exhaustion of one request; what of them stands for caches that outlive it | reserve, release, checkpoint, reconcile, charge |
| **Structural edits** (`vertex_editor.rs`, `reference_adjuster.rs`, `engine/authority/`, `eval.rs`) | rows of cells and formulas, references, names, runs of family members, dirty marks | insert and delete rows and columns |
| **Sheet store** (`arrow_store/mod.rs`, `ArrowSheet`) | row count, chunk map, dense and sparse chunks of every column | grow, write, insert and delete rows and columns |
| **Indexes** (`topo/pk.rs`, `csr_edges.rs`, `delta_edges.rs`, `interval_tree.rs`) | derived structures | incremental updates |
| **Session** (`formualizer-workbook/src/session.rs`) | a client's view of a workbook | edits in sessions |
| Interpreter, functions, parser, ingest, backends, sheetport, bindings | no state between calls that matters here | pure functions and I/O |

### How they interact

A client call on `Workbook` runs to its end (`&mut self`). It makes an edit through
`Engine::edit_with_logger`: the editor changes the **graph** and records events into a
private `MutationCapture`; the engine mirrors the captured events into the **store** and
publishes the capture to the **change log**, or discards it when the edit failed.
Undo takes a batch of events off the log and sends their inverses through graph,
staging area and store; redo sends them forward and logs them again. Without a change
log an action keeps a **journal** of the graph's events and of the raw overlay entries.

An edit makes the transitive static dependents of the cell dirty. An **evaluation
request** is a loop of passes: a pass orders the dirty and volatile formulas in layers,
evaluates the units of a layer (one after the other, buffered, or on several threads)
and commits the results one at a time. A commit clears the dirty flag; the commit of an
array also makes the readers of its old and new children dirty, while the pass is
running. What is still dirty afterwards is the work of the next pass, at most five of them.

A strongly connected set of formulas is one unit of a layer: its members run in passes
until what they read of each other has settled, or the cycle is stamped or iterated.
Lookup functions running in the threads of a layer share the **lookup cache**, which an
edit empties by taking a new snapshot number. Every request opens a **ledger**; what it
holds is reserved before it is allocated and released on the way out, also by an error.

A **row edit** changes the store, moves formulas, rewrites references (whole runs of a
formula family at a time), adjusts names, and marks formulas dirty through several
mechanisms, none of which alone is enough.

### What is hard about it

There are no messages and, at the interface, no concurrency: the type system makes calls
exclusive. Threads exist inside a layer, where they share the lookup cache. Most of the
difficulty is elsewhere, and PROJECT.json lists it line by line under `hazards`:

* the *same fact in several places* (graph, staging area, two overlays and base lanes,
  log), each with its own inverse, and compaction moving values between edit and undo;
* *steps of one call that fail in the middle*: the capture of a failed edit, the closure
  of an atomic action, a rollback, a cancelled or failing evaluation;
* *long sequences of legal calls*: nested compounds, clears and truncations in the log,
  savepoints of one name, undo and redo interleaved with edits and evaluations;
* *order that is only known when formulas run*: INDIRECT, OFFSET and spills change what
  a formula reads after the order of the pass is fixed, and results wait in buffers or
  in other threads while flags change;
* *lazy representation behind a shared read* in the log (interior mutability);
* *waiting on a build of another thread* that may fail, be refused or be too large;
* *reservations that must be returned on every way out*, nested, with errors from any
  checkpoint and retries after some of them;
* *iteration that must end* and whose state survives edits between requests;
* *one edit, many representations*: a run of formulas is rewritten once for all its
  members, a chunk map is rebuilt in two different ways, a mark stands for a cone of
  readers.

The properties that make each part correct are the ones section 4 lists per run.

## 2. Modules

| Module | Models | Uses |
|---|---|---|
| `ChangeLogOps` | the operations of `ChangeLog` as functions on a log | |
| `ChangeLog` | the log as a state machine, captures and their replay | `ChangeLogOps` |
| `LazyChangeLog` | the log as stored, with pending run records; implements `ChangeLog` | `ChangeLogOps`, `ChangeLog` |
| `TransactionContext` | transactions, savepoints and rollbacks over cells and a name | `ChangeLogOps` |
| `CellStore` | one chunk of the Arrow store: read cascade, overlay writes, compaction | |
| `LinearHistory` | *abstract*: what undo and redo promise | |
| `EditHistory` | a workbook with its change log on; implements `LinearHistory` | `ChangeLogOps`, `CellStore` |
| `ActionJournals` | a workbook with journals only; implements `LinearHistory` | `CellStore` |
| `Freshness` | evaluation requests: passes, layers, commits, dirty flags, failures | |
| `LookupCache` | the index cache and its concurrent callers | |
| `CycleUnit` | a strongly connected set of formulas over many requests | |
| `RequestLedger` | the ledger of a request and every reservation of the engine | |
| `Grid` | *abstract*: what row and column edits do to a grid of cells | |
| `ArrowSheet` | the chunks of a sheet, shown to hold the grid | `Grid` |
| `ReferenceAdjuster` | row adjustment of a reference, alone and for a block of a family | |
| `StructuralEdits` | row edits: references, names, runs, dirty marks | `ReferenceAdjuster` |
| `*Proofs` (eight) | theorems; `RequestProofs` is about `Freshness` and `RequestLedger`, `TransactionLogProofs` about `LazyChangeLog` and `TransactionContext`, `RowEditsProofs` about `StructuralEdits` and `ArrowSheet` | the modules each is about |
| `MC*` | the constants of the runs | the module each is named for |

Definitions named "Mutant of X" are the plausible bugs behind `mutants`; no
specification uses them.

### ChangeLog and LazyChangeLog

The record `log` is `ChangeLog`'s fields; `mode` says whether the log is free, an edit
is capturing, or a capture is being replayed. Direct operations (`Record`, `Begin`,
`End`, `SetMaxChangelogEvents`, `SetEnabled`, `Truncate`, `Clear`) are one action each.
An edit is `StartEdit`, `Capture…`, `FinishEdit("publish" | "discard")`, then one
`ReplayStep` per captured entry and `ReplayDone`: `replay_capture` is a loop whose
intermediate logs (over the cap, compounds open) are where mistakes would be. `before`
is a history variable.

`LazyChangeLog` has the same actions over `RetainedCell` (plain entries, run records
with positions, length, `expanded`), the merge of the two lists in the replay
(`RunIsNext`, `ReplayRun`, `ReplayEvent`) and `Read`, which expands. `WrittenOut` and
`CaptureView` are the refinement mapping. `WrittenOut` orders by sequence number, which
is a definition independent of `Expand`'s positions; `CaptureView` gives every run left
its place (`RunPlace`) and the events the other places, without running the merge.

Event metadata is never read by the log and is left out. `pending_records` is not reset
by a shared read; only a test accessor looks at it, so no property does.

### TransactionContext

`graph` holds a formula per cell and one name's definition per scope; `change_log` is the
context's log; `tx` the start index and the savepoints; a rollback is `Rollback` or `RollbackToSavepoint`, one
`UndoLast` per event, and `EndRollback`, because an inverse may fail (`Invertible`) and
then would leave the graph half restored. `was` and `goal` are history. The model shows
that the error path of `apply_rollback_events` is unreachable for these edits
(`RollbackNeverFails`). Structural edits, which open compounds, are not edits here.

### CellStore, EditHistory, ActionJournals

`CellStore` is one column chunk: a read takes the delta entry, else the computed one,
else the base; more than `limit` delta entries compact into the base. A user edit
through `mirror_value_to_overlay` drops the computed entry, a raw write does not. Results
stay in the computed overlay: `compact_all_computed_overlays`, which moves them into the
base when `max_overlay_memory_bytes` is exceeded (`eval.rs:12641`; None, never, by
default), is not modelled.

`EditHistory` has one action per workbook call. `book` is graph, staging area and store
together, so an action is the whole call, the trailing overlay write and
`clear_staged_formula_text` included. `past` and `future` are history, kept as
`LinearHistory` keeps them. What a sheet shows of a cell is its formula, its value and its
staged formula (`SheetOf`). Undo and redo take a batch of events through
`GraphBackward`, `StagedBackward`, `ArrowBackward` or their forward counterparts
(`ReplayBackward` and `ReplayForward`, recursive functions from the number of events
already applied); the code makes three passes, one per place, which is the same because
an event touches each place on its own. `Relogged` is the loop in which redo logs a batch
again.

What a careful client does is the constant `Rules`. With all four the workbook
implements `LinearHistory`; without any one of them it does not:

| Rule | Meaning | Without it |
|---|---|---|
| `grouped` | edits only inside actions | `Rules <- NoGrouping`: `UndoAvailable` fails |
| `redo_first` | no new action while something can be redone | `Rules <- StaleRedo`: `UndoReverts` fails |
| `no_overwrite` | without deferred building, no formula over a value | `Rules <- Overwriting`: `UndoReverts` fails |
| `close_first` | undo and redo only with no action open | undo takes half an action; `change_log.rs:890` asks for a "complete group" |

Evaluation happens only while nothing is staged; its undo otherwise is one of the known
limitations at line 382 of the repository's `CHANGELOG.md` (#412; #301, #303 and #367
are the others).

`ActionJournals` has `BeginAction`, `SetValue`, `SetFormula`, `Commit`, `Fail`, `Undo`,
`Redo`, `Evaluate`; `Fail` may come after any edit and takes back the journal. Its
`journal` keeps the graph's events and the overlay entries separately, as `journal.rs`
does, and they are replayed in that order. `Replay` is the loop over one part as a
recursive function from the number of writes made to the workbook, over what `Inverses`
(last entry first) or `Forwards` says to write.

Undo, redo and rollback put a value back over the result of the formula that it replaces
and leave the result below it, hidden by a delta entry. `Hiding` is the set of cells where
this is so or an undo will make it so, and an edit `Buries` when its compaction moves the
delta entries of a chunk with such cells into the base: the result then shows. Evaluation
and compaction happen in the same chunks otherwise, at any limit.

### Freshness

A cell is an input, a formula or a possible child of a spill. What formulas read
(`Static`, `Target`) and compute (`Result`, a value and a spill) are constants, so a run
fixes a small workbook; everything the engine decides is modelled:

| Variable | Code |
|---|---|
| `store`, `buffer` | what a read sees; `ComputedWriteBuffer` |
| `extent` | spill registry of the graph |
| `dirty` | dirty flags |
| `observed` | observed dynamic reads of published values |
| `cached` | schedule cache, keyed by the candidates and emptied by a new revision |
| `request` | goal, replan count, hints gathered from dropped readers |
| `pass` | schedule (candidates, edges, layers), what was committed and dropped |
| `batch`, `unflushed` | the unit under commit; committed with the value still buffered |
| `outcome` | history: how the last request ended |

| Action | Code |
|---|---|
| `Edit` | a value edit and `mark_dirty` |
| `Begin`, `NoWork`, `Finish` | the frame of `evaluate_all` and `evaluate_cell`, the volatile redirty included |
| `Plan(base)` | `create_evaluation_schedule` and `freshness_begin_pass`: a schedule is built, retained from a pass with the same candidates, or restricted from one with more (`schedule_from_base`; the sizes from which the code does so are left open) |
| `NextLayer(mode)` | the walk; a wide layer buffers its writes |
| `EvaluateUnit`, `EvaluateGroup` | `evaluate_layer_units_until`; `evaluate_layer_parallel_effects` |
| `FlushSlice` | end of a slice in `evaluate_layer_parallel` |
| `Commit`, `DropStale`, `SpillCommitFails` | `plan_vertex_effects` and its application, `freshness_mark_committed`; `freshness_drop_stale`; a refused spill |
| `Replan` | `freshness_finish_pass` with work left, or exhaustion |
| `Abort(flushed)` | cancellation, budget or error at any checkpoint, `freshness_abort_pass` |

Threads of a parallel group only read the store; their results are applied by one
thread afterwards, so evaluating a group is one step and each commit another. The
choice of the mode and of the unit boundaries is nondeterministic, which covers every
outcome of the cost-adaptive probe.

The pass run keeps to what the engine supports; each restriction was found by TLC and
is written where it bites:

* `settled_spills`: a client asks for one cell only while no array formula is dirty.
  Otherwise `TargetUpToDate` fails: a clean reader of a spill child that the request
  itself makes dirty is not one of its candidates, and an anchor that has not spilled
  yet is not in the demand (`eval.rs:14910` promises to "bring the target cell
  up-to-date").
* `first_pass_failures`: only the first pass of a request fails. Otherwise
  `DirtyClosed` and `ExactWhenDone` fail, because `freshness_abort_pass` restores the
  commits of the failing pass only, and dependents of volatile formulas committed by
  earlier passes stay clean.
* no formula reads, through another formula, a spill child *and* something else that
  makes it dirty: that is the observation on `MixedStatic` in section 3.
* the target of a dynamic reader does not depend on a spill child: a volatile INDIRECT
  re-evaluated in the second pass may change after its dependents were committed in
  the first.

### LookupCache

One action is one section of `single_flight`, `get`, `should_build` or
`insert_if_room` under its lock, or one atomic access; `pc` says between which two a
thread is. A call is `Call`, `CheckCap`, `ShouldBuild` (calls below the threshold only
scan), `Join` (the map of flights), then either `Initialise`, `Recheck`,
`CheckVolatile`, `Build`, `InsertIfRoom` for the thread that runs the `OnceLock`'s
initialiser or `Share` for those that wait for it, and `Leave`, `Return`. `BeginRequest`
and `EndRequest` bracket evaluation; a request may change the contents of `Recomputed`
ranges before its lookups run. `Edit` is the client's and takes a new snapshot, on which
`reset_for_snapshot` drops everything. A range has an opaque content, an index is the
content it was built from. A flight is an `Arc`; one per thread is enough since only
threads hold one (`FreeFlight` is the lemma).

### CycleUnit

The state of one task (`phase`, `reads`, `changed`, `todo`, `order`, `ran`, `passes`,
`settles`, `prev`, `iterating`, `excluded`, `how`) and what stays between requests (`value`,
`retained`, `persisted`). A formula is an IF over an input cell or a member with
branches that read at most one member, so whether there is a cycle depends on values.
`RunMember` is one evaluation; `Classifying` guards one action per arm of the loop after
a pass: `StampCycle`, `Iterate`, `StopIterating`, `Settle` (with the defensive stamp of
`OverBudget`) and `Settled`. `Cancel`, `SetInput` and `InsertRows` are the
interruptions.

A pass runs the members of `todo` in any sequence that respects the pairs of `order`:
all of them by row in a full pass, and `Topo` of the live edges in a settle pass and the
last pass. `Topo` is the contract of `LiveGraphAnalysis::topo` (`live_graph.rs:26`):
every member comes after the members it has a live edge to. Tarjan's algorithm picks one
such order; the model allows all of them, so what it shows does not depend on which.

The reference for "the right values" is `Ground`: stamped members are #CIRC!, every other
member has what it computes, and some order of evaluation exists, stated without one
(each set of members has one that reads nothing in the set).

### RequestLedger

`frames` is the stack of scopes a request has open: nested requests, scratch for a piece
of work, the preparation of targets with its retries, a selection from a deferred
package. `failing` is an error on its way out: it lets only the closing actions run, so
every action that may be refused also stands for every early return behind it. What
outlives a request is `spills` (the vector of blocked spills at its capacity, which may
grow by more than one) and `caches` (published by tokens that backends may drop at any
time, `DropCaches`). Budgets are a constant set, chosen anew by each outermost request; a
tight one of the run has its mixed-cache limit below its retained limit, as all that
`ResourceEnvelope::to_budgets` derives (`MixedBelow`). `broken` remembers which assertions
of the ledger's callers have failed: that of `release_request_scratch` and that of
`mark_topology_edited`, whose failure in a release build is a dropped refusal.
`LedgerInit`, `LedgerNext` and `LedgerSpec` have names of their own because `RequestProofs`
extends this module together with `Freshness`.

### Grid and ArrowSheet

`ArrowSheet` holds `nrows`, `chunk_starts` and columns (dense prefix and sparse map).
Its operators follow the code's two rebuilding strategies: `dense_aligned` sheets from
the pieces of the first column, others from a plan of slices of the map. The history
variable `cells` is a plain grid to which the same edits are applied by `Grid`'s
operators, which know no chunks; `ShowsGrid` compares the two after every step. `Rules`
says what clients keep to: `small_inserts` and `has_columns`; section 3 says what
happens otherwise. A cell shows a user's value, a result or nothing. A result is written
only to a cell that shows no user's value: which of the two would show is a matter of the
layers of a chunk, which `CellStore` has. That results are in the computed overlay, where
an edit clears them, is assumed here as it is there (no memory cap). What a rebuild makes of one chunk (`ChunksInserted`, `PlanInserted`,
`ChunksDeleted`, `PlanDeleted`) is an operator of its own, because the proofs show the two
ways equal chunk by chunk. `SheetInit`, `SheetNext` and `SheetSpec` have names of their
own because `RowEditsProofs` extends this module together with `StructuralEdits`.

### ReferenceAdjuster and StructuralEdits

`ReferenceAdjuster` is the row rule for one reference (`adjust_reference`), the rule for
a name, and the rewriting of a block of a family (`plan_part`): if the first and the
last member still have one template after the edit, the block is rewritten as one,
otherwise cell by cell. `Follows` states independently which rows a
reference is about after an edit.

`StructuralEdits` puts it to work. Node 0 is the name, nodes 1..N are formulas, numbered
so that members of a family are in a row. `EditRows` is the whole edit: store, vertices,
runs (cut by `split_for`, members left out), references, names, and the marks of the
five mechanisms the comment of the module lists, in the code's order (the deleted band
before the move, the others after it). `Occupancies` is nondeterministic, because the
record of used extents may be larger than what is used: it also holds the columns of
all cells that formulas or names read by themselves, empty or not (`note_vertexless_deps`),
and a range of at most `RangeExpansionLimit` cells is read so (`Small`). An undo, a rollback
and a move of cells make the record forget cells that are still read (`vertex_editor.rs:823`,
`876`, `1988`, `graph/mod.rs:3522`); none of them is an operation of the module. The readers
that count as small are found through edge records, which cover formulas that follow each
other in row and reference and are measured at their first one (`RecordHead`); whether
records have been joined is a property of the workbook (`joined`): all or none. `intent` is history: the set of
rows each reference is about. `Evaluate` recomputes what is dirty in one step and forms
runs again. A formula is a lookup, the most demanding reader: it sees which offset of
its range holds what. `row` formulas (ROW, ADDRESS) also see where the range is; they
occur only in `RowBooks`.

## 3. Findings

One disagreement has a run of its own, in which TLC produces the shortest behaviour and
the property is what a document of the repository says:

| Run | What happens |
|---|---|
| `lookup_stale` | The index of a range is found under the range and the snapshot number, which only edits change. A range of formulas that *depend* on RAND or NOW is recomputed by the next request without an edit, and the lookups in it get the index of the old values. Only ranges with a volatile cell *in* them are recognised. |

The others are configurations of the existing modules: change the constant named here in
the .cfg and check the property named.

| In | Change | Fails | What happens |
|---|---|---|---|
| `MCTransactionContext` | `Scopes <- MCDefaultSheetScopes` | `RollbackRestores` | `delete_name` and `update_name` look up the old definition of a workbook-scoped name from sheet 0, where a sheet-scoped name shadows it; rollback restores the wrong definition. |
| `MCEditHistory` | `Rules <- NoGrouping` | `UndoAvailable` | A single edit after an action cannot be undone ("Non-tail undo not supported"), against the workbook's README. |
| `MCEditHistory` | `Rules <- StaleRedo` | `UndoReverts` | A new action does not clear the redo stack of the change log; the batch redone over it logs a stale old state, and the undo that follows writes it. |
| `MCEditHistory` | `Rules <- Overwriting` | `UndoReverts` | Without deferred building `set_formula` over a value logs no old value; undo leaves the cell empty. |
| `MCActionJournals` | `SPECIFICATION Spec` | `NoStaleResult` | Undoing an action puts a value back raw over a computed entry; the next compaction moves it below that entry and the cell shows the formula's result (the step `Buries`). |
| `MCFreshness` | `Inputs = {"x"}`, `Formulas = {"a", "r", "t"}`, `Volatile`, `Dynamic`, `Compressed`, `Runs`, `Targets` empty, `Static <- MixedStatic` | `CleanIsFresh` | `t` reads an input `x` and a formula `r` that reads a child of the spill `x` changes. `evaluate_all` computes `t` before `r` is made dirty, clears its flag, then recomputes only `r`: `t` stays wrong and clean. |
| `MCRequestLedger` | check it instead of the others | `ReleaseIsAccepted` | `mark_topology_edited` reports the dropped schedule cache by `account_mixed_cache(0)`, which compares everything retained, blocked spills included, with the limit of the mixed cache. A budget of the envelope sets that limit below the retained limit (`resource_ledger.rs:230`), so two blocked spills, admitted under the latter, are enough for a refusal. The code asserts that there is none (`eval.rs:5630`) and drops it in a release build. `AssertionsHold` says that it happens under no other budget. |
| `MCCycleUnit` | `Policies = {"error"}`, `MaxEvents = 0` | `PhantomIsOrdinary` | A cycle of reads that only exists while old values select the branches is stamped #CIRC!, and the stamp stays for the task although the formulas have no cycle. |
| `MCArrowSheet` | `Rules <- SmallInserts` | `MapOK` | Two `insert_rows` on a sheet without columns leave rows and no chunk map; the next write indexes an empty map in `chunk_of_row`. The comment at `arrow_store/mod.rs:5183` reads "Ensure a valid chunk map for non-empty sheets." |
| `MCArrowSheet` | `Rules <- HasColumns`, `MaxBand = 3` | `ShowsGrid` | Inserting more rows than a chunk has makes a last chunk longer than `chunk_rows`; growing the sheet then puts a chunk start inside it. |
| `MCStructuralEdits` | `Workbooks <- HeadBooks` | `RefsFollow` | A range open at its start and closed at its end (A:A10) whose end row is deleted keeps one row too many. |
| `MCStructuralEdits` | `Workbooks <- RowBooks` | `CleanIsFresh` | A rewritten or moved formula is made dirty without its readers, which is enough only while its value does not change; ROW(A5) changes, and what reads it stays stale. |
| `MCStructuralEdits` | `Workbooks <- EmptyBooks`, `RangeExpansionLimit = 1` | `CleanIsFresh` | All rows of a range over an empty column are deleted. Its reader becomes #REF! and is made dirty alone, and what reads that formula stays stale: the search for the readers of the deleted band skips empty columns. The comment at `vertex_editor.rs:1172` reads "Only occupied columns when the caller knows them (an empty column's readers see no change)". Ranges of up to `range_expansion_limit` cells are safe, because their columns count as occupied, unless an undo or a rollback has made the extent record forget them. |

Seen while reading or checking, without a configuration:

* `clear_change_log` does not look for an active transaction; inside one it would leave
  the start and the savepoints behind the end of the log. Its comment says "useful between
  transactions" (`transaction_context.rs:157`), and `ClearChangeLog` keeps to that.
* `evaluate_recalc_plan` in its CompatibilityFull branch (`eval.rs:14510`) runs with the
  freshness notes unarmed and clears every flag; a volatile anchor under a retained
  schedule, which ignores extents, may be ordered behind its reader in every pass.
* Cycles: after stamping, the single settling pass uses the old order, so a reader whose
  branch flips in it may keep a stale value; `RetainedIsFixed` does not hold of members
  stamped for a transient array result; with `max_change` 0 no number converges, not
  even one that repeats, because the comparison is strict, and every request uses up
  its iterations.
* Row edits: spill extents are not shifted, and results of children are cleared while an
  anchor above the line stays clean; hiding a row marks nothing dirty; a name becomes
  #REF! when either end row is deleted where a formula's range shrinks (`names.rs:48`
  speaks of "matching formula references"); reversed ranges are never adjusted;
  inserting columns into a column-less sheet of several chunks makes one chunk.
* The branch of `insert_if_room` for an index that is already there is unreachable while
  callers come through `single_flight` (`OneBuilder`).

## 4. Runs

All passing runs check deadlock except `edit_history`, where the bounds on events stop
the client, and `cycles`, where a clean set whose events are used up has nothing to do.
Every action of every module fires in some passing run.

In each module one invariant joins the type invariant to the well-formedness of the
state; it is a conjunction of named parts, given in parentheses.

| Run | Properties | Distinct states |
|---|---|---|
| `change_log` | `LogWellFormed` (`TypeOK`, `SeqsIncreasing`, `CompoundsInStep`); `GroupsContiguous` (undo cuts nothing foreign); `CapHolds`; `AuditStable` (entries are kept or dropped, never changed, no number reused); `FailedEditInvisible`; `EditIsOneGroup` (`EditIsBracketed`, `EditJoinsCompound`) | 552 k |
| `lazy_change_log` | `LazyWellFormed` (`LazyShape`, the invariant its unsafe code states; `LenExact`); `ImplementsChangeLog` | 196 k |
| `transactions` | `RollbackRestores`; `RollbackNeverFails`; `IndexesOK` (`TypeOK`, `IndexesValid`); `CommittedHistoryKept` | 775 k |
| `edit_history` | `UndoAvailable`; `StepsAreActions` (`TypeOK`, `StepsMatchGroups`, `UndoneWhole`); `ImplementsLinearHistory` | 1.32 M |
| `journals` | `StoreOK` (`TypeOK`, `NoStaleResult`); `ImplementsLinearHistory` | 1.82 M |
| `recalculation` | `CleanIsFresh`; `DirtyClosed`; `PassesOK` (`TypeOK`, `Converges`); `RequestsDeliver` (`ExactWhenDone`, `TargetUpToDate`) | 809 k |
| `lookup_cache` | `AccountsOK` (`TypeOK`, `BytesExact`, `CapHolds` although callers only check an estimate); `SingleFlight` (`OneBuilder`, `NoFlightLeaks`); `IndexIsCached`; `EditsInvalidate`; `CallsReturn` | 469 k |
| `cycles` | `SettledIsExact` (what settles is what `Ground` gives); `LoopOK` (`TypeOK`; `BudgetSuffices`, the defensive cap is never hit); `RetainedIsFixed`; `StateSurvives`; `RequestsEnd` | 763 k |
| `ledger` | `RetainedOK` (`LedgerTypeOK`, `AccountedIsReserved`, `HeldIsAdmitted`, `RunningWithinBudget`); `ScratchPaired`; `AssertionsHold` (of two assertions, one only fails under `MixedBelow`); `SuccessIsClean` (no other refusal is swallowed) | 4.03 M |
| `arrow_sheet` | `LayoutOK` (`SheetTypeOK`, `MapOK`, `ChunksFit`); `ShowsGrid` | 128 k |
| `structural_edits` | `RefsFollow`; `RunsOK` (`TypeOK`, `RunsHold`); `CleanIsFresh` | 123 k |

Bounds, and why they are enough:

* `change_log`: no cap and caps of 0 and 2, runs of up to 2 members,
  2 nested compounds, 2 direct groups, captures of 3 entries, 4 sequence numbers before
  an edit may start (its replay goes past them). A group can be cut by the cap at its
  head, in its middle and at its end; a run can be cut in two; an edit can be made in
  no, in an outer and in a nested compound. The proofs remove the bounds for most of
  these properties.
* `lazy_change_log`: the same with 3 numbers and captures of 2: two runs at one
  position, a run before, between and behind plain events, and a read at any moment.
  The proofs remove the bounds.
* `transactions`: 4 changes, 2 savepoints of one name (the oldest wins, as in `get_savepoint`), one cell, a name in two
  scopes with two definitions; a transaction may be too large to commit (`MaxSize` 2).
  The proofs remove the bounds.
* `edit_history`: 2 cells, 1 formula, 2 values, 11 events: two actions of two edits
  each with their markers, and nested ones, and redos of them. `Limit = 1` lets the
  second value compact the chunk. Cells and values are symmetric: no definition
  distinguishes them and no liveness is checked. The proofs remove the bounds.
* `journals`: two actions of two edits, in a chunk that compacts on every edit, in one
  that compacts on the second and in one that never does. The proofs remove the bounds.
* `recalculation`: two inputs, an array that spills when one of them is 1, a chain of
  readers behind its child, a formula over the array, an INDIRECT that moves between
  two of them with its own reader, a run of two formulas, a reader of a compressed
  range. There is no bound on requests, edits or failures: the state space is finite
  and explored whole (depth 97). `MaxReplan` is the code's 5.
* `lookup_cache`: two threads, three ranges (plain, with a volatile cell, recomputed),
  an index that passes the estimate and not the cap, contents with errors that have no
  index, a threshold of 1 in place of the code's so that both sides of it happen, two
  edits. The proofs remove the bounds on threads, ranges and edits.
* `cycles`: three members, every assignment of the listed formula shapes (the second
  member is one that others test), two policies, 3 iterations, one interruption per
  behaviour. Three members are the least with which a cycle can appear and dissolve
  while a third formula settles.
* `ledger`: no limits, tight ones as an envelope derives them and a tight retained one, which may change from one
  request to the next; 4 scopes; amounts 0..2. The proofs remove the bounds.
* `arrow_sheet`: chunks of 2 rows and 5 rows, so edits fall on, before and behind every
  boundary and a last chunk is short; two columns, so that they can differ in what is
  dense and what is sparse; one filled cell at a time, which is any cell.
* `structural_edits`: eight workbooks (families that read the cell beside them, running
  totals, windows, a family on another sheet, whole columns, growing and shrinking ranges
  over formulas; readers by cell, range, half-open range, whole column and name), two edits of one or two rows, and value edits
  and recalculations between them. `RangeExpansionLimit = 2` puts references on both
  sides of the limit. The proofs remove the bounds for `RefsFollow` and `RunsHold`.

### Fairness and liveness

`LookupCache` assumes `WF_vars(Work(t))` for every thread: a thread that is scheduled
and not blocked goes on; the thread that initialises a `OnceLock` is never blocked, so
`CallsReturn` says that no waiter is forgotten. `CycleUnit` assumes `WF_vars(Work)`: the
request's one thread goes on; that its loops end (`RequestsEnd`) is not assumed. Edits,
cancellations and new requests are the client's and have no fairness.

The other specifications are safety specifications. Every call is made by a client that
may stop at any time, so nothing has to happen; the loops inside a call are sequential
code. The replan loop carries its own counter, so "it ends in time" is the invariant
`Converges`, with deadlock checking on (no phase of a request gets stuck).

## 5. Proofs

The proof modules hold for every value of the constants, under the named assumptions
of the module they extend, which TLC evaluates in the runs.

**ChangeLogProofs**. `IInv` is the type invariant, `LogOK(log)`, `CapKept`
and `Untouched`. The properties as stated are not inductive. `GroupsContiguous` alone
would allow an event to be recorded into the current group behind entries of another
one; `RetainedOK` adds that once the current group has an entry every later entry is in
it, and that no entry has a group still to be allocated. `CapHolds` needs `CapKept`: only
a publication may exceed the cap. `FailedEditInvisible` needs `Untouched`: while an edit
captures or is discarded the retained entries are those of `before`. Lemmas say of each
operation of `ChangeLogOps` that it takes a good log to a good log (`SubRetained` for
eviction and truncation, appending for recording and replaying); `StepIInv` goes through
the actions. Results: `StaysWellFormed` (from `TypeCorrect`, `SequenceNumbers`,
`DepthAndStack`), `GroupsStayTogether`, `CapRespected`, `AuditTrail`, `FailedEdits`.
`EditIsOneGroup` (`EditsAreOneGroup`) needs a second invariant, `EditOK`: what is left to
replay is `Bracketed`, it leads the depth back to where the edit began and never below,
so the compounds open before the edit stay at the bottom of the stack and, inside one,
there is a single group. A height function bears witness to `Bracketed`, so that no
recursive count of starts and ends is needed.

**TransactionLogProofs**. First the stored log. `LazyInv` says that the cell and the log it
stands for agree (`Shows`): positions do not decrease and stay inside the plain entries,
and the sequence numbers of the plain entries before a run's position are below the run's,
those after it above. So there is one sequence with the cell's entries in the order of
their numbers, and `WrittenOut` is it (`WrittenIs`, from `RankOf`). Every operation on the
cell is then shown to give the entries of the abstract operation: `ExpandOK` for the loop
of `Retained::expand`, by induction over the records placed (`Moved`), `PushRunOK`,
`PushPlainOK` and `KeptCell` for the others. A capture is the other half: `CaptureOK` says that its runs
are in order and none behind its events, from which `RunPlace` is increasing
(`PlacesGrow`), appending to either list appends to the view (`AppendEvents`, `AppendRun`),
and the item the merge takes is the head of the view (`NextRun`, `NextEvent`). Results:
`LazyCellWellFormed`, and `LazyLogImplements`, the refinement of `ChangeLog`. With it the
theorems of `ChangeLogProofs` hold of what the stored log shows.

For transactions the idea is a path back: `ChainOK` says
of every logged change that in the graph after it its inverse can be applied and gives
the graph before it, where the graphs are the `was` fields of neighbouring entries.
Transactions and savepoints remember a position on that path (`TxOK`), and a running
rollback is a suffix of it that leads to `goal` (`UndoOK`). `RollbackRestores`,
`RollbackNeverFails` and `IndexesOK` follow, and so does the action property
`CommittedHistoryKept` (`HistoryIsKept`): a rollback truncates to a position of its own
transaction, and commits never shorten the log. The theorems assume
`NoDefaultSheetNames`, that no name is scoped to sheet 0; without it the statement is
false (section 3).

**LookupCacheProofs**. For any finite set of threads. `OneBuilder` is not inductive: the
invariant has to say that a flight whose outcome is not set is in the map under the
range of everybody who holds it (`MapOK`), that who shares a flight shares the range
(`FlightsOK`), and that one thread runs its initialiser (`OnceOK`). Then a second
builder of a range would have to hold the same flight. `BuildersOK` adds that the range
stays without an index from the recheck to the insertion, `OutcomesOK` that what a
flight carries is in the cache, `ContentOK` that entries agree with ranges only edits
change. Results: `LookupTypeCorrect`, `CapAlwaysHolds`, `SingleFlightHolds` (from
`SingleBuilder` and `FlightsAreRemoved`), `IndexesAreCached`, `EditsAlwaysInvalidate`,
and `AccountsAreExact`: the byte counter is the sum of the estimates of the entries. The
sum is over a finite set of ranges, and the lemmas say what adding one and removing one
does to it.

**RowEditsProofs**. First about references. `RangeFollows`: an adjusted plain
reference covers exactly the rows the original was about, and is #REF! exactly when none
is left. `BlockIsPerCell`: rewriting a block by its first and last member gives every
member what it would get alone. The reason is that a row edit never stretches a distance that it shrank further
along: if both ends stay, everything between stays; if both ends move by the same
amount, so does everything between (`UnmovedBetween`, `MovedBetween`).

Then about workbooks: under `PlainBooks` (ranges not reversed, with a first row if
they have a last, on the sheet; the name closed at both ends), `IInv` is `TypeOK`,
`RefsPlain` (edits keep references plain), `RunsHold` and `IntentExact`. `AdjustedOneByOne`
reduces the block-wise rewriting to the per-reference rule through `BlockIsPerCell`, which
needs `RunsHold`; `PlacedTogether` shows that the members of a cut run stay one below the
other. Results: `ReferencesAlwaysFollow`, `RunsStayOK` (from `EditTypeCorrect` and
`RunsAlwaysHold`).

Last about results. `CleanStaysFresh` says that the five mechanisms together dirty enough.
`FreshInv` adds to `IInv` and `CleanIsFresh` that the formulas have a rank, every one above
those it reads: an edit moves formulas and references alike and deletes some, so the
readers after it are readers before it (`UsedBefore`) and the rank stays. With a rank the
results are one function of data, rows and references (`ExactAt`, `SolutionExists`).
`ClosureIsClosed`: N + 1 rounds reach every reader of N + 1 nodes. The step for `EditRows`
is `UnmarkedIsKept`: a formula that no mechanism marks reads a range that the edit did not
cut, so the same cells are at the same offsets (`ValuesKept`, `FormulasKept`, `EmptyKept`),
and the formulas in it are not marked either (`MarksReach`), so by induction on the rank
they show what they did. Three hypotheses beside `PlainBooks`, each of them needed:
formulas are lookups (`RowBooks`, section 3) and without a cycle, where "what a
recalculation would give" has no meaning without an iteration policy (`LookupBooks`); and
no range too large to be kept as cells is deleted whole from an empty column
(`LostRangesFilled`; `EmptyBooks`, section 3). The attempt corrected the model twice, in
what `Occupancies` must contain and in which ranges `SmallReaders` finds.

Then about the chunks of a sheet, for every `ChunkRows`: `LayoutHolds` and `GridIsShown`,
under `Rules = AllRules`. The inductive invariant `SheetInv` is the grid shown beside
`Layout`, which says more than `LayoutOK` in two places, one for each rule: no chunk is
longer than `ChunkRows`, without which `ensure_row_capacity` starts the next chunk inside
the last one, and a sheet without columns has no rows, without which the dense way makes a
map from a column that is not there. A row edit is described once, by a function that
gives every new row its old one (`InsertSource`, `DeleteSource`). `InsertPlan` and
`DeletePlan` show that the plan of slices made from the map realises that function, item by
item; `RebuiltSheet` that a sheet whose columns all follow such a plan shows the rows it
says, whatever chunks a column has; `SparseRebuilt` that the sparse way follows it, and
`ChunkInserted`, `ChunkDeleted` and `ImageFlatten` that the dense way, which never sees the
plan, cuts the same pieces. `FlattenSeq` and `StartsOf` are folds and recursive functions;
the inductions over them are made by the least number that fails (`Reaches`). The attempt
corrected `Grid`, whose inserts were `CASE`s with overlapping guards: TLC takes the first
that holds, the logic any.

**RequestProofs**. First about `Freshness`. What a request promises has to be said in the middle of one, when
some values are flushed, some buffered and some dropped. `Effective` is the store with
the buffer over it, and `CleanOK`, the heart of `IInv`, says that at every step of every
pass a formula that is not dirty has in it the value it computes and reads nothing dirty.
To keep it, a candidate's layer may only run when nothing that the candidate is known to
read is dirty, waiting or buffered (`ScheduleOK`), a result waiting for its commit must
still be what the formula computes, unless it will be dropped (`BatchOK`), and what a
failing first pass puts back must contain everything that was dirty and every volatile
formula (`OriginOK`). The hypotheses `ScalarWorkbook` are: no formula spills
(`ScalarResults`); results and targets depend on nothing but the cells read
(`LocalResults`); no formula reads itself (`TypedReads`); runs consist of formulas; and
the rule `first_pass_failures` of the run. Formulas may be volatile, dynamic or in runs;
layers may be direct, buffered or parallel. Spills are left to TLC: with them the
properties need the restrictions listed under Freshness above.

`CleanFormulasAreFresh`, `DirtyIsClosed` and `RequestsAreDelivered` are about behaviours in
which no request runs out of replans (`[]Converges`), because an exhausted request leaves
volatile formulas clean that it did not bring up to date. Nothing rules such a request out:
the limit of the code is 5 (`eval.rs:14306`), however many dynamic readers a workbook has.
What can be said for every limit is what exhaustion means. `ExhaustionTakesHints`: a request
that is given up has first gathered more than `MaxReplan` hints (`ManyHints`), pairs of a
dynamic reader and a dirty formula it met, because every repeated pass was stopped by a
dropped reader, which gave the request a hint it did not have (`Paid` counts them), and
every schedule, built, retained or restricted, obeys the hints there are.

Then about `RequestLedger`. `LedgerInv` adds `ScopesOK` to the checked properties: the marks and
bytes of the open scopes are nested, so that what a scope releases on its way out is
exactly what was reserved inside it, and the sum over the stack never has to be written.
`LedgerStep`, `PushStep`, `PopStep` reduce the actions to three shapes. Results:
`RetainedAccountedFor` (from `LedgerTypeCorrect`, no count underflows, `AccountsBalance`,
`AdmittedBeforeHeld` and `WorksWithinBudget`), `ScratchIsPaired`, `AssertionsAlwaysHold` and
`SuccessAlwaysClean`, all of them for any set of budgets. The last two have an invariant of
their own: what is retained is within the retained limit, so the refusal of
`mark_topology_edited` needs a mixed limit below it, and it is the only refusal after which a
request may go on.

**CycleUnitProofs**. For any number of members, any limits and any formulas of the
shapes modelled. `SettledIsExact` and `RetainedIsFixed` speak of the idle unit; the
invariant follows the loop through its passes. `SettleOK`: a member that the pass is done
with computes its value from the values of now and has recorded the reads of now, unless
it reads itself or will be found stale. So when nothing is stale and the recorded reads
form no cycle, the values are `Ground`. `MixOK`: in a full pass after another one each
member has computed its value from a mixture of values before and after the pass; if
these are equal, the mixture is the fixed point. A cancellation leaves nothing of this,
and the next request rebuilds it by a full pass, whatever the cells hold. Results:
`TypeCorrect`, `SettledValuesAreExact`, `RetainedCyclesAreFixed`, `CycleStateSurvives`.
`ExactValuesAreUnique` says that `Ground` has one solution, so that `SettledIsExact` names
*the* values and not some. It is an induction over the reads, in the form the provers can
follow: the set of members that differ would have a member that reads none of them.

`LoopStaysWithinBudget` (`LoopOK`) is about the defensive cap of the settle loop, N + 1
settle passes, behind which everything would be stamped #CIRC!. Counting how often a
branch can flip leads nowhere; what can be counted is *final* members. A set F is `Solid`
when its members are stamped, or up to date and read only members of F: no later run
changes them. `BudgetOK` says that some solid set has at least as many members as there
were settle passes, or one less while a member that reads only F is due (`Waiting`) or
none can become final any more (`Stuck`), in which case the pass ends with a cycle or with
nothing to settle. As F has at most N members, the cap is not reached.

**ActionJournalsProofs**. The refinement of `LinearHistory`, for any chunk, formulas,
values, limits and bounds. A replay does not bring the overlays back to what they were
(compaction has moved entries, evaluation has added some), so the invariant cannot say
that it does. It says that a journal is a `Bridge` between two sheets: of each cell and
layer its first entry knows what was there before, its last one what was there after, and
where it has no entry the two agree (`Spans`). `BridgesOK` puts a bridge between every two
neighbouring sheets of the history; `BookOK` says why what is left behind does not show: a
value cell without a delta entry has no computed entry and is in no journal. `Arrives`
joins the two. `ReplayFacts`, that the last write to a cell wins, is an induction over the
loop; it is made by taking the least number of writes for which it would fail
(`LeastElement`), and `LoopExists` shows in the same way that the recursive function is
one. Results: `JournalsAreBridges`, `NoResultIsStale` (`StoreOK`), `JournalsAreLinear`
(`ImplementsLinearHistory`), under `NeverBuries`: no edit compacts a chunk in which a delta
entry hides a result, now or after an undo. Evaluation and compaction are otherwise free.
`BuryingShowsResults` proves that the hypothesis is needed wherever it bites: from a state of
the invariant, an edit that compacts a chunk with a hidden result makes it show, in a value
cell the edit did not touch. The code does not prevent such an edit (section 3).

**EditHistoryProofs**. The other refinement of `LinearHistory`, for any cells, formulas,
values, limit and any number of events. The log has no stack of actions, only events with group numbers, and an undo finds
its batch as the last group. `HInv` says that there are positions `st` that cut the log
into as many segments as there are sheets in `past` (`Segments`): a segment is one group,
its compounds are balanced unless it is the last and still open (`Balanced`), and groups
increase from segment to segment. `PastBridges` says that the events of each segment lead from the sheet before it
to the sheet after it, `FutureBridges` the same of the batches kept for redo. For a log a
`Bridge` is a sequence of sheets, one per event: an event `Leads` from a sheet
to the next when its cell is there as the event says it was, so going back over a segment
from its last sheet gives the first, and going forward the last. `BookOK` says how
the overlays hang together: a cell with a formula has no delta entry, a cell without one
has no computed entry. The overlays are not what they were before an undo; they only
show it, whatever compaction and evaluation did. Loops over a batch are recursive
functions, and the inductions over them are made as above. Results, for a client that
keeps `grouped`, `redo_first` and `close_first` (`Careful`): `HistoryInvariant`,
`StepsAreActionsHolds`, `UndoAvailableHolds`; with `no_overwrite` besides:
`UndoRevertsHolds` and `LinearHistoryImplemented` (`ImplementsLinearHistory`). Each of the
four rules is needed, as the table under `EditHistory` shows, and the run has all four.

**Only model-checked**: liveness (`CallsReturn`, `RequestsEnd`), which the installed provers
do not reach; the properties of `Freshness` for formulas that spill.

## 6. Not modelled

Of the repository's 290 thousand lines of implementation most are code without state
between calls: several hundred worksheet functions, the interpreter, the parser, file
formats and three language bindings. What follows is what is left out and why.

* Structural edits: column edits of references (the same rules with the axes swapped),
  tables, sheets, spills and row visibility, and their undo, which `CHANGELOG.md` lists
  as incomplete. A failing inverse in the middle of an undo is therefore not reached.
* The store: compaction of computed overlays under `max_overlay_memory_bytes`; lanes,
  number formats, range views.
* Cycles: members that are names, volatile or dynamic references, NaN; static detection.
* Evaluation: blocked spills (only their bytes, in the ledger), names, formula edits
  between passes, `RecalcPlan`s that clients keep, delta collection, clocks and RAND.
* The ledger's admission preflight of graph mutations and the derivation of budgets from
  configuration; overflow of byte counts.
* The compression of formula families in the authority: its answers and its runs are
  used, its indexes are not modelled. When edge records are joined (triggers, byte
  budgets) is left out; `StructuralEdits` has them all joined or all single.
* `topo/pk.rs`, `csr_edges.rs`, `delta_edges.rs`: compiled only for tests and for the
  `legacy_oracle` feature. The interval tree appears as a set.
* Sessions and sheetport: sequential callers of the workbook. Reading sheetport showed
  that a blank nullable row hides the rows below it from the next baseline write in the
  `first_blank_row` layout, and that growing a table overwrites what is below it.
* Ingest: bulk construction from files. Interpreter, functions, parser: pure functions.
  Backends: I/O. Bindings: wrappers.

## 7. Plan

1. *Done*: change log, transactions, edit history, journals, evaluation pass, lookup
   cache, cycles, ledger, sheet chunks, reference adjuster and row edits; the theorems
   of section 5.
2. `Recalculation`, an abstract specification of evaluation (a request brings a set of
   formulas up to date in one step, or fails and leaves them dirty), and `Freshness`
   shown to implement it.
3. `SpillRegions`: reservation, commit and release of regions (`spill.rs`), blocked
   spills, and what a row edit does to them.
4. Undo of structural edits: the inverses that can fail.
5. Proofs: `Freshness` with spills.

Topological order and edge stores left the plan: production code does not use them.
