------------------------------ MODULE Freshness ------------------------------
(***************************************************************************)
(* Recalculation (formualizer-eval, engine/eval.rs and freshness.rs): one  *)
(* request, evaluate_all or evaluate_cell, is a loop of passes.  A pass    *)
(* takes the dirty and volatile formulas, orders them in layers, evaluates *)
(* the units of each layer and commits their results; it is followed by    *)
(* another one while formulas are left dirty.  Three things make the order *)
(* hard to know in advance: a dynamic reader (INDIRECT, OFFSET) names its  *)
(* target only when it is evaluated, an array result spills into children  *)
(* that no static edge ties to it, and the results of a layer may wait in  *)
(* a write buffer.                                                         *)
(*                                                                         *)
(* Formulas do not change and do not form cycles; a spill is never         *)
(* blocked.  A cell is a name: an input, a formula, or a child of a spill. *)
(***************************************************************************)
EXTENDS Naturals, FiniteSets

CONSTANTS
  Inputs, Formulas, Children,   \* the cells
  Values, Empty,                \* what inputs hold; a cell without a value
  Volatile, Dynamic,            \* re-evaluated by every request; INDIRECT, OFFSET
  Arrays,                       \* formulas whose result may be an array
  Compressed,                   \* formulas that read a compressed range
  Runs,                         \* sets of formulas of one family, evaluated as a unit
  Static(_),                    \* the cells a formula names
  Target(_, _),                 \* the cells a dynamic reader finds in a store
  Result(_, _),                 \* what a formula computes in a store: a record of
                                \* its value and spill, a function on children
  Targets,                      \* the cells clients ask for one by one
  MaxReplan,                    \* replans before a request gives up
  Rules                         \* what clients do not do; see Begin and Abort

ASSUME DynamicAssumption == Dynamic \subseteq Volatile /\ Volatile \subseteq Formulas
ASSUME StaticAssumption == \A v \in Formulas : Static(v) \subseteq Inputs \cup Formulas \cup Children
ASSUME RulesAssumption == Rules \subseteq {"settled_spills", "first_pass_failures"}
ASSUME CellsAssumption ==
  Inputs \cap Formulas = {} /\ Inputs \cap Children = {} /\ Formulas \cap Children = {}
ASSUME TargetsAssumption ==
  Targets \subseteq Formulas \ {"none", "all", "failed", "exhausted"}
ASSUME ReplanAssumption == MaxReplan \in Nat

VARIABLES
  store,       \* cell -> value: what a read sees
  extent,      \* anchor -> children its last array covers
  dirty,       \* the formulas flagged dirty
  observed,    \* dynamic reader -> what its last published value read
  cached,      \* candidate sets with a retained schedule of this revision
  phase,       \* idle, plan, walk (between units), commit (within one)
  request,     \* its goal, how often it replanned, the hints it gathered
  pass,        \* the schedule and what became of it
  batch,       \* the unit under commit
  buffer,      \* formula -> value computed but not written yet
  unflushed,   \* formulas noted as committed with their value in the buffer
  outcome      \* how the last request ended, until the next edit

vars == <<store, extent, dirty, observed, cached, phase, request, pass, batch,
          buffer, unflushed, outcome>>

Cells == Inputs \cup Formulas \cup Children
None == [c \in {} |-> Empty]
NoRequest == [goal |-> "none", replans |-> 0, hints |-> [v \in Dynamic |-> {}]]
NoPass == [candidates |-> {}, edges |-> {}, todo |-> {}, layer |-> {},
           mode |-> "direct", previous |-> {}, committed |-> {},
           dropped |-> {}, hadSpills |-> FALSE]
NoBatch == [left |-> {}, results |-> None, guarded |-> FALSE, drop |-> {}]

-------------------------------------------------------------------------------
(* Reads, dependents and the dirty set. *)

\* What v reads in s: RecordingContext logs it for a dynamic reader.
Reads(v, s) == Static(v) \cup (IF v \in Dynamic THEN Target(v, s) ELSE {})

Readers(cs) == {v \in Formulas : Static(v) \cap cs # {}}

\* Store::dependents: the transitive static dependents of each cell.
DependentsOf ==
  [c \in Cells |->
     LET closed == {S \in SUBSET Formulas :
                      Readers({c}) \subseteq S /\ Readers(S) \subseteq S}
     IN {v \in Formulas : \A S \in closed : v \in S}]

Dependents(cs) == UNION {DependentsOf[c] : c \in cs}

HasSpills == \E a \in Formulas : extent[a] # {}

\* spill_anchors_in_region
AnchorsOver(cs) == {a \in Formulas : extent[a] \cap cs # {}}

\* freshness_dirty_reads: what v read that is dirty or, in unwritten, still
\* waits in the buffer.
DirtyReads(v, reads, unwritten) ==
  ((reads \cap Formulas \cap (dirty \cup unwritten)) \cup (AnchorsOver(reads) \cap dirty)) \ {v}

Overlaid(s, b) == [c \in Cells |-> IF c \in DOMAIN b THEN b[c] ELSE s[c]]

\* The map f with x at v.
With(f, v, x) == [u \in DOMAIN f \cup {v} |-> IF u = v THEN x ELSE f[u]]

-------------------------------------------------------------------------------
(* Plans. *)

HasHints == \E v \in Dynamic : request.hints[v] # {}

\* DynamicRefVirtualDepProvider: evaluate the reader against the current,
\* possibly stale, store; only for a reader without observed reads.
PreProbe(v) == IF v \in Dynamic \ DOMAIN observed THEN Reads(v, store) ELSE {}

Observed(v) == IF v \in DOMAIN observed THEN observed[v] ELSE {}

Hints(v) == IF v \in Dynamic THEN request.hints[v] ELSE {}

\* authority_demand_subgraph: the formulas the value of t depends on as far
\* as the engine can tell, clean ones included; a dirty anchor whose extent
\* meets a static read is one of them.
DemandStep(v) ==
  (Static(v) \cup Observed(v) \cup PreProbe(v) \cup Hints(v)
     \cup (AnchorsOver(Static(v)) \cap dirty)) \cap Formulas

Demand(t) ==
  LET closed == {S \in SUBSET Formulas : t \in S /\ \A v \in S : DemandStep(v) \subseteq S}
  IN {v \in Formulas : \A S \in closed : v \in S}

\* get_evaluation_vertices, or the part of the demand that needs evaluation.
Candidates ==
  IF request.goal = "all" THEN dirty \cup Volatile
  ELSE Demand(request.goal) \cap (dirty \cup Volatile)

\* freshness_extent_hints; a demand walk only knows the dirty anchors.
ExtentEdges(C) ==
  {e \in C \X C : e[1] # e[2] /\ extent[e[1]] \cap Static(e[2]) # {}
                  /\ (request.goal # "all" => e[1] \in dirty)}

\* create_authority_schedule: edges of the store and observed reads...
AuthorityEdges(C) ==
  {e \in C \X C : e[1] # e[2] /\ e[1] \in Static(e[2]) \cup Observed(e[2])}

\* Mutant of HintEdges: the hints of the request are not merged.
HintEdgesUnmerged(C) ==
  {e \in C \X C : e[1] # e[2] /\ e[1] \in PreProbe(e[2])}

\* ...and the hints that go with them.
HintEdges(C) ==
  {e \in C \X C : e[1] # e[2] /\ e[1] \in PreProbe(e[2]) \cup Hints(e[2])}

\* can_use_static_schedule_cache
CacheEligible(C) ==
  request.goal = "all" /\ ~HasHints /\ C \cap Dynamic \subseteq DOMAIN observed

Unordered(S, edges) == {v \in S : \A u \in S : <<u, v>> \notin edges}

\* A retained schedule of base serves C: the same candidates, or
\* (schedule_from_base) more.  How large a base has to be, and how large a
\* request, is left open.
Serves(base, C) == CacheEligible(C) /\ base \in cached /\ C \subseteq base

\* Schedule::restrict: what an earlier layer of base holds stays ahead.
BaseOrder(base, C) ==
  LET edges == AuthorityEdges(base)
      layers[n \in 0..Cardinality(base)] ==
        IF n = 0 THEN {}
        ELSE LET above == layers[n - 1] IN above \cup Unordered(base \ above, edges)
  IN UNION {(C \cap layers[n]) \X (C \ layers[n]) : n \in DOMAIN layers}

\* Mutant of Settled: volatile formulas are flagged without their dependents.
SettledAlone(d) == d \cup Volatile

\* The redirty at the end of a request that succeeds.
Settled(d) == d \cup Volatile \cup Dependents(Volatile)

\* The request ends and leaves d dirty.
End(d, how) ==
  /\ dirty' = d
  /\ phase' = "idle"
  /\ outcome' = how
  /\ request' = NoRequest
  /\ pass' = NoPass
  /\ batch' = NoBatch
  /\ buffer' = None
  /\ unflushed' = {}

-------------------------------------------------------------------------------
(* Actions. *)

Init ==
  /\ store \in {Overlaid([c \in Cells |-> Empty], i) : i \in [Inputs -> Values]}
  /\ extent = [v \in Formulas |-> {}]
  /\ dirty = Formulas
  /\ observed = None
  /\ cached = {}
  /\ phase = "idle"
  /\ request = NoRequest
  /\ pass = NoPass
  /\ batch = NoBatch
  /\ buffer = None
  /\ unflushed = {}
  /\ outcome = "none"

\* A client writes an input: its static dependents become dirty.
Edit(i, val) ==
  /\ phase = "idle"
  /\ store[i] # val
  /\ store' = [store EXCEPT ![i] = val]
  /\ dirty' = dirty \cup DependentsOf[i]
  /\ outcome' = "none"
  /\ UNCHANGED <<extent, observed, cached, phase, request, pass, batch, buffer, unflushed>>

\* begin_evaluation_request.  Under the rule "settled_spills" a client asks
\* for a single cell only while no array formula is dirty.
Begin(goal) ==
  /\ phase = "idle"
  /\ goal \in Targets /\ "settled_spills" \in Rules => Arrays \cap dirty = {}
  /\ phase' = "plan"
  /\ request' = [NoRequest EXCEPT !.goal = goal]
  /\ outcome' = "none"
  /\ UNCHANGED <<store, extent, dirty, observed, cached, pass, batch, buffer, unflushed>>

\* Nothing needs evaluation.
NoWork ==
  /\ phase = "plan"
  /\ Candidates = {}
  /\ End(Settled(dirty), request.goal)
  /\ UNCHANGED <<store, extent, observed, cached>>

\* create_evaluation_schedule and freshness_begin_pass.  base is a retained
\* schedule, which was built when the pass had no hints, or {}: there may be
\* none, or it was evicted since.
Plan(base) ==
  LET C == Candidates
      hints == HintEdges(C) \cup ExtentEdges(C)
      reused == base # {}
  IN /\ phase = "plan"
     /\ C # {}
     /\ reused => Serves(base, C)
     /\ phase' = "walk"
     /\ pass' = [NoPass EXCEPT !.candidates = C,
                               !.edges = AuthorityEdges(C) \cup
                                         (IF reused THEN BaseOrder(base, C) ELSE hints),
                               !.todo = C,
                               !.hadSpills = HasSpills]
     /\ cached' = IF CacheEligible(C) /\ (reused \/ hints = {}) THEN cached \cup {C} ELSE cached
     /\ UNCHANGED <<store, extent, dirty, observed, request, batch, buffer, unflushed, outcome>>

\* The next layer; freshness_stop_after_unit ends the walk once a reader was
\* dropped.  A wide layer buffers its writes.
NextLayer(mode) ==
  LET layer == Unordered(pass.todo, pass.edges)
  IN /\ phase = "walk"
     /\ pass.layer = {} /\ pass.todo # {} /\ pass.dropped = {}
     /\ pass' = [pass EXCEPT !.layer = layer, !.todo = @ \ layer, !.mode = mode,
                             !.previous = {}]
     /\ UNCHANGED <<store, extent, dirty, observed, cached, phase, request, batch,
                    buffer, unflushed, outcome>>

\* The members U of the layer are evaluated in s while the values of
\* unwritten are not in it.  Members of a batch that may touch a spill leave
\* the dirty set before the first of them commits
\* (freshness_begin_batch_commit), so that a redirty by one survives the
\* commit of another; drop are those that will not commit.
Evaluate(U, s, unwritten, parallel) ==
  LET result(v) == [out |-> Result(v, s), reads |-> Reads(v, s),
                    stale |-> IF v \in Dynamic THEN DirtyReads(v, Reads(v, s), unwritten)
                              ELSE {}]
      results == [v \in U |-> result(v)]
      stale == {v \in U : results[v].stale # {}}
      drop == IF parallel /\ stale # {} THEN U ELSE stale
      guarded == /\ Cardinality(U) > 1
                 /\ \E v \in U : DOMAIN results[v].out.spill # {} \/ extent[v] # {}
      early == IF guarded THEN U \ drop ELSE {}
  IN /\ batch' = [left |-> U, results |-> results, guarded |-> guarded, drop |-> drop]
     /\ pass' = [pass EXCEPT !.layer = @ \ U, !.previous = U,
                             !.mode = IF parallel THEN "parallel" ELSE @,
                             !.committed = @ \cup early]
     /\ dirty' = dirty \ early
     /\ store' = s
     /\ unflushed' = unwritten
     /\ phase' = "commit"
     /\ UNCHANGED <<extent, observed, cached, request, outcome>>

\* evaluate_layer_units_until: one cell or one run of the layer.  A reader
\* of a compressed range flushes the buffer first.
EvaluateUnit(U) ==
  LET flush == U \cap Compressed # {}
      waiting == IF flush THEN None ELSE buffer
  IN /\ phase = "walk" /\ pass.mode # "parallel"
     /\ U # {} /\ U \subseteq pass.layer
     /\ buffer' = waiting
     /\ Evaluate(U, IF flush THEN Overlaid(store, buffer) ELSE store,
                 IF waiting = None THEN {} ELSE unflushed \cup pass.previous, FALSE)

\* evaluate_layer_parallel_effects: what is left of a layer, in two phases,
\* the readers of compressed ranges last.
EvaluateGroup ==
  LET first == pass.layer \ Compressed
  IN /\ phase = "walk"
     /\ pass.layer # {}
     /\ pass.mode = "parallel" \/ Cardinality(pass.layer) > 1
     /\ buffer' = None
     /\ Evaluate(IF first # {} THEN first ELSE pass.layer, Overlaid(store, buffer), {}, TRUE)

\* A slice of the layer ends (the probe of evaluate_layer_parallel).
FlushSlice ==
  /\ phase = "walk" /\ buffer # None
  /\ store' = Overlaid(store, buffer)
  /\ buffer' = None
  /\ unflushed' = {}
  /\ pass' = [pass EXCEPT !.previous = {}]
  /\ UNCHANGED <<extent, dirty, observed, cached, phase, request, batch, outcome>>

\* freshness_batch_redirtied and freshness_keep_redirtied: v published a value
\* computed before the spill it reads.
KeptDirty(v) == IF batch.guarded THEN dirty \cap {v} ELSE {}

\* apply_spill_clear: after a flush the old children and the anchor's own
\* cell are emptied.
SpillCleared(v) ==
  LET s == Overlaid(store, buffer)
  IN IF extent[v] = {} THEN s
     ELSE [c \in Cells |-> IF c \in extent[v] \cup {v} THEN Empty ELSE s[c]]

\* freshness_mark_committed publishes the reads of a dynamic reader; a change
\* of them is a new revision, under which no schedule is retained.
Observe(v) ==
  LET reads == batch.results[v].reads
      same == v \in DOMAIN observed /\ observed[v] = reads
  IN IF v \in Dynamic /\ ~same
     THEN observed' = With(observed, v, reads) /\ cached' = {}
     ELSE UNCHANGED <<observed, cached>>

\* The member that commits next: arrays first in a parallel group.
MayCommit(v) ==
  /\ phase = "commit"
  /\ v \in batch.left
  /\ pass.mode = "parallel" =>
       \/ DOMAIN batch.results[v].out.spill # {}
       \/ \A u \in batch.left : DOMAIN batch.results[u].out.spill = {}

\* v is done, with s written and w waiting; a layer and a parallel group end
\* with a flush.
Done(v, s, w) ==
  LET last == batch.left = {v}
      flush == last /\ (pass.mode = "parallel" \/ pass.layer = {})
  IN /\ store' = IF flush THEN Overlaid(s, w) ELSE s
     /\ buffer' = IF flush THEN None ELSE w
     /\ unflushed' = IF flush THEN {} ELSE unflushed
     /\ batch' = IF last THEN NoBatch ELSE [batch EXCEPT !.left = @ \ {v}]
     /\ phase' = IF last THEN "walk" ELSE "commit"

\* freshness_drop_stale: nothing is published, v stays dirty, what it read
\* becomes a hint of the request and the walk stops after this layer.
DropStale(v) ==
  /\ MayCommit(v)
  /\ v \in batch.drop
  /\ pass' = [pass EXCEPT !.dropped = @ \cup {v}]
  /\ request' = IF v \in Dynamic
                THEN [request EXCEPT !.hints[v] = @ \cup batch.results[v].stale]
                ELSE request
  /\ Done(v, store, buffer)
  /\ UNCHANGED <<extent, dirty, observed, cached, outcome>>

\* plan_vertex_effects and its effects: v leaves the dirty set; a spill is
\* cleared and written through the graph, which makes the static dependents
\* of its old and new children dirty; the value is written or buffered.
Commit(v) ==
  LET out == batch.results[v].out
      new == DOMAIN out.spill
      spilled == [c \in Cells |-> CASE c \in new -> out.spill[c]
                                    [] c = v /\ c \notin new /\ new # {} -> out.value
                                    [] OTHER -> SpillCleared(v)[c]]
      touched == extent[v] \cup new # {}
      s == IF touched THEN spilled ELSE store
      w == IF touched THEN None ELSE buffer
  IN /\ MayCommit(v)
     /\ v \notin batch.drop
     /\ extent' = [extent EXCEPT ![v] = new]
     /\ dirty' = (dirty \ {v}) \cup Dependents(extent[v] \cup new) \cup KeptDirty(v)
     /\ pass' = [pass EXCEPT !.committed = @ \cup {v}]
     /\ Observe(v)
     /\ IF pass.mode = "direct"
        THEN Done(v, [s EXCEPT ![v] = out.value], w)
        ELSE Done(v, s, With(w, v, out.value))
     /\ UNCHANGED <<request, outcome>>

\* Mutant of Redirtied: the flags survive but are not propagated.
RedirtiedAlone == {}

\* freshness_finish_pass keeps what was dropped, not reached or made dirty
\* after its commit, and adds the dependents of the last, which may have run
\* on an old value later in the pass.
Redirtied ==
  IF pass.hadSpills \/ HasSpills THEN pass.committed \cap dirty ELSE {}

LeftDirty ==
  LET clear == pass.candidates \ (pass.todo \cup pass.dropped \cup pass.committed)
  IN (dirty \ clear) \cup Dependents(Redirtied)

\* Mutant of MustReplan: a targeted request is one pass.
MustReplanWhole == request.goal = "all" /\ LeftDirty # {}

\* A targeted request answers for its own candidates only.
MustReplan ==
  IF request.goal = "all" THEN LeftDirty # {} ELSE LeftDirty \cap pass.candidates # {}

PassOver ==
  phase = "walk" /\ pass.layer = {} /\ (pass.todo = {} \/ pass.dropped # {})

\* Another pass, or replan_exhausted_error after MaxReplan of them.
Replan ==
  /\ PassOver /\ MustReplan
  /\ IF request.replans < MaxReplan
     THEN /\ dirty' = LeftDirty
          /\ phase' = "plan"
          /\ request' = [request EXCEPT !.replans = @ + 1]
          /\ pass' = NoPass
          /\ UNCHANGED <<batch, buffer, unflushed, outcome>>
     ELSE End(LeftDirty, "exhausted")
  /\ UNCHANGED <<store, extent, observed, cached>>

Finish ==
  /\ PassOver /\ ~MustReplan
  /\ End(Settled(LeftDirty), request.goal)
  /\ UNCHANGED <<store, extent, observed, cached>>

\* freshness_abort_pass: what the pass took out of the dirty set goes back.
Restored == dirty \cup pass.committed

MayFail == "first_pass_failures" \in Rules => request.replans = 0

\* The request fails: it is cancelled or over budget while planning, between
\* two units or after evaluating one, or the effects of a member cannot be
\* planned.  What is buffered is written, unless the flush fails too.  Under
\* the rule "first_pass_failures" only the first pass of a request fails.
Abort(flushed) ==
  /\ phase # "idle"
  /\ MayFail
  /\ store' = IF flushed THEN Overlaid(store, buffer) ELSE store
  /\ End(Restored, "failed")
  /\ UNCHANGED <<extent, observed, cached>>

\* commit_spill_and_mirror refuses the new region after the old one was
\* cleared and v marked committed.
SpillCommitFails(v) ==
  /\ MayCommit(v)
  /\ v \notin batch.drop
  /\ DOMAIN batch.results[v].out.spill # {}
  /\ MayFail
  /\ store' = SpillCleared(v)
  /\ extent' = [extent EXCEPT ![v] = {}]
  /\ Observe(v)
  /\ End(Restored \cup {v} \cup Dependents(extent[v]), "failed")

Next ==
  \/ \E i \in Inputs, val \in Values : Edit(i, val)
  \/ \E goal \in {"all"} \cup Targets : Begin(goal)
  \/ NoWork
  \/ \E base \in {{}} \cup cached : Plan(base)
  \/ \E mode \in {"direct", "buffered"} : NextLayer(mode)
  \/ \E U \in {{v} : v \in Formulas} \cup Runs : EvaluateUnit(U)
  \/ EvaluateGroup
  \/ FlushSlice
  \/ \E v \in Formulas : DropStale(v) \/ Commit(v) \/ SpillCommitFails(v)
  \/ Replan
  \/ Finish
  \/ \E flushed \in BOOLEAN : Abort(flushed)

Spec == Init /\ [][Next]_vars

-------------------------------------------------------------------------------
(* Properties. *)

\* Types of all variables.
TypeOK ==
  /\ store \in [Cells -> Values \cup {Empty}]
  /\ extent \in [Formulas -> SUBSET Children]
  /\ dirty \subseteq Formulas
  /\ DOMAIN observed \subseteq Dynamic
  /\ \A v \in DOMAIN observed : observed[v] \subseteq Cells
  /\ cached \subseteq SUBSET Formulas
  /\ phase \in {"idle", "plan", "walk", "commit"}
  /\ request.goal \in {"none", "all"} \cup Targets
  /\ request.replans \in 0 .. MaxReplan
  /\ request.hints \in [Dynamic -> SUBSET Formulas]
  /\ DOMAIN buffer \subseteq Formulas
  /\ unflushed \subseteq Formulas
  /\ outcome \in {"none", "all", "failed", "exhausted"} \cup Targets

\* The formula shows what it computes from the cells as they are now.
Fresh(v) ==
  LET out == Result(v, store)
  IN /\ store[v] = out.value
     /\ extent[v] = DOMAIN out.spill
     /\ \A c \in extent[v] : store[c] = out.spill[c]

\* Between requests a formula that is not flagged dirty is fresh, whatever
\* was edited, evaluated or aborted before: nothing else would ever make a
\* later request recompute it (commit-time clearing, freshness.rs).
CleanIsFresh == phase = "idle" => \A v \in Formulas \ dirty : Fresh(v)

\* After evaluate_all returns without an error every formula of the workbook
\* is fresh, and no cell keeps a value of a spill that is gone.
ExactWhenDone ==
  outcome = "all" =>
    /\ \A v \in Formulas : Fresh(v)
    /\ \A c \in Children : store[c] # Empty => \E a \in Formulas : c \in extent[a]

\* Between requests the static dependents of a dirty formula are dirty, so a
\* targeted request cannot take a reader of something dirty for up to date.
DirtyClosed == phase = "idle" => Dependents(dirty) \subseteq dirty

\* The replan loop ends before its limit: no request of an acyclic workbook
\* fails with "did not converge" (replan_exhausted_error).
Converges == outcome # "exhausted"

\* Passes are well formed and few: the variables have their types, and a
\* request is done before its replans are used up.
PassesOK == TypeOK /\ Converges

\* After evaluate_cell(t) the formulas that the value of t is computed from
\* are fresh: those it reads, and the anchors of the children it reads.
UpToDate(t) ==
  LET step(v) == {u \in Formulas : \/ u \in Reads(v, store)
                                   \/ DOMAIN Result(u, store).spill \cap Reads(v, store) # {}}
      closed == {S \in SUBSET Formulas : t \in S /\ \A v \in S : step(v) \subseteq S}
  IN \A v \in Formulas : (\A S \in closed : v \in S) => Fresh(v)

\* evaluate_cell brings its target up to date.
TargetUpToDate == outcome \in Targets => UpToDate(outcome)

\* A request delivers what it was asked for: every formula after a full
\* recalculation, the target after a targeted one.
RequestsDeliver == ExactWhenDone /\ TargetUpToDate

===============================================================================
