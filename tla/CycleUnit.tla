------------------------------ MODULE CycleUnit ------------------------------
(***************************************************************************)
(* One strongly connected set of formulas under CycleDetection::Runtime    *)
(* (Engine::evaluate_scc_unit, analyze_live_graph, values_converged and    *)
(* the bookkeeping of retained cycles around a request).                   *)
(*                                                                         *)
(* The members are run in passes; each run records which members it read.  *)
(* Recorded reads that form no cycle are settled: who read a value before  *)
(* it changed runs again.  A cycle of reads is stamped #CIRC! (policy      *)
(* "error"), or the members run again until they repeat their values       *)
(* ("iterate").  The unit runs on one thread; a cancellation is only seen   *)
(* between passes.                                                         *)
(*                                                                         *)
(* Any formula can be a member of such a set, since a branch that is never *)
(* taken still makes a dependency.  Members are cells in one column, in    *)
(* row order; members that are defined names, volatile or dynamic          *)
(* references and NaN values are left out.                                 *)
(***************************************************************************)
EXTENDS Integers, FiniteSets, Sequences

CONSTANTS
  N,              \* number of members
  Workbooks,      \* the formulas to give the members
  Policies,       \* CyclePolicy: subset of {"error", "iterate"}
  MaxIterations,  \* max_iterations: full passes in a request
  MaxChange,      \* max_change: the tolerance of convergence
  Top,            \* largest number a formula computes
  Empty, Circ,    \* the empty value and the error #CIRC!
  Array,          \* an array result
  MaxEvents       \* bound: edits, cancellations and failures in a behaviour

ASSUME SizesAssumption ==
  {N, MaxIterations, Top} \subseteq Nat \ {0} /\ {MaxChange, MaxEvents} \subseteq Nat

Members == 1..N
Numbers == 0..Top
Values == Numbers \cup {Empty, Circ}

\* IF(test, yes, no): the test reads the input cell or member f.on, and the
\* branch taken reads at most one member.  A formula that spilled before is an
\* anchor, which is not evaluated.
Term == [op : {"const"}, of : Numbers]
        \cup [op : {"ref", "next", "flip", "array"}, of : Members]
Anchor == [op : {"anchor"}, of : Members]
Formula == [test : {"none", "input", "positive", "iserror"}, on : Members,
            yes : Term \cup Anchor, no : Term]

ASSUME WorkbooksAssumption == Workbooks \subseteq [Members -> Formula]
ASSUME ValuesAssumption ==
  {Empty, Circ, Array} \cap Numbers = {} /\ Array \notin {Empty, Circ} /\ Empty # Circ
ASSUME PoliciesAssumption == Policies \subseteq {"error", "iterate"}

VARIABLES
  policy,     \* the policy of this engine
  formula,    \* member -> formula
  input,      \* a cell outside the set that formulas test
  value,      \* member -> committed value; last_value of the task
  dirty,      \* the members are scheduled for the next request
  phase,      \* where the request is
  excluded,   \* members stamped in this task
  reads,      \* out_edges: member -> what it read when it last ran
  changed,    \* members whose value changed in the last pass
  todo,       \* members this pass has yet to run
  order,      \* pairs <<t, i>> of members that it runs in this order
  ran,        \* members it ran, in order: pos
  passes,     \* passes so far
  settles,    \* settle_passes
  prev,       \* values before the last full pass, or <<>>
  iterating,  \* a cycle was witnessed under "iterate"
  how,        \* how the loop ended
  retained,   \* the members are in retained_scc_members
  persisted,  \* iterative_state_values: member -> value, Empty for none
  events,     \* bound counter
  last        \* history: the values when the last request that iterated ended

vars == <<policy, formula, input, value, dirty, phase, excluded, reads, changed, todo, order,
          ran, passes, settles, prev, iterating, how, retained, persisted, events, last>>

config == <<policy, formula>>
kept == <<input, dirty, retained, persisted, events, last>>

-----------------------------------------------------------------------------
(* Formulas. *)

Number(v) == IF v = Empty THEN 0 ELSE v

\* A term over values v; an error of the operand propagates.
TermValue(term, v) ==
  LET x == v[term.of]
      n == Number(x)
  IN CASE term.op = "const" -> term.of
       [] term.op = "array" -> Array
       [] term.op \in {"ref", "next", "flip"} /\ x = Circ -> Circ
       [] term.op = "ref" /\ x # Circ -> n
       [] term.op = "next" /\ x # Circ -> IF n < Top THEN n + 1 ELSE Top
       [] term.op = "flip" /\ x # Circ -> IF n = 0 THEN 1 ELSE 0

TermReads(term) == IF term.op \in {"ref", "next", "flip"} THEN {term.of} ELSE {}

\* The branch a formula takes; "fail" when its test is an error.
Taken(f, v) ==
  CASE f.test = "none" -> "yes"
    [] f.test = "input" -> IF input = 1 THEN "yes" ELSE "no"
    [] f.test = "iserror" -> IF v[f.on] = Circ THEN "yes" ELSE "no"
    [] f.test = "positive" -> IF v[f.on] = Circ THEN "fail"
                              ELSE IF Number(v[f.on]) > 0 THEN "yes" ELSE "no"

Branch(f, b) == IF b = "yes" THEN f.yes ELSE f.no

\* evaluate_vertex_recorded: the value of member i over v, and what it read.
Result(i, v) ==
  LET f == formula[i]
      b == Taken(f, v)
  IN IF b = "fail" THEN Circ ELSE TermValue(Branch(f, b), v)

Reads(i, v) ==
  LET f == formula[i]
      b == Taken(f, v)
  IN (IF f.test \in {"positive", "iserror"} THEN {f.on} ELSE {})
     \cup (IF b = "fail" THEN {} ELSE TermReads(Branch(f, b)))

\* A formula that spilled before: its vertex is a FormulaArray.
IsAnchor(i) == formula[i].yes.op = "anchor"

-----------------------------------------------------------------------------
(* The live graph. *)

\* out_edges of the members that were not stamped.
LiveEdges == {e \in Members \X Members : e[1] \notin excluded /\ e[2] \in reads[e[1]]}

\* What members of S read.
Successors(E, S) == {t \in Members : \E i \in S : <<i, t>> \in E}

Closed(E) == {S \in SUBSET Members : Successors(E, S) \subseteq S}

\* What i reads, directly or through others.
Reached(E, i) == {t \in Members : \A S \in Closed(E) : Successors(E, {i}) \subseteq S => t \in S}

\* in_cycle: members that reach themselves.
InCycle(E) ==
  LET closed == Closed(E)
  IN {i \in Members : \A S \in closed : Successors(E, {i}) \subseteq S => i \in S}

\* topo: a member comes after everything it reads.  (analyze_live_graph has
\* one such order; the order of members that do not reach each other, and of
\* the members of a cycle, is left open.)
Topo(E) ==
  {e \in Members \X Members : e[1] \in Reached(E, e[2]) /\ e[2] \notin Reached(E, e[1])}

-----------------------------------------------------------------------------
(* Passes. *)

AfterPass == IF how = "stamped" THEN "ending" ELSE "classify"

\* Begin a pass over the members of S, in the order before.
BeginPass(S, before) ==
  /\ todo' = S
  /\ order' = before
  /\ ran' = <<>>
  /\ changed' = {}
  /\ passes' = passes + 1
  /\ phase' = IF S = {} THEN AfterPass ELSE "pass"

\* run_member: evaluate, commit, record; an array result is stamped.
RunMember(i) ==
  LET r == Result(i, value)
      v == IF r = Array THEN Circ ELSE r
  IN /\ phase = "pass"
     /\ i \in todo
     /\ \A t \in todo : <<t, i>> \notin order
     /\ value' = [value EXCEPT ![i] = v]
     /\ reads' = [reads EXCEPT ![i] = Reads(i, value)]
     /\ changed' = IF v # value[i] THEN changed \cup {i} ELSE changed
     /\ excluded' = IF r = Array THEN excluded \cup {i} ELSE excluded
     /\ ran' = Append(ran, i)
     /\ todo' = todo \ {i}
     /\ phase' = IF todo = {i} THEN AfterPass ELSE "pass"
     /\ UNCHANGED <<config, kept, order, passes, settles, prev, iterating, how>>

\* Member order: cells ascending.
FullOrder == {e \in Members \X Members : e[1] < e[2]}

\* A full pass runs every member that was not stamped.
FullPass == BeginPass(Members \ excluded, FullOrder)

Ran == {ran[a] : a \in DOMAIN ran}
Before(i, t) == \E a, b \in DOMAIN ran : a < b /\ ran[a] = i /\ ran[b] = t

\* Mutant of Stale: only members of the last pass can be stale.
StaleOfPass ==
  {i \in Members \ excluded : \E t \in reads[i] : t \in changed /\ Before(i, t)}

\* Readers that read t before it changed in the last pass.
Stale ==
  {i \in Members \ excluded :
     \E t \in reads[i] : t \in changed /\ (i \notin Ran \/ Before(i, t))}

Stamped(S) == [i \in Members |-> IF i \in S THEN Circ ELSE value[i]]

\* values_converged
Converged(a, b) ==
  IF a \in Numbers /\ b \in Numbers
  THEN (IF a < b THEN b - a ELSE a - b) < MaxChange
  ELSE a = b

Live == InCycle(LiveEdges)
Classifying == phase = "classify"

\* The state of the settle loop; it goes with the task.
loop == <<reads, changed, todo, order, ran, passes, settles, prev>>

NoLoop ==
  /\ reads' = [i \in Members |-> {}]
  /\ changed' = {}
  /\ todo' = {}
  /\ order' = {}
  /\ ran' = <<>>
  /\ passes' = 0
  /\ settles' = 0
  /\ prev' = <<>>

-----------------------------------------------------------------------------
(* A request. *)

\* A request schedules the unit if it is dirty.  State lost to a structural
\* edit is seeded again, and spill anchors are stamped.
Start ==
  /\ phase = "idle"
  /\ dirty
  /\ phase' = "first"
  /\ excluded' = {i \in Members : IsAnchor(i)}
  /\ value' = [i \in Members |-> IF IsAnchor(i) THEN Circ
                                 ELSE IF value[i] = Empty THEN persisted[i] ELSE value[i]]
  /\ iterating' = FALSE
  /\ how' = "none"
  /\ UNCHANGED <<config, kept, loop>>

FirstPass ==
  /\ phase = "first"
  /\ FullPass
  /\ UNCHANGED <<config, kept, value, excluded, reads, settles, prev, iterating, how>>

\* A live cycle under policy Error: its members are stamped ...
StampCycle ==
  /\ Classifying /\ Live # {} /\ policy = "error"
  /\ value' = Stamped(Live \ excluded)
  /\ excluded' = excluded \cup Live
  /\ todo' = Members \ (excluded \cup Live)
  /\ order' = Topo(LiveEdges)
  /\ how' = "stamped"
  /\ phase' = "last"
  /\ UNCHANGED <<config, kept, reads, changed, ran, passes, settles, prev, iterating>>

\* ... and the others run once more, in the order of the reads before.
LastPass ==
  /\ phase = "last"
  /\ BeginPass(todo, order)
  /\ UNCHANGED <<config, kept, value, excluded, reads, settles, prev, iterating, how>>

\* A live cycle under policy Iterate: stop when every member repeated its
\* value, or when the passes are used up ...
AllConverged ==
  prev # <<>> /\ \A i \in Members \ excluded : Converged(prev[i], value[i])

\* Every member did so exactly.
Exact == \A i \in Members \ excluded :
           prev[i] \in Numbers /\ value[i] \in Numbers => prev[i] = value[i]

\* Mutant of StopIterating: the passes are not counted.
StopConverged ==
  /\ Classifying /\ Live # {} /\ policy = "iterate"
  /\ AllConverged
  /\ iterating' = TRUE
  /\ how' = IF Exact THEN "exact" ELSE "converged"
  /\ phase' = "ending"
  /\ UNCHANGED <<config, kept, value, excluded, loop>>

StopIterating ==
  /\ Classifying /\ Live # {} /\ policy = "iterate"
  /\ AllConverged \/ passes >= MaxIterations
  /\ iterating' = TRUE
  /\ how' = IF ~AllConverged THEN "capped" ELSE IF Exact THEN "exact" ELSE "converged"
  /\ phase' = "ending"
  /\ UNCHANGED <<config, kept, value, excluded, loop>>

\* ... or run them all again.
WantsIteration ==
  Classifying /\ Live # {} /\ policy = "iterate" /\ ~AllConverged /\ passes < MaxIterations

Iterate ==
  /\ WantsIteration
  /\ iterating' = TRUE
  /\ prev' = value
  /\ FullPass
  /\ UNCHANGED <<config, kept, value, excluded, reads, settles, how>>

\* No live cycle: run the stale readers, or be done.
WantsSettling == Classifying /\ Live = {} /\ Stale # {}

\* Mutant of OverBudget: one pass and one settle pass per other member.
OverBudgetTight == 1 + settles >= N - 1

\* More settling than members can only be a mistake: everything is stamped.
OverBudget == 1 + settles >= N + 2

Settle ==
  /\ WantsSettling
  /\ IF OverBudget
     THEN /\ value' = Stamped(Members \ excluded)
          /\ excluded' = Members
          /\ how' = "over"
          /\ phase' = "ending"
          /\ UNCHANGED loop
     ELSE /\ BeginPass(Stale, Topo(LiveEdges))
          /\ settles' = settles + 1
          /\ prev' = <<>>
          /\ UNCHANGED <<value, excluded, reads, how>>
  /\ UNCHANGED <<config, kept, iterating>>

Settled ==
  /\ Classifying /\ Live = {} /\ Stale = {}
  /\ how' = "settled"
  /\ phase' = "ending"
  /\ UNCHANGED <<config, kept, value, excluded, loop, iterating>>

\* Mutant of Finish: values within the tolerance are retained too.
FinishTolerant ==
  /\ phase = "ending"
  /\ phase' = "finished"
  /\ NoLoop
  /\ retained' = (iterating /\ how \in {"exact", "converged"})
  /\ persisted' = IF iterating THEN value ELSE [i \in Members |-> Empty]
  /\ UNCHANGED <<config, input, value, dirty, excluded, iterating, how, events, last>>

\* The end of the task: an exact fixed point is retained, other cycles that
\* iterated run again with every request.
Finish ==
  /\ phase = "ending"
  /\ phase' = "finished"
  /\ NoLoop
  /\ retained' = (iterating /\ how = "exact")
  /\ persisted' = CASE ~iterating -> [i \in Members |-> Empty]
                    [] iterating /\ how = "exact" -> value
                    [] OTHER -> persisted
  /\ UNCHANGED <<config, input, value, dirty, excluded, iterating, how, events, last>>

\* Mutant of EndRequest: the state of a cycle is only kept when it is retained.
EndRequestUnsaved ==
  /\ phase = "finished"
  /\ phase' = "idle"
  /\ dirty' = (iterating /\ ~retained)
  /\ last' = IF iterating THEN value ELSE <<>>
  /\ UNCHANGED <<config, input, value, excluded, loop, iterating, how, retained, persisted, events>>

\* The end of the request: clear_dirty_flags, redirty_for_next_recalc.
EndRequest ==
  /\ phase = "finished"
  /\ phase' = "idle"
  /\ dirty' = (iterating /\ ~retained)
  /\ persisted' = IF iterating /\ ~retained THEN value ELSE persisted
  /\ last' = IF iterating THEN value ELSE <<>>
  /\ UNCHANGED <<config, input, value, excluded, loop, iterating, how, retained, events>>

\* Cancelled before a pass or at the end of the task, or the request failed
\* after it: what was committed stays, and so do the dirty flags.
Cancel ==
  /\ events < MaxEvents
  /\ phase \in {"first", "last", "ending", "finished"} \/ WantsIteration
     \/ (WantsSettling /\ ~OverBudget)
  /\ events' = events + 1
  /\ phase' = "idle"
  /\ last' = <<>>
  /\ NoLoop
  /\ UNCHANGED <<config, input, value, dirty, excluded, iterating, how, retained, persisted>>

-----------------------------------------------------------------------------
(* Edits between requests. *)

\* Another value in the cell that formulas test.
SetInput ==
  /\ phase = "idle"
  /\ events < MaxEvents
  /\ events' = events + 1
  /\ input' = 1 - input
  /\ dirty' = TRUE
  /\ UNCHANGED <<config, value, phase, excluded, loop, iterating, how, retained, persisted, last>>

\* Rows are inserted above member k: it and those below move, their
\* computed values are cleared and they are marked dirty.
InsertRows(k) ==
  /\ phase = "idle"
  /\ events < MaxEvents
  /\ events' = events + 1
  /\ value' = [i \in Members |-> IF i >= k THEN Empty ELSE value[i]]
  /\ dirty' = TRUE
  /\ UNCHANGED <<config, input, phase, excluded, loop, iterating, how, retained, persisted, last>>

-----------------------------------------------------------------------------
Init ==
  /\ policy \in Policies
  /\ formula \in Workbooks
  /\ input \in {0, 1}
  /\ value = [i \in Members |-> Empty]
  /\ dirty = TRUE
  /\ phase = "idle"
  /\ excluded = {}
  /\ reads = [i \in Members |-> {}]
  /\ changed = {}
  /\ todo = {}
  /\ order = {}
  /\ ran = <<>>
  /\ passes = 0
  /\ settles = 0
  /\ prev = <<>>
  /\ iterating = FALSE
  /\ how = "none"
  /\ retained = FALSE
  /\ persisted = [i \in Members |-> Empty]
  /\ events = 0
  /\ last = <<>>

\* What a request does once it is under way.
Work ==
  \/ FirstPass
  \/ \E i \in Members : RunMember(i)
  \/ StampCycle
  \/ LastPass
  \/ StopIterating
  \/ Iterate
  \/ Settle
  \/ Settled
  \/ Finish
  \/ EndRequest

Next ==
  \/ Start
  \/ Work
  \/ Cancel
  \/ SetInput
  \/ \E k \in Members : InsertRows(k)

\* The thread of a request keeps running; nobody has to start one.
Spec == Init /\ [][Next]_vars /\ WF_vars(Work)

-----------------------------------------------------------------------------
(* Properties. *)

\* The variables have their types: no array result is ever committed as a value.
TypeOK ==
  /\ policy \in Policies
  /\ formula \in [Members -> Formula]
  /\ input \in {0, 1}
  /\ value \in [Members -> Values]
  /\ dirty \in BOOLEAN /\ iterating \in BOOLEAN /\ retained \in BOOLEAN
  /\ phase \in {"idle", "first", "pass", "classify", "last", "ending", "finished"}
  /\ excluded \subseteq Members /\ changed \subseteq Members
  /\ reads \in [Members -> SUBSET Members]
  /\ todo \subseteq Members /\ order \subseteq Members \X Members
  /\ ran \in Seq(Members)
  /\ {passes, settles, events} \subseteq Nat
  /\ prev \in [Members -> Values] \cup {<<>>}
  /\ how \in {"none", "settled", "stamped", "exact", "converged", "capped", "over"}
  /\ persisted \in [Members -> Values]
  /\ last \in [Members -> Values] \cup {<<>>}

\* The values v that the members have whatever was computed before: those of
\* pinned are #CIRC!, and every other one has the value it computes, in an
\* order in which it reads what comes before it (any set of them has a member
\* that reads none of the set).
Ground(v, pinned) ==
  /\ \A i \in Members : v[i] = IF i \in pinned THEN Circ ELSE Result(i, v)
  /\ \A S \in (SUBSET (Members \ pinned)) \ {{}} : \E i \in S : Reads(i, v) \cap S = {}

Clean == phase = "idle" /\ ~dirty

\* A task that settled leaves the values that an evaluation with no cycle has,
\* whatever the cells held before, whatever branches flipped and whatever was
\* cancelled in between; in particular no live cycle goes unnoticed.
SettledIsExact == Clean /\ how = "settled" => Ground(value, excluded)

\* The defensive cap of the settle loop ("hitting this is a bug") is never
\* hit, not even when cycles appear and dissolve between settle passes.
BudgetSuffices == how # "over"

\* The loop keeps its state in type and never needs its emergency exit.
LoopOK == TypeOK /\ BudgetSuffices

\* A retained cycle is a fixed point of its formulas and inputs for as long
\* as it is clean.  Members stamped for an array result are not followed.
RetainedIsFixed ==
  retained /\ Clean /\ excluded = {} => \A i \in Members : value[i] = Result(i, value)

\* Members of a cycle start from the values the last request left, although
\* inserted rows cleared them.
StateSurvives ==
  phase = "first" /\ last # <<>> => \A i \in Members \ excluded : value[i] = last[i]

\* Every request ends.
RequestsEnd == phase # "idle" ~> phase = "idle"

\* Formulas with no live cycle, none of which spills, get ordinary values
\* under both policies: no member is stamped.
PhantomIsOrdinary ==
  LET Spills(i) == {formula[i].yes.op, formula[i].no.op} \cap {"array", "anchor"} # {}
  IN Clean /\ (\A i \in Members : ~Spills(i)) =>
       \A v \in [Members -> Values] : Ground(v, {}) => value = v
===============================================================================
