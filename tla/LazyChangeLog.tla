---------------------------- MODULE LazyChangeLog ----------------------------
(***************************************************************************)
(* The audit log as change_log.rs stores it.  A formula run (the           *)
(* FormulaAdjusted events of one structural edit) is kept as one record    *)
(* that stands for many events: MutationCapture holds it beside its plain  *)
(* events with a position, and RetainedCell holds it beside the log's      *)
(* plain entries until somebody reads or indexes the log.  ChangeLog.tla   *)
(* is the same log with every run written out; this module implements it.  *)
(***************************************************************************)
EXTENDS ChangeLogOps, FiniteSets, Functions

CONSTANTS Events, MaxRun, Caps, MaxSeq, MaxDepth, MaxGroups, MaxCapture

ASSUME LazyAssumption ==
  /\ MaxRun \in Nat /\ MaxSeq \in Nat /\ MaxDepth \in Nat
  /\ MaxGroups \in Nat /\ MaxCapture \in Nat
  /\ Caps \subseteq Nat \cup {NoCap}

VARIABLES
  log,       \* the ChangeLog: the fields of ChangeLogOps, with a RetainedCell
             \* as `retained`
  mode,      \* as in ChangeLog
  capture,   \* the MutationCapture and the position of its replay
  before     \* history: the written-out log when the current edit began

lazyVars == <<log, mode, capture, before>>

-----------------------------------------------------------------------------
(* RetainedCell *)

\* RetainedCell::default
EmptyCell == [plain |-> <<>>, lazy |-> <<>>, expanded |-> TRUE,
              len |-> 0, pending |-> 0]

\* The entries a run record stands for.
Members(r) == [i \in DOMAIN r.members |->
                 [ev |-> [tag |-> "Event", ev |-> r.members[i]],
                  seq |-> r.seq0 + i - 1, group |-> r.group]]

\* One record of Retained::expand: the entries moved so far, and how many of
\* the plain ones they are.
Place(cell, acc, r) ==
  [out |-> acc.out \o SubSeq(cell.plain, acc.p + 1, r.pos) \o Members(r),
   p   |-> IF acc.p < r.pos THEN r.pos ELSE acc.p]

\* Retained::expand: the entries before the first record stay; the rest are
\* moved behind the members of the records positioned before them.
Expand(cell) ==
  IF cell.lazy = <<>> THEN cell
  ELSE LET start == cell.lazy[1].pos
           placed[n \in 0..Len(cell.lazy)] ==
             IF n = 0 THEN [out |-> SubSeq(cell.plain, 1, start), p |-> start]
             ELSE Place(cell, placed[n - 1], cell.lazy[n])
           end == placed[Len(cell.lazy)]
       IN  [cell EXCEPT
              !.plain = end.out \o SubSeq(cell.plain, end.p + 1, Len(cell.plain)),
              !.lazy = <<>>]

\* RetainedCell::get, the shared read: it initializes `expanded` and cannot
\* reset the counter of pending records.
Get(cell) == IF cell.expanded THEN cell
             ELSE [Expand(cell) EXCEPT !.expanded = TRUE]

\* RetainedCell::settle
Settle(cell) == IF cell.expanded THEN cell
                ELSE [Expand(cell) EXCEPT !.expanded = TRUE, !.pending = 0]

\* RetainedCell::push
PushPlain(cell, entry) ==
  [cell EXCEPT !.plain = Append(@, entry), !.len = @ + 1]

\* Mutant of PushRun: a run counts as one event.
PushRunAsOne(cell, r) ==
  [cell EXCEPT !.lazy = Append(@, r), !.len = @ + 1, !.pending = @ + 1,
               !.expanded = FALSE]

\* RetainedCell::push_run
PushRun(cell, r) ==
  [cell EXCEPT !.lazy = Append(@, r), !.len = @ + Len(r.members),
               !.pending = @ + 1, !.expanded = FALSE]

\* RetainedCell::drain_front, truncate and split_off: keep lo..hi of the
\* expanded entries.
KeepRange(cell, lo, hi) ==
  LET r == Settle(cell) IN
  LET kept == SubSeq(r.plain, lo, IF hi < Len(r.plain) THEN hi ELSE Len(r.plain))
  IN  [r EXCEPT !.plain = kept, !.len = Len(kept)]

-----------------------------------------------------------------------------
(* ChangeLog over a RetainedCell *)

LEnforceCap(l) ==
  CASE l.max = NoCap -> l
    [] l.max = 0 -> [l EXCEPT !.retained = EmptyCell]
    [] l.max > 0 /\ l.retained.len <= l.max -> l
    [] OTHER -> [l EXCEPT !.retained = KeepRange(@, @.len - l.max + 1, @.len)]

\* replay_record
LReplayRecord(l, event, retain) ==
  IF ~l.enabled THEN l
  ELSE [l EXCEPT
          !.seq = @ + 1,
          !.retained = IF retain
                       THEN PushPlain(@, [ev |-> event, seq |-> l.seq,
                                          group |-> CurrentGroup(l)])
                       ELSE @]

\* replay_lazy
LReplayRun(l, members, retain) ==
  IF ~l.enabled THEN l
  ELSE [l EXCEPT
          !.seq = @ + Len(members),
          !.retained = IF retain
                       THEN PushRun(@, [pos |-> Len(@.plain), seq0 |-> l.seq,
                                        group |-> CurrentGroup(l),
                                        members |-> members])
                       ELSE @]

LRecord(l, event) ==
  IF l.enabled THEN LEnforceCap(LReplayRecord(l, event, TRUE)) ELSE l

-----------------------------------------------------------------------------
(* The state machine *)

NoCapture == [events |-> <<>>, lazy |-> <<>>, depth |-> 0, p |-> 0, k |-> 0]

\* Every entry a cell stands for, and all of them in sequence order: the i-th
\* is the one with i - 1 entries before it.
EntriesOf(cell) ==
  Range(cell.plain) \cup UNION {Range(Members(cell.lazy[n])) : n \in DOMAIN cell.lazy}
WrittenOut(cell) ==
  LET all == EntriesOf(cell)
      rank(x) == Cardinality({y \in all : y.seq < x.seq})
  IN  [i \in 1..Cardinality(all) |-> CHOOSE x \in all : rank(x) = i - 1]
LogView(l) == [l EXCEPT !.retained = WrittenOut(@)]

\* The entries of a capture that are still to be replayed: run r comes after
\* the runs and the events before it, and the events fill the other places.
RunsLeft(c) == (c.k + 1)..Len(c.lazy)
RunPlace(c, r) == (r - c.k) + (IF c.lazy[r].pos < c.p THEN 0 ELSE c.lazy[r].pos - c.p)
ItemAt(c, n) ==
  IF \E r \in RunsLeft(c) : RunPlace(c, r) = n
  THEN [tag |-> "Run",
        members |-> c.lazy[CHOOSE r \in RunsLeft(c) : RunPlace(c, r) = n].members]
  ELSE c.events[c.p + n - Cardinality({r \in RunsLeft(c) : RunPlace(c, r) < n})]
CaptureView(c) ==
  [items |-> [n \in 1..(Len(c.events) - c.p + Len(c.lazy) - c.k) |-> ItemAt(c, n)],
   depth |-> c.depth]

Abstract == INSTANCE ChangeLog
              WITH log <- LogView(log), capture <- CaptureView(capture)

LazyInit ==
  /\ log = [EmptyLog EXCEPT !.retained = EmptyCell]
  /\ mode = "idle"
  /\ capture = NoCapture
  /\ before = EmptyLog

Direct(newLog) ==
  /\ mode = "idle"
  /\ log' = newLog
  /\ UNCHANGED <<mode, capture, before>>

Record(e) == log.seq < MaxSeq /\ Direct(LRecord(log, Abstract!Plain(e)))

Begin ==
  /\ log.seq < MaxSeq /\ log.depth < MaxDepth /\ log.gid <= MaxGroups
  /\ Direct(LRecord(OpenCompound(log), CompoundStart))

End ==
  /\ log.seq < MaxSeq
  /\ Direct(IF log.depth = 0 THEN log
            ELSE CloseCompound(LRecord(log, CompoundEnd)))

SetMaxChangelogEvents(max) == Direct(LEnforceCap([log EXCEPT !.max = max]))

SetEnabled(on) == Direct([log EXCEPT !.enabled = on])

Truncate(len) == Direct([log EXCEPT !.retained = KeepRange(@, 1, len)])

Clear == Direct([log EXCEPT !.retained = EmptyCell, !.depth = 0, !.stack = <<>>])

\* events, event_meta, meta and last_group_indices read through
\* RetainedCell::get.
Read == Direct([log EXCEPT !.retained = Get(@)])

StartEdit ==
  /\ mode = "idle" /\ log.seq < MaxSeq /\ log.gid <= MaxGroups
  /\ mode' = "edit"
  /\ capture' = NoCapture
  /\ before' = LogView(log)
  /\ UNCHANGED log

HasRoom == Len(capture.events) + Len(capture.lazy) < MaxCapture

\* MutationCapture::record
CaptureRecord(e) ==
  /\ mode = "edit" /\ HasRoom
  /\ capture' = [capture EXCEPT !.events = Append(@, Abstract!Plain(e))]
  /\ UNCHANGED <<log, mode, before>>

\* MutationCapture::record_lazy
CaptureRun(members) ==
  /\ mode = "edit" /\ HasRoom
  /\ capture' = [capture EXCEPT !.lazy = Append(@, [pos |-> Len(capture.events),
                                                    members |-> members])]
  /\ UNCHANGED <<log, mode, before>>

CaptureBegin ==
  /\ mode = "edit" /\ HasRoom /\ log.depth + capture.depth < MaxDepth
  /\ capture' = [capture EXCEPT !.events = Append(@, CompoundStart),
                                !.depth = @ + 1]
  /\ UNCHANGED <<log, mode, before>>

CaptureEnd ==
  /\ mode = "edit" /\ capture.depth > 0
  /\ capture' = [capture EXCEPT !.events = Append(@, CompoundEnd),
                                !.depth = @ - 1]
  /\ UNCHANGED <<log, mode, before>>

FinishEdit(outcome) ==
  /\ mode = "edit"
  /\ mode' = outcome
  /\ capture' = [capture EXCEPT
                   !.events = @ \o [i \in 1..capture.depth |-> CompoundEnd],
                   !.depth = 0]
  /\ UNCHANGED <<log, before>>

\* Mutant of RunIsNext: a run goes behind the event recorded after it.
RunIsNextLate == /\ capture.k < Len(capture.lazy)
                 /\ \/ capture.lazy[capture.k + 1].pos < capture.p
                    \/ capture.p = Len(capture.events)

\* replay_capture: the runs positioned at or before event p go before it.
Retain == mode = "publish"
RunIsNext == /\ capture.k < Len(capture.lazy)
             /\ \/ capture.lazy[capture.k + 1].pos <= capture.p
                \/ capture.p = Len(capture.events)

ReplayRun ==
  /\ mode \in {"publish", "discard"} /\ RunIsNext
  /\ log' = LReplayRun(log, capture.lazy[capture.k + 1].members, Retain)
  /\ capture' = [capture EXCEPT !.k = @ + 1]
  /\ UNCHANGED <<mode, before>>

ReplayEvent ==
  /\ mode \in {"publish", "discard"} /\ ~RunIsNext
  /\ capture.p < Len(capture.events)
  /\ LET event == capture.events[capture.p + 1] IN
       log' = CASE event = CompoundStart ->
                     LReplayRecord(OpenCompound(log), event, Retain)
                [] event = CompoundEnd ->
                     IF log.depth = 0 THEN log
                     ELSE CloseCompound(LReplayRecord(log, event, Retain))
                [] OTHER -> LReplayRecord(log, event, Retain)
  /\ capture' = [capture EXCEPT !.p = @ + 1]
  /\ UNCHANGED <<mode, before>>

ReplayDone ==
  /\ mode \in {"publish", "discard"} /\ ~RunIsNext
  /\ capture.p = Len(capture.events)
  /\ log' = IF Retain THEN LEnforceCap(log) ELSE log
  /\ mode' = "idle"
  /\ capture' = NoCapture
  /\ before' = EmptyLog

LazyNext ==
  \/ \E e \in Events : Record(e)
  \/ Begin
  \/ End
  \/ \E max \in Caps : SetMaxChangelogEvents(max)
  \/ \E on \in BOOLEAN : SetEnabled(on)
  \/ \E len \in 0..log.retained.len : Truncate(len)
  \/ Clear
  \/ Read
  \/ StartEdit
  \/ \E e \in Events : CaptureRecord(e)
  \/ \E members \in Abstract!Runs : CaptureRun(members)
  \/ CaptureBegin
  \/ CaptureEnd
  \/ \E outcome \in {"publish", "discard"} : FinishEdit(outcome)
  \/ ReplayRun
  \/ ReplayEvent
  \/ ReplayDone

LazySpec == LazyInit /\ [][LazyNext]_lazyVars

-----------------------------------------------------------------------------
(* Properties *)

\* The invariant RetainedCell states for its unsafe code: `expanded` is
\* initialized exactly when no run record is pending; and the shape Retained
\* states: the records are in log order, each at a position inside the plain
\* entries, so that expand never runs past the end of the moved tail.
LazyShape ==
  LET cell == log.retained IN
  /\ cell.expanded <=> cell.lazy = <<>>
  /\ \A i \in DOMAIN cell.lazy : cell.lazy[i].pos \in 0..Len(cell.plain)
  /\ \A i, j \in DOMAIN cell.lazy : i < j => cell.lazy[i].pos <= cell.lazy[j].pos

\* RetainedCell::len counts the events the log stands for, pending records
\* included: enforce_cap decides by it how many events to evict without
\* expanding anything.
LenExact == log.retained.len = Len(WrittenOut(log.retained))

\* The lazy cell is well formed, and counts right.
LazyWellFormed == LazyShape /\ LenExact

\* The lazy log implements the written-out one: no sequence of captures,
\* replays, reads, evictions and truncations lets a reader tell that a run
\* was ever kept as one record.
ImplementsChangeLog == Abstract!Spec
==============================================================================
