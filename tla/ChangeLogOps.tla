---------------------------- MODULE ChangeLogOps ----------------------------
(***************************************************************************)
(* The operations of the audit log of formualizer-eval                     *)
(* (engine/graph/editor/change_log.rs) as functions from a log to a log.   *)
(* ChangeLog.tla makes a state machine of them; EditHistory.tla and        *)
(* TransactionContext.tla use the same functions for the log that undo,    *)
(* redo and rollback read.                                                 *)
(*                                                                         *)
(* A log is a record                                                       *)
(*   enabled   logging is on                                               *)
(*   max       max_changelog_events: the retention cap, or NoCap           *)
(*   depth     compound_depth: how many compounds are open                 *)
(*   seq       next_seq: the sequence number of the next event             *)
(*   stack     group_stack: one group id per open compound                 *)
(*   gid       next_group_id                                               *)
(*   retained  the retained entries, oldest first: the event, its          *)
(*             sequence number and its group                               *)
(* The metadata of an event (actor, correlation id, reason) is copied      *)
(* along and never read by the log, so it is left out.                     *)
(***************************************************************************)
EXTENDS Integers, Sequences

\* Option<u64>::None for a group; real group ids start at 1.
NoGroup == 0

\* Option<usize>::None for max_changelog_events.
NoCap == -1

\* The two marker events.  Their `depth` and `description` fields are left
\* out: no reader of the log trusts the depth (a redo logs it again).
CompoundStart == [tag |-> "CompoundStart"]
CompoundEnd == [tag |-> "CompoundEnd"]

\* ChangeLog::new
EmptyLog == [enabled |-> TRUE, max |-> NoCap, depth |-> 0, seq |-> 0,
             stack |-> <<>>, gid |-> 1, retained |-> <<>>]

\* group_stack.last(): the group an event recorded now belongs to.
CurrentGroup(l) ==
  IF l.stack = <<>> THEN NoGroup ELSE l.stack[Len(l.stack)]

\* enforce_cap: the oldest events go first; a cap of 0 keeps nothing.
EnforceCap(l) ==
  IF l.max = NoCap \/ Len(l.retained) <= l.max
  THEN l
  ELSE [l EXCEPT !.retained = SubSeq(@, Len(@) - l.max + 1, Len(@))]

\* set_max_changelog_events
SetMaxEvents(l, max) == EnforceCap([l EXCEPT !.max = max])

\* Mutant of Stamp: the members of a run lose their group.
StampRunUngrouped(l, events) ==
  [i \in 1..Len(events) |->
     [ev |-> events[i], seq |-> l.seq + i - 1,
      group |-> IF Len(events) > 1 THEN NoGroup ELSE CurrentGroup(l)]]

\* The entries that `events` become when the log takes them now: one group,
\* consecutive sequence numbers.
Stamp(l, events) ==
  [i \in 1..Len(events) |->
     [ev |-> events[i], seq |-> l.seq + i - 1, group |-> CurrentGroup(l)]]

\* Mutant of ReplayEvents: a run spends one sequence number.
ReplayEventsOneSeq(l, events, retain) ==
  IF l.enabled
  THEN [l EXCEPT !.seq = @ + 1,
                 !.retained = IF retain THEN @ \o Stamp(l, events) ELSE @]
  ELSE l

\* replay_record (one event) and replay_lazy (the members of a run): the
\* sequence numbers are spent whether or not the events are kept.
ReplayEvents(l, events, retain) ==
  IF l.enabled
  THEN [l EXCEPT !.seq = @ + Len(events),
                 !.retained = IF retain THEN @ \o Stamp(l, events) ELSE @]
  ELSE l

\* Mutant of RecordEvent: only the markers carry the group.
RecordUngrouped(l, event) ==
  LET group == IF event \in {CompoundStart, CompoundEnd} THEN CurrentGroup(l) ELSE NoGroup
  IN  IF l.enabled
      THEN EnforceCap([l EXCEPT !.seq = @ + 1,
             !.retained = Append(@, [ev |-> event, seq |-> l.seq, group |-> group])])
      ELSE l

\* record, record_with_meta
RecordEvent(l, event) ==
  IF l.enabled THEN EnforceCap(ReplayEvents(l, <<event>>, TRUE)) ELSE l

\* The bookkeeping shared by begin_compound and replay_begin_compound: the
\* outermost compound allocates a group, a nested one joins it.
OpenCompound(l) ==
  [l EXCEPT
     !.depth = @ + 1,
     !.gid   = IF l.depth = 0 THEN @ + 1 ELSE @,
     !.stack = CASE l.depth = 0 -> Append(@, l.gid)
                 [] l.depth # 0 /\ @ # <<>> -> Append(@, CurrentGroup(l))
                 [] OTHER -> @]

\* The bookkeeping shared by end_compound and replay_end_compound.
CloseCompound(l) ==
  [l EXCEPT !.depth = @ - 1,
            !.stack = IF @ = <<>> THEN @ ELSE SubSeq(@, 1, Len(@) - 1)]

\* begin_compound
BeginCompound(l) == RecordEvent(OpenCompound(l), CompoundStart)

\* Mutant of EndCompound: the marker is logged after the group is gone.
EndCompoundLate(l) ==
  IF l.depth = 0 THEN l ELSE RecordEvent(CloseCompound(l), CompoundEnd)

\* end_compound: unbalanced calls are ignored.
EndCompound(l) ==
  IF l.depth = 0 THEN l ELSE CloseCompound(RecordEvent(l, CompoundEnd))

\* replay_begin_compound, replay_end_compound: the cap waits for the end of
\* the replay.
ReplayBeginCompound(l, retain) ==
  ReplayEvents(OpenCompound(l), <<CompoundStart>>, retain)

\* Mutant of ReplayEndCompound: the end of a discarded compound is kept.
ReplayEndCompoundKept(l, retain) ==
  IF l.depth = 0
  THEN l
  ELSE CloseCompound(ReplayEvents(l, <<CompoundEnd>>, TRUE))

ReplayEndCompound(l, retain) ==
  IF l.depth = 0
  THEN l
  ELSE CloseCompound(ReplayEvents(l, <<CompoundEnd>>, retain))

\* truncate, and take_from (which also hands the removed events out).
TruncateLog(l, len) ==
  IF len >= Len(l.retained) THEN l
  ELSE [l EXCEPT !.retained = SubSeq(@, 1, len)]

\* Mutant of ClearLog: the sequence numbers start again.
ClearLogResets(l) == [l EXCEPT !.retained = <<>>, !.depth = 0, !.stack = <<>>, !.seq = 0]

\* clear: the counters go on, so neither a sequence number nor a group id is
\* ever used twice.
ClearLog(l) == [l EXCEPT !.retained = <<>>, !.depth = 0, !.stack = <<>>]

\* last_group_indices: the events of the most recent group, wherever they
\* are, or the last event when no event has a group.
LastGroupIndices(l) ==
  LET r == l.retained
      grouped == {i \in DOMAIN r : r[i].group # NoGroup}
  IN  IF grouped = {}
      THEN {Len(r)} \ {0}
      ELSE LET newest == CHOOSE i \in grouped : \A j \in grouped : j <= i
           IN  {i \in grouped : r[i].group = r[newest].group}
=============================================================================
