------------------------------ MODULE ChangeLog ------------------------------
(***************************************************************************)
(* The audit log of the engine as a state machine: direct recording        *)
(* (record, begin_compound, end_compound), the private MutationCapture an  *)
(* edit records into, and the replay of that capture into the log when the *)
(* edit succeeds (publish_capture) or fails (discard_capture).             *)
(*                                                                         *)
(* The log is reached through &mut ChangeLog, so while an edit captures or *)
(* a capture is replayed no other operation of the log runs.  The replay   *)
(* loop is one step per event of the capture.                              *)
(***************************************************************************)
EXTENDS ChangeLogOps

CONSTANTS
  Events,      \* the events an editor may record
  MaxRun,      \* bound: members of a formula run
  Caps,        \* the caps set_max_changelog_events is called with
  MaxSeq,      \* bound: sequence numbers spent
  MaxDepth,    \* bound: nesting of compounds
  MaxGroups,   \* bound: group ids allocated by direct compounds
  MaxCapture   \* bound: entries of one capture

ASSUME BoundsAssumption ==
  /\ MaxRun \in Nat /\ MaxSeq \in Nat /\ MaxDepth \in Nat
  /\ MaxGroups \in Nat /\ MaxCapture \in Nat
  /\ Caps \subseteq Nat \cup {NoCap}

VARIABLES
  log,      \* the ChangeLog
  mode,     \* "idle", "edit" (a capture is open), "publish" or "discard"
  capture,  \* the MutationCapture: its entries still to be replayed, and its
            \* open compounds
  before    \* history: the log when the current edit began

vars == <<log, mode, capture, before>>

\* What a capture holds: a plain event, a marker, or a run of
\* FormulaAdjusted events kept as one record (FormulaRunAdjusted).
Plain(e) == [tag |-> "Event", ev |-> e]
Run(members) == [tag |-> "Run", members |-> members]
Runs == UNION {[1..n -> Events] : n \in 1..MaxRun}

NoCapture == [items |-> <<>>, depth |-> 0]

Init ==
  /\ log = EmptyLog
  /\ mode = "idle"
  /\ capture = NoCapture
  /\ before = EmptyLog

-----------------------------------------------------------------------------
(* Direct use of the log. *)

Record(e) ==
  /\ mode = "idle" /\ log.seq < MaxSeq
  /\ log' = RecordEvent(log, Plain(e))
  /\ UNCHANGED <<mode, capture, before>>

Begin ==
  /\ mode = "idle" /\ log.seq < MaxSeq
  /\ log.depth < MaxDepth /\ log.gid <= MaxGroups
  /\ log' = BeginCompound(log)
  /\ UNCHANGED <<mode, capture, before>>

End ==
  /\ mode = "idle" /\ log.seq < MaxSeq
  /\ log' = EndCompound(log)
  /\ UNCHANGED <<mode, capture, before>>

SetMaxChangelogEvents(max) ==
  /\ mode = "idle"
  /\ log' = SetMaxEvents(log, max)
  /\ UNCHANGED <<mode, capture, before>>

SetEnabled(on) ==
  /\ mode = "idle"
  /\ log' = [log EXCEPT !.enabled = on]
  /\ UNCHANGED <<mode, capture, before>>

\* truncate(len); take_from(len) leaves the same log and panics past its end.
Truncate(len) ==
  /\ mode = "idle"
  /\ log' = TruncateLog(log, len)
  /\ UNCHANGED <<mode, capture, before>>

Clear ==
  /\ mode = "idle"
  /\ log' = ClearLog(log)
  /\ UNCHANGED <<mode, capture, before>>

-----------------------------------------------------------------------------
(* An edit: MutationCapture always records and never evicts. *)

StartEdit ==
  /\ mode = "idle"
  /\ mode' = "edit"
  /\ capture' = NoCapture
  /\ before' = log
  /\ UNCHANGED log

Capture(item) ==
  /\ mode = "edit" /\ Len(capture.items) < MaxCapture
  /\ capture' = [capture EXCEPT !.items = Append(@, item)]
  /\ UNCHANGED <<log, mode, before>>

CaptureBegin ==
  /\ mode = "edit" /\ Len(capture.items) < MaxCapture
  /\ log.depth + capture.depth < MaxDepth
  /\ capture' = [items |-> Append(capture.items, CompoundStart),
                 depth |-> capture.depth + 1]
  /\ UNCHANGED <<log, mode, before>>

CaptureEnd ==
  /\ mode = "edit" /\ capture.depth > 0
  /\ capture' = [items |-> Append(capture.items, CompoundEnd),
                 depth |-> capture.depth - 1]
  /\ UNCHANGED <<log, mode, before>>

\* close_compounds, then publish_capture (the edit succeeded) or
\* discard_capture (it failed).
FinishEdit(outcome) ==
  /\ mode = "edit"
  /\ mode' = outcome
  /\ capture' = [items |-> capture.items
                             \o [i \in 1..capture.depth |-> CompoundEnd],
                 depth |-> 0]
  /\ UNCHANGED <<log, before>>

-----------------------------------------------------------------------------
(* replay_capture(capture, retain) *)

Retain == mode = "publish"

ReplayItem(l, item, retain) ==
  CASE item.tag = "CompoundStart" -> ReplayBeginCompound(l, retain)
    [] item.tag = "CompoundEnd"   -> ReplayEndCompound(l, retain)
    [] item.tag = "Run"   -> ReplayEvents(l, [i \in DOMAIN item.members |->
                                                Plain(item.members[i])], retain)
    [] item.tag = "Event" -> ReplayEvents(l, <<item>>, retain)

ReplayStep ==
  /\ mode \in {"publish", "discard"} /\ capture.items # <<>>
  /\ log' = ReplayItem(log, Head(capture.items), Retain)
  /\ capture' = [capture EXCEPT !.items = Tail(@)]
  /\ UNCHANGED <<mode, before>>

\* Mutant of ReplayDone: the cap is forgotten after a replay.
ReplayDoneUncapped ==
  /\ mode \in {"publish", "discard"} /\ capture.items = <<>>
  /\ mode' = "idle"
  /\ before' = EmptyLog
  /\ UNCHANGED <<log, capture>>

\* Only a publication applies the cap.
ReplayDone ==
  /\ mode \in {"publish", "discard"} /\ capture.items = <<>>
  /\ log' = IF Retain THEN EnforceCap(log) ELSE log
  /\ mode' = "idle"
  /\ before' = EmptyLog
  /\ UNCHANGED capture

-----------------------------------------------------------------------------
DirectUse ==
  \/ \E e \in Events : Record(e)
  \/ Begin
  \/ End
  \/ \E max \in Caps : SetMaxChangelogEvents(max)
  \/ \E on \in BOOLEAN : SetEnabled(on)
  \/ \E len \in 0..Len(log.retained) : Truncate(len)
  \/ Clear

Editing ==
  \/ log.seq < MaxSeq /\ log.gid <= MaxGroups /\ StartEdit
  \/ \E e \in Events : Capture(Plain(e))
  \/ \E members \in Runs : Capture(Run(members))
  \/ CaptureBegin
  \/ CaptureEnd
  \/ \E outcome \in {"publish", "discard"} : FinishEdit(outcome)

Next == DirectUse \/ Editing \/ ReplayStep \/ ReplayDone

Spec == Init /\ [][Next]_vars

-----------------------------------------------------------------------------
(* Types *)

Items == [tag : {"CompoundStart", "CompoundEnd"}]
           \cup [tag : {"Event"}, ev : Events]
           \cup [tag : {"Run"}, members : Seq(Events)]
Logged == [tag : {"CompoundStart", "CompoundEnd"}]
            \cup [tag : {"Event"}, ev : Events]
Entries == [ev : Logged, seq : Nat, group : Nat]
Logs == [enabled : BOOLEAN, max : Nat \cup {NoCap}, depth : Nat, seq : Nat,
         stack : Seq(Nat), gid : Nat, retained : Seq(Entries)]

\* Type invariant: the log, the capture and the edit in progress have the
\* shapes of the structs ChangeLog, RetainedCell and MutationCapture.
TypeOK ==
  /\ log \in Logs
  /\ mode \in {"idle", "edit", "publish", "discard"}
  /\ capture \in [items : Seq(Items), depth : Nat]
  /\ before \in Logs

-----------------------------------------------------------------------------
(* What the audit trail promises *)

\* Sequence numbers grow strictly along the retained log and stay below
\* next_seq: no order of recording, replaying, evicting, truncating and
\* clearing lets the log show two events out of order or under one number
\* (replay_lazy reserves a block of numbers in one addition).
SeqsIncreasing ==
  /\ \A i, j \in DOMAIN log.retained :
       i < j => log.retained[i].seq < log.retained[j].seq
  /\ \A i \in DOMAIN log.retained : log.retained[i].seq < log.seq

\* The events of one compound are contiguous in the retained log, whatever is
\* evicted, truncated, disabled or replayed in between: undo removes the
\* entries from the first index of last_group_indices on, so an event of
\* another group among them would be lost.
GroupsContiguous ==
  \A i, k \in DOMAIN log.retained :
    log.retained[i].group # NoGroup /\ log.retained[i].group = log.retained[k].group
      => \A j \in i..k : log.retained[j].group = log.retained[i].group

\* One group id per open compound, all of them the id of the outermost one,
\* and that id is below next_group_id: begin_compound's two branches, clear
\* and the replay keep compound_depth and group_stack in step.
CompoundsInStep ==
  /\ Len(log.stack) = log.depth
  /\ \A i \in DOMAIN log.stack : /\ log.stack[i] = CurrentGroup(log)
                                 /\ log.stack[i] \in 1..(log.gid - 1)

\* The log is well formed: its fields have their types, the stack of groups
\* and the depth agree, and sequence numbers grow.
LogWellFormed == TypeOK /\ SeqsIncreasing /\ CompoundsInStep

\* Between operations the log never holds more events than its cap, although
\* a replay lets it grow past the cap until its last event (replay_capture
\* calls enforce_cap once, at the end).
CapHolds ==
  mode = "idle" /\ log.max # NoCap => Len(log.retained) <= log.max

\* The audit trail is append-only apart from eviction at the front and
\* removal at the back: a step keeps an entry as it is or drops it, and what
\* it adds has sequence numbers never used before; not even clear lets the
\* counter go back.
AuditStable ==
  [][/\ log.seq <= log'.seq
     /\ \A i \in DOMAIN log'.retained :
          \/ \E j \in DOMAIN log.retained : log'.retained[i] = log.retained[j]
          \/ log'.retained[i].seq >= log.seq]_vars

\* A failed edit leaves no trace in the retained events, although its
\* replay (discard_capture) spends sequence numbers and group ids and opens
\* and closes its compounds.
FailedEditInvisible ==
  [][mode = "discard" /\ mode' = "idle" => log'.retained = before.retained]_vars

\* When an edit has been replayed, kept or not, the compounds open in the
\* log are those that were open when it began: an edit that fails between
\* begin_compound and end_compound cannot leave a group open, because
\* edit_with_logger closes the capture's compounds before the replay.
EditIsBracketed ==
  [][mode # "idle" /\ mode' = "idle"
       => log'.depth = before.depth /\ log'.stack = before.stack]_vars

\* A successful edit made inside an open compound joins that compound's
\* group whole: when its replay ends, every retained event it added carries
\* the group that was current when it began.
EditJoinsCompound ==
  [][mode = "publish" /\ mode' = "idle" /\ before.depth > 0
       => \A i \in DOMAIN log'.retained :
            log'.retained[i].seq >= before.seq
              => log'.retained[i].group = CurrentGroup(before)]_vars

\* An edit is one unit of history, made in a compound or not: it closes what
\* it opened, and joins the group it was made in.
EditIsOneGroup == EditIsBracketed /\ EditJoinsCompound
=============================================================================
