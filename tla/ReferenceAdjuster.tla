--------------------------- MODULE ReferenceAdjuster ---------------------------
(***************************************************************************)
(* What inserting or deleting rows does to the references of a formula and *)
(* of a name, and to a run of family members that share one template.      *)
(* Columns are adjusted by the same rules.                                 *)
(*                                                                         *)
(* A reference has a first and a last row, counted from 0; either may be   *)
(* open, as in A:A or A3:A.  A cell is a range of one row that is deleted  *)
(* as a whole.  Absolute bounds track the edit like relative ones; the     *)
(* difference matters when a template is relocated.                        *)
(***************************************************************************)
EXTENDS Integers

Open == -1      \* a bound that is not there

Bound == Nat \cup {Open}
Operation == [kind : {"insert", "delete"}, at : Nat, count : Nat \ {0}]
Reference == [kind : {"cell", "range", "name", "error"}, col : {"A", "B"},
              lo : Bound, hi : Bound, loAbs : BOOLEAN, hiAbs : BOOLEAN]

\* `ReferenceAdjustment::Invalidated`: the reference becomes #REF!.
RefErrorOf(ref) == [ref EXCEPT !.kind = "error", !.lo = Open, !.hi = Open]

InBand(i, op) == op.at <= i /\ i < op.at + op.count

----------------------------------------------------------------------------
(* One reference *)

adjust_insert(i, op) == IF i # Open /\ i >= op.at THEN i + op.count ELSE i

\* A bound of an open range in the deleted band moves to the line.
adjust_delete(i, op) ==
    IF i # Open /\ i >= op.at + op.count THEN i - op.count
    ELSE IF InBand(i, op) THEN op.at ELSE i

\* The last row of a range that is partly deleted.
DeletedLast(i, op) == IF InBand(i, op) THEN op.at - 1 ELSE adjust_delete(i, op)

CellDeleted(i, op) == op.kind = "delete" /\ InBand(i, op)

\* A bound that is not deleted.
adjust_cell_ref(i, op) ==
    IF op.kind = "insert" THEN adjust_insert(i, op) ELSE adjust_delete(i, op)

\* The last row of a range after the edit.
adjust_last(ref, op) ==
    IF op.kind = "delete" /\ Open \notin {ref.lo, ref.hi} THEN DeletedLast(ref.hi, op)
    ELSE adjust_cell_ref(ref.hi, op)

\* Both ends are deleted (cells have one).
Deleted(ref, op) == CellDeleted(ref.lo, op) /\ CellDeleted(ref.hi, op)

\* A range whose first row is behind its last is left as it is.
Reversed(ref) == Open \notin {ref.lo, ref.hi} /\ ref.lo > ref.hi

WithRows(ref, lo, hi) == [ref EXCEPT !.lo = lo, !.hi = hi]

adjust_reference(ref, op) ==
    IF ref.kind \notin {"cell", "range"} \/ Reversed(ref) THEN ref
    ELSE IF Deleted(ref, op) THEN RefErrorOf(ref)
    ELSE WithRows(ref, adjust_cell_ref(ref.lo, op), adjust_last(ref, op))

\* A name is invalidated when either end of its range is deleted.
adjust_named_definition(ref, op) ==
    IF ref.kind \notin {"cell", "range"} THEN ref
    ELSE IF CellDeleted(ref.lo, op) \/ CellDeleted(ref.hi, op) THEN RefErrorOf(ref)
    ELSE WithRows(ref, adjust_cell_ref(ref.lo, op), adjust_cell_ref(ref.hi, op))

----------------------------------------------------------------------------
(* Runs of members: consecutive formulas down a column, one template *)

Slide(i, abs, n) == IF i = Open \/ abs THEN i ELSE i + n

\* The reference of the member n rows below.
Relocate(ref, n) == WithRows(ref, Slide(ref.lo, ref.loAbs, n), Slide(ref.hi, ref.hiAbs, n))

Area(ref) == IF ref.lo <= ref.hi THEN ref.hi - ref.lo + 1 ELSE ref.lo - ref.hi + 1

\* No range that is small enough to be expanded into cells changes its size.
member_deps_preserved(old, new, last, limit) ==
    \/ old.kind # "range"
    \/ Open \in {old.lo, old.hi}
    \/ \A n \in 0..last :
           LET before == Area(Relocate(old, n))
               after == Area(Relocate(new, n))
           IN  before = after \/ (before > limit /\ after > limit)

\* Mutant of plan_part: the last member is not looked at.
PlanByFirst(ref, last, op, limit) ==
    LET first == adjust_reference(ref, op)
    IN  first.kind # "error" /\ (first = ref \/ member_deps_preserved(ref, first, last, limit))

\* Whether a part of a run, whose first member has `ref` and whose last is
\* `last` rows below, is adjusted as a block: the first and the last member
\* still have one template.
plan_part(ref, last, op, limit) ==
    LET first == adjust_reference(ref, op)
        bottom == adjust_reference(Relocate(ref, last), op)
        changed == first # ref
    IN  /\ changed <=> (bottom # Relocate(ref, last))
        /\ changed => first.kind # "error" /\ member_deps_preserved(ref, first, last, limit)
        /\ bottom = Relocate(first, last)

----------------------------------------------------------------------------
(* What the adjuster promises, in terms of rows instead of bounds *)

Covers(ref, r) == (ref.lo = Open \/ ref.lo <= r) /\ (ref.hi = Open \/ r <= ref.hi)

\* Row r holds, after the edit, what one of the rows `Was` describes held
\* before it, or it is an inserted row and the line was between two of them.
Follows(Was(_), op, fromTop, r) ==
    IF op.kind = "insert"
    THEN IF r < op.at THEN Was(r)
         ELSE IF r >= op.at + op.count THEN Was(r - op.count)
         ELSE Was(op.at) /\ IF op.at = 0 THEN fromTop ELSE Was(op.at - 1)
    ELSE IF r < op.at THEN Was(r) ELSE Was(r + op.count)
================================================================================
