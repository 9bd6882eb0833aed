---------------------------- MODULE RowEditsProofs ----------------------------
(***************************************************************************)
(* Row edits, for workbooks and sheets of any size.  The formulas: after   *)
(* any sequence of row edits references cover the rows they were about and *)
(* runs stand for their members, where ranges are plain (not reversed, and *)
(* with a first row if they have a last); and where formulas look values   *)
(* up without a cycle, one that is not dirty shows what a full             *)
(* recalculation would give.  The values: whichever way the Arrow store of *)
(* a sheet rebuilds its chunks, they fit the chunk map and show the grid.  *)
(***************************************************************************)
EXTENDS StructuralEdits, ArrowSheet, FiniteSetTheorems, SequenceTheorems,
        NaturalsInduction, WellFoundedInduction, TLAPS

----------------------------------------------------------------------------
(* References: what the bounds of an adjusted reference mean in rows, and  *)
(* why looking at the first and the last member of a run is enough to      *)
(* rewrite it as a block                                                   *)

\* A cell has one row; its two bounds are one coordinate.
CellShape(ref) == ref.kind = "cell" => ref.lo # Open /\ ref.hi = ref.lo /\ ref.hiAbs = ref.loAbs

\* A cell, or a range that is not reversed and has a first row if it has a last.
IsPlain(ref) ==
    /\ ref.kind \in {"cell", "range"}
    /\ ref.lo = Open => ref.hi = Open
    /\ ref.lo # Open /\ ref.hi # Open => ref.lo <= ref.hi

\* Row r is one that `ref` is about after the edit.
IsAbout(ref, op, r) == Follows(LAMBDA i : Covers(ref, i), op, ref.lo = Open, r)

----------------------------------------------------------------------------
(* Rows *)

\* WithRows changes the two bounds and nothing else.
LEMMA BoundsKept ==
    ASSUME NEW ref \in Reference, NEW lo, NEW hi
    PROVE  /\ WithRows(ref, lo, hi).lo = lo
           /\ WithRows(ref, lo, hi).hi = hi
           /\ WithRows(ref, lo, hi).kind = ref.kind
           /\ WithRows(ref, lo, hi).col = ref.col
           /\ WithRows(ref, lo, hi).loAbs = ref.loAbs
           /\ WithRows(ref, lo, hi).hiAbs = ref.hiAbs
BY DEF WithRows, Reference

\* An adjusted reference is a reference.
LEMMA AdjustedType ==
    ASSUME NEW ref \in Reference, NEW op \in Operation
    PROVE  adjust_reference(ref, op) \in Reference
<1>1. CASE ref.kind \notin {"cell", "range"} \/ Reversed(ref)
  BY <1>1 DEF adjust_reference
<1>2. CASE ~(ref.kind \notin {"cell", "range"} \/ Reversed(ref)) /\ Deleted(ref, op)
  BY <1>2 DEF adjust_reference, RefErrorOf, Reference, Bound, Open
<1>3. CASE ~(ref.kind \notin {"cell", "range"} \/ Reversed(ref)) /\ ~Deleted(ref, op)
  <2>1. adjust_cell_ref(ref.lo, op) \in Bound
    BY DEF adjust_cell_ref, adjust_insert, adjust_delete, InBand, Reference, Operation, Bound, Open
  <2>2. adjust_last(ref, op) \in Bound
    BY <1>3 DEF adjust_last, DeletedLast, Deleted, CellDeleted, Reversed, adjust_cell_ref,
                adjust_insert, adjust_delete, InBand, Reference, Operation, Bound, Open
  <2> QED
    BY <1>3, <2>1, <2>2 DEF adjust_reference, WithRows, Reference
<1> QED
  BY <1>1, <1>2, <1>3

\* adjust_reference keeps a formula's range on its rows: the adjusted range
\* covers row r exactly when r is one the range was about before the edit,
\* or an inserted row between two of them; it is #REF! only when every row
\* is deleted.
THEOREM RangeFollows ==
    ASSUME NEW ref \in Reference, CellShape(ref), IsPlain(ref), NEW op \in Operation, NEW r \in Nat
    PROVE  IF adjust_reference(ref, op).kind = "error" THEN ~IsAbout(ref, op, r)
           ELSE Covers(adjust_reference(ref, op), r) <=> IsAbout(ref, op, r)
<1> DEFINE lo == adjust_cell_ref(ref.lo, op)
           hi == adjust_last(ref, op)
<1>1. ~(ref.kind \notin {"cell", "range"} \/ Reversed(ref))
  BY DEF IsPlain, Reversed, Reference, Bound, Open
<1>2. CASE Deleted(ref, op)
  <2>1. adjust_reference(ref, op).kind = "error"
    BY <1>1, <1>2 DEF adjust_reference, RefErrorOf, Reference
  <2>2. ~IsAbout(ref, op, r)
    BY <1>2 DEF Deleted, CellDeleted, InBand, IsAbout, Follows, Covers, Reference, Operation,
                Bound, Open
  <2> QED
    BY <2>1, <2>2
<1>3. CASE ~Deleted(ref, op)
  <2>1. adjust_reference(ref, op) = WithRows(ref, lo, hi)
    BY <1>1, <1>3 DEF adjust_reference
  <2>2. adjust_reference(ref, op).kind # "error"
    BY <2>1, BoundsKept DEF IsPlain
  <2>3. ((lo = Open \/ lo <= r) /\ (hi = Open \/ r <= hi)) <=> IsAbout(ref, op, r)
    <3>1. CASE op.kind = "insert"
      BY <3>1 DEF IsPlain, adjust_last, adjust_cell_ref, adjust_insert, IsAbout, Follows, Covers,
                  Reference, Operation, Bound, Open
    <3>2. CASE op.kind = "delete" /\ ref.hi = Open
      BY <3>2 DEF IsPlain, adjust_last, adjust_cell_ref, adjust_delete, InBand, IsAbout, Follows,
                  Covers, Reference, Operation, Bound, Open
    <3>3. CASE op.kind = "delete" /\ ref.hi # Open
      BY <1>3, <3>3 DEF IsPlain, Deleted, CellDeleted, adjust_last, DeletedLast, adjust_cell_ref,
                  adjust_delete, InBand, IsAbout, Follows, Covers, Reference, Operation, Bound, Open
    <3> QED
      BY <3>1, <3>2, <3>3 DEF Operation
  <2> QED
    BY <2>1, <2>2, <2>3, BoundsKept DEF Covers
<1> QED
  BY <1>2, <1>3

----------------------------------------------------------------------------
(* Runs *)

\* Two references that agree on the bounds are the same after WithRows.
LEMMA SameRows ==
    ASSUME NEW ref \in Reference, NEW lo1, NEW hi1, NEW lo2, NEW hi2
    PROVE  WithRows(WithRows(ref, lo1, hi1), lo2, hi2) = WithRows(ref, lo2, hi2)
BY DEF WithRows, Reference

\* A reference with its own rows.
LEMMA OwnRows ==
    ASSUME NEW ref \in Reference
    PROVE  WithRows(ref, ref.lo, ref.hi) = ref
BY DEF WithRows, Reference

\* A relocated reference is a reference.
LEMMA RelocatedType ==
    ASSUME NEW ref \in Reference, NEW n \in Nat
    PROVE  Relocate(ref, n) \in Reference
<1>1. Slide(ref.lo, ref.loAbs, n) \in Bound /\ Slide(ref.hi, ref.hiAbs, n) \in Bound
  BY DEF Slide, Reference, Bound, Open
<1> QED
  BY <1>1 DEF Relocate, WithRows, Reference

\* Relocation slides the two bounds and nothing else.
LEMMA RelocatedBounds ==
    ASSUME NEW ref \in Reference, NEW n \in Nat
    PROVE  /\ Relocate(ref, n) \in Reference
           /\ Relocate(ref, n).kind = ref.kind
           /\ Relocate(ref, n).lo = Slide(ref.lo, ref.loAbs, n)
           /\ Relocate(ref, n).hi = Slide(ref.hi, ref.hiAbs, n)
BY RelocatedType, BoundsKept DEF Relocate

\* A bound that moves for the last member as for the first moves so for the
\* members between: an edit never stretches a distance it once shrank.
LEMMA BoundsBetween ==
    ASSUME NEW lo \in Bound, NEW loAbs \in BOOLEAN,
           NEW op \in Operation, NEW last \in Nat, NEW n \in 0..last,
           adjust_cell_ref(Slide(lo, loAbs, last), op) = Slide(adjust_cell_ref(lo, op), loAbs, last)
    PROVE  adjust_cell_ref(Slide(lo, loAbs, n), op) = Slide(adjust_cell_ref(lo, op), loAbs, n)
<1>1. CASE lo = Open \/ loAbs
  BY <1>1 DEF Bound, Open, Slide, adjust_cell_ref, adjust_insert, adjust_delete, InBand, Operation
<1>2. CASE lo \in Nat /\ ~loAbs /\ op.kind = "insert"
  BY <1>2 DEF Open, Slide, adjust_cell_ref, adjust_insert, Operation
<1>3. CASE lo \in Nat /\ ~loAbs /\ op.kind = "delete"
  BY <1>3 DEF Open, Slide, adjust_cell_ref, adjust_delete, InBand, Operation
<1> QED
  BY <1>1, <1>2, <1>3 DEF Bound, Operation

LEMMA LastBetween ==
    ASSUME NEW hi \in Bound, NEW hiAbs \in BOOLEAN, hi # Open,
           NEW op \in Operation, NEW last \in Nat, NEW n \in 0..last,
           op.kind = "delete", DeletedLast(hi, op) # Open,
           DeletedLast(Slide(hi, hiAbs, last), op) = Slide(DeletedLast(hi, op), hiAbs, last)
    PROVE  DeletedLast(Slide(hi, hiAbs, n), op) = Slide(DeletedLast(hi, op), hiAbs, n)
BY DEF Bound, Open, Slide, DeletedLast, adjust_delete, InBand, Operation

\* What adjust_reference leaves as it is.
Unmoved(ref, op) ==
    \/ Reversed(ref)
    \/ /\ ~Deleted(ref, op)
       /\ adjust_cell_ref(ref.lo, op) = ref.lo
       /\ adjust_last(ref, op) = ref.hi

LEMMA UnmovedIsUnchanged ==
    ASSUME NEW ref \in Reference, ref.kind \in {"cell", "range"}, NEW op \in Operation
    PROVE  adjust_reference(ref, op) = ref <=> Unmoved(ref, op)
<1>1. CASE Reversed(ref)
  BY <1>1 DEF adjust_reference, Unmoved
<1>2. CASE ~Reversed(ref) /\ Deleted(ref, op)
  <2>1. adjust_reference(ref, op).kind = "error"
    BY <1>2 DEF adjust_reference, RefErrorOf, Reference
  <2> QED
    BY <1>2, <2>1 DEF Unmoved
<1>3. CASE ~Reversed(ref) /\ ~Deleted(ref, op)
  <2>1. adjust_reference(ref, op) = WithRows(ref, adjust_cell_ref(ref.lo, op), adjust_last(ref, op))
    BY <1>3 DEF adjust_reference
  <2> QED
    BY <1>3, <2>1, BoundsKept, OwnRows DEF Unmoved
<1> QED
  BY <1>1, <1>2, <1>3

\* Members between two that are left as they are, are left as they are.
LEMMA UnmovedBetween ==
    ASSUME NEW ref \in Reference, NEW op \in Operation, NEW last \in Nat, NEW n \in 0..last,
           NEW mid \in Reference, NEW bottom \in Reference,
           mid.lo = Slide(ref.lo, ref.loAbs, n), mid.hi = Slide(ref.hi, ref.hiAbs, n),
           bottom.lo = Slide(ref.lo, ref.loAbs, last), bottom.hi = Slide(ref.hi, ref.hiAbs, last),
           Unmoved(ref, op), Unmoved(bottom, op)
    PROVE  Unmoved(mid, op)
<1>1. CASE op.kind = "insert"
  BY <1>1 DEF Unmoved, Reversed, Deleted, CellDeleted, Slide, adjust_last, adjust_cell_ref,
              adjust_insert, InBand, Reference, Operation, Bound, Open
<1>2. CASE op.kind = "delete"
  BY <1>2 DEF Unmoved, Reversed, Deleted, CellDeleted, Slide, adjust_last, DeletedLast,
              adjust_cell_ref, adjust_delete, InBand, Reference, Operation, Bound, Open
<1> QED
  BY <1>1, <1>2 DEF Operation

\* Members between two that keep their template keep theirs.
LEMMA MovedBetween ==
    ASSUME NEW ref \in Reference, NEW op \in Operation, NEW last \in Nat, NEW n \in 0..last,
           NEW mid \in Reference, NEW bottom \in Reference,
           mid.lo = Slide(ref.lo, ref.loAbs, n), mid.hi = Slide(ref.hi, ref.hiAbs, n),
           bottom.lo = Slide(ref.lo, ref.loAbs, last), bottom.hi = Slide(ref.hi, ref.hiAbs, last),
           ~Reversed(ref), ~Deleted(ref, op), ~Reversed(bottom), ~Deleted(bottom, op),
           adjust_cell_ref(bottom.lo, op) = Slide(adjust_cell_ref(ref.lo, op), ref.loAbs, last),
           adjust_last(bottom, op) = Slide(adjust_last(ref, op), ref.hiAbs, last)
    PROVE  /\ ~Reversed(mid) /\ ~Deleted(mid, op)
           /\ adjust_cell_ref(mid.lo, op) = Slide(adjust_cell_ref(ref.lo, op), ref.loAbs, n)
           /\ adjust_last(mid, op) = Slide(adjust_last(ref, op), ref.hiAbs, n)
<1>1. ~Reversed(mid)
  BY DEF Reversed, Slide, Reference, Bound, Open
<1>2. adjust_cell_ref(mid.lo, op) = Slide(adjust_cell_ref(ref.lo, op), ref.loAbs, n)
  BY BoundsBetween DEF Reference
<1>3. CASE op.kind = "insert"
  BY <1>1, <1>2, <1>3 DEF Deleted, CellDeleted, Slide, adjust_last, adjust_cell_ref, adjust_insert,
                          Reference, Operation, Bound, Open
<1>4. CASE op.kind = "delete"
  BY <1>1, <1>2, <1>4 DEF Reversed, Deleted, CellDeleted, Slide, adjust_last, DeletedLast,
              adjust_cell_ref, adjust_delete, InBand, Reference, Operation, Bound, Open
<1> QED
  BY <1>3, <1>4 DEF Operation

\* plan_part looks at the first and the last member of a run only; when it
\* lets the run be rewritten as a block, every member gets exactly the
\* reference that rewriting it alone would give (what the debug build
\* asserts member by member in debug_check_shifted_part).
THEOREM BlockIsPerCell ==
    ASSUME NEW ref \in Reference, NEW op \in Operation, NEW last \in Nat, NEW limit \in Nat,
           plan_part(ref, last, op, limit), NEW n \in 0..last
    PROVE  adjust_reference(Relocate(ref, n), op) = Relocate(adjust_reference(ref, op), n)
<1> DEFINE new == adjust_reference(ref, op)
           mid == Relocate(ref, n)
           bottom == Relocate(ref, last)
<1> n \in Nat
  OBVIOUS
<1>1. /\ mid \in Reference /\ mid.kind = ref.kind
      /\ mid.lo = Slide(ref.lo, ref.loAbs, n) /\ mid.hi = Slide(ref.hi, ref.hiAbs, n)
  BY RelocatedBounds
<1>2. /\ bottom \in Reference /\ bottom.kind = ref.kind
      /\ bottom.lo = Slide(ref.lo, ref.loAbs, last) /\ bottom.hi = Slide(ref.hi, ref.hiAbs, last)
  BY RelocatedBounds
<1>3. /\ (new # ref) <=> (adjust_reference(bottom, op) # bottom)
      /\ new # ref => new.kind # "error"
      /\ adjust_reference(bottom, op) = Relocate(new, last)
  BY DEF plan_part
<1>4. CASE ref.kind \notin {"cell", "range"}
  BY <1>1, <1>4 DEF adjust_reference
<1>5. CASE ref.kind \in {"cell", "range"} /\ new = ref
  <2>1. Unmoved(ref, op) /\ Unmoved(bottom, op)
    BY <1>2, <1>3, <1>5, UnmovedIsUnchanged
  <2>2. Unmoved(mid, op)
    BY <1>1, <1>2, <2>1, UnmovedBetween
  <2> QED
    BY <1>1, <1>5, <2>2, UnmovedIsUnchanged
<1>6. CASE ref.kind \in {"cell", "range"} /\ new # ref
  <2>1. ~Reversed(ref) /\ ~Deleted(ref, op)
    BY <1>3, <1>6 DEF adjust_reference, RefErrorOf, Reference
  <2>2. new = WithRows(ref, adjust_cell_ref(ref.lo, op), adjust_last(ref, op))
    BY <1>6, <2>1 DEF adjust_reference
  <2>3. \A k : Relocate(new, k) = WithRows(ref, Slide(adjust_cell_ref(ref.lo, op), ref.loAbs, k),
                                               Slide(adjust_last(ref, op), ref.hiAbs, k))
    BY <2>2, BoundsKept, SameRows DEF Relocate
  <2>4. Relocate(new, last).kind # "error"
    BY <1>6, <2>3, BoundsKept
  <2>5. ~Reversed(bottom) /\ ~Deleted(bottom, op)
    BY <1>2, <1>3, <1>6, <2>4 DEF adjust_reference, RefErrorOf, Reference
  <2>6. adjust_reference(bottom, op)
            = WithRows(bottom, adjust_cell_ref(bottom.lo, op), adjust_last(bottom, op))
    BY <1>2, <1>6, <2>5 DEF adjust_reference
  <2>7. /\ adjust_cell_ref(bottom.lo, op) = Slide(adjust_cell_ref(ref.lo, op), ref.loAbs, last)
        /\ adjust_last(bottom, op) = Slide(adjust_last(ref, op), ref.hiAbs, last)
    <3> DEFINE a == adjust_reference(bottom, op)
    <3>1. a.lo = adjust_cell_ref(bottom.lo, op) /\ a.hi = adjust_last(bottom, op)
      BY <1>2, <2>6, BoundsKept
    <3>2. /\ a.lo = Slide(adjust_cell_ref(ref.lo, op), ref.loAbs, last)
          /\ a.hi = Slide(adjust_last(ref, op), ref.hiAbs, last)
      BY <1>3, <2>3, BoundsKept
    <3> QED
      BY <3>1, <3>2
  <2>8. /\ ~Reversed(mid) /\ ~Deleted(mid, op)
        /\ adjust_cell_ref(mid.lo, op) = Slide(adjust_cell_ref(ref.lo, op), ref.loAbs, n)
        /\ adjust_last(mid, op) = Slide(adjust_last(ref, op), ref.hiAbs, n)
    BY <1>1, <1>2, <2>1, <2>5, <2>7, MovedBetween
  <2>9. adjust_reference(mid, op) = WithRows(mid, adjust_cell_ref(mid.lo, op), adjust_last(mid, op))
    BY <1>1, <1>6, <2>8 DEF adjust_reference
  <2>10. mid = WithRows(ref, Slide(ref.lo, ref.loAbs, n), Slide(ref.hi, ref.hiAbs, n))
    BY DEF Relocate
  <2> QED
    BY <2>3, <2>8, <2>9, <2>10, SameRows
<1> QED
  BY <1>4, <1>5, <1>6

----------------------------------------------------------------------------
(* Workbooks *)

OnRows(ref) == ref.lo \in Rows \cup {Open} /\ ref.hi \in Rows \cup {Open}

\* References the proof is about.
PlainRef(ref) ==
    /\ CellShape(ref)
    /\ IsRange(ref) => IsPlain(ref) /\ OnRows(ref)

Closed(ref) == ref.lo # Open /\ ref.hi # Open

PlainBooks ==
    \A w \in Workbooks : /\ \A n \in Nodes : PlainRef(w.text[n])
                         /\ IsRange(w.text[TheName]) => Closed(w.text[TheName])

\* The rows a reference covers.
CoveredRows(ref) == {r \in Rows : IsRange(ref) /\ Covers(ref, r)}

\* The inductive invariant.
RefsPlain ==
    /\ \A n \in Nodes : PlainRef(text[n])
    /\ IsRange(text[TheName]) => Closed(text[TheName])

IntentExact ==
    \A n \in Nodes : IsRange(text[n]) \/ n # TheName => intent[n] = CoveredRows(text[n])

IInv == TypeOK /\ book \in Workbooks /\ RefsPlain /\ RunsHold /\ IntentExact

----------------------------------------------------------------------------
(* One reference *)

\* Adjusting a reference whose bounds the edit leaves on the sheet keeps it
\* plain.
LEMMA AdjustedPlain ==
    ASSUME NEW ref \in Reference, PlainRef(ref), NEW op \in Operation,
           op.kind = "insert" /\ IsRange(ref) =>
               /\ ref.lo # Open => ref.lo + op.count <= MaxRow
               /\ ref.hi # Open => ref.hi + op.count <= MaxRow
    PROVE  PlainRef(adjust_reference(ref, op))
<1> USE EditAssumption
<1>1. CASE ~IsRange(ref)
  BY <1>1 DEF adjust_reference, IsRange
<1>2. CASE IsRange(ref) /\ Deleted(ref, op)
  <2>1. adjust_reference(ref, op).kind = "error"
    BY <1>2 DEF adjust_reference, RefErrorOf, Reference, IsRange, PlainRef, IsPlain, Reversed, Bound, Open
  <2> QED
    BY <2>1 DEF PlainRef, CellShape, IsRange
<1>3. CASE IsRange(ref) /\ ~Deleted(ref, op)
  <2> DEFINE new == adjust_reference(ref, op)
             lo == adjust_cell_ref(ref.lo, op)
             hi == adjust_last(ref, op)
  <2>1. new = WithRows(ref, lo, hi)
    BY <1>3 DEF adjust_reference, IsRange, PlainRef, IsPlain, Reversed, Reference, Bound, Open
  <2>2. new.lo = lo /\ new.hi = hi /\ new.kind = ref.kind /\ new.loAbs = ref.loAbs /\ new.hiAbs = ref.hiAbs
    BY <2>1, BoundsKept
  <2>3. /\ lo \in Rows \cup {Open} /\ hi \in Rows \cup {Open}
        /\ lo = Open => hi = Open
        /\ lo # Open /\ hi # Open => lo <= hi
        /\ ref.kind = "cell" => lo # Open /\ hi = lo
    <3>1. CASE op.kind = "insert"
      BY <1>3, <3>1 DEF PlainRef, IsPlain, OnRows, CellShape, Rows, adjust_last, adjust_cell_ref,
                        adjust_insert, Reference, Operation, Bound, Open
    <3>2. CASE op.kind = "delete"
      BY <1>3, <3>2 DEF PlainRef, IsPlain, OnRows, CellShape, Rows, Deleted, CellDeleted, adjust_last,
                        DeletedLast, adjust_cell_ref, adjust_delete, InBand, Reference, Operation,
                        Bound, Open
    <3> QED
      BY <3>1, <3>2 DEF Operation
  <2> QED
    BY <1>3, <2>2, <2>3 DEF PlainRef, CellShape, IsRange, IsPlain, OnRows
<1> QED
  BY <1>2, <1>3, <1>1

\* A name that is not invalidated is adjusted like a reference.
LEMMA NameAdjusted ==
    ASSUME NEW ref \in Reference, PlainRef(ref), IsRange(ref), Closed(ref), NEW op \in Operation
    PROVE  \/ adjust_named_definition(ref, op) = RefErrorOf(ref)
           \/ adjust_named_definition(ref, op) = adjust_reference(ref, op)
<1>1. CASE CellDeleted(ref.lo, op) \/ CellDeleted(ref.hi, op)
  BY <1>1 DEF adjust_named_definition, IsRange
<1>2. CASE ~(CellDeleted(ref.lo, op) \/ CellDeleted(ref.hi, op))
  <2>1. adjust_last(ref, op) = adjust_cell_ref(ref.hi, op)
    BY <1>2 DEF adjust_last, DeletedLast, adjust_cell_ref, adjust_delete, CellDeleted, InBand,
                Reference, Operation, Bound, Open
  <2>2. ~Reversed(ref) /\ ~Deleted(ref, op)
    BY <1>2 DEF Reversed, Deleted, PlainRef, IsPlain, Reference, Bound, Open
  <2> QED
    BY <1>2, <2>1, <2>2 DEF adjust_named_definition, adjust_reference, IsRange
<1> QED
  BY <1>1, <1>2

\* Nothing is pushed off the sheet (the guard of InsertRows).
Fits(op) ==
    op.kind = "insert" =>
        /\ \A n \in Nodes : IsRange(text[n]) =>
               /\ text[n].lo # Open => text[n].lo + op.count <= MaxRow
               /\ text[n].hi # Open => text[n].hi + op.count <= MaxRow
        /\ \A f \in Live : row[f] + op.count <= MaxRow

\* The history variable follows the rows a reference is about exactly as
\* adjust_reference does.
LEMMA IntentStep ==
    ASSUME IInv, NEW op \in Operation, NEW n \in Nodes, IsRange(text[n]) \/ n # TheName,
           PlainRef(adjust_reference(text[n], op))
    PROVE  Intended(op)[n] = CoveredRows(adjust_reference(text[n], op))
<1> DEFINE ref == text[n]
           new == adjust_reference(ref, op)
           Was(i) == i \in intent[n] \/ (i > MaxRow /\ IsRange(text[n]) /\ text[n].hi = Open)
<1> USE EditAssumption
<1>1. ref \in Reference /\ PlainRef(ref) /\ intent[n] = CoveredRows(ref)
  BY DEF IInv, TypeOK, RefsPlain, IntentExact
<1>2. Intended(op)[n] = {r \in Rows : Follows(Was, op, ref.lo = Open, r)}
  BY DEF Intended
<1>3. CASE ~IsRange(ref)
  <2>1. new = ref
    BY <1>3 DEF adjust_reference, IsRange
  <2>2. \A i : ~Was(i)
    BY <1>1, <1>3 DEF CoveredRows
  <2>3. \A r \in Rows : ~Follows(Was, op, ref.lo = Open, r)
    BY <2>2 DEF Follows
  <2> QED
    BY <1>2, <1>3, <2>1, <2>3 DEF CoveredRows
<1>4. CASE IsRange(ref)
  <2>1. \A i \in Nat : Was(i) <=> Covers(ref, i)
    BY <1>1, <1>4 DEF CoveredRows, PlainRef, OnRows, IsPlain, Covers, Rows, Reference, Bound, Open
  <2>2. \A r \in Rows : Follows(Was, op, ref.lo = Open, r) <=> IsAbout(ref, op, r)
    <3> SUFFICES ASSUME NEW r \in Rows
                 PROVE  Follows(Was, op, ref.lo = Open, r) <=> IsAbout(ref, op, r)
      OBVIOUS
    <3>1. /\ op.at \in Nat /\ op.count \in Nat /\ op.kind \in {"insert", "delete"} /\ r \in Nat
          /\ r + op.count \in Nat
          /\ r >= op.at + op.count => r - op.count \in Nat
          /\ op.at # 0 => op.at - 1 \in Nat
      BY DEF Operation, Rows
    <3> HIDE DEF Was
    <3> QED
      BY <2>1, <3>1 DEF Follows, IsAbout
  <2>3. new.kind = "error" \/ IsRange(new)
    BY <1>1, <1>4, BoundsKept DEF adjust_reference, RefErrorOf, IsRange, Reference
  <2>4. \A r \in Rows : (new.kind # "error" /\ Covers(new, r)) <=> IsAbout(ref, op, r)
    BY <1>1, <1>4, RangeFollows DEF PlainRef, Rows
  <2> QED
    BY <1>2, <2>2, <2>3, <2>4 DEF CoveredRows, IsRange
<1> QED
  BY <1>3, <1>4

----------------------------------------------------------------------------
(* Runs *)

LEMMA RelocateTwice ==
    ASSUME NEW ref \in Reference, NEW a \in Nat, NEW b \in Nat
    PROVE  Relocate(Relocate(ref, a), b) = Relocate(ref, a + b)
<1>1. /\ Slide(Slide(ref.lo, ref.loAbs, a), ref.loAbs, b) = Slide(ref.lo, ref.loAbs, a + b)
      /\ Slide(Slide(ref.hi, ref.hiAbs, a), ref.hiAbs, b) = Slide(ref.hi, ref.hiAbs, a + b)
  BY DEF Slide, Reference, Bound, Open
<1>2. /\ Relocate(ref, a).lo = Slide(ref.lo, ref.loAbs, a)
      /\ Relocate(ref, a).hi = Slide(ref.hi, ref.hiAbs, a)
      /\ Relocate(ref, a).loAbs = ref.loAbs /\ Relocate(ref, a).hiAbs = ref.hiAbs
  BY BoundsKept DEF Relocate
<1> QED
  BY <1>1, <1>2, SameRows DEF Relocate

\* An interval of a run is a run.
LEMMA PartOfRun ==
    ASSUME text \in [Nodes -> Reference], NEW run \in Formulas \X Formulas,
           row \in [Formulas -> Rows \cup {Gone}],
           OneTemplate(text, row, run), run[1] \in Members(run),
           NEW s \in SUBSET Members(run), NEW part \in Intervals(s)
    PROVE  /\ part \in Formulas \X Formulas /\ part[1] \in Members(part)
           /\ Members(part) \subseteq s
           /\ OneTemplate(text, row, part)
<1>1. part \in s \X s /\ part[1] <= part[2] /\ Members(part) \subseteq s
  BY DEF Intervals
<1>2. run[1] \in Nat /\ run[2] \in Nat /\ Members(run) \subseteq Formulas /\ Formulas \subseteq Nat
  BY EditAssumption DEF Members, Formulas
<1>3. part[1] \in s /\ part[2] \in s
  BY <1>1
<1>4. part \in Formulas \X Formulas
  BY <1>1, <1>2
<1>5. part[1] \in Members(part)
  <2>1. part[1] \in Nat /\ part[2] \in Nat
    BY <1>2, <1>3
  <2> QED
    BY <1>1, <2>1 DEF Members
<1>6. ASSUME NEW f \in Members(part)
      PROVE  /\ row[f] # Gone /\ row[f] = row[part[1]] + (f - part[1])
             /\ book.sheet[f] = book.sheet[part[1]] /\ book.fn[f] = book.fn[part[1]]
             /\ text[f] = Relocate(text[part[1]], f - part[1])
  <2>1. f \in Members(run) /\ part[1] \in Members(run)
    BY <1>1, <1>3
  <2>2. f \in Nat /\ part[1] \in Nat /\ f - part[1] \in Nat /\ part[1] - run[1] \in Nat
    BY <1>2, <2>1 DEF Members
  <2>3. (part[1] - run[1]) + (f - part[1]) = f - run[1]
    BY <1>2, <2>2
  <2>4. text[run[1]] \in Reference /\ row[run[1]] \in Int
    BY EditAssumption DEF Nodes, Rows, Gone
  <2>5. /\ text[f] = Relocate(text[run[1]], f - run[1])
        /\ text[part[1]] = Relocate(text[run[1]], part[1] - run[1])
        /\ row[f] # Gone /\ row[f] = row[run[1]] + (f - run[1])
        /\ row[part[1]] = row[run[1]] + (part[1] - run[1])
        /\ book.sheet[f] = book.sheet[run[1]] /\ book.fn[f] = book.fn[run[1]]
        /\ book.sheet[part[1]] = book.sheet[run[1]] /\ book.fn[part[1]] = book.fn[run[1]]
    BY <2>1 DEF OneTemplate
  <2>6. text[f] = Relocate(text[part[1]], f - part[1])
    BY <2>2, <2>3, <2>4, <2>5, RelocateTwice, ZenonT(60)
  <2>7. row[f] = row[part[1]] + (f - part[1])
    BY <1>2, <2>2, <2>4, <2>5
  <2> QED
    BY <2>5, <2>6, <2>7
<1> QED
  BY <1>1, <1>4, <1>5, <1>6 DEF OneTemplate

\* What the parts an edit treats as blocks have in common.
IsPart(part, op) ==
    /\ part \in Formulas \X Formulas /\ part[1] \in Members(part)
    /\ OneTemplate(text, row, part)
    /\ Members(part) \cap Removed(op) = {}

LEMMA PartsOfBlocks ==
    ASSUME IInv, NEW op \in Operation, NEW part \in BlocksFor(op)
    PROVE  /\ IsPart(part, op)
           /\ plan_part(text[part[1]], part[2] - part[1], op, RangeExpansionLimit)
           /\ op.kind = "insert" /\ OnSheet(part[1]) =>
                  \/ \A f \in Members(part) : row[f] >= op.at
                  \/ \A f \in Members(part) : ~(row[f] >= op.at)
<1> DEFINE gone == Removed(op) \cup RefErrors(op)
<1>1. PICK whole \in Without(runs, gone) : part \in split_for(whole, op)
  BY DEF BlocksFor, Blocks
<1>2. PICK run \in runs : whole \in Intervals(Members(run) \ gone)
  BY DEF Without
<1>3. /\ text \in [Nodes -> Reference] /\ row \in [Formulas -> Rows \cup {Gone}]
      /\ run \in Formulas \X Formulas /\ run[1] \in Members(run) /\ OneTemplate(text, row, run)
  BY DEF IInv, TypeOK, RunsHold
<1>4. IsPart(whole, op)
  <2>1. /\ whole \in Formulas \X Formulas /\ whole[1] \in Members(whole)
        /\ Members(whole) \subseteq Members(run) \ gone
        /\ OneTemplate(text, row, whole)
    BY <1>2, <1>3, PartOfRun
  <2> QED
    BY <2>1 DEF IsPart
<1>5. plan_part(text[part[1]], part[2] - part[1], op, RangeExpansionLimit)
  BY DEF BlocksFor, Blocks
<1>6. CASE ~(OnSheet(whole[1]) /\ op.kind = "insert")
  <2>1. part = whole
    BY <1>1, <1>6 DEF split_for
  <2> QED
    BY <1>4, <1>5, <1>6, <2>1
<1>7. CASE OnSheet(whole[1]) /\ op.kind = "insert"
  <2> DEFINE behind == {f \in Members(whole) : row[f] >= op.at}
  <2>1. part \in Intervals(Members(whole) \ behind) \/ part \in Intervals(behind)
    BY <1>1, <1>7 DEF split_for
  <2>2. PICK s \in {Members(whole) \ behind, behind} : part \in Intervals(s)
    BY <2>1
  <2>3. /\ part \in Formulas \X Formulas /\ part[1] \in Members(part)
        /\ Members(part) \subseteq s
        /\ OneTemplate(text, row, part)
    BY <1>3, <1>4, <2>2, PartOfRun DEF IsPart
  <2>4. IsPart(part, op)
    BY <1>4, <2>2, <2>3 DEF IsPart
  <2> QED
    BY <1>5, <2>2, <2>3, <2>4
<1> QED
  BY <1>6, <1>7

\* Whether it is rewritten alone or with its run, a formula gets the
\* reference adjust_reference gives it.
LEMMA AdjustedOneByOne ==
    ASSUME IInv, NEW op \in Operation, NEW n \in Formulas
    PROVE  Adjusted(op, BlocksFor(op))[n] = adjust_reference(text[n], op)
<1>0. n \in Nodes /\ n # TheName
  BY EditAssumption DEF Nodes, Formulas, TheName
<1>1. CASE ~\E part \in BlocksFor(op) : n \in Members(part)
  BY <1>0, <1>1 DEF Adjusted
<1>2. CASE \E part \in BlocksFor(op) : n \in Members(part)
  <2> DEFINE part == CHOOSE part \in BlocksFor(op) : n \in Members(part)
  <2>1. part \in BlocksFor(op) /\ n \in Members(part)
    BY <1>2
  <2>2. Adjusted(op, BlocksFor(op))[n] = Relocate(adjust_reference(text[part[1]], op), n - part[1])
    BY <1>0, <1>2 DEF Adjusted
  <2> HIDE DEF part
  <2>3. /\ part \in Formulas \X Formulas /\ OneTemplate(text, row, part)
        /\ plan_part(text[part[1]], part[2] - part[1], op, RangeExpansionLimit)
    BY <2>1, PartsOfBlocks DEF IsPart
  <2>4. part[1] \in Int /\ part[2] \in Int /\ text[part[1]] \in Reference
    BY <2>3, EditAssumption DEF IInv, TypeOK, Nodes, Formulas
  <2>5. part[2] - part[1] \in Nat /\ n - part[1] \in 0..(part[2] - part[1])
    BY <2>1, <2>4 DEF Members
  <2>6. text[n] = Relocate(text[part[1]], n - part[1])
    BY <2>1, <2>3 DEF OneTemplate
  <2> QED
    BY <2>2, <2>3, <2>4, <2>5, <2>6, BlockIsPerCell, EditAssumption
<1> QED
  BY <1>1, <1>2

\* Formulas that stay are put on rows of the sheet.
LEMMA PlacedOnRows ==
    ASSUME IInv, NEW op \in Operation, Fits(op)
    PROVE  /\ Placed(op) \in [Formulas -> Rows \cup {Gone}]
           /\ \A f \in Live \ Removed(op) : Placed(op)[f] \in Rows
<1> USE EditAssumption
<1>1. \A f \in Live : row[f] \in Rows
  BY DEF IInv, TypeOK, Live
<1>2. ASSUME NEW f \in Live \ Removed(op) PROVE Placed(op)[f] \in Rows
  <2>1. f \in Formulas /\ f \in Live /\ row[f] \in Rows
    BY <1>1 DEF Live
  <2>2. CASE f \notin Moved(op)
    BY <2>1, <2>2 DEF Placed
  <2>3. CASE f \in Moved(op)
    <3>1. OnSheet(f) /\ row[f] >= op.at
      BY <2>3 DEF Moved
    <3>2. ~CellDeleted(row[f], op)
      BY <2>1, <3>1 DEF Removed
    <3>3. op.kind = "insert" => row[f] + op.count <= MaxRow
      BY <2>1 DEF Fits
    <3>4. adjust_cell_ref(row[f], op) \in Rows
      BY <2>1, <3>1, <3>2, <3>3 DEF CellDeleted, adjust_cell_ref, adjust_insert, adjust_delete, InBand,
                                    Rows, Operation, Open
    <3> QED
      BY <2>1, <2>3, <3>4 DEF Placed
  <2> QED
    BY <2>2, <2>3
<1>3. \A f \in Formulas : f \notin Live => Placed(op)[f] = Gone
  BY DEF Placed, Removed, Moved, Live
<1>4. \A f \in Formulas : f \in Removed(op) => Placed(op)[f] = Gone
  BY DEF Placed
<1> QED
  BY <1>2, <1>3, <1>4 DEF Placed

\* The members of a part keep their distances.
LEMMA PlacedTogether ==
    ASSUME IInv, NEW op \in Operation, Fits(op), NEW part \in BlocksFor(op), NEW f \in Members(part)
    PROVE  /\ Placed(op)[f] # Gone
           /\ Placed(op)[f] = Placed(op)[part[1]] + (f - part[1])
<1> USE EditAssumption
<1>1. /\ IsPart(part, op) /\ part[1] \in Members(part) /\ part \in Formulas \X Formulas
      /\ \A g \in Members(part) : /\ row[g] # Gone /\ row[g] = row[part[1]] + (g - part[1])
                                  /\ book.sheet[g] = book.sheet[part[1]]
  BY PartsOfBlocks DEF IsPart, OneTemplate
<1>2. /\ part[1] \in Nat /\ part[2] \in Nat /\ Members(part) \subseteq Formulas
      /\ f \in Nat /\ part[1] <= f /\ f <= part[2]
  BY <1>1 DEF Members, Formulas
<1>3. \A g \in Members(part) : g \in Live /\ g \notin Removed(op) /\ row[g] \in Rows
  BY <1>1, <1>2 DEF IsPart, Live, IInv, TypeOK
<1>4. Placed(op)[f] # Gone
  BY <1>3, PlacedOnRows DEF Rows, Gone
<1>5. \A g \in Members(part) :
          Placed(op)[g] = IF OnSheet(g) /\ row[g] >= op.at THEN adjust_cell_ref(row[g], op) ELSE row[g]
  BY <1>2, <1>3 DEF Placed, Moved
<1> DEFINE Now(i) == IF OnSheet(f) /\ i >= op.at THEN adjust_cell_ref(i, op) ELSE i
<1>6. OnSheet(f) <=> OnSheet(part[1])
  BY <1>1 DEF OnSheet
<1>7. /\ row[f] = row[part[1]] + (f - part[1]) /\ row[f] \in Nat /\ row[part[1]] \in Nat
  BY <1>1, <1>3 DEF Rows
<1>8. Placed(op)[f] = Now(row[f]) /\ Placed(op)[part[1]] = Now(row[part[1]])
  BY <1>1, <1>5, <1>6
<1>9. CASE ~OnSheet(f)
  BY <1>4, <1>7, <1>8, <1>9
<1>10. CASE OnSheet(f) /\ op.kind = "insert"
  <2>1. (row[f] >= op.at) <=> (row[part[1]] >= op.at)
    BY <1>1, <1>6, <1>10, PartsOfBlocks
  <2> QED
    BY <1>2, <1>4, <1>7, <1>8, <1>10, <2>1 DEF adjust_cell_ref, adjust_insert, Operation, Open
<1>11. CASE OnSheet(f) /\ op.kind = "delete"
  <2>1. \A g \in Members(part) : ~InBand(row[g], op)
    BY <1>1, <1>3, <1>6, <1>11 DEF Removed, CellDeleted, OnSheet
  <2>2. ~(row[part[1]] < op.at /\ row[f] >= op.at)
    <3> SUFFICES ASSUME row[part[1]] < op.at, row[f] >= op.at PROVE FALSE
      OBVIOUS
    <3> DEFINE g == part[1] + (op.at - row[part[1]])
    <3>1. op.at \in Nat /\ op.count \in Nat \ {0}
      BY DEF Operation
    <3>2. g \in Members(part) /\ g - part[1] = op.at - row[part[1]]
      BY <1>2, <1>7, <3>1 DEF Members
    <3>3. row[g] = op.at
      BY <1>1, <1>7, <3>1, <3>2
    <3> QED
      BY <2>1, <3>1, <3>2, <3>3 DEF InBand
  <2>3. (row[f] >= op.at) <=> (row[part[1]] >= op.at)
    BY <1>2, <1>7, <2>2 DEF Operation
  <2>4. /\ row[f] >= op.at => row[f] >= op.at + op.count
        /\ row[part[1]] >= op.at => row[part[1]] >= op.at + op.count
    BY <1>1, <1>7, <2>1 DEF InBand, Operation
  <2> QED
    BY <1>2, <1>4, <1>7, <1>8, <1>11, <2>3, <2>4 DEF adjust_cell_ref, adjust_delete, Operation, Open
<1> QED
  BY <1>10, <1>11, <1>9 DEF Operation

----------------------------------------------------------------------------
(* Steps *)

\* References after an edit, and the rows they are about.
LEMMA ReferencesStep ==
    ASSUME IInv, NEW op \in Operation, Fits(op), NEW n \in Nodes,
           NEW t, t = Adjusted(op, BlocksFor(op))
    PROVE  /\ t[n] \in Reference /\ PlainRef(t[n])
           /\ n = TheName /\ IsRange(t[n]) => Closed(t[n])
           /\ IsRange(t[n]) \/ n # TheName => Intended(op)[n] = CoveredRows(t[n])
<1> DEFINE new == adjust_reference(text[n], op)
<1>1. /\ text[n] \in Reference /\ PlainRef(text[n])
  BY DEF IInv, TypeOK, RefsPlain
<1>2. new \in Reference /\ PlainRef(new)
  BY <1>1, AdjustedType, AdjustedPlain DEF Fits
<1>3. CASE n # TheName
  <2>1. n \in Formulas
    BY <1>3 DEF Nodes
  <2>2. t[n] = new
    BY <2>1, AdjustedOneByOne
  <2> QED
    BY <1>2, <1>3, <2>2, IntentStep
<1>4. CASE n = TheName /\ ~IsRange(text[n])
  <2>1. t[n] = text[n]
    BY <1>4 DEF Adjusted, adjust_named_definition, IsRange
  <2> QED
    BY <1>1, <1>4, <2>1
<1>5. CASE n = TheName /\ IsRange(text[n])
  <2>1. Closed(text[n])
    BY <1>5 DEF IInv, RefsPlain
  <2>2. t[n] = adjust_named_definition(text[n], op)
    BY <1>5 DEF Adjusted
  <2>3. CASE t[n] = RefErrorOf(text[n])
    <3>1. t[n] \in Reference /\ t[n].kind = "error"
      BY <1>1, <2>3 DEF RefErrorOf, Reference, Bound
    <3> QED
      BY <1>5, <3>1 DEF PlainRef, CellShape, IsRange
  <2>4. CASE t[n] = new /\ t[n] # RefErrorOf(text[n])
    <3>1. ~Deleted(text[n], op) /\ ~Reversed(text[n])
      BY <1>1, <1>5, <2>4 DEF adjust_reference, IsRange, PlainRef, IsPlain, Reversed, Reference, Bound,
                              Open
    <3>2. new.lo = adjust_cell_ref(text[n].lo, op) /\ new.hi = adjust_last(text[n], op)
      BY <1>1, <1>5, <3>1, BoundsKept DEF adjust_reference, IsRange
    <3>3. Closed(new)
      BY <1>1, <1>5, <2>1, <3>1, <3>2 DEF Closed, PlainRef, IsPlain, Deleted, CellDeleted, adjust_last,
             DeletedLast, adjust_cell_ref, adjust_insert, adjust_delete, InBand, Reference, Operation,
             Bound, Open
    <3> QED
      BY <1>2, <1>5, <2>4, <3>3, IntentStep
  <2> QED
    BY <1>1, <1>5, <2>1, <2>2, <2>3, <2>4, NameAdjusted
<1> QED
  BY <1>3, <1>4, <1>5

\* An edit preserves the invariant.
LEMMA EditStep ==
    ASSUME IInv, NEW op \in Operation, Fits(op), NEW occupied, EditRows(op, occupied)
    PROVE  IInv'
<1> USE EditAssumption
<1>1. /\ text' = Adjusted(op, BlocksFor(op)) /\ row' = Placed(op) /\ runs' = BlocksFor(op)
      /\ intent' = Intended(op) /\ book' = book /\ data' = Shifted(op)
      /\ edits < MaxEdits /\ edits' = edits + 1
  BY DEF EditRows
<1>2. \A n \in Nodes :
          /\ text'[n] \in Reference /\ PlainRef(text'[n])
          /\ n = TheName /\ IsRange(text'[n]) => Closed(text'[n])
          /\ IsRange(text'[n]) \/ n # TheName => intent'[n] = CoveredRows(text'[n])
  BY <1>1, ReferencesStep
<1>3. TheName \in Nodes
  BY DEF Nodes
<1>4. TypeOK'
  <2>1. data' \in [Rows -> Values \cup {Empty}]
    BY <1>1 DEF Shifted, IInv, TypeOK, Rows, Operation
  <2>2. row' \in [Formulas -> Rows \cup {Gone}]
    BY <1>1, PlacedOnRows
  <2>3. text' \in [Nodes -> Reference]
    BY <1>1, <1>2 DEF Adjusted
  <2>4. runs' \subseteq Formulas \X Formulas
    BY <1>1, PartsOfBlocks DEF IsPart
  <2>5. dirty' \subseteq Live'
    <3>1. dirty' \subseteq Live \ Removed(op)
      BY DEF EditRows, Marked
    <3>2. \A f \in Live \ Removed(op) : f \in Formulas /\ row'[f] # Gone
      BY <1>1, PlacedOnRows DEF Live, Rows, Gone
    <3> QED
      BY <3>1, <3>2 DEF Live
  <2>6. intent' \in [Nodes -> SUBSET Rows]
    BY <1>1 DEF Intended
  <2>7. edits' \in 0..MaxEdits
    BY <1>1 DEF IInv, TypeOK
  <2> QED
    BY <2>1, <2>2, <2>3, <2>4, <2>5, <2>6, <2>7 DEF TypeOK
<1>5. RunsHold'
  <2> SUFFICES ASSUME NEW part \in BlocksFor(op)
               PROVE  /\ part[1] \in Members(part)
                      /\ \A f \in Members(part) :
                             /\ row'[f] # Gone /\ row'[f] = row'[part[1]] + (f - part[1])
                             /\ book'.sheet[f] = book'.sheet[part[1]]
                             /\ book'.fn[f] = book'.fn[part[1]]
                             /\ text'[f] = Relocate(text'[part[1]], f - part[1])
    BY <1>1 DEF RunsHold, OneTemplate, Members
  <2>1. /\ part \in Formulas \X Formulas /\ part[1] \in Members(part)
        /\ OneTemplate(text, row, part)
        /\ plan_part(text[part[1]], part[2] - part[1], op, RangeExpansionLimit)
    BY PartsOfBlocks DEF IsPart
  <2>2. /\ part[1] \in Nat /\ part[2] \in Nat /\ part[1] <= part[2] /\ part[1] \in Formulas
        /\ Members(part) \subseteq Formulas
    BY <2>1 DEF Members, Formulas
  <2>3. ASSUME NEW f \in Members(part)
        PROVE  /\ row'[f] # Gone /\ row'[f] = row'[part[1]] + (f - part[1])
               /\ book'.sheet[f] = book'.sheet[part[1]] /\ book'.fn[f] = book'.fn[part[1]]
               /\ text'[f] = Relocate(text'[part[1]], f - part[1])
    <3>1. row'[f] # Gone /\ row'[f] = row'[part[1]] + (f - part[1])
      BY <1>1, PlacedTogether
    <3>2. /\ book.sheet[f] = book.sheet[part[1]] /\ book.fn[f] = book.fn[part[1]]
          /\ text[f] = Relocate(text[part[1]], f - part[1])
      BY <2>1 DEF OneTemplate
    <3>3. f - part[1] \in 0..(part[2] - part[1]) /\ part[2] - part[1] \in Nat
      BY <2>2 DEF Members
    <3>4. text[part[1]] \in Reference
      BY <2>2 DEF IInv, TypeOK, Nodes
    <3>5. adjust_reference(text[f], op) = Relocate(adjust_reference(text[part[1]], op), f - part[1])
      BY <2>1, <3>2, <3>3, <3>4, BlockIsPerCell
    <3>6. text'[f] = adjust_reference(text[f], op) /\ text'[part[1]] = adjust_reference(text[part[1]], op)
      BY <1>1, <2>2, AdjustedOneByOne
    <3> QED
      BY <1>1, <3>1, <3>2, <3>5, <3>6
  <2> QED
    BY <2>1, <2>3
<1>6. RefsPlain'
  BY <1>2, <1>3 DEF RefsPlain, PlainRef, IsRange, Closed, CellShape, IsPlain, OnRows, Rows
<1>7. IntentExact'
  BY <1>2 DEF IntentExact, CoveredRows, IsRange, Covers, Rows
<1>8. book' \in Workbooks
  BY <1>1 DEF IInv
<1> QED
  BY <1>4, <1>5, <1>6, <1>7, <1>8 DEF IInv

\* The guards of the two edits.
LEMMA InsertFits ==
    ASSUME IInv, NEW at \in Rows, NEW count \in 1..MaxCount, InsertRows(at, count),
           NEW op, op = [kind |-> "insert", at |-> at, count |-> count]
    PROVE  op \in Operation /\ Fits(op) /\ \E occupied \in Occupancies : EditRows(op, occupied)
<1>1. op \in Operation
  BY EditAssumption DEF Operation, Rows
<1>2. \A i \in Rows : ~(i + count <= MaxRow) => i > MaxRow - count
  BY EditAssumption DEF Rows
<1>3. ASSUME NEW n \in Nodes, IsRange(text[n])
      PROVE  /\ text[n].lo # Open => text[n].lo + count <= MaxRow
             /\ text[n].hi # Open => text[n].hi + count <= MaxRow
  <2>1. text[n].lo \in Rows \cup {Open} /\ text[n].hi \in Rows \cup {Open}
    BY <1>3 DEF IInv, RefsPlain, PlainRef, OnRows
  <2> QED
    BY <1>2, <2>1 DEF InsertRows
<1>4. ASSUME NEW f \in Live
      PROVE  row[f] + count <= MaxRow
  <2>1. row[f] \in Rows
    BY DEF IInv, TypeOK, Live
  <2> QED
    BY <1>2, <2>1 DEF InsertRows
<1>5. Fits(op)
  BY <1>3, <1>4 DEF Fits
<1> QED
  BY <1>1, <1>5 DEF InsertRows

LEMMA DeleteFits ==
    ASSUME NEW at \in Rows, NEW count \in 1..MaxCount, DeleteRows(at, count),
           NEW op, op = [kind |-> "delete", at |-> at, count |-> count]
    PROVE  op \in Operation /\ Fits(op) /\ \E occupied \in Occupancies : EditRows(op, occupied)
BY EditAssumption DEF Operation, Rows, Fits, DeleteRows

\* Runs that are formed are runs.
LEMMA FormedRuns ==
    ASSUME NEW run \in RunsOf(text, row)
    PROVE  run \in Formulas \X Formulas /\ run[1] \in Members(run) /\ OneTemplate(text, row, run)
BY EditAssumption DEF RunsOf, Members, Formulas

\* The first state satisfies the invariant.
LEMMA InitInvariant ==
    ASSUME PlainBooks, Init
    PROVE  IInv
<1> USE EditAssumption
<1>1. book \in Workbooks /\ row = book.row /\ text = book.text
  BY DEF Init
<1>2. TypeOK
  <2>1. row \in [Formulas -> Rows] /\ text \in [Nodes -> Reference]
    BY <1>1
  <2>2. runs \subseteq Formulas \X Formulas
    BY FormedRuns DEF Init
  <2>3. dirty \subseteq Live
    BY <2>1 DEF Init, Live, Rows, Gone
  <2> QED
    BY <2>1, <2>2, <2>3 DEF Init, TypeOK
<1>3. RefsPlain
  BY <1>1 DEF PlainBooks, RefsPlain
<1>4. RunsHold
  BY FormedRuns DEF Init, RunsHold
<1>5. IntentExact
  BY DEF Init, IntentExact, CoveredRows
<1> QED
  BY <1>1, <1>2, <1>3, <1>4, <1>5 DEF IInv

\* Steps that leave the references alone.
LEMMA SetValueStep ==
    ASSUME IInv, NEW r \in Rows, NEW v \in Values \cup {Empty}, SetValue(r, v)
    PROVE  IInv'
<1>1. TypeOK'
  BY DEF IInv, TypeOK, SetValue, Live
<1>2. RefsPlain' /\ RunsHold' /\ IntentExact' /\ (book \in Workbooks)'
  BY DEF IInv, SetValue, RefsPlain, RunsHold, OneTemplate, IntentExact
<1> QED
  BY <1>1, <1>2 DEF IInv

LEMMA EvaluateStep ==
    ASSUME IInv, Evaluate
    PROVE  IInv'
<1>1. runs' = RunsOf(text, row) /\ UNCHANGED <<book, data, row, text, intent, edits>> /\ dirty' = {}
  BY DEF Evaluate
<1>2. TypeOK'
  BY <1>1, FormedRuns DEF IInv, TypeOK
<1>3. RunsHold'
  BY <1>1, FormedRuns DEF RunsHold, OneTemplate
<1>4. RefsPlain' /\ IntentExact' /\ (book \in Workbooks)'
  BY <1>1 DEF IInv, RefsPlain, IntentExact
<1> QED
  BY <1>2, <1>3, <1>4 DEF IInv

\* The invariant is inductive.
THEOREM EditInvariance == ASSUME PlainBooks PROVE Spec => []IInv
<1>1. Init => IInv
  BY InitInvariant
<1>2. IInv /\ [Next]_vars => IInv'
  <2> SUFFICES ASSUME IInv, [Next]_vars PROVE IInv'
    OBVIOUS
  <2>1. CASE \E r \in Rows, v \in Values \cup {Empty} : SetValue(r, v)
    BY <2>1, SetValueStep
  <2>2. CASE Evaluate
    BY <2>2, EvaluateStep
  <2>3. CASE \E at \in Rows, count \in 1..MaxCount : InsertRows(at, count)
    BY <2>3, InsertFits, EditStep
  <2>4. CASE \E at \in Rows, count \in 1..MaxCount : DeleteRows(at, count)
    BY <2>4, DeleteFits, EditStep
  <2>5. CASE UNCHANGED vars
    BY <2>5 DEF vars, IInv, TypeOK, Live, RefsPlain, RunsHold, OneTemplate, IntentExact
  <2> QED
    BY <2>1, <2>2, <2>3, <2>4, <2>5 DEF Next
<1> QED
  BY <1>1, <1>2, PTL DEF Spec

\* Row edits keep every variable in its type (EditRows of insert_rows and
\* delete_rows, set_cell_value, evaluate_all).
THEOREM EditTypeCorrect == ASSUME PlainBooks PROVE Spec => []TypeOK
<1>1. IInv => TypeOK
  BY DEF IInv
<1> QED
  BY <1>1, EditInvariance, PTL

\* Whatever row edits are made, formulas and names refer to the rows they
\* were about, whether adjust_reference rewrites them one by one or
\* shift_virtual_runs rewrites their run from its first and last member.
THEOREM ReferencesAlwaysFollow == ASSUME PlainBooks PROVE Spec => []RefsFollow
<1>1. IInv => RefsFollow
  <2> SUFFICES ASSUME IInv, NEW n \in Live \cup {TheName}
               PROVE  /\ IsRange(text[n]) => {r \in Rows : Covers(text[n], r)} = intent[n]
                      /\ IsRange(text[n]) => intent[n] # {}
                      /\ text[n].kind = "error" => intent[n] = {} \/ n = TheName
    BY DEF RefsFollow
  <2>1. n \in Nodes
    BY DEF Live, Nodes
  <2>2. IsRange(text[n]) \/ n # TheName => intent[n] = CoveredRows(text[n])
    BY <2>1 DEF IInv, IntentExact
  <2>3. IsRange(text[n]) => {r \in Rows : Covers(text[n], r)} = intent[n]
    BY <2>2 DEF CoveredRows
  <2>4. IsRange(text[n]) => \E r \in Rows : Covers(text[n], r)
    <3> SUFFICES ASSUME IsRange(text[n]) PROVE \E r \in Rows : Covers(text[n], r)
      OBVIOUS
    <3>1. IsPlain(text[n]) /\ OnRows(text[n])
      BY <2>1 DEF IInv, RefsPlain, PlainRef
    <3>2. CASE text[n].lo = Open
      <4>1. 0 \in Rows /\ Covers(text[n], 0)
        BY <3>1, <3>2, EditAssumption DEF Rows, IsPlain, Covers
      <4> QED
        BY <4>1
    <3>3. CASE text[n].lo # Open
      <4>1. text[n].lo \in Rows /\ Covers(text[n], text[n].lo)
        BY <3>1, <3>3, EditAssumption DEF Rows, IsPlain, OnRows, Covers
      <4> QED
        BY <4>1
    <3> QED
      BY <3>2, <3>3
  <2>5. text[n].kind = "error" => intent[n] = {} \/ n = TheName
    BY <2>2 DEF CoveredRows, IsRange
  <2> QED
    BY <2>3, <2>4, <2>5
<1> QED
  BY <1>1, EditInvariance, PTL

\* A run always stands for its members: live formulas one below the other,
\* each with the first one's reference relocated (shift_virtual_runs,
\* split_for, and removal of single members).
THEOREM RunsAlwaysHold == ASSUME PlainBooks PROVE Spec => []RunsHold
<1>1. IInv => RunsHold
  BY DEF IInv
<1> QED
  BY <1>1, EditInvariance, PTL

\* Rows, references and runs stay well formed, and runs stand for their
\* members, after any sequence of row edits.
THEOREM RunsStayOK == ASSUME PlainBooks PROVE Spec => []RunsOK
<1>1. TypeOK /\ RunsHold => RunsOK
  BY DEF RunsOK
<1> QED BY <1>1, EditTypeCorrect, RunsAlwaysHold, PTL

----------------------------------------------------------------------------
(* Marks: a formula that is not dirty is fresh                             *)
(*                                                                         *)
(* A result is a recursive function of the references, the rows and the    *)
(* values; here it takes them as arguments, so that the results before and *)
(* after an edit can be compared.                                          *)

LiveAt(at) == {f \in Formulas : at[f] # Gone}

\* The range a formula reads.
Target(t, f) == IF t[f].kind = "name" THEN t[TheName] ELSE t[f]

ReadAt(d, at, ref, val) ==
    IF ref.col = "A"
    THEN {<<r - First(ref), d[r]>> : r \in {r \in Rows : Covers(ref, r) /\ d[r] # Empty}}
    ELSE {<<at[f] - First(ref), val[f]>> :
             f \in {f \in LiveAt(at) : OnSheet(f) /\ Covers(ref, at[f])}}

ResultAt(d, at, t, f, val) ==
    IF Target(t, f).kind = "error" THEN RefError
    ELSE IF book.fn[f] = "row" THEN {<<First(Target(t, f)), RowMark>>}
    ELSE ReadAt(d, at, Target(t, f), val)

\* The results g of the formulas in D; the others have those of v.
Solves(d, at, t, D, v, g) ==
    g = [f \in Formulas |-> IF f \in D THEN ResultAt(d, at, t, f, g) ELSE v[f]]

\* The result of f is computed from that of m.
Uses(at, t, f, m) ==
    /\ m \in LiveAt(at) /\ OnSheet(m)
    /\ Target(t, f).kind # "error" /\ Target(t, f).col # "A" /\ Covers(Target(t, f), at[m])

\* There is no cycle.
Ranked(at, t, rank) ==
    /\ rank \in [Formulas -> 0..N]
    /\ \A f, m \in Formulas : Uses(at, t, f, m) => rank[m] < rank[f]

\* A set of numbers has a least element.
LEMMA LeastNumber ==
    ASSUME NEW S \in SUBSET Nat, S # {}
    PROVE  \E x \in S : \A y \in S : x <= y
<1> DEFINE R == OpToRel(<, Nat)
<1>1. IsWellFoundedOn(R, Nat)
  BY NatLessThanWellFounded
<1>2. \A x, y \in Nat : y < x => <<y, x>> \in R
  BY DEF OpToRel
<1> HIDE DEF R
<1>3. PICK x \in S : \A y \in S : ~(<<y, x>> \in R)
  BY <1>1, WFMin
<1>4. \A y \in S : ~(y < x)
  BY <1>2, <1>3, Zenon
<1> QED BY <1>4

\* A set of formulas has one that uses no other of the set.
LEMMA LeastFormula ==
    ASSUME NEW at, NEW t, NEW rank, Ranked(at, t, rank), NEW S \in SUBSET Formulas, S # {}
    PROVE  \E f \in S : \A m \in Formulas : Uses(at, t, f, m) => m \notin S
<1> DEFINE T == {rank[f] : f \in S}
<1>1. T \in SUBSET Nat /\ T # {}
  BY EditAssumption DEF Ranked
<1>2. PICK x \in T : \A y \in T : x <= y
  <2> HIDE DEF T
  <2> QED BY <1>1, LeastNumber
<1>3. PICK f \in S : rank[f] = x
  OBVIOUS
<1>4. \A m \in S : ~(rank[m] < rank[f])
  <2> TAKE m \in S
  <2>1. rank[m] \in T /\ rank[m] \in Nat /\ rank[f] \in Nat
    BY EditAssumption DEF Ranked
  <2> QED BY <1>2, <1>3, <2>1
<1> QED BY <1>3, <1>4 DEF Ranked

\* A result depends on nothing but the results it uses.
LEMMA ResultOfUsed ==
    ASSUME NEW d, NEW at, NEW t, NEW f \in Formulas, NEW g, NEW h,
           \A m \in Formulas : Uses(at, t, f, m) => g[m] = h[m]
    PROVE  ResultAt(d, at, t, f, g) = ResultAt(d, at, t, f, h)
<1> DEFINE ref == Target(t, f)
<1>1. CASE ref.kind = "error" \/ book.fn[f] = "row"
  BY <1>1 DEF ResultAt
<1>2. CASE ~(ref.kind = "error" \/ book.fn[f] = "row") /\ ref.col = "A"
  BY <1>2 DEF ResultAt, ReadAt
<1>3. CASE ~(ref.kind = "error" \/ book.fn[f] = "row") /\ ref.col # "A"
  <2>1. \A m \in {m \in LiveAt(at) : OnSheet(m) /\ Covers(ref, at[m])} : g[m] = h[m]
    BY <1>3 DEF Uses, LiveAt
  <2>2. ReadAt(d, at, ref, g) = ReadAt(d, at, ref, h)
    <3> HIDE DEF ref
    <3> QED BY <1>3, <2>1 DEF ReadAt
  <2> QED BY <1>3, <2>2 DEF ResultAt
<1> QED BY <1>1, <1>2, <1>3

\* Without a cycle there are results.
LEMMA SolutionExists ==
    ASSUME NEW d, NEW at, NEW t, NEW rank, Ranked(at, t, rank), NEW D, NEW v
    PROVE  \E g : Solves(d, at, t, D, v, g)
<1> DEFINE Want(f, g) == IF f \in D THEN ResultAt(d, at, t, f, g) ELSE v[f]
           Has(k) == \E g : g = [f \in Formulas |-> g[f]]
                            /\ \A f \in Formulas : rank[f] < k => g[f] = Want(f, g)
           T == {k \in Nat : ~Has(k)}
<1> USE EditAssumption
<1>0. rank \in [Formulas -> 0..N]
  BY DEF Ranked
<1>1. Has(0)
  <2> DEFINE g == [f \in Formulas |-> v]
  <2>1. g = [f \in Formulas |-> g[f]] /\ \A f \in Formulas : rank[f] < 0 => g[f] = Want(f, g)
    BY <1>0
  <2> QED BY <2>1
<1>2. ASSUME NEW k \in Nat, Has(k) PROVE Has(k + 1)
  <2>1. PICK g : \A f \in Formulas : rank[f] < k => g[f] = Want(f, g)
    BY <1>2
  <2> DEFINE h == [f \in Formulas |-> IF rank[f] < k THEN g[f] ELSE Want(f, g)]
  <2>2. ASSUME NEW f \in Formulas, rank[f] < k + 1 PROVE h[f] = Want(f, h)
    <3>1. h[f] = Want(f, g)
      BY <2>1
    <3>2. \A m \in Formulas : Uses(at, t, f, m) => h[m] = g[m]
      <4> TAKE m \in Formulas
      <4> HAVE Uses(at, t, f, m)
      <4>1. rank[m] < rank[f] /\ rank[m] \in Nat /\ rank[f] \in Nat
        BY <1>0 DEF Ranked
      <4>2. rank[m] < k
        BY <2>2, <4>1
      <4> QED BY <4>2
    <3>3. ResultAt(d, at, t, f, h) = ResultAt(d, at, t, f, g)
      <4> HIDE DEF h
      <4> QED BY <3>2, ResultOfUsed
    <3> HIDE DEF h
    <3> QED BY <3>1, <3>3
  <2>3. h = [f \in Formulas |-> h[f]]
    OBVIOUS
  <2> HIDE DEF h
  <2> QED BY <2>2, <2>3
<1>3. T = {}
  <2> SUFFICES ASSUME T # {} PROVE FALSE
    OBVIOUS
  <2>1. T \in SUBSET Nat
    OBVIOUS
  <2>2. PICK k \in T : \A y \in T : k <= y
    <3> HIDE DEF T
    <3> QED BY <2>1, LeastNumber
  <2> HIDE DEF Has
  <2>3. k # 0 /\ k \in Nat /\ ~Has(k)
    BY <1>1
  <2>4. k - 1 \in Nat /\ k - 1 \notin T
    BY <2>2, <2>3
  <2>5. Has((k - 1) + 1)
    BY <1>2, <2>4
  <2> QED BY <2>3, <2>5
<1>4. Has(N + 1)
  <2> HIDE DEF Has
  <2> QED BY <1>3
<1>5. PICK g : g = [f \in Formulas |-> g[f]]
               /\ \A f \in Formulas : rank[f] < N + 1 => g[f] = Want(f, g)
  BY <1>4
<1>6. \A f \in Formulas : g[f] = Want(f, g)
  <2> HIDE DEF Want
  <2> TAKE f \in Formulas
  <2>1. rank[f] \in 0..N /\ N \in Nat
    BY <1>0
  <2>2. rank[f] < N + 1
    BY ONLY <2>1
  <2> QED BY <1>5, <2>2
<1>7. g = [f \in Formulas |-> Want(f, g)]
  <2> HIDE DEF Want
  <2> QED BY <1>5, <1>6
<1> QED BY <1>7 DEF Solves

\* The results a recalculation of everything gives.
ExactAt(d, at, t) == CHOOSE g : g = [f \in Formulas |-> ResultAt(d, at, t, f, g)]

LEMMA ExactSolves ==
    ASSUME NEW d, NEW at, NEW t, NEW rank, Ranked(at, t, rank)
    PROVE  \A f \in Formulas : ExactAt(d, at, t)[f] = ResultAt(d, at, t, f, ExactAt(d, at, t))
<1>1. PICK g : Solves(d, at, t, Formulas, <<>>, g)
  BY SolutionExists
<1>2. g = [f \in Formulas |-> ResultAt(d, at, t, f, g)]
  BY <1>1 DEF Solves
<1>3. ExactAt(d, at, t) = [f \in Formulas |-> ResultAt(d, at, t, f, ExactAt(d, at, t))]
  BY <1>2 DEF ExactAt
<1> QED BY <1>3

\* The definitions of the model in these terms.
LEMMA ResultIs ==
    ASSUME NEW f \in Formulas, NEW val
    PROVE  Result(f, val) = ResultAt(data, row, text, f, val)
<1>1. \A ref : Read(ref, val) = ReadAt(data, row, ref, val)
  BY DEF Read, ReadAt, LiveAt, Live
<1>2. (IF text[f].kind = "name" THEN text[TheName] ELSE text[f]) = Target(text, f)
  BY DEF Target
<1> QED BY <1>1, <1>2 DEF Result, ResultAt

LEMMA ExactIs == Exact = ExactAt(data, row, text)
<1>1. \A g : [f \in Formulas |-> Result(f, g)] = [f \in Formulas |-> ResultAt(data, row, text, f, g)]
  BY ResultIs
<1> QED BY <1>1 DEF Exact, ExactAt

LEMMA RecalculatedSolves ==
    ASSUME NEW rank, Ranked(row, text, rank)
    PROVE  Solves(data, row, text, dirty, value, Recalculated)
<1> DEFINE Want(g) == [f \in Formulas |->
                          IF f \in dirty THEN ResultAt(data, row, text, f, g) ELSE value[f]]
<1>0. \E g : Solves(data, row, text, dirty, value, g)
  BY SolutionExists
<1>1. PICK g : g = Want(g)
  BY <1>0 DEF Solves
<1>2. \A h : [f \in Formulas |-> IF f \in dirty THEN Result(f, h) ELSE value[f]] = Want(h)
  BY ResultIs
<1>3. Recalculated = CHOOSE h : h = Want(h)
  <2> HIDE DEF Want
  <2> QED BY <1>2 DEF Recalculated
<1>4. Recalculated = Want(Recalculated)
  <2> HIDE DEF Want
  <2> QED BY <1>1, <1>3
<1> QED BY <1>4 DEF Solves

----------------------------------------------------------------------------
(* The closure of marks is closed *)

\* reach[0..n] are the rounds of Closure.
Rounds(t, at, seeds, n, reach) ==
    reach = [k \in 0..n |-> IF k = 0 THEN seeds
                            ELSE reach[k - 1] \cup Readers(t, at, reach[k - 1])]

LEMMA RoundsExist ==
    ASSUME NEW t, NEW at, NEW seeds, NEW n \in Nat
    PROVE  \E reach : Rounds(t, at, seeds, n, reach)
<1> DEFINE Has(m) == \E reach : Rounds(t, at, seeds, m, reach)
           T == {m \in Nat : ~Has(m)}
<1>1. Has(0)
  <2> DEFINE reach == [k \in 0..0 |-> seeds]
  <2>1. Rounds(t, at, seeds, 0, reach)
    BY DEF Rounds
  <2> QED BY <2>1
<1>2. ASSUME NEW m \in Nat, Has(m) PROVE Has(m + 1)
  <2>1. PICK reach : Rounds(t, at, seeds, m, reach)
    BY <1>2
  <2> DEFINE next == reach[m] \cup Readers(t, at, reach[m])
             more == [k \in 0..m + 1 |-> IF k = m + 1 THEN next ELSE reach[k]]
  <2>2. ASSUME NEW k \in 0..m + 1
        PROVE  more[k] = IF k = 0 THEN seeds ELSE more[k - 1] \cup Readers(t, at, more[k - 1])
    <3>1. CASE k = m + 1
      BY <3>1
    <3>2. CASE k # m + 1
      <4>1. k \in 0..m /\ (k # 0 => k - 1 \in 0..m /\ k - 1 # m + 1)
        BY <3>2
      <4>2. reach[k] = IF k = 0 THEN seeds ELSE reach[k - 1] \cup Readers(t, at, reach[k - 1])
        BY <2>1, <4>1 DEF Rounds
      <4>3. more[k] = reach[k] /\ (k # 0 => more[k - 1] = reach[k - 1])
        <5> HIDE DEF next
        <5> QED BY <4>1, <3>2
      <4> HIDE DEF more
      <4> QED BY <4>2, <4>3
    <3> QED BY <3>1, <3>2
  <2>3. Rounds(t, at, seeds, m + 1, more)
    <3>1. more = [k \in 0..m + 1 |-> more[k]]
      OBVIOUS
    <3> HIDE DEF more
    <3> QED BY <2>2, <3>1 DEF Rounds
  <2> QED BY <2>3
<1>3. T = {}
  <2> SUFFICES ASSUME T # {} PROVE FALSE
    OBVIOUS
  <2>1. T \in SUBSET Nat
    OBVIOUS
  <2>2. PICK k \in T : \A y \in T : k <= y
    <3> HIDE DEF T
    <3> QED BY <2>1, LeastNumber
  <2> HIDE DEF Has
  <2>3. k # 0 /\ k \in Nat /\ ~Has(k)
    BY <1>1
  <2>4. k - 1 \in Nat /\ k - 1 \notin T
    BY <2>2, <2>3
  <2>5. Has((k - 1) + 1)
    BY <1>2, <2>4
  <2> QED BY <2>3, <2>5
<1> QED
  <2> HIDE DEF Has
  <2>1. Has(n)
    BY <1>3
  <2> QED BY <2>1 DEF Has

\* Readers of nodes in a set are among the readers of the set.
LEMMA ReadersGrow ==
    ASSUME NEW t, NEW at, NEW s1, NEW s2, s1 \subseteq s2
    PROVE  Readers(t, at, s1) \subseteq Readers(t, at, s2) /\ Readers(t, at, s1) \subseteq Nodes
BY DEF Readers

\* authority_mark_dirty reaches every node downstream of its seeds: N + 1
\* rounds are enough for N + 1 nodes.
LEMMA ClosureIsClosed ==
    ASSUME NEW t, NEW at, NEW seeds \in SUBSET Nodes
    PROVE  /\ seeds \subseteq Closure(t, at, seeds)
           /\ Readers(t, at, Closure(t, at, seeds)) \subseteq Closure(t, at, seeds)
           /\ Closure(t, at, seeds) \subseteq Nodes
<1> USE EditAssumption
<1> DEFINE reach == CHOOSE r : Rounds(t, at, seeds, N + 1, r)
           near(k) == reach[k]
<1>1. Closure(t, at, seeds) = reach[N + 1]
  BY DEF Closure, Rounds
<1>2. Rounds(t, at, seeds, N + 1, reach)
  BY RoundsExist
<1> HIDE DEF reach
<1>3. /\ near(0) = seeds
      /\ \A k \in 0..N : near(k + 1) = near(k) \cup Readers(t, at, near(k))
  <2>1. \A k \in 0..N + 1 :
          reach[k] = IF k = 0 THEN seeds ELSE reach[k - 1] \cup Readers(t, at, reach[k - 1])
    BY <1>2 DEF Rounds
  <2>2. reach[0] = seeds
    <3>1. 0 \in 0..N + 1
      OBVIOUS
    <3> QED BY <2>1, <3>1
  <2>3. ASSUME NEW k \in 0..N PROVE reach[k + 1] = reach[k] \cup Readers(t, at, reach[k])
    <3>1. k + 1 \in 0..N + 1 /\ k + 1 # 0 /\ (k + 1) - 1 = k
      OBVIOUS
    <3>2. reach[k + 1] = reach[(k + 1) - 1] \cup Readers(t, at, reach[(k + 1) - 1])
      BY <2>1, <3>1
    <3> QED BY <3>1, <3>2
  <2> QED BY <2>2, <2>3
<1> HIDE DEF near
<1>4. IsFiniteSet(Nodes) /\ Cardinality(Nodes) = N + 1
  <2>1. Nodes = 0..N
    BY DEF Nodes, Formulas, TheName
  <2> QED BY <2>1, FS_Interval
<1> DEFINE Good(k) == /\ seeds \subseteq near(k) /\ near(k) \subseteq Nodes
                      /\ \/ Readers(t, at, near(k)) \subseteq near(k)
                         \/ Cardinality(near(k)) >= k
           T == {k \in 0..N + 1 : ~Good(k)}
<1>5. Good(0)
  BY <1>3, <1>4, FS_Subset, FS_CardinalityType
<1>6. ASSUME NEW k \in 0..N, Good(k) PROVE Good(k + 1)
  <2>1. near(k + 1) = near(k) \cup Readers(t, at, near(k))
    BY <1>3
  <2>2. near(k + 1) \subseteq Nodes /\ near(k) \subseteq near(k + 1)
    BY <1>6, <2>1, ReadersGrow
  <2>3. CASE Readers(t, at, near(k)) \subseteq near(k)
    <3>1. near(k + 1) = near(k)
      BY <2>1, <2>3
    <3> QED BY <1>6, <2>2, <2>3, <3>1
  <2>4. CASE ~(Readers(t, at, near(k)) \subseteq near(k)) /\ Cardinality(near(k)) >= k
    <3>1. near(k + 1) # near(k)
      BY <2>1, <2>4
    <3>2. IsFiniteSet(near(k + 1))
      BY <1>4, <2>2, FS_Subset
    <3>3. /\ Cardinality(near(k)) <= Cardinality(near(k + 1))
          /\ Cardinality(near(k)) # Cardinality(near(k + 1))
      BY <2>2, <3>1, <3>2, FS_Subset
    <3>4. Cardinality(near(k)) \in Nat /\ Cardinality(near(k + 1)) \in Nat
      BY <2>2, <3>2, FS_Subset, FS_CardinalityType
    <3>5. Cardinality(near(k + 1)) >= k + 1
      BY <2>4, <3>3, <3>4
    <3> QED BY <1>6, <2>2, <3>5
  <2> QED BY <1>6, <2>3, <2>4
<1>7. T = {}
  <2> SUFFICES ASSUME T # {} PROVE FALSE
    OBVIOUS
  <2>1. T \in SUBSET Nat
    OBVIOUS
  <2>2. PICK k \in T : \A y \in T : k <= y
    <3> HIDE DEF T
    <3> QED BY <2>1, LeastNumber
  <2> HIDE DEF Good
  <2>3. k # 0 /\ k \in 0..N + 1 /\ ~Good(k)
    BY <1>5
  <2>4. k - 1 \in 0..N /\ k - 1 \notin T
    BY <2>2, <2>3
  <2>5. Good((k - 1) + 1)
    BY <1>6, <2>4
  <2> QED BY <2>3, <2>5
<1>8. Good(N + 1)
  <2> HIDE DEF Good
  <2> QED BY <1>7
<1>9. CASE Readers(t, at, near(N + 1)) \subseteq near(N + 1)
  BY <1>1, <1>8, <1>9 DEF near
<1>10. CASE Cardinality(near(N + 1)) >= N + 1
  <2>1. Cardinality(near(N + 1)) \in Nat /\ Cardinality(near(N + 1)) <= Cardinality(Nodes)
    BY <1>4, <1>8, FS_Subset, FS_CardinalityType
  <2>2. near(N + 1) = Nodes
    BY <1>4, <1>8, <1>10, <2>1, FS_Subset
  <2> QED BY <1>1, <1>8, <2>2, ReadersGrow DEF near
<1> QED BY <1>8, <1>9, <1>10

----------------------------------------------------------------------------
(* Results and marks *)

\* Formulas are lookups, the name is not another name, and there is no cycle.
LookupBooks ==
    \A w \in Workbooks :
        /\ w.fn = [f \in Formulas |-> "lookup"]
        /\ w.text[TheName].kind # "name"
        /\ \E rank \in [Formulas -> 0..N] : \A f, m \in Formulas :
               w.sheet[m] = "Data" /\ Reads(Target(w.text, f), "B", w.row[m]) => rank[m] < rank[f]

\* The inductive invariant.
FreshInv ==
    /\ IInv /\ CleanIsFresh
    /\ text[TheName].kind # "name"
    /\ \E rank : Ranked(row, text, rank)

\* The node whose range a formula reads.
Via(t, f) == IF t[f].kind = "name" THEN TheName ELSE f

\* A set of nodes with all their readers.
ReaderClosed(t, at, C) == C \subseteq Nodes /\ Readers(t, at, C) \subseteq C

LEMMA ExactIsNext == Exact' = ExactAt(data, row, text)'
<1>1. (Exact = ExactAt(data, row, text))'
  BY ExactIs, PTL
<1> QED BY <1>1

LEMMA ViaFacts ==
    ASSUME NEW t \in [Nodes -> Reference], t[TheName].kind # "name", NEW f \in Formulas
    PROVE  /\ Via(t, f) \in Nodes /\ Target(t, f) = t[Via(t, f)] /\ Target(t, f) \in Reference
           /\ Target(t, f).kind = "error" \/ IsRange(Target(t, f))
<1>1. f \in Nodes /\ TheName \in Nodes
  BY DEF Nodes
<1>2. /\ t[f] \in Reference /\ t[TheName] \in Reference
      /\ t[f].kind \in {"cell", "range", "name", "error"}
      /\ t[TheName].kind \in {"cell", "range", "name", "error"}
  BY <1>1 DEF Reference
<1> QED BY <1>1, <1>2 DEF Via, Target, IsRange

\* What marks the range a formula reads, or a result it uses, marks it.
LEMMA MarksReach ==
    ASSUME NEW t \in [Nodes -> Reference], t[TheName].kind # "name", NEW at,
           NEW C, ReaderClosed(t, at, C), NEW f \in Formulas
    PROVE  /\ Via(t, f) \in C => f \in C
           /\ \A m \in Formulas : Uses(at, t, f, m) /\ m \in C => f \in C
<1>0. f \in Nodes /\ f # TheName
  BY EditAssumption DEF Nodes, Formulas, TheName
<1>1. Via(t, f) \in C => f \in C
  <2>1. CASE t[f].kind = "name"
    <3> SUFFICES ASSUME TheName \in C PROVE f \in C
      BY <2>1 DEF Via
    <3>1. f \in Readers(t, at, C)
      BY <1>0, <2>1 DEF Readers
    <3> QED BY <3>1 DEF ReaderClosed
  <2>2. CASE t[f].kind # "name"
    BY <2>2 DEF Via
  <2> QED BY <2>1, <2>2
<1>2. ASSUME NEW m \in Formulas, Uses(at, t, f, m), m \in C PROVE f \in C
  <2>1. m # TheName /\ OnSheet(m) /\ at[m] # Gone
    BY <1>2, EditAssumption DEF Uses, LiveAt, Formulas, TheName
  <2>2. Reads(t[Via(t, f)], "B", at[m])
    <3>1. Target(t, f).col \in {"A", "B"}
      BY ViaFacts DEF Reference
    <3> QED BY <1>2, <3>1, ViaFacts DEF Uses, Reads
  <2>3. Via(t, f) \in Readers(t, at, C)
    BY <1>2, <2>1, <2>2, ViaFacts DEF Readers
  <2> QED BY <1>1, <2>3 DEF ReaderClosed
<1> QED BY <1>1, <1>2

\* evaluate_all leaves every formula with its exact result.
LEMMA EvaluateFresh ==
    ASSUME FreshInv, Evaluate
    PROVE  CleanIsFresh'
<1> DEFINE e == ExactAt(data, row, text)
           v == Recalculated
           Bad == {f \in Live : v[f] # e[f]}
<1>1. PICK rank : Ranked(row, text, rank)
  BY DEF FreshInv
<1>2. value' = v /\ data' = data /\ row' = row /\ text' = text /\ book' = book
  BY DEF Evaluate
<1>3. \A f \in Formulas : e[f] = ResultAt(data, row, text, f, e)
  BY <1>1, ExactSolves
<1>4. \A f \in Formulas : v[f] = IF f \in dirty THEN ResultAt(data, row, text, f, v) ELSE value[f]
  <2>1. Solves(data, row, text, dirty, value, v)
    BY <1>1, RecalculatedSolves
  <2> HIDE DEF v
  <2> QED BY <2>1 DEF Solves
<1>5. \A f \in Live \ dirty : value[f] = e[f]
  BY ExactIs DEF FreshInv, CleanIsFresh
<1> HIDE DEF e, v
<1>6. Bad = {}
  <2> SUFFICES ASSUME Bad # {} PROVE FALSE
    OBVIOUS
  <2>1. Bad \in SUBSET Formulas
    BY DEF Live
  <2>2. PICK f \in Bad : \A m \in Formulas : Uses(row, text, f, m) => m \notin Bad
    <3> HIDE DEF Bad
    <3> QED BY <1>1, <2>1, LeastFormula
  <2>3. f \in Formulas /\ f \in Live /\ v[f] # e[f]
    BY <2>1, <2>2
  <2>4. \A m \in Formulas : Uses(row, text, f, m) => v[m] = e[m]
    BY <2>2 DEF Uses, LiveAt, Live
  <2>5. ResultAt(data, row, text, f, v) = ResultAt(data, row, text, f, e)
    BY <2>3, <2>4, ResultOfUsed
  <2> QED BY <1>3, <1>4, <1>5, <2>3, <2>5
<1>7. Live' = Live
  BY <1>2 DEF Live
<1>8. Exact' = ExactAt(data, row, text)
  BY <1>2, ExactIsNext DEF ExactAt, ResultAt, ReadAt, LiveAt, OnSheet
<1> QED BY <1>2, <1>6, <1>7, <1>8 DEF CleanIsFresh, e

\* A value changes nothing but what authority_mark_dirty marks.
LEMMA SetValueFresh ==
    ASSUME FreshInv, NEW r \in Rows, NEW v \in Values \cup {Empty}, SetValue(r, v)
    PROVE  CleanIsFresh'
<1> DEFINE seeds == {n \in Nodes : Reads(text[n], "A", r)}
           C == Closure(text, row, seeds)
           e == ExactAt(data, row, text)
           d == [data EXCEPT ![r] = v]
           e2 == ExactAt(d, row, text)
           Bad == {f \in Formulas \ C : e2[f] # e[f]}
<1>1. PICK rank : Ranked(row, text, rank)
  BY DEF FreshInv
<1>2. /\ data' = d /\ row' = row /\ text' = text /\ book' = book /\ value' = value
      /\ dirty' = dirty \cup (C \cap Live)
  BY DEF SetValue
<1>3. /\ \A f \in Formulas : e[f] = ResultAt(data, row, text, f, e)
      /\ \A f \in Formulas : e2[f] = ResultAt(d, row, text, f, e2)
  BY <1>1, ExactSolves
<1>4. seeds \subseteq C /\ ReaderClosed(text, row, C)
  BY ClosureIsClosed DEF ReaderClosed
<1>5. text \in [Nodes -> Reference] /\ text[TheName].kind # "name" /\ data \in [Rows -> Values \cup {Empty}]
  BY DEF FreshInv, IInv, TypeOK
<1> HIDE DEF e, e2, C
<1>6. Bad = {}
  <2> SUFFICES ASSUME Bad # {} PROVE FALSE
    OBVIOUS
  <2>1. Bad \in SUBSET Formulas
    OBVIOUS
  <2>2. PICK f \in Bad : \A m \in Formulas : Uses(row, text, f, m) => m \notin Bad
    <3> HIDE DEF Bad
    <3> QED BY <1>1, <2>1, LeastFormula
  <2>3. f \in Formulas /\ f \notin C /\ e2[f] # e[f]
    BY <2>2
  <2>4. \A m \in Formulas : Uses(row, text, f, m) => e2[m] = e[m]
    BY <1>4, <1>5, <2>2, <2>3, MarksReach
  <2>5. ResultAt(d, row, text, f, e2) = ResultAt(d, row, text, f, e)
    BY <2>3, <2>4, ResultOfUsed
  <2>6. ResultAt(d, row, text, f, e) = ResultAt(data, row, text, f, e)
    <3> DEFINE ref == Target(text, f)
    <3>1. Via(text, f) \notin seeds
      BY <1>4, <1>5, <2>3, MarksReach
    <3>2. ref.kind = "error" \/ ~(ref.col = "A" /\ Covers(ref, r))
      BY <1>5, <2>3, <3>1, ViaFacts DEF Reads
    <3>3. ref.col = "A" /\ ~Covers(ref, r) => ReadAt(d, row, ref, e) = ReadAt(data, row, ref, e)
      <4> SUFFICES ASSUME ref.col = "A", ~Covers(ref, r)
                   PROVE  ReadAt(d, row, ref, e) = ReadAt(data, row, ref, e)
        OBVIOUS
      <4>1. \A i \in Rows : Covers(ref, i) => d[i] = data[i]
        BY <1>5
      <4> HIDE DEF ref, d
      <4> QED BY <4>1 DEF ReadAt
    <3>4. ref.col # "A" => ReadAt(d, row, ref, e) = ReadAt(data, row, ref, e)
      BY DEF ReadAt
    <3> QED BY <3>2, <3>3, <3>4 DEF ResultAt
  <2> QED BY <1>3, <2>3, <2>5, <2>6
<1>7. Live' = Live
  BY <1>2 DEF Live
<1>8. Exact' = e2
  BY <1>2, ExactIsNext DEF ExactAt, ResultAt, ReadAt, LiveAt, OnSheet, e2
<1>9. \A f \in Live \ dirty : value[f] = e[f]
  BY ExactIs DEF FreshInv, CleanIsFresh, e
<1> QED BY <1>2, <1>6, <1>7, <1>8, <1>9 DEF CleanIsFresh, Live

----------------------------------------------------------------------------
(* What a row edit leaves readable *)

\* The edit does not cut the range: it is none that
\* authority_structural_band_readers looks for.
NotCut(ref, op) ==
    ~ IF op.kind = "insert"
      THEN ((First(ref) = 0 /\ ref.hi = Open) \/ First(ref) < op.at)
           /\ (ref.hi = Open \/ op.at <= ref.hi)
      ELSE First(ref) < op.at + op.count /\ (ref.hi = Open \/ ref.hi >= op.at)

\* A range that is not cut stays where it is or moves as a whole.
Stays(ref, new, op) == ref.hi # Open /\ ref.hi < op.at /\ new = ref
Sinks(ref, new, op) ==
    /\ op.kind = "insert" /\ ref.lo >= op.at /\ new.lo = ref.lo + op.count
    /\ new.hi = IF ref.hi = Open THEN Open ELSE ref.hi + op.count
Rises(ref, new, op) ==
    /\ op.kind = "delete" /\ ref.lo >= op.at + op.count /\ new.lo = ref.lo - op.count
    /\ new.hi = IF ref.hi = Open THEN Open ELSE ref.hi - op.count

LEMMA UncutMoves ==
    ASSUME NEW ref \in Reference, PlainRef(ref), IsRange(ref), NEW op \in Operation, NotCut(ref, op),
           NEW new, new = adjust_reference(ref, op)
    PROVE  /\ ref.lo \in Nat /\ ref.hi \in Nat \cup {Open} /\ (ref.hi # Open => ref.lo <= ref.hi)
           /\ new.kind = ref.kind /\ new.col = ref.col
           /\ Stays(ref, new, op) \/ Sinks(ref, new, op) \/ Rises(ref, new, op)
<1> USE EditAssumption
<1>1. /\ ref.lo \in Nat /\ ref.hi \in Nat \cup {Open} /\ (ref.hi # Open => ref.lo <= ref.hi)
      /\ op.at \in Nat /\ op.count \in Nat /\ op.count > 0 /\ op.kind \in {"insert", "delete"}
  BY DEF PlainRef, IsPlain, NotCut, First, Reference, Bound, Operation, Open
<1>2. ~Reversed(ref) /\ ref.kind \in {"cell", "range"}
  BY <1>1 DEF Reversed, IsRange, Open
<1>3. ~Deleted(ref, op)
  BY <1>1 DEF Deleted, CellDeleted, InBand, NotCut, First, Open
<1>4. new = WithRows(ref, adjust_cell_ref(ref.lo, op), adjust_last(ref, op))
  BY <1>2, <1>3 DEF adjust_reference
<1>5. /\ new.lo = adjust_cell_ref(ref.lo, op) /\ new.hi = adjust_last(ref, op)
      /\ new.kind = ref.kind /\ new.col = ref.col
  BY <1>4, BoundsKept
<1>6. CASE op.kind = "insert" /\ ~(ref.lo >= op.at)
  <2>1. ref.hi # Open /\ ref.hi < op.at
    BY <1>1, <1>6 DEF NotCut, First, Open
  <2>2. adjust_cell_ref(ref.lo, op) = ref.lo /\ adjust_last(ref, op) = ref.hi
    BY <1>1, <1>6, <2>1 DEF adjust_cell_ref, adjust_last, adjust_insert, Open
  <2> QED BY <1>1, <1>4, <1>5, <2>1, <2>2, OwnRows DEF Stays
<1>7. CASE op.kind = "insert" /\ ref.lo >= op.at
  BY <1>1, <1>5, <1>7 DEF Sinks, adjust_cell_ref, adjust_last, adjust_insert, Open
<1>8. CASE op.kind = "delete" /\ ~(ref.lo >= op.at + op.count)
  <2>1. ref.hi # Open /\ ref.hi < op.at
    BY <1>1, <1>8 DEF NotCut, First, Open
  <2>2. adjust_cell_ref(ref.lo, op) = ref.lo /\ adjust_last(ref, op) = ref.hi
    BY <1>1, <1>8, <2>1 DEF adjust_cell_ref, adjust_last, adjust_delete, DeletedLast, InBand, Open
  <2> QED BY <1>1, <1>4, <1>5, <2>1, <2>2, OwnRows DEF Stays
<1>9. CASE op.kind = "delete" /\ ref.lo >= op.at + op.count
  BY <1>1, <1>5, <1>9 DEF Rises, adjust_cell_ref, adjust_last, adjust_delete, DeletedLast, InBand, Open
<1> QED BY <1>1, <1>5, <1>6, <1>7, <1>8, <1>9

\* The formulas left after an edit, and where they are.
LEMMA PlacedAt ==
    ASSUME IInv, NEW op \in Operation
    PROVE  /\ LiveAt(Placed(op)) \subseteq Live \ Removed(op)
           /\ \A f \in Live \ Removed(op) :
                  OnSheet(f) => /\ Placed(op)[f] = adjust_cell_ref(row[f], op)
                                /\ row[f] \in Rows /\ ~CellDeleted(row[f], op)
<1> USE EditAssumption
<1>1. row \in [Formulas -> Rows \cup {Gone}] /\ Live \subseteq Formulas
  BY DEF IInv, TypeOK, Live
<1>2. LiveAt(Placed(op)) \subseteq Live \ Removed(op)
  <2> SUFFICES ASSUME NEW f \in Formulas, Placed(op)[f] # Gone PROVE f \in Live \ Removed(op)
    BY DEF LiveAt
  <2>1. f \notin Removed(op)
    BY DEF Placed
  <2>2. f \notin Moved(op) => row[f] # Gone
    BY <2>1 DEF Placed
  <2> QED BY <2>1, <2>2 DEF Moved, Live
<1>3. ASSUME NEW f \in Live \ Removed(op), OnSheet(f)
      PROVE  /\ Placed(op)[f] = adjust_cell_ref(row[f], op)
             /\ row[f] \in Rows /\ ~CellDeleted(row[f], op)
  <2>1. f \in Formulas /\ row[f] \in Rows
    BY <1>1 DEF Live
  <2>2. ~CellDeleted(row[f], op)
    BY <1>3 DEF Removed
  <2>3. CASE row[f] >= op.at
    BY <1>3, <2>1, <2>2, <2>3 DEF Placed, Moved
  <2>4. CASE ~(row[f] >= op.at)
    <3>1. adjust_cell_ref(row[f], op) = row[f]
      BY <2>1, <2>4 DEF adjust_cell_ref, adjust_insert, adjust_delete, InBand, Operation, Rows, Open
    <3> QED BY <1>3, <2>1, <2>2, <2>4, <3>1 DEF Placed, Moved
  <2> QED BY <2>1, <2>2, <2>3, <2>4
<1> QED BY <1>2, <1>3

\* A reference covers a formula after the edit as it did before.
LEMMA CoversKept ==
    ASSUME NEW ref \in Reference, PlainRef(ref), IsRange(ref), NEW op \in Operation,
           NEW p \in Rows, ~CellDeleted(p, op), adjust_reference(ref, op).kind # "error"
    PROVE  Covers(adjust_reference(ref, op), adjust_cell_ref(p, op)) <=> Covers(ref, p)
<1> USE EditAssumption
<1> DEFINE q == adjust_cell_ref(p, op)
<1>1. p \in Nat /\ op.at \in Nat /\ op.count \in Nat /\ op.count > 0 /\ op.kind \in {"insert", "delete"}
  BY DEF Rows, Operation
<1>2. /\ q \in Nat
      /\ op.kind = "insert" => q = IF p >= op.at THEN p + op.count ELSE p
      /\ op.kind = "delete" => /\ q = IF p >= op.at + op.count THEN p - op.count ELSE p
                               /\ p < op.at \/ p >= op.at + op.count
  BY <1>1 DEF adjust_cell_ref, adjust_insert, adjust_delete, InBand, CellDeleted, Open
<1> HIDE DEF q
<1>3. IsPlain(ref) /\ CellShape(ref)
  BY DEF PlainRef
<1>4. Covers(adjust_reference(ref, op), q) <=> IsAbout(ref, op, q)
  BY <1>2, <1>3, RangeFollows
<1>5. IsAbout(ref, op, q) <=> Covers(ref, p)
  <2>1. CASE op.kind = "insert" /\ p >= op.at
    <3>1. ~(q < op.at) /\ q >= op.at + op.count /\ q - op.count = p
      BY <1>1, <1>2, <2>1
    <3> QED BY <2>1, <3>1 DEF IsAbout, Follows
  <2>2. CASE op.kind = "insert" /\ ~(p >= op.at)
    <3>1. q < op.at /\ q = p
      BY <1>1, <1>2, <2>2
    <3> QED BY <2>2, <3>1 DEF IsAbout, Follows
  <2>3. CASE op.kind = "delete" /\ p >= op.at + op.count
    <3>1. ~(q < op.at) /\ q + op.count = p
      BY <1>1, <1>2, <2>3
    <3> QED BY <2>3, <3>1 DEF IsAbout, Follows
  <2>4. CASE op.kind = "delete" /\ ~(p >= op.at + op.count)
    <3>1. q < op.at /\ q = p
      BY <1>1, <1>2, <2>4
    <3> QED BY <2>4, <3>1 DEF IsAbout, Follows
  <2> QED BY <1>1, <2>1, <2>2, <2>3, <2>4
<1> QED BY <1>4, <1>5 DEF q

\* Nothing is pushed off the sheet.
DataFits(op) ==
    op.kind = "insert" => \A r \in Rows : r > MaxRow - op.count => data[r] = Empty

\* A range that is not cut holds the same values at the same places.
LEMMA ValuesKept ==
    ASSUME IInv, NEW op \in Operation, DataFits(op),
           NEW ref \in Reference, PlainRef(ref), IsRange(ref), NotCut(ref, op), ref.col = "A",
           NEW new, new = adjust_reference(ref, op), NEW g, NEW h
    PROVE  ReadAt(Shifted(op), Placed(op), new, h) = ReadAt(data, row, ref, g)
<1> USE EditAssumption
<1> DEFINE d == Shifted(op)
           Old == {<<r - First(ref), data[r]>> : r \in {r \in Rows : Covers(ref, r) /\ data[r] # Empty}}
           New == {<<r - First(new), d[r]>> : r \in {r \in Rows : Covers(new, r) /\ d[r] # Empty}}
<1>1. /\ ref.lo \in Nat /\ ref.hi \in Nat \cup {Open} /\ (ref.hi # Open => ref.lo <= ref.hi)
      /\ new.kind = ref.kind /\ new.col = ref.col
      /\ Stays(ref, new, op) \/ Sinks(ref, new, op) \/ Rises(ref, new, op)
  BY UncutMoves
<1>2. ReadAt(data, row, ref, g) = Old /\ ReadAt(d, Placed(op), new, h) = New
  BY <1>1 DEF ReadAt
<1>3. /\ op.at \in Nat /\ op.count \in Nat /\ op.count > 0 /\ MaxRow \in Nat
  BY DEF Operation
<1>4. ASSUME NEW r \in Rows, Covers(ref, r), data[r] # Empty
      PROVE  \E q \in Rows : Covers(new, q) /\ d[q] = data[r] /\ q - First(new) = r - First(ref)
  <2>1. CASE Stays(ref, new, op)
    <3>1. r < op.at
      BY <1>1, <1>3, <1>4, <2>1 DEF Stays, Covers, Rows, Open
    <3>2. d[r] = data[r]
      BY <3>1 DEF Shifted
    <3> HIDE DEF d
    <3> QED BY <1>4, <2>1, <3>2 DEF Stays
  <2>2. CASE Sinks(ref, new, op)
    <3>1. r + op.count \in Rows
      BY <1>3, <1>4, <2>2 DEF DataFits, Sinks, Rows
    <3>2. Covers(new, r + op.count) /\ (r + op.count) - First(new) = r - First(ref)
      BY <1>1, <1>3, <1>4, <2>2 DEF Sinks, Covers, Rows, Open, First
    <3>3. ~(r + op.count < op.at) /\ r + op.count >= op.at + op.count /\ (r + op.count) - op.count = r
      BY <1>1, <1>3, <1>4, <2>2 DEF Sinks, Covers, Rows, Open
    <3>4. d[r + op.count] = data[r]
      BY <2>2, <3>1, <3>3 DEF Shifted, Sinks
    <3> HIDE DEF d
    <3> QED BY <3>1, <3>2, <3>4
  <2>3. CASE Rises(ref, new, op)
    <3>1. r - op.count \in Rows /\ ~(r - op.count < op.at) /\ (r - op.count) + op.count = r
      BY <1>1, <1>3, <1>4, <2>3 DEF Rises, Covers, Rows, Open
    <3>2. Covers(new, r - op.count) /\ (r - op.count) - First(new) = r - First(ref)
      BY <1>1, <1>3, <1>4, <2>3 DEF Rises, Covers, Rows, Open, First
    <3>3. r <= MaxRow
      BY DEF Rows
    <3>4. d[r - op.count] = data[r]
      BY <2>3, <3>1, <3>3 DEF Shifted, Rises
    <3> HIDE DEF d
    <3> QED BY <3>1, <3>2, <3>4
  <2> QED BY <1>1, <2>1, <2>2, <2>3
<1>5. ASSUME NEW q \in Rows, Covers(new, q), d[q] # Empty
      PROVE  \E r \in Rows : Covers(ref, r) /\ d[q] = data[r] /\ q - First(new) = r - First(ref)
  <2>1. CASE Stays(ref, new, op)
    <3>1. q < op.at
      BY <1>1, <1>3, <1>5, <2>1 DEF Stays, Covers, Rows, Open
    <3>2. d[q] = data[q]
      BY <3>1 DEF Shifted
    <3> HIDE DEF d
    <3> QED BY <1>5, <2>1, <3>2 DEF Stays
  <2>2. CASE Sinks(ref, new, op)
    <3>1. q - op.count \in Rows /\ ~(q < op.at) /\ q >= op.at + op.count
      BY <1>1, <1>3, <1>5, <2>2 DEF Sinks, Covers, Rows, Open
    <3>2. Covers(ref, q - op.count) /\ q - First(new) = (q - op.count) - First(ref)
      BY <1>1, <1>3, <1>5, <2>2 DEF Sinks, Covers, Rows, Open, First
    <3>3. d[q] = data[q - op.count]
      BY <2>2, <3>1 DEF Shifted, Sinks
    <3> HIDE DEF d
    <3> QED BY <3>1, <3>2, <3>3
  <2>3. CASE Rises(ref, new, op)
    <3>1. ~(q < op.at) /\ op.kind = "delete" /\ q \in Nat
      BY <1>1, <1>3, <1>5, <2>3 DEF Rises, Covers, Rows, Open
    <3>2. q + op.count <= MaxRow
      BY <1>5, <3>1 DEF Shifted
    <3>3. q + op.count \in Rows
      BY <1>3, <3>1, <3>2 DEF Rows
    <3>4. Covers(ref, q + op.count) /\ q - First(new) = (q + op.count) - First(ref)
      BY <1>1, <1>3, <1>5, <2>3 DEF Rises, Covers, Rows, Open, First
    <3>5. d[q] = data[q + op.count]
      BY <3>1, <3>2 DEF Shifted
    <3> HIDE DEF d
    <3> QED BY <3>3, <3>4, <3>5
  <2> QED BY <1>1, <2>1, <2>2, <2>3
<1> HIDE DEF d
<1>6. Old \subseteq New
  BY <1>4
<1>7. New \subseteq Old
  BY <1>5
<1> QED BY <1>2, <1>6, <1>7 DEF d

\* A range that is not cut holds the same formulas at the same places.
LEMMA FormulasKept ==
    ASSUME IInv, NEW op \in Operation, Fits(op),
           NEW ref \in Reference, PlainRef(ref), IsRange(ref), NotCut(ref, op), ref.col # "A",
           NEW new, new = adjust_reference(ref, op), NEW g, NEW h,
           \A m \in LiveAt(Placed(op)) : OnSheet(m) /\ Covers(new, Placed(op)[m]) => h[m] = g[m]
    PROVE  ReadAt(Shifted(op), Placed(op), new, h) = ReadAt(data, row, ref, g)
<1> USE EditAssumption
<1> DEFINE at == Placed(op)
           Old == {<<row[m] - First(ref), g[m]>> : m \in {m \in LiveAt(row) : OnSheet(m) /\ Covers(ref, row[m])}}
           New == {<<at[m] - First(new), h[m]>> : m \in {m \in LiveAt(at) : OnSheet(m) /\ Covers(new, at[m])}}
<1>1. /\ ref.lo \in Nat /\ ref.hi \in Nat \cup {Open} /\ (ref.hi # Open => ref.lo <= ref.hi)
      /\ new.kind = ref.kind /\ new.col = ref.col
      /\ Stays(ref, new, op) \/ Sinks(ref, new, op) \/ Rises(ref, new, op)
  BY UncutMoves
<1>2. ReadAt(data, row, ref, g) = Old /\ ReadAt(Shifted(op), at, new, h) = New
  BY <1>1 DEF ReadAt
<1>3. /\ op.at \in Nat /\ op.count \in Nat /\ op.count > 0 /\ new.kind # "error"
      /\ op.kind \in {"insert", "delete"}
  BY <1>1 DEF Operation, IsRange
<1>4. ASSUME NEW p \in Rows, ~CellDeleted(p, op), Covers(ref, p)
      PROVE  adjust_cell_ref(p, op) - First(new) = p - First(ref)
  <2>0. p \in Nat
    BY DEF Rows
  <2>1. CASE Stays(ref, new, op)
    BY <1>1, <1>3, <1>4, <2>0, <2>1
       DEF Stays, Covers, Open, First, adjust_cell_ref, adjust_insert, adjust_delete, InBand
  <2>2. CASE Sinks(ref, new, op)
    BY <1>1, <1>3, <1>4, <2>0, <2>2 DEF Sinks, Covers, Open, First, adjust_cell_ref, adjust_insert
  <2>3. CASE Rises(ref, new, op)
    BY <1>1, <1>3, <1>4, <2>0, <2>3 DEF Rises, Covers, Open, First, adjust_cell_ref, adjust_delete, InBand
  <2> QED BY <1>1, <2>1, <2>2, <2>3
<1>5. ASSUME NEW m \in LiveAt(at), OnSheet(m), Covers(new, at[m])
      PROVE  <<at[m] - First(new), h[m]>> \in Old
  <2>1. /\ m \in Live \ Removed(op) /\ row[m] \in Rows /\ ~CellDeleted(row[m], op)
        /\ at[m] = adjust_cell_ref(row[m], op)
    BY <1>5, PlacedAt
  <2>2. Covers(ref, row[m])
    BY <1>3, <1>5, <2>1, CoversKept
  <2>3. at[m] - First(new) = row[m] - First(ref) /\ h[m] = g[m]
    BY <1>4, <1>5, <2>1, <2>2
  <2>4. m \in LiveAt(row)
    BY <2>1 DEF LiveAt, Live
  <2> HIDE DEF at
  <2> QED BY <1>5, <2>2, <2>3, <2>4
<1>6. ASSUME NEW m \in LiveAt(row), OnSheet(m), Covers(ref, row[m])
      PROVE  <<row[m] - First(ref), g[m]>> \in New
  <2>1. m \in Live /\ m \in Formulas /\ row[m] \in Rows
    BY DEF LiveAt, Live, IInv, TypeOK
  <2>2. ~CellDeleted(row[m], op)
    <3>1. row[m] \in Nat
      BY <2>1 DEF Rows
    <3> QED BY <1>1, <1>3, <1>6, <3>1 DEF CellDeleted, InBand, Covers, Stays, Sinks, Rises, Open
  <2>3. m \in Live \ Removed(op)
    BY <2>1, <2>2 DEF Removed
  <2>4. at[m] = adjust_cell_ref(row[m], op) /\ at[m] # Gone
    <3>1. at[m] = adjust_cell_ref(row[m], op)
      BY <1>6, <2>3, PlacedAt
    <3>2. at[m] \in Rows
      BY <2>3, PlacedOnRows
    <3> QED BY <3>1, <3>2 DEF Rows, Gone
  <2>5. m \in LiveAt(at)
    BY <2>1, <2>4 DEF LiveAt
  <2>6. Covers(new, at[m])
    BY <1>3, <1>6, <2>1, <2>2, <2>4, CoversKept
  <2>7. at[m] - First(new) = row[m] - First(ref) /\ h[m] = g[m]
    BY <1>4, <1>6, <2>1, <2>2, <2>4, <2>5, <2>6
  <2> HIDE DEF at
  <2> QED BY <1>6, <2>5, <2>6, <2>7
<1>7. New \subseteq Old
  <2> HIDE DEF Old, at
  <2> QED BY <1>5
<1>8. Old \subseteq New
  <2> HIDE DEF New
  <2> QED BY <1>6
<1> QED BY <1>2, <1>7, <1>8

\* An empty column stays empty.
LEMMA EmptyKept ==
    ASSUME IInv, NEW op \in Operation, NEW occupied \in Occupancies,
           NEW ref, NEW new, ref.col \in Cols \ occupied, new.col = ref.col, NEW g, NEW h
    PROVE  ReadAt(Shifted(op), Placed(op), new, h) = ReadAt(data, row, ref, g)
<1> USE EditAssumption
<1>1. CASE ref.col = "A"
  <2>1. \A r \in Rows : data[r] = Empty
    BY <1>1 DEF Occupancies
  <2>2. \A r \in Rows : Shifted(op)[r] = Empty
    <3> TAKE r \in Rows
    <3>1. op.kind = "insert" /\ ~(r < op.at) /\ r >= op.at + op.count => r - op.count \in Rows
      BY DEF Operation, Rows
    <3>2. op.kind = "delete" /\ r + op.count <= MaxRow => r + op.count \in Rows
      BY DEF Operation, Rows
    <3> QED BY <2>1, <3>1, <3>2 DEF Shifted
  <2>3. ReadAt(data, row, ref, g) = {} /\ ReadAt(Shifted(op), Placed(op), new, h) = {}
    BY <1>1, <2>1, <2>2 DEF ReadAt
  <2> QED BY <2>3
<1>2. CASE ref.col # "A"
  <2>1. ref.col = "B"
    BY <1>2 DEF Cols
  <2>2. \A f \in Live : ~OnSheet(f)
    BY <2>1 DEF Occupancies
  <2>3. LiveAt(row) = Live /\ LiveAt(Placed(op)) \subseteq Live
    BY PlacedAt DEF LiveAt, Live
  <2>4. ReadAt(data, row, ref, g) = {} /\ ReadAt(Shifted(op), Placed(op), new, h) = {}
    BY <1>2, <2>2, <2>3 DEF ReadAt
  <2> QED BY <2>4
<1> QED BY <1>1, <1>2

----------------------------------------------------------------------------
(* A row edit *)

\* The column holds something.
Filled(col) == IF col = "A" THEN \E r \in Rows : data[r] # Empty ELSE \E f \in Live : OnSheet(f)

\* No range that is too large to be kept as single cells is deleted whole
\* from an empty column.
LostAreFilled ==
    \A f \in Live : IsRange(text[f]) /\ text'[f].kind = "error" => Small(text[f]) \/ Filled(text[f].col)

\* References after an edit, one by one.
LEMMA TextAfter ==
    ASSUME IInv, text[TheName].kind # "name", NEW op \in Operation,
           NEW t, t = Adjusted(op, BlocksFor(op))
    PROVE  /\ \A n \in Nodes : t[n].kind = "error" \/ t[n] = adjust_reference(text[n], op)
           /\ \A f \in Formulas : /\ t[f] = adjust_reference(text[f], op)
                                  /\ t[f].kind = "name" <=> text[f].kind = "name"
           /\ t[TheName].kind # "name"
<1>1. /\ \A n \in Nodes : text[n] \in Reference /\ PlainRef(text[n])
      /\ IsRange(text[TheName]) => Closed(text[TheName])
      /\ TheName \in Nodes /\ Formulas \subseteq Nodes
  BY DEF IInv, TypeOK, RefsPlain, Nodes
<1>2. \A n \in Nodes : (adjust_reference(text[n], op).kind = "name" <=> text[n].kind = "name")
  <2> TAKE n \in Nodes
  <2>1. CASE text[n].kind \notin {"cell", "range"} \/ Reversed(text[n])
    BY <2>1 DEF adjust_reference
  <2>2. CASE ~(text[n].kind \notin {"cell", "range"} \/ Reversed(text[n])) /\ Deleted(text[n], op)
    <3>1. adjust_reference(text[n], op).kind = "error"
      BY <1>1, <2>2 DEF adjust_reference, RefErrorOf, Reference
    <3> QED BY <2>2, <3>1
  <2>3. CASE ~(text[n].kind \notin {"cell", "range"} \/ Reversed(text[n])) /\ ~Deleted(text[n], op)
    <3>1. adjust_reference(text[n], op).kind = text[n].kind
      BY <1>1, <2>3, BoundsKept DEF adjust_reference
    <3> QED BY <3>1
  <2> QED BY <2>1, <2>2, <2>3
<1>3. \A f \in Formulas : t[f] = adjust_reference(text[f], op)
  BY AdjustedOneByOne
<1>4. t[TheName] = adjust_named_definition(text[TheName], op)
  BY <1>1 DEF Adjusted
<1>5. /\ t[TheName].kind = "error" \/ t[TheName] = adjust_reference(text[TheName], op)
      /\ t[TheName].kind # "name"
  <2>1. CASE ~IsRange(text[TheName])
    BY <1>4, <2>1 DEF adjust_named_definition, adjust_reference, IsRange
  <2>2. CASE IsRange(text[TheName])
    <3>1. \/ t[TheName] = RefErrorOf(text[TheName])
          \/ t[TheName] = adjust_reference(text[TheName], op)
      BY <1>1, <1>4, <2>2, NameAdjusted
    <3>2. RefErrorOf(text[TheName]).kind = "error"
      BY <1>1 DEF RefErrorOf, Reference
    <3> QED BY <1>1, <1>2, <3>1, <3>2
  <2> QED BY <2>1, <2>2
<1>6. \A n \in Nodes : t[n].kind = "error" \/ t[n] = adjust_reference(text[n], op)
  BY <1>3, <1>5 DEF Nodes
<1> QED BY <1>1, <1>2, <1>3, <1>5, <1>6

\* A result that is used after the edit was used before it.
LEMMA UsedBefore ==
    ASSUME IInv, text[TheName].kind # "name", NEW op \in Operation, Fits(op),
           NEW t, t = Adjusted(op, BlocksFor(op)), NEW f \in Formulas, NEW m \in Formulas,
           Uses(Placed(op), t, f, m)
    PROVE  Uses(row, text, f, m)
<1> DEFINE n == Via(text, f)
<1>1. text \in [Nodes -> Reference] /\ \A k \in Nodes : PlainRef(text[k])
  BY DEF IInv, TypeOK, RefsPlain
<1>2. n \in Nodes /\ Target(text, f) = text[n] /\ (text[n].kind = "error" \/ IsRange(text[n]))
  BY <1>1, ViaFacts
<1>3. Target(t, f) = t[n]
  BY TextAfter DEF Target, Via
<1> HIDE DEF n
<1>4. /\ m \in Live \ Removed(op) /\ OnSheet(m) /\ row[m] \in Rows /\ ~CellDeleted(row[m], op)
      /\ Placed(op)[m] = adjust_cell_ref(row[m], op)
  BY PlacedAt DEF Uses
<1>5. t[n].kind # "error" /\ t[n].col # "A" /\ Covers(t[n], Placed(op)[m])
  BY <1>3 DEF Uses
<1>6. t[n] = adjust_reference(text[n], op)
  BY <1>2, <1>5, TextAfter
<1>7. text[n].kind # "error"
  BY <1>5, <1>6 DEF adjust_reference
<1>8. Covers(text[n], row[m])
  BY <1>1, <1>2, <1>4, <1>5, <1>6, <1>7, CoversKept
<1>9. t[n].col = text[n].col
  BY <1>1, <1>2, <1>6, BoundsKept DEF adjust_reference, RefErrorOf, Reference
<1> QED BY <1>2, <1>4, <1>5, <1>7, <1>8, <1>9 DEF Uses, LiveAt, Live

LEMMA RankKept ==
    ASSUME IInv, text[TheName].kind # "name", NEW op \in Operation, Fits(op),
           NEW t, t = Adjusted(op, BlocksFor(op)), NEW rank, Ranked(row, text, rank)
    PROVE  Ranked(Placed(op), t, rank)
BY UsedBefore DEF Ranked

\* The nodes whose closures an edit marks.
BandSeeds(op, occupied) == IF op.kind = "delete" THEN BandRectReaders(op, occupied) ELSE {}
CutSeeds(op, occupied, t) ==
    authority_structural_band_readers(op, occupied) \cup RefErrors(op)
        \cup {n \in {TheName} : t[n] # text[n]}

LEMMA SeedsAreNodes ==
    ASSUME NEW op, NEW occupied, NEW t
    PROVE  BandSeeds(op, occupied) \in SUBSET Nodes /\ CutSeeds(op, occupied, t) \in SUBSET Nodes
BY DEF BandSeeds, CutSeeds, BandRectReaders, authority_structural_band_readers, RefErrors,
       SmallReaders, Readers, Nodes

\* A range that is deleted whole is found by mark_dirty_rects.
LEMMA LostAreMarked ==
    ASSUME IInv, NEW op \in Operation, NEW occupied \in Occupancies, NEW f \in Live,
           IsRange(text[f]), adjust_reference(text[f], op).kind = "error",
           Small(text[f]) \/ Filled(text[f].col)
    PROVE  f \in BandSeeds(op, occupied)
<1> DEFINE ref == text[f]
<1>1. f \in Nodes /\ ref \in Reference /\ PlainRef(ref)
  BY DEF IInv, TypeOK, RefsPlain, Live, Nodes
<1>2. Deleted(ref, op)
  <2> SUFFICES ASSUME ~Deleted(ref, op) PROVE FALSE
    OBVIOUS
  <2>1. adjust_reference(ref, op).kind = ref.kind
    BY <1>1, BoundsKept DEF adjust_reference
  <2> QED BY <2>1 DEF IsRange
<1>3. op.kind = "delete" /\ InBand(ref.lo, op)
  BY <1>2 DEF Deleted, CellDeleted
<1>4. ref.lo \in Rows
  BY <1>1, <1>3 DEF PlainRef, OnRows, InBand, Operation, Open
<1>5. Covers(ref, ref.lo)
  BY <1>1, <1>4, EditAssumption DEF PlainRef, IsPlain, Covers, Reference, Bound, Rows, Open
<1>6. ref.col \in Cols /\ ref.col \in occupied
  <2>1. ref.col \in {"A", "B"}
    BY <1>1 DEF Reference
  <2> QED BY <2>1 DEF Occupancies, Filled, Cols
<1>7. Reads(ref, ref.col, ref.lo)
  BY <1>5 DEF Reads
<1>8. occupied # {}
  BY <1>6
<1>9. \E r \in Rows, col \in occupied : InBand(r, op) /\ Reads(text[f], col, r)
  BY <1>3, <1>4, <1>6, <1>7
<1> QED BY <1>1, <1>3, <1>8, <1>9 DEF BandSeeds, BandRectReaders

\* What no closure of an edit reaches has the result it had.
LEMMA UnmarkedIsKept ==
    ASSUME FreshInv, LookupBooks, NEW op \in Operation, Fits(op), DataFits(op),
           NEW occupied \in Occupancies, NEW t, t = Adjusted(op, BlocksFor(op)),
           \A f \in Live : IsRange(text[f]) /\ t[f].kind = "error" => Small(text[f]) \/ Filled(text[f].col),
           NEW f \in LiveAt(Placed(op)),
           f \notin Closure(text, row, BandSeeds(op, occupied)),
           f \notin Closure(t, Placed(op), CutSeeds(op, occupied, t))
    PROVE  ExactAt(Shifted(op), Placed(op), t)[f] = ExactAt(data, row, text)[f]
<1> DEFINE at == Placed(op)
           d == Shifted(op)
           C1 == Closure(text, row, BandSeeds(op, occupied))
           C2 == Closure(t, at, CutSeeds(op, occupied, t))
           e == ExactAt(data, row, text)
           e2 == ExactAt(d, at, t)
           Bad == {x \in LiveAt(at) \ (C1 \cup C2) : e2[x] # e[x]}
<1>1. IInv /\ text[TheName].kind # "name" /\ text \in [Nodes -> Reference]
  BY DEF FreshInv, IInv, TypeOK
<1>2. PICK rank : Ranked(row, text, rank)
  BY DEF FreshInv
<1>3. Ranked(at, t, rank)
  BY <1>1, <1>2, RankKept
<1>4. /\ \A x \in Formulas : e[x] = ResultAt(data, row, text, x, e)
      /\ \A x \in Formulas : e2[x] = ResultAt(d, at, t, x, e2)
  BY <1>2, <1>3, ExactSolves
<1>5. /\ BandSeeds(op, occupied) \subseteq C1 /\ ReaderClosed(text, row, C1)
      /\ CutSeeds(op, occupied, t) \subseteq C2 /\ ReaderClosed(t, at, C2)
  BY SeedsAreNodes, ClosureIsClosed DEF ReaderClosed
<1>6. t \in [Nodes -> Reference] /\ t[TheName].kind # "name"
  <2>1. \A n \in Nodes : t[n] \in Reference
    BY <1>1, ReferencesStep
  <2>2. t = [n \in Nodes |-> t[n]]
    BY DEF Adjusted
  <2> QED BY <1>1, <2>1, <2>2, TextAfter
<1> HIDE DEF C1, C2, e, e2
<1>7. Bad = {}
  <2> SUFFICES ASSUME Bad # {} PROVE FALSE
    OBVIOUS
  <2>1. Bad \in SUBSET Formulas
    BY DEF LiveAt
  <2>2. PICK x \in Bad : \A m \in Formulas : Uses(at, t, x, m) => m \notin Bad
    <3> HIDE DEF Bad
    <3> QED BY <1>3, <2>1, LeastFormula
  <2>3. x \in Formulas /\ x \in LiveAt(at) /\ x \notin C1 /\ x \notin C2 /\ e2[x] # e[x]
    BY <2>1, <2>2
  <2>4. ASSUME NEW m \in Formulas, Uses(at, t, x, m) PROVE e2[m] = e[m]
    <3>1. m \notin C2
      BY <1>5, <1>6, <2>3, <2>4, MarksReach
    <3>2. Uses(row, text, x, m)
      BY <1>1, <2>3, <2>4, UsedBefore
    <3>3. m \notin C1
      BY <1>1, <1>5, <2>3, <3>2, MarksReach
    <3> QED BY <2>2, <2>4, <3>1, <3>3 DEF Uses
  <2> DEFINE n == Via(text, x)
             ref == text[n]
             new == t[n]
  <2>5. /\ n \in Nodes /\ Target(text, x) = ref /\ Target(t, x) = new
        /\ ref \in Reference /\ PlainRef(ref) /\ (ref.kind = "error" \/ IsRange(ref))
    <3>1. Target(t, x) = new
      BY <1>1, <2>3, TextAfter DEF Target, Via
    <3> QED BY <1>1, <2>3, <3>1, ViaFacts DEF IInv, RefsPlain
  <2>6. n \notin BandSeeds(op, occupied) /\ n \notin CutSeeds(op, occupied, t)
    <3>1. Via(t, x) = n
      BY <1>1, <2>3, TextAfter DEF Via
    <3> QED BY <1>1, <1>5, <1>6, <2>3, <3>1, MarksReach
  <2>7. n = TheName => new = ref
    BY <2>6 DEF CutSeeds
  <2>8. n # TheName => n = x /\ new = adjust_reference(ref, op)
    BY <1>1, <2>3, TextAfter DEF Via
  <2>9. book.fn[x] = "lookup"
    BY <1>1, <2>3 DEF LookupBooks, IInv
  <2> HIDE DEF n
  <2>10. CASE ref.kind = "error"
    <3>1. new.kind = "error"
      BY <2>7, <2>8, <2>10 DEF adjust_reference
    <3> QED BY <1>4, <2>3, <2>5, <2>10, <3>1 DEF ResultAt
  <2>11. CASE ref.kind # "error" /\ IsRange(ref)
    <3>1. new.kind # "error"
      <4> SUFFICES ASSUME new.kind = "error" PROVE FALSE
        OBVIOUS
      <4>1. n = x /\ adjust_reference(text[x], op).kind = "error" /\ n # TheName
        BY <2>7, <2>8, <2>11
      <4>2. x \in Live
        BY <1>1, <2>3, PlacedAt
      <4>3. Small(text[x]) \/ Filled(text[x].col)
        BY <2>11, <4>1, <4>2
      <4> QED BY <1>1, <2>6, <2>11, <4>1, <4>2, <4>3, LostAreMarked
    <3>2. new = adjust_reference(ref, op)
      BY <1>1, <2>5, <3>1, TextAfter
    <3>3. e2[x] = ReadAt(d, at, new, e2) /\ e[x] = ReadAt(data, row, ref, e)
      BY <1>4, <2>3, <2>5, <2>9, <2>11, <3>1 DEF ResultAt
    <3>4. new.col = ref.col /\ ref.col \in Cols
      BY <2>5, <3>2, BoundsKept DEF adjust_reference, RefErrorOf, Reference, Cols
    <3>5. CASE ref.col \notin occupied
      BY <1>1, <2>3, <3>3, <3>4, <3>5, EmptyKept
    <3>6. CASE ref.col \in occupied
      <4>1. NotCut(ref, op)
        BY <2>5, <2>6, <2>11, <3>6 DEF NotCut, CutSeeds, authority_structural_band_readers
      <4>2. CASE ref.col = "A"
        BY <1>1, <2>3, <2>5, <2>11, <3>2, <3>3, <4>1, <4>2, ValuesKept
      <4>3. CASE ref.col # "A"
        <5>1. \A m \in LiveAt(at) : OnSheet(m) /\ Covers(new, at[m]) => e2[m] = e[m]
          BY <2>4, <2>5, <3>1, <3>4, <4>3 DEF Uses, LiveAt
        <5> QED BY <1>1, <2>3, <2>5, <2>11, <3>2, <3>3, <4>1, <4>3, <5>1, FormulasKept
      <4> QED BY <4>2, <4>3
    <3> QED BY <3>5, <3>6
  <2> QED BY <2>5, <2>10, <2>11
<1> QED BY <1>7 DEF C1, C2, e, e2

\* Formulas that a row edit does not mark show what they should.
LEMMA EditFresh ==
    ASSUME FreshInv, LookupBooks, NEW op \in Operation, Fits(op), DataFits(op),
           NEW occupied \in Occupancies, EditRows(op, occupied), LostAreFilled
    PROVE  FreshInv'
<1> DEFINE t == Adjusted(op, BlocksFor(op))
           at == Placed(op)
           e == ExactAt(data, row, text)
           e2 == ExactAt(Shifted(op), at, t)
           C1 == Closure(text, row, BandSeeds(op, occupied))
           C2 == Closure(t, at, CutSeeds(op, occupied, t))
<1>1. /\ text' = t /\ row' = at /\ data' = Shifted(op) /\ book' = book
      /\ dirty' = Marked(op, occupied, t, at)
      /\ value' = [f \in Formulas |-> IF f \in Removed(op) \cup Moved(op) THEN Empty ELSE value[f]]
  BY DEF EditRows
<1>2. IInv /\ text[TheName].kind # "name"
  BY DEF FreshInv
<1>3. IInv'
  BY <1>2, EditStep
<1>4. text'[TheName].kind # "name"
  BY <1>1, <1>2, TextAfter
<1>5. PICK rank : Ranked(row, text, rank)
  BY DEF FreshInv
<1>6. Ranked(at, t, rank)
  BY <1>2, <1>5, RankKept
<1>7. (\E k : Ranked(row, text, k))'
  BY <1>1, <1>6 DEF Ranked, Uses, LiveAt, OnSheet
<1>8. Exact' = e2
  BY <1>1, ExactIsNext DEF ExactAt, ResultAt, ReadAt, LiveAt, OnSheet
<1>9. \A f \in LiveAt(at) \ (C1 \cup C2) : e2[f] = e[f]
  <2>1. \A f \in Live : IsRange(text[f]) /\ t[f].kind = "error" => Small(text[f]) \/ Filled(text[f].col)
    BY <1>1 DEF LostAreFilled
  <2> HIDE DEF t
  <2> QED BY <2>1, UnmarkedIsKept DEF t
<1>10. \A f \in Live \ dirty : value[f] = e[f]
  BY ExactIs DEF FreshInv, CleanIsFresh
<1>11. Live' = LiveAt(at)
  BY <1>1 DEF Live, LiveAt
<1>12. LiveAt(at) \subseteq Live \ Removed(op)
  BY <1>2, PlacedAt
<1>13. dirty' = (dirty \cup C1 \cup C2 \cup {f \in Formulas : t[f] # text[f]} \cup Moved(op)
                   \cup SmallReaders(t, at, Moved(op))) \cap (Live \ Removed(op))
  BY <1>1 DEF Marked, BandSeeds, CutSeeds
<1> HIDE DEF t, at, e, e2, C1, C2
<1>14. ASSUME NEW f \in LiveAt(at) \ dirty' PROVE value'[f] = e2[f]
  <2>1. f \in Live \ Removed(op) /\ f \notin dirty /\ f \notin C1 \cup C2 /\ f \notin Moved(op)
    BY <1>12, <1>13
  <2>2. f \in Formulas
    BY <2>1 DEF Live
  <2>3. value'[f] = value[f]
    BY <1>1, <2>1, <2>2
  <2> QED BY <1>9, <1>10, <2>1, <2>3
<1>15. CleanIsFresh'
  BY <1>8, <1>11, <1>14 DEF CleanIsFresh
<1> QED BY <1>3, <1>4, <1>7, <1>15 DEF FreshInv

LEMMA InitFresh ==
    ASSUME PlainBooks, LookupBooks, Init
    PROVE  FreshInv
<1>1. IInv
  BY InitInvariant
<1>2. book \in Workbooks /\ row = book.row /\ text = book.text /\ dirty = Formulas
  BY DEF Init
<1>3. CleanIsFresh
  BY <1>2 DEF CleanIsFresh, Live
<1>4. text[TheName].kind # "name"
  BY <1>2 DEF LookupBooks
<1>5. PICK rank \in [Formulas -> 0..N] : \A f, m \in Formulas :
               book.sheet[m] = "Data" /\ Reads(Target(book.text, f), "B", book.row[m]) => rank[m] < rank[f]
  BY <1>2 DEF LookupBooks
<1>6. ASSUME NEW f \in Formulas, NEW m \in Formulas, Uses(row, text, f, m)
      PROVE  book.sheet[m] = "Data" /\ Reads(Target(book.text, f), "B", book.row[m])
  <2>1. text \in [Nodes -> Reference]
    BY <1>1 DEF IInv, TypeOK
  <2>2. Target(text, f).col \in {"A", "B"} /\ (Target(text, f).kind = "error" \/ IsRange(Target(text, f)))
    BY <1>4, <2>1, ViaFacts DEF Reference
  <2> QED BY <1>2, <1>6, <2>2 DEF Uses, Reads, OnSheet
<1>7. Ranked(row, text, rank)
  BY <1>5, <1>6 DEF Ranked
<1> QED BY <1>1, <1>3, <1>4, <1>7 DEF FreshInv

\* The columns of ranges that row edits delete are not empty, unless the
\* ranges are small.
LostRangesFilled == [][LostAreFilled]_vars

\* A formula that is not dirty shows what a full recalculation would give
\* (CleanIsFresh), after any values and row edits, for lookups without a
\* cycle: readers of the deleted band and of cut ranges, with what is
\* downstream of them, are all the formulas whose results an edit changes.
\* The edits are those LostRangesFilled describes: delete_rows does not look
\* for the readers of empty columns, and a reader that becomes #REF! does
\* change.
THEOREM CleanStaysFresh ==
    ASSUME PlainBooks, LookupBooks
    PROVE  Spec /\ LostRangesFilled => []CleanIsFresh
<1>1. Init => FreshInv
  BY InitFresh
<1>2. FreshInv /\ [Next]_vars /\ [LostAreFilled]_vars => FreshInv'
  <2> SUFFICES ASSUME FreshInv, [Next]_vars, [LostAreFilled]_vars PROVE FreshInv'
    OBVIOUS
  <2>0. IInv
    BY DEF FreshInv
  <2>1. ASSUME NEW r \in Rows, NEW v \in Values \cup {Empty}, SetValue(r, v) PROVE FreshInv'
    <3>1. IInv' /\ CleanIsFresh'
      BY <2>0, <2>1, SetValueStep, SetValueFresh
    <3>2. row' = row /\ text' = text /\ book' = book
      BY <2>1 DEF SetValue
    <3>3. (text[TheName].kind # "name")' /\ (\E rank : Ranked(row, text, rank))'
      BY <3>2 DEF FreshInv, Ranked, Uses, LiveAt, OnSheet
    <3> QED BY <3>1, <3>3 DEF FreshInv
  <2>2. CASE Evaluate
    <3>1. IInv' /\ CleanIsFresh'
      BY <2>0, <2>2, EvaluateStep, EvaluateFresh
    <3>2. row' = row /\ text' = text /\ book' = book
      BY <2>2 DEF Evaluate
    <3>3. (text[TheName].kind # "name")' /\ (\E rank : Ranked(row, text, rank))'
      BY <3>2 DEF FreshInv, Ranked, Uses, LiveAt, OnSheet
    <3> QED BY <3>1, <3>3 DEF FreshInv
  <2>3. ASSUME NEW at \in Rows, NEW count \in 1..MaxCount, InsertRows(at, count) \/ DeleteRows(at, count)
        PROVE  FreshInv'
    <3>0. LostAreFilled
      <4>1. edits' = edits + 1
        BY <2>3 DEF InsertRows, DeleteRows, EditRows
      <4>2. edits \in Nat
        BY <2>0, EditAssumption DEF IInv, TypeOK
      <4>3. vars' # vars
        BY <4>1, <4>2 DEF vars
      <4> QED BY <4>3
    <3>1. CASE InsertRows(at, count)
      <4> DEFINE op == [kind |-> "insert", at |-> at, count |-> count]
      <4>1. op \in Operation /\ Fits(op)
        BY <2>0, <3>1, InsertFits
      <4>2. PICK occupied \in Occupancies : EditRows(op, occupied)
        BY <2>0, <3>1, InsertFits
      <4>3. DataFits(op)
        BY <3>1 DEF InsertRows, DataFits
      <4> HIDE DEF op
      <4> QED BY <3>0, <4>1, <4>2, <4>3, EditFresh
    <3>2. CASE DeleteRows(at, count)
      <4> DEFINE op == [kind |-> "delete", at |-> at, count |-> count]
      <4>1. op \in Operation /\ Fits(op)
        BY <3>2, DeleteFits
      <4>2. PICK occupied \in Occupancies : EditRows(op, occupied)
        BY <3>2, DeleteFits
      <4>3. DataFits(op)
        BY DEF DataFits
      <4> HIDE DEF op
      <4> QED BY <3>0, <4>1, <4>2, <4>3, EditFresh
    <3> QED BY <2>3, <3>1, <3>2
  <2>4. CASE UNCHANGED vars
    <3>1. IInv'
      BY <2>0, <2>4 DEF vars, IInv, TypeOK, RefsPlain, RunsHold, OneTemplate, IntentExact, Live
    <3>2. CleanIsFresh'
      BY <2>4, ExactIs, ExactIsNext
         DEF vars, FreshInv, CleanIsFresh, Live, ExactAt, ResultAt, ReadAt, LiveAt, OnSheet
    <3>3. (text[TheName].kind # "name")' /\ (\E rank : Ranked(row, text, rank))'
      BY <2>4 DEF vars, FreshInv, Ranked, Uses, LiveAt, OnSheet
    <3> QED BY <3>1, <3>2, <3>3 DEF FreshInv
  <2> QED BY <2>1, <2>2, <2>3, <2>4 DEF Next
<1>3. FreshInv => CleanIsFresh
  BY DEF FreshInv
<1> QED BY <1>1, <1>2, <1>3, PTL DEF Spec, LostRangesFilled

-----------------------------------------------------------------------------
(* Loops *)

\* Induction up to N.
LEMMA Reaches ==
  ASSUME NEW n \in Nat, NEW X, 0 \in X, \A k \in 1..n : k - 1 \in X => k \in X
  PROVE  0..n \subseteq X
<1> DEFINE T == {k \in 0..n : k \notin X}
<1> SUFFICES ASSUME T # {} PROVE FALSE
  OBVIOUS
<1>1. T \in SUBSET Nat
  OBVIOUS
<1>2. PICK m \in T : \A y \in T : m <= y
  <2> HIDE DEF T
  <2> QED BY <1>1, LeastNumber
<1>3. m # 0 /\ m \in 0..n /\ m \notin X
  OBVIOUS
<1>4. m - 1 \in 0..n /\ m - 1 \notin T
  <2> HIDE DEF T
  <2> QED BY <1>2, <1>3
<1> QED BY <1>3, <1>4

\* A loop of n steps from b exists.
LEMMA LoopExists ==
  ASSUME NEW S, NEW b \in S, NEW n \in Nat, NEW F \in [1..n -> [S -> S]]
  PROVE  \E s \in [0..n -> S] : s[0] = b /\ \A k \in 1..n : s[k] = F[k][s[k - 1]]
<1> DEFINE Has(m) == \E s \in [0..m -> S] :
                       \A k \in 0..m : s[k] = IF k = 0 THEN b ELSE F[k][s[k - 1]]
           X == {m \in 0..n : Has(m)}
<1>1. Has(0)
  <2> DEFINE s == [k \in 0..0 |-> b]
  <2>1. s \in [0..0 -> S] /\ \A k \in 0..0 : s[k] = IF k = 0 THEN b ELSE F[k][s[k - 1]]
    OBVIOUS
  <2> QED BY <2>1
<1>2. ASSUME NEW m \in 1..n, Has(m - 1) PROVE Has(m)
  <2>1. PICK s \in [0..(m - 1) -> S] :
               \A k \in 0..(m - 1) : s[k] = IF k = 0 THEN b ELSE F[k][s[k - 1]]
    BY <1>2
  <2> DEFINE next == F[m][s[m - 1]]
             t == [k \in 0..m |-> IF k = m THEN next ELSE s[k]]
  <2>2. next \in S
    <3>1. s[m - 1] \in S
      BY <2>1
    <3> QED BY <3>1
  <2>3. t \in [0..m -> S]
    <3> HIDE DEF next
    <3> QED BY <2>2
  <2>4. \A k \in 0..m : t[k] = IF k = 0 THEN b ELSE F[k][t[k - 1]]
    <3> TAKE k \in 0..m
    <3>1. CASE k = m
      BY <3>1
    <3>2. CASE k < m
      <4>1. s[k] = IF k = 0 THEN b ELSE F[k][s[k - 1]]
        BY <2>1, <3>2
      <4>2. t[k] = s[k] /\ (k # 0 => t[k - 1] = s[k - 1])
        <5> HIDE DEF next
        <5> QED BY <3>2
      <4> HIDE DEF t
      <4> QED BY <4>1, <4>2
    <3> QED BY <3>1, <3>2
  <2> QED BY <2>3, <2>4
<1>3. 0 \in X /\ \A k \in 1..n : k - 1 \in X => k \in X
  <2>1. \A k \in 1..n : Has(k - 1) => Has(k)
    <3> HIDE DEF Has
    <3> QED BY <1>2
  <2> HIDE DEF Has
  <2> QED BY <1>1, <2>1
<1>4. Has(n)
  <2>1. 0..n \subseteq X
    <3> HIDE DEF X
    <3> QED BY ONLY <1>3, n \in Nat, Reaches
  <2> QED BY <2>1
<1>5. PICK s \in [0..n -> S] : \A k \in 0..n : s[k] = IF k = 0 THEN b ELSE F[k][s[k - 1]]
  BY <1>4
<1>6. s[0] = b /\ \A k \in 1..n : s[k] = F[k][s[k - 1]]
  BY <1>5
<1> QED BY <1>6

\* The recursive function of StartsOf is the one sequence of starts.
LEMMA StartsAre ==
  ASSUME NEW lens \in Seq(Nat), NEW g \in Seq(Nat), Len(g) = Len(lens),
         Len(lens) > 0 => g[1] = 0,
         \A j \in 1..(Len(lens) - 1) : g[j + 1] = g[j] + lens[j]
  PROVE  StartsOf(lens) = g
<1> DEFINE n == Len(lens)
           Eq(f) == f = [i \in 1..n |-> IF i = 1 THEN 0 ELSE f[i - 1] + lens[i - 1]]
<1>1. n \in Nat
  OBVIOUS
<1>2. Eq(g)
  <2>1. g = [i \in 1..n |-> g[i]]
    OBVIOUS
  <2>2. \A i \in 1..n : g[i] = IF i = 1 THEN 0 ELSE g[i - 1] + lens[i - 1]
    <3> TAKE i \in 1..n
    <3>1. CASE i = 1
      BY <3>1
    <3>2. CASE i # 1
      <4>1. (i - 1) \in 1..(n - 1)
        BY <3>2
      <4>2. g[(i - 1) + 1] = g[i - 1] + lens[i - 1]
        BY <4>1
      <4> QED BY <4>2, <3>2
    <3> QED BY <3>1, <3>2
  <2> QED BY <2>1, <2>2
<1>3. ASSUME NEW f, Eq(f) PROVE f = g
  <2>1. f = [i \in 1..n |-> f[i]] /\ \A i \in 1..n : f[i] = IF i = 1 THEN 0 ELSE f[i - 1] + lens[i - 1]
    BY <1>3
  <2>2. g = [i \in 1..n |-> g[i]] /\ \A i \in 1..n : g[i] = IF i = 1 THEN 0 ELSE g[i - 1] + lens[i - 1]
    BY <1>2
  <2> DEFINE X == {k \in 0..n : k > 0 => f[k] = g[k]}
  <2>3. 0 \in X
    OBVIOUS
  <2>4. ASSUME NEW k \in 1..n, k - 1 \in X PROVE k \in X
    <3>0. k > 1 => f[k - 1] = g[k - 1]
      BY <2>4
    <3>1. f[k] = IF k = 1 THEN 0 ELSE f[k - 1] + lens[k - 1]
      BY <2>1
    <3>2. g[k] = IF k = 1 THEN 0 ELSE g[k - 1] + lens[k - 1]
      BY <2>2
    <3>3. f[k] = g[k]
      BY <3>0, <3>1, <3>2
    <3> QED BY <3>3
  <2>5. 0..n \subseteq X
    <3> HIDE DEF X, n
    <3> QED BY <1>1, <2>3, <2>4, Reaches
  <2>6. \A i \in 1..n : f[i] = g[i]
    <3> TAKE i \in 1..n
    <3>1. i \in X
      <4>1. i \in 0..n
        OBVIOUS
      <4> HIDE DEF X, n
      <4> QED BY <2>5, <4>1
    <3> QED BY <3>1
  <2> QED BY <2>1, <2>2, <2>6
<1>4. StartsOf(lens) = CHOOSE f : Eq(f)
  BY DEF StartsOf
<1>5. Eq(CHOOSE f : Eq(f))
  <2> HIDE DEF Eq
  <2> QED BY <1>2
<1> HIDE DEF Eq
<1> QED BY <1>3, <1>4, <1>5

\* FlattenSeq appends one sequence after the other.
SeqsOver(n, S) == [1..n -> Seq(S)]
IsFlatLoop(fl, F, n, S) ==
  /\ fl \in [0..n -> Seq(S)]
  /\ fl[0] = <<>>
  /\ \A k \in 1..n : fl[k] = fl[k - 1] \o F[k]
  /\ FlattenSeq(F) = fl[n]

\* FlattenSeq computed from the front, one part after the other.
LEMMA FlattenLoop ==
  ASSUME NEW S, NEW n \in Nat, NEW F, F \in SeqsOver(n, S)
  PROVE  \E fl : IsFlatLoop(fl, F, n, S)
<1> USE DEF SeqsOver
<1> DEFINE Add == [k \in 1..n |-> [w \in Seq(S) |-> w \o F[k]]]
<1>1. Add \in [1..n -> [Seq(S) -> Seq(S)]]
  BY ConcatProperties
<1>2. <<>> \in Seq(S)
  BY EmptySeq
<1>3. PICK fl \in [0..n -> Seq(S)] :
        fl[0] = <<>> /\ \A k \in 1..n : fl[k] = Add[k][fl[k - 1]]
  <2> DEFINE SS == Seq(S)
             none == <<>>
  <2>1. Add \in [1..n -> [SS -> SS]] /\ none \in SS /\ n \in Nat
    BY <1>1, <1>2
  <2> HIDE DEF Add, SS, none
  <2>2. \E s \in [0..n -> SS] : s[0] = none /\ \A k \in 1..n : s[k] = Add[k][s[k - 1]]
    BY ONLY <2>1, LoopExists
  <2> QED BY <2>2 DEF SS, none
<1>4. \A k \in 1..n : fl[k] = fl[k - 1] \o F[k]
  <2> TAKE k \in 1..n
  <2>1. fl[k - 1] \in Seq(S)
    OBVIOUS
  <2> QED BY <1>3, <2>1
<1>5. Len(F) = n /\ DOMAIN F = 1..n
  OBVIOUS
<1>6. CASE n = 0
  <2>1. FlattenSeq(F) = F
    BY <1>5, <1>6 DEF FlattenSeq
  <2>2. F = <<>>
    BY <1>6, <1>5
  <2> QED BY <1>3, <1>4, <1>6, <2>1, <2>2 DEF IsFlatLoop
<1>7. CASE n > 0
  <2> DEFINE Eq(f) == f = [i \in 1..n |-> IF i = 1 THEN F[i] ELSE f[i - 1] \o F[i]]
             h == [i \in 1..n |-> fl[i]]
  <2>1. fl[1] = F[1]
    <3>0. 1 \in 1..n /\ 1 - 1 = 0
      BY <1>7
    <3>1. fl[1] = <<>> \o F[1] /\ F[1] \in Seq(S)
      <4>1. fl[1] = fl[1 - 1] \o F[1]
        BY <1>4, <3>0
      <4> QED BY <4>1, <3>0, <1>3
    <3> QED BY <3>1, ConcatEmptySeq
  <2>2. Eq(h)
    <3>1. \A i \in 1..n : h[i] = IF i = 1 THEN F[i] ELSE h[i - 1] \o F[i]
      <4> TAKE i \in 1..n
      <4>1. fl[i] = fl[i - 1] \o F[i]
        BY <1>4
      <4>2. i # 1 => i - 1 \in 1..n
        OBVIOUS
      <4> QED BY <4>1, <4>2, <2>1
    <3> QED BY <3>1
  <2>3. ASSUME NEW f, Eq(f) PROVE f[n] = fl[n]
    <3>1. \A i \in 1..n : f[i] = IF i = 1 THEN F[i] ELSE f[i - 1] \o F[i]
      BY <2>3
    <3> DEFINE X == {k \in 0..n : k > 0 => f[k] = fl[k]}
    <3>2. 0 \in X
      OBVIOUS
    <3>3. ASSUME NEW k \in 1..n, k - 1 \in X PROVE k \in X
      <4>1. CASE k = 1
        BY <4>1, <3>1, <2>1
      <4>2. CASE k # 1
        <5>1. f[k - 1] = fl[k - 1]
          BY <3>3, <4>2
        <5>2. f[k] = f[k - 1] \o F[k] /\ fl[k] = fl[k - 1] \o F[k]
          <6>1. fl[k] = fl[k - 1] \o F[k]
            BY <1>4
          <6>2. f[k] = f[k - 1] \o F[k]
            BY <3>1, <4>2
          <6> QED BY <6>1, <6>2
        <5>3. f[k] = fl[k]
          BY <5>1, <5>2
        <5> QED BY <5>3
      <4> QED BY <4>1, <4>2
    <3>4. 0..n \subseteq X
      <4> HIDE DEF X
      <4> QED BY <3>2, <3>3, Reaches
    <3> QED BY <3>4, <1>7
  <2>4. FlattenSeq(F) = (CHOOSE f : Eq(f))[n]
    BY <1>5, <1>7 DEF FlattenSeq
  <2>5. Eq(CHOOSE f : Eq(f))
    <3> HIDE DEF Eq
    <3> QED BY <2>2
  <2>6. FlattenSeq(F) = fl[n]
    <3> HIDE DEF Eq
    <3> QED BY <2>3, <2>4, <2>5
  <2> QED BY <1>3, <1>4, <2>6 DEF IsFlatLoop
<1>8. n = 0 \/ n > 0
  OBVIOUS
<1> QED BY <1>6, <1>7, <1>8, Zenon

\* The greatest element of a set, when there is one.
LEMMA MaxIs ==
  ASSUME NEW S, NEW x \in S, S \subseteq Int, \A y \in S : y <= x
  PROVE  Max(S) = x
<1> DEFINE P(z) == z \in S /\ \A y \in S : z >= y
<1>1. P(x)
  OBVIOUS
<1>2. \A z : P(z) => z = x
  OBVIOUS
<1>3. Max(S) = CHOOSE z \in S : \A y \in S : z >= y
  BY DEF Max
<1> QED BY <1>1, <1>2, <1>3

\* The least element of a set, when there is one.
LEMMA MinIs ==
  ASSUME NEW S, NEW x \in S, S \subseteq Int, \A y \in S : x <= y
  PROVE  Min(S) = x
<1> DEFINE P(z) == z \in S /\ \A y \in S : z <= y
<1>1. P(x)
  OBVIOUS
<1>2. \A z : P(z) => z = x
  OBVIOUS
<1>3. Min(S) = CHOOSE z \in S : \A y \in S : z =< y
  BY DEF Min
<1> QED BY <1>1, <1>2, <1>3

\* The greater and the lesser of two numbers.
LEMMA OfTwo ==
  ASSUME NEW a \in Int, NEW b \in Int
  PROVE  /\ Max({a, b}) = IF a <= b THEN b ELSE a
         /\ Min({a, b}) = IF a <= b THEN a ELSE b
<1> DEFINE S == {a, b}
           hi == IF a <= b THEN b ELSE a
           lo == IF a <= b THEN a ELSE b
<1>1. S \subseteq Int /\ hi \in S /\ lo \in S /\ \A y \in S : y <= hi /\ lo <= y
  OBVIOUS
<1> HIDE DEF S, hi, lo
<1>2. Max(S) = hi
  BY <1>1, MaxIs
<1>3. Min(S) = lo
  BY <1>1, MinIs
<1> QED BY <1>2, <1>3 DEF S, hi, lo

-----------------------------------------------------------------------------
(* The chunk map *)

\* The first row behind chunk i of the map m of a sheet with nr rows.
EndOf(m, nr, i) == IF i < Len(m) THEN m[i + 1] ELSE nr

\* The map cuts the rows 0..nr - 1 into chunks, none longer than ChunkRows.
Tiles(m, nr) ==
  /\ m \in Seq(Nat) /\ nr \in Nat
  /\ m = <<>> <=> nr = 0
  /\ m # <<>> => m[1] = 0
  /\ \A i \in 1..Len(m) : m[i] < EndOf(m, nr, i) /\ EndOf(m, nr, i) <= m[i] + ChunkRows

\* A chunk ends before a later one starts.
LEMMA TilesApart ==
  ASSUME NEW m, NEW nr, Tiles(m, nr), NEW i \in 1..Len(m), NEW j \in 1..Len(m), i < j
  PROVE  EndOf(m, nr, i) <= m[j]
<1> DEFINE X == {k \in 0..Len(m) : i < k => EndOf(m, nr, i) <= m[k]}
<1>0. Len(m) \in Nat /\ \A k \in 1..Len(m) : m[k] \in Nat
  BY DEF Tiles
<1>1. 0 \in X
  BY <1>0
<1>2. ASSUME NEW k \in 1..Len(m), k - 1 \in X PROVE k \in X
  <2> SUFFICES ASSUME i < k PROVE EndOf(m, nr, i) <= m[k]
    OBVIOUS
  <2>1. CASE i = k - 1
    BY <2>1, <1>0 DEF EndOf
  <2>2. CASE i < k - 1
    <3>1. EndOf(m, nr, i) <= m[k - 1]
      BY <1>2, <2>2
    <3>2. m[k - 1] < m[k]
      <4>1. k - 1 \in 1..Len(m) /\ k - 1 < Len(m)
        BY <1>0, <2>2
      <4>2. m[k - 1] < EndOf(m, nr, k - 1)
        BY <4>1 DEF Tiles
      <4> QED BY <4>1, <4>2, <1>0 DEF EndOf
    <3>3. EndOf(m, nr, i) \in Nat
      BY <1>0 DEF EndOf, Tiles
    <3> QED BY <3>1, <3>2, <3>3, <1>0
  <2> QED BY <2>1, <2>2, <1>0
<1>3. 0..Len(m) \subseteq X
  <2> HIDE DEF X
  <2> QED BY <1>0, <1>1, <1>2, Reaches
<1>4. j \in X
  <2> HIDE DEF X
  <2> QED BY <1>0, <1>3
<1> QED BY <1>4

\* The rows of a chunk are rows of the sheet.
LEMMA TilesRows ==
  ASSUME NEW m, NEW nr, Tiles(m, nr), NEW i \in 1..Len(m)
  PROVE  /\ m[i] \in Nat /\ EndOf(m, nr, i) \in Nat
         /\ m[i] < EndOf(m, nr, i) /\ EndOf(m, nr, i) <= nr
<1>0. Len(m) \in Nat /\ nr \in Nat /\ \A k \in 1..Len(m) : m[k] \in Nat
  BY DEF Tiles
<1>1. EndOf(m, nr, i) \in Nat /\ m[i] < EndOf(m, nr, i)
  BY <1>0 DEF EndOf, Tiles
<1>2. EndOf(m, nr, i) <= nr
  <2>1. CASE i = Len(m)
    BY <2>1, <1>0 DEF EndOf
  <2>2. CASE i < Len(m)
    <3> DEFINE l == Len(m)
    <3>1. l \in 1..l
      BY <1>0, <2>2
    <3>2. EndOf(m, nr, i) <= m[l]
      BY <3>1, <2>2, TilesApart
    <3>3. m[l] < nr
      <4>1. m[l] < EndOf(m, nr, l)
        BY <3>1 DEF Tiles
      <4> QED BY <4>1, <1>0 DEF EndOf
    <3>4. m[l] \in Nat
      BY <1>0, <3>1
    <3> HIDE DEF l
    <3> QED BY <3>2, <3>3, <3>4, <1>0, <1>1
  <2> QED BY <2>1, <2>2, <1>0
<1> QED BY <1>0, <1>1, <1>2

\* Every row is in a chunk.
LEMMA TilesCover ==
  ASSUME NEW m, NEW nr, Tiles(m, nr), NEW r \in Nat, r < nr
  PROVE  \E i \in 1..Len(m) : m[i] <= r /\ r < EndOf(m, nr, i)
<1>0. Len(m) \in Nat /\ nr \in Nat /\ \A k \in 1..Len(m) : m[k] \in Nat
  BY DEF Tiles
<1>1. m # <<>> /\ m[1] = 0 /\ Len(m) > 0
  BY DEF Tiles
<1> SUFFICES ASSUME \A i \in 1..Len(m) : ~(m[i] <= r /\ r < EndOf(m, nr, i)) PROVE FALSE
  OBVIOUS
<1> DEFINE X == {k \in 0..Len(m) : k > 0 => m[k] <= r}
<1>2. 0 \in X
  BY <1>0
<1>3. ASSUME NEW k \in 1..Len(m), k - 1 \in X PROVE k \in X
  <2>1. CASE k = 1
    BY <2>1, <1>1
  <2>2. CASE k # 1
    <3>1. k - 1 \in 1..Len(m) /\ k - 1 < Len(m) /\ m[k - 1] <= r
      BY <2>2, <1>3
    <3>2. ~(r < EndOf(m, nr, k - 1))
      BY <3>1
    <3>3. EndOf(m, nr, k - 1) = m[k]
      BY <3>1 DEF EndOf
    <3> QED BY <3>2, <3>3, <1>0
  <2> QED BY <2>1, <2>2
<1>4. 0..Len(m) \subseteq X
  <2> HIDE DEF X
  <2> QED BY <1>0, <1>2, <1>3, Reaches
<1>5. Len(m) \in X /\ Len(m) \in 1..Len(m)
  <2> HIDE DEF X
  <2> QED BY <1>0, <1>1, <1>4
<1>6. m[Len(m)] <= r
  BY <1>5
<1>7. EndOf(m, nr, Len(m)) = nr
  BY <1>0 DEF EndOf
<1> QED BY <1>5, <1>6, <1>7

-----------------------------------------------------------------------------
(* The sheet *)

Partials == UNION {[D -> Seq(Contents)] : D \in SUBSET Nat}
Columns == [n : Nat, chunk : Partials]
SheetRecords == [nrows : Nat, starts : Seq(Nat), cols : Seq(Columns)]

\* A column has a dense prefix, and its chunks the lengths the map gives them.
ColumnFits(col, m, nr) ==
  /\ col \in Columns
  /\ DOMAIN col.chunk \subseteq 1..Len(m)
  /\ 1..col.n \subseteq DOMAIN col.chunk
  /\ \A i \in DOMAIN col.chunk : Len(col.chunk[i]) = EndOf(m, nr, i) - m[i]

\* The invariant of the layout: no chunk is longer than ChunkRows, and a sheet
\* without columns has no rows.
Layout(s) ==
  /\ s \in SheetRecords
  /\ Tiles(s.starts, s.nrows)
  /\ \A c \in 1..Len(s.cols) : ColumnFits(s.cols[c], s.starts, s.nrows)
  /\ s.cols = <<>> => s.nrows = 0

\* What row k of chunk i of a column shows.
At(col, i, k) == IF i \in DOMAIN col.chunk THEN col.chunk[i][k + 1] ELSE Blank

\* What it means to be a vector of chunks with holes.
LEMMA PartialIs ==
  ASSUME NEW f
  PROVE  f \in Partials <=> /\ f = [i \in DOMAIN f |-> f[i]] /\ DOMAIN f \subseteq Nat
                            /\ \A i \in DOMAIN f : f[i] \in Seq(Contents)
<1>1. ASSUME f \in Partials
      PROVE  /\ f = [i \in DOMAIN f |-> f[i]] /\ DOMAIN f \subseteq Nat
             /\ \A i \in DOMAIN f : f[i] \in Seq(Contents)
  <2>1. PICK D \in SUBSET Nat : f \in [D -> Seq(Contents)]
    BY <1>1 DEF Partials
  <2> QED BY <2>1
<1>2. ASSUME f = [i \in DOMAIN f |-> f[i]], DOMAIN f \subseteq Nat,
             \A i \in DOMAIN f : f[i] \in Seq(Contents)
      PROVE  f \in Partials
  <2>1. f \in [DOMAIN f -> Seq(Contents)] /\ DOMAIN f \in SUBSET Nat
    BY <1>2
  <2> QED BY <2>1 DEF Partials
<1> QED BY <1>1, <1>2

\* The EXCEPTs of a sheet as records.
LEMMA SheetUpdates ==
  ASSUME NEW s, s \in SheetRecords, NEW v
  PROVE  /\ [s EXCEPT !.nrows = v] = [nrows |-> v, starts |-> s.starts, cols |-> s.cols]
         /\ [s EXCEPT !.starts = v] = [nrows |-> s.nrows, starts |-> v, cols |-> s.cols]
         /\ [s EXCEPT !.cols = v] = [nrows |-> s.nrows, starts |-> s.starts, cols |-> v]
<1> DEFINE x == s.nrows
           y == s.starts
           z == s.cols
<1>1. s = [nrows |-> x, starts |-> y, cols |-> z]
  BY DEF SheetRecords
<1> HIDE DEF x, y, z
<1>2. [s EXCEPT !.nrows = v] = [nrows |-> v, starts |-> y, cols |-> z]
  BY ONLY <1>1
<1>3. [s EXCEPT !.starts = v] = [nrows |-> x, starts |-> v, cols |-> z]
  BY ONLY <1>1
<1>4. [s EXCEPT !.cols = v] = [nrows |-> x, starts |-> y, cols |-> v]
  BY ONLY <1>1
<1> QED BY <1>2, <1>3, <1>4 DEF x, y, z

\* The binary search finds the chunk that holds a row.
LEMMA ChunkOfRow ==
  ASSUME NEW s, Tiles(s.starts, s.nrows), NEW i \in 1..Len(s.starts), NEW r \in Nat,
         s.starts[i] <= r, r < EndOf(s.starts, s.nrows, i)
  PROVE  chunk_of_row(s, r) = [chunk |-> i, off |-> r - s.starts[i]]
<1> DEFINE m == s.starts
           upto == {j \in 1..Len(m) : m[j] <= r}
<1>0. Len(m) \in Nat /\ \A k \in 1..Len(m) : m[k] \in Nat
  BY DEF Tiles
<1>1. i \in upto /\ upto \subseteq Int
  BY <1>0
<1>2. ASSUME NEW j \in upto PROVE j <= i
  <2> SUFFICES ASSUME i < j PROVE FALSE
    BY <1>0
  <2>1. EndOf(m, s.nrows, i) <= m[j]
    BY TilesApart
  <2>2. EndOf(m, s.nrows, i) \in Nat
    BY TilesRows
  <2> QED BY <2>1, <2>2, <1>0
<1>3. Max(upto) = i
  <2> HIDE DEF upto
  <2> QED BY <1>1, <1>2, MaxIs
<1> QED BY <1>1, <1>3 DEF chunk_of_row

\* get_cell_value reads the chunk that holds the row.
LEMMA CellIs ==
  ASSUME NEW s, Layout(s), NEW c \in 1..Len(s.cols), NEW i \in 1..Len(s.starts), NEW r \in Nat,
         s.starts[i] <= r, r < EndOf(s.starts, s.nrows, i)
  PROVE  get_cell_value(s, r, c - 1) = At(s.cols[c], i, r - s.starts[i])
<1>1. Tiles(s.starts, s.nrows) /\ Len(s.cols) \in Nat /\ s.nrows \in Nat
  BY DEF Layout, SheetRecords
<1>2. chunk_of_row(s, r) = [chunk |-> i, off |-> r - s.starts[i]]
  BY <1>1, ChunkOfRow
<1>3. r < s.nrows
  BY <1>1, TilesRows
<1>4. ~(r >= s.nrows \/ c - 1 >= Len(s.cols)) /\ (c - 1) + 1 = c
  BY <1>1, <1>3
<1> QED BY <1>2, <1>4 DEF get_cell_value, At

-----------------------------------------------------------------------------
(* Plans of row edits *)

PlanItems == [old : Nat, off : Nat, len : Nat]

\* An item of a plan over the map m, put at row `at`: src gives for every new
\* row the old one it comes from, or -1.
ItemOK(m, nr, item, at, src) ==
  /\ item \in PlanItems /\ item.len > 0 /\ item.len <= ChunkRows
  /\ item.old = Missing => \A k \in 0..(item.len - 1) : src[at + k] = -1
  /\ item.old # Missing =>
       /\ item.old \in 1..Len(m)
       /\ item.off + item.len <= EndOf(m, nr, item.old) - m[item.old]
       /\ \A k \in 0..(item.len - 1) : src[at + k] = m[item.old] + item.off + k

\* The items of the plan, put one behind the other at the rows g, make `total`
\* rows and bring each from where src says.
PlanOK(m, nr, plan, g, total, src) ==
  /\ plan \in Seq(PlanItems) /\ g \in Seq(Nat) /\ total \in Nat /\ Len(g) = Len(plan)
  /\ plan = <<>> => total = 0
  /\ plan # <<>> => g[1] = 0
  /\ \A j \in 1..Len(plan) : /\ EndOf(g, total, j) = g[j] + plan[j].len
                             /\ ItemOK(m, nr, plan[j], g[j], src)

\* The plan of no rows.
LEMMA EmptyPlan ==
  ASSUME NEW m, NEW nr, NEW src
  PROVE  PlanOK(m, nr, <<>>, <<>>, 0, src)
BY DEF PlanOK

\* A plan may go on with an item that fits behind it.
LEMMA PlanAppend ==
  ASSUME NEW m, NEW nr, NEW src, NEW plan, NEW g, NEW total, NEW item,
         PlanOK(m, nr, plan, g, total, src), ItemOK(m, nr, item, total, src)
  PROVE  PlanOK(m, nr, Append(plan, item), Append(g, total), total + item.len, src)
<1> DEFINE p2 == Append(plan, item)
           g2 == Append(g, total)
           t2 == total + item.len
           l == Len(plan)
<1>1. plan \in Seq(PlanItems) /\ item \in PlanItems /\ g \in Seq(Nat) /\ total \in Nat
      /\ item.len \in Nat /\ Len(g) = l /\ l \in Nat
  BY DEF PlanOK, ItemOK, PlanItems
<1>2. /\ p2 \in Seq(PlanItems) /\ Len(p2) = l + 1 /\ p2[l + 1] = item
      /\ \A j \in 1..l : p2[j] = plan[j]
  BY <1>1, AppendProperties
<1>3. /\ g2 \in Seq(Nat) /\ Len(g2) = l + 1 /\ g2[l + 1] = total
      /\ \A j \in 1..l : g2[j] = g[j]
  BY <1>1, AppendProperties
<1>4. t2 \in Nat
  BY <1>1
<1>5. g2[1] = 0
  <2>1. CASE l = 0
    <3>1. plan = <<>>
      BY <1>1, <2>1
    <3> QED BY <3>1, <2>1, <1>3 DEF PlanOK
  <2>2. CASE l > 0
    <3>1. plan # <<>> /\ 1 \in 1..l
      BY <1>1, <2>2
    <3> QED BY <3>1, <1>3 DEF PlanOK
  <2> QED BY <2>1, <2>2, <1>1
<1>6. ASSUME NEW j \in 1..(l + 1)
      PROVE  EndOf(g2, t2, j) = g2[j] + p2[j].len /\ ItemOK(m, nr, p2[j], g2[j], src)
  <2>1. CASE j = l + 1
    BY <2>1, <1>1, <1>2, <1>3 DEF EndOf
  <2>2. CASE j \in 1..l
    <3>1. EndOf(g, total, j) = g[j] + plan[j].len /\ ItemOK(m, nr, plan[j], g[j], src)
      BY <2>2 DEF PlanOK
    <3>2. p2[j] = plan[j] /\ g2[j] = g[j]
      BY <2>2, <1>2, <1>3
    <3>3. EndOf(g2, t2, j) = EndOf(g, total, j)
      <4>1. CASE j < l
        <5>1. j + 1 \in 1..l
          BY <4>1, <2>2, <1>1
        <5> QED BY <5>1, <4>1, <1>1, <1>3 DEF EndOf
      <4>2. CASE j = l
        BY <4>2, <1>1, <1>3 DEF EndOf
      <4> QED BY <4>1, <4>2, <2>2, <1>1
    <3> QED BY <3>1, <3>2, <3>3
  <2> QED BY <2>1, <2>2, <1>1
<1>7. p2 # <<>>
  BY <1>1, <1>2
<1> HIDE DEF p2, g2, t2, l
<1>8. PlanOK(m, nr, p2, g2, t2, src)
  BY <1>2, <1>3, <1>4, <1>5, <1>6, <1>7 DEF PlanOK
<1> QED BY <1>8 DEF p2, g2, t2

\* A plan makes `total` rows.
Plans(m, nr, plan, total, src) == \E g : PlanOK(m, nr, plan, g, total, src)

\* A plan is a sequence of items.
LEMMA PlanTypes ==
  ASSUME NEW m, NEW nr, NEW plan, NEW total, NEW src, Plans(m, nr, plan, total, src)
  PROVE  plan \in Seq(PlanItems) /\ total \in Nat
BY DEF Plans, PlanOK

\* A plan may go on with a slice, empty or not.
LEMMA PlanSlice ==
  ASSUME NEW m, NEW nr, NEW src, NEW plan, NEW total, NEW old \in Nat, NEW off \in Nat, NEW len \in Nat,
         Plans(m, nr, plan, total, src),
         len > 0 => ItemOK(m, nr, [old |-> old, off |-> off, len |-> len], total, src)
  PROVE  Plans(m, nr, plan \o Slice(old, off, len), total + len, src)
<1> DEFINE item == [old |-> old, off |-> off, len |-> len]
<1>1. plan \in Seq(PlanItems) /\ total \in Nat
  BY PlanTypes
<1>2. CASE len = 0
  <2>1. plan \o Slice(old, off, len) = plan /\ total + len = total
    BY <1>1, <1>2, ConcatEmptySeq DEF Slice
  <2> QED BY <2>1
<1>3. CASE len > 0
  <2>1. item \in PlanItems /\ item.len = len
    BY DEF PlanItems
  <2>2. PICK g : PlanOK(m, nr, plan, g, total, src)
    BY DEF Plans
  <2>3. ItemOK(m, nr, item, total, src)
    BY <1>3
  <2>4. plan \o Slice(old, off, len) = Append(plan, item)
    <3>1. Slice(old, off, len) = <<item>>
      BY <1>3 DEF Slice
    <3> HIDE DEF item
    <3> QED BY <3>1, <1>1, <2>1, AppendIsConcat
  <2> HIDE DEF item
  <2>5. PlanOK(m, nr, Append(plan, item), Append(g, total), total + len, src)
    BY <2>1, <2>2, <2>3, PlanAppend
  <2> QED BY <2>4, <2>5 DEF Plans
<1> QED BY <1>2, <1>3

-----------------------------------------------------------------------------
(* Sheets rebuilt by a plan *)

\* What a plan makes of a column.
Rebuilt(col, new, plan) ==
  /\ new \in Columns
  /\ DOMAIN new.chunk \subseteq 1..Len(plan) /\ 1..new.n \subseteq DOMAIN new.chunk
  /\ \A j \in DOMAIN new.chunk : Len(new.chunk[j]) = plan[j].len
  /\ \A j \in 1..Len(plan) : \A k \in 0..(plan[j].len - 1) :
       At(new, j, k) = IF plan[j].old = Missing THEN Blank
                       ELSE At(col, plan[j].old, plan[j].off + k)

\* The rows of t are rows of s or empty, as src says.
ShowsRows(s, t, src) ==
  /\ Len(t.cols) = Len(s.cols)
  /\ \A c \in 1..Len(s.cols), r \in Nat : r < t.nrows =>
       get_cell_value(t, r, c - 1) =
         IF src[r] = -1 THEN Blank ELSE get_cell_value(s, src[r], c - 1)

\* The starts of the items of a plan are a chunk map.
LEMMA PlanTiles ==
  ASSUME NEW m, NEW nr, NEW plan, NEW g, NEW total, NEW src, PlanOK(m, nr, plan, g, total, src)
  PROVE  Tiles(g, total)
<1>1. /\ plan \in Seq(PlanItems) /\ g \in Seq(Nat) /\ total \in Nat /\ Len(g) = Len(plan)
      /\ Len(plan) \in Nat
  BY DEF PlanOK
<1>2. ASSUME NEW j \in 1..Len(g)
      PROVE  g[j] < EndOf(g, total, j) /\ EndOf(g, total, j) <= g[j] + ChunkRows
  <2>1. EndOf(g, total, j) = g[j] + plan[j].len /\ ItemOK(m, nr, plan[j], g[j], src)
    BY <1>1 DEF PlanOK
  <2>2. plan[j].len \in Nat /\ plan[j].len > 0 /\ plan[j].len <= ChunkRows
    BY <2>1 DEF ItemOK, PlanItems
  <2>3. g[j] \in Nat /\ ChunkRows \in Nat
    BY <1>1, SheetAssumption
  <2> QED BY <2>1, <2>2, <2>3
<1>3. g = <<>> <=> total = 0
  <2>1. CASE plan = <<>>
    BY <1>1, <2>1 DEF PlanOK
  <2>2. CASE plan # <<>>
    <3>1. Len(g) \in 1..Len(g) /\ g # <<>>
      BY <1>1, <2>2
    <3>2. g[Len(g)] < EndOf(g, total, Len(g))
      BY <3>1, <1>2
    <3>3. total # 0
      BY <3>1, <3>2, <1>1 DEF EndOf
    <3> QED BY <3>1, <3>3
  <2> QED BY <2>1, <2>2
<1>4. g # <<>> => g[1] = 0
  BY <1>1 DEF PlanOK
<1> QED BY <1>1, <1>2, <1>3, <1>4 DEF Tiles

\* A row of a slice is a row of the chunk it is cut from.
LEMMA InsideChunk ==
  ASSUME NEW a \in Nat, NEW e \in Nat, NEW o \in Nat, NEW l \in Nat, NEW k \in Nat,
         o + l <= e - a, k < l
  PROVE  a + o + k \in Nat /\ a <= a + o + k /\ a + o + k < e /\ (a + o + k) - a = o + k
OBVIOUS

\* A sheet rebuilt to a plan, in every column, shows the rows the plan says.
LEMMA RebuiltSheet ==
  ASSUME NEW s, Layout(s), s.cols # <<>>, NEW plan, NEW g, NEW total, NEW src,
         PlanOK(s.starts, s.nrows, plan, g, total, src),
         NEW cs \in Seq(Columns), Len(cs) = Len(s.cols),
         \A c \in 1..Len(cs) : Rebuilt(s.cols[c], cs[c], plan)
  PROVE  LET t == [nrows |-> total, starts |-> g, cols |-> cs]
         IN  Layout(t) /\ ShowsRows(s, t, src)
<1> DEFINE t == [nrows |-> total, starts |-> g, cols |-> cs]
           m == s.starts
           nr == s.nrows
<1>1. /\ plan \in Seq(PlanItems) /\ g \in Seq(Nat) /\ total \in Nat /\ Len(g) = Len(plan)
      /\ Len(plan) \in Nat
  BY DEF PlanOK
<1>2. Tiles(g, total)
  BY PlanTiles
<1>3. ASSUME NEW j \in 1..Len(plan)
      PROVE  /\ EndOf(g, total, j) = g[j] + plan[j].len /\ ItemOK(m, nr, plan[j], g[j], src)
             /\ plan[j].len \in Nat /\ plan[j].old \in Nat /\ plan[j].off \in Nat /\ g[j] \in Nat
  <2>1. plan[j] \in PlanItems /\ g[j] \in Nat
    BY <1>1
  <2> QED BY <2>1 DEF PlanOK, PlanItems
<1>4. ASSUME NEW c \in 1..Len(cs) PROVE ColumnFits(cs[c], g, total)
  <2>1. Rebuilt(s.cols[c], cs[c], plan)
    OBVIOUS
  <2>2. ASSUME NEW j \in DOMAIN cs[c].chunk
        PROVE  Len(cs[c].chunk[j]) = EndOf(g, total, j) - g[j]
    <3>1. j \in 1..Len(plan) /\ Len(cs[c].chunk[j]) = plan[j].len
      BY <2>1 DEF Rebuilt
    <3> QED BY <3>1, <1>3
  <2> QED BY <2>1, <2>2, <1>1 DEF ColumnFits, Rebuilt
<1>5. cs # <<>>
  <2>1. Len(s.cols) # 0
    BY DEF Layout, SheetRecords
  <2> QED BY <2>1
<1>6. Layout(t)
  BY <1>1, <1>2, <1>4, <1>5 DEF Layout, SheetRecords
<1>7. ASSUME NEW c \in 1..Len(s.cols), NEW r \in Nat, r < total
      PROVE  get_cell_value(t, r, c - 1) =
               IF src[r] = -1 THEN Blank ELSE get_cell_value(s, src[r], c - 1)
  <2>1. PICK j \in 1..Len(g) : g[j] <= r /\ r < EndOf(g, total, j)
    BY <1>2, <1>7, TilesCover
  <2> DEFINE k == r - g[j]
             item == plan[j]
  <2>2. j \in 1..Len(plan)
    BY <1>1
  <2>3. /\ item.len \in Nat /\ item.old \in Nat /\ item.off \in Nat /\ g[j] \in Nat
        /\ ItemOK(m, nr, item, g[j], src) /\ EndOf(g, total, j) = g[j] + item.len
    BY <2>2, <1>3
  <2>4. k \in 0..(item.len - 1) /\ g[j] + k = r
    BY <2>1, <2>3
  <2>5. get_cell_value(t, r, c - 1) = At(cs[c], j, k)
    <3>1. t.starts = g /\ t.nrows = total /\ t.cols = cs /\ c \in 1..Len(cs)
      OBVIOUS
    <3> HIDE DEF t
    <3> QED BY <3>1, <1>6, <2>1, CellIs
  <2>6. At(cs[c], j, k) = IF item.old = Missing THEN Blank ELSE At(s.cols[c], item.old, item.off + k)
    BY <2>2, <2>4 DEF Rebuilt
  <2> HIDE DEF item, k
  <2>7. CASE item.old = Missing
    <3>1. src[r] = -1
      BY <2>3, <2>4, <2>7 DEF ItemOK
    <3> QED BY <3>1, <2>5, <2>6, <2>7
  <2>8. CASE item.old # Missing
    <3> DEFINE i == item.old
               q == m[i] + item.off + k
    <3>1. /\ i \in 1..Len(m) /\ item.off + item.len <= EndOf(m, nr, i) - m[i] /\ src[r] = q
      <4>1. src[g[j] + k] = q
        BY <2>3, <2>4, <2>8 DEF ItemOK
      <4> QED BY <4>1, <2>3, <2>4, <2>8 DEF ItemOK
    <3>2. Tiles(m, nr)
      BY DEF Layout
    <3>3. m[i] \in Nat /\ EndOf(m, nr, i) \in Nat
      BY <3>1, <3>2, TilesRows
    <3>4. k \in Nat /\ k < item.len
      BY <2>3, <2>4
    <3>5. q \in Nat /\ m[i] <= q /\ q < EndOf(m, nr, i) /\ q - m[i] = item.off + k
      <4> DEFINE a == m[i]
                 e == EndOf(m, nr, i)
                 o == item.off
                 l == item.len
      <4>1. a \in Nat /\ e \in Nat /\ o \in Nat /\ l \in Nat /\ k \in Nat
            /\ o + l <= e - a /\ k < l
        BY <2>3, <3>1, <3>3, <3>4
      <4> HIDE DEF a, e, o, l
      <4>2. a + o + k \in Nat /\ a <= a + o + k /\ a + o + k < e /\ (a + o + k) - a = o + k
        BY ONLY <4>1, InsideChunk
      <4> QED BY <4>2 DEF a, e, o, l
    <3> HIDE DEF q, i
    <3>6. get_cell_value(s, q, c - 1) = At(s.cols[c], i, q - m[i])
      BY <3>1, <3>5, CellIs
    <3>7. src[r] # -1
      BY <3>1, <3>5
    <3> QED BY <3>1, <3>5, <3>6, <3>7, <2>5, <2>6, <2>8 DEF i
  <2> QED BY <2>7, <2>8
<1>8. ShowsRows(s, t, src)
  <2>1. t.nrows = total /\ Len(t.cols) = Len(s.cols)
    OBVIOUS
  <2> HIDE DEF t
  <2> QED BY <1>7, <2>1 DEF ShowsRows
<1> QED BY <1>6, <1>8

\* A set of numbers up to n has a greatest element.
LEMMA MaxIn ==
  ASSUME NEW n \in Nat, NEW S \in SUBSET (0..n), S # {}
  PROVE  Max(S) \in S
<1> DEFINE T == {n - x : x \in S}
<1>1. T \in SUBSET Nat /\ T # {}
  <2>1. \A x \in S : n - x \in Nat
    OBVIOUS
  <2>2. PICK x \in S : TRUE
    OBVIOUS
  <2>3. n - x \in T
    OBVIOUS
  <2> QED BY <2>1, <2>3
<1>2. PICK y \in T : \A z \in T : y <= z
  <2> HIDE DEF T
  <2> QED BY <1>1, LeastNumber
<1>3. PICK x \in S : y = n - x
  BY <1>2
<1>4. \A z \in S : z <= x
  <2> TAKE z \in S
  <2>1. n - z \in T
    OBVIOUS
  <2>2. y <= n - z
    BY <1>2, <2>1
  <2> QED BY <1>3, <2>2
<1>5. S \subseteq Int
  OBVIOUS
<1>6. Max(S) = x
  BY <1>4, <1>5, MaxIs
<1> QED BY <1>6

\* slice_chunk copies the rows from `off` on.
LEMMA SliceOf ==
  ASSUME NEW ch \in Seq(Contents), NEW off \in Nat, NEW len \in Nat, off + len <= Len(ch)
  PROVE  /\ slice_chunk(ch, off, len) \in Seq(Contents)
         /\ Len(slice_chunk(ch, off, len)) = len
         /\ \A k \in 0..(len - 1) : slice_chunk(ch, off, len)[k + 1] = ch[off + k + 1]
<1> DEFINE a == off + 1
           b == off + len
           sub == SubSeq(ch, a, b)
<1>1. a \in Int /\ b \in Int /\ b - a + 1 = len /\ (a <= b <=> len > 0)
  OBVIOUS
<1>2. \A i \in a..b : ch[i] \in Contents
  OBVIOUS
<1>3. sub \in Seq(Contents) /\ Len(sub) = (IF a <= b THEN b - a + 1 ELSE 0)
      /\ \A i \in 1..(b - a + 1) : sub[i] = ch[a + i - 1]
  <2> HIDE DEF a, b
  <2> QED BY <1>1, <1>2, SubSeqProperties
<1>4. ASSUME NEW k \in 0..(len - 1) PROVE sub[k + 1] = ch[off + k + 1]
  <2>1. k + 1 \in 1..(b - a + 1) /\ a + (k + 1) - 1 = off + k + 1
    OBVIOUS
  <2> HIDE DEF sub, a, b
  <2> QED BY <2>1, <1>3
<1>5. Len(sub) = len
  <2> HIDE DEF sub, a, b
  <2> QED BY <1>1, <1>3
<1>6. slice_chunk(ch, off, len) = sub
  BY DEF slice_chunk
<1> HIDE DEF sub
<1> QED BY <1>3, <1>4, <1>5, <1>6

\* What an item is in a plan that is good for a column of the sheet.
LEMMA ItemFits ==
  ASSUME NEW m, NEW nr, NEW col, Tiles(m, nr), ColumnFits(col, m, nr), NEW item, NEW at, NEW src,
         ItemOK(m, nr, item, at, src), item.old \in DOMAIN col.chunk
  PROVE  /\ item.old # Missing /\ item.off \in Nat /\ item.len \in Nat
         /\ col.chunk[item.old] \in Seq(Contents)
         /\ item.off + item.len <= Len(col.chunk[item.old])
<1>1. item.old \in 1..Len(m) /\ Len(col.chunk[item.old]) = EndOf(m, nr, item.old) - m[item.old]
  BY DEF ColumnFits
<1>2. item.old # Missing
  <2>1. Len(m) \in Nat
    BY DEF Tiles
  <2> QED BY <1>1, <2>1 DEF Missing
<1>3. item.off + item.len <= Len(col.chunk[item.old]) /\ item.off \in Nat /\ item.len \in Nat
  BY <1>1, <1>2 DEF ItemOK, PlanItems
<1>4. col.chunk \in Partials
  BY DEF ColumnFits, Columns
<1>5. col.chunk[item.old] \in Seq(Contents)
  BY <1>4, PartialIs
<1> QED BY <1>2, <1>3, <1>5

SparseColumn(col, plan) ==
  LET kept == {i \in 1..Len(plan) : plan[i].old \in DOMAIN col.chunk}
  IN  [n |-> Max({k \in 0..Len(plan) : 1..k \subseteq kept}),
       chunk |-> [i \in kept |-> slice_chunk(col.chunk[plan[i].old], plan[i].off, plan[i].len)]]

\* RebuildSparse rebuilds a column to the plan.
LEMMA SparseRebuilt ==
  ASSUME NEW m, NEW nr, NEW col, Tiles(m, nr), ColumnFits(col, m, nr),
         NEW plan, NEW g, NEW total, NEW src, PlanOK(m, nr, plan, g, total, src)
  PROVE  Rebuilt(col, SparseColumn(col, plan), plan)
<1> DEFINE kept == {i \in 1..Len(plan) : plan[i].old \in DOMAIN col.chunk}
           prefix == {k \in 0..Len(plan) : 1..k \subseteq kept}
           chunk == [i \in kept |-> slice_chunk(col.chunk[plan[i].old], plan[i].off, plan[i].len)]
           new == SparseColumn(col, plan)
<1>1. new = [n |-> Max(prefix), chunk |-> chunk]
  BY DEF SparseColumn
<1>2. Len(plan) \in Nat /\ \A j \in 1..Len(plan) : ItemOK(m, nr, plan[j], g[j], src)
  BY DEF PlanOK
<1>3. Max(prefix) \in 0..Len(plan) /\ 1..Max(prefix) \subseteq kept
  <2>1. prefix \in SUBSET (0..Len(plan)) /\ 0 \in prefix
    BY <1>2
  <2>2. Max(prefix) \in prefix
    <3> HIDE DEF prefix
    <3> QED BY <2>1, <1>2, MaxIn
  <2> DEFINE x == Max(prefix)
  <2>3. x \in prefix
    BY <2>2
  <2> HIDE DEF x
  <2>4. x \in 0..Len(plan) /\ 1..x \subseteq kept
    BY <2>3
  <2> QED BY <2>4 DEF x
<1>4. ASSUME NEW j \in kept
      PROVE  /\ chunk[j] \in Seq(Contents) /\ Len(chunk[j]) = plan[j].len
             /\ plan[j].old # Missing
             /\ \A k \in 0..(plan[j].len - 1) :
                  chunk[j][k + 1] = col.chunk[plan[j].old][plan[j].off + k + 1]
  <2>1. ItemOK(m, nr, plan[j], g[j], src) /\ plan[j].old \in DOMAIN col.chunk
    BY <1>2
  <2>2. /\ plan[j].old # Missing /\ plan[j].off \in Nat /\ plan[j].len \in Nat
        /\ col.chunk[plan[j].old] \in Seq(Contents)
        /\ plan[j].off + plan[j].len <= Len(col.chunk[plan[j].old])
    BY <2>1, ItemFits
  <2>3. chunk[j] = slice_chunk(col.chunk[plan[j].old], plan[j].off, plan[j].len)
    OBVIOUS
  <2> DEFINE ch == col.chunk[plan[j].old]
             o == plan[j].off
             l == plan[j].len
             new_ch == chunk[j]
  <2>4. ch \in Seq(Contents) /\ o \in Nat /\ l \in Nat /\ o + l <= Len(ch)
        /\ new_ch = slice_chunk(ch, o, l)
    <3> HIDE DEF chunk
    <3> QED BY <2>2, <2>3
  <2> HIDE DEF ch, o, l, new_ch
  <2>5. /\ new_ch \in Seq(Contents) /\ Len(new_ch) = l
        /\ \A k \in 0..(l - 1) : new_ch[k + 1] = ch[o + k + 1]
    BY ONLY <2>4, SliceOf
  <2> HIDE DEF chunk
  <2> QED BY <2>2, <2>5 DEF ch, o, l, new_ch
<1>5. DOMAIN chunk = kept /\ chunk = [i \in DOMAIN chunk |-> chunk[i]] /\ kept \subseteq 1..Len(plan)
  OBVIOUS
<1> HIDE DEF chunk
<1>6. chunk \in Partials
  BY <1>2, <1>4, <1>5, PartialIs
<1>7. new.n = Max(prefix) /\ new.chunk = chunk /\ new \in Columns
  BY <1>1, <1>3, <1>6, <1>2 DEF Columns
<1>8. ASSUME NEW j \in 1..Len(plan), NEW k \in 0..(plan[j].len - 1)
      PROVE  At(new, j, k) = IF plan[j].old = Missing THEN Blank
                             ELSE At(col, plan[j].old, plan[j].off + k)
  <2>1. CASE j \in kept
    BY <2>1, <1>4, <1>5, <1>7 DEF At
  <2>2. CASE j \notin kept
    BY <2>2, <1>5, <1>7 DEF At
  <2> QED BY <2>1, <2>2
<1> HIDE DEF new, kept, prefix
<1>9. Rebuilt(col, new, plan)
  BY <1>3, <1>4, <1>5, <1>7, <1>8 DEF Rebuilt
<1> QED BY <1>9 DEF new

\* A plan applied to a column that has all chunks, as insert_rows and
\* delete_rows do it without making the plan.
Image(chunks, plan) ==
  [j \in 1..Len(plan) |->
     IF plan[j].old = Missing THEN make_empty_chunk(plan[j].len)
     ELSE slice_chunk(chunks[plan[j].old], plan[j].off, plan[j].len)]

\* make_empty_chunk shows nothing.
LEMMA EmptyChunk ==
  ASSUME NEW len \in Nat
  PROVE  /\ make_empty_chunk(len) \in Seq(Contents) /\ Len(make_empty_chunk(len)) = len
         /\ \A k \in 0..(len - 1) : make_empty_chunk(len)[k + 1] = Blank
BY DEF make_empty_chunk, Contents

\* A dense column cut as the plan says is rebuilt to the plan.
LEMMA DenseRebuilt ==
  ASSUME NEW m, NEW nr, NEW col, Tiles(m, nr), ColumnFits(col, m, nr), DOMAIN col.chunk = 1..Len(m),
         NEW plan, NEW g, NEW total, NEW src, PlanOK(m, nr, plan, g, total, src)
  PROVE  /\ Rebuilt(col, [n |-> Len(plan), chunk |-> Image(col.chunk, plan)], plan)
         /\ \A j \in 1..Len(plan) : Len(Image(col.chunk, plan)[j]) = plan[j].len
<1> DEFINE chunk == Image(col.chunk, plan)
           new == [n |-> Len(plan), chunk |-> chunk]
<1>1. Len(plan) \in Nat /\ \A j \in 1..Len(plan) : ItemOK(m, nr, plan[j], g[j], src)
  BY DEF PlanOK
<1>2. DOMAIN chunk = 1..Len(plan) /\ chunk = [i \in DOMAIN chunk |-> chunk[i]]
  BY DEF Image
<1>3. ASSUME NEW j \in 1..Len(plan)
      PROVE  /\ chunk[j] \in Seq(Contents) /\ Len(chunk[j]) = plan[j].len
             /\ \A k \in 0..(plan[j].len - 1) :
                  chunk[j][k + 1] = IF plan[j].old = Missing THEN Blank
                                    ELSE At(col, plan[j].old, plan[j].off + k)
  <2>1. ItemOK(m, nr, plan[j], g[j], src) /\ plan[j].len \in Nat
    BY <1>1 DEF ItemOK, PlanItems
  <2>2. CASE plan[j].old = Missing
    <3>1. chunk[j] = make_empty_chunk(plan[j].len)
      BY <2>2 DEF Image
    <3> HIDE DEF chunk
    <3> QED BY <3>1, <2>1, <2>2, EmptyChunk
  <2>3. CASE plan[j].old # Missing
    <3>1. chunk[j] = slice_chunk(col.chunk[plan[j].old], plan[j].off, plan[j].len)
      BY <2>3 DEF Image
    <3>2. plan[j].old \in DOMAIN col.chunk
      BY <2>1, <2>3 DEF ItemOK
    <3>3. /\ plan[j].off \in Nat /\ col.chunk[plan[j].old] \in Seq(Contents)
          /\ plan[j].off + plan[j].len <= Len(col.chunk[plan[j].old])
      BY <2>1, <3>2, ItemFits
    <3> HIDE DEF chunk
    <3>4. /\ chunk[j] \in Seq(Contents) /\ Len(chunk[j]) = plan[j].len
          /\ \A k \in 0..(plan[j].len - 1) :
               chunk[j][k + 1] = col.chunk[plan[j].old][plan[j].off + k + 1]
      <4> DEFINE ch == col.chunk[plan[j].old]
                 o == plan[j].off
                 l == plan[j].len
                 new_ch == chunk[j]
      <4>1. ch \in Seq(Contents) /\ o \in Nat /\ l \in Nat /\ o + l <= Len(ch)
            /\ new_ch = slice_chunk(ch, o, l)
        BY <2>1, <3>1, <3>3
      <4> HIDE DEF ch, o, l, new_ch
      <4>2. /\ new_ch \in Seq(Contents) /\ Len(new_ch) = l
            /\ \A k \in 0..(l - 1) : new_ch[k + 1] = ch[o + k + 1]
        BY ONLY <4>1, SliceOf
      <4> QED BY <4>2 DEF ch, o, l, new_ch
    <3> QED BY <2>3, <3>2, <3>4 DEF At
  <2> QED BY <2>2, <2>3
<1> HIDE DEF chunk
<1>4. chunk \in Partials
  BY <1>1, <1>2, <1>3, PartialIs
<1>5. new.n = Len(plan) /\ new.chunk = chunk /\ new \in Columns
  BY <1>1, <1>4 DEF Columns
<1> HIDE DEF new
<1>6. Rebuilt(col, new, plan)
  BY <1>2, <1>3, <1>5 DEF Rebuilt, At
<1> QED BY <1>3, <1>6 DEF new, chunk

\* What an edit of rows leaves: a good layout that shows the rows of s.
RowsMade(s, t, total, src) == Layout(t) /\ ShowsRows(s, t, src) /\ t.nrows = total

\* StartsOf on the lengths of a plan gives the starts of its items.
LEMMA PlanStarts ==
  ASSUME NEW m, NEW nr, NEW plan, NEW g, NEW total, NEW src, PlanOK(m, nr, plan, g, total, src),
         NEW lens, lens = [i \in 1..Len(plan) |-> plan[i].len]
  PROVE  StartsOf(lens) = g
<1>1. /\ plan \in Seq(PlanItems) /\ g \in Seq(Nat) /\ total \in Nat /\ Len(g) = Len(plan)
      /\ Len(plan) \in Nat
  BY DEF PlanOK
<1>2. lens \in Seq(Nat) /\ Len(lens) = Len(plan)
  <2>1. \A i \in 1..Len(plan) : plan[i].len \in Nat
    <3> TAKE i \in 1..Len(plan)
    <3>1. plan[i] \in PlanItems
      BY <1>1
    <3> QED BY <3>1 DEF PlanItems
  <2>2. lens \in [1..Len(plan) -> Nat]
    BY <2>1
  <2> DEFINE l == Len(plan)
  <2>3. l \in Nat /\ lens \in [1..l -> Nat]
    BY <1>1, <2>2
  <2> HIDE DEF l
  <2>4. lens \in Seq(Nat) /\ Len(lens) = l
    BY ONLY <2>3
  <2> QED BY <2>4 DEF l
<1>3. Len(lens) > 0 => g[1] = 0
  BY <1>1, <1>2 DEF PlanOK
<1>4. ASSUME NEW j \in 1..(Len(lens) - 1) PROVE g[j + 1] = g[j] + lens[j]
  <2>1. j \in 1..Len(plan) /\ j < Len(g) /\ lens[j] = plan[j].len
    BY <1>1, <1>2
  <2>2. EndOf(g, total, j) = g[j] + plan[j].len
    BY <2>1 DEF PlanOK
  <2> QED BY <2>1, <2>2 DEF EndOf
<1> QED BY <1>1, <1>2, <1>3, <1>4, StartsAre

\* RebuildSparse shows the rows the plan says.
LEMMA SparseSheet ==
  ASSUME NEW s, Layout(s), s.cols # <<>>, NEW plan, NEW total, NEW src,
         Plans(s.starts, s.nrows, plan, total, src)
  PROVE  RowsMade(s, RebuildSparse(s, total, plan), total, src)
<1> DEFINE cs == [c \in 1..Len(s.cols) |-> SparseColumn(s.cols[c], plan)]
<1>1. PICK g : PlanOK(s.starts, s.nrows, plan, g, total, src)
  BY DEF Plans
<1>2. Len(s.cols) \in Nat
  BY DEF Layout, SheetRecords
<1>3. ASSUME NEW c \in 1..Len(s.cols) PROVE Rebuilt(s.cols[c], cs[c], plan)
  <2>1. Tiles(s.starts, s.nrows) /\ ColumnFits(s.cols[c], s.starts, s.nrows)
    BY DEF Layout
  <2>2. cs[c] = SparseColumn(s.cols[c], plan)
    OBVIOUS
  <2> HIDE DEF cs
  <2> QED BY <1>1, <2>1, <2>2, SparseRebuilt
<1>4. cs \in Seq(Columns) /\ Len(cs) = Len(s.cols)
  <2>1. \A c \in 1..Len(s.cols) : cs[c] \in Columns
    BY <1>3 DEF Rebuilt
  <2>2. cs = [c \in 1..Len(s.cols) |-> cs[c]]
    OBVIOUS
  <2> HIDE DEF cs
  <2>3. cs \in [1..Len(s.cols) -> Columns]
    BY <2>1, <2>2
  <2> QED BY <1>2, <2>3
<1>5. StartsOf([i \in 1..Len(plan) |-> plan[i].len]) = g
  BY <1>1, PlanStarts
<1>6. RebuildSparse(s, total, plan) = [nrows |-> total, starts |-> g, cols |-> cs]
  BY <1>5 DEF RebuildSparse, SparseColumn
<1> HIDE DEF cs
<1>7. LET t == [nrows |-> total, starts |-> g, cols |-> cs] IN Layout(t) /\ ShowsRows(s, t, src)
  BY <1>1, <1>3, <1>4, RebuiltSheet
<1> QED BY <1>6, <1>7 DEF RowsMade

\* RebuildDense shows the rows the plan says, and its map is the plan's.
LEMMA DenseSheet ==
  ASSUME NEW s, Layout(s), s.cols # <<>>, DenseAligned(s), NEW plan, NEW total, NEW src,
         Plans(s.starts, s.nrows, plan, total, src),
         NEW cut, cut = [c \in 1..Len(s.cols) |-> Image(s.cols[c].chunk, plan)]
  PROVE  RowsMade(s, RebuildDense(s, total, cut), total, src)
<1> DEFINE new(c) == [n |-> Len(plan), chunk |-> Image(s.cols[c].chunk, plan)]
           cs == [c \in 1..Len(s.cols) |-> new(c)]
<1>1. PICK g : PlanOK(s.starts, s.nrows, plan, g, total, src)
  BY DEF Plans
<1>2. Len(s.cols) \in Nat /\ Len(s.cols) > 0 /\ 1 \in 1..Len(s.cols)
  BY DEF Layout, SheetRecords
<1>0. Len(plan) \in Nat
  BY <1>1 DEF PlanOK
<1>3. ASSUME NEW c \in 1..Len(s.cols)
      PROVE  /\ Rebuilt(s.cols[c], new(c), plan)
             /\ \A j \in 1..Len(plan) : Len(Image(s.cols[c].chunk, plan)[j]) = plan[j].len
  <2>1. Tiles(s.starts, s.nrows) /\ ColumnFits(s.cols[c], s.starts, s.nrows)
    BY DEF Layout
  <2>2. DOMAIN s.cols[c].chunk = 1..Len(s.starts)
    BY DEF DenseAligned
  <2> QED BY <1>1, <2>1, <2>2, DenseRebuilt, SMTT(30)
<1>4. \A c \in 1..Len(s.cols) : cs[c] = new(c)
  OBVIOUS
<1>5. cs \in Seq(Columns) /\ Len(cs) = Len(s.cols)
  <2>1. \A c \in 1..Len(s.cols) : cs[c] \in Columns
    BY <1>3 DEF Rebuilt
  <2>2. cs = [c \in 1..Len(s.cols) |-> cs[c]]
    OBVIOUS
  <2> HIDE DEF cs
  <2>3. cs \in [1..Len(s.cols) -> Columns]
    BY <2>1, <2>2
  <2> QED BY <1>2, <2>3
<1>6. \A c \in 1..Len(s.cols) : cut[c] = Image(s.cols[c].chunk, plan) /\ Len(cut[c]) = Len(plan)
  BY <1>0 DEF Image
<1>7. [c \in 1..Len(s.cols) |-> [n |-> Len(cut[c]), chunk |-> cut[c]]] = cs
  BY <1>6
<1> DEFINE t0 == [nrows |-> total, starts |-> s.starts, cols |-> cs]
<1>9. cs # <<>> /\ cs[1].n = Len(plan) /\ cs[1].chunk = Image(s.cols[1].chunk, plan)
  BY <1>2, <1>4, <1>5
<1>10. [i \in 1..cs[1].n |-> Len(cs[1].chunk[i])] = [i \in 1..Len(plan) |-> plan[i].len]
  <2>1. \A i \in 1..Len(plan) : Len(cs[1].chunk[i]) = plan[i].len
    <3> HIDE DEF cs, new
    <3> QED BY <1>2, <1>3, <1>9
  <2> HIDE DEF cs
  <2> QED BY <2>1, <1>9
<1> HIDE DEF cs, new
<1>11. recompute_chunk_starts(t0) = [nrows |-> total, starts |-> g, cols |-> cs]
  <2>1. StartsOf([i \in 1..cs[1].n |-> Len(cs[1].chunk[i])]) = g
    BY <1>1, <1>10, PlanStarts
  <2>2. t0.cols = cs
    OBVIOUS
  <2>3. recompute_chunk_starts(t0) = [t0 EXCEPT !.starts = g]
    <3> HIDE DEF t0
    <3> QED BY <2>1, <2>2, <1>9 DEF recompute_chunk_starts
  <2> QED BY <2>3
<1>12. RebuildDense(s, total, cut) = recompute_chunk_starts(t0)
  BY <1>7 DEF RebuildDense
<1>13. \A c \in 1..Len(cs) : Rebuilt(s.cols[c], cs[c], plan)
  BY <1>3, <1>4, <1>5
<1>14. LET t == [nrows |-> total, starts |-> g, cols |-> cs] IN Layout(t) /\ ShowsRows(s, t, src)
  BY <1>1, <1>5, <1>13, RebuiltSheet
<1> HIDE DEF t0
<1> QED BY <1>11, <1>12, <1>14 DEF RowsMade

-----------------------------------------------------------------------------
(* Inserting rows *)

InsertSource(at, count) ==
  [r \in Nat |-> IF r < at THEN r ELSE IF r < at + count THEN -1 ELSE r - count]

DeleteSource(start, end) == [r \in Nat |-> IF r < start THEN r ELSE r + (end - start)]

\* The row behind the first k chunks.
Behind(m, nr, k) == IF k = 0 THEN 0 ELSE EndOf(m, nr, k)

\* Chunks follow each other without a gap.
LEMMA BehindIsStart ==
  ASSUME NEW m, NEW nr, Tiles(m, nr), NEW k \in 1..Len(m)
  PROVE  Behind(m, nr, k - 1) = m[k]
<1>0. Len(m) \in Nat /\ m # <<>>
  BY DEF Tiles
<1>1. CASE k = 1
  BY <1>0, <1>1 DEF Behind, Tiles
<1>2. CASE k > 1
  BY <1>0, <1>2 DEF Behind, EndOf
<1> QED BY <1>1, <1>2

\* The chunks end with the sheet.
LEMMA BehindAll ==
  ASSUME NEW m, NEW nr, Tiles(m, nr)
  PROVE  Behind(m, nr, Len(m)) = nr
BY DEF Behind, EndOf, Tiles

\* A slice of chunk i is a good item where its rows come from.
LEMMA SliceOK ==
  ASSUME NEW m, NEW nr, Tiles(m, nr), NEW i \in 1..Len(m), NEW off \in Nat, NEW len \in Nat,
         len > 0, off + len <= EndOf(m, nr, i) - m[i], NEW at \in Nat, NEW src,
         \A k \in 0..(len - 1) : src[at + k] = m[i] + off + k
  PROVE  ItemOK(m, nr, [old |-> i, off |-> off, len |-> len], at, src)
<1> DEFINE item == [old |-> i, off |-> off, len |-> len]
<1>1. item.old = i /\ item.off = off /\ item.len = len /\ item \in PlanItems
  <2>1. Len(m) \in Nat
    BY DEF Tiles
  <2>2. i \in Nat
    BY <2>1
  <2> QED BY <2>2 DEF PlanItems
<1>2. len <= ChunkRows /\ i # Missing
  <2>1. EndOf(m, nr, i) <= m[i] + ChunkRows /\ Len(m) \in Nat
    BY DEF Tiles
  <2>2. m[i] \in Nat /\ EndOf(m, nr, i) \in Nat
    BY TilesRows
  <2>3. ChunkRows \in Nat
    BY SheetAssumption
  <2> QED BY <2>1, <2>2, <2>3 DEF Missing
<1> HIDE DEF item
<1>3. ItemOK(m, nr, item, at, src)
  BY <1>1, <1>2 DEF ItemOK
<1> QED BY <1>3 DEF item

\* An empty stretch is an item of a plan.
LEMMA GapOK ==
  ASSUME NEW m, NEW nr, NEW len \in Nat, len > 0, len <= ChunkRows, NEW at \in Nat, NEW src,
         \A k \in 0..(len - 1) : src[at + k] = -1
  PROVE  ItemOK(m, nr, [old |-> Missing, off |-> 0, len |-> len], at, src)
<1> DEFINE item == [old |-> Missing, off |-> 0, len |-> len]
<1>1. item.old = Missing /\ item.off = 0 /\ item.len = len /\ item \in PlanItems
  BY DEF PlanItems, Missing
<1> HIDE DEF item
<1>2. ItemOK(m, nr, item, at, src)
  BY <1>1 DEF ItemOK
<1> QED BY <1>2 DEF item

\* Slice gives items, or none.
LEMMA SliceType ==
  ASSUME NEW old \in Nat, NEW off \in Nat, NEW len \in Nat
  PROVE  Slice(old, off, len) \in Seq(PlanItems)
<1> DEFINE item == [old |-> old, off |-> off, len |-> len]
<1>1. item \in PlanItems
  BY DEF PlanItems
<1>2. Slice(old, off, len) = IF len > 0 THEN <<item>> ELSE <<>>
  BY DEF Slice
<1> HIDE DEF item
<1>3. <<item>> \in Seq(PlanItems) /\ <<>> \in Seq(PlanItems)
  BY <1>1
<1> QED BY <1>2, <1>3

\* Plans may be put together in either order.
LEMMA PlanAssoc ==
  \A x, y, z \in Seq(PlanItems) : (x \o y) \o z = x \o (y \o z)
<1> TAKE x, y, z \in Seq(PlanItems)
<1> QED BY ConcatAssociative

\* `split` is row `at`, in or just behind a chunk.
IsSplit(m, nr, split, at) ==
  /\ split.chunk \in 1..Len(m) /\ split.off \in Nat
  /\ m[split.chunk] + split.off = at /\ at <= EndOf(m, nr, split.chunk)

\* The lengths the map gives are positive and at most ChunkRows.
LEMMA MapLens ==
  ASSUME NEW s, Tiles(s.starts, s.nrows), NEW i \in 1..Len(s.starts)
  PROVE  /\ s.starts[i] \in Nat /\ EndOf(s.starts, s.nrows, i) \in Nat
         /\ MapLen(s, i) = EndOf(s.starts, s.nrows, i) - s.starts[i]
         /\ MapLen(s, i) \in Nat /\ MapLen(s, i) > 0 /\ MapLen(s, i) <= ChunkRows
         /\ i \in Nat /\ i # Missing
<1> DEFINE m == s.starts
           nr == s.nrows
<1>1. m[i] \in Nat /\ EndOf(m, nr, i) \in Nat /\ m[i] < EndOf(m, nr, i)
  BY TilesRows
<1>2. MapLen(s, i) = EndOf(m, nr, i) - m[i]
  BY DEF MapLen, EndOf
<1>3. EndOf(m, nr, i) <= m[i] + ChunkRows /\ Len(m) \in Nat /\ ChunkRows \in Nat
  BY SheetAssumption DEF Tiles
<1> HIDE DEF m, nr
<1>4. /\ MapLen(s, i) = EndOf(m, nr, i) - m[i]
      /\ MapLen(s, i) \in Nat /\ MapLen(s, i) > 0 /\ MapLen(s, i) <= ChunkRows
  BY <1>1, <1>2, <1>3
<1>5. i \in 1..Len(m)
  BY DEF m
<1>6. i \in Nat /\ i # Missing
  BY <1>3, <1>5 DEF Missing
<1> QED BY <1>1, <1>4, <1>6 DEF m, nr

\* insert_rows plans a sequence of items for every chunk.
LEMMA InsertTyped ==
  ASSUME NEW s, Layout(s), NEW split, NEW at \in Nat, NEW count \in Nat,
         IsSplit(s.starts, s.nrows, split, at)
  PROVE  [i \in 1..Len(s.starts) |-> PlanInserted(s, split, count, i)]
           \in SeqsOver(Len(s.starts), PlanItems)
<1> DEFINE m == s.starts
           nr == s.nrows
           p == split.chunk
           o == split.off
           n == Len(m)
<1>0. Tiles(m, nr) /\ p \in 1..n /\ o \in Nat /\ m[p] + o = at /\ at <= EndOf(m, nr, p)
  BY DEF Layout, IsSplit
<1>1. ASSUME NEW i \in 1..n PROVE PlanInserted(s, split, count, i) \in Seq(PlanItems)
  <2> DEFINE len == MapLen(s, i)
  <2>0. i \in Nat /\ len \in Nat /\ len = EndOf(m, nr, i) - m[i] /\ m[i] \in Nat
        /\ EndOf(m, nr, i) \in Nat
    BY <1>0, MapLens
  <2>1. CASE i # p
    <3>1. Slice(i, 0, len) \in Seq(PlanItems)
      BY <2>0, SliceType
    <3> QED BY <2>1, <3>1 DEF PlanInserted
  <2>2. CASE i = p
    <3>1. len - o \in Nat
      <4> HIDE DEF len, m, nr, o, n
      <4> QED BY <1>0, <2>0, <2>2
    <3>2. /\ Slice(i, 0, o) \in Seq(PlanItems) /\ Slice(Missing, 0, count) \in Seq(PlanItems)
          /\ Slice(i, o, len - o) \in Seq(PlanItems)
      BY <1>0, <2>0, <3>1, SliceType DEF Missing
    <3>3. PlanInserted(s, split, count, i) =
            Slice(i, 0, o) \o Slice(Missing, 0, count) \o Slice(i, o, len - o)
      BY <2>2 DEF PlanInserted
    <3> HIDE DEF o, p, len
    <3> QED BY <3>2, <3>3, ConcatProperties
  <2> QED BY <2>1, <2>2
<1> QED BY <1>1 DEF SeqsOver

\* The plan of insert_rows keeps every row and has `count` empty ones at `at`.
LEMMA InsertPlan ==
  ASSUME NEW s, Layout(s), NEW split, NEW at \in Nat, NEW count \in Nat, count > 0, count <= ChunkRows,
         IsSplit(s.starts, s.nrows, split, at)
  PROVE  Plans(s.starts, s.nrows,
               FlattenSeq([i \in 1..Len(s.starts) |-> PlanInserted(s, split, count, i)]),
               s.nrows + count, InsertSource(at, count))
<1> DEFINE m == s.starts
           nr == s.nrows
           src == InsertSource(at, count)
           p == split.chunk
           o == split.off
           n == Len(m)
           F == [i \in 1..n |-> PlanInserted(s, split, count, i)]
           Sum(k) == Behind(m, nr, k) + (IF k < p THEN 0 ELSE count)
<1>0. /\ Tiles(m, nr) /\ n \in Nat /\ nr \in Nat /\ p \in 1..n /\ o \in Nat
      /\ m[p] + o = at /\ at <= EndOf(m, nr, p)
  BY SMTT(30) DEF Layout, Tiles, IsSplit
<1>1. ASSUME NEW i \in 1..n
      PROVE  /\ m[i] \in Nat /\ EndOf(m, nr, i) \in Nat /\ m[i] < EndOf(m, nr, i)
             /\ MapLen(s, i) = EndOf(m, nr, i) - m[i] /\ MapLen(s, i) \in Nat /\ MapLen(s, i) > 0
             /\ i \in Nat
             /\ i < p => EndOf(m, nr, i) <= at
             /\ p < i => at <= m[i]
  <2>1. m[i] \in Nat /\ EndOf(m, nr, i) \in Nat /\ m[i] < EndOf(m, nr, i)
    BY <1>0, TilesRows
  <2>2. MapLen(s, i) = EndOf(m, nr, i) - m[i]
    BY DEF MapLen, EndOf
  <2>3. m[p] \in Nat /\ EndOf(m, nr, p) \in Nat
    BY <1>0, TilesRows
  <2>4. i < p => EndOf(m, nr, i) <= at
    <3> SUFFICES ASSUME i < p PROVE EndOf(m, nr, i) <= at
      OBVIOUS
    <3>1. EndOf(m, nr, i) <= m[p]
      BY <1>0, TilesApart
    <3> QED BY <3>1, <1>0, <2>1, <2>3
  <2>5. p < i => at <= m[i]
    <3> SUFFICES ASSUME p < i PROVE at <= m[i]
      OBVIOUS
    <3>1. EndOf(m, nr, p) <= m[i]
      BY <1>0, TilesApart
    <3> QED BY <3>1, <1>0, <2>1, <2>3
  <2> HIDE DEF m, nr
  <2> QED BY <1>0, <2>1, <2>2, <2>4, <2>5
<1>2. \A r \in Nat : src[r] = IF r < at THEN r ELSE IF r < at + count THEN -1 ELSE r - count
  BY DEF InsertSource
<1>3. F \in SeqsOver(n, PlanItems)
  BY InsertTyped
<1>4. PICK fl : IsFlatLoop(fl, F, n, PlanItems)
  <2>1. n \in Nat /\ F \in SeqsOver(n, PlanItems)
    BY <1>0, <1>3
  <2> HIDE DEF F, n
  <2> QED BY ONLY <2>1, FlattenLoop
<1> DEFINE X == {k \in 0..n : Plans(m, nr, fl[k], Sum(k), src)}
<1>5. 0 \in X
  <2>1. Sum(0) = 0
    BY <1>0 DEF Behind
  <2>2. Plans(m, nr, fl[0], 0, src)
    BY <1>4, EmptyPlan DEF Plans, IsFlatLoop
  <2> QED BY <1>0, <2>1, <2>2
<1>6. ASSUME NEW k \in 1..n, Plans(m, nr, fl[k - 1], Sum(k - 1), src)
      PROVE  Plans(m, nr, fl[k], Sum(k), src)
  <2> DEFINE a == m[k]
             e == EndOf(m, nr, k)
             prev == fl[k - 1]
  <2>1. a \in Nat /\ e \in Nat /\ a < e /\ MapLen(s, k) = e - a /\ k \in Nat
    BY <1>1
  <2>2. Behind(m, nr, k - 1) = a /\ Behind(m, nr, k) = e
    <3>1. Behind(m, nr, k - 1) = a
      BY <1>0, BehindIsStart
    <3>2. k # 0
      BY <1>0
    <3> QED BY <3>1, <3>2 DEF Behind
  <2>3. fl[k] = prev \o PlanInserted(s, split, count, k) /\ prev \in Seq(PlanItems)
    <3>1. F[k] = PlanInserted(s, split, count, k)
      OBVIOUS
    <3>2. k - 1 \in 0..n
      BY <1>0
    <3> HIDE DEF F, n
    <3> QED BY <1>4, <3>1, <3>2 DEF IsFlatLoop
  <2>4. CASE k # p
    <3> DEFINE t == Sum(k - 1)
    <3>1. t = a + (IF k < p THEN 0 ELSE count) /\ Sum(k) = t + (e - a)
      BY <2>1, <2>2, <2>4, <1>0
    <3>2. ASSUME NEW x \in 0..((e - a) - 1) PROVE src[t + x] = a + 0 + x
      <4>1. CASE k < p
        <5>1. e <= at
          BY <4>1, <1>1
        <5>2. t + x \in Nat /\ t + x < at /\ t + x = a + 0 + x
          BY <2>1, <3>1, <4>1, <5>1, <1>0
        <5> HIDE DEF t, src
        <5> QED BY <5>2, <1>2
      <4>2. CASE p < k
        <5>1. at <= a
          BY <4>2, <1>1
        <5>2. t = a + count
          BY <3>1, <4>2, <1>0
        <5>3. t + x \in Nat /\ ~(t + x < at) /\ ~(t + x < at + count) /\ (t + x) - count = a + 0 + x
          <6> HIDE DEF t, a, e, m, nr
          <6> QED BY <2>1, <5>1, <5>2
        <5> HIDE DEF t, src
        <5> QED BY <5>3, <1>2
      <4> QED BY <4>1, <4>2, <2>4, <1>0
    <3>3. t \in Nat /\ e - a \in Nat /\ e - a > 0
      <4>1. t \in Nat
        BY <2>1, <3>1
      <4> QED BY <4>1, <2>1
    <3> HIDE DEF t, Sum, src
    <3>4. ItemOK(m, nr, [old |-> k, off |-> 0, len |-> e - a], t, src)
      <4> DEFINE len == e - a
      <4>1. len \in Nat /\ len > 0 /\ 0 + len <= EndOf(m, nr, k) - m[k]
            /\ \A x \in 0..(len - 1) : src[t + x] = m[k] + 0 + x
        BY <2>1, <3>2, <3>3
      <4> HIDE DEF len
      <4>2. ItemOK(m, nr, [old |-> k, off |-> 0, len |-> len], t, src)
        BY <1>0, <3>3, <4>1, SliceOK
      <4> QED BY <4>2 DEF len
    <3>5. Plans(m, nr, prev \o Slice(k, 0, e - a), t + (e - a), src)
      <4>1. Plans(m, nr, prev, t, src)
        BY <1>6 DEF t
      <4> DEFINE len == e - a
      <4>2. len \in Nat /\ ItemOK(m, nr, [old |-> k, off |-> 0, len |-> len], t, src)
        BY <3>3, <3>4
      <4> HIDE DEF len, prev
      <4>3. Plans(m, nr, prev \o Slice(k, 0, len), t + len, src)
        BY <2>1, <4>1, <4>2, PlanSlice
      <4> QED BY <4>3 DEF len
    <3>6. PlanInserted(s, split, count, k) = Slice(k, 0, e - a)
      BY <2>1, <2>4 DEF PlanInserted
    <3> QED BY <2>3, <3>1, <3>5, <3>6
  <2>5. CASE k = p
    <3> DEFINE rest == e - at
               one == prev \o Slice(k, 0, o)
               two == one \o Slice(Missing, 0, count)
               three == two \o Slice(k, o, rest)
    <3>1. at = a + o /\ at <= e /\ rest \in Nat /\ o + rest = e - a /\ o <= e - a
      BY <2>1, <2>5, <1>0
    <3>2. Sum(k - 1) = a /\ Sum(k) = e + count
      BY <2>1, <2>2, <2>5, <1>0
    <3>3. Plans(m, nr, prev, a, src)
      BY <1>6, <3>2
    <3> HIDE DEF Sum, rest
    <3>4. Plans(m, nr, one, a + o, src)
      <4>1. ASSUME o > 0
            PROVE  ItemOK(m, nr, [old |-> k, off |-> 0, len |-> o], a, src)
        <5>1. ASSUME NEW x \in 0..(o - 1) PROVE src[a + x] = m[k] + 0 + x
          <6>0. a = m[k] /\ o \in Nat
            BY <1>0
          <6> HIDE DEF a, o, e, m, nr, src
          <6>1. a + x \in Nat /\ a + x < a + o /\ a + 0 + x = a + x
            <7>1. a \in Nat /\ o \in Nat /\ x \in 0..(o - 1)
              BY <2>1, <6>0
            <7> QED BY ONLY <7>1
          <6> QED BY <3>1, <6>0, <6>1, <1>2
        <5>2. 0 + o <= EndOf(m, nr, k) - m[k]
          BY <3>1, <1>0
        <5> HIDE DEF o, src
        <5> QED BY <1>0, <2>1, <4>1, <5>1, <5>2, SliceOK
      <4> HIDE DEF prev, o, src, a
      <4> QED BY <1>0, <2>1, <3>3, <4>1, PlanSlice
    <3>5. Plans(m, nr, two, (a + o) + count, src)
      <4>1. ASSUME NEW x \in 0..(count - 1) PROVE src[(a + o) + x] = -1
        <5>0. at = a + o /\ at \in Nat /\ count \in Nat
          BY <3>1
        <5> HIDE DEF src, a, o, e, m, nr
        <5>1. (a + o) + x \in Nat /\ ~((a + o) + x < at) /\ (a + o) + x < at + count
          <6>1. at + x \in Nat /\ ~(at + x < at) /\ at + x < at + count
            BY ONLY <5>0, x \in 0..(count - 1)
          <6> QED BY <5>0, <6>1
        <5> QED BY <5>1, <1>2
      <4>2. a + o \in Nat
        BY <2>1, <1>0
      <4> DEFINE t == a + o
      <4>3. t \in Nat /\ \A x \in 0..(count - 1) : src[t + x] = -1
        BY <4>1, <4>2
      <4>4. Plans(m, nr, one, t, src)
        BY <3>4
      <4> HIDE DEF t, src, one
      <4>5. ItemOK(m, nr, [old |-> Missing, off |-> 0, len |-> count], t, src)
        BY <4>3, GapOK
      <4>6. Plans(m, nr, two, t + count, src)
        <5>1. Missing \in Nat /\ 0 \in Nat
          BY DEF Missing
        <5> QED BY <4>4, <4>5, <5>1, PlanSlice
      <4> QED BY <4>6 DEF t
    <3>6. Plans(m, nr, three, ((a + o) + count) + rest, src)
      <4> DEFINE t == (a + o) + count
      <4>1. t = at + count /\ t \in Nat
        BY <3>1
      <4>2. Plans(m, nr, two, t, src)
        BY <3>5
      <4>3. ASSUME NEW x \in 0..(rest - 1) PROVE src[t + x] = m[k] + o + x
        <5>1. t + x \in Nat /\ ~(t + x < at) /\ ~(t + x < at + count) /\ (t + x) - count = a + o + x
          <6>1. o \in Nat
            BY <1>0
          <6> HIDE DEF a, o, e, m, nr, t
          <6> QED BY <2>1, <3>1, <4>1, <6>1
        <5> HIDE DEF t, src
        <5> QED BY <5>1, <1>2
      <4> HIDE DEF t, two, src
      <4>4. ASSUME rest > 0
            PROVE  ItemOK(m, nr, [old |-> k, off |-> o, len |-> rest], t, src)
        <5>1. o + rest <= EndOf(m, nr, k) - m[k] /\ o \in Nat /\ rest \in Nat
          BY <2>1, <3>1, <1>0
        <5> HIDE DEF o
        <5> QED BY <1>0, <4>1, <4>3, <4>4, <5>1, SliceOK
      <4>5. o \in Nat /\ rest \in Nat /\ k \in Nat
        BY <1>0, <2>1, <3>1
      <4> HIDE DEF o
      <4>6. Plans(m, nr, three, t + rest, src)
        BY <4>2, <4>4, <4>5, PlanSlice
      <4> QED BY <4>6 DEF t
    <3>7. three = fl[k]
      <4> DEFINE A == Slice(k, 0, o)
                 B == Slice(Missing, 0, count)
                 C == Slice(k, o, rest)
      <4>1. A \in Seq(PlanItems) /\ B \in Seq(PlanItems) /\ C \in Seq(PlanItems)
        BY <1>0, <2>1, <3>1, SliceType DEF Missing
      <4>2. PlanInserted(s, split, count, k) = A \o B \o C
        <5>1. MapLen(s, k) - o = rest
          BY <2>1, <3>1, <1>0 DEF rest
        <5> QED BY <2>5, <5>1 DEF PlanInserted
      <4> HIDE DEF A, B, C, prev
      <4>3. ((prev \o A) \o B) \o C = prev \o ((A \o B) \o C)
        <5>1. A \o B \in Seq(PlanItems)
          BY <4>1, ConcatProperties
        <5>2. (prev \o A) \o B = prev \o (A \o B)
          BY <2>3, <4>1, PlanAssoc
        <5>3. (prev \o (A \o B)) \o C = prev \o ((A \o B) \o C)
          BY <2>3, <4>1, <5>1, PlanAssoc
        <5> QED BY <5>2, <5>3
      <4> QED BY <2>3, <4>2, <4>3 DEF A, B, C
    <3>8. ((a + o) + count) + rest = e + count
      <4>1. o \in Nat
        BY <1>0
      <4> HIDE DEF a, o, e, m, nr
      <4> QED BY <2>1, <3>1, <4>1
    <3> HIDE DEF three, src, m, nr
    <3> QED BY <3>2, <3>6, <3>7, <3>8
  <2> QED BY <2>4, <2>5
<1>7. \A k \in 1..n : k - 1 \in X => k \in X
  <2> HIDE DEF Sum, src
  <2> QED BY <1>0, <1>6
<1>8. n \in X
  <2>1. 0..n \subseteq X
    <3> HIDE DEF X, n
    <3> QED BY <1>0, <1>5, <1>7, Reaches
  <2>2. n \in 0..n
    BY <1>0
  <2> HIDE DEF X, n
  <2> QED BY <2>1, <2>2
<1>9. Sum(n) = nr + count
  <2>1. Behind(m, nr, n) = nr
    BY <1>0, BehindAll
  <2> QED BY <2>1, <1>0
<1>10. FlattenSeq(F) = fl[n]
  BY <1>4 DEF IsFlatLoop
<1>11. Plans(m, nr, fl[n], Sum(n), src)
  BY <1>8
<1> HIDE DEF Sum, src, F
<1>12. Plans(m, nr, FlattenSeq(F), nr + count, src)
  BY <1>9, <1>10, <1>11
<1> QED BY <1>12 DEF F, src

-----------------------------------------------------------------------------
(* Deleting rows *)

\* How many of the first x rows are left.
Left(x, start, end) == IF x <= start THEN x ELSE IF x <= end THEN start ELSE x - (end - start)

\* What is left of a chunk from a up to e that the deleted rows meet.
IsCut(a, e, len, start, end) ==
  /\ LeftOf(a, len, start) = IF a < start THEN start - a ELSE 0
  /\ RightOf(a, len, end) = IF end < e THEN e - end ELSE 0
  /\ LeftOf(a, len, start) \in Nat /\ RightOf(a, len, end) \in Nat
  /\ LeftOf(a, len, start) <= len
  /\ end - a \in Nat /\ (end < e => (end - a) + RightOf(a, len, end) = len)
  /\ Left(a, start, end) \in Nat
  /\ Left(a, start, end) + LeftOf(a, len, start) = start
  /\ Left(e, start, end) = start + RightOf(a, len, end)

\* What is left of a chunk that the deleted rows meet.
LEMMA Remains ==
  ASSUME NEW a \in Nat, NEW e \in Nat, a < e, NEW start \in Nat, NEW end \in Nat, start < end,
         NEW len, len = e - a, ~Outside(a, len, start, end)
  PROVE  IsCut(a, e, len, start, end)
<1>1. a + len = e /\ start < e /\ a < end
  BY DEF Outside
<1>2. Min({start, a + len}) = start
  <2>1. start <= e /\ start \in Int /\ e \in Int
    BY <1>1
  <2>1a. Min({start, e}) = start
    BY <2>1, OfTwo
  <2> DEFINE z == a + len
  <2>2. z = e
    BY <1>1
  <2> HIDE DEF z
  <2>3. Min({start, z}) = start
    BY <2>1a, <2>2
  <2> QED BY <2>3 DEF z
<1>3. Max({end, a}) = end
  BY <1>1, OfTwo
<1>4. LeftOf(a, len, start) = IF a < start THEN start - a ELSE 0
  <2> DEFINE d == start - a
  <2>1. d \in Int /\ LeftOf(a, len, start) = Max({0, d})
    BY <1>2 DEF LeftOf
  <2>2. Max({0, d}) = IF 0 <= d THEN d ELSE 0
    <3> HIDE DEF d
    <3> QED BY <2>1, OfTwo
  <2> QED BY <2>1, <2>2
<1>5. RightOf(a, len, end) = IF end < e THEN e - end ELSE 0
  <2> DEFINE d == e - end
  <2>1. d \in Int /\ RightOf(a, len, end) = Max({0, d})
    BY <1>1, <1>3 DEF RightOf
  <2>2. Max({0, d}) = IF 0 <= d THEN d ELSE 0
    <3> HIDE DEF d
    <3> QED BY <2>1, OfTwo
  <2> QED BY <2>1, <2>2
<1> DEFINE l == LeftOf(a, len, start)
           r == RightOf(a, len, end)
<1>6. l = (IF a < start THEN start - a ELSE 0) /\ r = (IF end < e THEN e - end ELSE 0)
  BY <1>4, <1>5
<1> HIDE DEF l, r
<1>7. /\ l \in Nat /\ r \in Nat /\ l <= len
      /\ end - a \in Nat /\ (end < e => (end - a) + r = len)
      /\ Left(a, start, end) \in Nat
      /\ Left(a, start, end) + l = start
      /\ Left(e, start, end) = start + r
  BY <1>1, <1>6 DEF Left
<1> QED BY <1>4, <1>5, <1>7 DEF l, r, IsCut

\* The rows of a chunk they do not meet stay, shifted with their chunk.
LEMMA StaysAll ==
  ASSUME NEW a \in Nat, NEW e \in Nat, a < e, NEW start \in Nat, NEW end \in Nat, start < end,
         NEW len, len = e - a, Outside(a, len, start, end)
  PROVE  /\ Left(a, start, end) \in Nat /\ Left(e, start, end) = Left(a, start, end) + len
         /\ \A x \in 0..(len - 1) : DeleteSource(start, end)[Left(a, start, end) + x] = a + 0 + x
<1>1. a + (e - a) = e /\ (e <= start \/ a >= end)
  BY DEF Outside
<1> DEFINE t == Left(a, start, end)
           src == DeleteSource(start, end)
<1>2. \A y \in Nat : src[y] = IF y < start THEN y ELSE y + (end - start)
  BY DEF DeleteSource
<1>3. CASE e <= start
  <2>1. t = a /\ Left(e, start, end) = e
    BY <1>3 DEF Left
  <2>2. ASSUME NEW x \in 0..(len - 1) PROVE src[t + x] = a + 0 + x
    <3>1. a + x \in Nat /\ a + x < start /\ a + x = a + 0 + x
      BY <1>3
    <3> HIDE DEF t, src
    <3> QED BY <1>2, <2>1, <3>1
  <2> QED BY <2>1, <2>2
<1>4. CASE a >= end
  <2>1. t = a - (end - start) /\ Left(e, start, end) = e - (end - start)
    BY <1>4 DEF Left
  <2>2. e - (end - start) = t + (e - a) /\ t \in Nat
    <3> HIDE DEF t
    <3> QED BY <1>4, <2>1
  <2>3. ASSUME NEW x \in 0..(len - 1) PROVE src[t + x] = a + 0 + x
    <3>1. t + x \in Nat /\ ~(t + x < start) /\ (t + x) + (end - start) = a + 0 + x
      <4> HIDE DEF t
      <4> QED BY <1>4, <2>1
    <3>2. src[t + x] = (t + x) + (end - start)
      <4> HIDE DEF t, src
      <4> QED BY <1>2, <3>1
    <3> QED BY <3>1, <3>2
  <2> QED BY <2>1, <2>2, <2>3
<1> QED BY <1>1, <1>3, <1>4

\* delete_rows plans a sequence of items for every chunk.
LEMMA DeleteTyped ==
  ASSUME NEW s, Layout(s), NEW start \in Nat, NEW end \in Nat, start < end
  PROVE  [i \in 1..Len(s.starts) |-> PlanDeleted(i, s.starts[i], MapLen(s, i), start, end)]
           \in SeqsOver(Len(s.starts), PlanItems)
<1> DEFINE m == s.starts
           nr == s.nrows
           n == Len(m)
<1>0. Tiles(m, nr)
  BY DEF Layout
<1>1. ASSUME NEW i \in 1..n
      PROVE  PlanDeleted(i, m[i], MapLen(s, i), start, end) \in Seq(PlanItems)
  <2> DEFINE a == m[i]
             e == EndOf(m, nr, i)
             len == MapLen(s, i)
  <2>1. a \in Nat /\ e \in Nat /\ a < e /\ len = e - a /\ i \in Nat
    <3>1. a \in Nat /\ e \in Nat /\ len = e - a /\ len > 0 /\ i \in Nat
      BY <1>0, MapLens
    <3> HIDE DEF a, e, len
    <3> QED BY <3>1
  <2> HIDE DEF a, e, len
  <2>2. CASE Outside(a, len, start, end)
    <3>1. Slice(i, 0, len) \in Seq(PlanItems)
      BY <2>1, SliceType
    <3> QED BY <2>2, <3>1 DEF PlanDeleted, a, len
  <2>3. CASE ~Outside(a, len, start, end)
    <3> DEFINE l == LeftOf(a, len, start)
               r == RightOf(a, len, end)
    <3>0. IsCut(a, e, len, start, end)
      BY <2>1, <2>3, Remains
    <3>1. l \in Nat /\ r \in Nat /\ end - a \in Nat
      BY <3>0 DEF IsCut
    <3> HIDE DEF l, r
    <3>2. Slice(i, 0, l) \in Seq(PlanItems) /\ Slice(i, end - a, r) \in Seq(PlanItems)
      BY <2>1, <3>1, SliceType
    <3>3. Slice(i, 0, l) \o Slice(i, end - a, r) \in Seq(PlanItems)
      BY <3>2, ConcatProperties
    <3> QED BY <2>3, <3>3 DEF PlanDeleted, a, len, l, r
  <2> QED BY <2>2, <2>3
<1> QED BY <1>1 DEF SeqsOver

\* The plan of delete_rows keeps every row but the deleted ones.
LEMMA DeletePlan ==
  ASSUME NEW s, Layout(s), NEW start \in Nat, NEW end \in Nat, start < end, end <= s.nrows
  PROVE  Plans(s.starts, s.nrows,
               FlattenSeq([i \in 1..Len(s.starts) |->
                             PlanDeleted(i, s.starts[i], MapLen(s, i), start, end)]),
               s.nrows - (end - start), DeleteSource(start, end))
<1> DEFINE m == s.starts
           nr == s.nrows
           src == DeleteSource(start, end)
           n == Len(m)
           F == [i \in 1..n |-> PlanDeleted(i, m[i], MapLen(s, i), start, end)]
           Sum(k) == Left(Behind(m, nr, k), start, end)
<1>0. Tiles(m, nr) /\ n \in Nat /\ nr \in Nat
  BY DEF Layout, Tiles
<1>1. ASSUME NEW i \in 1..n
      PROVE  /\ m[i] \in Nat /\ EndOf(m, nr, i) \in Nat /\ m[i] < EndOf(m, nr, i)
             /\ MapLen(s, i) = EndOf(m, nr, i) - m[i] /\ i \in Nat
  <2>1. m[i] \in Nat /\ EndOf(m, nr, i) \in Nat /\ m[i] < EndOf(m, nr, i)
    BY <1>0, TilesRows
  <2>2. MapLen(s, i) = EndOf(m, nr, i) - m[i]
    BY DEF MapLen, EndOf
  <2> HIDE DEF m, nr
  <2> QED BY <1>0, <2>1, <2>2
<1>3. F \in SeqsOver(n, PlanItems)
  BY DeleteTyped
<1>4. PICK fl : IsFlatLoop(fl, F, n, PlanItems)
  <2>1. n \in Nat /\ F \in SeqsOver(n, PlanItems)
    BY <1>0, <1>3
  <2> HIDE DEF F, n
  <2> QED BY ONLY <2>1, FlattenLoop
<1> DEFINE X == {k \in 0..n : Plans(m, nr, fl[k], Sum(k), src)}
<1>5. 0 \in X
  <2>1. Sum(0) = 0
    BY DEF Behind, Left
  <2>2. Plans(m, nr, fl[0], 0, src)
    BY <1>4, EmptyPlan DEF Plans, IsFlatLoop
  <2> QED BY <1>0, <2>1, <2>2
<1>6. ASSUME NEW k \in 1..n, Plans(m, nr, fl[k - 1], Sum(k - 1), src)
      PROVE  Plans(m, nr, fl[k], Sum(k), src)
  <2> DEFINE a == m[k]
             e == EndOf(m, nr, k)
             prev == fl[k - 1]
             len == MapLen(s, k)
             item == PlanDeleted(k, a, len, start, end)
             t == Left(a, start, end)
  <2>1. a \in Nat /\ e \in Nat /\ a < e /\ len = e - a /\ k \in Nat /\ len \in Nat /\ len > 0
    <3>1. a \in Nat /\ e \in Nat /\ a < e /\ len = e - a /\ k \in Nat
      BY <1>1
    <3> HIDE DEF a, e, len
    <3> QED BY <3>1
  <2>2. Sum(k - 1) = t /\ Sum(k) = Left(e, start, end)
    <3>1. Behind(m, nr, k - 1) = a
      BY <1>0, BehindIsStart
    <3>2. k # 0
      BY <1>0
    <3> QED BY <3>1, <3>2 DEF Behind
  <2>3. fl[k] = prev \o item /\ prev \in Seq(PlanItems)
    <3>1. F[k] = item
      OBVIOUS
    <3>2. k - 1 \in 0..n
      BY <1>0
    <3> HIDE DEF F, n, item
    <3> QED BY <1>4, <3>1, <3>2 DEF IsFlatLoop
  <2>4. Plans(m, nr, prev, t, src)
    BY <1>6, <2>2
  <2>5. a = m[k] /\ EndOf(m, nr, k) - m[k] = len
    BY <2>1
  <2>6. CASE Outside(a, len, start, end)
    <3>1. /\ t \in Nat /\ Left(e, start, end) = t + len
          /\ \A x \in 0..(len - 1) : src[t + x] = a + 0 + x
      <4> HIDE DEF a, e, len
      <4> QED BY <2>1, <2>6, StaysAll
    <3> HIDE DEF t, src, a, len, prev
    <3>2. ItemOK(m, nr, [old |-> k, off |-> 0, len |-> len], t, src)
      <4>1. 0 + len <= EndOf(m, nr, k) - m[k] /\ \A x \in 0..(len - 1) : src[t + x] = m[k] + 0 + x
        BY <2>1, <2>5, <3>1
      <4> QED BY <1>0, <2>1, <3>1, <4>1, SliceOK
    <3>3. Plans(m, nr, prev \o Slice(k, 0, len), t + len, src)
      BY <2>1, <2>4, <3>2, PlanSlice
    <3>4. item = Slice(k, 0, len)
      BY <2>6 DEF PlanDeleted
    <3> HIDE DEF item, Sum
    <3> QED BY <2>2, <2>3, <3>1, <3>3, <3>4
  <2>7. CASE ~Outside(a, len, start, end)
    <3> DEFINE l == LeftOf(a, len, start)
               r == RightOf(a, len, end)
               o == end - a
               A == Slice(k, 0, l)
               B == Slice(k, o, r)
    <3>1. /\ l = (IF a < start THEN start - a ELSE 0) /\ r = (IF end < e THEN e - end ELSE 0)
          /\ l \in Nat /\ r \in Nat /\ l <= len /\ o \in Nat /\ (end < e => o + r = len)
          /\ t \in Nat /\ t + l = start /\ Left(e, start, end) = start + r
      <4> HIDE DEF a, e
      <4>1. len = e - a
        BY <2>1
      <4> HIDE DEF len
      <4>2. IsCut(a, e, len, start, end)
        BY <2>1, <2>7, <4>1, Remains
      <4> QED BY <4>2 DEF IsCut
    <3>2. a < start => t = a
      BY <2>1 DEF Left
    <3>3. \A y \in Nat : src[y] = IF y < start THEN y ELSE y + (end - start)
      BY DEF DeleteSource
    <3>4. item = A \o B
      BY <2>7 DEF PlanDeleted
    <3>5. end = a + o
      <4> HIDE DEF a
      <4> QED BY <2>1
    <3> HIDE DEF t, src, a, len, prev, l, r, o, e, item, Sum
    <3>6. ASSUME l > 0 PROVE ItemOK(m, nr, [old |-> k, off |-> 0, len |-> l], t, src)
      <4>1. a < start /\ t = a /\ l = start - a
        BY <3>1, <3>2, <3>6
      <4>2. ASSUME NEW x \in 0..(l - 1) PROVE src[t + x] = a + 0 + x
        <5>1. t + x \in Nat /\ t + x < start /\ t + x = a + 0 + x
          BY <2>1, <4>1
        <5> QED BY <5>1, <3>3
      <4>3. 0 + l <= EndOf(m, nr, k) - m[k] /\ \A x \in 0..(l - 1) : src[t + x] = m[k] + 0 + x
        BY <3>1, <2>5, <4>2
      <4> QED BY <1>0, <3>1, <3>6, <4>3, SliceOK
    <3>7. Plans(m, nr, prev \o A, start, src)
      <4>1. Plans(m, nr, prev \o A, t + l, src)
        BY <2>1, <2>4, <3>1, <3>6, PlanSlice
      <4> QED BY <4>1, <3>1
    <3>8. ASSUME r > 0 PROVE ItemOK(m, nr, [old |-> k, off |-> o, len |-> r], start, src)
      <4>1. o + r = len
        BY <3>1, <3>8
      <4>2. ASSUME NEW x \in 0..(r - 1) PROVE src[start + x] = a + o + x
        <5>1. start + x \in Nat /\ ~(start + x < start) /\ (start + x) + (end - start) = a + o + x
          BY <2>1, <3>1, <3>5
        <5> QED BY <5>1, <3>3
      <4>3. o + r <= EndOf(m, nr, k) - m[k] /\ \A x \in 0..(r - 1) : src[start + x] = m[k] + o + x
        BY <2>1, <4>1, <2>5, <4>2
      <4> QED BY <1>0, <3>1, <3>8, <4>3, SliceOK
    <3>9. Plans(m, nr, (prev \o A) \o B, start + r, src)
      <4> DEFINE pa == prev \o A
      <4>1. Plans(m, nr, pa, start, src)
        BY <3>7
      <4> HIDE DEF pa
      <4>2. Plans(m, nr, pa \o B, start + r, src)
        BY <2>1, <3>1, <3>8, <4>1, PlanSlice
      <4> QED BY <4>2 DEF pa
    <3>10. (prev \o A) \o B = prev \o item
      <4>1. A \in Seq(PlanItems) /\ B \in Seq(PlanItems)
        BY <2>1, <3>1, SliceType
      <4> HIDE DEF A, B
      <4>2. (prev \o A) \o B = prev \o (A \o B)
        BY <2>3, <4>1, PlanAssoc
      <4> QED BY <3>4, <4>2
    <3> QED BY <2>2, <2>3, <3>1, <3>9, <3>10
  <2> QED BY <2>6, <2>7
<1>7. \A k \in 1..n : k - 1 \in X => k \in X
  <2> HIDE DEF Sum, src
  <2> QED BY <1>0, <1>6
<1>8. n \in X
  <2>1. 0..n \subseteq X
    <3> HIDE DEF X, n
    <3> QED BY <1>0, <1>5, <1>7, Reaches
  <2>2. n \in 0..n
    BY <1>0
  <2> HIDE DEF X, n
  <2> QED BY <2>1, <2>2
<1>9. Sum(n) = nr - (end - start)
  <2>1. Behind(m, nr, n) = nr
    BY <1>0, BehindAll
  <2>2. Left(nr, start, end) = nr - (end - start)
    BY <1>0 DEF Left
  <2> QED BY <2>1, <2>2
<1>10. FlattenSeq(F) = fl[n]
  BY <1>4 DEF IsFlatLoop
<1>11. Plans(m, nr, fl[n], Sum(n), src)
  BY <1>8
<1> HIDE DEF Sum, src, F
<1>12. Plans(m, nr, FlattenSeq(F), nr - (end - start), src)
  BY <1>9, <1>10, <1>11
<1> QED BY <1>12 DEF F, src

-----------------------------------------------------------------------------
(* A dense column is cut as the plan says *)

ImageItem(chunks, item) ==
  IF item.old = Missing THEN make_empty_chunk(item.len)
  ELSE slice_chunk(chunks[item.old], item.off, item.len)

Images(chunks) == {ImageItem(chunks, item) : item \in PlanItems}

\* The image of a plan is a sequence of images of items.
LEMMA ImageType ==
  ASSUME NEW chunks, NEW p \in Seq(PlanItems)
  PROVE  /\ Image(chunks, p) \in Seq(Images(chunks)) /\ Len(Image(chunks, p)) = Len(p)
         /\ \A j \in 1..Len(p) : Image(chunks, p)[j] = ImageItem(chunks, p[j])
<1>1. Image(chunks, p) = [j \in 1..Len(p) |-> ImageItem(chunks, p[j])]
  BY DEF Image, ImageItem
<1>2. \A j \in 1..Len(p) : ImageItem(chunks, p[j]) \in Images(chunks)
  <2> SUFFICES ASSUME NEW j \in 1..Len(p) PROVE ImageItem(chunks, p[j]) \in Images(chunks)
    OBVIOUS
  <2>1. p[j] \in PlanItems
    OBVIOUS
  <2> QED BY <2>1 DEF Images
<1>3. Len(p) \in Nat
  OBVIOUS
<1> QED BY <1>1, <1>2, <1>3, IsASeq

\* The image of two plans, one behind the other.
LEMMA ImageConcat ==
  ASSUME NEW chunks, NEW p \in Seq(PlanItems), NEW q \in Seq(PlanItems)
  PROVE  Image(chunks, p \o q) = Image(chunks, p) \o Image(chunks, q)
<1> DEFINE S == Images(chunks)
           ip == Image(chunks, p)
           iq == Image(chunks, q)
           ipq == Image(chunks, p \o q)
<1>1. p \o q \in Seq(PlanItems) /\ Len(p \o q) = Len(p) + Len(q)
      /\ \A j \in 1..Len(p) + Len(q) : (p \o q)[j] = IF j <= Len(p) THEN p[j] ELSE q[j - Len(p)]
  BY ConcatProperties
<1>2. ip \in Seq(S) /\ Len(ip) = Len(p) /\ \A j \in 1..Len(p) : ip[j] = ImageItem(chunks, p[j])
  BY ImageType
<1>3. iq \in Seq(S) /\ Len(iq) = Len(q) /\ \A j \in 1..Len(q) : iq[j] = ImageItem(chunks, q[j])
  BY ImageType
<1>4. /\ ipq \in Seq(S) /\ Len(ipq) = Len(p \o q)
      /\ \A j \in 1..Len(p \o q) : ipq[j] = ImageItem(chunks, (p \o q)[j])
  BY <1>1, ImageType
<1> HIDE DEF S, ip, iq, ipq
<1>5. ip \o iq \in Seq(S) /\ Len(ip \o iq) = Len(p) + Len(q)
      /\ \A j \in 1..Len(p) + Len(q) : (ip \o iq)[j] = IF j <= Len(p) THEN ip[j] ELSE iq[j - Len(p)]
  <2>0. ip \in Seq(S) /\ iq \in Seq(S)
    BY <1>2, <1>3
  <2>1. ip \o iq \in Seq(S) /\ Len(ip \o iq) = Len(ip) + Len(iq)
        /\ \A j \in 1..Len(ip) + Len(iq) : (ip \o iq)[j] = IF j <= Len(ip) THEN ip[j] ELSE iq[j - Len(ip)]
    BY ONLY <2>0, ConcatProperties
  <2> QED BY <1>2, <1>3, <2>1
<1>6. ASSUME NEW j \in 1..Len(p) + Len(q) PROVE ipq[j] = (ip \o iq)[j]
  <2>1. ipq[j] = ImageItem(chunks, (p \o q)[j])
    BY <1>1, <1>4
  <2>2. CASE j <= Len(p)
    <3>1. j \in 1..Len(p)
      BY <2>2
    <3> QED BY <1>1, <1>2, <1>5, <2>1, <2>2, <3>1
  <2>3. CASE ~(j <= Len(p))
    <3>1. j - Len(p) \in 1..Len(q)
      BY <2>3
    <3> QED BY <1>1, <1>3, <1>5, <2>1, <2>3, <3>1
  <2> QED BY <2>2, <2>3
<1>7. ipq = ip \o iq
  <2> DEFINE c == ip \o iq
  <2>1. c \in Seq(S) /\ Len(c) = Len(p) + Len(q)
    BY <1>5
  <2>2. Len(ipq) = Len(c) /\ \A j \in 1..Len(ipq) : ipq[j] = c[j]
    BY <1>1, <1>4, <1>6, <2>1
  <2> HIDE DEF c
  <2>3. ipq = c
    BY <1>4, <2>1, <2>2, SeqEqual
  <2> QED BY <2>3 DEF c
<1> QED BY <1>7 DEF ip, iq, ipq

\* The image of a flattened plan.
LEMMA ImageFlatten ==
  ASSUME NEW n \in Nat, NEW chunks, NEW F, F \in SeqsOver(n, PlanItems), NEW H,
         H = [i \in 1..n |-> Image(chunks, F[i])]
  PROVE  FlattenSeq(H) = Image(chunks, FlattenSeq(F))
<1> DEFINE S == Images(chunks)
<1>1. H \in SeqsOver(n, S)
  <2>1. \A i \in 1..n : Image(chunks, F[i]) \in Seq(S)
    BY ImageType DEF SeqsOver
  <2> HIDE DEF S
  <2> QED BY <2>1 DEF SeqsOver
<1>2. PICK fl : IsFlatLoop(fl, F, n, PlanItems)
  BY FlattenLoop
<1>3. PICK hl : IsFlatLoop(hl, H, n, S)
  <2> HIDE DEF S
  <2> QED BY ONLY <1>1, n \in Nat, FlattenLoop
<1> DEFINE X == {k \in 0..n : hl[k] = Image(chunks, fl[k])}
<1>4. 0 \in X
  <2>1. Image(chunks, <<>>) = <<>>
    BY DEF Image
  <2> QED BY <1>2, <1>3, <2>1 DEF IsFlatLoop
<1>5. ASSUME NEW k \in 1..n, k - 1 \in X PROVE k \in X
  <2>1. hl[k] = hl[k - 1] \o H[k] /\ fl[k] = fl[k - 1] \o F[k]
    BY <1>2, <1>3 DEF IsFlatLoop
  <2>2. fl[k - 1] \in Seq(PlanItems) /\ F[k] \in Seq(PlanItems)
    <3>1. k - 1 \in 0..n
      OBVIOUS
    <3> QED BY <1>2, <3>1 DEF IsFlatLoop, SeqsOver
  <2>3. H[k] = Image(chunks, F[k]) /\ hl[k - 1] = Image(chunks, fl[k - 1])
    BY <1>5
  <2>4. hl[k] = Image(chunks, fl[k])
    BY <2>1, <2>2, <2>3, ImageConcat
  <2> QED BY <2>4
<1>6. n \in X
  <2>1. 0..n \subseteq X
    <3> HIDE DEF X
    <3> QED BY <1>4, <1>5, Reaches
  <2> QED BY <2>1
<1> QED BY <1>2, <1>3, <1>6 DEF IsFlatLoop

\* Part cuts a chunk as Slice plans it.
LEMMA ImageSlice ==
  ASSUME NEW chunks, NEW old \in Nat, old # Missing, NEW off \in Nat, NEW len \in Nat
  PROVE  Image(chunks, Slice(old, off, len)) = Part(chunks[old], off, len)
<1> DEFINE item == [old |-> old, off |-> off, len |-> len]
<1>1. CASE len > 0
  <2>1. Slice(old, off, len) = <<item>>
    BY <1>1 DEF Slice
  <2>2. Image(chunks, <<item>>) = [j \in 1..1 |-> slice_chunk(chunks[old], off, len)]
    BY DEF Image
  <2>3. [j \in 1..1 |-> slice_chunk(chunks[old], off, len)] = <<slice_chunk(chunks[old], off, len)>>
    OBVIOUS
  <2> QED BY <1>1, <2>1, <2>2, <2>3 DEF Part
<1>2. CASE ~(len > 0)
  <2>1. Slice(old, off, len) = <<>> /\ Part(chunks[old], off, len) = <<>>
    BY <1>2 DEF Slice, Part
  <2>2. Image(chunks, <<>>) = <<>>
    BY DEF Image
  <2> QED BY <2>1, <2>2
<1> QED BY <1>1, <1>2

\* make_empty_chunk fills an empty stretch.
LEMMA ImageGap ==
  ASSUME NEW chunks, NEW count \in Nat, count > 0
  PROVE  Image(chunks, Slice(Missing, 0, count)) = <<make_empty_chunk(count)>>
<1> DEFINE item == [old |-> Missing, off |-> 0, len |-> count]
<1>1. Slice(Missing, 0, count) = <<item>>
  BY DEF Slice
<1>2. Image(chunks, <<item>>) = [j \in 1..1 |-> make_empty_chunk(count)]
  BY DEF Image
<1>3. [j \in 1..1 |-> make_empty_chunk(count)] = <<make_empty_chunk(count)>>
  OBVIOUS
<1> QED BY <1>1, <1>2, <1>3

\* The part that is a whole chunk is the chunk.
LEMMA WholeChunk ==
  ASSUME NEW ch \in Seq(Contents), NEW len, len = Len(ch), len > 0
  PROVE  Part(ch, 0, len) = <<ch>>
<1> DEFINE w == slice_chunk(ch, 0, len)
<1>0. len \in Nat /\ 0 \in Nat /\ 0 + len <= Len(ch)
  OBVIOUS
<1>1. w \in Seq(Contents) /\ Len(w) = len /\ \A k \in 0..(len - 1) : w[k + 1] = ch[0 + k + 1]
  BY <1>0, SliceOf
<1> HIDE DEF w
<1>2. ASSUME NEW j \in 1..Len(w) PROVE w[j] = ch[j]
  <2>1. j - 1 \in 0..(len - 1) /\ (j - 1) + 1 = j /\ 0 + (j - 1) + 1 = j
    BY <1>0, <1>1
  <2> QED BY <1>1, <2>1
<1>3. w = ch
  BY <1>1, <1>2, SeqEqual
<1> QED BY <1>3 DEF w, Part

\* In a dense sheet every column has all chunks, of the lengths of the map.
LEMMA DenseFacts ==
  ASSUME NEW s, Layout(s), DenseAligned(s), NEW c \in 1..Len(s.cols)
  PROVE  /\ s.cols[c].chunk \in Seq(Seq(Contents)) /\ Len(s.cols[c].chunk) = Len(s.starts)
         /\ \A i \in 1..Len(s.starts) :
              /\ s.cols[c].chunk[i] \in Seq(Contents)
              /\ Len(s.cols[c].chunk[i]) = MapLen(s, i)
<1> DEFINE ch == s.cols[c].chunk
           n == Len(s.starts)
<1>1. ch \in Partials /\ n \in Nat
  BY DEF Layout, ColumnFits, Columns, SheetRecords
<1>2. DOMAIN ch = 1..n
  BY DEF DenseAligned
<1>3. ch = [i \in DOMAIN ch |-> ch[i]] /\ \A i \in DOMAIN ch : ch[i] \in Seq(Contents)
  BY <1>1, PartialIs
<1>4. ASSUME NEW i \in 1..n PROVE Len(ch[i]) = MapLen(s, i)
  <2>1. ColumnFits(s.cols[c], s.starts, s.nrows) /\ Tiles(s.starts, s.nrows)
    BY DEF Layout
  <2>2. Len(ch[i]) = EndOf(s.starts, s.nrows, i) - s.starts[i]
    BY <2>1, <1>2 DEF ColumnFits
  <2>3. MapLen(s, i) = EndOf(s.starts, s.nrows, i) - s.starts[i]
    BY <2>1, MapLens
  <2> QED BY <2>2, <2>3
<1> HIDE DEF ch, n
<1>5. ch \in [1..n -> Seq(Contents)]
  BY <1>2, <1>3
<1>6. ch \in Seq(Seq(Contents)) /\ Len(ch) = n
  BY <1>1, <1>5
<1> QED BY <1>2, <1>3, <1>4, <1>6 DEF ch, n

\* insert_rows cuts a dense chunk as the plan of the sparse way says.
LEMMA ChunkInserted ==
  ASSUME NEW s, Layout(s), NEW split, NEW at \in Nat, NEW count \in Nat, count > 0,
         IsSplit(s.starts, s.nrows, split, at), NEW chunks, NEW i \in 1..Len(s.starts),
         chunks[i] \in Seq(Contents), Len(chunks[i]) = MapLen(s, i)
  PROVE  ChunksInserted(chunks, split, count, i) = Image(chunks, PlanInserted(s, split, count, i))
<1> DEFINE m == s.starts
           nr == s.nrows
           p == split.chunk
           o == split.off
           len == MapLen(s, i)
           ch == chunks[i]
<1>0. Tiles(m, nr) /\ o \in Nat /\ m[p] + o = at /\ at <= EndOf(m, nr, p)
  BY DEF Layout, IsSplit
<1>1. /\ i \in Nat /\ i # Missing /\ len \in Nat /\ len > 0 /\ len = EndOf(m, nr, i) - m[i]
      /\ m[i] \in Nat /\ EndOf(m, nr, i) \in Nat
  BY <1>0, MapLens
<1>2. CASE i # p
  <2>1. PlanInserted(s, split, count, i) = Slice(i, 0, len)
    BY <1>2 DEF PlanInserted
  <2>2. Image(chunks, Slice(i, 0, len)) = Part(ch, 0, len)
    BY <1>1, ImageSlice
  <2>3. Part(ch, 0, len) = <<ch>>
    <3> HIDE DEF ch, len
    <3>1. ch \in Seq(Contents) /\ len = Len(ch)
      BY DEF ch, len
    <3> QED BY <1>1, <3>1, WholeChunk
  <2> QED BY <1>2, <2>1, <2>2, <2>3 DEF ChunksInserted
<1>3. CASE i = p
  <2> DEFINE A == Slice(i, 0, o)
             B == Slice(Missing, 0, count)
             rest == len - o
             C == Slice(i, o, rest)
  <2>1. rest \in Nat
    <3> HIDE DEF len, m, nr, o
    <3> QED BY <1>0, <1>1, <1>3
  <2>2. PlanInserted(s, split, count, i) = A \o B \o C
    BY <1>3 DEF PlanInserted
  <2>3. ChunksInserted(chunks, split, count, i)
          = Part(ch, 0, o) \o <<make_empty_chunk(count)>> \o Part(ch, o, rest)
    BY <1>3 DEF ChunksInserted
  <2> HIDE DEF rest
  <2>4. A \in Seq(PlanItems) /\ B \in Seq(PlanItems) /\ C \in Seq(PlanItems)
    BY <1>0, <1>1, <2>1, SliceType DEF Missing
  <2>5. Image(chunks, A) = Part(ch, 0, o) /\ Image(chunks, C) = Part(ch, o, rest)
    BY <1>0, <1>1, <2>1, ImageSlice
  <2>6. Image(chunks, B) = <<make_empty_chunk(count)>>
    BY ImageGap
  <2> HIDE DEF A, B, C
  <2>7. A \o B \in Seq(PlanItems)
    BY <2>4, ConcatProperties
  <2>8. Image(chunks, A \o B \o C) = Image(chunks, A) \o Image(chunks, B) \o Image(chunks, C)
    <3>1. Image(chunks, A \o B) = Image(chunks, A) \o Image(chunks, B)
      BY <2>4, ImageConcat
    <3> DEFINE ab == A \o B
    <3>2. ab \in Seq(PlanItems)
      BY <2>7
    <3> HIDE DEF ab
    <3>3. Image(chunks, ab \o C) = Image(chunks, ab) \o Image(chunks, C)
      BY <2>4, <3>2, ImageConcat
    <3> QED BY <3>1, <3>3 DEF ab
  <2> QED BY <2>2, <2>3, <2>5, <2>6, <2>8
<1> QED BY <1>2, <1>3

\* delete_rows cuts a dense chunk as the plan of the sparse way says.
LEMMA ChunkDeleted ==
  ASSUME NEW s, Layout(s), NEW start \in Nat, NEW end \in Nat, start < end,
         NEW chunks, NEW i \in 1..Len(s.starts),
         chunks[i] \in Seq(Contents), Len(chunks[i]) = MapLen(s, i)
  PROVE  ChunksDeleted(chunks[i], s.starts[i], start, end)
           = Image(chunks, PlanDeleted(i, s.starts[i], MapLen(s, i), start, end))
<1> DEFINE a == s.starts[i]
           e == EndOf(s.starts, s.nrows, i)
           len == MapLen(s, i)
           ch == chunks[i]
<1>1. i \in Nat /\ i # Missing /\ len \in Nat /\ len > 0 /\ len = e - a /\ a \in Nat /\ e \in Nat
  <2>1. Tiles(s.starts, s.nrows)
    BY DEF Layout
  <2> QED BY <2>1, MapLens
<1>2. Len(ch) = len /\ ch \in Seq(Contents)
  OBVIOUS
<1> HIDE DEF len, a, e
<1>3. CASE Outside(a, len, start, end)
  <2>1. PlanDeleted(i, a, len, start, end) = Slice(i, 0, len)
    BY <1>3 DEF PlanDeleted
  <2>2. Image(chunks, Slice(i, 0, len)) = Part(ch, 0, len)
    BY <1>1, ImageSlice
  <2>3. Part(ch, 0, len) = <<ch>>
    <3> HIDE DEF ch
    <3> QED BY <1>1, <1>2, WholeChunk
  <2>4. ChunksDeleted(ch, a, start, end) = <<ch>>
    BY <1>2, <1>3 DEF ChunksDeleted
  <2> QED BY <2>1, <2>2, <2>3, <2>4 DEF a, len
<1>4. CASE ~Outside(a, len, start, end)
  <2> DEFINE l == LeftOf(a, len, start)
             r == RightOf(a, len, end)
             o == end - a
             A == Slice(i, 0, l)
             B == Slice(i, o, r)
  <2>1. /\ l \in Nat /\ r \in Nat /\ o \in Nat /\ (end < e => o + r = len)
        /\ r = (IF end < e THEN e - end ELSE 0)
    <3>1. a < e /\ len = e - a
      BY <1>1
    <3>2. IsCut(a, e, len, start, end)
      BY <1>1, <1>4, <3>1, Remains
    <3> QED BY <3>2 DEF IsCut
  <2>2. PlanDeleted(i, a, len, start, end) = A \o B
    BY <1>4 DEF PlanDeleted
  <2>3. ChunksDeleted(ch, a, start, end) = Part(ch, 0, l) \o Part(ch, len - r, r)
    BY <1>2, <1>4 DEF ChunksDeleted
  <2> HIDE DEF l, r, o
  <2>4. Part(ch, len - r, r) = Part(ch, o, r)
    <3>1. CASE end < e
      <4>1. len - r = o
        BY <1>1, <2>1, <3>1
      <4> QED BY <4>1
    <3>2. CASE ~(end < e)
      <4>1. r = 0
        BY <2>1, <3>2
      <4> QED BY <4>1 DEF Part
    <3> QED BY <3>1, <3>2
  <2>5. A \in Seq(PlanItems) /\ B \in Seq(PlanItems)
    BY <1>1, <2>1, SliceType
  <2>6. Image(chunks, A) = Part(ch, 0, l) /\ Image(chunks, B) = Part(ch, o, r)
    BY <1>1, <2>1, ImageSlice
  <2> HIDE DEF A, B
  <2>7. Image(chunks, A \o B) = Image(chunks, A) \o Image(chunks, B)
    BY <2>5, ImageConcat
  <2> QED BY <2>2, <2>3, <2>4, <2>6, <2>7 DEF a, len
<1> QED BY <1>3, <1>4

-----------------------------------------------------------------------------
(* Row edits keep the layout and move the rows *)

\* A sheet with rows has a map already.
LEMMA MapStays ==
  ASSUME NEW s, Layout(s), s.nrows > 0
  PROVE  WithMap(s) = s /\ s.starts # <<>> /\ Len(s.starts) \in Nat /\ Len(s.starts) > 0
         /\ Last(s.starts) = s.starts[Len(s.starts)]
<1>1. s.starts # <<>> /\ s.starts \in Seq(Nat)
  BY DEF Layout, Tiles
<1> QED BY <1>1 DEF WithMap, Last

SplitOf(t, at) ==
  IF at = t.nrows THEN [chunk |-> Len(t.starts), off |-> t.nrows - Last(t.starts)]
  ELSE chunk_of_row(t, at)

\* insert_rows finds the chunk to split, at the end of the sheet too.
LEMMA SplitIs ==
  ASSUME NEW t, Layout(t), t.nrows > 0, NEW at \in Nat, at <= t.nrows
  PROVE  IsSplit(t.starts, t.nrows, SplitOf(t, at), at)
<1> DEFINE m == t.starts
           nr == t.nrows
<1>0. Tiles(m, nr) /\ nr \in Nat /\ Len(m) \in Nat /\ Len(m) > 0 /\ Last(m) = m[Len(m)]
  BY MapStays DEF Layout, Tiles
<1>1. CASE at = nr
  <2> DEFINE n == Len(m)
             a == m[n]
             o == nr - Last(m)
  <2>1. n \in 1..n /\ EndOf(m, nr, n) = nr
    BY <1>0 DEF EndOf
  <2>2. a \in Nat /\ a < nr
    BY <1>0, <2>1, TilesRows
  <2>3. o = nr - a
    BY <1>0
  <2>4. SplitOf(t, at).chunk = n /\ SplitOf(t, at).off = o
    BY <1>1 DEF SplitOf
  <2>5. o \in Nat /\ a + o = at /\ at <= nr
    <3> HIDE DEF nr, a, o
    <3> QED BY <1>0, <1>1, <2>2, <2>3
  <2> HIDE DEF o
  <2> QED BY <2>1, <2>4, <2>5 DEF IsSplit
<1>2. CASE at # nr
  <2>1. PICK i \in 1..Len(m) : m[i] <= at /\ at < EndOf(m, nr, i)
    <3>1. at < nr
      <4> HIDE DEF nr
      <4> QED BY <1>0, <1>2 DEF nr
    <3> QED BY <1>0, <3>1, TilesCover
  <2>2. chunk_of_row(t, at) = [chunk |-> i, off |-> at - m[i]]
    BY <1>0, <2>1, ChunkOfRow
  <2>3. SplitOf(t, at).chunk = i /\ SplitOf(t, at).off = at - m[i]
    BY <1>2, <2>2 DEF SplitOf
  <2>4. m[i] \in Nat /\ EndOf(m, nr, i) \in Nat
    BY <1>0, TilesRows
  <2>5. at - m[i] \in Nat /\ m[i] + (at - m[i]) = at /\ at <= EndOf(m, nr, i)
    <3> HIDE DEF m, nr
    <3> QED BY <2>1, <2>4
  <2> QED BY <2>3, <2>5 DEF IsSplit
<1> QED BY <1>1, <1>2

\* insert_rows into a sheet with rows, in both ways of rebuilding it.
LEMMA InsertedRows ==
  ASSUME NEW s, Layout(s), s.cols # <<>>, s.nrows > 0, NEW before \in Nat,
         NEW count \in Nat, count > 0, count <= ChunkRows,
         NEW at \in Nat, at = Min({before, s.nrows}), at <= s.nrows
  PROVE  RowsMade(s, insert_rows(s, before, count), s.nrows + count, InsertSource(at, count))
<1> DEFINE t == WithMap(s)
           split == SplitOf(t, at)
           F == [i \in 1..Len(t.starts) |-> PlanInserted(t, split, count, i)]
           plan == FlattenSeq(F)
           H(c) == [i \in 1..Len(t.cols[c].chunk) |-> ChunksInserted(t.cols[c].chunk, split, count, i)]
           cut == [c \in 1..Len(t.cols) |-> FlattenSeq(H(c))]
<1>1. t = s
  BY MapStays
<1>2. insert_rows(s, before, count)
        = IF DenseAligned(t) THEN RebuildDense(t, t.nrows + count, cut)
          ELSE RebuildSparse(t, t.nrows + count, plan)
  <2>1. Min({before, t.nrows}) = at /\ s.nrows # 0
    BY <1>1
  <2> HIDE DEF t
  <2> QED BY <2>1 DEF insert_rows, SplitOf, t
<1>3. Layout(t) /\ t.cols # <<>> /\ t.nrows > 0 /\ at <= t.nrows
  BY <1>1
<1> HIDE DEF t
<1>4. IsSplit(t.starts, t.nrows, split, at)
  BY <1>3, SplitIs
<1> HIDE DEF split
<1>5. Plans(t.starts, t.nrows, plan, t.nrows + count, InsertSource(at, count))
  BY <1>3, <1>4, InsertPlan
<1>6. F \in SeqsOver(Len(t.starts), PlanItems)
  BY <1>3, <1>4, InsertTyped
<1>7. ASSUME DenseAligned(t)
      PROVE  cut = [c \in 1..Len(t.cols) |-> Image(t.cols[c].chunk, plan)]
  <2>1. ASSUME NEW c \in 1..Len(t.cols) PROVE FlattenSeq(H(c)) = Image(t.cols[c].chunk, plan)
    <3> DEFINE chunks == t.cols[c].chunk
               n == Len(t.starts)
    <3>1. /\ Len(chunks) = n
          /\ \A i \in 1..n : chunks[i] \in Seq(Contents) /\ Len(chunks[i]) = MapLen(t, i)
      BY <1>3, <1>7, DenseFacts
    <3>2. n \in Nat
      BY <1>3, MapStays
    <3> HIDE DEF chunks
    <3>3. \A i \in 1..n : ChunksInserted(chunks, split, count, i) = Image(chunks, F[i])
      <4> SUFFICES ASSUME NEW i \in 1..n
                   PROVE  ChunksInserted(chunks, split, count, i) = Image(chunks, F[i])
        OBVIOUS
      <4>1. F[i] = PlanInserted(t, split, count, i)
        OBVIOUS
      <4>2. chunks[i] \in Seq(Contents) /\ Len(chunks[i]) = MapLen(t, i)
        BY <3>1
      <4> QED BY <1>3, <1>4, <4>1, <4>2, ChunkInserted
    <3>4. H(c) = [i \in 1..n |-> Image(chunks, F[i])]
      <4> HIDE DEF F, n
      <4> QED BY <3>1, <3>3 DEF chunks
    <3> HIDE DEF H, F, n
    <3>5. F \in SeqsOver(n, PlanItems)
      BY <1>6 DEF n
    <3>6. FlattenSeq(H(c)) = Image(chunks, FlattenSeq(F))
      BY <3>2, <3>4, <3>5, ImageFlatten
    <3> QED BY <3>6 DEF chunks
  <2> HIDE DEF H, plan
  <2> QED BY <2>1
<1> HIDE DEF cut, plan
<1>8. RowsMade(t, insert_rows(s, before, count), t.nrows + count, InsertSource(at, count))
  <2>1. CASE DenseAligned(t)
    <3>1. RowsMade(t, RebuildDense(t, t.nrows + count, cut), t.nrows + count, InsertSource(at, count))
      BY <1>3, <1>5, <1>7, <2>1, DenseSheet
    <3> QED BY <1>2, <2>1, <3>1
  <2>2. CASE ~DenseAligned(t)
    <3>1. RowsMade(t, RebuildSparse(t, t.nrows + count, plan), t.nrows + count, InsertSource(at, count))
      BY <1>3, <1>5, SparseSheet
    <3> QED BY <1>2, <2>2, <3>1
  <2> QED BY <2>1, <2>2
<1> QED BY <1>1, <1>8

\* The chunks of any dense column give the map of the sheet.
LEMMA DenseStarts ==
  ASSUME NEW s, Layout(s), DenseAligned(s), NEW c \in 1..Len(s.cols)
  PROVE  StartsOf([i \in 1..Len(s.cols[c].chunk) |-> Len(s.cols[c].chunk[i])]) = s.starts
<1> DEFINE ch == s.cols[c].chunk
           m == s.starts
           nr == s.nrows
           n == Len(m)
           lens == [i \in 1..Len(ch) |-> Len(ch[i])]
<1>1. Tiles(m, nr) /\ m \in Seq(Nat) /\ n \in Nat /\ (n > 0 => m[1] = 0)
  BY DEF Layout, Tiles
<1>2. Len(ch) = n /\ \A i \in 1..n : Len(ch[i]) = MapLen(s, i)
  BY DenseFacts
<1>3. \A i \in 1..n : MapLen(s, i) \in Nat /\ MapLen(s, i) = EndOf(m, nr, i) - m[i]
  BY <1>1, MapLens
<1>4. lens \in [1..n -> Nat] /\ \A i \in 1..n : lens[i] = EndOf(m, nr, i) - m[i]
  <2> HIDE DEF ch, m, nr, n
  <2> QED BY <1>2, <1>3
<1> HIDE DEF lens
<1>5. lens \in Seq(Nat) /\ Len(lens) = n
  <2> HIDE DEF n
  <2> QED BY <1>1, <1>4
<1>6. ASSUME NEW j \in 1..(n - 1) PROVE m[j + 1] = m[j] + lens[j]
  <2>1. j \in 1..n /\ j + 1 \in 1..n /\ j < n
    <3> HIDE DEF n
    <3> QED BY <1>1
  <2>2. EndOf(m, nr, j) = m[j + 1]
    BY <2>1 DEF EndOf
  <2>3. m[j] \in Nat /\ m[j + 1] \in Nat
    BY <1>1, <2>1
  <2> HIDE DEF m, n
  <2>4. lens[j] = m[j + 1] - m[j]
    BY <1>4, <2>1, <2>2
  <2> QED BY <2>3, <2>4
<1> HIDE DEF m, n
<1>7. StartsOf(lens) = m
  <2>1. \A j \in 1..(Len(lens) - 1) : m[j + 1] = m[j] + lens[j]
    BY <1>5, <1>6
  <2> QED BY <1>1, <1>5, <2>1, StartsAre DEF n
<1> QED BY <1>7 DEF lens, m, ch

\* delete_rows, in both ways of rebuilding the sheet.
LEMMA DeletedRows ==
  ASSUME NEW s, Layout(s), s.cols # <<>>, NEW start \in Nat, start < s.nrows, NEW count \in Nat,
         NEW end \in Nat, end = Min({start + count, s.nrows}), start < end, end <= s.nrows
  PROVE  RowsMade(s, delete_rows(s, start, count), s.nrows - (end - start), DeleteSource(start, end))
<1> DEFINE t == WithMap(s)
           F == [i \in 1..Len(t.starts) |-> PlanDeleted(i, t.starts[i], MapLen(t, i), start, end)]
           plan == FlattenSeq(F)
           From(c) == StartsOf([i \in 1..Len(t.cols[c].chunk) |-> Len(t.cols[c].chunk[i])])
           H(c) == [i \in 1..Len(t.cols[c].chunk) |->
                      ChunksDeleted(t.cols[c].chunk[i], From(c)[i], start, end)]
           cut == [c \in 1..Len(t.cols) |-> FlattenSeq(H(c))]
           total == t.nrows - (end - start)
<1>0. s.nrows \in Nat /\ s.nrows > 0
  BY DEF Layout, Tiles
<1>1. t = s
  BY <1>0, MapStays
<1>2. delete_rows(s, start, count)
        = IF DenseAligned(t) THEN RebuildDense(t, total, cut) ELSE RebuildSparse(t, total, plan)
  <2>1. Min({start + count, t.nrows}) = end /\ ~(start >= s.nrows)
    BY <1>0, <1>1
  <2> HIDE DEF t
  <2> QED BY <2>1 DEF delete_rows, t
<1>3. Layout(t) /\ t.cols # <<>> /\ t.nrows > 0 /\ end <= t.nrows
  BY <1>0, <1>1
<1> HIDE DEF t
<1>5. Plans(t.starts, t.nrows, plan, total, DeleteSource(start, end))
  BY <1>3, DeletePlan
<1>6. F \in SeqsOver(Len(t.starts), PlanItems)
  BY <1>3, DeleteTyped
<1>7. ASSUME DenseAligned(t)
      PROVE  cut = [c \in 1..Len(t.cols) |-> Image(t.cols[c].chunk, plan)]
  <2>1. ASSUME NEW c \in 1..Len(t.cols) PROVE FlattenSeq(H(c)) = Image(t.cols[c].chunk, plan)
    <3> DEFINE chunks == t.cols[c].chunk
               n == Len(t.starts)
    <3>1. /\ Len(chunks) = n
          /\ \A i \in 1..n : chunks[i] \in Seq(Contents) /\ Len(chunks[i]) = MapLen(t, i)
      BY <1>3, <1>7, DenseFacts
    <3>2. n \in Nat
      BY <1>3, MapStays
    <3>7. From(c) = t.starts
      BY <1>3, <1>7, DenseStarts
    <3> HIDE DEF chunks, From
    <3>3. \A i \in 1..n : ChunksDeleted(chunks[i], From(c)[i], start, end) = Image(chunks, F[i])
      <4> SUFFICES ASSUME NEW i \in 1..n
                   PROVE  ChunksDeleted(chunks[i], t.starts[i], start, end) = Image(chunks, F[i])
        BY <3>7
      <4>1. F[i] = PlanDeleted(i, t.starts[i], MapLen(t, i), start, end)
        OBVIOUS
      <4>2. chunks[i] \in Seq(Contents) /\ Len(chunks[i]) = MapLen(t, i)
        BY <3>1
      <4> QED BY <1>3, <4>1, <4>2, ChunkDeleted
    <3>4. H(c) = [i \in 1..n |-> Image(chunks, F[i])]
      <4> HIDE DEF F, n
      <4> QED BY <3>1, <3>3 DEF chunks
    <3> HIDE DEF H, F, n
    <3>5. F \in SeqsOver(n, PlanItems)
      BY <1>6 DEF n
    <3>6. FlattenSeq(H(c)) = Image(chunks, FlattenSeq(F))
      BY <3>2, <3>4, <3>5, ImageFlatten
    <3> QED BY <3>6 DEF chunks
  <2> HIDE DEF H, plan
  <2> QED BY <2>1
<1> HIDE DEF cut, plan, total
<1>8. RowsMade(t, delete_rows(s, start, count), total, DeleteSource(start, end))
  <2>1. CASE DenseAligned(t)
    <3>1. RowsMade(t, RebuildDense(t, total, cut), total, DeleteSource(start, end))
      BY <1>3, <1>5, <1>7, <2>1, DenseSheet
    <3> QED BY <1>2, <2>1, <3>1
  <2>2. CASE ~DenseAligned(t)
    <3>1. RowsMade(t, RebuildSparse(t, total, plan), total, DeleteSource(start, end))
      BY <1>3, <1>5, SparseSheet
    <3> QED BY <1>2, <2>2, <3>1
  <2> QED BY <2>1, <2>2
<1> QED BY <1>1, <1>8 DEF total

-----------------------------------------------------------------------------
(* Clearing results *)

SameShape(col, new) ==
  /\ new \in Columns /\ new.n = col.n /\ DOMAIN new.chunk = DOMAIN col.chunk
  /\ \A i \in DOMAIN col.chunk : Len(new.chunk[i]) = Len(col.chunk[i])

\* The layout depends on the lengths of chunks only.
LEMMA ShapeKept ==
  ASSUME NEW s, Layout(s), NEW cs \in Seq(Columns), Len(cs) = Len(s.cols),
         \A c \in 1..Len(s.cols) : SameShape(s.cols[c], cs[c])
  PROVE  Layout([nrows |-> s.nrows, starts |-> s.starts, cols |-> cs])
<1> DEFINE t == [nrows |-> s.nrows, starts |-> s.starts, cols |-> cs]
<1>1. t \in SheetRecords
  BY DEF Layout, SheetRecords
<1>2. Tiles(t.starts, t.nrows)
  BY DEF Layout
<1>3. ASSUME NEW c \in 1..Len(t.cols) PROVE ColumnFits(t.cols[c], t.starts, t.nrows)
  <2>1. ColumnFits(s.cols[c], s.starts, s.nrows) /\ SameShape(s.cols[c], cs[c])
    BY DEF Layout
  <2> QED BY <2>1 DEF ColumnFits, SameShape
<1>4. t.cols = <<>> => t.nrows = 0
  <2>1. s.cols \in Seq(Columns) /\ (s.cols = <<>> => s.nrows = 0)
    BY DEF Layout, SheetRecords
  <2> QED BY <2>1
<1> HIDE DEF t
<1>5. Layout(t)
  BY <1>1, <1>2, <1>3, <1>4 DEF Layout
<1> QED BY <1>5 DEF t

\* New chunks of the old lengths keep the shape of a column.
LEMMA NewChunks ==
  ASSUME NEW col \in Columns, NEW f, f = [i \in DOMAIN col.chunk |-> f[i]],
         \A i \in DOMAIN col.chunk : f[i] \in Seq(Contents) /\ Len(f[i]) = Len(col.chunk[i])
  PROVE  SameShape(col, [col EXCEPT !.chunk = f]) /\ [col EXCEPT !.chunk = f].chunk = f
<1> DEFINE new == [col EXCEPT !.chunk = f]
<1>1. new = [n |-> col.n, chunk |-> f]
  BY DEF Columns
<1>2. col.chunk \in Partials /\ col.n \in Nat
  BY DEF Columns
<1>3. DOMAIN f = DOMAIN col.chunk /\ DOMAIN f \subseteq Nat
  BY <1>2, PartialIs
<1>4. f \in Partials
  BY <1>3, PartialIs
<1> HIDE DEF new
<1>5. new \in Columns /\ new.n = col.n /\ new.chunk = f
  BY <1>1, <1>2, <1>4 DEF Columns
<1>6. SameShape(col, new)
  BY <1>3, <1>5 DEF SameShape
<1> QED BY <1>5, <1>6 DEF new

\* Nothing is a content, and neither a result nor a user's value.
LEMMA BlankIs == Blank \in Contents /\ Blank \notin Results /\ Blank \notin UserValues
BY SheetAssumption DEF Contents

\* A sheet of the same layout, cell by cell.
Reshaped(s, t) ==
  /\ t = [nrows |-> s.nrows, starts |-> s.starts, cols |-> t.cols]
  /\ t.cols \in Seq(Columns) /\ Len(t.cols) = Len(s.cols)
  /\ \A c \in 1..Len(s.cols) : SameShape(s.cols[c], t.cols[c])

BothAt(s, t, c, r) ==
  \E i \in 1..Len(s.starts) :
    /\ s.starts[i] <= r /\ r < EndOf(s.starts, s.nrows, i)
    /\ get_cell_value(s, r, c - 1) = At(s.cols[c], i, r - s.starts[i])
    /\ get_cell_value(t, r, c - 1) = At(t.cols[c], i, r - s.starts[i])

\* Sheets of the same shape are read in the same chunks.
LEMMA CellsKept ==
  ASSUME NEW s, Layout(s), NEW t, Reshaped(s, t)
  PROVE  /\ Layout(t) /\ t.nrows = s.nrows /\ t.starts = s.starts
         /\ \A c \in 1..Len(s.cols), r \in Nat : r < s.nrows => BothAt(s, t, c, r)
<1>0. Layout(t) /\ t.starts = s.starts /\ t.nrows = s.nrows /\ Len(t.cols) = Len(s.cols)
  BY ShapeKept DEF Reshaped
<1> SUFFICES ASSUME NEW c \in 1..Len(s.cols), NEW r \in Nat, r < s.nrows PROVE BothAt(s, t, c, r)
  BY <1>0
<1>1. PICK i \in 1..Len(s.starts) : s.starts[i] <= r /\ r < EndOf(s.starts, s.nrows, i)
  BY TilesCover DEF Layout
<1>2. get_cell_value(s, r, c - 1) = At(s.cols[c], i, r - s.starts[i])
  BY <1>1, CellIs
<1>5. get_cell_value(t, r, c - 1) = At(t.cols[c], i, r - s.starts[i])
  <2>1. i \in 1..Len(t.starts) /\ t.starts[i] <= r /\ r < EndOf(t.starts, t.nrows, i)
    BY <1>0, <1>1
  <2>2. get_cell_value(t, r, c - 1) = At(t.cols[c], i, r - t.starts[i])
    BY <1>0, <2>1, CellIs
  <2> QED BY <1>0, <2>2
<1> QED BY <1>1, <1>2, <1>5 DEF BothAt

Cleared(v) == IF v \in Results THEN Blank ELSE v

\* t is s without the results in the rows from `row` on and in the columns from
\* `col` on.
IsCleared(s, t, line, col) ==
  /\ Layout(t) /\ t.nrows = s.nrows /\ Len(t.cols) = Len(s.cols)
  /\ \A c \in 1..Len(s.cols), r \in Nat : r < s.nrows =>
       get_cell_value(t, r, c - 1) =
         IF r >= line /\ c > col THEN Cleared(get_cell_value(s, r, c - 1))
         ELSE get_cell_value(s, r, c - 1)

\* The results from a row on are cleared, in every chunk, and nothing else.
LEMMA ClearRows ==
  ASSUME NEW s, Layout(s), NEW start \in Nat
  PROVE  IsCleared(s, clear_computed_overlay_after_row(s, start), start, 0)
<1> DEFINE t == clear_computed_overlay_after_row(s, start)
           m == s.starts
           nr == s.nrows
           Wipe(ch, i) == [k \in 1..Len(ch) |->
                             IF m[i] + k - 1 >= start /\ ch[k] \in Results THEN Blank ELSE ch[k]]
           f(c) == [i \in DOMAIN s.cols[c].chunk |->
                      IF i > Len(m) THEN s.cols[c].chunk[i] ELSE Wipe(s.cols[c].chunk[i], i)]
           new(c) == [s.cols[c] EXCEPT !.chunk = f(c)]
           cs == [c \in 1..Len(s.cols) |-> new(c)]
<1>0. s \in SheetRecords /\ nr \in Nat /\ Len(m) \in Nat /\ Tiles(m, nr) /\ Len(s.cols) \in Nat
  BY DEF Layout, SheetRecords
<1>1. CASE start >= nr
  <2>1. t = s
    BY <1>1 DEF clear_computed_overlay_after_row
  <2>2. \A r \in Nat : r < nr => ~(r >= start)
    <3> HIDE DEF nr
    <3> QED BY <1>0, <1>1
  <2> QED BY <2>1, <2>2 DEF IsCleared
<1>2. CASE ~(start >= nr)
  <2>1. t = [nrows |-> nr, starts |-> m, cols |-> cs]
    <3>1. t = [s EXCEPT !.cols = cs]
      BY <1>2 DEF clear_computed_overlay_after_row
    <3> HIDE DEF cs, t
    <3> QED BY <1>0, <3>1, SheetUpdates
  <2>2. ASSUME NEW c \in 1..Len(s.cols)
        PROVE  /\ SameShape(s.cols[c], new(c)) /\ new(c).chunk = f(c)
               /\ \A i \in DOMAIN s.cols[c].chunk : f(c)[i] = Wipe(s.cols[c].chunk[i], i)
    <3> DEFINE col == s.cols[c]
    <3>1. col \in Columns /\ DOMAIN col.chunk \subseteq 1..Len(m) /\ col.chunk \in Partials
      BY DEF Layout, ColumnFits, Columns
    <3>2. ASSUME NEW i \in DOMAIN col.chunk
          PROVE  f(c)[i] = Wipe(col.chunk[i], i) /\ f(c)[i] \in Seq(Contents)
                 /\ Len(f(c)[i]) = Len(col.chunk[i])
      <4> DEFINE ch == col.chunk[i]
      <4>1. ch \in Seq(Contents) /\ Len(ch) \in Nat
        BY <3>1, PartialIs
      <4>2. ~(i > Len(m))
        BY <1>0, <3>1
      <4>3. f(c)[i] = Wipe(ch, i)
        BY <4>2
      <4> HIDE DEF ch, f
      <4>4. Wipe(ch, i) \in [1..Len(ch) -> Contents]
        BY <4>1, BlankIs
      <4>5. Wipe(ch, i) \in Seq(Contents) /\ Len(Wipe(ch, i)) = Len(ch)
        <5> HIDE DEF Wipe
        <5> QED BY <4>1, <4>4
      <4> QED BY <4>3, <4>5 DEF ch
    <3>3. f(c) = [i \in DOMAIN col.chunk |-> f(c)[i]]
      OBVIOUS
    <3> HIDE DEF f, Wipe
    <3> QED BY <3>1, <3>2, <3>3, NewChunks
  <2>3. \A c \in 1..Len(s.cols) : cs[c] = new(c)
    OBVIOUS
  <2>4. cs \in Seq(Columns) /\ Len(cs) = Len(s.cols)
    <3>1. cs \in [1..Len(s.cols) -> Columns]
      <4>1. \A c \in 1..Len(s.cols) : new(c) \in Columns
        BY <2>2 DEF SameShape
      <4> HIDE DEF new
      <4> QED BY <4>1
    <3> HIDE DEF cs
    <3> QED BY <1>0, <3>1
  <2> HIDE DEF cs, new, t, f
  <2>5. \A c \in 1..Len(s.cols) : SameShape(s.cols[c], cs[c])
    BY <2>2, <2>3
  <2>6. Reshaped(s, t) /\ t.cols = cs
    BY <2>1, <2>4, <2>5 DEF Reshaped
  <2>7. ASSUME NEW c \in 1..Len(s.cols), NEW r \in Nat, r < nr
        PROVE  get_cell_value(t, r, c - 1) =
                 IF r >= start THEN Cleared(get_cell_value(s, r, c - 1))
                 ELSE get_cell_value(s, r, c - 1)
    <3>0. BothAt(s, t, c, r)
      BY <2>6, <2>7, CellsKept
    <3>1. PICK i \in 1..Len(m) :
             /\ m[i] <= r /\ r < EndOf(m, nr, i)
             /\ get_cell_value(s, r, c - 1) = At(s.cols[c], i, r - m[i])
             /\ get_cell_value(t, r, c - 1) = At(cs[c], i, r - m[i])
      BY <2>6, <3>0 DEF BothAt
    <3>2. DOMAIN cs[c].chunk = DOMAIN s.cols[c].chunk /\ cs[c].chunk = f(c)
      BY <2>2, <2>3, <2>5 DEF SameShape
    <3>3. CASE i \notin DOMAIN s.cols[c].chunk
      BY <3>1, <3>2, <3>3, BlankIs DEF At, Cleared
    <3>4. CASE i \in DOMAIN s.cols[c].chunk
      <4> DEFINE ch == s.cols[c].chunk[i]
                 a == m[i]
                 e == EndOf(m, nr, i)
                 k == r - a
      <4>1. a \in Nat /\ e \in Nat /\ a <= r /\ r < e
        BY <1>0, <3>1, TilesRows
      <4>2. Len(ch) = e - a
        BY <3>4 DEF Layout, ColumnFits
      <4>3. k + 1 \in 1..Len(ch) /\ a + (k + 1) - 1 = r
        <5> HIDE DEF a, e, ch
        <5> QED BY <4>1, <4>2
      <4> HIDE DEF k
      <4>4. At(s.cols[c], i, k) = ch[k + 1] /\ At(cs[c], i, k) = Wipe(ch, i)[k + 1]
        BY <2>2, <3>2, <3>4 DEF At
      <4>5. Wipe(ch, i)[k + 1] = IF r >= start /\ ch[k + 1] \in Results THEN Blank ELSE ch[k + 1]
        <5> HIDE DEF ch
        <5>1. Wipe(ch, i)[k + 1] = IF a + (k + 1) - 1 >= start /\ ch[k + 1] \in Results
                                   THEN Blank ELSE ch[k + 1]
          BY <4>3
        <5> QED BY <4>3, <5>1
      <4> HIDE DEF Wipe, ch
      <4> QED BY <3>1, <4>4, <4>5 DEF Cleared, k
    <3> QED BY <3>3, <3>4
  <2>8. Layout(t) /\ t.nrows = nr /\ Len(t.cols) = Len(s.cols)
    BY <2>4, <2>6, CellsKept
  <2>9. \A c \in 1..Len(s.cols) : c > 0
    BY <1>0
  <2>10. IsCleared(s, t, start, 0)
    BY <2>7, <2>8, <2>9 DEF IsCleared
  <2> QED BY <2>10 DEF t
<1> QED BY <1>1, <1>2

\* A column has its own shape.
LEMMA SelfShape ==
  ASSUME NEW col \in Columns
  PROVE  SameShape(col, col)
BY DEF SameShape

\* The results from a column on are cleared, and nothing else.
LEMMA ClearCols ==
  ASSUME NEW s, Layout(s), NEW start \in Nat
  PROVE  IsCleared(s, clear_computed_overlay_after_col(s, start), 0, start)
<1> DEFINE t == clear_computed_overlay_after_col(s, start)
           m == s.starts
           nr == s.nrows
           Wipe(ch) == [k \in 1..Len(ch) |-> IF ch[k] \in Results THEN Blank ELSE ch[k]]
           f(c) == [i \in DOMAIN s.cols[c].chunk |-> Wipe(s.cols[c].chunk[i])]
           new(c) == [s.cols[c] EXCEPT !.chunk = f(c)]
           cs == [c \in 1..Len(s.cols) |-> IF c <= start THEN s.cols[c] ELSE new(c)]
<1>0. s \in SheetRecords /\ nr \in Nat /\ Len(m) \in Nat /\ Tiles(m, nr) /\ Len(s.cols) \in Nat
  BY DEF Layout, SheetRecords
<1>1. t = [nrows |-> nr, starts |-> m, cols |-> cs]
  <2>1. t = [s EXCEPT !.cols = cs]
    BY DEF clear_computed_overlay_after_col
  <2> HIDE DEF cs, t
  <2> QED BY <1>0, <2>1, SheetUpdates
<1>2. ASSUME NEW c \in 1..Len(s.cols)
      PROVE  /\ SameShape(s.cols[c], new(c)) /\ new(c).chunk = f(c) /\ SameShape(s.cols[c], s.cols[c])
             /\ \A i \in DOMAIN s.cols[c].chunk : f(c)[i] = Wipe(s.cols[c].chunk[i])
  <2> DEFINE col == s.cols[c]
  <2>1. col \in Columns /\ col.chunk \in Partials
    BY DEF Layout, ColumnFits, Columns
  <2>2. ASSUME NEW i \in DOMAIN col.chunk
        PROVE  f(c)[i] = Wipe(col.chunk[i]) /\ f(c)[i] \in Seq(Contents)
               /\ Len(f(c)[i]) = Len(col.chunk[i])
    <3> DEFINE ch == col.chunk[i]
    <3>1. ch \in Seq(Contents) /\ Len(ch) \in Nat
      BY <2>1, PartialIs
    <3>3. f(c)[i] = Wipe(ch)
      OBVIOUS
    <3> HIDE DEF ch, f
    <3>4. Wipe(ch) \in [1..Len(ch) -> Contents]
      BY <3>1, BlankIs
    <3>5. Wipe(ch) \in Seq(Contents) /\ Len(Wipe(ch)) = Len(ch)
      <4> HIDE DEF Wipe
      <4> QED BY <3>1, <3>4
    <3> QED BY <3>3, <3>5 DEF ch
  <2>3. f(c) = [i \in DOMAIN col.chunk |-> f(c)[i]]
    OBVIOUS
  <2>4. SameShape(col, col)
    BY <2>1, SelfShape
  <2> HIDE DEF f, Wipe
  <2> QED BY <2>1, <2>2, <2>3, <2>4, NewChunks
<1>3. \A c \in 1..Len(s.cols) : cs[c] = IF c <= start THEN s.cols[c] ELSE new(c)
  OBVIOUS
<1>4. \A c \in 1..Len(s.cols) : SameShape(s.cols[c], cs[c])
  <2> HIDE DEF cs, new
  <2> QED BY <1>2, <1>3
<1>5. cs \in Seq(Columns) /\ Len(cs) = Len(s.cols)
  <2>1. \A c \in 1..Len(s.cols) : cs[c] \in Columns
    <3> HIDE DEF cs
    <3> QED BY <1>4 DEF SameShape
  <2>2. cs = [c \in 1..Len(s.cols) |-> cs[c]]
    OBVIOUS
  <2> HIDE DEF cs
  <2>3. cs \in [1..Len(s.cols) -> Columns]
    BY <2>1, <2>2
  <2> QED BY <1>0, <2>3
<1> HIDE DEF cs, new, t, f
<1>6. Reshaped(s, t) /\ t.cols = cs
  BY <1>1, <1>4, <1>5 DEF Reshaped
<1>7. ASSUME NEW c \in 1..Len(s.cols), NEW r \in Nat, r < nr
      PROVE  get_cell_value(t, r, c - 1) =
               IF c > start THEN Cleared(get_cell_value(s, r, c - 1))
               ELSE get_cell_value(s, r, c - 1)
  <2>0. BothAt(s, t, c, r)
    BY <1>6, <1>7, CellsKept
  <2>1. PICK i \in 1..Len(m) :
           /\ m[i] <= r /\ r < EndOf(m, nr, i)
           /\ get_cell_value(s, r, c - 1) = At(s.cols[c], i, r - m[i])
           /\ get_cell_value(t, r, c - 1) = At(cs[c], i, r - m[i])
    BY <1>6, <2>0 DEF BothAt
  <2>2. CASE c <= start
    <3>1. ~(c > start) /\ cs[c] = s.cols[c]
      BY <1>0, <1>3, <2>2
    <3> QED BY <2>1, <3>1
  <2>3. CASE ~(c <= start)
    <3>1. c > start /\ cs[c] = new(c)
      BY <1>0, <1>3, <2>3
    <3>2. DOMAIN cs[c].chunk = DOMAIN s.cols[c].chunk /\ cs[c].chunk = f(c)
      BY <1>2, <3>1, <1>4 DEF SameShape
    <3>3. CASE i \notin DOMAIN s.cols[c].chunk
      BY <2>1, <3>1, <3>2, <3>3, BlankIs DEF At, Cleared
    <3>4. CASE i \in DOMAIN s.cols[c].chunk
      <4> DEFINE ch == s.cols[c].chunk[i]
                 a == m[i]
                 e == EndOf(m, nr, i)
                 k == r - a
      <4>1. a \in Nat /\ e \in Nat /\ a <= r /\ r < e
        BY <1>0, <2>1, TilesRows
      <4>2. Len(ch) = e - a
        BY <3>4 DEF Layout, ColumnFits
      <4>3. k + 1 \in 1..Len(ch)
        <5> HIDE DEF a, e, ch
        <5> QED BY <4>1, <4>2
      <4> HIDE DEF k
      <4>4. At(s.cols[c], i, k) = ch[k + 1] /\ At(cs[c], i, k) = Wipe(ch)[k + 1]
        BY <1>2, <3>2, <3>4 DEF At
      <4>5. Wipe(ch)[k + 1] = Cleared(ch[k + 1])
        <5> HIDE DEF ch
        <5> QED BY <4>3 DEF Cleared
      <4> HIDE DEF Wipe, ch
      <4> QED BY <2>1, <3>1, <4>4, <4>5 DEF k
    <3> QED BY <3>3, <3>4
  <2> QED BY <2>2, <2>3
<1>8. Layout(t) /\ t.nrows = nr /\ Len(t.cols) = Len(s.cols)
  BY <1>5, <1>6, CellsKept
<1>9. IsCleared(s, t, 0, start)
  BY <1>7, <1>8 DEF IsCleared
<1> QED BY <1>9 DEF t

-----------------------------------------------------------------------------
(* Column edits *)

\* A column of this map that shows nothing.
BlankColumn(col, m, nr) ==
  /\ ColumnFits(col, m, nr)
  /\ \A i \in 1..Len(m) : \A k \in 0..(EndOf(m, nr, i) - m[i] - 1) : At(col, i, k) = Blank

\* A new column, with all chunks or none, fits the map and shows nothing.
LEMMA EmptyColumnFits ==
  ASSUME NEW m, NEW nr, Tiles(m, nr), NEW lens,
         lens = <<>> \/ lens = [i \in 1..Len(m) |-> EndOf(m, nr, i) - m[i]]
  PROVE  BlankColumn(EmptyColumn(lens), m, nr)
<1> DEFINE col == EmptyColumn(lens)
           n == Len(lens)
<1>0. Len(m) \in Nat /\ \A i \in 1..Len(m) : EndOf(m, nr, i) - m[i] \in Nat
  <2>1. \A i \in 1..Len(m) : m[i] \in Nat /\ EndOf(m, nr, i) \in Nat /\ m[i] < EndOf(m, nr, i)
    BY TilesRows
  <2>2. Len(m) \in Nat
    BY DEF Tiles
  <2> HIDE DEF n, col
  <2>3. ASSUME NEW i \in 1..Len(m) PROVE EndOf(m, nr, i) - m[i] \in Nat
    <3> DEFINE a == m[i]
               e == EndOf(m, nr, i)
    <3>1. a \in Nat /\ e \in Nat /\ a < e
      BY <2>1
    <3> HIDE DEF a, e
    <3>2. e - a \in Nat
      BY <3>1
    <3> QED BY <3>2 DEF a, e
  <2> QED BY <2>2, <2>3
<1>1. n \in Nat /\ 1..n \subseteq 1..Len(m) /\ \A i \in 1..n : lens[i] = EndOf(m, nr, i) - m[i]
  <2>1. CASE lens = <<>>
    BY <1>0, <2>1
  <2>2. CASE lens = [i \in 1..Len(m) |-> EndOf(m, nr, i) - m[i]]
    <3>1. n = Len(m)
      BY <1>0, <2>2
    <3> QED BY <1>0, <2>2, <3>1
  <2> QED BY <2>1, <2>2
<1>2. \A i \in 1..n : lens[i] \in Nat
  BY <1>0, <1>1
<1>3. \A i \in 1..n : /\ make_empty_chunk(lens[i]) \in Seq(Contents)
                      /\ Len(make_empty_chunk(lens[i])) = lens[i]
                      /\ \A k \in 0..(lens[i] - 1) : make_empty_chunk(lens[i])[k + 1] = Blank
  BY <1>2, EmptyChunk
<1>4. col.n = n /\ col.chunk = [i \in 1..n |-> make_empty_chunk(lens[i])]
      /\ col = [n |-> col.n, chunk |-> col.chunk]
  BY DEF EmptyColumn
<1> HIDE DEF col, n
<1>5. DOMAIN col.chunk = 1..n /\ \A i \in 1..n : col.chunk[i] = make_empty_chunk(lens[i])
  BY <1>4
<1>6. col.chunk \in Partials
  <2>1. DOMAIN col.chunk \subseteq Nat /\ col.chunk = [i \in DOMAIN col.chunk |-> col.chunk[i]]
    BY <1>1, <1>4, <1>5
  <2>2. \A i \in DOMAIN col.chunk : col.chunk[i] \in Seq(Contents)
    BY <1>3, <1>5
  <2> QED BY <2>1, <2>2, PartialIs
<1>7. col \in Columns
  BY <1>1, <1>4, <1>6 DEF Columns
<1>8. ColumnFits(col, m, nr)
  BY <1>1, <1>3, <1>4, <1>5, <1>7 DEF ColumnFits
<1>9. ASSUME NEW i \in 1..Len(m), NEW k \in 0..(EndOf(m, nr, i) - m[i] - 1) PROVE At(col, i, k) = Blank
  <2>1. CASE i \in 1..n
    <3>1. k \in 0..(lens[i] - 1)
      BY <1>1, <2>1
    <3> QED BY <1>3, <1>5, <2>1, <3>1 DEF At
  <2>2. CASE i \notin 1..n
    BY <1>5, <2>2 DEF At
  <2> QED BY <2>1, <2>2
<1> QED BY <1>8, <1>9 DEF BlankColumn, col

\* The columns of t are columns of s, or new ones where src is 0.
ColumnsFrom(s, t, src) ==
  /\ t = [nrows |-> s.nrows, starts |-> s.starts, cols |-> t.cols]
  /\ t.cols \in Seq(Columns)
  /\ t.cols = <<>> => s.nrows = 0
  /\ \A c \in 1..Len(t.cols) :
       \/ src[c] = 0 /\ BlankColumn(t.cols[c], s.starts, s.nrows)
       \/ src[c] \in 1..Len(s.cols) /\ t.cols[c] = s.cols[src[c]]

ShowsColumns(s, t, src) ==
  \A c \in 1..Len(t.cols), r \in Nat : r < s.nrows =>
    get_cell_value(t, r, c - 1) = IF src[c] = 0 THEN Blank ELSE get_cell_value(s, r, src[c] - 1)

\* Columns are moved with all their rows.
LEMMA ColumnsMoved ==
  ASSUME NEW s, Layout(s), NEW t, NEW src, ColumnsFrom(s, t, src)
  PROVE  Layout(t) /\ t.nrows = s.nrows /\ t.starts = s.starts /\ ShowsColumns(s, t, src)
<1> DEFINE m == s.starts
           nr == s.nrows
<1>1. t.nrows = nr /\ t.starts = m /\ Tiles(m, nr) /\ nr \in Nat /\ Len(s.cols) \in Nat
  BY DEF ColumnsFrom, Layout, Tiles, SheetRecords
<1>2. t \in SheetRecords
  BY DEF ColumnsFrom, Layout, SheetRecords
<1>3. ASSUME NEW c \in 1..Len(t.cols) PROVE ColumnFits(t.cols[c], m, nr)
  BY DEF ColumnsFrom, BlankColumn, Layout
<1>4. t.cols = <<>> => t.nrows = 0
  BY <1>1 DEF ColumnsFrom
<1>5. Layout(t)
  BY <1>1, <1>2, <1>3, <1>4 DEF Layout
<1>6. ASSUME NEW c \in 1..Len(t.cols), NEW r \in Nat, r < nr
      PROVE  get_cell_value(t, r, c - 1)
               = IF src[c] = 0 THEN Blank ELSE get_cell_value(s, r, src[c] - 1)
  <2>1. PICK i \in 1..Len(m) : m[i] <= r /\ r < EndOf(m, nr, i)
    BY <1>1, <1>6, TilesCover
  <2>2. get_cell_value(t, r, c - 1) = At(t.cols[c], i, r - m[i])
    <3>1. i \in 1..Len(t.starts) /\ t.starts[i] <= r /\ r < EndOf(t.starts, t.nrows, i)
      BY <1>1, <2>1
    <3>2. get_cell_value(t, r, c - 1) = At(t.cols[c], i, r - t.starts[i])
      BY <1>5, <3>1, CellIs
    <3> QED BY <1>1, <3>2
  <2>3. CASE src[c] = 0 /\ BlankColumn(t.cols[c], m, nr)
    <3> DEFINE a == m[i]
               e == EndOf(m, nr, i)
    <3>1. a \in Nat /\ e \in Nat /\ a <= r /\ r < e
      BY <1>1, <2>1, TilesRows
    <3>2. r - a \in 0..(e - a - 1)
      <4> HIDE DEF a, e
      <4> QED BY <3>1
    <3>3. At(t.cols[c], i, r - m[i]) = Blank
      BY <2>3, <3>2 DEF BlankColumn
    <3> QED BY <2>2, <2>3, <3>3
  <2>4. CASE src[c] \in 1..Len(s.cols) /\ t.cols[c] = s.cols[src[c]]
    <3>1. src[c] # 0
      BY <1>1, <2>4
    <3> DEFINE d == src[c]
    <3>2. d \in 1..Len(s.cols)
      BY <2>4
    <3> HIDE DEF d
    <3>3. get_cell_value(s, r, d - 1) = At(s.cols[d], i, r - m[i])
      BY <2>1, <3>2, CellIs
    <3> QED BY <2>2, <2>4, <3>1, <3>3 DEF d
  <2> QED BY <2>3, <2>4 DEF ColumnsFrom
<1> QED BY <1>1, <1>5, <1>6 DEF ShowsColumns

IsCutOf(sub, cols, from, to) ==
  /\ sub \in Seq(Columns)
  /\ Len(sub) = IF from < to THEN to - from ELSE 0
  /\ \A j \in 1..Len(sub) : sub[j] = cols[from + j]

\* SubSeq on columns.
LEMMA ColumnsCut ==
  ASSUME NEW cols, cols \in Seq(Columns), NEW from \in Nat, NEW to \in Nat, to <= Len(cols)
  PROVE  IsCutOf(SubSeq(cols, from + 1, to), cols, from, to)
<1> DEFINE a == from + 1
           sub == SubSeq(cols, a, to)
<1>1. a \in Int /\ to \in Int /\ (a <= to <=> from < to) /\ to - a + 1 = to - from
  OBVIOUS
<1>2. \A i \in a..to : cols[i] \in Columns
  OBVIOUS
<1>3. sub \in Seq(Columns) /\ Len(sub) = (IF a <= to THEN to - a + 1 ELSE 0)
      /\ \A i \in 1..(to - a + 1) : sub[i] = cols[a + i - 1]
  <2> HIDE DEF a
  <2> QED BY <1>1, <1>2, SubSeqProperties
<1>4. ASSUME NEW j \in 1..Len(sub) PROVE sub[j] = cols[from + j]
  <2>1. j \in 1..(to - a + 1)
    <3> HIDE DEF a, sub
    <3> QED BY <1>1, <1>3
  <2>2. a + j - 1 = from + j
    BY <2>1
  <2> HIDE DEF sub, a
  <2> QED BY <1>3, <2>1, <2>2
<1>5. Len(sub) = IF from < to THEN to - from ELSE 0
  <2> HIDE DEF sub, a
  <2> QED BY <1>1, <1>3
<1> HIDE DEF sub
<1>6. IsCutOf(sub, cols, from, to)
  BY <1>3, <1>4, <1>5 DEF IsCutOf
<1> QED BY <1>6 DEF sub

InsertedFrom(at, count) ==
  [c \in Nat |-> IF c <= at THEN c ELSE IF c <= at + count THEN 0 ELSE c - count]

\* insert_columns puts new columns between the old ones.
LEMMA InsertedColumns ==
  ASSUME NEW s, Layout(s), NEW before, NEW count \in Nat,
         NEW at \in Nat, at = Min({before, Len(s.cols)}), at <= Len(s.cols)
  PROVE  /\ ColumnsFrom(s, insert_columns(s, before, count), InsertedFrom(at, count))
         /\ Len(insert_columns(s, before, count).cols) = Len(s.cols) + count
<1> DEFINE cols == s.cols
           L == Len(cols)
           lens == IF cols = <<>> THEN IF s.nrows > 0 THEN <<s.nrows>> ELSE <<>>
                   ELSE IF DenseAligned(s)
                   THEN [i \in 1..cols[1].n |-> Len(cols[1].chunk[i])] ELSE <<>>
           A == SubSeq(cols, 1, at)
           E == EmptyColumn(lens)
           B == [i \in 1..count |-> E]
           C == SubSeq(cols, at + 1, L)
           cs == A \o B \o C
           t == insert_columns(s, before, count)
           src == InsertedFrom(at, count)
<1>0. s \in SheetRecords /\ cols \in Seq(Columns) /\ L \in Nat /\ Tiles(s.starts, s.nrows)
      /\ (cols = <<>> => s.nrows = 0) /\ s.nrows \in Nat
  BY DEF Layout, SheetRecords
<1>1. t = [nrows |-> s.nrows, starts |-> s.starts, cols |-> cs]
  <2>1. t = [s EXCEPT !.cols = cs]
    BY DEF insert_columns
  <2> HIDE DEF cs, t
  <2> QED BY <1>0, <2>1, SheetUpdates
<1>2. lens = <<>> \/ lens = [i \in 1..Len(s.starts) |-> EndOf(s.starts, s.nrows, i) - s.starts[i]]
  <2>1. CASE cols = <<>>
    BY <1>0, <2>1
  <2>2. CASE cols # <<>> /\ DenseAligned(s)
    <3>1. 1 \in 1..L
      BY <1>0, <2>2
    <3>2. cols[1].n = Len(s.starts)
      BY <2>2, <3>1 DEF DenseAligned
    <3>3. \A i \in 1..Len(s.starts) : Len(cols[1].chunk[i]) = MapLen(s, i)
      BY <2>2, <3>1, DenseFacts
    <3>4. \A i \in 1..Len(s.starts) : MapLen(s, i) = EndOf(s.starts, s.nrows, i) - s.starts[i]
      BY <1>0, MapLens
    <3>5. lens = [i \in 1..cols[1].n |-> Len(cols[1].chunk[i])]
      BY <2>2
    <3> HIDE DEF lens, cols
    <3> QED BY <3>2, <3>3, <3>4, <3>5
  <2>3. CASE cols # <<>> /\ ~DenseAligned(s)
    BY <2>3
  <2> QED BY <2>1, <2>2, <2>3
<1>3. BlankColumn(E, s.starts, s.nrows)
  <2> HIDE DEF lens
  <2> QED BY <1>0, <1>2, EmptyColumnFits
<1> HIDE DEF lens, E
<1>4. IsCutOf(A, cols, 0, at)
  <2>1. IsCutOf(SubSeq(cols, 0 + 1, at), cols, 0, at)
    <3> HIDE DEF cols
    <3> QED BY <1>0, ColumnsCut DEF cols
  <2>2. 0 + 1 = 1
    OBVIOUS
  <2> QED BY <2>1, <2>2
<1>5. IsCutOf(C, cols, at, L)
  <2>1. L <= Len(cols)
    BY <1>0
  <2> HIDE DEF cols
  <2> QED BY <1>0, <2>1, ColumnsCut
<1>6. A \in Seq(Columns) /\ Len(A) = at /\ \A j \in 1..at : A[j] = cols[j]
  <2> HIDE DEF A, cols
  <2>1. A \in Seq(Columns) /\ Len(A) = (IF 0 < at THEN at - 0 ELSE 0)
        /\ \A j \in 1..Len(A) : A[j] = cols[0 + j]
    BY <1>4 DEF IsCutOf
  <2>2. Len(A) = at
    BY <2>1
  <2>3. \A j \in 1..at : 0 + j = j
    OBVIOUS
  <2> QED BY <2>1, <2>2, <2>3
<1>7. C \in Seq(Columns) /\ Len(C) = L - at /\ \A j \in 1..(L - at) : C[j] = cols[at + j]
  <2>0. at <= L
    OBVIOUS
  <2> HIDE DEF C, cols, L
  <2>1. C \in Seq(Columns) /\ Len(C) = (IF at < L THEN L - at ELSE 0)
        /\ \A j \in 1..Len(C) : C[j] = cols[at + j]
    BY <1>5 DEF IsCutOf
  <2>2. Len(C) = L - at
    BY <1>0, <2>0, <2>1
  <2> QED BY <2>1, <2>2
<1>8. B \in Seq(Columns) /\ Len(B) = count /\ \A j \in 1..count : B[j] = E
  <2>1. E \in Columns
    BY <1>3 DEF BlankColumn, ColumnFits
  <2> QED BY <2>1
<1> HIDE DEF A, B, C
<1>9. A \o B \in Seq(Columns) /\ Len(A \o B) = at + count
      /\ \A j \in 1..(at + count) : (A \o B)[j] = IF j <= at THEN cols[j] ELSE E
  <2>1. A \o B \in Seq(Columns) /\ Len(A \o B) = Len(A) + Len(B)
        /\ \A j \in 1..(Len(A) + Len(B)) : (A \o B)[j] = IF j <= Len(A) THEN A[j] ELSE B[j - Len(A)]
    BY ONLY <1>6, <1>8, ConcatProperties
  <2>2. ASSUME NEW j \in 1..(at + count) PROVE (A \o B)[j] = IF j <= at THEN cols[j] ELSE E
    <3>1. CASE j <= at
      <4>1. j \in 1..at
        BY <3>1
      <4> QED BY <1>6, <1>8, <2>1, <3>1, <4>1
    <3>2. CASE ~(j <= at)
      <4>1. j - at \in 1..count
        BY <3>2
      <4> QED BY <1>6, <1>8, <2>1, <3>2, <4>1
    <3> QED BY <3>1, <3>2
  <2> QED BY <1>6, <1>8, <2>1, <2>2
<1>10. cs \in Seq(Columns) /\ Len(cs) = L + count
       /\ \A c \in 1..(L + count) : cs[c] = IF c <= at THEN cols[c] ELSE IF c <= at + count THEN E
                                            ELSE cols[c - count]
  <2> DEFINE ab == A \o B
  <2>0. at <= L
    OBVIOUS
  <2> HIDE DEF ab, L, cols
  <2>1. ab \in Seq(Columns) /\ C \in Seq(Columns) /\ Len(ab) = at + count /\ Len(C) = L - at
    BY <1>7, <1>9 DEF ab
  <2>2. ab \o C \in Seq(Columns) /\ Len(ab \o C) = Len(ab) + Len(C)
        /\ \A j \in 1..(Len(ab) + Len(C)) : (ab \o C)[j] = IF j <= Len(ab) THEN ab[j] ELSE C[j - Len(ab)]
    BY ONLY <2>1, ConcatProperties
  <2>3. Len(ab) + Len(C) = L + count
    BY <1>0, <2>1
  <2>4. ASSUME NEW c \in 1..(L + count)
        PROVE  (ab \o C)[c] = IF c <= at THEN cols[c] ELSE IF c <= at + count THEN E
                              ELSE cols[c - count]
    <3>1. CASE c <= at + count
      <4>1. c \in 1..(at + count)
        BY <1>0, <3>1
      <4>2. (ab \o C)[c] = ab[c]
        BY <2>1, <2>2, <2>3, <3>1
      <4>3. ab[c] = IF c <= at THEN cols[c] ELSE E
        BY <1>9, <4>1 DEF ab
      <4>4. c <= at => c <= at + count
        BY <1>0
      <4> QED BY <3>1, <4>2, <4>3, <4>4
    <3>2. CASE ~(c <= at + count)
      <4>1. c - (at + count) \in 1..(L - at) /\ at + (c - (at + count)) = c - count /\ ~(c <= at)
        BY <1>0, <2>0, <3>2
      <4>2. (ab \o C)[c] = C[c - (at + count)]
        BY <2>1, <2>2, <2>3, <3>2
      <4>3. C[c - (at + count)] = cols[c - count]
        BY <1>7, <4>1
      <4> QED BY <3>2, <4>1, <4>2, <4>3
    <3> QED BY <3>1, <3>2
  <2> QED BY <2>2, <2>3, <2>4 DEF ab
<1> HIDE DEF cs
<1>11. t.cols = cs
  BY <1>1
<1>12. ASSUME NEW c \in 1..Len(cs)
       PROVE  \/ src[c] = 0 /\ BlankColumn(cs[c], s.starts, s.nrows)
              \/ src[c] \in 1..L /\ cs[c] = cols[src[c]]
  <2>0. at <= L
    OBVIOUS
  <2> HIDE DEF L, cols
  <2>1. c \in 1..(L + count) /\ c \in Nat
    BY <1>0, <1>10
  <2>2. src[c] = IF c <= at THEN c ELSE IF c <= at + count THEN 0 ELSE c - count
    BY <2>1 DEF InsertedFrom
  <2>3. CASE c <= at
    <3>1. c \in 1..L
      BY <1>0, <2>0, <2>1, <2>3
    <3> QED BY <1>10, <2>1, <2>2, <2>3, <3>1
  <2>4. CASE ~(c <= at) /\ c <= at + count
    BY <1>3, <1>10, <2>1, <2>2, <2>4
  <2>5. CASE ~(c <= at) /\ ~(c <= at + count)
    <3>1. c - count \in 1..L
      BY <1>0, <2>0, <2>1, <2>5
    <3> QED BY <1>10, <2>1, <2>2, <2>5, <3>1
  <2> QED BY <2>3, <2>4, <2>5
<1>13. cs = <<>> => s.nrows = 0
  <2> SUFFICES ASSUME cs = <<>> PROVE s.nrows = 0
    OBVIOUS
  <2>1. L = 0
    <3>1. Len(cs) = 0
      OBVIOUS
    <3> HIDE DEF L
    <3> QED BY <1>0, <1>10, <3>1
  <2> QED BY <1>0, <2>1
<1> HIDE DEF t, src
<1>14. ColumnsFrom(s, t, src)
  BY <1>1, <1>10, <1>11, <1>12, <1>13 DEF ColumnsFrom
<1> QED BY <1>10, <1>11, <1>14 DEF t, src

DeletedFrom(start, count) == [c \in Nat |-> IF c <= start THEN c ELSE c + count]

\* delete_columns closes the gap.
LEMMA DeletedColumns ==
  ASSUME NEW s, Layout(s), NEW start \in Nat, NEW count \in Nat, start < Len(s.cols),
         0 < start \/ start + count < Len(s.cols)
  PROVE  /\ ColumnsFrom(s, delete_columns(s, start, count), DeletedFrom(start, count))
         /\ Len(delete_columns(s, start, count).cols)
              = IF start + count < Len(s.cols) THEN Len(s.cols) - count ELSE start
<1> DEFINE cols == s.cols
           L == Len(cols)
           b == start + count
           A == SubSeq(cols, 1, start)
           C == SubSeq(cols, b + 1, L)
           cs == A \o C
           t == delete_columns(s, start, count)
           src == DeletedFrom(start, count)
           tail == IF b < L THEN L - b ELSE 0
<1>0. s \in SheetRecords /\ cols \in Seq(Columns) /\ L \in Nat /\ b \in Nat
  BY DEF Layout, SheetRecords
<1>0a. start < L /\ (0 < start \/ b < L)
  OBVIOUS
<1>1. t = [nrows |-> s.nrows, starts |-> s.starts, cols |-> cs]
  <2>1. t = [s EXCEPT !.cols = cs]
    BY DEF delete_columns
  <2> HIDE DEF cs, t
  <2> QED BY <1>0, <2>1, SheetUpdates
<1>2. b = start + count
  OBVIOUS
<1> HIDE DEF b
<1>4. IsCutOf(A, cols, 0, start)
  <2>1. IsCutOf(SubSeq(cols, 0 + 1, start), cols, 0, start)
    <3>1. start <= Len(cols)
      BY <1>0, <1>0a
    <3> HIDE DEF cols
    <3> QED BY <1>0, <3>1, ColumnsCut
  <2>2. 0 + 1 = 1
    OBVIOUS
  <2> QED BY <2>1, <2>2
<1>5. IsCutOf(C, cols, b, L)
  <2>1. L <= Len(cols)
    BY <1>0
  <2> HIDE DEF cols
  <2> QED BY <1>0, <2>1, ColumnsCut
<1>6. A \in Seq(Columns) /\ Len(A) = start /\ \A j \in 1..start : A[j] = cols[j]
  <2> HIDE DEF A, cols
  <2>1. A \in Seq(Columns) /\ Len(A) = (IF 0 < start THEN start - 0 ELSE 0)
        /\ \A j \in 1..Len(A) : A[j] = cols[0 + j]
    BY <1>4 DEF IsCutOf
  <2>2. Len(A) = start
    BY <2>1
  <2>3. \A j \in 1..start : 0 + j = j
    OBVIOUS
  <2> QED BY <2>1, <2>2, <2>3
<1>7. C \in Seq(Columns) /\ Len(C) = tail /\ \A j \in 1..tail : C[j] = cols[b + j]
  <2> HIDE DEF C, cols, L
  <2> QED BY <1>5 DEF IsCutOf
<1>8. tail \in Nat
  <2> HIDE DEF L
  <2> QED BY <1>0
<1> HIDE DEF A, C, L, cols
<1>10. cs \in Seq(Columns) /\ Len(cs) = start + tail
       /\ \A c \in 1..(start + tail) : cs[c] = IF c <= start THEN cols[c] ELSE cols[c + count]
  <2> HIDE DEF tail
  <2>2. cs \in Seq(Columns) /\ Len(cs) = Len(A) + Len(C)
        /\ \A j \in 1..(Len(A) + Len(C)) : cs[j] = IF j <= Len(A) THEN A[j] ELSE C[j - Len(A)]
    BY ONLY <1>6, <1>7, ConcatProperties
  <2> HIDE DEF cs
  <2>4. ASSUME NEW c \in 1..(start + tail)
        PROVE  cs[c] = IF c <= start THEN cols[c] ELSE cols[c + count]
    <3>1. CASE c <= start
      <4>1. c \in 1..start
        BY <3>1
      <4> QED BY <1>6, <1>7, <2>2, <3>1, <4>1
    <3>2. CASE ~(c <= start)
      <4>1. c - start \in 1..tail /\ b + (c - start) = c + count
        BY <1>2, <1>8, <3>2
      <4>2. cs[c] = C[c - start]
        BY <1>6, <1>7, <2>2, <3>2
      <4> QED BY <1>7, <3>2, <4>1, <4>2
    <3> QED BY <3>1, <3>2
  <2> QED BY <1>6, <1>7, <2>2, <2>4
<1> HIDE DEF cs
<1>11. t.cols = cs
  BY <1>1
<1>12. ASSUME NEW c \in 1..Len(cs)
       PROVE  src[c] \in 1..L /\ cs[c] = cols[src[c]]
  <2>1. c \in 1..(start + tail) /\ c \in Nat
    <3> HIDE DEF tail
    <3> QED BY <1>8, <1>10
  <2>2. src[c] = IF c <= start THEN c ELSE c + count
    BY <2>1 DEF DeletedFrom
  <2>3. CASE c <= start
    <3>1. c \in 1..L
      BY <1>0, <1>0a, <2>1, <2>3
    <3> QED BY <1>10, <2>1, <2>2, <2>3, <3>1
  <2>5. CASE ~(c <= start)
    <3>1. c + count \in 1..L
      BY <1>0, <1>0a, <1>2, <2>1, <2>5
    <3> QED BY <1>10, <2>1, <2>2, <2>5, <3>1
  <2> QED BY <2>3, <2>5
<1>13. Len(cs) = (IF b < L THEN L - count ELSE start) /\ Len(cs) > 0
  BY <1>0, <1>0a, <1>2, <1>10
<1>15. cs # <<>>
  BY <1>13
<1> HIDE DEF t, src
<1>14. ColumnsFrom(s, t, src)
  <2>1. \A c \in 1..Len(cs) : src[c] \in 1..Len(s.cols) /\ cs[c] = s.cols[src[c]]
    BY <1>12 DEF L, cols
  <2> QED BY <1>1, <1>10, <1>11, <1>15, <2>1 DEF ColumnsFrom
<1> QED BY <1>2, <1>11, <1>13, <1>14 DEF t, src, L, cols

-----------------------------------------------------------------------------
(* Growth *)

\* The multiples of the chunk length.
LEMMA Multiples ==
  ASSUME NEW C \in Nat \ {0}
  PROVE  \A k \in Nat : k * C \in Nat /\ (k + 1) * C = k * C + C
OBVIOUS

\* The quotient, as the greatest multiple.
LEMMA Division ==
  ASSUME NEW d \in Nat, NEW C \in Nat \ {0}
  PROVE  d \div C \in Nat /\ (d \div C) * C <= d /\ d < (d \div C) * C + C
OBVIOUS

\* The map g of nr2 rows begins like the map m of nr rows.
ExtendsMap(m, nr, g, nr2) ==
  /\ Tiles(g, nr2) /\ Len(m) <= Len(g)
  /\ \A i \in 1..Len(m) : g[i] = m[i] /\ EndOf(m, nr, i) <= EndOf(g, nr2, i)

\* A map whose last chunk starts before `target`, with `more` chunks of
\* ChunkRows rows appended, as ensure_row_capacity does it.
OpenMap(m, target) ==
  /\ m \in Seq(Nat) /\ Len(m) > 0 /\ m[1] = 0 /\ m[Len(m)] < target
  /\ \A i \in 1..(Len(m) - 1) : m[i] < m[i + 1] /\ m[i + 1] <= m[i] + ChunkRows
Appended(m, target, more, g) ==
  /\ more = (target - 1 - m[Len(m)]) \div ChunkRows
  /\ g = m \o [k \in 1..more |-> m[Len(m)] + k * ChunkRows]
GrownMap(m, target, more, g) ==
  /\ Tiles(g, target) /\ Len(m) <= Len(g) /\ \A i \in 1..Len(m) : g[i] = m[i]
  /\ \A i \in 1..(Len(m) - 1) : EndOf(g, target, i) = m[i + 1]
  /\ EndOf(g, target, Len(m)) = IF more > 0 THEN m[Len(m)] + ChunkRows ELSE target

\* The map continued by full chunks, to the last row.
LEMMA GrownTiles ==
  ASSUME NEW m, NEW target \in Nat, OpenMap(m, target), NEW more, NEW g, Appended(m, target, more, g)
  PROVE  GrownMap(m, target, more, g)
<1>a. /\ m \in Seq(Nat) /\ Len(m) > 0 /\ m[1] = 0 /\ m[Len(m)] < target
      /\ \A i \in 1..(Len(m) - 1) : m[i] < m[i + 1] /\ m[i + 1] <= m[i] + ChunkRows
  BY DEF OpenMap
<1>b. /\ more = (target - 1 - m[Len(m)]) \div ChunkRows
      /\ g = m \o [k \in 1..more |-> m[Len(m)] + k * ChunkRows]
  BY DEF Appended
<1> DEFINE n == Len(m)
           last == m[n]
           C == ChunkRows
           d == target - 1 - last
           P == [k \in Nat |-> k * C]
           x == [k \in 1..more |-> last + P[k]]
<1>0. C \in Nat \ {0} /\ n \in Nat /\ n > 0 /\ last \in Nat
  BY <1>a, SheetAssumption
<1>1. d \in Nat
  <2>1. last < target
    BY <1>a
  <2> HIDE DEF last
  <2> QED BY <1>0, <2>1
<1>3. P \in [Nat -> Nat] /\ P[0] = 0 /\ P[1] = C
  <2> HIDE DEF C
  <2>1. \A k \in Nat : k * C \in Nat
    BY <1>0, Multiples
  <2>2. 0 * C = 0 /\ 1 * C = C
    BY <1>0
  <2>3. P \in [Nat -> Nat]
    BY <2>1
  <2> QED BY <2>2, <2>3
<1>3a. \A k \in Nat : P[k + 1] = P[k] + C
  <2> HIDE DEF C
  <2> SUFFICES ASSUME NEW k \in Nat PROVE P[k + 1] = P[k] + C
    OBVIOUS
  <2>1. (k + 1) * C = k * C + C
    BY <1>0, Multiples
  <2>2. k + 1 \in Nat
    OBVIOUS
  <2>3. P[k + 1] = (k + 1) * C /\ P[k] = k * C
    BY <2>2
  <2> HIDE DEF P
  <2> QED BY <2>1, <2>3
<1>2. more \in Nat /\ P[more] <= d /\ d < P[more] + C
  <2>1. more = d \div C
    BY <1>b
  <2> HIDE DEF d, C
  <2>2. more \in Nat /\ more * C <= d /\ d < more * C + C
    BY <1>0, <1>1, <2>1, Division
  <2> QED BY <2>2
<1>4. d + 1 + last = target
  <2> HIDE DEF last
  <2> QED BY <1>0
<1>4a. [k \in 1..more |-> m[Len(m)] + k * ChunkRows] = x
  BY <1>2
<1>4b. g = m \o x
  BY <1>4a, <1>b
<1> HIDE DEF C, last, d, n, P
<1>5. x \in Seq(Nat) /\ Len(x) = more /\ \A k \in 1..more : x[k] = last + P[k]
  <2>1. \A k \in 1..more : last + P[k] \in Nat
    <3> SUFFICES ASSUME NEW k \in 1..more PROVE last + P[k] \in Nat
      OBVIOUS
    <3>1. k \in Nat
      BY <1>2
    <3>2. P[k] \in Nat
      BY <1>3, <3>1
    <3> QED BY <1>0, <3>2
  <2>2. x \in [1..more -> Nat]
    BY <2>1
  <2>3. \A k \in 1..more : x[k] = last + P[k]
    OBVIOUS
  <2> HIDE DEF x
  <2> QED BY <1>2, <2>2, <2>3
<1>6. g = m \o x
  BY <1>4b
<1> HIDE DEF x
<1>7. g \in Seq(Nat) /\ Len(g) = n + more
      /\ \A j \in 1..(n + more) : g[j] = IF j <= n THEN m[j] ELSE x[j - n]
  <2>1. m \in Seq(Nat) /\ x \in Seq(Nat)
    BY <1>5, <1>a
  <2>2. m \o x \in Seq(Nat) /\ Len(m \o x) = Len(m) + Len(x)
        /\ \A j \in 1..(Len(m) + Len(x)) : (m \o x)[j] = IF j <= Len(m) THEN m[j] ELSE x[j - Len(m)]
    BY ONLY <2>1, ConcatProperties
  <2> QED BY <1>5, <1>6, <2>2 DEF n
<1>8. \A j \in 1..n : g[j] = m[j]
  BY <1>0, <1>2, <1>7
<1>9. \A k \in 1..more : n + k \in 1..(n + more) /\ g[n + k] = last + P[k]
  <2> SUFFICES ASSUME NEW k \in 1..more PROVE n + k \in 1..(n + more) /\ g[n + k] = last + P[k]
    OBVIOUS
  <2>1. n + k \in 1..(n + more) /\ ~(n + k <= n) /\ (n + k) - n = k
    BY <1>0, <1>2
  <2>2. g[n + k] = x[(n + k) - n]
    BY <1>7, <2>1
  <2> QED BY <1>5, <2>1, <2>2
<1>10. m[n] = last
  BY DEF last
<1>11. \A i \in 1..(n - 1) : EndOf(g, target, i) = m[i + 1]
  <2> SUFFICES ASSUME NEW i \in 1..(n - 1) PROVE EndOf(g, target, i) = m[i + 1]
    OBVIOUS
  <2>1. i < n + more /\ i + 1 \in 1..n
    BY <1>0, <1>2
  <2> QED BY <1>7, <1>8, <2>1 DEF EndOf
<1>12. EndOf(g, target, n) = IF more > 0 THEN last + C ELSE target
  <2>1. CASE more > 0
    <3>1. 1 \in 1..more /\ n < n + more /\ P[1] = C
      BY <1>0, <1>2, <1>3, <2>1
    <3> QED BY <1>7, <1>9, <2>1, <3>1 DEF EndOf
  <2>2. CASE ~(more > 0)
    <3>1. ~(n < n + more)
      BY <1>0, <1>2, <2>2
    <3> QED BY <1>7, <2>2, <3>1 DEF EndOf
  <2> QED BY <2>1, <2>2
<1>13. \A k \in 1..more : EndOf(g, target, n + k) = IF k < more THEN last + P[k + 1] ELSE target
  <2> SUFFICES ASSUME NEW k \in 1..more
               PROVE  EndOf(g, target, n + k) = IF k < more THEN last + P[k + 1] ELSE target
    OBVIOUS
  <2>1. CASE k < more
    <3>1. k + 1 \in 1..more /\ n + k < n + more /\ (n + k) + 1 = n + (k + 1)
      BY <1>0, <1>2, <2>1
    <3>2. g[n + (k + 1)] = last + P[k + 1]
      BY <1>9, <3>1
    <3> QED BY <1>7, <2>1, <3>1, <3>2 DEF EndOf
  <2>2. CASE ~(k < more)
    <3>1. ~(n + k < n + more)
      BY <1>0, <1>2, <2>2
    <3> QED BY <1>7, <2>2, <3>1 DEF EndOf
  <2> QED BY <2>1, <2>2
<1>14. ASSUME NEW i \in 1..(n + more)
       PROVE  g[i] < EndOf(g, target, i) /\ EndOf(g, target, i) <= g[i] + C
  <2>1. CASE i < n
    <3>1. i \in 1..(n - 1) /\ i \in 1..n
      BY <1>0, <1>2, <2>1
    <3>2. m[i] < m[i + 1] /\ m[i + 1] <= m[i] + C
      BY <1>a, <3>1 DEF n, C
    <3> QED BY <1>8, <1>11, <3>1, <3>2
  <2>2. CASE i = n
    <3>1. g[n] = last
      BY <1>0, <1>8, <1>10
    <3>2. CASE more > 0
      BY <1>0, <1>12, <2>2, <3>1, <3>2
    <3>3. CASE ~(more > 0)
      <4>1. more = 0 /\ P[0] = 0
        BY <1>0, <1>2, <1>3, <3>3
      <4>2. d < C
        BY <1>0, <1>1, <1>2, <4>1
      <4>3. last < target /\ target <= last + C
        BY <1>0, <1>1, <1>4, <4>2
      <4> QED BY <1>12, <2>2, <3>1, <3>3, <4>3
    <3> QED BY <3>2, <3>3
  <2>3. CASE i > n
    <3> DEFINE k == i - n
    <3>1. k \in 1..more /\ i = n + k
      BY <1>0, <1>2, <2>3
    <3> HIDE DEF k
    <3>2. g[i] = last + P[k] /\ P[k] \in Nat /\ P[k + 1] = P[k] + C
      <4>1. k \in Nat
        BY <1>2, <3>1
      <4>2. P[k] \in Nat
        BY <1>3, <4>1
      <4>3. P[k + 1] = P[k] + C
        BY <1>3a, <4>1
      <4> QED BY <1>9, <3>1, <4>2, <4>3
    <3>3. EndOf(g, target, i) = IF k < more THEN last + P[k + 1] ELSE target
      BY <1>13, <3>1
    <3>4. CASE k < more
      BY <1>0, <3>2, <3>3, <3>4
    <3>5. CASE ~(k < more)
      <4>1. k = more
        BY <1>2, <3>1, <3>5
      <4> DEFINE w == P[k]
      <4>2. w \in Nat /\ w <= d /\ d < w + C
        BY <1>2, <3>2, <4>1
      <4> HIDE DEF w
      <4>3. last + w < target /\ target <= last + w + C
        BY <1>0, <1>1, <1>4, <4>2
      <4>4. g[i] = last + w
        BY <3>2 DEF w
      <4> QED BY <3>3, <3>5, <4>3, <4>4
    <3> QED BY <3>4, <3>5
  <2> QED BY <1>0, <1>2, <2>1, <2>2, <2>3
<1>15. g # <<>> /\ g[1] = 0 /\ target # 0
  <2>1. Len(g) > 0 /\ 1 \in 1..n
    BY <1>0, <1>2, <1>7
  <2>2. target # 0
    BY <1>0, <1>1, <1>4
  <2> QED BY <1>a, <1>8, <2>1, <2>2
<1>16. Tiles(g, target)
  BY <1>7, <1>14, <1>15 DEF Tiles, C
<1>17. n <= Len(g)
  BY <1>0, <1>2, <1>7
<1> QED BY <1>8, <1>11, <1>12, <1>16, <1>17 DEF GrownMap, n, last, C

\* The map ensure_row_capacity makes.
MoreChunks(s, target) ==
  Max({0, (target - 1 - Last(WithMap(s).starts)) \div ChunkRows})
MapFor(s, target) ==
  WithMap(s).starts
    \o [k \in 1..MoreChunks(s, target) |-> Last(WithMap(s).starts) + k * ChunkRows]

\* ensure_row_capacity keeps the chunks of the map; only the last may get longer.
LEMMA MapGrows ==
  ASSUME NEW s, Layout(s), NEW target \in Nat, s.nrows < target
  PROVE  ExtendsMap(s.starts, s.nrows, MapFor(s, target), target)
<1> DEFINE m == WithMap(s).starts
           n == Len(m)
           nr == s.nrows
           q == (target - 1 - m[Len(m)]) \div ChunkRows
           g == m \o [k \in 1..q |-> m[Len(m)] + k * ChunkRows]
<1>0. s \in SheetRecords /\ Tiles(s.starts, nr) /\ nr \in Nat /\ s.starts \in Seq(Nat) /\ nr < target
      /\ ChunkRows \in Nat \ {0}
  BY SheetAssumption DEF Layout, Tiles
<1>3. m \in Seq(Nat) /\ n \in Nat /\ n > 0 /\ m[1] = 0
  <2>1. CASE s.starts = <<>>
    <3>1. m = <<0>>
      BY <1>0, <2>1, SheetUpdates DEF WithMap
    <3> QED BY <3>1
  <2>2. CASE s.starts # <<>>
    <3>1. m = s.starts
      BY <2>2 DEF WithMap
    <3> QED BY <1>0, <2>2, <3>1 DEF Tiles
  <2> QED BY <2>1, <2>2
<1>4. m[n] < target /\ \A i \in 1..(n - 1) : m[i] < m[i + 1] /\ m[i + 1] <= m[i] + ChunkRows
  <2>1. CASE s.starts = <<>>
    <3>1. m = <<0>>
      BY <1>0, <2>1, SheetUpdates DEF WithMap
    <3>2. n = 1 /\ m[1] = 0 /\ 0 < target
      BY <1>0, <3>1
    <3> HIDE DEF m, n
    <3> QED BY <3>2
  <2>2. CASE s.starts # <<>>
    <3>1. m = s.starts
      BY <2>2 DEF WithMap
    <3>2. Tiles(m, nr)
      BY <1>0, <3>1
    <3>3. n \in 1..n /\ EndOf(m, nr, n) = nr
      BY <1>3 DEF EndOf
    <3>4. m[n] \in Nat /\ m[n] < nr
      BY <3>2, <3>3, TilesRows
    <3>5. m[n] < target
      <4> DEFINE a == m[n]
      <4> HIDE DEF a
      <4>1. a \in Nat /\ a < nr
        BY <3>4 DEF a
      <4>2. a < target
        BY <1>0, <4>1
      <4> QED BY <4>2 DEF a
    <3>6. ASSUME NEW i \in 1..(n - 1) PROVE m[i] < m[i + 1] /\ m[i + 1] <= m[i] + ChunkRows
      <4>1. i \in 1..n /\ i < n
        <5> HIDE DEF n
        <5> QED BY <1>3
      <4>2. EndOf(m, nr, i) = m[i + 1]
        BY <4>1 DEF EndOf
      <4> QED BY <3>2, <4>1, <4>2 DEF Tiles
    <3> QED BY <3>5, <3>6
  <2> QED BY <2>1, <2>2
<1>5. Last(m) = m[Len(m)]
  BY DEF Last
<1>6. MapFor(s, target) = g /\ q \in Nat
  <2> DEFINE d == target - 1 - m[Len(m)]
  <2>1. d \in Nat
    <3> DEFINE a == m[n]
    <3>1. a \in Nat /\ a < target
      BY <1>3, <1>4
    <3> HIDE DEF a
    <3>2. target - 1 - a \in Nat
      BY <3>1
    <3> QED BY <3>2 DEF a
  <2>2. q = d \div ChunkRows
    OBVIOUS
  <2> HIDE DEF d, q
  <2>3. q \in Nat
    BY <1>0, <2>1, <2>2, Division
  <2>4. Max({0, q}) = q
    <3>1. q \in Int /\ 0 \in Int /\ 0 <= q
      BY <2>3
    <3> QED BY <3>1, OfTwo
  <2>5. MoreChunks(s, target) = Max({0, q})
    BY <1>5 DEF MoreChunks, q
  <2>6. MoreChunks(s, target) = q
    BY <2>4, <2>5
  <2> HIDE DEF m
  <2>7. MapFor(s, target) = m \o [k \in 1..MoreChunks(s, target) |-> Last(m) + k * ChunkRows]
    BY DEF MapFor, m
  <2> QED BY <1>5, <2>3, <2>6, <2>7
<1> DEFINE more == q
<1>7. /\ Tiles(g, target) /\ n <= Len(g) /\ \A i \in 1..n : g[i] = m[i]
      /\ \A i \in 1..(n - 1) : EndOf(g, target, i) = m[i + 1]
      /\ EndOf(g, target, n) = IF more > 0 THEN m[n] + ChunkRows ELSE target
  <2>1. Appended(m, target, more, g)
    BY DEF Appended
  <2> HIDE DEF m, more, g, q
  <2>2. OpenMap(m, target)
    BY <1>3, <1>4 DEF OpenMap
  <2>3. GrownMap(m, target, more, g)
    BY <2>1, <2>2, GrownTiles
  <2> QED BY <2>3 DEF GrownMap
<1> HIDE DEF g, more, q
<1>8. CASE s.starts = <<>>
  <2>1. Len(s.starts) = 0 /\ Len(g) \in Nat
    BY <1>7, <1>8 DEF Tiles
  <2>2. ExtendsMap(s.starts, nr, g, target)
    <3> HIDE DEF nr
    <3> QED BY <1>7, <2>1 DEF ExtendsMap
  <2> QED BY <1>6, <2>2
<1>9. CASE s.starts # <<>>
  <2>1. m = s.starts
    BY <1>9 DEF WithMap
  <2>2. Tiles(m, nr)
    BY <1>0, <2>1
  <2> HIDE DEF m
  <2>3. ASSUME NEW i \in 1..n PROVE EndOf(m, nr, i) <= EndOf(g, target, i)
    <3> DEFINE e == EndOf(m, nr, i)
    <3>0. m[i] \in Nat /\ e \in Nat
      BY <2>2, TilesRows
    <3>1. CASE i < n
      <4>1. e = m[i + 1] /\ i \in 1..(n - 1)
        <5>1. i \in 1..(n - 1)
          <6> HIDE DEF n
          <6> QED BY <1>3, <3>1
        <5> QED BY <3>1, <5>1 DEF EndOf
      <4>2. EndOf(g, target, i) = e
        BY <1>7, <4>1
      <4> HIDE DEF e
      <4> QED BY <3>0, <4>2 DEF e
    <3>2. CASE ~(i < n)
      <4>1. i = n
        <5> HIDE DEF n
        <5> QED BY <1>3, <3>2
      <4>2. e = nr /\ e <= m[n] + ChunkRows /\ m[n] \in Nat
        BY <2>2, <3>0, <4>1 DEF EndOf, Tiles
      <4>3. EndOf(g, target, i) = IF more > 0 THEN m[n] + ChunkRows ELSE target
        BY <1>7, <4>1
      <4> HIDE DEF e, nr
      <4> DEFINE a == m[n]
      <4>4. e = nr /\ e <= a + ChunkRows /\ a \in Nat
            /\ EndOf(g, target, i) = IF more > 0 THEN a + ChunkRows ELSE target
        BY <4>2, <4>3
      <4> HIDE DEF a
      <4>5. e <= EndOf(g, target, i)
        BY <1>0, <4>4
      <4> QED BY <4>5 DEF e, nr
    <3> QED BY <3>1, <3>2
  <2>4. ExtendsMap(m, nr, g, target)
    BY <1>7, <2>3 DEF ExtendsMap
  <2> QED BY <1>6, <2>1, <2>4
<1> QED BY <1>8, <1>9

IsGrown(ch, new, len) ==
  /\ new \in Seq(Contents) /\ Len(new) = len
  /\ \A k \in 1..len : new[k] = IF k <= Len(ch) THEN ch[k] ELSE Blank

\* grow_len_to appends empty rows.
LEMMA GrowChunk ==
  ASSUME NEW ch, ch \in Seq(Contents), NEW len \in Nat, Len(ch) <= len
  PROVE  IsGrown(ch, grow_len_to(ch, len), len)
<1> DEFINE l == Len(ch)
           x == make_empty_chunk(len - l)
           new == grow_len_to(ch, len)
<1>0. l \in Nat /\ l <= len
  OBVIOUS
<1>1. CASE len <= l
  <2>1. new = ch /\ len = l
    BY <1>0, <1>1 DEF grow_len_to
  <2>2. \A k \in 1..len : k <= Len(ch)
    BY <1>0, <2>1
  <2> HIDE DEF new
  <2>3. IsGrown(ch, new, len)
    BY <2>1, <2>2 DEF IsGrown
  <2> QED BY <2>3 DEF new
<1>2. CASE ~(len <= l)
  <2>1. new = ch \o x
    BY <1>2 DEF grow_len_to
  <2>2. len - l \in Nat
    BY <1>0
  <2> DEFINE d == len - l
  <2>3. x \in Seq(Contents) /\ Len(x) = d /\ \A k \in 0..(d - 1) : x[k + 1] = Blank
    <3>1. d \in Nat
      BY <2>2
    <3> HIDE DEF d
    <3>2. make_empty_chunk(d) \in Seq(Contents) /\ Len(make_empty_chunk(d)) = d
          /\ \A k \in 0..(d - 1) : make_empty_chunk(d)[k + 1] = Blank
      BY <3>1, EmptyChunk
    <3> QED BY <3>2 DEF d
  <2>4. ch \o x \in Seq(Contents) /\ Len(ch \o x) = Len(ch) + Len(x)
        /\ \A k \in 1..(Len(ch) + Len(x)) : (ch \o x)[k] = IF k <= Len(ch) THEN ch[k] ELSE x[k - Len(ch)]
    BY ONLY ch \in Seq(Contents), <2>3, ConcatProperties
  <2> HIDE DEF x, new
  <2>5. Len(ch) + Len(x) = len
    BY <1>0, <2>3
  <2>6. ASSUME NEW k \in 1..len PROVE new[k] = IF k <= Len(ch) THEN ch[k] ELSE Blank
    <3>1. new[k] = IF k <= Len(ch) THEN ch[k] ELSE x[k - Len(ch)]
      BY <2>1, <2>4, <2>5
    <3>2. ASSUME ~(k <= Len(ch)) PROVE x[k - Len(ch)] = Blank
      <4>1. (k - Len(ch)) - 1 \in 0..(d - 1) /\ ((k - Len(ch)) - 1) + 1 = k - Len(ch)
        BY <1>0, <3>2
      <4> HIDE DEF d
      <4> QED BY <2>3, <4>1
    <3> QED BY <3>1, <3>2
  <2>7. IsGrown(ch, new, len)
    BY <2>1, <2>4, <2>5, <2>6 DEF IsGrown
  <2> QED BY <2>7 DEF new
<1> QED BY <1>1, <1>2

\* What ensure_row_capacity makes of a column.
GrownColumn(col, new, g, nr) ==
  /\ new \in Columns /\ new.n = col.n /\ DOMAIN new.chunk = DOMAIN col.chunk
  /\ \A i \in DOMAIN col.chunk : IsGrown(col.chunk[i], new.chunk[i], EndOf(g, nr, i) - g[i])

\* A column fits the longer map once its chunks are grown.
LEMMA ColumnGrows ==
  ASSUME NEW m, NEW nr, NEW col, ColumnFits(col, m, nr), Tiles(m, nr),
         NEW g, NEW target, ExtendsMap(m, nr, g, target),
         NEW grown, grown.starts = g, grown.nrows = target,
         NEW f, f = [i \in DOMAIN col.chunk |->
                       IF i <= Len(g) THEN grow_len_to(col.chunk[i], MapLen(grown, i))
                       ELSE col.chunk[i]]
  PROVE  GrownColumn(col, [col EXCEPT !.chunk = f], g, target)
<1> DEFINE new == [col EXCEPT !.chunk = f]
<1>0. col \in Columns /\ DOMAIN col.chunk \subseteq 1..Len(m) /\ col.chunk \in Partials /\ col.n \in Nat
      /\ Len(m) \in Nat /\ Len(g) \in Nat /\ Len(m) <= Len(g)
  BY DEF ColumnFits, Columns, ExtendsMap, Tiles
<1>1. ASSUME NEW i \in DOMAIN col.chunk
      PROVE  IsGrown(col.chunk[i], f[i], EndOf(g, target, i) - g[i])
  <2> DEFINE ch == col.chunk[i]
             a == m[i]
             e == EndOf(m, nr, i)
             e2 == EndOf(g, target, i)
             len == e2 - a
  <2>1. i \in 1..Len(m) /\ i \in 1..Len(g) /\ i <= Len(g)
    BY <1>0
  <2>2. a \in Nat /\ e \in Nat /\ a < e
    BY <2>1, TilesRows
  <2>3. g[i] = a /\ e <= e2 /\ e2 \in Nat
    <3>1. g[i] = a /\ e <= e2
      BY <2>1 DEF ExtendsMap
    <3>2. e2 \in Nat
      BY <2>1, TilesRows DEF ExtendsMap
    <3> QED BY <3>1, <3>2
  <2>4. ch \in Seq(Contents) /\ Len(ch) = e - a
    BY <1>0, PartialIs DEF ColumnFits
  <2>5. MapLen(grown, i) = e2 - g[i]
    BY DEF MapLen, EndOf
  <2>6. f[i] = grow_len_to(ch, len)
    <3>1. f[i] = grow_len_to(ch, MapLen(grown, i))
      BY <2>1
    <3> HIDE DEF a, e2
    <3> QED BY <2>3, <2>5, <3>1
  <2>7. len \in Nat /\ Len(ch) <= len
    <3> HIDE DEF a, e, e2, ch
    <3> QED BY <2>2, <2>3, <2>4
  <2> HIDE DEF len, ch
  <2>8. IsGrown(ch, grow_len_to(ch, len), len)
    BY <2>4, <2>7, GrowChunk
  <2> QED BY <2>3, <2>6, <2>8 DEF ch, len
<1>2. f = [i \in DOMAIN col.chunk |-> f[i]] /\ DOMAIN f = DOMAIN col.chunk
  OBVIOUS
<1>3. new = [n |-> col.n, chunk |-> f]
  BY <1>0 DEF Columns
<1>4. f \in Partials
  <2>1. DOMAIN f \subseteq Nat /\ f = [i \in DOMAIN f |-> f[i]]
    BY <1>0, <1>2
  <2>2. \A i \in DOMAIN f : f[i] \in Seq(Contents)
    BY <1>1, <1>2 DEF IsGrown
  <2> QED BY <2>1, <2>2, PartialIs
<1> HIDE DEF new
<1>5. new \in Columns /\ new.n = col.n /\ new.chunk = f
  BY <1>0, <1>3, <1>4 DEF Columns
<1>6. GrownColumn(col, new, g, target)
  BY <1>1, <1>2, <1>5 DEF GrownColumn
<1> QED BY <1>6 DEF new

\* t shows what s shows and has empty rows up to `target`.
IsTaller(s, t, target) ==
  /\ Layout(t) /\ t.nrows = target /\ Len(t.cols) = Len(s.cols)
  /\ \A c \in 1..Len(s.cols), r \in Nat : r < target =>
       get_cell_value(t, r, c - 1) = IF r < s.nrows THEN get_cell_value(s, r, c - 1) ELSE Blank

\* ensure_row_capacity shows the old rows, and empty ones behind them.
LEMMA Capacity ==
  ASSUME NEW s, Layout(s), s.cols # <<>>, NEW target \in Nat, s.nrows < target
  PROVE  IsTaller(s, ensure_row_capacity(s, target), target)
<1> DEFINE t == ensure_row_capacity(s, target)
           g == MapFor(s, target)
           m == s.starts
           nr == s.nrows
           L == Len(s.cols)
           grown == [nrows |-> target, cols |-> s.cols, starts |-> g]
           f(c) == [i \in DOMAIN s.cols[c].chunk |->
                      IF i <= Len(g) THEN grow_len_to(s.cols[c].chunk[i], MapLen(grown, i))
                      ELSE s.cols[c].chunk[i]]
           new(c) == [s.cols[c] EXCEPT !.chunk = f(c)]
           cs == [c \in 1..L |-> new(c)]
<1>0. s \in SheetRecords /\ nr \in Nat /\ L \in Nat /\ L > 0 /\ Tiles(m, nr) /\ nr < target
  BY DEF Layout, SheetRecords
<1>1. t = [nrows |-> target, starts |-> g, cols |-> cs]
  <2>1. t = [grown EXCEPT !.cols = cs]
    <3>1. ~(target <= s.nrows)
      BY <1>0
    <3> QED BY <3>1 DEF ensure_row_capacity, MapFor, MoreChunks
  <2> HIDE DEF cs, t, g
  <2> QED BY <2>1
<1>2. ExtendsMap(m, nr, g, target)
  BY MapGrows
<1> HIDE DEF g
<1>3. ASSUME NEW c \in 1..L PROVE GrownColumn(s.cols[c], new(c), g, target)
  <2> DEFINE col == s.cols[c]
             ff == f(c)
  <2>1. ColumnFits(col, m, nr)
    BY DEF Layout
  <2>2. grown.starts = g /\ grown.nrows = target
    OBVIOUS
  <2>3. ff = [i \in DOMAIN col.chunk |->
                IF i <= Len(g) THEN grow_len_to(col.chunk[i], MapLen(grown, i)) ELSE col.chunk[i]]
    OBVIOUS
  <2> HIDE DEF grown, ff, col
  <2>4. GrownColumn(col, [col EXCEPT !.chunk = ff], g, target)
    BY <1>0, <1>2, <2>1, <2>2, <2>3, ColumnGrows
  <2> QED BY <2>4 DEF ff, col
<1>4. \A c \in 1..L : cs[c] = new(c)
  OBVIOUS
<1> HIDE DEF new, grown
<1>5. cs \in Seq(Columns) /\ Len(cs) = L
  <2>1. \A c \in 1..L : new(c) \in Columns
    BY <1>3 DEF GrownColumn
  <2>2. cs \in [1..L -> Columns]
    BY <2>1
  <2> HIDE DEF cs, L
  <2> QED BY <1>0, <2>2
<1> HIDE DEF cs
<1>6. \A c \in 1..L : GrownColumn(s.cols[c], cs[c], g, target)
  BY <1>3, <1>4
<1> HIDE DEF t
<1>7. Tiles(g, target) /\ Len(m) <= Len(g) /\ g \in Seq(Nat) /\ Len(m) \in Nat /\ Len(g) \in Nat
  BY <1>0, <1>2 DEF ExtendsMap, Tiles
<1>8. Layout(t)
  <2>1. t \in SheetRecords
    BY <1>1, <1>5, <1>7 DEF SheetRecords
  <2>2. ASSUME NEW c \in 1..L PROVE ColumnFits(cs[c], g, target)
    <3>1. ColumnFits(s.cols[c], m, nr)
      BY DEF Layout
    <3>2. /\ cs[c] \in Columns /\ cs[c].n = s.cols[c].n /\ DOMAIN cs[c].chunk = DOMAIN s.cols[c].chunk
          /\ \A i \in DOMAIN s.cols[c].chunk : Len(cs[c].chunk[i]) = EndOf(g, target, i) - g[i]
      BY <1>6 DEF GrownColumn, IsGrown
    <3>3. 1..Len(m) \subseteq 1..Len(g)
      BY <1>7
    <3>4. DOMAIN s.cols[c].chunk \subseteq 1..Len(g) /\ 1..s.cols[c].n \subseteq DOMAIN s.cols[c].chunk
      BY <3>1, <3>3 DEF ColumnFits
    <3> QED BY <3>2, <3>4 DEF ColumnFits
  <2>3. t.cols # <<>>
    BY <1>0, <1>1, <1>5
  <2>4. Len(t.cols) = L /\ t.starts = g /\ t.nrows = target /\ t.cols = cs
    BY <1>1, <1>5
  <2> QED BY <1>7, <2>1, <2>2, <2>3, <2>4 DEF Layout
<1>9. t.nrows = target /\ t.starts = g /\ t.cols = cs /\ Len(t.cols) = L
  BY <1>1, <1>5
<1>10. ASSUME NEW c \in 1..L, NEW r \in Nat, r < target, NEW i \in 1..Len(g),
              g[i] <= r, r < EndOf(g, target, i)
       PROVE  get_cell_value(t, r, c - 1) = At(cs[c], i, r - g[i])
  <2>1. c \in 1..Len(t.cols) /\ i \in 1..Len(t.starts) /\ t.starts[i] <= r /\ r < EndOf(t.starts, t.nrows, i)
    BY <1>9, <1>10
  <2>2. get_cell_value(t, r, c - 1) = At(t.cols[c], i, r - t.starts[i])
    BY <1>8, <2>1, CellIs
  <2> QED BY <1>9, <2>2
<1>11. ASSUME NEW c \in 1..L, NEW r \in Nat, NEW i \in DOMAIN s.cols[c].chunk,
              g[i] <= r, r < EndOf(g, target, i)
       PROVE  /\ i \in 1..Len(m) /\ g[i] = m[i] /\ m[i] \in Nat /\ EndOf(m, nr, i) \in Nat
              /\ At(cs[c], i, r - g[i]) =
                   IF r < EndOf(m, nr, i) THEN At(s.cols[c], i, r - m[i]) ELSE Blank
  <2> DEFINE col == s.cols[c]
             ch == col.chunk[i]
             nch == cs[c].chunk[i]
             a == m[i]
             e == EndOf(m, nr, i)
             e2 == EndOf(g, target, i)
             k == r - a
  <2>1. ColumnFits(col, m, nr)
    BY DEF Layout
  <2>2. i \in 1..Len(m) /\ Len(ch) = e - a
    BY <2>1 DEF ColumnFits
  <2>3. g[i] = a
    BY <1>2, <2>2 DEF ExtendsMap
  <2>4. a \in Nat /\ e \in Nat
    BY <1>0, <2>2, TilesRows
  <2>5. IsGrown(ch, nch, e2 - g[i]) /\ DOMAIN cs[c].chunk = DOMAIN col.chunk
    BY <1>6 DEF GrownColumn
  <2>6. e2 \in Nat
    <3>1. i \in 1..Len(g)
      BY <1>7, <2>2
    <3> QED BY <1>7, <3>1, TilesRows
  <2>7. At(cs[c], i, k) = nch[k + 1] /\ At(col, i, k) = ch[k + 1]
    BY <2>5 DEF At
  <2>8. a <= r /\ r < e2
    BY <1>11, <2>3
  <2> HIDE DEF ch, nch, a, e, e2
  <2>9. k + 1 \in 1..(e2 - a) /\ (k + 1 <= e - a <=> r < e)
    BY <2>4, <2>6, <2>8
  <2>10. nch[k + 1] = IF k + 1 <= Len(ch) THEN ch[k + 1] ELSE Blank
    <3> HIDE DEF k
    <3> QED BY <2>3, <2>5, <2>9 DEF IsGrown
  <2>11. At(cs[c], i, k) = IF r < e THEN At(col, i, k) ELSE Blank
    <3>0. Len(ch) = e - a
      BY <2>2 DEF ch, e, a
    <3>1. k + 1 <= Len(ch) <=> r < e
      BY <2>9, <3>0
    <3> HIDE DEF k
    <3> QED BY <2>7, <2>10, <3>1
  <2> QED BY <2>2, <2>3, <2>4, <2>11 DEF a, e
<1>12. ASSUME NEW c \in 1..L, NEW r \in Nat, r < target
       PROVE  get_cell_value(t, r, c - 1) = IF r < nr THEN get_cell_value(s, r, c - 1) ELSE Blank
  <2>1. CASE r < nr
    <3>1. PICK i \in 1..Len(m) : m[i] <= r /\ r < EndOf(m, nr, i)
      BY <1>0, <2>1, TilesCover
    <3>2. get_cell_value(s, r, c - 1) = At(s.cols[c], i, r - m[i])
      BY <3>1, CellIs
    <3>3. g[i] = m[i] /\ EndOf(m, nr, i) <= EndOf(g, target, i) /\ i \in 1..Len(g)
      BY <1>2, <1>7 DEF ExtendsMap
    <3>4. g[i] <= r /\ r < EndOf(g, target, i)
      <4> DEFINE e == EndOf(m, nr, i)
                 e2 == EndOf(g, target, i)
      <4>1. e \in Nat /\ e2 \in Nat /\ r < e /\ e <= e2
        BY <1>0, <1>7, <3>1, <3>3, TilesRows
      <4> HIDE DEF e, e2
      <4>2. r < e2
        BY <4>1
      <4> QED BY <3>1, <3>3, <4>2 DEF e2
    <3>5. get_cell_value(t, r, c - 1) = At(cs[c], i, r - g[i])
      BY <1>10, <1>12, <3>3, <3>4
    <3>6. CASE i \in DOMAIN s.cols[c].chunk
      <4>1. At(cs[c], i, r - g[i]) = At(s.cols[c], i, r - m[i])
        BY <1>11, <3>1, <3>4, <3>6
      <4> QED BY <2>1, <3>2, <3>5, <4>1
    <3>7. CASE i \notin DOMAIN s.cols[c].chunk
      <4>1. i \notin DOMAIN cs[c].chunk
        BY <1>6, <3>7 DEF GrownColumn
      <4> QED BY <2>1, <3>2, <3>5, <3>7, <4>1 DEF At
    <3> QED BY <3>6, <3>7
  <2>2. CASE ~(r < nr)
    <3>1. PICK i \in 1..Len(g) : g[i] <= r /\ r < EndOf(g, target, i)
      BY <1>7, <1>12, TilesCover
    <3>5. get_cell_value(t, r, c - 1) = At(cs[c], i, r - g[i])
      BY <1>10, <1>12, <3>1
    <3>6. CASE i \in DOMAIN s.cols[c].chunk
      <4>1. /\ i \in 1..Len(m)
            /\ At(cs[c], i, r - g[i]) =
                 IF r < EndOf(m, nr, i) THEN At(s.cols[c], i, r - m[i]) ELSE Blank
        BY <1>11, <3>1, <3>6
      <4>2. EndOf(m, nr, i) \in Nat /\ EndOf(m, nr, i) <= nr
        BY <1>0, <4>1, TilesRows
      <4>3. ~(r < EndOf(m, nr, i))
        BY <1>0, <2>2, <4>2
      <4> QED BY <2>2, <3>5, <4>1, <4>3
    <3>7. CASE i \notin DOMAIN s.cols[c].chunk
      <4>1. i \notin DOMAIN cs[c].chunk
        BY <1>6, <3>7 DEF GrownColumn
      <4> QED BY <2>2, <3>5, <4>1 DEF At
    <3> QED BY <3>6, <3>7
  <2> QED BY <2>1, <2>2
<1>13. IsTaller(s, t, target)
  BY <1>8, <1>9, <1>12 DEF IsTaller
<1> QED BY <1>13 DEF t

-----------------------------------------------------------------------------
(* Writes *)

\* A nested EXCEPT, one level at a time.
LEMMA NestedWrite ==
  ASSUME NEW s, NEW k, NEW i, NEW j, NEW v
  PROVE  [s EXCEPT !.cols[k].chunk[i][j] = v]
           = [s EXCEPT !.cols = [s.cols EXCEPT ![k] =
                [s.cols[k] EXCEPT !.chunk = [s.cols[k].chunk EXCEPT ![i] =
                   [s.cols[k].chunk[i] EXCEPT ![j] = v]]]]]
OBVIOUS

\* The same for a chunk that is added.
LEMMA NestedChunk ==
  ASSUME NEW s, NEW k, NEW i, NEW x
  PROVE  [s EXCEPT !.cols[k].chunk = [j \in DOMAIN @ \cup {i} |-> IF j = i THEN x ELSE @[j]]]
           = [s EXCEPT !.cols = [s.cols EXCEPT ![k] =
                [s.cols[k] EXCEPT !.chunk =
                   [j \in DOMAIN s.cols[k].chunk \cup {i} |->
                      IF j = i THEN x ELSE s.cols[k].chunk[j]]]]]
OBVIOUS

\* t is s with `new` for its column k.
ColumnPut(s, t, k, new) ==
  /\ Layout(t) /\ t.nrows = s.nrows /\ t.starts = s.starts /\ Len(t.cols) = Len(s.cols)
  /\ \A c \in 1..Len(s.cols) : t.cols[c] = IF c = k THEN new ELSE s.cols[c]
  /\ \A c \in 1..Len(s.cols), r \in Nat : r < s.nrows => BothAt(s, t, c, r)

\* One column is replaced by another that fits.
LEMMA ColumnSet ==
  ASSUME NEW s, Layout(s), NEW k \in 1..Len(s.cols), NEW new, ColumnFits(new, s.starts, s.nrows)
  PROVE  ColumnPut(s, [s EXCEPT !.cols = [s.cols EXCEPT ![k] = new]], k, new)
<1> DEFINE cs == [s.cols EXCEPT ![k] = new]
           t == [s EXCEPT !.cols = cs]
           m == s.starts
           nr == s.nrows
           L == Len(s.cols)
<1>0. s \in SheetRecords /\ s.cols \in Seq(Columns) /\ L \in Nat /\ Tiles(m, nr) /\ new \in Columns
  BY DEF Layout, SheetRecords, ColumnFits
<1>1. cs \in Seq(Columns) /\ Len(cs) = L /\ \A c \in 1..L : cs[c] = IF c = k THEN new ELSE s.cols[c]
  BY <1>0
<1> HIDE DEF cs
<1>2. t = [nrows |-> nr, starts |-> m, cols |-> cs]
  BY <1>0, SheetUpdates
<1>3. t \in SheetRecords /\ t.nrows = nr /\ t.starts = m /\ t.cols = cs
  BY <1>0, <1>1, <1>2 DEF SheetRecords
<1> HIDE DEF t
<1>4. \A c \in 1..L : ColumnFits(cs[c], m, nr)
  BY <1>1 DEF Layout
<1>5. t.cols # <<>>
  BY <1>0, <1>1, <1>3
<1>6. Layout(t)
  BY <1>0, <1>1, <1>3, <1>4, <1>5 DEF Layout
<1>7. ASSUME NEW c \in 1..L, NEW r \in Nat, r < nr PROVE BothAt(s, t, c, r)
  <2>1. PICK i \in 1..Len(m) : m[i] <= r /\ r < EndOf(m, nr, i)
    BY <1>0, <1>7, TilesCover
  <2>2. get_cell_value(s, r, c - 1) = At(s.cols[c], i, r - m[i])
    BY <2>1, CellIs
  <2>3. c \in 1..Len(t.cols) /\ i \in 1..Len(t.starts) /\ t.starts[i] <= r /\ r < EndOf(t.starts, t.nrows, i)
    BY <1>1, <1>3, <2>1
  <2>4. get_cell_value(t, r, c - 1) = At(t.cols[c], i, r - t.starts[i])
    BY <1>6, <2>3, CellIs
  <2>5. get_cell_value(t, r, c - 1) = At(t.cols[c], i, r - m[i])
    BY <1>3, <2>4
  <2> QED BY <2>1, <2>2, <2>5 DEF BothAt
<1>8. ColumnPut(s, t, k, new)
  BY <1>1, <1>3, <1>6, <1>7 DEF ColumnPut
<1> QED BY <1>8 DEF t, cs

\* t shows what s shows.
ShowsSame(s, t) == \A r, c \in Nat : get_cell_value(t, r, c) = get_cell_value(s, r, c)

\* A cell outside the sheet shows nothing.
LEMMA OutOfSheet ==
  ASSUME NEW s, NEW r, NEW c, r >= s.nrows \/ c >= Len(s.cols)
  PROVE  get_cell_value(s, r, c) = Blank
BY DEF get_cell_value

\* It is enough to look at the cells inside the sheet.
LEMMA SameInside ==
  ASSUME NEW s, NEW t, Layout(s), Layout(t), t.nrows = s.nrows, Len(t.cols) = Len(s.cols),
         \A c \in 1..Len(s.cols), r \in Nat : r < s.nrows =>
           get_cell_value(t, r, c - 1) = get_cell_value(s, r, c - 1)
  PROVE  ShowsSame(s, t)
<1>0. s.nrows \in Nat /\ Len(s.cols) \in Nat
  BY DEF Layout, SheetRecords
<1> SUFFICES ASSUME NEW r \in Nat, NEW c \in Nat PROVE get_cell_value(t, r, c) = get_cell_value(s, r, c)
  BY DEF ShowsSame
<1>1. CASE r >= s.nrows \/ c >= Len(s.cols)
  <2>1. r >= t.nrows \/ c >= Len(t.cols)
    BY <1>1
  <2> QED BY <1>1, <2>1, OutOfSheet
<1>2. CASE ~(r >= s.nrows \/ c >= Len(s.cols))
  <2> DEFINE d == c + 1
  <2>1. d \in 1..Len(s.cols) /\ d - 1 = c /\ r < s.nrows
    BY <1>0, <1>2
  <2> HIDE DEF d
  <2>2. get_cell_value(t, r, d - 1) = get_cell_value(s, r, d - 1)
    BY <2>1
  <2> QED BY <2>1, <2>2
<1> QED BY <1>1, <1>2

\* The chunk of a column is made before it is written to.
LEMMA ChunkMade ==
  ASSUME NEW s, Layout(s), NEW col \in Nat, col < Len(s.cols), NEW i \in 1..Len(s.starts),
         NEW t, t = ensure_column_chunk(s, col, i)
  PROVE  /\ Layout(t) /\ t.nrows = s.nrows /\ t.starts = s.starts /\ Len(t.cols) = Len(s.cols)
         /\ i \in DOMAIN t.cols[col + 1].chunk /\ ShowsSame(s, t)
<1> DEFINE k == col + 1
           old == s.cols[k]
           m == s.starts
           nr == s.nrows
<1>0. k \in 1..Len(s.cols) /\ Tiles(m, nr) /\ ColumnFits(old, m, nr)
  BY DEF Layout, SheetRecords
<1>1. CASE i \in DOMAIN old.chunk
  <2>1. t = s
    BY <1>1 DEF ensure_column_chunk
  <2> QED BY <1>1, <2>1 DEF ShowsSame
<1>2. CASE i \notin DOMAIN old.chunk
  <2> DEFINE x == make_empty_chunk(MapLen(s, i))
             f == [j \in DOMAIN old.chunk \cup {i} |-> IF j = i THEN x ELSE old.chunk[j]]
             new == [old EXCEPT !.chunk = f]
  <2>1. t = [s EXCEPT !.cols = [s.cols EXCEPT ![k] = new]]
    BY <1>2, NestedChunk DEF ensure_column_chunk
  <2>2. /\ MapLen(s, i) \in Nat /\ MapLen(s, i) = EndOf(m, nr, i) - m[i]
        /\ m[i] \in Nat /\ EndOf(m, nr, i) \in Nat
    BY <1>0, MapLens
  <2>3. x \in Seq(Contents) /\ Len(x) = MapLen(s, i) /\ \A j \in 0..(MapLen(s, i) - 1) : x[j + 1] = Blank
    BY <2>2, EmptyChunk
  <2> HIDE DEF x
  <2>4. old \in Columns /\ old.n \in Nat /\ old.chunk \in Partials /\ DOMAIN old.chunk \subseteq 1..Len(m)
        /\ Len(m) \in Nat
    BY <1>0 DEF ColumnFits, Columns, Tiles
  <2>5. DOMAIN f = DOMAIN old.chunk \cup {i} /\ f[i] = x /\ \A j \in DOMAIN old.chunk : f[j] = old.chunk[j]
    BY <1>2
  <2>6. f = [j \in DOMAIN f |-> f[j]]
    OBVIOUS
  <2>7. new = [n |-> old.n, chunk |-> f]
    BY <2>4 DEF Columns
  <2> HIDE DEF f, old
  <2>8. f \in Partials
    <3>1. DOMAIN f \subseteq Nat
      BY <2>4, <2>5
    <3>2. \A j \in DOMAIN f : f[j] \in Seq(Contents)
      BY <2>3, <2>4, <2>5, PartialIs
    <3> QED BY <2>6, <3>1, <3>2, PartialIs
  <2> HIDE DEF new
  <2>9. new \in Columns /\ new.n = old.n /\ new.chunk = f
    BY <2>4, <2>7, <2>8 DEF Columns
  <2>10. ColumnFits(new, m, nr)
    <3>1. DOMAIN f \subseteq 1..Len(m) /\ 1..old.n \subseteq DOMAIN f
      BY <1>0, <2>4, <2>5 DEF ColumnFits
    <3>2. \A j \in DOMAIN f : Len(f[j]) = EndOf(m, nr, j) - m[j]
      BY <1>0, <2>2, <2>3, <2>5 DEF ColumnFits
    <3> QED BY <2>9, <3>1, <3>2 DEF ColumnFits
  <2> HIDE DEF k
  <2>11. ColumnPut(s, t, k, new)
    BY <1>0, <2>1, <2>10, ColumnSet
  <2>12. /\ Layout(t) /\ t.nrows = s.nrows /\ t.starts = s.starts /\ Len(t.cols) = Len(s.cols)
         /\ \A c \in 1..Len(s.cols) : t.cols[c] = IF c = k THEN new ELSE s.cols[c]
    BY <2>11 DEF ColumnPut
  <2>13. i \in DOMAIN t.cols[k].chunk
    BY <1>0, <2>5, <2>9, <2>12
  <2>14. ASSUME NEW c \in 1..Len(s.cols), NEW r \in Nat, r < s.nrows
         PROVE  get_cell_value(t, r, c - 1) = get_cell_value(s, r, c - 1)
    <3>0. BothAt(s, t, c, r)
      BY <2>11, <2>14 DEF ColumnPut
    <3>1. PICK ii \in 1..Len(m) :
            /\ m[ii] <= r /\ r < EndOf(m, nr, ii)
            /\ get_cell_value(s, r, c - 1) = At(s.cols[c], ii, r - m[ii])
            /\ get_cell_value(t, r, c - 1) = At(t.cols[c], ii, r - m[ii])
      BY <3>0 DEF BothAt
    <3>2. CASE c # k
      BY <2>12, <3>1, <3>2
    <3>3. CASE c = k /\ ii # i
      <4>1. t.cols[c] = new /\ s.cols[c] = old
        BY <2>12, <3>3 DEF old
      <4>2. ii \in DOMAIN f <=> ii \in DOMAIN old.chunk
        BY <2>5, <3>3
      <4> QED BY <2>5, <2>9, <3>1, <4>1, <4>2 DEF At
    <3>4. CASE c = k /\ ii = i
      <4>1. t.cols[c] = new /\ s.cols[c] = old
        BY <2>12, <3>4 DEF old
      <4>2. At(old, ii, r - m[ii]) = Blank
        BY <1>2, <3>4 DEF At, old
      <4>3. At(new, ii, r - m[ii]) = x[(r - m[i]) + 1]
        BY <2>5, <2>9, <3>4 DEF At
      <4> DEFINE a == m[i]
                 e == EndOf(m, nr, i)
                 len == MapLen(s, i)
      <4>4. a \in Nat /\ e \in Nat /\ len = e - a /\ a <= r /\ r < e
        BY <2>2, <3>1, <3>4
      <4>5. r - a \in 0..(len - 1)
        <5> HIDE DEF a, e, len
        <5> QED BY <4>4
      <4>6. x[(r - m[i]) + 1] = Blank
        BY <2>3, <4>5
      <4> QED BY <3>1, <4>1, <4>2, <4>3, <4>6
    <3> QED BY <3>2, <3>3, <3>4
  <2>15. ShowsSame(s, t)
    BY <2>12, <2>14, SameInside
  <2> QED BY <2>12, <2>13, <2>15 DEF k
<1> QED BY <1>1, <1>2

\* t is s with v in one cell.
CellPut(s, t, line, col, v) ==
  /\ Layout(t)
  /\ \A r, c \in Nat : get_cell_value(t, r, c) = IF r = line /\ c = col THEN v ELSE get_cell_value(s, r, c)

PutAt(s, col, p, v) == [s EXCEPT !.cols[col + 1].chunk[p.chunk][p.off + 1] = v]

\* A write to a chunk that is there changes one cell.
LEMMA CellSet ==
  ASSUME NEW s, Layout(s), NEW line \in Nat, line < s.nrows, NEW col \in Nat, col < Len(s.cols),
         NEW p, p = chunk_of_row(s, line), p.chunk \in DOMAIN s.cols[col + 1].chunk, NEW v \in Contents,
         NEW t, t = PutAt(s, col, p, v)
  PROVE  CellPut(s, t, line, col, v) /\ t.nrows = s.nrows /\ Len(t.cols) = Len(s.cols)
<1> DEFINE k == col + 1
           old == s.cols[k]
           m == s.starts
           nr == s.nrows
<1>0. k \in 1..Len(s.cols) /\ Tiles(m, nr) /\ ColumnFits(old, m, nr) /\ nr \in Nat /\ Len(s.cols) \in Nat
  BY DEF Layout, SheetRecords
<1>1. PICK i \in 1..Len(m) : m[i] <= line /\ line < EndOf(m, nr, i)
  BY <1>0, TilesCover
<1>2. p.chunk = i /\ p.off = line - m[i]
  BY <1>0, <1>1, ChunkOfRow
<1> DEFINE o == line - m[i]
           ch == old.chunk[i]
           nch == [ch EXCEPT ![o + 1] = v]
           f == [old.chunk EXCEPT ![i] = nch]
           new == [old EXCEPT !.chunk = f]
<1>3. t = [s EXCEPT !.cols = [s.cols EXCEPT ![k] = new]]
  BY <1>2, NestedWrite DEF PutAt
<1>4. old \in Columns /\ old.n \in Nat /\ old.chunk \in Partials /\ i \in DOMAIN old.chunk
      /\ Len(m) \in Nat
  BY <1>0, <1>2 DEF ColumnFits, Columns, Tiles
<1>5. ch \in Seq(Contents) /\ Len(ch) = EndOf(m, nr, i) - m[i]
  BY <1>0, <1>4, PartialIs DEF ColumnFits
<1>6. m[i] \in Nat /\ EndOf(m, nr, i) \in Nat
  BY <1>0, TilesRows
<1>7. o + 1 \in 1..Len(ch) /\ o \in Nat
  <2> DEFINE a == m[i]
             e == EndOf(m, nr, i)
  <2>1. a \in Nat /\ e \in Nat /\ a <= line /\ line < e /\ Len(ch) = e - a
    BY <1>1, <1>5, <1>6
  <2> HIDE DEF a, e, ch
  <2>2. (line - a) + 1 \in 1..Len(ch) /\ line - a \in Nat
    BY <2>1
  <2> QED BY <2>2 DEF a
<1> HIDE DEF o, ch
<1>8. nch \in Seq(Contents) /\ Len(nch) = Len(ch)
      /\ \A j \in 1..Len(ch) : nch[j] = IF j = o + 1 THEN v ELSE ch[j]
  BY <1>5, <1>7
<1> HIDE DEF nch
<1>9. old.chunk = [j \in DOMAIN old.chunk |-> old.chunk[j]]
      /\ DOMAIN old.chunk \subseteq Nat /\ \A j \in DOMAIN old.chunk : old.chunk[j] \in Seq(Contents)
  BY <1>4, PartialIs
<1> HIDE DEF old
<1>10. f = [j \in DOMAIN old.chunk |-> IF j = i THEN nch ELSE old.chunk[j]]
  BY <1>4, <1>9
<1> HIDE DEF f
<1>11. DOMAIN f = DOMAIN old.chunk /\ \A j \in DOMAIN f : f[j] = IF j = i THEN nch ELSE old.chunk[j]
  BY <1>10
<1>12. \A j \in DOMAIN old.chunk : f[j] \in Seq(Contents) /\ Len(f[j]) = Len(old.chunk[j])
  BY <1>8, <1>9, <1>11 DEF ch
<1>13. f = [j \in DOMAIN old.chunk |-> f[j]]
  BY <1>10
<1>14. SameShape(old, new) /\ new.chunk = f
  BY <1>4, <1>12, <1>13, NewChunks
<1> HIDE DEF new
<1>15. ColumnFits(new, m, nr)
  BY <1>0, <1>14 DEF ColumnFits, SameShape
<1>16. ColumnPut(s, t, k, new)
  <2> HIDE DEF k
  <2> QED BY <1>0, <1>3, <1>15, ColumnSet
<1>17. /\ Layout(t) /\ t.nrows = s.nrows /\ t.starts = s.starts /\ Len(t.cols) = Len(s.cols)
       /\ \A c \in 1..Len(s.cols) : t.cols[c] = IF c = k THEN new ELSE s.cols[c]
  BY <1>16 DEF ColumnPut
<1>18. ASSUME NEW c \in 1..Len(s.cols), NEW r \in Nat, r < nr
       PROVE  get_cell_value(t, r, c - 1) = IF r = line /\ c = k THEN v ELSE get_cell_value(s, r, c - 1)
  <2>0. BothAt(s, t, c, r)
    BY <1>16, <1>18 DEF ColumnPut
  <2>1. PICK ii \in 1..Len(m) :
          /\ m[ii] <= r /\ r < EndOf(m, nr, ii)
          /\ get_cell_value(s, r, c - 1) = At(s.cols[c], ii, r - m[ii])
          /\ get_cell_value(t, r, c - 1) = At(t.cols[c], ii, r - m[ii])
    BY <2>0 DEF BothAt
  <2>2. CASE c # k
    BY <1>17, <2>1, <2>2
  <2>3. CASE c = k /\ ii # i
    <3>1. t.cols[c] = new /\ s.cols[c] = old
      BY <1>17, <2>3 DEF old
    <3>2. At(new, ii, r - m[ii]) = At(old, ii, r - m[ii])
      BY <1>11, <1>14, <2>3 DEF At
    <3>3. r # line
      <4> SUFFICES ASSUME r = line PROVE FALSE
        OBVIOUS
      <4>1. chunk_of_row(s, line) = [chunk |-> ii, off |-> line - m[ii]]
        BY <1>0, <2>1, ChunkOfRow
      <4>2. chunk_of_row(s, line) = [chunk |-> i, off |-> line - m[i]]
        BY <1>0, <1>1, ChunkOfRow
      <4> DEFINE x == line - m[ii]
                 y == line - m[i]
      <4> HIDE DEF x, y
      <4>3. [chunk |-> ii, off |-> x] = [chunk |-> i, off |-> y]
        BY <4>1, <4>2 DEF x, y
      <4>4. ii = i
        BY <4>3
      <4> QED BY <2>3, <4>4
    <3> QED BY <2>1, <3>1, <3>2, <3>3
  <2>4. CASE c = k /\ ii = i
    <3>1. t.cols[c] = new /\ s.cols[c] = old
      BY <1>17, <2>4 DEF old
    <3> DEFINE a == m[i]
               e == EndOf(m, nr, i)
               x == r - a
    <3>2. a \in Nat /\ e \in Nat /\ a <= r /\ r < e /\ Len(ch) = e - a
      BY <1>5, <1>6, <2>1, <2>4
    <3>3. At(new, ii, x) = nch[x + 1] /\ At(old, ii, x) = ch[x + 1]
      BY <1>4, <1>11, <1>14, <2>4 DEF At, ch
    <3>4. o = line - a
      BY DEF o
    <3> HIDE DEF a, e
    <3>5. x + 1 \in 1..Len(ch) /\ (x + 1 = o + 1 <=> r = line)
      BY <3>2, <3>4
    <3> HIDE DEF x
    <3>6. nch[x + 1] = IF r = line THEN v ELSE ch[x + 1]
      BY <1>8, <3>5
    <3>7. get_cell_value(s, r, c - 1) = At(old, ii, x) /\ get_cell_value(t, r, c - 1) = At(new, ii, x)
      BY <2>1, <2>4, <3>1 DEF x, a
    <3> QED BY <2>4, <3>3, <3>6, <3>7
  <2> QED BY <2>2, <2>3, <2>4
<1>19. ASSUME NEW r \in Nat, NEW c \in Nat
       PROVE  get_cell_value(t, r, c) = IF r = line /\ c = col THEN v ELSE get_cell_value(s, r, c)
  <2>1. CASE r >= nr \/ c >= Len(s.cols)
    <3>1. r >= t.nrows \/ c >= Len(t.cols)
      BY <1>17, <2>1
    <3>2. ~(r = line /\ c = col)
      BY <1>0, <2>1
    <3>3. get_cell_value(t, r, c) = Blank /\ get_cell_value(s, r, c) = Blank
      BY <2>1, <3>1, OutOfSheet
    <3> QED BY <3>2, <3>3
  <2>2. CASE ~(r >= nr \/ c >= Len(s.cols))
    <3> DEFINE d == c + 1
    <3>1. d \in 1..Len(s.cols) /\ d - 1 = c /\ r < nr /\ (d = k <=> c = col)
      BY <1>0, <2>2
    <3> HIDE DEF d, k
    <3>2. get_cell_value(t, r, d - 1) = IF r = line /\ d = k THEN v ELSE get_cell_value(s, r, d - 1)
      BY <1>18, <3>1
    <3> QED BY <3>1, <3>2
  <2> QED BY <2>1, <2>2
<1> QED BY <1>17, <1>19 DEF CellPut

\* Columns added for a write show nothing.
LEMMA Wider ==
  ASSUME NEW s, Layout(s), NEW width \in Nat, Len(s.cols) < width,
         NEW t, t = insert_columns(s, Len(s.cols), width - Len(s.cols))
  PROVE  Layout(t) /\ t.nrows = s.nrows /\ Len(t.cols) = width /\ ShowsSame(s, t)
<1> DEFINE L == Len(s.cols)
           count == width - L
           src == InsertedFrom(L, count)
<1>0. L \in Nat /\ count \in Nat /\ L + count = width /\ s.nrows \in Nat
  BY DEF Layout, SheetRecords
<1>1. Min({L, Len(s.cols)}) = L
  <2> DEFINE S == {L, Len(s.cols)}
  <2>1. L \in S /\ S \subseteq Int /\ \A y \in S : L <= y
    BY <1>0
  <2> HIDE DEF S, L
  <2>2. Min(S) = L
    BY <2>1, MinIs
  <2> QED BY <2>2 DEF S
<1>2. ColumnsFrom(s, t, src) /\ Len(t.cols) = L + count
  <2>1. L <= Len(s.cols)
    BY <1>0
  <2> HIDE DEF L, count
  <2>2. t = insert_columns(s, L, count)
    BY DEF L, count
  <2>3. Len(s.cols) = L
    BY DEF L
  <2>4. ColumnsFrom(s, insert_columns(s, L, count), InsertedFrom(L, count))
        /\ Len(insert_columns(s, L, count).cols) = Len(s.cols) + count
    BY ONLY Layout(s), <1>0, <1>1, <2>1, InsertedColumns
  <2> QED BY <2>2, <2>3, <2>4
<1>3. Layout(t) /\ t.nrows = s.nrows /\ ShowsColumns(s, t, src)
  BY <1>2, ColumnsMoved
<1>4. ASSUME NEW r \in Nat, NEW c \in Nat PROVE get_cell_value(t, r, c) = get_cell_value(s, r, c)
  <2>1. CASE r >= s.nrows \/ c >= width
    <3>1. r >= t.nrows \/ c >= Len(t.cols)
      BY <1>0, <1>2, <1>3, <2>1
    <3>2. r >= s.nrows \/ c >= Len(s.cols)
      BY <1>0, <2>1
    <3> QED BY <3>1, <3>2, OutOfSheet
  <2>2. CASE ~(r >= s.nrows \/ c >= width)
    <3> DEFINE d == c + 1
    <3> HIDE DEF L, count
    <3>1. d \in 1..Len(t.cols) /\ d - 1 = c /\ r < s.nrows /\ d \in Nat /\ (d <= L \/ c >= L) /\ d <= L + count
      BY <1>0, <1>2, <2>2
    <3>2. src[d] = IF d <= L THEN d ELSE 0
      BY <3>1 DEF InsertedFrom
    <3> HIDE DEF d, src
    <3>3. get_cell_value(t, r, d - 1) = IF src[d] = 0 THEN Blank ELSE get_cell_value(s, r, src[d] - 1)
      BY <1>3, <3>1 DEF ShowsColumns
    <3>4. CASE d <= L
      <4>1. src[d] = d /\ d # 0
        BY <3>1, <3>2, <3>4 DEF d
      <4> QED BY <3>1, <3>3, <4>1
    <3>5. CASE ~(d <= L)
      <4>1. src[d] = 0 /\ c >= L
        BY <3>1, <3>2, <3>5
      <4>2. get_cell_value(s, r, c) = Blank
        BY <4>1, OutOfSheet DEF L
      <4> QED BY <3>1, <3>3, <4>1, <4>2
    <3> QED BY <3>4, <3>5
  <2> QED BY <2>1, <2>2
<1> QED BY <1>0, <1>2, <1>3, <1>4 DEF ShowsSame

\* Rows added for a write show nothing.
LEMMA Taller ==
  ASSUME NEW s, Layout(s), s.cols # <<>>, NEW target \in Nat, s.nrows < target,
         NEW t, t = ensure_row_capacity(s, target)
  PROVE  Layout(t) /\ t.nrows = target /\ Len(t.cols) = Len(s.cols) /\ ShowsSame(s, t)
<1>0. s.nrows \in Nat /\ Len(s.cols) \in Nat
  BY DEF Layout, SheetRecords
<1>1. IsTaller(s, t, target)
  BY Capacity
<1>2. Layout(t) /\ t.nrows = target /\ Len(t.cols) = Len(s.cols)
  BY <1>1 DEF IsTaller
<1>3. ASSUME NEW r \in Nat, NEW c \in Nat PROVE get_cell_value(t, r, c) = get_cell_value(s, r, c)
  <2>1. CASE r >= target \/ c >= Len(s.cols)
    <3>1. r >= t.nrows \/ c >= Len(t.cols)
      BY <1>2, <2>1
    <3>2. r >= s.nrows \/ c >= Len(s.cols)
      BY <1>0, <2>1
    <3> QED BY <3>1, <3>2, OutOfSheet
  <2>2. CASE ~(r >= target \/ c >= Len(s.cols))
    <3> DEFINE d == c + 1
    <3>1. d \in 1..Len(s.cols) /\ d - 1 = c /\ r < target
      BY <1>0, <2>2
    <3> HIDE DEF d
    <3>2. get_cell_value(t, r, d - 1) = IF r < s.nrows THEN get_cell_value(s, r, d - 1) ELSE Blank
      BY <1>1, <3>1 DEF IsTaller
    <3>3. CASE r < s.nrows
      BY <3>1, <3>2, <3>3
    <3>4. CASE ~(r < s.nrows)
      <4>1. r >= s.nrows
        BY <1>0, <3>4
      <4> QED BY <3>1, <3>2, <3>4, <4>1, OutOfSheet
    <3> QED BY <3>3, <3>4
  <2> QED BY <2>1, <2>2
<1> QED BY <1>2, <1>3 DEF ShowsSame

\* A write changes one cell, and the sheet grows to hold it.
LEMMA Written ==
  ASSUME NEW s, Layout(s), NEW line \in Nat, NEW col \in Nat, NEW v \in Contents,
         NEW t, t = WriteCell(s, line, col, v)
  PROVE  /\ CellPut(s, t, line, col, v)
         /\ t.nrows = IF line >= s.nrows THEN line + 1 ELSE s.nrows
         /\ Len(t.cols) = IF col >= Len(s.cols) THEN col + 1 ELSE Len(s.cols)
<1> DEFINE L == Len(s.cols)
           wide == IF col >= L THEN insert_columns(s, L, col + 1 - L) ELSE s
           tall == IF line >= wide.nrows THEN ensure_row_capacity(wide, line + 1) ELSE wide
           p == chunk_of_row(tall, line)
           made == ensure_column_chunk(tall, col, p.chunk)
<1>0. L \in Nat /\ s.nrows \in Nat
  BY DEF Layout, SheetRecords
<1>1. Layout(wide) /\ wide.nrows = s.nrows /\ Len(wide.cols) = (IF col >= L THEN col + 1 ELSE L)
      /\ ShowsSame(s, wide)
  <2>1. CASE col >= L
    <3>1. wide = insert_columns(s, L, col + 1 - L)
      BY <2>1
    <3> HIDE DEF wide
    <3> DEFINE width == col + 1
    <3>2. width \in Nat /\ Len(s.cols) < width
      BY <1>0, <2>1
    <3>3. wide = insert_columns(s, Len(s.cols), width - Len(s.cols))
      BY <3>1
    <3> HIDE DEF wide, width
    <3>4. Layout(wide) /\ wide.nrows = s.nrows /\ Len(wide.cols) = width /\ ShowsSame(s, wide)
      BY <3>2, <3>3, Wider
    <3> QED BY <2>1, <3>4 DEF width
  <2>2. CASE ~(col >= L)
    BY <2>2 DEF ShowsSame
  <2> QED BY <2>1, <2>2
<1>2. t = PutAt(made, col, p, v)
  BY DEF WriteCell, PutAt
<1> HIDE DEF wide
<1>3. wide.cols # <<>> /\ col < Len(wide.cols)
  BY <1>0, <1>1
<1>4. Layout(tall) /\ tall.nrows = (IF line >= s.nrows THEN line + 1 ELSE s.nrows)
      /\ Len(tall.cols) = Len(wide.cols) /\ ShowsSame(wide, tall)
  <2>1. CASE line >= wide.nrows
    <3>1. tall = ensure_row_capacity(wide, line + 1)
      BY <2>1
    <3> DEFINE target == line + 1
    <3>2. target \in Nat /\ wide.nrows < target
      BY <1>0, <1>1, <2>1
    <3>3. tall = ensure_row_capacity(wide, target)
      BY <3>1
    <3> HIDE DEF tall, target
    <3>4. Layout(tall) /\ tall.nrows = target /\ Len(tall.cols) = Len(wide.cols) /\ ShowsSame(wide, tall)
      BY <1>1, <1>3, <3>2, <3>3, Taller
    <3> QED BY <1>1, <2>1, <3>4 DEF target
  <2>2. CASE ~(line >= wide.nrows)
    <3>1. tall = wide
      BY <2>2
    <3> QED BY <1>1, <2>2, <3>1 DEF ShowsSame
  <2> QED BY <2>1, <2>2
<1> HIDE DEF tall
<1>5. line < tall.nrows /\ col < Len(tall.cols)
  BY <1>0, <1>3, <1>4
<1>6. PICK i \in 1..Len(tall.starts) : /\ p.chunk = i
                                       /\ tall.starts[i] <= line /\ line < EndOf(tall.starts, tall.nrows, i)
  <2>1. Tiles(tall.starts, tall.nrows)
    BY <1>4 DEF Layout
  <2>2. PICK i \in 1..Len(tall.starts) : tall.starts[i] <= line /\ line < EndOf(tall.starts, tall.nrows, i)
    BY <1>5, <2>1, TilesCover
  <2>3. p = [chunk |-> i, off |-> line - tall.starts[i]]
    BY <2>1, <2>2, ChunkOfRow
  <2> QED BY <2>2, <2>3
<1>7. /\ Layout(made) /\ made.nrows = tall.nrows /\ made.starts = tall.starts
      /\ Len(made.cols) = Len(tall.cols)
      /\ p.chunk \in DOMAIN made.cols[col + 1].chunk /\ ShowsSame(tall, made)
  <2> HIDE DEF p
  <2>1. p.chunk \in 1..Len(tall.starts)
    BY <1>6
  <2> QED BY <1>4, <1>5, <2>1, ChunkMade
<1>8. p = chunk_of_row(made, line)
  BY <1>7 DEF chunk_of_row
<1> HIDE DEF p, made
<1>9. CellPut(made, t, line, col, v) /\ t.nrows = made.nrows /\ Len(t.cols) = Len(made.cols)
  <2>1. line < made.nrows /\ col < Len(made.cols)
    BY <1>5, <1>7
  <2> QED BY <1>2, <1>7, <1>8, <2>1, CellSet
<1>10. CellPut(s, t, line, col, v)
  <2>1. \A r, c \in Nat : get_cell_value(made, r, c) = get_cell_value(s, r, c)
    BY <1>1, <1>4, <1>7 DEF ShowsSame
  <2> QED BY <1>9, <2>1 DEF CellPut
<1> QED BY <1>1, <1>4, <1>7, <1>9, <1>10 DEF L

-----------------------------------------------------------------------------
(* Every operation, cell by cell *)

\* clear_computed_overlay_after_row, cell by cell.
LEMMA RowsCleared ==
  ASSUME NEW s, Layout(s), NEW start \in Nat, NEW t, t = clear_computed_overlay_after_row(s, start)
  PROVE  /\ Layout(t) /\ t.nrows = s.nrows /\ Len(t.cols) = Len(s.cols)
         /\ \A r, c \in Nat : get_cell_value(t, r, c) =
              IF r >= start THEN Cleared(get_cell_value(s, r, c)) ELSE get_cell_value(s, r, c)
<1>0. s.nrows \in Nat /\ Len(s.cols) \in Nat
  BY DEF Layout, SheetRecords
<1>1. IsCleared(s, t, start, 0)
  BY ClearRows
<1>2. Layout(t) /\ t.nrows = s.nrows /\ Len(t.cols) = Len(s.cols)
  BY <1>1 DEF IsCleared
<1>3. ASSUME NEW r \in Nat, NEW c \in Nat
      PROVE  get_cell_value(t, r, c) =
               IF r >= start THEN Cleared(get_cell_value(s, r, c)) ELSE get_cell_value(s, r, c)
  <2>1. CASE r >= s.nrows \/ c >= Len(s.cols)
    <3>1. r >= t.nrows \/ c >= Len(t.cols)
      BY <1>2, <2>1
    <3>2. get_cell_value(t, r, c) = Blank /\ get_cell_value(s, r, c) = Blank
      BY <2>1, <3>1, OutOfSheet
    <3> QED BY <3>2, BlankIs DEF Cleared
  <2>2. CASE ~(r >= s.nrows \/ c >= Len(s.cols))
    <3> DEFINE d == c + 1
    <3>1. d \in 1..Len(s.cols) /\ d - 1 = c /\ r < s.nrows /\ d > 0
      BY <1>0, <2>2
    <3> HIDE DEF d
    <3>2. get_cell_value(t, r, d - 1) =
            IF r >= start /\ d > 0 THEN Cleared(get_cell_value(s, r, d - 1))
            ELSE get_cell_value(s, r, d - 1)
      BY <1>1, <3>1 DEF IsCleared
    <3> QED BY <3>1, <3>2
  <2> QED BY <2>1, <2>2
<1> QED BY <1>2, <1>3

\* clear_computed_overlay_after_col, cell by cell.
LEMMA ColsCleared ==
  ASSUME NEW s, Layout(s), NEW start \in Nat, NEW t, t = clear_computed_overlay_after_col(s, start)
  PROVE  /\ Layout(t) /\ t.nrows = s.nrows /\ Len(t.cols) = Len(s.cols)
         /\ \A r, c \in Nat : get_cell_value(t, r, c) =
              IF c >= start THEN Cleared(get_cell_value(s, r, c)) ELSE get_cell_value(s, r, c)
<1>0. s.nrows \in Nat /\ Len(s.cols) \in Nat
  BY DEF Layout, SheetRecords
<1>1. IsCleared(s, t, 0, start)
  BY ClearCols
<1>2. Layout(t) /\ t.nrows = s.nrows /\ Len(t.cols) = Len(s.cols)
  BY <1>1 DEF IsCleared
<1>3. ASSUME NEW r \in Nat, NEW c \in Nat
      PROVE  get_cell_value(t, r, c) =
               IF c >= start THEN Cleared(get_cell_value(s, r, c)) ELSE get_cell_value(s, r, c)
  <2>1. CASE r >= s.nrows \/ c >= Len(s.cols)
    <3>1. r >= t.nrows \/ c >= Len(t.cols)
      BY <1>2, <2>1
    <3>2. get_cell_value(t, r, c) = Blank /\ get_cell_value(s, r, c) = Blank
      BY <2>1, <3>1, OutOfSheet
    <3> QED BY <3>2, BlankIs DEF Cleared
  <2>2. CASE ~(r >= s.nrows \/ c >= Len(s.cols))
    <3> DEFINE d == c + 1
    <3>1. d \in 1..Len(s.cols) /\ d - 1 = c /\ r < s.nrows /\ (d > start <=> c >= start) /\ r >= 0
      BY <1>0, <2>2
    <3> HIDE DEF d
    <3>2. get_cell_value(t, r, d - 1) =
            IF r >= 0 /\ d > start THEN Cleared(get_cell_value(s, r, d - 1))
            ELSE get_cell_value(s, r, d - 1)
      BY <1>1, <3>1 DEF IsCleared
    <3> QED BY <3>1, <3>2
  <2> QED BY <2>1, <2>2
<1> QED BY <1>2, <1>3

\* u is s with `count` empty rows inserted at `before`.
RowsInserted(s, u, before, count) ==
  /\ Layout(u) /\ u.nrows = s.nrows + count /\ Len(u.cols) = Len(s.cols)
  /\ \A r, c \in Nat : get_cell_value(u, r, c) =
       IF r < before THEN get_cell_value(s, r, c)
       ELSE IF r < before + count THEN Blank ELSE get_cell_value(s, r - count, c)

\* Rows inserted into a sheet without rows make one chunk.
LEMMA InsertIntoEmpty ==
  ASSUME NEW s, Layout(s), s.cols # <<>>, s.nrows = 0, NEW before \in Nat,
         NEW count \in Nat, count > 0, count <= ChunkRows
  PROVE  RowsInserted(s, insert_rows(s, before, count), before, count)
<1> DEFINE u == insert_rows(s, before, count)
           g == <<0>>
<1>0. s \in SheetRecords /\ s.starts = <<>> /\ Len(s.cols) \in Nat /\ s.cols \in Seq(Columns)
  BY DEF Layout, SheetRecords, Tiles
<1>1. u = [nrows |-> count, starts |-> g, cols |-> s.cols]
  <2> DEFINE w == WithMap(s)
  <2>1. w = [nrows |-> s.nrows, starts |-> g, cols |-> s.cols]
    BY <1>0, SheetUpdates DEF WithMap
  <2>2. u = [w EXCEPT !.nrows = count]
    BY DEF insert_rows
  <2> HIDE DEF w, u, g
  <2> QED BY <2>1, <2>2
<1>2. u.nrows = count /\ u.starts = g /\ u.cols = s.cols
  BY <1>1
<1>3. Tiles(g, count)
  <2>1. g \in Seq(Nat) /\ Len(g) = 1 /\ g[1] = 0 /\ g # <<>>
    OBVIOUS
  <2> HIDE DEF g
  <2>2. ASSUME NEW i \in 1..Len(g) PROVE g[i] < EndOf(g, count, i) /\ EndOf(g, count, i) <= g[i] + ChunkRows
    <3>1. i = 1
      BY <2>1
    <3>2. EndOf(g, count, i) = count
      BY <2>1, <3>1 DEF EndOf
    <3>3. ChunkRows \in Nat
      BY SheetAssumption
    <3> QED BY <2>1, <3>1, <3>2, <3>3
  <2> QED BY <2>1, <2>2 DEF Tiles
<1>4. ASSUME NEW c \in 1..Len(s.cols) PROVE ColumnFits(s.cols[c], g, count) /\ DOMAIN s.cols[c].chunk = {}
  <2>1. ColumnFits(s.cols[c], <<>>, 0)
    BY <1>0 DEF Layout
  <2>2. DOMAIN s.cols[c].chunk = {} /\ s.cols[c] \in Columns /\ 1..s.cols[c].n \subseteq DOMAIN s.cols[c].chunk
    BY <2>1 DEF ColumnFits
  <2> QED BY <2>2 DEF ColumnFits
<1>5. Layout(u)
  <2>1. u \in SheetRecords
    BY <1>0, <1>1 DEF SheetRecords
  <2> HIDE DEF u, g
  <2> QED BY <1>2, <1>3, <1>4, <2>1 DEF Layout
<1> HIDE DEF u, g
<1>6. ASSUME NEW r \in Nat, NEW c \in Nat PROVE get_cell_value(u, r, c) = Blank
  <2>1. CASE r >= u.nrows \/ c >= Len(u.cols)
    BY <2>1, OutOfSheet
  <2>2. CASE ~(r >= u.nrows \/ c >= Len(u.cols))
    <3> DEFINE d == c + 1
    <3>1. d \in 1..Len(s.cols) /\ d - 1 = c /\ r < count
      BY <1>0, <1>2, <2>2
    <3> HIDE DEF d
    <3>2. PICK i \in 1..Len(g) : g[i] <= r /\ r < EndOf(g, count, i)
      BY <1>3, <3>1, TilesCover
    <3>3. get_cell_value(u, r, d - 1) = At(u.cols[d], i, r - g[i])
      <4>1. d \in 1..Len(u.cols) /\ i \in 1..Len(u.starts) /\ u.starts[i] <= r /\ r < EndOf(u.starts, u.nrows, i)
        BY <1>2, <3>1, <3>2
      <4>2. get_cell_value(u, r, d - 1) = At(u.cols[d], i, r - u.starts[i])
        BY <1>5, <4>1, CellIs
      <4> QED BY <1>2, <4>2
    <3>4. i \notin DOMAIN u.cols[d].chunk
      BY <1>2, <1>4, <3>1
    <3> QED BY <3>1, <3>3, <3>4 DEF At
  <2> QED BY <2>1, <2>2
<1>7. \A r, c \in Nat : get_cell_value(s, r, c) = Blank
  BY OutOfSheet
<1>8. ASSUME NEW r \in Nat, NEW c \in Nat
      PROVE  get_cell_value(u, r, c) =
               IF r < before THEN get_cell_value(s, r, c)
               ELSE IF r < before + count THEN Blank ELSE get_cell_value(s, r - count, c)
  <2>1. ASSUME ~(r < before), ~(r < before + count) PROVE r - count \in Nat
    BY <2>1
  <2> QED BY <1>6, <1>7, <2>1
<1>9. u.nrows = s.nrows + count
  BY <1>2
<1>10. RowsInserted(s, u, before, count)
  BY <1>2, <1>5, <1>8, <1>9 DEF RowsInserted
<1> QED BY <1>10 DEF u

\* insert_rows, cell by cell; behind the last row it appends.
LEMMA InsertInside ==
  ASSUME NEW s, Layout(s), s.cols # <<>>, s.nrows > 0, NEW before \in Nat,
         NEW count \in Nat, count > 0, count <= ChunkRows
  PROVE  RowsInserted(s, insert_rows(s, before, count), before, count)
<1> DEFINE u == insert_rows(s, before, count)
           at == IF before <= s.nrows THEN before ELSE s.nrows
           src == InsertSource(at, count)
<1>0. s.nrows \in Nat /\ Len(s.cols) \in Nat
  BY DEF Layout, SheetRecords
<1>1. at \in Nat /\ at <= s.nrows /\ at = Min({before, s.nrows})
  <2>1. before \in Int /\ s.nrows \in Int
    BY <1>0
  <2>2. Min({before, s.nrows}) = at
    BY ONLY <2>1, OfTwo DEF at
  <2> QED BY <1>0, <2>2
<1>2. RowsMade(s, u, s.nrows + count, src)
  <2> HIDE DEF at
  <2> QED BY <1>1, InsertedRows
<1>3. \A r \in Nat : src[r] = IF r < at THEN r ELSE IF r < at + count THEN -1 ELSE r - count
  BY DEF InsertSource
<1> HIDE DEF u, src
<1>4. Layout(u) /\ u.nrows = s.nrows + count /\ Len(u.cols) = Len(s.cols)
  BY <1>2 DEF RowsMade, ShowsRows
<1>5. \A r, c \in Nat : r < s.nrows + count /\ c < Len(s.cols) =>
        get_cell_value(u, r, c) = IF src[r] = -1 THEN Blank ELSE get_cell_value(s, src[r], c)
  <2> SUFFICES ASSUME NEW r \in Nat, NEW c \in Nat, r < s.nrows + count, c < Len(s.cols)
               PROVE  get_cell_value(u, r, c) = IF src[r] = -1 THEN Blank ELSE get_cell_value(s, src[r], c)
    OBVIOUS
  <2> DEFINE d == c + 1
  <2>1. d \in 1..Len(s.cols) /\ d - 1 = c /\ r < u.nrows
    BY <1>0, <1>4
  <2> HIDE DEF d
  <2>2. get_cell_value(u, r, d - 1) = IF src[r] = -1 THEN Blank ELSE get_cell_value(s, src[r], d - 1)
    BY <1>2, <2>1 DEF RowsMade, ShowsRows
  <2> QED BY <2>1, <2>2
<1>6. ASSUME NEW r \in Nat, NEW c \in Nat
      PROVE  get_cell_value(u, r, c) =
               IF r < before THEN get_cell_value(s, r, c)
               ELSE IF r < before + count THEN Blank ELSE get_cell_value(s, r - count, c)
  <2>1. CASE c >= Len(s.cols)
    <3>1. c >= Len(u.cols)
      BY <1>4, <2>1
    <3> QED BY <2>1, <3>1, OutOfSheet
  <2>2. CASE c < Len(s.cols) /\ r >= s.nrows + count
    <3>1. r >= u.nrows /\ r >= s.nrows /\ r - count >= s.nrows
      BY <1>0, <1>4, <2>2
    <3> QED BY <3>1, OutOfSheet
  <2>3. CASE c < Len(s.cols) /\ r < s.nrows + count
    <3>1. get_cell_value(u, r, c) = IF src[r] = -1 THEN Blank ELSE get_cell_value(s, src[r], c)
      BY <1>5, <2>3
    <3>2. r < at => src[r] = r /\ r # -1 /\ r < before
      BY <1>0, <1>3
    <3>3. CASE r < at
      BY <3>1, <3>2, <3>3
    <3>4. CASE ~(r < at) /\ r < at + count
      <4>1. src[r] = -1
        BY <1>3, <3>4
      <4>2. r < before => r >= s.nrows
        BY <1>0, <3>4
      <4>3. r < before + count
        BY <1>0, <3>4
      <4> QED BY <3>1, <4>1, <4>2, <4>3, OutOfSheet
    <3>5. CASE ~(r < at) /\ ~(r < at + count)
      <4>1. src[r] = r - count /\ r - count # -1 /\ at = before /\ ~(r < before) /\ ~(r < before + count)
        BY <1>0, <1>3, <2>3, <3>5
      <4> QED BY <3>1, <4>1
    <3> QED BY <3>3, <3>4, <3>5
  <2> QED BY <1>0, <2>1, <2>2, <2>3
<1>7. RowsInserted(s, u, before, count)
  BY <1>4, <1>6 DEF RowsInserted
<1> QED BY <1>7 DEF u

\* u is s without the `count` rows from `start` on.
RowsDeleted(s, u, start, count) ==
  /\ Layout(u) /\ u.nrows <= s.nrows /\ Len(u.cols) = Len(s.cols)
  /\ \A r, c \in Nat : get_cell_value(u, r, c) =
       IF r < start THEN get_cell_value(s, r, c) ELSE get_cell_value(s, r + count, c)

\* delete_rows, cell by cell; behind the last row it does nothing.
LEMMA DeleteInside ==
  ASSUME NEW s, Layout(s), s.cols # <<>>, NEW start \in Nat, NEW count \in Nat, count > 0
  PROVE  RowsDeleted(s, delete_rows(s, start, count), start, count)
<1> DEFINE u == delete_rows(s, start, count)
           end == IF start + count <= s.nrows THEN start + count ELSE s.nrows
           src == DeleteSource(start, end)
<1>0. s.nrows \in Nat /\ Len(s.cols) \in Nat
  BY DEF Layout, SheetRecords
<1>1. CASE start >= s.nrows
  <2>1. u = s
    BY <1>1 DEF delete_rows
  <2>2. ASSUME NEW r \in Nat, NEW c \in Nat, ~(r < start)
        PROVE  get_cell_value(s, r, c) = Blank /\ get_cell_value(s, r + count, c) = Blank
    <3>1. r >= s.nrows /\ r + count >= s.nrows
      BY <1>0, <1>1, <2>2
    <3> QED BY <3>1, OutOfSheet
  <2> HIDE DEF u
  <2>3. RowsDeleted(s, u, start, count)
    BY <1>0, <2>1, <2>2, SMTT(30) DEF RowsDeleted
  <2> QED BY <2>3 DEF u
<1>2. CASE start < s.nrows
  <2>1. end \in Nat /\ end <= s.nrows /\ start < end /\ end = Min({start + count, s.nrows})
    <3>1. start + count \in Int /\ s.nrows \in Int
      BY <1>0
    <3>2. Min({start + count, s.nrows}) = end
      BY ONLY <3>1, OfTwo DEF end
    <3> QED BY <1>0, <1>2, <3>2
  <2>2. RowsMade(s, u, s.nrows - (end - start), src)
    <3> HIDE DEF end
    <3> QED BY <1>2, <2>1, DeletedRows
  <2>3. \A r \in Nat : src[r] = IF r < start THEN r ELSE r + (end - start)
    BY DEF DeleteSource
  <2> HIDE DEF u, src
  <2>4. Layout(u) /\ u.nrows = s.nrows - (end - start) /\ Len(u.cols) = Len(s.cols)
    BY <2>2 DEF RowsMade, ShowsRows
  <2>5. \A r, c \in Nat : r < s.nrows - (end - start) /\ c < Len(s.cols) =>
          get_cell_value(u, r, c) = IF src[r] = -1 THEN Blank ELSE get_cell_value(s, src[r], c)
    <3> SUFFICES ASSUME NEW r \in Nat, NEW c \in Nat, r < s.nrows - (end - start), c < Len(s.cols)
                 PROVE  get_cell_value(u, r, c) = IF src[r] = -1 THEN Blank ELSE get_cell_value(s, src[r], c)
      OBVIOUS
    <3> DEFINE d == c + 1
    <3>1. d \in 1..Len(s.cols) /\ d - 1 = c /\ r < u.nrows
      BY <1>0, <2>4
    <3> HIDE DEF d
    <3>2. get_cell_value(u, r, d - 1) = IF src[r] = -1 THEN Blank ELSE get_cell_value(s, src[r], d - 1)
      BY <2>2, <3>1 DEF RowsMade, ShowsRows
    <3> QED BY <3>1, <3>2
  <2>6. ASSUME NEW r \in Nat, NEW c \in Nat
        PROVE  get_cell_value(u, r, c) =
                 IF r < start THEN get_cell_value(s, r, c) ELSE get_cell_value(s, r + count, c)
    <3>1. CASE c >= Len(s.cols)
      <4>1. c >= Len(u.cols)
        BY <2>4, <3>1
      <4> QED BY <3>1, <4>1, OutOfSheet
    <3>2. CASE c < Len(s.cols) /\ r >= s.nrows - (end - start)
      <4>1. r >= u.nrows /\ r >= start /\ r + count >= s.nrows
        BY <1>0, <1>2, <2>4, <3>2
      <4>2. ~(r < start)
        BY <4>1
      <4> QED BY <4>1, <4>2, OutOfSheet
    <3>3. CASE c < Len(s.cols) /\ r < s.nrows - (end - start)
      <4>1. get_cell_value(u, r, c) = IF src[r] = -1 THEN Blank ELSE get_cell_value(s, src[r], c)
        BY <2>5, <3>3
      <4>2. CASE r < start
        <5>1. src[r] = r /\ r # -1
          BY <2>3, <4>2
        <5> QED BY <4>1, <4>2, <5>1
      <4>3. CASE ~(r < start)
        <5>1. src[r] = r + (end - start)
          BY <2>3, <4>3
        <5>2. end - start = count
          BY <1>0, <3>3, <4>3
        <5>3. src[r] = r + count /\ r + count # -1
          BY <5>1, <5>2
        <5> QED BY <4>1, <4>3, <5>3
      <4> QED BY <4>2, <4>3
    <3> QED BY <1>0, <2>1, <3>1, <3>2, <3>3
  <2>7. u.nrows <= s.nrows
    BY <1>0, <2>1, <2>4
  <2>8. RowsDeleted(s, u, start, count)
    BY <2>4, <2>6, <2>7 DEF RowsDeleted
  <2> QED BY <2>8 DEF u
<1> QED BY <1>0, <1>1, <1>2

\* u is s with `count` empty columns inserted at `before`.
ColsInserted(s, u, before, count) ==
  /\ Layout(u) /\ u.nrows = s.nrows /\ Len(u.cols) = Len(s.cols) + count
  /\ \A r, c \in Nat : get_cell_value(u, r, c) =
       IF c < before THEN get_cell_value(s, r, c)
       ELSE IF c < before + count THEN Blank ELSE get_cell_value(s, r, c - count)

\* insert_columns, cell by cell.
LEMMA InsertColsInside ==
  ASSUME NEW s, Layout(s), NEW before \in Nat, NEW count \in Nat, count > 0
  PROVE  ColsInserted(s, insert_columns(s, before, count), before, count)
<1> DEFINE u == insert_columns(s, before, count)
           L == Len(s.cols)
           at == IF before <= L THEN before ELSE L
           src == InsertedFrom(at, count)
<1>0. s.nrows \in Nat /\ L \in Nat
  BY DEF Layout, SheetRecords
<1>1. at \in Nat /\ at <= L /\ at = Min({before, L})
  <2>1. before \in Int /\ L \in Int
    BY <1>0
  <2>2. Min({before, L}) = at
    BY ONLY <2>1, OfTwo DEF at
  <2> QED BY <1>0, <2>2
<1>2. ColumnsFrom(s, u, src) /\ Len(u.cols) = L + count
  <2> HIDE DEF at
  <2> QED BY <1>1, InsertedColumns
<1>3. \A c \in Nat : src[c] = IF c <= at THEN c ELSE IF c <= at + count THEN 0 ELSE c - count
  BY DEF InsertedFrom
<1> HIDE DEF u, src
<1>4. Layout(u) /\ u.nrows = s.nrows /\ ShowsColumns(s, u, src)
  BY <1>2, ColumnsMoved
<1>5. \A r, c \in Nat : r < s.nrows /\ c < L + count =>
        get_cell_value(u, r, c) = IF src[c + 1] = 0 THEN Blank ELSE get_cell_value(s, r, src[c + 1] - 1)
  <2> SUFFICES ASSUME NEW r \in Nat, NEW c \in Nat, r < s.nrows, c < L + count
               PROVE  get_cell_value(u, r, c)
                        = IF src[c + 1] = 0 THEN Blank ELSE get_cell_value(s, r, src[c + 1] - 1)
    OBVIOUS
  <2> DEFINE d == c + 1
  <2>1. d \in 1..Len(u.cols) /\ d - 1 = c
    BY <1>0, <1>2
  <2>2. src[c + 1] = src[d]
    OBVIOUS
  <2> HIDE DEF d
  <2>3. get_cell_value(u, r, d - 1) = IF src[d] = 0 THEN Blank ELSE get_cell_value(s, r, src[d] - 1)
    BY <1>4, <2>1 DEF ShowsColumns
  <2> QED BY <2>1, <2>2, <2>3
<1>6. ASSUME NEW r \in Nat, NEW c \in Nat
      PROVE  get_cell_value(u, r, c) =
               IF c < before THEN get_cell_value(s, r, c)
               ELSE IF c < before + count THEN Blank ELSE get_cell_value(s, r, c - count)
  <2>1. CASE r >= s.nrows
    <3>1. r >= u.nrows
      BY <1>4, <2>1
    <3> QED BY <2>1, <3>1, OutOfSheet
  <2>2. CASE r < s.nrows /\ c >= L + count
    <3>1. c >= Len(u.cols) /\ c >= Len(s.cols) /\ c - count >= Len(s.cols)
      BY <1>0, <1>2, <2>2
    <3> QED BY <3>1, OutOfSheet
  <2>3. CASE r < s.nrows /\ c < L + count
    <3>1. get_cell_value(u, r, c) = IF src[c + 1] = 0 THEN Blank ELSE get_cell_value(s, r, src[c + 1] - 1)
      BY <1>5, <2>3
    <3>2. src[c + 1] = IF c < at THEN c + 1 ELSE IF c < at + count THEN 0 ELSE c + 1 - count
      BY <1>0, <1>1, <1>3
    <3>3. CASE c < at
      <4>1. src[c + 1] # 0 /\ src[c + 1] - 1 = c /\ c < before
        BY <1>0, <3>2, <3>3
      <4> QED BY <3>1, <4>1
    <3>4. CASE ~(c < at) /\ c < at + count
      <4>1. src[c + 1] = 0
        BY <3>2, <3>4
      <4>2. c < before => c >= Len(s.cols)
        BY <1>0, <3>4
      <4>3. c < before + count
        BY <1>0, <3>4
      <4> QED BY <3>1, <4>1, <4>2, <4>3, OutOfSheet
    <3>5. CASE ~(c < at) /\ ~(c < at + count)
      <4>1. src[c + 1] # 0 /\ src[c + 1] - 1 = c - count /\ ~(c < before) /\ ~(c < before + count)
        BY <1>0, <2>3, <3>2, <3>5
      <4> QED BY <3>1, <4>1
    <3> QED BY <3>3, <3>4, <3>5
  <2> QED BY <1>0, <2>1, <2>2, <2>3
<1>7. ColsInserted(s, u, before, count)
  BY <1>2, <1>4, <1>6 DEF ColsInserted
<1> QED BY <1>7 DEF u

\* u is s without the `count` columns from `start` on.
ColsDeleted(s, u, start, count) ==
  /\ Layout(u) /\ u.nrows = s.nrows /\ Len(u.cols) <= Len(s.cols)
  /\ \A r, c \in Nat : get_cell_value(u, r, c) =
       IF c < start THEN get_cell_value(s, r, c) ELSE get_cell_value(s, r, c + count)

\* delete_columns, cell by cell, unless no column is left.
LEMMA DeleteColsInside ==
  ASSUME NEW s, Layout(s), NEW start \in Nat, NEW count \in Nat, count > 0, start < Len(s.cols),
         0 < start \/ start + count < Len(s.cols)
  PROVE  ColsDeleted(s, delete_columns(s, start, count), start, count)
<1> DEFINE u == delete_columns(s, start, count)
           L == Len(s.cols)
           W == IF start + count < L THEN L - count ELSE start
           src == DeletedFrom(start, count)
<1>0. s.nrows \in Nat /\ L \in Nat
  BY DEF Layout, SheetRecords
<1>2. ColumnsFrom(s, u, src) /\ Len(u.cols) = W
  BY DeletedColumns
<1>3. \A c \in Nat : src[c] = IF c <= start THEN c ELSE c + count
  BY DEF DeletedFrom
<1> HIDE DEF u, src
<1>4. Layout(u) /\ u.nrows = s.nrows /\ ShowsColumns(s, u, src)
  BY <1>2, ColumnsMoved
<1>5. \A r, c \in Nat : r < s.nrows /\ c < W =>
        get_cell_value(u, r, c) = IF src[c + 1] = 0 THEN Blank ELSE get_cell_value(s, r, src[c + 1] - 1)
  <2> SUFFICES ASSUME NEW r \in Nat, NEW c \in Nat, r < s.nrows, c < W
               PROVE  get_cell_value(u, r, c)
                        = IF src[c + 1] = 0 THEN Blank ELSE get_cell_value(s, r, src[c + 1] - 1)
    OBVIOUS
  <2> DEFINE d == c + 1
  <2>1. d \in 1..Len(u.cols) /\ d - 1 = c
    BY <1>0, <1>2
  <2>2. src[c + 1] = src[d]
    OBVIOUS
  <2> HIDE DEF d
  <2>3. get_cell_value(u, r, d - 1) = IF src[d] = 0 THEN Blank ELSE get_cell_value(s, r, src[d] - 1)
    BY <1>4, <2>1 DEF ShowsColumns
  <2> QED BY <2>1, <2>2, <2>3
<1>6. ASSUME NEW r \in Nat, NEW c \in Nat
      PROVE  get_cell_value(u, r, c) =
               IF c < start THEN get_cell_value(s, r, c) ELSE get_cell_value(s, r, c + count)
  <2>1. CASE r >= s.nrows
    <3>1. r >= u.nrows
      BY <1>4, <2>1
    <3> QED BY <2>1, <3>1, OutOfSheet
  <2>2. CASE r < s.nrows /\ c >= W
    <3>1. c >= Len(u.cols) /\ ~(c < start) /\ c + count >= Len(s.cols)
      BY <1>0, <1>2, <2>2
    <3> QED BY <3>1, OutOfSheet
  <2>3. CASE r < s.nrows /\ c < W
    <3>1. get_cell_value(u, r, c) = IF src[c + 1] = 0 THEN Blank ELSE get_cell_value(s, r, src[c + 1] - 1)
      BY <1>5, <2>3
    <3>2. src[c + 1] = IF c < start THEN c + 1 ELSE c + 1 + count
      BY <1>3
    <3>3. CASE c < start
      <4>1. src[c + 1] # 0 /\ src[c + 1] - 1 = c
        BY <3>2, <3>3
      <4> QED BY <3>1, <3>3, <4>1
    <3>4. CASE ~(c < start)
      <4>1. src[c + 1] # 0 /\ src[c + 1] - 1 = c + count
        BY <3>2, <3>4
      <4> QED BY <3>1, <3>4, <4>1
    <3> QED BY <3>3, <3>4
  <2> QED BY <1>0, <2>1, <2>2, <2>3
<1>7. Len(u.cols) <= Len(s.cols)
  BY <1>0, <1>2
<1>8. ColsDeleted(s, u, start, count)
  BY <1>4, <1>6, <1>7 DEF ColsDeleted
<1> QED BY <1>8 DEF u

-----------------------------------------------------------------------------
(* The first sheet *)

\* The empty sheet.
LEMMA NoSheetLayout == Layout(NoSheet) /\ NoSheet.nrows = 0 /\ Len(NoSheet.cols) = 0
<1>1. NoSheet.nrows = 0 /\ NoSheet.starts = <<>> /\ NoSheet.cols = <<>> /\ NoSheet \in SheetRecords
  BY DEF NoSheet, SheetRecords
<1>2. Tiles(<<>>, 0)
  BY DEF Tiles
<1> QED BY <1>1, <1>2 DEF Layout

\* Ingest cuts the rows into full chunks and a rest.
LEMMA IngestedLayout ==
  ASSUME NEW rows \in Nat, rows > 0, NEW ncols \in Nat, ncols > 0
  PROVE  /\ Layout(Ingested(rows, ncols)) /\ Ingested(rows, ncols).nrows = rows
         /\ Len(Ingested(rows, ncols).cols) = ncols
<1> DEFINE C == ChunkRows
           d == rows + C - 1
           n == d \div C
           P == [k \in Nat |-> k * C]
           g == [i \in 1..n |-> P[i - 1]]
           lens == [i \in 1..n |-> IF i < n THEN C ELSE rows - (n - 1) * C]
           E == EmptyColumn(lens)
           t == Ingested(rows, ncols)
<1>0. C \in Nat \ {0}
  BY SheetAssumption
<1>1. t = [nrows |-> rows, starts |-> StartsOf(lens), cols |-> [c \in 1..ncols |-> E]]
  BY DEF Ingested
<1> HIDE DEF C, t
<1>2. d \in Nat /\ d = rows + C - 1
  BY <1>0
<1> HIDE DEF d
<1>3. n \in Nat /\ P[n] <= d /\ d < P[n] + C
  BY <1>0, <1>2, Division
<1>4. /\ \A k \in Nat : P[k] \in Nat
      /\ P[0] = 0
      /\ \A k \in Nat : k > 0 => P[k] = P[k - 1] + C
  <2>1. \A k \in Nat : P[k] \in Nat
    BY <1>0, Multiples
  <2>2. P[0] = 0
    BY <1>0
  <2>3. ASSUME NEW k \in Nat, k > 0 PROVE P[k] = P[k - 1] + C
    <3> DEFINE j == k - 1
    <3>1. j \in Nat /\ j + 1 = k
      BY <2>3
    <3> HIDE DEF j
    <3>2. (j + 1) * C = j * C + C
      BY <1>0, <3>1, Multiples
    <3>3. P[j] = j * C /\ P[k] = k * C
      BY <3>1
    <3>4. P[k] = P[j] + C
      BY <3>1, <3>2, <3>3
    <3> QED BY <3>4 DEF j
  <2> QED BY <2>1, <2>2, <2>3
<1>5. n > 0
  <2>1. CASE n = 0
    BY <1>0, <1>2, <1>3, <1>4, <2>1
  <2> QED BY <1>3, <2>1
<1>6. (n - 1) * C = P[n - 1] /\ n - 1 \in Nat
  BY <1>3, <1>5
<1>7. lens = [i \in 1..n |-> IF i < n THEN C ELSE rows - P[n - 1]]
  BY <1>6
<1> HIDE DEF P, n, lens
<1>8. P[n - 1] < rows /\ rows <= P[n - 1] + C /\ P[n - 1] \in Nat
  <2>1. P[n] = P[n - 1] + C /\ P[n - 1] \in Nat
    BY <1>3, <1>4, <1>5, <1>6
  <2> QED BY <1>0, <1>2, <1>3, <2>1
<1>9. g \in Seq(Nat) /\ Len(g) = n /\ g[1] = 0 /\ \A i \in 1..n : g[i] = P[i - 1] /\ g[i] \in Nat
  <2>1. \A i \in 1..n : P[i - 1] \in Nat
    BY <1>3, <1>4
  <2>2. g \in [1..n -> Nat]
    BY <2>1
  <2>3. g \in Seq(Nat) /\ Len(g) = n
    BY <1>3, <2>2
  <2>4. g[1] = P[0]
    BY <1>3, <1>5
  <2> QED BY <1>4, <2>1, <2>3, <2>4
<1>10. /\ lens \in Seq(Nat) /\ Len(lens) = n
       /\ \A i \in 1..n : lens[i] = IF i < n THEN C ELSE rows - P[n - 1]
  <2>1. lens \in [1..n -> Nat]
    BY <1>0, <1>7, <1>8
  <2> QED BY <1>3, <1>7, <2>1
<1> HIDE DEF g
<1>11. ASSUME NEW i \in 1..n
       PROVE  /\ g[i] < EndOf(g, rows, i) /\ EndOf(g, rows, i) <= g[i] + C
              /\ EndOf(g, rows, i) - g[i] = lens[i]
              /\ i < n => g[i + 1] = g[i] + lens[i]
  <2>1. CASE i < n
    <3>1. EndOf(g, rows, i) = g[i + 1]
      BY <1>9, <2>1 DEF EndOf
    <3>2. i + 1 \in 1..n /\ i \in Nat /\ i > 0 /\ (i + 1) - 1 = i
      BY <1>3, <2>1
    <3>3. g[i + 1] = P[i] /\ g[i] = P[i - 1] /\ g[i] \in Nat
      BY <1>9, <3>2
    <3>4. P[i] = P[i - 1] + C
      BY <1>4, <3>2
    <3>5. lens[i] = C
      BY <1>10, <2>1
    <3> QED BY <1>0, <3>1, <3>3, <3>4, <3>5
  <2>2. CASE ~(i < n)
    <3>1. i = n
      BY <1>3, <2>2
    <3>2. EndOf(g, rows, i) = rows
      BY <1>9, <2>2 DEF EndOf
    <3>3. g[i] = P[n - 1] /\ lens[i] = rows - P[n - 1]
      BY <1>9, <1>10, <2>2, <3>1
    <3> QED BY <1>8, <2>2, <3>2, <3>3
  <2> QED BY <2>1, <2>2
<1>12. StartsOf(lens) = g
  <2>1. \A j \in 1..(Len(lens) - 1) : g[j + 1] = g[j] + lens[j]
    BY <1>3, <1>10, <1>11
  <2> QED BY <1>9, <1>10, <2>1, StartsAre
<1>13. Tiles(g, rows)
  <2>1. g # <<>>
    BY <1>5, <1>9
  <2> QED BY <1>9, <1>11, <2>1 DEF Tiles, C
<1>14. BlankColumn(E, g, rows)
  <2>1. lens = [i \in 1..Len(g) |-> EndOf(g, rows, i) - g[i]]
    <3>1. lens = [i \in 1..n |-> lens[i]]
      BY <1>7
    <3> QED BY <1>9, <1>11, <3>1
  <2> QED BY <1>13, <2>1, EmptyColumnFits
<1> HIDE DEF E
<1>15. t.nrows = rows /\ t.starts = g /\ t.cols = [c \in 1..ncols |-> E]
  BY <1>1, <1>12
<1>16. E \in Columns /\ ColumnFits(E, g, rows)
  BY <1>14 DEF BlankColumn, ColumnFits
<1>17. t.cols \in Seq(Columns) /\ Len(t.cols) = ncols /\ \A c \in 1..ncols : t.cols[c] = E
  <2>1. t.cols \in [1..ncols -> Columns]
    BY <1>15, <1>16
  <2> QED BY <1>15, <2>1
<1>18. t \in SheetRecords
  <2>1. t = [nrows |-> rows, starts |-> g, cols |-> t.cols]
    BY <1>1, <1>12
  <2> QED BY <1>9, <1>17, <2>1 DEF SheetRecords
<1>19. t.cols # <<>>
  BY <1>17
<1>20. Layout(t)
  BY <1>13, <1>15, <1>16, <1>17, <1>18, <1>19 DEF Layout
<1> QED BY <1>15, <1>17, <1>20 DEF t

-----------------------------------------------------------------------------
(* The sheet beside the grid *)

\* The inductive invariant: the layout, within the bounds, and the grid shown.
SheetInv ==
  /\ Layout(sheet) /\ sheet.nrows <= MaxRows /\ Len(sheet.cols) <= MaxCols
  /\ cells = Shown(sheet)

\* Shown, cell by cell.
LEMMA ShownAt ==
  ASSUME NEW s, NEW p \in G!Cells
  PROVE  /\ Shown(s)[p] = get_cell_value(s, p[1], p[2])
         /\ p[1] \in Nat /\ p[1] < MaxRows /\ p[2] \in Nat /\ p[2] < MaxCols /\ p = <<p[1], p[2]>>
<1>1. p \in (0..MaxRows - 1) \X (0..MaxCols - 1)
  BY DEF G!Cells
<1>2. MaxRows \in Nat /\ MaxCols \in Nat
  BY SheetAssumption
<1>3. p[1] \in 0..MaxRows - 1 /\ p[2] \in 0..MaxCols - 1 /\ p = <<p[1], p[2]>>
  BY <1>1
<1>4. Shown(s)[p] = get_cell_value(s, p[1], p[2])
  BY <1>1 DEF Shown
<1> QED BY <1>2, <1>3, <1>4

\* What Grid moves is what the sheet shows there, results aside.
LEMMA MovedIs ==
  ASSUME SheetInv, NEW r \in Nat, NEW c \in Nat
  PROVE  G!Moved(r, c, TRUE) = Cleared(get_cell_value(sheet, r, c))
<1>0. MaxRows \in Nat /\ MaxCols \in Nat /\ sheet.nrows \in Nat /\ Len(sheet.cols) \in Nat
  BY SheetAssumption DEF SheetInv, Layout, SheetRecords
<1>1. CASE <<r, c>> \in G!Cells
  <2>1. cells[<<r, c>>] = get_cell_value(sheet, r, c)
    BY <1>1, ShownAt DEF SheetInv
  <2> QED BY <1>1, <2>1 DEF G!Moved, Cleared
<1>2. CASE <<r, c>> \notin G!Cells
  <2>1. r >= MaxRows \/ c >= MaxCols
    BY <1>0, <1>2 DEF G!Cells
  <2>2. r >= sheet.nrows \/ c >= Len(sheet.cols)
    BY <1>0, <2>1 DEF SheetInv
  <2>3. get_cell_value(sheet, r, c) = Blank
    BY <2>2, OutOfSheet
  <2> QED BY <1>2, <2>3, BlankIs DEF G!Moved, Cleared
<1> QED BY <1>1, <1>2

\* Two grids are compared cell by cell.
LEMMA GridsAgree ==
  ASSUME NEW t, NEW f, f = [p \in G!Cells |-> f[p]],
         \A p \in G!Cells : f[p] = get_cell_value(t, p[1], p[2])
  PROVE  f = Shown(t)
BY DEF Shown, G!Cells

\* The invariant holds at first.
LEMMA InitInv == SheetInit => SheetInv
<1> SUFFICES ASSUME SheetInit PROVE SheetInv
  OBVIOUS
<1>0. MaxRows \in Nat /\ MaxCols \in Nat
  BY SheetAssumption
<1>1. CASE sheet = NoSheet
  BY <1>0, <1>1, NoSheetLayout DEF SheetInit, SheetInv
<1>2. ASSUME NEW r \in 1..MaxRows - 1, NEW c \in 1..MaxCols, sheet = Ingested(r, c) PROVE SheetInv
  <2>1. r \in Nat /\ r > 0 /\ r <= MaxRows /\ c \in Nat /\ c > 0 /\ c <= MaxCols
    BY <1>0
  <2>2. Layout(sheet) /\ sheet.nrows = r /\ Len(sheet.cols) = c
    BY <1>2, <2>1, IngestedLayout
  <2> QED BY <2>1, <2>2 DEF SheetInit, SheetInv
<1> QED BY <1>1, <1>2 DEF SheetInit

\* A write preserves it.
LEMMA WriteInv ==
  ASSUME SheetInv, NEW line \in 0..MaxRows - 1, NEW col \in 0..MaxCols - 1, NEW v \in Contents,
         Write(line, col, v)
  PROVE  SheetInv'
<1> DEFINE t == sheet'
<1>0. MaxRows \in Nat /\ MaxCols \in Nat /\ sheet.nrows \in Nat /\ Len(sheet.cols) \in Nat
      /\ line \in Nat /\ col \in Nat /\ line + 1 <= MaxRows /\ col + 1 <= MaxCols
  BY SheetAssumption DEF SheetInv, Layout, SheetRecords
<1>1. /\ CellPut(sheet, t, line, col, v)
      /\ t.nrows = IF line >= sheet.nrows THEN line + 1 ELSE sheet.nrows
      /\ Len(t.cols) = IF col >= Len(sheet.cols) THEN col + 1 ELSE Len(sheet.cols)
  <2>1. t = WriteCell(sheet, line, col, v) /\ Layout(sheet)
    BY DEF Write, SheetInv
  <2> HIDE DEF t
  <2> QED BY <1>0, <2>1, Written, SMTT(30)
<1>2. cells' = [cells EXCEPT ![<<line, col>>] = v]
  BY DEF Write, G!Write
<1> HIDE DEF t
<1>3. cells = [p \in G!Cells |-> cells[p]]
  BY DEF SheetInv, Shown, G!Cells
<1> DEFINE F(p) == IF p = <<line, col>> THEN v ELSE cells[p]
<1>4. cells' = [p \in G!Cells |-> F(p)]
  BY <1>2, <1>3
<1>5. ASSUME NEW p \in G!Cells PROVE F(p) = get_cell_value(t, p[1], p[2])
  <2>1. /\ cells[p] = get_cell_value(sheet, p[1], p[2])
        /\ p[1] \in Nat /\ p[2] \in Nat /\ p = <<p[1], p[2]>>
    BY ShownAt DEF SheetInv
  <2>2. get_cell_value(t, p[1], p[2])
          = IF p[1] = line /\ p[2] = col THEN v ELSE get_cell_value(sheet, p[1], p[2])
    BY <1>1, <2>1 DEF CellPut
  <2>3. p = <<line, col>> <=> p[1] = line /\ p[2] = col
    BY <2>1
  <2> QED BY <2>1, <2>2, <2>3
<1>6. cells' = Shown(t)
  <2> DEFINE f == cells'
  <2>1. f = [p \in G!Cells |-> f[p]] /\ \A p \in G!Cells : f[p] = get_cell_value(t, p[1], p[2])
    <3> HIDE DEF F
    <3> QED BY <1>4, <1>5
  <2> HIDE DEF f
  <2>2. f = Shown(t)
    BY <2>1, GridsAgree
  <2> QED BY <2>2 DEF f
<1>7. Layout(t) /\ t.nrows <= MaxRows /\ Len(t.cols) <= MaxCols
  <2>1. Layout(t)
    BY <1>1 DEF CellPut
  <2> QED BY <1>0, <1>1, <2>1 DEF SheetInv
<1>8. Shown(sheet)' = Shown(t)
  BY DEF Shown, get_cell_value, chunk_of_row, t
<1> QED BY <1>6, <1>7, <1>8 DEF SheetInv, t

\* A step is shown to preserve the invariant cell by cell.
LEMMA CellwiseInv ==
  ASSUME Layout(sheet'), sheet'.nrows <= MaxRows, Len(sheet'.cols) <= MaxCols,
         NEW f, cells' = f, f = [p \in G!Cells |-> f[p]],
         \A p \in G!Cells : f[p] = get_cell_value(sheet', p[1], p[2])
  PROVE  SheetInv'
<1> DEFINE t == sheet'
<1>1. Layout(t) /\ t.nrows <= MaxRows /\ Len(t.cols) <= MaxCols
  OBVIOUS
<1>2. \A p \in G!Cells : f[p] = get_cell_value(t, p[1], p[2])
  OBVIOUS
<1>3. Shown(sheet)' = Shown(t)
  BY DEF Shown, get_cell_value, chunk_of_row, t
<1> HIDE DEF t
<1>4. f = Shown(t)
  BY <1>2, GridsAgree
<1> QED BY <1>1, <1>3, <1>4 DEF SheetInv, t

\* Inserting rows preserves it.
LEMMA InsertRowsInv ==
  ASSUME SheetInv, Rules = AllRules, NEW before \in 0..MaxRows, NEW count \in 1..MaxBand,
         EngineInsertRows(before, count)
  PROVE  SheetInv'
<1> DEFINE u == insert_rows(sheet, before, count)
           t == sheet'
           f == cells'
<1>0. /\ MaxRows \in Nat /\ MaxCols \in Nat /\ sheet.nrows \in Nat /\ Len(sheet.cols) \in Nat
      /\ before \in Nat /\ count \in Nat /\ count > 0
  BY SheetAssumption DEF SheetInv, Layout, SheetRecords
<1>1. count <= ChunkRows /\ sheet.cols # <<>> /\ sheet.nrows + count <= MaxRows
  BY DEF EngineInsertRows, AllRules
<1>2. t = clear_computed_overlay_after_row(u, before)
  BY DEF EngineInsertRows
<1>3. f = [p \in G!Cells |->
             IF p[1] < before THEN cells[p]
             ELSE IF p[1] < before + count THEN Blank
             ELSE G!Moved(p[1] - count, p[2], TRUE)]
  BY DEF EngineInsertRows, G!InsertRows
<1>4. RowsInserted(sheet, u, before, count)
  <2>1. Layout(sheet)
    BY DEF SheetInv
  <2>2. CASE sheet.nrows = 0
    BY <1>0, <1>1, <2>1, <2>2, InsertIntoEmpty
  <2>3. CASE sheet.nrows > 0
    BY <1>0, <1>1, <2>1, <2>3, InsertInside
  <2> QED BY <1>0, <2>2, <2>3
<1> HIDE DEF u, t, f
<1>5. Layout(u) /\ u.nrows = sheet.nrows + count /\ Len(u.cols) = Len(sheet.cols)
  BY <1>4 DEF RowsInserted
<1>6. /\ Layout(t) /\ t.nrows = u.nrows /\ Len(t.cols) = Len(u.cols)
      /\ \A r, c \in Nat : get_cell_value(t, r, c) =
           IF r >= before THEN Cleared(get_cell_value(u, r, c)) ELSE get_cell_value(u, r, c)
  BY <1>0, <1>2, <1>5, RowsCleared
<1>7. ASSUME NEW p \in G!Cells PROVE f[p] = get_cell_value(t, p[1], p[2])
  <2> DEFINE r == p[1]
             c == p[2]
  <2>1. cells[p] = get_cell_value(sheet, r, c) /\ r \in Nat /\ c \in Nat
    BY ShownAt DEF SheetInv
  <2>2. f[p] = IF r < before THEN cells[p] ELSE IF r < before + count THEN Blank
               ELSE G!Moved(r - count, c, TRUE)
    BY <1>3
  <2>3. ~(r < before) /\ ~(r < before + count) =>
          r - count \in Nat /\ f[p] = G!Moved(r - count, c, TRUE)
    BY <1>0, <2>1, <2>2
  <2>4. (r < before => f[p] = cells[p]) /\ (~(r < before) /\ r < before + count => f[p] = Blank)
    BY <2>2
  <2> HIDE DEF r, c
  <2>5. get_cell_value(u, r, c) =
          IF r < before THEN get_cell_value(sheet, r, c)
          ELSE IF r < before + count THEN Blank ELSE get_cell_value(sheet, r - count, c)
    BY <1>4, <2>1 DEF RowsInserted
  <2>6. get_cell_value(t, r, c) =
          IF r >= before THEN Cleared(get_cell_value(u, r, c)) ELSE get_cell_value(u, r, c)
    BY <1>6, <2>1
  <2>7. f[p] = get_cell_value(t, r, c)
    <3>1. CASE r < before
      <4>1. ~(r >= before)
        BY <1>0, <2>1, <3>1
      <4> QED BY <2>1, <2>4, <2>5, <2>6, <3>1, <4>1
    <3>2. CASE ~(r < before) /\ r < before + count
      <4>1. r >= before
        BY <1>0, <2>1, <3>2
      <4> QED BY <2>4, <2>5, <2>6, <3>2, <4>1, BlankIs DEF Cleared
    <3>3. CASE ~(r < before) /\ ~(r < before + count)
      <4>1. r >= before
        BY <1>0, <2>1, <3>3
      <4>2. f[p] = Cleared(get_cell_value(sheet, r - count, c))
        BY <2>1, <2>3, <3>3, MovedIs
      <4> QED BY <2>5, <2>6, <3>3, <4>1, <4>2
    <3> QED BY <3>1, <3>2, <3>3
  <2> QED BY <2>7 DEF r, c
<1>8. f = [p \in G!Cells |-> f[p]]
  BY <1>3
<1>9. Layout(t) /\ t.nrows <= MaxRows /\ Len(t.cols) <= MaxCols
  BY <1>1, <1>5, <1>6 DEF SheetInv
<1>10. cells' = f /\ sheet' = t
  BY DEF f, t
<1> QED BY <1>7, <1>8, <1>9, <1>10, CellwiseInv

\* Deleting rows preserves it.
LEMMA DeleteRowsInv ==
  ASSUME SheetInv, Rules = AllRules, NEW start \in 0..MaxRows, NEW count \in 1..MaxBand,
         EngineDeleteRows(start, count)
  PROVE  SheetInv'
<1> DEFINE u == delete_rows(sheet, start, count)
           t == sheet'
           f == cells'
<1>0. /\ MaxRows \in Nat /\ MaxCols \in Nat /\ sheet.nrows \in Nat /\ Len(sheet.cols) \in Nat
      /\ start \in Nat /\ count \in Nat /\ count > 0
  BY SheetAssumption DEF SheetInv, Layout, SheetRecords
<1>1. sheet.cols # <<>>
  BY DEF EngineDeleteRows, AllRules
<1>2. t = clear_computed_overlay_after_row(u, start)
  BY DEF EngineDeleteRows
<1>3. f = [p \in G!Cells |-> IF p[1] < start THEN cells[p] ELSE G!Moved(p[1] + count, p[2], TRUE)]
  BY DEF EngineDeleteRows, G!DeleteRows
<1>4. RowsDeleted(sheet, u, start, count)
  <2>1. Layout(sheet)
    BY DEF SheetInv
  <2> QED BY <1>0, <1>1, <2>1, DeleteInside
<1> HIDE DEF u, t, f
<1>5. Layout(u) /\ u.nrows <= sheet.nrows /\ Len(u.cols) = Len(sheet.cols)
  BY <1>4 DEF RowsDeleted
<1>6. /\ Layout(t) /\ t.nrows = u.nrows /\ Len(t.cols) = Len(u.cols)
      /\ \A r, c \in Nat : get_cell_value(t, r, c) =
           IF r >= start THEN Cleared(get_cell_value(u, r, c)) ELSE get_cell_value(u, r, c)
  BY <1>0, <1>2, <1>5, RowsCleared
<1>7. ASSUME NEW p \in G!Cells PROVE f[p] = get_cell_value(t, p[1], p[2])
  <2> DEFINE r == p[1]
             c == p[2]
  <2>1. cells[p] = get_cell_value(sheet, r, c) /\ r \in Nat /\ c \in Nat
    BY ShownAt DEF SheetInv
  <2>2. f[p] = IF r < start THEN cells[p] ELSE G!Moved(r + count, c, TRUE)
    BY <1>3
  <2> HIDE DEF r, c
  <2>3. get_cell_value(u, r, c) =
          IF r < start THEN get_cell_value(sheet, r, c) ELSE get_cell_value(sheet, r + count, c)
    BY <1>4, <2>1 DEF RowsDeleted
  <2>4. get_cell_value(t, r, c) =
          IF r >= start THEN Cleared(get_cell_value(u, r, c)) ELSE get_cell_value(u, r, c)
    BY <1>6, <2>1
  <2>5. r + count \in Nat /\ (r >= start <=> ~(r < start))
    BY <1>0, <2>1
  <2>6. G!Moved(r + count, c, TRUE) = Cleared(get_cell_value(sheet, r + count, c))
    BY <2>1, <2>5, MovedIs
  <2>7. f[p] = get_cell_value(t, r, c)
    BY <2>1, <2>2, <2>3, <2>4, <2>5, <2>6
  <2> QED BY <2>7 DEF r, c
<1>8. f = [p \in G!Cells |-> f[p]]
  BY <1>3
<1>9. Layout(t) /\ t.nrows <= MaxRows /\ Len(t.cols) <= MaxCols
  <2>1. u.nrows \in Nat
    BY <1>5 DEF Layout, SheetRecords
  <2> QED BY <1>0, <1>5, <1>6, <2>1 DEF SheetInv
<1>10. cells' = f /\ sheet' = t
  BY DEF f, t
<1> QED BY <1>7, <1>8, <1>9, <1>10, CellwiseInv

\* Inserting columns preserves it.
LEMMA InsertColumnsInv ==
  ASSUME SheetInv, NEW before \in 0..MaxCols, NEW count \in 1..MaxBand,
         EngineInsertColumns(before, count)
  PROVE  SheetInv'
<1> DEFINE u == insert_columns(sheet, before, count)
           t == sheet'
           f == cells'
<1>0. /\ MaxRows \in Nat /\ MaxCols \in Nat /\ sheet.nrows \in Nat /\ Len(sheet.cols) \in Nat
      /\ before \in Nat /\ count \in Nat /\ count > 0
  BY SheetAssumption DEF SheetInv, Layout, SheetRecords
<1>1. Len(sheet.cols) + count <= MaxCols
  BY DEF EngineInsertColumns
<1>2. t = clear_computed_overlay_after_col(u, before)
  BY DEF EngineInsertColumns
<1>3. f = [p \in G!Cells |->
             IF p[2] < before THEN cells[p]
             ELSE IF p[2] < before + count THEN Blank
             ELSE G!Moved(p[1], p[2] - count, TRUE)]
  BY DEF EngineInsertColumns, G!InsertColumns
<1>4. ColsInserted(sheet, u, before, count)
  <2>1. Layout(sheet)
    BY DEF SheetInv
  <2> QED BY <1>0, <2>1, InsertColsInside
<1> HIDE DEF u, t, f
<1>5. Layout(u) /\ u.nrows = sheet.nrows /\ Len(u.cols) = Len(sheet.cols) + count
  BY <1>4 DEF ColsInserted
<1>6. /\ Layout(t) /\ t.nrows = u.nrows /\ Len(t.cols) = Len(u.cols)
      /\ \A r, c \in Nat : get_cell_value(t, r, c) =
           IF c >= before THEN Cleared(get_cell_value(u, r, c)) ELSE get_cell_value(u, r, c)
  BY <1>0, <1>2, <1>5, ColsCleared
<1>7. ASSUME NEW p \in G!Cells PROVE f[p] = get_cell_value(t, p[1], p[2])
  <2> DEFINE r == p[1]
             c == p[2]
  <2>1. cells[p] = get_cell_value(sheet, r, c) /\ r \in Nat /\ c \in Nat
    BY ShownAt DEF SheetInv
  <2>2. f[p] = IF c < before THEN cells[p] ELSE IF c < before + count THEN Blank
               ELSE G!Moved(r, c - count, TRUE)
    BY <1>3
  <2> HIDE DEF r, c
  <2>3. ~(c < before) /\ ~(c < before + count) => c - count \in Nat
    BY <1>0, <2>1
  <2>5. get_cell_value(u, r, c) =
          IF c < before THEN get_cell_value(sheet, r, c)
          ELSE IF c < before + count THEN Blank ELSE get_cell_value(sheet, r, c - count)
    BY <1>4, <2>1 DEF ColsInserted
  <2>6. get_cell_value(t, r, c) =
          IF c >= before THEN Cleared(get_cell_value(u, r, c)) ELSE get_cell_value(u, r, c)
    BY <1>6, <2>1
  <2>7. f[p] = get_cell_value(t, r, c)
    <3>1. CASE c < before
      <4>1. ~(c >= before)
        BY <1>0, <2>1, <3>1
      <4> QED BY <2>1, <2>2, <2>5, <2>6, <3>1, <4>1
    <3>2. CASE ~(c < before) /\ c < before + count
      <4>1. c >= before
        BY <1>0, <2>1, <3>2
      <4> QED BY <2>2, <2>5, <2>6, <3>2, <4>1, BlankIs DEF Cleared
    <3>3. CASE ~(c < before) /\ ~(c < before + count)
      <4>1. c >= before
        BY <1>0, <2>1, <3>3
      <4>2. f[p] = Cleared(get_cell_value(sheet, r, c - count))
        BY <2>1, <2>2, <2>3, <3>3, MovedIs
      <4> QED BY <2>5, <2>6, <3>3, <4>1, <4>2
    <3> QED BY <3>1, <3>2, <3>3
  <2> QED BY <2>7 DEF r, c
<1>8. f = [p \in G!Cells |-> f[p]]
  BY <1>3
<1>9. Layout(t) /\ t.nrows <= MaxRows /\ Len(t.cols) <= MaxCols
  BY <1>1, <1>5, <1>6 DEF SheetInv
<1>10. cells' = f /\ sheet' = t
  BY DEF f, t
<1> QED BY <1>7, <1>8, <1>9, <1>10, CellwiseInv

\* Deleting columns preserves it.
LEMMA DeleteColumnsInv ==
  ASSUME SheetInv, Rules = AllRules, NEW start \in 0..MaxCols, NEW count \in 1..MaxBand,
         EngineDeleteColumns(start, count)
  PROVE  SheetInv'
<1> DEFINE u == delete_columns(sheet, start, count)
           t == sheet'
           f == cells'
<1>0. /\ MaxRows \in Nat /\ MaxCols \in Nat /\ sheet.nrows \in Nat /\ Len(sheet.cols) \in Nat
      /\ start \in Nat /\ count \in Nat /\ count > 0
  BY SheetAssumption DEF SheetInv, Layout, SheetRecords
<1>1. start < Len(sheet.cols) /\ (0 < start \/ start + count < Len(sheet.cols))
  <2>1. start < Len(sheet.cols)
    BY DEF EngineDeleteColumns
  <2>2. PICK c \in 0..Len(sheet.cols) - 1 : c \notin start..start + count - 1
    BY DEF EngineDeleteColumns, AllRules
  <2> QED BY <1>0, <2>1, <2>2
<1>2. t = clear_computed_overlay_after_col(u, start)
  BY DEF EngineDeleteColumns
<1>3. f = [p \in G!Cells |-> IF p[2] < start THEN cells[p] ELSE G!Moved(p[1], p[2] + count, TRUE)]
  BY DEF EngineDeleteColumns, G!DeleteColumns
<1>4. ColsDeleted(sheet, u, start, count)
  <2>1. Layout(sheet)
    BY DEF SheetInv
  <2> QED BY <1>0, <1>1, <2>1, DeleteColsInside
<1> HIDE DEF u, t, f
<1>5. Layout(u) /\ u.nrows = sheet.nrows /\ Len(u.cols) <= Len(sheet.cols)
  BY <1>4 DEF ColsDeleted
<1>6. /\ Layout(t) /\ t.nrows = u.nrows /\ Len(t.cols) = Len(u.cols)
      /\ \A r, c \in Nat : get_cell_value(t, r, c) =
           IF c >= start THEN Cleared(get_cell_value(u, r, c)) ELSE get_cell_value(u, r, c)
  BY <1>0, <1>2, <1>5, ColsCleared
<1>7. ASSUME NEW p \in G!Cells PROVE f[p] = get_cell_value(t, p[1], p[2])
  <2> DEFINE r == p[1]
             c == p[2]
  <2>1. cells[p] = get_cell_value(sheet, r, c) /\ r \in Nat /\ c \in Nat
    BY ShownAt DEF SheetInv
  <2>2. f[p] = IF c < start THEN cells[p] ELSE G!Moved(r, c + count, TRUE)
    BY <1>3
  <2> HIDE DEF r, c
  <2>3. get_cell_value(u, r, c) =
          IF c < start THEN get_cell_value(sheet, r, c) ELSE get_cell_value(sheet, r, c + count)
    BY <1>4, <2>1 DEF ColsDeleted
  <2>4. get_cell_value(t, r, c) =
          IF c >= start THEN Cleared(get_cell_value(u, r, c)) ELSE get_cell_value(u, r, c)
    BY <1>6, <2>1
  <2>5. c + count \in Nat /\ (c >= start <=> ~(c < start))
    BY <1>0, <2>1
  <2>6. G!Moved(r, c + count, TRUE) = Cleared(get_cell_value(sheet, r, c + count))
    BY <2>1, <2>5, MovedIs
  <2>7. f[p] = get_cell_value(t, r, c)
    BY <2>1, <2>2, <2>3, <2>4, <2>5, <2>6
  <2> QED BY <2>7 DEF r, c
<1>8. f = [p \in G!Cells |-> f[p]]
  BY <1>3
<1>9. Layout(t) /\ t.nrows <= MaxRows /\ Len(t.cols) <= MaxCols
  <2>1. Len(u.cols) \in Nat
    BY <1>5 DEF Layout, SheetRecords
  <2> QED BY <1>0, <1>5, <1>6, <2>1 DEF SheetInv
<1>10. cells' = f /\ sheet' = t
  BY DEF f, t
<1> QED BY <1>7, <1>8, <1>9, <1>10, CellwiseInv

\* Every operation preserves the invariant, for clients that keep to the rules.
LEMMA SheetStep ==
  ASSUME SheetInv, Rules = AllRules, [SheetNext]_<<sheet, cells>>
  PROVE  SheetInv'
<1>1. ASSUME NEW line \in 0..MaxRows - 1, NEW col \in 0..MaxCols - 1, NEW v \in Contents,
             Write(line, col, v)
      PROVE  SheetInv'
  BY <1>1, WriteInv
<1>2. ASSUME NEW at \in 0..MaxRows, NEW count \in 1..MaxBand, EngineInsertRows(at, count)
      PROVE  SheetInv'
  BY <1>2, InsertRowsInv
<1>3. ASSUME NEW at \in 0..MaxRows, NEW count \in 1..MaxBand, EngineDeleteRows(at, count)
      PROVE  SheetInv'
  BY <1>3, DeleteRowsInv
<1>4. ASSUME NEW at \in 0..MaxCols, NEW count \in 1..MaxBand, EngineInsertColumns(at, count)
      PROVE  SheetInv'
  BY <1>4, InsertColumnsInv
<1>5. ASSUME NEW at \in 0..MaxCols, NEW count \in 1..MaxBand, EngineDeleteColumns(at, count)
      PROVE  SheetInv'
  BY <1>5, DeleteColumnsInv
<1>6. ASSUME UNCHANGED <<sheet, cells>> PROVE SheetInv'
  <2>1. Shown(sheet)' = Shown(sheet)
    BY <1>6 DEF Shown, get_cell_value, chunk_of_row
  <2> QED BY <1>6, <2>1 DEF SheetInv
<1> QED BY <1>1, <1>2, <1>3, <1>4, <1>5, <1>6 DEF SheetNext

\* The invariant implies what the run checks.
LEMMA InvImplies ==
  ASSUME SheetInv PROVE LayoutOK /\ ShowsGrid
<1> DEFINE m == sheet.starts
           nr == sheet.nrows
<1>0. /\ MaxRows \in Nat /\ MaxCols \in Nat /\ nr \in Nat /\ Len(m) \in Nat /\ m \in Seq(Nat)
      /\ Tiles(m, nr) /\ nr <= MaxRows /\ Layout(sheet)
  BY SheetAssumption DEF SheetInv, Layout, SheetRecords
<1>1. \A i \in 1..Len(m) : /\ m[i] \in Nat /\ EndOf(m, nr, i) \in Nat
                           /\ m[i] < EndOf(m, nr, i) /\ EndOf(m, nr, i) <= nr
  BY <1>0, TilesRows
<1>2. ASSUME NEW c \in 1..Len(sheet.cols) PROVE ColumnFits(sheet.cols[c], m, nr)
  BY <1>0 DEF Layout
<1>3. SheetTypeOK
  <2>1. nr \in 0..MaxRows /\ \A i \in 1..Len(m) : m[i] \in 0..MaxRows
    BY <1>0, <1>1
  <2>2. ASSUME NEW c \in 1..Len(sheet.cols)
        PROVE  /\ 1..sheet.cols[c].n \subseteq DOMAIN sheet.cols[c].chunk
               /\ \A i \in DOMAIN sheet.cols[c].chunk :
                    \A k \in 1..Len(sheet.cols[c].chunk[i]) : sheet.cols[c].chunk[i][k] \in Contents
    <3> DEFINE ch == sheet.cols[c].chunk
    <3>1. ch \in Partials /\ 1..sheet.cols[c].n \subseteq DOMAIN ch
      BY <1>2 DEF ColumnFits, Columns
    <3>2. \A i \in DOMAIN ch : ch[i] \in Seq(Contents)
      <4> HIDE DEF ch
      <4> QED BY <3>1, PartialIs
    <3> HIDE DEF ch
    <3>3. \A i \in DOMAIN ch : \A k \in 1..Len(ch[i]) : ch[i][k] \in Contents
      BY <3>2
    <3> QED BY <3>1, <3>3 DEF ch
  <2> QED BY <2>1, <2>2 DEF SheetTypeOK, SheetInv
<1>4. MapOK
  <2>1. (nr = 0) <=> (m = <<>>)
    BY <1>0 DEF Tiles
  <2>2. ASSUME m # <<>> PROVE m[1] = 0 /\ Last(m) < nr
    <3>1. Len(m) \in 1..Len(m) /\ m[1] = 0
      BY <1>0, <2>2 DEF Tiles
    <3>2. Last(m) = m[Len(m)]
      BY DEF Last
    <3>3. m[Len(m)] < nr
      BY <1>0, <1>1, <3>1
    <3> QED BY <3>1, <3>2, <3>3
  <2>3. ASSUME NEW i \in 1..Len(m) - 1 PROVE m[i] < m[i + 1]
    <3>1. i \in 1..Len(m) /\ i < Len(m)
      BY <1>0
    <3>2. EndOf(m, nr, i) = m[i + 1]
      BY <3>1 DEF EndOf
    <3> QED BY <1>1, <3>1, <3>2
  <2> QED BY <2>1, <2>2, <2>3 DEF MapOK
<1>5. ChunksFit
  <2>1. ASSUME NEW c \in 1..Len(sheet.cols), NEW i \in DOMAIN sheet.cols[c].chunk
        PROVE  i <= Len(m) /\ Len(sheet.cols[c].chunk[i]) = MapLen(sheet, i)
    <3>1. i \in 1..Len(m) /\ Len(sheet.cols[c].chunk[i]) = EndOf(m, nr, i) - m[i]
      BY <1>2 DEF ColumnFits
    <3>2. MapLen(sheet, i) = EndOf(m, nr, i) - m[i]
      BY <1>0, <3>1, MapLens
    <3> QED BY <1>0, <3>1, <3>2
  <2> QED BY <2>1 DEF ChunksFit
<1> QED BY <1>3, <1>4, <1>5 DEF LayoutOK, ShowsGrid, SheetInv

\* However rows and columns are written, inserted and deleted, and whichever
\* of the two ways rebuilds the sheet, the chunk map gives every row exactly
\* one chunk and every stored chunk the length it has: for clients that keep
\* to the rules.
THEOREM LayoutHolds == Rules = AllRules => (SheetSpec => []LayoutOK)
<1> SUFFICES ASSUME Rules = AllRules PROVE SheetSpec => []LayoutOK
  OBVIOUS
<1>1. SheetInit => SheetInv
  BY InitInv
<1>2. SheetInv /\ [SheetNext]_<<sheet, cells>> => SheetInv'
  BY SheetStep
<1>3. SheetInv => LayoutOK
  BY InvImplies
<1> QED BY <1>1, <1>2, <1>3, PTL DEF SheetSpec

\* The chunked sheet shows the grid after every write and structural edit:
\* get_cell_value finds each value where the edit promises it, and no other.
THEOREM GridIsShown == Rules = AllRules => (SheetSpec => []ShowsGrid)
<1> SUFFICES ASSUME Rules = AllRules PROVE SheetSpec => []ShowsGrid
  OBVIOUS
<1>1. SheetInit => SheetInv
  BY InitInv
<1>2. SheetInv /\ [SheetNext]_<<sheet, cells>> => SheetInv'
  BY SheetStep
<1>3. SheetInv => ShowsGrid
  BY InvImplies
<1> QED BY <1>1, <1>2, <1>3, PTL DEF SheetSpec

===============================================================================
