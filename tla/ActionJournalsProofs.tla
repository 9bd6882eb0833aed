------------------------- MODULE ActionJournalsProofs -------------------------
(***************************************************************************)
(* Theorems about ActionJournals, for any chunk, formulas, values, limits  *)
(* and bounds: as long as no edit buries a delta entry that hides a result *)
(* (Buries), the journals implement LinearHistory and no value cell shows  *)
(* a result.  Evaluation and compaction of one chunk are both in scope;    *)
(* the one step that is not is the step after which NoStaleResult fails.   *)
(*                                                                         *)
(* A journal is a bridge between two sheets: of each cell and layer its    *)
(* first entry knows what was there before, its last entry what was there  *)
(* after.  The invariant says so of every journal and the two sheets of    *)
(* the history beside it; the overlays themselves need not be what they    *)
(* were, only show it.                                                     *)
(***************************************************************************)
EXTENDS ActionJournals, FiniteSetTheorems, SequenceTheorems, WellFoundedInduction, TLAPS

\* The hypothesis of the theorems: no step is an edit that buries.
NeverBuries == [][~Buries]_vars

-----------------------------------------------------------------------------
(* The inductive invariant *)

\* What is stored for a user, and what a sheet shows.
Plains == Values \cup {Empty}
Sheets == [Cells -> Formulas \cup Plains]

Books == [formula : [Cells -> Formulas \cup {None}], delta : [Cells -> Plains \cup {None}],
          computed : [Cells -> {Result, None}], base : [Cells -> Plains], limit : Limits]

\* The layers of the journal, and what they hold.
Held(l) == CASE l = "formula"  -> Formulas \cup {None}
             [] l = "delta"    -> Plains \cup {None}
             [] l = "computed" -> {Result, None}
Entries(l) == [layer : {l}, cell : Cells, old : Held(l), new : Held(l)]
Writes == UNION {[layer : {l}, cell : Cells, value : Held(l)] :
                   l \in {"formula", "delta", "computed"}}
Journals == [events : Seq(Entries("formula")),
             ops : Seq(Entries("delta") \cup Entries("computed"))]

\* What a content puts in the graph and in the delta overlay.
FormulaOf(x) == IF x \in Formulas THEN x ELSE None
DeltaOf(x) == IF x \in Formulas THEN None ELSE x

\* The entries of a cell in one layer.
Mine(es, l, c) == {i \in 1..Len(es) : es[i].layer = l /\ es[i].cell = c}

\* The entries lead from x to y.
Spans(es, l, c, x, y) ==
  /\ Mine(es, l, c) = {} => x = y
  /\ \A i \in Mine(es, l, c) :
       /\ (\A k \in Mine(es, l, c) : i <= k) => es[i].old = x
       /\ (\A k \in Mine(es, l, c) : k <= i) => es[i].new = y

\* j leads from sheet P to sheet Q.
Bridge(j, P, Q) ==
  /\ j \in Journals
  /\ \A c \in Cells :
       /\ Spans(j.events, "formula", c, FormulaOf(P[c]), FormulaOf(Q[c]))
       /\ Spans(j.ops, "delta", c, DeltaOf(P[c]), DeltaOf(Q[c]))

\* A value cell without a delta entry has no computed entry, and no journal
\* gives it one without giving it a delta entry too.
BookOK(b, retyped) ==
  /\ b \in Books
  /\ \A c \in Cells :
       b.formula[c] = None /\ b.delta[c] = None => b.computed[c] = None /\ c \notin retyped

\* The sheets that the journals connect.
Committed == IF open THEN past[Len(past)] ELSE SheetOf(book)
AfterDone(k) == IF k < Len(done) THEN past[k + 1] ELSE Committed
BeforeUndone(k) == IF k < Len(undone) THEN future[k + 1] ELSE Committed

HistoryOK ==
  /\ open \in BOOLEAN
  /\ past \in Seq(Sheets) /\ future \in Seq(Sheets)
  /\ done \in Seq(Journals) /\ undone \in Seq(Journals)
  /\ Len(past) = Len(done) + (IF open THEN 1 ELSE 0)
  /\ Len(future) = Len(undone)
  /\ Len(done) + Len(undone) <= MaxActions
  /\ open => Len(done) < MaxActions
  /\ Len(journal.events) <= MaxEdits
  /\ ~open => journal = EmptyJournal

BridgesOK ==
  /\ open => Bridge(journal, past[Len(past)], SheetOf(book))
  /\ \A k \in 1..Len(done) : Bridge(done[k], past[k], AfterDone(k))
  /\ \A k \in 1..Len(undone) : Bridge(undone[k], BeforeUndone(k), future[k])

IInv == BookOK(book, AllRetyped) /\ HistoryOK /\ BridgesOK

-----------------------------------------------------------------------------
(* Least and greatest elements *)

\* A set of numbers has a least element.
LEMMA LeastElement ==
  ASSUME NEW S \in SUBSET Nat, S # {}
  PROVE  \E x \in S : \A y \in S : x <= y
<1> DEFINE R == OpToRel(<, Nat)
<1>1. IsWellFoundedOn(R, Nat)
  BY NatLessThanWellFounded
<1>2. \A x, y \in Nat : y < x => <<y, x>> \in R
  BY DEF OpToRel
<1> HIDE DEF R
<1>3. PICK x \in S : \A y \in S : ~(<<y, x>> \in R)
  BY <1>1, WFMin
<1>4. \A y \in S : ~(y < x)
  BY <1>2, <1>3, Zenon
<1> QED BY <1>4

\* A bounded set of numbers has a greatest one.
LEMMA GreatestElement ==
  ASSUME NEW n \in Nat, NEW S \in SUBSET (1..n), S # {}
  PROVE  \E x \in S : \A y \in S : y <= x
<1> DEFINE T == {n - i : i \in S}
<1>1. T \in SUBSET Nat /\ T # {}
  <2>1. \A i \in S : n - i \in Nat
    OBVIOUS
  <2> QED BY <2>1
<1>2. PICK x \in T : \A y \in T : x <= y
  <2> HIDE DEF T
  <2> QED BY <1>1, LeastElement
<1>3. PICK i \in S : x = n - i
  BY <1>2
<1>4. \A y \in S : n - i <= n - y
  BY <1>2, <1>3
<1> QED BY <1>4

-----------------------------------------------------------------------------
(* Replaying writes *)

Layers == {"formula", "delta", "computed"}

At(b, l, c) == CASE l = "formula"  -> b.formula[c]
                 [] l = "delta"    -> b.delta[c]
                 [] l = "computed" -> b.computed[c]

\* A write changes one cell of one layer.
LEMMA SetRawFacts ==
  ASSUME NEW b \in Books, NEW w \in Writes
  PROVE  /\ SetRaw(b, w) \in Books
         /\ SetRaw(b, w).base = b.base /\ SetRaw(b, w).limit = b.limit
         /\ \A l \in Layers, c \in Cells :
              At(SetRaw(b, w), l, c) =
                IF w.layer = l /\ w.cell = c THEN w.value ELSE At(b, l, c)
<1>1. PICK l \in Layers : w \in [layer : {l}, cell : Cells, value : Held(l)]
  BY DEF Writes, Layers
<1>2. w.layer = l /\ w.cell \in Cells /\ w.value \in Held(l)
  BY <1>1
<1>3. CASE l = "formula"
  <2>1. SetRaw(b, w) = [b EXCEPT !.formula[w.cell] = w.value] /\ w.value \in Formulas \cup {None}
    BY <1>2, <1>3 DEF SetRaw, Held
  <2> QED BY <1>2, <1>3, <2>1 DEF At, Layers, Books
<1>4. CASE l = "delta"
  <2>1. SetRaw(b, w) = [b EXCEPT !.delta[w.cell] = w.value] /\ w.value \in Plains \cup {None}
    BY <1>2, <1>4 DEF SetRaw, SetDeltaRaw, Held
  <2> QED BY <1>2, <1>4, <2>1 DEF At, Layers, Books
<1>5. CASE l = "computed"
  <2>1. SetRaw(b, w) = [b EXCEPT !.computed[w.cell] = w.value] /\ w.value \in {Result, None}
    BY <1>2, <1>5 DEF SetRaw, SetComputed, Held
  <2> QED BY <1>2, <1>5, <2>1 DEF At, Layers, Books
<1> QED BY <1>3, <1>4, <1>5 DEF Layers

\* s is the loop over the first n writes.
Loop(b, writes, n, s) ==
  s = [k \in 0..n |-> IF k = 0 THEN b ELSE SetRaw(s[k - 1], writes[k])]

LEMMA LoopExists ==
  ASSUME NEW b \in Books, NEW writes \in Seq(Writes), NEW n \in 0..Len(writes)
  PROVE  \E s \in [0..n -> Books] : Loop(b, writes, n, s)
<1> DEFINE Has(m) == \E s \in [0..m -> Books] : Loop(b, writes, m, s)
           T == {m \in 0..Len(writes) : ~Has(m)}
<1>1. Has(0)
  <2> DEFINE s == [k \in 0..0 |-> b]
  <2>1. s \in [0..0 -> Books] /\ Loop(b, writes, 0, s)
    BY DEF Loop
  <2> QED BY <2>1
<1>2. ASSUME NEW m \in 1..Len(writes), Has(m - 1) PROVE Has(m)
  <2>1. PICK s \in [0..(m - 1) -> Books] : Loop(b, writes, m - 1, s)
    BY <1>2
  <2> DEFINE next == SetRaw(s[m - 1], writes[m])
             t == [k \in 0..m |-> IF k = m THEN next ELSE s[k]]
  <2>2. next \in Books
    <3>1. s[m - 1] \in Books /\ writes[m] \in Writes
      BY <2>1
    <3> QED BY <3>1, SetRawFacts
  <2>3. t \in [0..m -> Books]
    <3> HIDE DEF next
    <3> QED BY <2>2
  <2>4. \A k \in 0..m : t[k] = IF k = 0 THEN b ELSE SetRaw(t[k - 1], writes[k])
    <3> TAKE k \in 0..m
    <3>1. CASE k = m
      BY <3>1
    <3>2. CASE k < m
      <4>1. s[k] = IF k = 0 THEN b ELSE SetRaw(s[k - 1], writes[k])
        BY <2>1, <3>2 DEF Loop
      <4> QED BY <3>2, <4>1
    <3> QED BY <3>1, <3>2
  <2>5. Loop(b, writes, m, t)
    <3> HIDE DEF next
    <3> QED BY <2>4 DEF Loop
  <2> QED BY <2>3, <2>5
<1>3. T = {}
  <2> SUFFICES ASSUME T # {} PROVE FALSE
    OBVIOUS
  <2>1. T \in SUBSET Nat
    OBVIOUS
  <2>2. PICK m \in T : \A y \in T : m <= y
    <3> HIDE DEF T
    <3> QED BY <2>1, LeastElement
  <2>3. m # 0 /\ m \in 0..Len(writes) /\ ~Has(m)
    BY <1>1
  <2>4. m - 1 \in 0..Len(writes) /\ m - 1 \notin T
    BY <2>2, <2>3
  <2>5. Has(m - 1)
    BY <2>4
  <2> HIDE DEF Has
  <2> QED BY <1>2, <2>3, <2>5
<1> QED BY <1>3

\* The replay of a journal is the end of that loop.
LEMMA ReplayIsLoop ==
  ASSUME NEW b \in Books, NEW writes \in Seq(Writes)
  PROVE  \E s \in [0..Len(writes) -> Books] :
           /\ s[0] = b
           /\ \A n \in 1..Len(writes) : s[n] = SetRaw(s[n - 1], writes[n])
           /\ Replay(b, writes) = s[Len(writes)]
<1> DEFINE N == Len(writes)
           s == CHOOSE f : f = [n \in 0..N |-> IF n = 0 THEN b ELSE SetRaw(f[n - 1], writes[n])]
<1>1. \E f : f = [n \in 0..N |-> IF n = 0 THEN b ELSE SetRaw(f[n - 1], writes[n])]
  BY LoopExists DEF Loop
<1>2. s = [n \in 0..N |-> IF n = 0 THEN b ELSE SetRaw(s[n - 1], writes[n])]
  BY <1>1
<1>3. Replay(b, writes) = s[N]
  BY DEF Replay
<1> HIDE DEF s
<1>4. s[0] = b /\ \A n \in 1..N : s[n] = SetRaw(s[n - 1], writes[n])
  BY <1>2
<1> DEFINE T == {n \in 0..N : s[n] \notin Books}
<1>5. T = {}
  <2> SUFFICES ASSUME T # {} PROVE FALSE
    OBVIOUS
  <2>1. PICK m \in T : \A y \in T : m <= y
    <3>1. T \in SUBSET Nat
      OBVIOUS
    <3> HIDE DEF T
    <3> QED BY <3>1, LeastElement
  <2>2. m \in 1..N /\ s[m] \notin Books
    BY <1>4
  <2>3. m - 1 \in 0..N /\ m - 1 \notin T
    BY <2>1, <2>2
  <2>4. s[m - 1] \in Books /\ writes[m] \in Writes
    BY <2>2, <2>3
  <2>5. s[m] \in Books
    BY <1>4, <2>2, <2>4, SetRawFacts
  <2> QED BY <2>2, <2>5
<1>6. s \in [0..N -> Books]
  <2>1. \A n \in 0..N : s[n] \in Books
    BY <1>5
  <2> QED BY <1>2, <2>1
<1> QED BY <1>3, <1>4, <1>6

\* The writes to a cell of a layer.
Hits(writes, l, c) == {i \in 1..Len(writes) : writes[i].layer = l /\ writes[i].cell = c}

\* The last write to a cell of a layer wins; the base stays.
LEMMA ReplayFacts ==
  ASSUME NEW b \in Books, NEW writes \in Seq(Writes)
  PROVE  /\ Replay(b, writes) \in Books
         /\ Replay(b, writes).base = b.base /\ Replay(b, writes).limit = b.limit
         /\ \A l \in Layers, c \in Cells :
              /\ Hits(writes, l, c) = {} => At(Replay(b, writes), l, c) = At(b, l, c)
              /\ \A i \in Hits(writes, l, c) :
                   (\A k \in Hits(writes, l, c) : k <= i) =>
                     At(Replay(b, writes), l, c) = writes[i].value
<1> DEFINE N == Len(writes)
<1>1. PICK s \in [0..N -> Books] :
        /\ s[0] = b
        /\ \A n \in 1..N : s[n] = SetRaw(s[n - 1], writes[n])
        /\ Replay(b, writes) = s[N]
  BY ReplayIsLoop
<1>2. ASSUME NEW n \in 1..N
      PROVE  /\ s[n].base = s[n - 1].base /\ s[n].limit = s[n - 1].limit
             /\ \A l \in Layers, c \in Cells :
                  At(s[n], l, c) = IF writes[n].layer = l /\ writes[n].cell = c
                                   THEN writes[n].value ELSE At(s[n - 1], l, c)
  <2>1. s[n - 1] \in Books /\ writes[n] \in Writes /\ s[n] = SetRaw(s[n - 1], writes[n])
    BY <1>1
  <2> QED BY <2>1, SetRawFacts
<1> DEFINE Good(n) ==
             /\ s[n].base = b.base /\ s[n].limit = b.limit
             /\ \A l \in Layers, c \in Cells :
                  /\ (\A k \in Hits(writes, l, c) : n < k) => At(s[n], l, c) = At(b, l, c)
                  /\ \A i \in Hits(writes, l, c) :
                       i <= n /\ (\A k \in Hits(writes, l, c) : k <= n => k <= i) =>
                         At(s[n], l, c) = writes[i].value
           T == {n \in 0..N : ~Good(n)}
<1>3. Good(0)
  BY <1>1 DEF Hits
<1>4. ASSUME NEW n \in 1..N, Good(n - 1) PROVE Good(n)
  <2>1. s[n].base = b.base /\ s[n].limit = b.limit
    BY <1>2, <1>4
  <2>2. ASSUME NEW l \in Layers, NEW c \in Cells
        PROVE  /\ (\A k \in Hits(writes, l, c) : n < k) => At(s[n], l, c) = At(b, l, c)
               /\ \A i \in Hits(writes, l, c) :
                    i <= n /\ (\A k \in Hits(writes, l, c) : k <= n => k <= i) =>
                      At(s[n], l, c) = writes[i].value
    <3> DEFINE H == Hits(writes, l, c)
    <3>1. H \subseteq 1..N /\ (n \in H <=> writes[n].layer = l /\ writes[n].cell = c)
      BY DEF Hits
    <3>2. At(s[n], l, c) = IF n \in H THEN writes[n].value ELSE At(s[n - 1], l, c)
      BY <1>2, <3>1
    <3>3. /\ (\A k \in H : n - 1 < k) => At(s[n - 1], l, c) = At(b, l, c)
          /\ \A i \in H : i <= n - 1 /\ (\A k \in H : k <= n - 1 => k <= i) =>
                            At(s[n - 1], l, c) = writes[i].value
      BY <1>4
    <3> HIDE DEF H
    <3>4. (\A k \in H : n < k) => At(s[n], l, c) = At(b, l, c)
      <4> SUFFICES ASSUME \A k \in H : n < k PROVE At(s[n], l, c) = At(b, l, c)
        OBVIOUS
      <4>1. n \notin H
        BY <3>1
      <4>2. \A k \in H : n - 1 < k
        BY <3>1
      <4> QED BY <3>2, <3>3, <4>1, <4>2
    <3>5. ASSUME NEW i \in H, i <= n, \A k \in H : k <= n => k <= i
          PROVE  At(s[n], l, c) = writes[i].value
      <4>1. CASE i = n
        BY <3>2, <4>1
      <4>2. CASE i # n
        <5>1. n \notin H /\ i <= n - 1 /\ \A k \in H : k <= n - 1 => k <= i
          BY <3>1, <3>5, <4>2
        <5> QED BY <3>2, <3>3, <5>1
      <4> QED BY <4>1, <4>2
    <3> QED BY <3>4, <3>5 DEF H
  <2> QED BY <2>1, <2>2
<1>5. T = {}
  <2> SUFFICES ASSUME T # {} PROVE FALSE
    OBVIOUS
  <2>1. PICK m \in T : \A y \in T : m <= y
    <3>1. T \in SUBSET Nat
      OBVIOUS
    <3> HIDE DEF T
    <3> QED BY <3>1, LeastElement
  <2> HIDE DEF Good
  <2>2. m \in 1..N /\ ~Good(m)
    BY <1>3
  <2>3. m - 1 \in 0..N /\ m - 1 \notin T
    BY <2>1, <2>2
  <2>4. Good(m - 1)
    BY <2>3
  <2> QED BY <1>4, <2>2, <2>4
<1>6. Good(N)
  <2> HIDE DEF Good
  <2> QED BY <1>5
<1>7. Replay(b, writes) \in Books
  BY <1>1
<1>8. ASSUME NEW l \in Layers, NEW c \in Cells
      PROVE  /\ Hits(writes, l, c) = {} => At(Replay(b, writes), l, c) = At(b, l, c)
             /\ \A i \in Hits(writes, l, c) :
                  (\A k \in Hits(writes, l, c) : k <= i) =>
                    At(Replay(b, writes), l, c) = writes[i].value
  BY <1>1, <1>6 DEF Hits
<1> QED BY <1>1, <1>6, <1>7, <1>8

AnyEntry == UNION {Entries(l) : l \in Layers}

LEMMA JournalEntries ==
  ASSUME NEW j \in Journals
  PROVE  /\ j.events \in Seq(AnyEntry) /\ j.ops \in Seq(AnyEntry)
         /\ \A c \in Cells : /\ Mine(j.events, "delta", c) = {}
                             /\ Mine(j.events, "computed", c) = {}
                             /\ Mine(j.ops, "formula", c) = {}
<1>1. j.events \in Seq(Entries("formula"))
      /\ j.ops \in Seq(Entries("delta") \cup Entries("computed"))
  BY DEF Journals
<1>2. Entries("formula") \subseteq AnyEntry
      /\ Entries("delta") \cup Entries("computed") \subseteq AnyEntry
  BY DEF AnyEntry, Layers
<1>3. \A i \in 1..Len(j.events) : j.events[i].layer = "formula"
  <2>1. \A i \in 1..Len(j.events) : j.events[i] \in Entries("formula")
    BY <1>1
  <2>2. \A e \in Entries("formula") : e.layer = "formula"
    BY DEF Entries
  <2> QED BY <2>1, <2>2
<1>4. \A i \in 1..Len(j.ops) : j.ops[i].layer \in {"delta", "computed"}
  BY <1>1 DEF Entries
<1>5. j.events \in Seq(AnyEntry) /\ j.ops \in Seq(AnyEntry)
  BY <1>1, <1>2
<1> QED BY <1>3, <1>4, <1>5 DEF Mine

\* A journal gives a cell a computed entry with its delta entry, or has it
\* retyped.
LEMMA RetypedFacts ==
  ASSUME NEW j
  PROVE  /\ \A c : c \in Retyped(j) <=> /\ Mine(j.ops, "computed", c) # {}
                                        /\ Mine(j.ops, "delta", c) = {}
<1>1. \A l, c : c \in Restores(j, l) <=> Mine(j.ops, l, c) # {}
  BY DEF Restores, Mine
<1> QED BY <1>1 DEF Retyped

\* Going back through the entries brings back what was there before them.
LEMMA BackReplay ==
  ASSUME NEW b \in Books, NEW es \in Seq(AnyEntry)
  PROVE  /\ Replay(b, Inverses(es)) \in Books
         /\ Replay(b, Inverses(es)).base = b.base /\ Replay(b, Inverses(es)).limit = b.limit
         /\ \A l \in Layers, c \in Cells :
              /\ Mine(es, l, c) = {} => At(Replay(b, Inverses(es)), l, c) = At(b, l, c)
              /\ \A x, y : Spans(es, l, c, x, y) /\ Mine(es, l, c) # {} =>
                             At(Replay(b, Inverses(es)), l, c) = x
<1> DEFINE w == Inverses(es)
           N == Len(es)
<1>1. ASSUME NEW i \in 1..N
      PROVE  [layer |-> es[i].layer, cell |-> es[i].cell, value |-> es[i].old] \in Writes
  <2>1. PICK l \in Layers : es[i] \in Entries(l)
    BY DEF AnyEntry
  <2>2. es[i].layer = l /\ es[i].cell \in Cells /\ es[i].old \in Held(l)
    BY <2>1 DEF Entries
  <2>3. [layer |-> es[i].layer, cell |-> es[i].cell, value |-> es[i].old]
          \in [layer : {l}, cell : Cells, value : Held(l)]
    BY <2>2
  <2> QED BY <2>3 DEF Writes, Layers
<1>2. \A n \in 1..N : N + 1 - n \in 1..N
  OBVIOUS
<1>3. w \in Seq(Writes) /\ Len(w) = N
  BY <1>1, <1>2 DEF Inverses
<1>4. \A n \in 1..N : /\ w[n].layer = es[N + 1 - n].layer /\ w[n].cell = es[N + 1 - n].cell
                      /\ w[n].value = es[N + 1 - n].old
  BY DEF Inverses
<1> HIDE DEF w
<1>5. /\ Replay(b, w) \in Books
      /\ Replay(b, w).base = b.base /\ Replay(b, w).limit = b.limit
      /\ \A l \in Layers, c \in Cells :
           /\ Hits(w, l, c) = {} => At(Replay(b, w), l, c) = At(b, l, c)
           /\ \A i \in Hits(w, l, c) :
                (\A k \in Hits(w, l, c) : k <= i) => At(Replay(b, w), l, c) = w[i].value
  BY <1>3, ReplayFacts
<1>6. ASSUME NEW l \in Layers, NEW c \in Cells
      PROVE  /\ Mine(es, l, c) = {} => At(Replay(b, w), l, c) = At(b, l, c)
             /\ \A x, y : Spans(es, l, c, x, y) /\ Mine(es, l, c) # {} =>
                            At(Replay(b, w), l, c) = x
  <2> DEFINE M == Mine(es, l, c)
             H == Hits(w, l, c)
  <2>1. M \subseteq 1..N /\ H \subseteq 1..N
    BY <1>3 DEF Mine, Hits
  <2>2. \A n \in 1..N : n \in H <=> N + 1 - n \in M
    BY <1>2, <1>3, <1>4 DEF Mine, Hits
  <2>3. ASSUME NEW x, NEW y, Spans(es, l, c, x, y), M # {}
        PROVE  At(Replay(b, w), l, c) = x
    <3>1. M \in SUBSET Nat
      BY <2>1
    <3>2. PICK i \in M : \A k \in M : i <= k
      <4> HIDE DEF M
      <4> QED BY <2>3, <3>1, LeastElement
    <3>3. es[i].old = x
      BY <2>3, <3>2 DEF Spans
    <3> HIDE DEF M, H
    <3> DEFINE n == N + 1 - i
    <3>4. n \in 1..N /\ N + 1 - n = i /\ n \in H
      BY <2>1, <2>2, <3>2
    <3>5. \A k \in H : k <= n
      <4> TAKE k \in H
      <4>1. k \in 1..N /\ N + 1 - k \in M
        BY <2>1, <2>2
      <4>2. i <= N + 1 - k
        BY <3>2, <4>1
      <4> QED BY <3>4, <4>1, <4>2
    <3>6. w[n].value = x
      BY <1>4, <3>3, <3>4
    <3> HIDE DEF n
    <3> QED BY <1>5, <3>4, <3>5, <3>6 DEF H
  <2>4. M = {} => H = {}
    <3> HIDE DEF M, H
    <3> QED BY <2>1, <2>2
  <2> QED BY <1>5, <2>3, <2>4
<1> QED BY <1>5, <1>6 DEF w

\* Going forward brings back what was there after them.
LEMMA ForthReplay ==
  ASSUME NEW b \in Books, NEW es \in Seq(AnyEntry)
  PROVE  /\ Replay(b, Forwards(es)) \in Books
         /\ Replay(b, Forwards(es)).base = b.base /\ Replay(b, Forwards(es)).limit = b.limit
         /\ \A l \in Layers, c \in Cells :
              /\ Mine(es, l, c) = {} => At(Replay(b, Forwards(es)), l, c) = At(b, l, c)
              /\ \A x, y : Spans(es, l, c, x, y) /\ Mine(es, l, c) # {} =>
                             At(Replay(b, Forwards(es)), l, c) = y
<1> DEFINE w == Forwards(es)
           N == Len(es)
<1>1. ASSUME NEW i \in 1..N
      PROVE  [layer |-> es[i].layer, cell |-> es[i].cell, value |-> es[i].new] \in Writes
  <2>1. PICK l \in Layers : es[i] \in Entries(l)
    BY DEF AnyEntry
  <2>2. es[i].layer = l /\ es[i].cell \in Cells /\ es[i].new \in Held(l)
    BY <2>1 DEF Entries
  <2>3. [layer |-> es[i].layer, cell |-> es[i].cell, value |-> es[i].new]
          \in [layer : {l}, cell : Cells, value : Held(l)]
    BY <2>2
  <2> QED BY <2>3 DEF Writes, Layers
<1>2. w \in Seq(Writes) /\ Len(w) = N
  BY <1>1 DEF Forwards
<1>3. \A n \in 1..N : /\ w[n].layer = es[n].layer /\ w[n].cell = es[n].cell
                      /\ w[n].value = es[n].new
  BY DEF Forwards
<1> HIDE DEF w
<1>4. /\ Replay(b, w) \in Books
      /\ Replay(b, w).base = b.base /\ Replay(b, w).limit = b.limit
      /\ \A l \in Layers, c \in Cells :
           /\ Hits(w, l, c) = {} => At(Replay(b, w), l, c) = At(b, l, c)
           /\ \A i \in Hits(w, l, c) :
                (\A k \in Hits(w, l, c) : k <= i) => At(Replay(b, w), l, c) = w[i].value
  BY <1>2, ReplayFacts
<1>5. ASSUME NEW l \in Layers, NEW c \in Cells
      PROVE  /\ Mine(es, l, c) = {} => At(Replay(b, w), l, c) = At(b, l, c)
             /\ \A x, y : Spans(es, l, c, x, y) /\ Mine(es, l, c) # {} =>
                            At(Replay(b, w), l, c) = y
  <2>1. Hits(w, l, c) = Mine(es, l, c)
    BY <1>2, <1>3 DEF Hits, Mine
  <2> DEFINE M == Mine(es, l, c)
  <2>2. M \in SUBSET (1..N) /\ N \in Nat
    BY DEF Mine
  <2>3. ASSUME NEW x, NEW y, Spans(es, l, c, x, y), M # {}
        PROVE  At(Replay(b, w), l, c) = y
    <3>1. PICK i \in M : \A k \in M : k <= i
      <4> HIDE DEF M
      <4> QED BY <2>2, <2>3, GreatestElement
    <3>2. es[i].new = y /\ i \in 1..N
      BY <2>2, <2>3, <3>1 DEF Spans
    <3> QED BY <1>3, <1>4, <2>1, <3>1, <3>2
  <2> QED BY <1>4, <2>1, <2>3
<1> QED BY <1>4, <1>5 DEF w

-----------------------------------------------------------------------------
(* Sheets *)

\* A workbook shows a sheet; a value cell never shows a result.
LEMMA SheetFacts ==
  ASSUME NEW b, NEW all, BookOK(b, all)
  PROVE  /\ SheetOf(b) \in Sheets
         /\ \A c \in Cells :
              /\ FormulaOf(SheetOf(b)[c]) = b.formula[c]
              /\ b.formula[c] # None => SheetOf(b)[c] = b.formula[c]
              /\ b.formula[c] = None =>
                   SheetOf(b)[c] = ReadCell(b, c) /\ ReadCell(b, c) \in Plains
<1>1. b \in Books
  BY DEF BookOK
<1>2. ASSUME NEW c \in Cells
      PROVE  b.formula[c] \in Formulas \cup {None} /\ b.delta[c] \in Plains \cup {None}
             /\ b.computed[c] \in {Result, None} /\ b.base[c] \in Plains
  BY <1>1 DEF Books
<1>3. ASSUME NEW c \in Cells, b.formula[c] = None PROVE ReadCell(b, c) \in Plains
  <2>1. b.delta[c] = None => b.computed[c] = None
    BY <1>3 DEF BookOK
  <2> QED BY <1>2, <2>1, ContentsAssumption DEF ReadCell, Plains
<1>4. \A c \in Cells : SheetOf(b)[c] = IF b.formula[c] # None THEN b.formula[c] ELSE ReadCell(b, c)
  BY DEF SheetOf
<1>5. \A c \in Cells : SheetOf(b)[c] \in Formulas \cup Plains
  BY <1>2, <1>3, <1>4
<1>6. SheetOf(b) \in Sheets
  BY <1>5 DEF Sheets, SheetOf
<1>7. \A c \in Cells : FormulaOf(SheetOf(b)[c]) = b.formula[c]
  BY <1>2, <1>3, <1>4, ContentsAssumption DEF FormulaOf, Plains
<1> QED BY <1>3, <1>4, <1>6, <1>7

\* What the graph and the delta overlay have to be after a replay for the
\* workbook to show sheet T, whatever it leaves in the other layers.
LEMMA Arrives ==
  ASSUME NEW b, NEW all, BookOK(b, all), NEW b2 \in Books,
         NEW T \in Sheets, b2.base = b.base,
         \A c \in Cells :
           /\ b2.formula[c] = FormulaOf(T[c])
           /\ \/ b2.delta[c] = DeltaOf(T[c])
              \/ /\ b2.delta[c] = b.delta[c] /\ DeltaOf(SheetOf(b)[c]) = DeltaOf(T[c])
                 /\ b2.computed[c] = b.computed[c] \/ c \in all
  PROVE  SheetOf(b2) = T /\ BookOK(b2, all)
<1> DEFINE F == SheetOf(b)
<1>1. /\ F \in Sheets
      /\ \A c \in Cells :
           /\ FormulaOf(F[c]) = b.formula[c]
           /\ b.formula[c] = None => F[c] = ReadCell(b, c)
  BY SheetFacts
<1>3. ASSUME NEW c \in Cells
      PROVE  b.formula[c] = None /\ b.delta[c] = None => b.computed[c] = None /\ c \notin all
  BY DEF BookOK
<1> HIDE DEF F
<1>4. ASSUME NEW c \in Cells, T[c] \notin Formulas, b2.delta[c] # T[c]
      PROVE  /\ b.formula[c] = None /\ F[c] = T[c] /\ b2.delta[c] = b.delta[c]
             /\ b2.computed[c] = b.computed[c] \/ c \in all
  <2>1. T[c] \in Plains /\ F[c] \in Formulas \cup Plains
    BY <1>1, <1>4 DEF Sheets
  <2>2. /\ b2.delta[c] = b.delta[c] /\ DeltaOf(F[c]) = T[c]
        /\ b2.computed[c] = b.computed[c] \/ c \in all
    BY <1>4 DEF DeltaOf, F
  <2>3. F[c] = T[c]
    BY <2>1, <2>2, ContentsAssumption DEF DeltaOf, Plains
  <2> QED BY <1>1, <1>4, <2>2, <2>3 DEF FormulaOf
<1>5. ASSUME NEW c \in Cells PROVE SheetOf(b2)[c] = T[c]
  <2>1. SheetOf(b2)[c] = IF b2.formula[c] # None THEN b2.formula[c] ELSE ReadCell(b2, c)
    BY DEF SheetOf
  <2>2. T[c] \in Formulas \cup Plains /\ None \notin Formulas \cup Plains
    BY ContentsAssumption DEF Sheets, Plains
  <2>3. CASE T[c] \in Formulas
    BY <2>1, <2>2, <2>3 DEF FormulaOf
  <2>4. CASE T[c] \notin Formulas
    <3>1. b2.formula[c] = None
      BY <2>4 DEF FormulaOf
    <3>2. CASE b2.delta[c] = T[c]
      BY <2>1, <2>2, <3>1, <3>2 DEF ReadCell
    <3>3. CASE b2.delta[c] # T[c]
      <4>1. /\ b.formula[c] = None /\ ReadCell(b, c) = T[c] /\ b2.delta[c] = b.delta[c]
            /\ b2.computed[c] = b.computed[c] \/ c \in all
        BY <1>1, <1>4, <2>4, <3>3
      <4>2. b.delta[c] = None => b2.computed[c] = b.computed[c]
        BY <1>3, <4>1
      <4>3. ReadCell(b2, c) = ReadCell(b, c)
        BY <4>1, <4>2 DEF ReadCell
      <4> QED BY <2>1, <3>1, <4>1, <4>3
    <3> QED BY <3>2, <3>3
  <2> QED BY <2>3, <2>4
<1>6. SheetOf(b2) = T
  <2>1. SheetOf(b2) = [c \in Cells |-> SheetOf(b2)[c]]
    BY DEF SheetOf
  <2>2. T = [c \in Cells |-> T[c]]
    BY DEF Sheets
  <2> QED BY <1>5, <2>1, <2>2
<1>7. ASSUME NEW c \in Cells, b2.formula[c] = None, b2.delta[c] = None
      PROVE  b2.computed[c] = None /\ c \notin all
  <2>1. T[c] \notin Formulas /\ T[c] # None
    BY <1>7, ContentsAssumption DEF FormulaOf, Sheets, Plains
  <2>2. /\ b.formula[c] = None /\ b.delta[c] = None
        /\ b2.computed[c] = b.computed[c] \/ c \in all
    BY <1>4, <1>7, <2>1
  <2> QED BY <1>3, <2>2
<1> QED BY <1>6, <1>7 DEF BookOK

\* Undoing a journal crosses its bridge back.
LEMMA UndoCrosses ==
  ASSUME NEW b, NEW all, BookOK(b, all), NEW j, Retyped(j) \subseteq all,
         NEW P \in Sheets, Bridge(j, P, SheetOf(b))
  PROVE  /\ SheetOf(UndoJournal(b, j)) = P /\ BookOK(UndoJournal(b, j), all)
         /\ UndoJournal(b, j).limit = b.limit
<1> DEFINE g == Replay(b, Inverses(j.events))
           r == Replay(g, Inverses(j.ops))
           Q == SheetOf(b)
<1>1. b \in Books /\ j \in Journals
  BY DEF BookOK, Bridge
<1>2. j.events \in Seq(AnyEntry) /\ j.ops \in Seq(AnyEntry)
  BY <1>1, JournalEntries
<1>3. /\ g \in Books /\ g.base = b.base /\ g.limit = b.limit
      /\ \A l \in Layers, c \in Cells :
           /\ Mine(j.events, l, c) = {} => At(g, l, c) = At(b, l, c)
           /\ \A x, y : Spans(j.events, l, c, x, y) /\ Mine(j.events, l, c) # {} =>
                          At(g, l, c) = x
  BY <1>1, <1>2, BackReplay
<1> HIDE DEF g
<1>4. /\ r \in Books /\ r.base = g.base /\ r.limit = g.limit
      /\ \A l \in Layers, c \in Cells :
           /\ Mine(j.ops, l, c) = {} => At(r, l, c) = At(g, l, c)
           /\ \A x, y : Spans(j.ops, l, c, x, y) /\ Mine(j.ops, l, c) # {} =>
                          At(r, l, c) = x
  BY <1>2, <1>3, BackReplay
<1>5. UndoJournal(b, j) = r
  BY DEF UndoJournal, g
<1> HIDE DEF r
<1>6. ASSUME NEW c \in Cells
      PROVE  /\ r.formula[c] = FormulaOf(P[c])
             /\ \/ r.delta[c] = DeltaOf(P[c])
                \/ /\ r.delta[c] = b.delta[c] /\ DeltaOf(Q[c]) = DeltaOf(P[c])
                   /\ r.computed[c] = b.computed[c] \/ c \in all
  <2>1. /\ Spans(j.events, "formula", c, FormulaOf(P[c]), FormulaOf(Q[c]))
        /\ Spans(j.ops, "delta", c, DeltaOf(P[c]), DeltaOf(Q[c]))
    BY DEF Bridge
  <2>2. /\ Mine(j.events, "delta", c) = {} /\ Mine(j.events, "computed", c) = {}
        /\ Mine(j.ops, "formula", c) = {}
        /\ Mine(j.ops, "computed", c) = {} \/ Mine(j.ops, "delta", c) # {} \/ c \in all
    BY <1>1, JournalEntries, RetypedFacts
  <2>3. {"formula", "delta", "computed"} \subseteq Layers
    BY DEF Layers
  <2>4. At(g, "delta", c) = At(b, "delta", c) /\ At(g, "computed", c) = At(b, "computed", c)
        /\ At(r, "formula", c) = At(g, "formula", c)
    BY <1>3, <1>4, <2>2, <2>3
  <2>5. Mine(j.events, "formula", c) # {} => At(g, "formula", c) = FormulaOf(P[c])
    BY <1>3, <2>1, <2>3
  <2>6. Mine(j.events, "formula", c) = {} =>
          At(g, "formula", c) = At(b, "formula", c) /\ FormulaOf(P[c]) = FormulaOf(Q[c])
    BY <1>3, <2>1, <2>3 DEF Spans
  <2>7. At(b, "formula", c) = FormulaOf(Q[c])
    BY SheetFacts DEF At
  <2>8. Mine(j.ops, "delta", c) # {} => At(r, "delta", c) = DeltaOf(P[c])
    BY <1>4, <2>1, <2>3
  <2>9. Mine(j.ops, "delta", c) = {} =>
          At(r, "delta", c) = At(g, "delta", c) /\ DeltaOf(P[c]) = DeltaOf(Q[c])
    BY <1>4, <2>1, <2>3 DEF Spans
  <2>10. Mine(j.ops, "computed", c) = {} => At(r, "computed", c) = At(g, "computed", c)
    BY <1>4, <2>3
  <2>11. \A s \in {b, g, r} : /\ At(s, "formula", c) = s.formula[c]
                              /\ At(s, "delta", c) = s.delta[c]
                              /\ At(s, "computed", c) = s.computed[c]
    BY DEF At
  <2> HIDE DEF Q
  <2> QED BY <2>1, <2>2, <2>4, <2>5, <2>6, <2>7, <2>8, <2>9, <2>10, <2>11
<1>7. SheetOf(r) = P /\ BookOK(r, all)
  <2>1. r.base = b.base
    BY <1>3, <1>4
  <2> QED BY <1>4, <1>6, <2>1, Arrives
<1> QED BY <1>3, <1>4, <1>5, <1>7

\* Redoing it crosses the bridge forward.
LEMMA RedoCrosses ==
  ASSUME NEW b, NEW all, BookOK(b, all), NEW j, Retyped(j) \subseteq all,
         NEW Q \in Sheets, Bridge(j, SheetOf(b), Q)
  PROVE  /\ SheetOf(RedoJournal(b, j)) = Q /\ BookOK(RedoJournal(b, j), all)
         /\ RedoJournal(b, j).limit = b.limit
<1> DEFINE g == Replay(b, Forwards(j.events))
           r == Replay(g, Forwards(j.ops))
           P == SheetOf(b)
<1>1. b \in Books /\ j \in Journals
  BY DEF BookOK, Bridge
<1>2. j.events \in Seq(AnyEntry) /\ j.ops \in Seq(AnyEntry)
  BY <1>1, JournalEntries
<1>3. /\ g \in Books /\ g.base = b.base /\ g.limit = b.limit
      /\ \A l \in Layers, c \in Cells :
           /\ Mine(j.events, l, c) = {} => At(g, l, c) = At(b, l, c)
           /\ \A x, y : Spans(j.events, l, c, x, y) /\ Mine(j.events, l, c) # {} =>
                          At(g, l, c) = y
  BY <1>1, <1>2, ForthReplay
<1> HIDE DEF g
<1>4. /\ r \in Books /\ r.base = g.base /\ r.limit = g.limit
      /\ \A l \in Layers, c \in Cells :
           /\ Mine(j.ops, l, c) = {} => At(r, l, c) = At(g, l, c)
           /\ \A x, y : Spans(j.ops, l, c, x, y) /\ Mine(j.ops, l, c) # {} =>
                          At(r, l, c) = y
  BY <1>2, <1>3, ForthReplay
<1>5. RedoJournal(b, j) = r
  BY DEF RedoJournal, g
<1> HIDE DEF r
<1>6. ASSUME NEW c \in Cells
      PROVE  /\ r.formula[c] = FormulaOf(Q[c])
             /\ \/ r.delta[c] = DeltaOf(Q[c])
                \/ /\ r.delta[c] = b.delta[c] /\ DeltaOf(P[c]) = DeltaOf(Q[c])
                   /\ r.computed[c] = b.computed[c] \/ c \in all
  <2>1. /\ Spans(j.events, "formula", c, FormulaOf(P[c]), FormulaOf(Q[c]))
        /\ Spans(j.ops, "delta", c, DeltaOf(P[c]), DeltaOf(Q[c]))
    BY DEF Bridge
  <2>2. /\ Mine(j.events, "delta", c) = {} /\ Mine(j.events, "computed", c) = {}
        /\ Mine(j.ops, "formula", c) = {}
        /\ Mine(j.ops, "computed", c) = {} \/ Mine(j.ops, "delta", c) # {} \/ c \in all
    BY <1>1, JournalEntries, RetypedFacts
  <2>3. {"formula", "delta", "computed"} \subseteq Layers
    BY DEF Layers
  <2>4. At(g, "delta", c) = At(b, "delta", c) /\ At(g, "computed", c) = At(b, "computed", c)
        /\ At(r, "formula", c) = At(g, "formula", c)
    BY <1>3, <1>4, <2>2, <2>3
  <2>5. Mine(j.events, "formula", c) # {} => At(g, "formula", c) = FormulaOf(Q[c])
    BY <1>3, <2>1, <2>3
  <2>6. Mine(j.events, "formula", c) = {} =>
          At(g, "formula", c) = At(b, "formula", c) /\ FormulaOf(P[c]) = FormulaOf(Q[c])
    BY <1>3, <2>1, <2>3 DEF Spans
  <2>7. At(b, "formula", c) = FormulaOf(P[c])
    BY SheetFacts DEF At
  <2>8. Mine(j.ops, "delta", c) # {} => At(r, "delta", c) = DeltaOf(Q[c])
    BY <1>4, <2>1, <2>3
  <2>9. Mine(j.ops, "delta", c) = {} =>
          At(r, "delta", c) = At(g, "delta", c) /\ DeltaOf(P[c]) = DeltaOf(Q[c])
    BY <1>4, <2>1, <2>3 DEF Spans
  <2>10. Mine(j.ops, "computed", c) = {} => At(r, "computed", c) = At(g, "computed", c)
    BY <1>4, <2>3
  <2>11. \A s \in {b, g, r} : /\ At(s, "formula", c) = s.formula[c]
                              /\ At(s, "delta", c) = s.delta[c]
                              /\ At(s, "computed", c) = s.computed[c]
    BY DEF At
  <2> HIDE DEF P
  <2> QED BY <2>1, <2>2, <2>4, <2>5, <2>6, <2>7, <2>8, <2>9, <2>10, <2>11
<1>7. SheetOf(r) = Q /\ BookOK(r, all)
  <2>1. r.base = b.base
    BY <1>3, <1>4
  <2> QED BY <1>4, <1>6, <2>1, Arrives
<1> QED BY <1>3, <1>4, <1>5, <1>7

-----------------------------------------------------------------------------
(* Recording an edit *)

\* The effects of an edit on the sheet, the workbook and the journal.
Changed(Q, c, x) == [Q EXCEPT ![c] = x]
ValueSet(b, c, v) == MirrorValue([b EXCEPT !.formula[c] = None], c, v)
FormulaSet(b, c, f) == ClearDelta([b EXCEPT !.formula[c] = f], c)
Recorded(j, c, f, g, d, e, u, w) ==
  [events |-> Append(j.events, Event(c, f, g)),
   ops    |-> (j.ops \o Op("delta", c, d, e)) \o Op("computed", c, u, w)]

\* One more entry, and how it changes what the entries span.
LEMMA AppendEntry ==
  ASSUME NEW S, NEW es \in Seq(S), NEW l, NEW c, NEW y, NEW z,
         Entry(l, c, y, z) \in S
  PROVE  /\ Append(es, Entry(l, c, y, z)) \in Seq(S)
         /\ \A x : Spans(es, l, c, x, y) => Spans(Append(es, Entry(l, c, y, z)), l, c, x, z)
         /\ \A m, d : m # l \/ d # c =>
              /\ Mine(Append(es, Entry(l, c, y, z)), m, d) = Mine(es, m, d)
              /\ \A x, w : Spans(es, m, d, x, w) =>
                             Spans(Append(es, Entry(l, c, y, z)), m, d, x, w)
<1> DEFINE e == Entry(l, c, y, z)
           fs == Append(es, e)
           n == Len(es)
<1>1. fs \in Seq(S) /\ Len(fs) = n + 1 /\ fs[n + 1] = e /\ n \in Nat
      /\ \A i \in 1..n : fs[i] = es[i]
  <2>1. e \in S
    OBVIOUS
  <2> HIDE DEF e
  <2> QED BY <2>1
<1>2. e.layer = l /\ e.cell = c /\ e.old = y /\ e.new = z
  BY DEF Entry
<1> HIDE DEF fs, e
<1>3. Mine(fs, l, c) = Mine(es, l, c) \cup {n + 1}
  BY <1>1, <1>2 DEF Mine
<1>4. ASSUME NEW x, Spans(es, l, c, x, y) PROVE Spans(fs, l, c, x, z)
  <2>1. Mine(es, l, c) \subseteq 1..n
    BY DEF Mine
  <2>2. ASSUME NEW i \in Mine(fs, l, c), \A k \in Mine(fs, l, c) : i <= k PROVE fs[i].old = x
    <3>1. CASE Mine(es, l, c) = {}
      BY <1>1, <1>2, <1>3, <1>4, <2>2, <3>1 DEF Spans
    <3>2. CASE Mine(es, l, c) # {}
      <4>1. PICK k \in Mine(es, l, c) : TRUE
        BY <3>2
      <4>2. i \in Mine(es, l, c) /\ \A m \in Mine(es, l, c) : i <= m
        BY <1>1, <1>3, <2>1, <2>2, <4>1
      <4> QED BY <1>1, <1>4, <2>1, <4>2 DEF Spans
    <3> QED BY <3>1, <3>2
  <2>3. ASSUME NEW i \in Mine(fs, l, c), \A k \in Mine(fs, l, c) : k <= i PROVE fs[i].new = z
    <3>1. i = n + 1
      BY <1>1, <1>3, <2>1, <2>3
    <3> QED BY <1>1, <1>2, <3>1
  <2> QED BY <1>3, <2>2, <2>3 DEF Spans
<1>5. ASSUME NEW m, NEW d, m # l \/ d # c
      PROVE  /\ Mine(fs, m, d) = Mine(es, m, d)
             /\ \A x, w : Spans(es, m, d, x, w) => Spans(fs, m, d, x, w)
  <2>1. Mine(fs, m, d) = Mine(es, m, d) /\ Mine(es, m, d) \subseteq 1..n
    BY <1>1, <1>2, <1>5 DEF Mine
  <2> QED BY <1>1, <2>1 DEF Spans
<1> QED BY <1>1, <1>4, <1>5 DEF fs, e

\* An overlay entry that is recorded only if it changes.
LEMMA AppendOp ==
  ASSUME NEW S, NEW es \in Seq(S), NEW l, NEW c, NEW y, NEW z,
         y # z => Entry(l, c, y, z) \in S
  PROVE  /\ es \o Op(l, c, y, z) \in Seq(S)
         /\ \A x : Spans(es, l, c, x, y) => Spans(es \o Op(l, c, y, z), l, c, x, z)
         /\ y = z => es \o Op(l, c, y, z) = es
         /\ \A m, d : m # l \/ d # c =>
              /\ Mine(es \o Op(l, c, y, z), m, d) = Mine(es, m, d)
              /\ \A x, w : Spans(es, m, d, x, w) =>
                             Spans(es \o Op(l, c, y, z), m, d, x, w)
<1>1. CASE y = z
  <2>1. es \o Op(l, c, y, z) = es
    BY <1>1 DEF Op
  <2> QED BY <1>1, <2>1
<1>2. CASE y # z
  <2>1. es \o Op(l, c, y, z) = Append(es, Entry(l, c, y, z))
    <3> DEFINE e == Entry(l, c, y, z)
    <3>1. Op(l, c, y, z) = <<e>>
      BY <1>2 DEF Op
    <3> HIDE DEF e
    <3>2. es \o <<e>> = Append(es, e)
      OBVIOUS
    <3> QED BY <3>1, <3>2 DEF e
  <2> QED BY <1>2, <2>1, AppendEntry
<1> QED BY <1>1, <1>2

\* An edit makes the bridge one cell longer.
LEMMA BridgeExtends ==
  ASSUME NEW j, NEW P, NEW Q \in Sheets, Bridge(j, P, Q),
         NEW c \in Cells, NEW x \in Formulas \cup Plains,
         NEW u \in {Result, None}, NEW w \in {Result, None},
         NEW j2, j2 = Recorded(j, c, FormulaOf(Q[c]), FormulaOf(x), DeltaOf(Q[c]), DeltaOf(x), u, w)
  PROVE  Bridge(j2, P, Changed(Q, c, x)) /\ Retyped(j2) \subseteq Retyped(j) \cup {c}
<1> DEFINE es == Append(j.events, Event(c, FormulaOf(Q[c]), FormulaOf(x)))
           os == j.ops \o Op("delta", c, DeltaOf(Q[c]), DeltaOf(x))
           ps == os \o Op("computed", c, u, w)
           Q2 == Changed(Q, c, x)
           OpSet == Entries("delta") \cup Entries("computed")
<1>0. j2.events = es /\ j2.ops = ps /\ j2 = [events |-> es, ops |-> ps]
  BY DEF Recorded
<1>1. j.events \in Seq(Entries("formula")) /\ j.ops \in Seq(OpSet)
  BY DEF Bridge, Journals
<1>2. Q[c] \in Formulas \cup Plains
  BY DEF Sheets
<1>3. /\ FormulaOf(Q[c]) \in Held("formula") /\ FormulaOf(x) \in Held("formula")
      /\ DeltaOf(Q[c]) \in Held("delta") /\ DeltaOf(x) \in Held("delta")
      /\ u \in Held("computed") /\ w \in Held("computed")
  BY <1>2 DEF FormulaOf, DeltaOf, Held
<1>4. /\ Entry("formula", c, FormulaOf(Q[c]), FormulaOf(x)) \in Entries("formula")
      /\ Entry("delta", c, DeltaOf(Q[c]), DeltaOf(x)) \in OpSet
      /\ Entry("computed", c, u, w) \in OpSet
  BY <1>3 DEF Entry, Entries
<1> HIDE DEF OpSet
<1>5. /\ es \in Seq(Entries("formula"))
      /\ \A y : Spans(j.events, "formula", c, y, FormulaOf(Q[c])) =>
                  Spans(es, "formula", c, y, FormulaOf(x))
      /\ \A d : d # c => \A y, v : Spans(j.events, "formula", d, y, v) =>
                                     Spans(es, "formula", d, y, v)
  BY <1>1, <1>4, AppendEntry DEF Event
<1>6. /\ os \in Seq(OpSet)
      /\ \A y : Spans(j.ops, "delta", c, y, DeltaOf(Q[c])) => Spans(os, "delta", c, y, DeltaOf(x))
      /\ \A d : Mine(os, "computed", d) = Mine(j.ops, "computed", d)
      /\ \A d : d # c => /\ Mine(os, "delta", d) = Mine(j.ops, "delta", d)
                         /\ \A y, v : Spans(j.ops, "delta", d, y, v) => Spans(os, "delta", d, y, v)
  <2>1. /\ os \in Seq(OpSet)
        /\ \A y : Spans(j.ops, "delta", c, y, DeltaOf(Q[c])) => Spans(os, "delta", c, y, DeltaOf(x))
        /\ \A m, d : m # "delta" \/ d # c =>
             /\ Mine(os, m, d) = Mine(j.ops, m, d)
             /\ \A y, v : Spans(j.ops, m, d, y, v) => Spans(os, m, d, y, v)
    BY <1>1, <1>4, AppendOp
  <2> HIDE DEF os
  <2> QED BY <2>1
<1> HIDE DEF os
<1>7. /\ ps \in Seq(OpSet)
      /\ \A d : /\ Mine(ps, "delta", d) = Mine(os, "delta", d)
                /\ \A y, v : Spans(os, "delta", d, y, v) => Spans(ps, "delta", d, y, v)
      /\ \A d : d # c => Mine(ps, "computed", d) = Mine(os, "computed", d)
  BY <1>4, <1>6, AppendOp
<1> HIDE DEF es, ps
<1>8. j2 \in Journals
  BY <1>0, <1>5, <1>7 DEF Journals, OpSet
<1>9. Retyped(j2) \subseteq Retyped(j) \cup {c}
  <2> SUFFICES ASSUME NEW d \in Retyped(j2), d # c PROVE d \in Retyped(j)
    OBVIOUS
  <2>1. Mine(ps, "computed", d) # {} /\ Mine(ps, "delta", d) = {}
    BY <1>0, RetypedFacts
  <2>2. Mine(j.ops, "computed", d) # {} /\ Mine(j.ops, "delta", d) = {}
    BY <1>6, <1>7, <2>1
  <2> QED BY <2>2, RetypedFacts
<1>10. ASSUME NEW d \in Cells
       PROVE  /\ Spans(es, "formula", d, FormulaOf(P[d]), FormulaOf(Q2[d]))
              /\ Spans(ps, "delta", d, DeltaOf(P[d]), DeltaOf(Q2[d]))
  <2>1. /\ Spans(j.events, "formula", d, FormulaOf(P[d]), FormulaOf(Q[d]))
        /\ Spans(j.ops, "delta", d, DeltaOf(P[d]), DeltaOf(Q[d]))
    BY DEF Bridge
  <2>2. Q2[d] = IF d = c THEN x ELSE Q[d]
    BY DEF Sheets, Changed
  <2> HIDE DEF Q2
  <2>3. CASE d = c
    BY <1>5, <1>6, <1>7, <2>1, <2>2, <2>3
  <2>4. CASE d # c
    BY <1>5, <1>6, <1>7, <2>1, <2>2, <2>4
  <2> QED BY <2>3, <2>4
<1>11. Bridge(j2, P, Q2)
  BY <1>0, <1>8, <1>10 DEF Bridge
<1> QED BY <1>9, <1>11

\* A user edit, compaction of the chunk included, shows in one cell.
LEMMA ValueEdit ==
  ASSUME NEW b, NEW all, BookOK(b, all), NEW c \in Cells, NEW v \in Values,
         NEW b2, b2 = ValueSet(b, c, v),
         b2.delta[c] = None => \A d \in Cells : b2.formula[d] = None => b2.computed[d] = None
  PROVE  /\ SheetOf(b2) = Changed(SheetOf(b), c, v)
         /\ b2 \in Books /\ b2.limit = b.limit /\ b2.computed[c] \in {Result, None}
         /\ b2.delta[c] # None => BookOK(b2, all \cup {c})
<1> DEFINE w == [b EXCEPT !.formula[c] = None, !.delta[c] = v, !.computed[c] = None]
           full == {d \in Cells : w.delta[d] # None}
<1>1. b \in Books
  BY DEF BookOK
<1>2. w \in Books /\ w.base = b.base /\ w.limit = b.limit
      /\ \A d \in Cells : /\ w.formula[d] = IF d = c THEN None ELSE b.formula[d]
                          /\ w.delta[d] = IF d = c THEN v ELSE b.delta[d]
                          /\ w.computed[d] = IF d = c THEN None ELSE b.computed[d]
  BY <1>1 DEF Books, Plains
<1>3. b2 = IF Cardinality(full) <= w.limit THEN w
           ELSE [w EXCEPT !.base = [d \in Cells |-> IF w.delta[d] # None THEN w.delta[d]
                                                    ELSE w.base[d]],
                          !.delta = [d \in Cells |-> None]]
  <2>1. b2 = MaybeCompact(w)
    BY <1>1 DEF ValueSet, MirrorValue, Books
  <2>2. DOMAIN w.delta = Cells /\ DOMAIN w.base = Cells
    BY <1>2 DEF Books
  <2> HIDE DEF w
  <2> QED BY <2>1, <2>2 DEF MaybeCompact
<1> HIDE DEF w
<1>4. v # None /\ v \in Plains
  BY ContentsAssumption DEF Plains
<1>5. b2 = w \/ b2.delta[c] = None
  <2>1. CASE Cardinality(full) <= w.limit
    BY <1>3, <2>1
  <2>2. CASE ~(Cardinality(full) <= w.limit)
    <3>1. b2.delta = [e \in Cells |-> None]
      BY <1>2, <1>3, <2>2 DEF Books
    <3> QED BY <3>1
  <2> QED BY <2>1, <2>2
<1>6. b2 # w => \A d \in Cells : b2.formula[d] = None => b2.computed[d] = None
  BY <1>5
<1>7. /\ b2 \in Books /\ b2.limit = b.limit
      /\ b2.formula = w.formula /\ b2.computed = w.computed
  <2>1. CASE Cardinality(full) <= w.limit
    BY <1>2, <1>3, <2>1
  <2>2. CASE ~(Cardinality(full) <= w.limit)
    <3> DEFINE base2 == [d \in Cells |-> IF w.delta[d] # None THEN w.delta[d] ELSE w.base[d]]
               delta2 == [d \in Cells |-> None]
    <3>1. b2 = [w EXCEPT !.base = base2, !.delta = delta2]
      BY <1>3, <2>2
    <3>2. base2 \in [Cells -> Plains] /\ delta2 \in [Cells -> Plains \cup {None}]
      <4>1. w.delta \in [Cells -> Plains \cup {None}] /\ w.base \in [Cells -> Plains]
        BY <1>2 DEF Books
      <4> QED BY <4>1
    <3> HIDE DEF base2, delta2
    <3> QED BY <1>2, <3>1, <3>2 DEF Books
  <2> QED BY <2>1, <2>2
<1>8. ASSUME NEW d \in Cells
      PROVE  \/ b2.delta[d] = w.delta[d] /\ b2.base[d] = w.base[d]
             \/ /\ b2.delta[d] = None
                /\ b2.base[d] = IF w.delta[d] # None THEN w.delta[d] ELSE w.base[d]
  <2>1. CASE Cardinality(full) <= w.limit
    BY <1>3, <2>1
  <2>2. CASE ~(Cardinality(full) <= w.limit)
    <3>1. b2.delta = [e \in Cells |-> None]
          /\ b2.base = [e \in Cells |-> IF w.delta[e] # None THEN w.delta[e] ELSE w.base[e]]
      BY <1>2, <1>3, <2>2 DEF Books
    <3> QED BY <3>1
  <2> QED BY <2>1, <2>2
<1>11. ASSUME NEW d \in Cells PROVE SheetOf(b2)[d] = IF d = c THEN v ELSE SheetOf(b)[d]
  <2>1. /\ SheetOf(b2)[d] = IF b2.formula[d] # None THEN b2.formula[d] ELSE ReadCell(b2, d)
        /\ SheetOf(b)[d] = IF b.formula[d] # None THEN b.formula[d] ELSE ReadCell(b, d)
    BY DEF SheetOf
  <2>2. CASE d = c
    <3>1. b2.formula[d] = None /\ b2.computed[d] = None /\ w.delta[d] = v
      BY <1>2, <1>7, <2>2
    <3>2. ReadCell(b2, d) = v
      BY <1>4, <1>8, <3>1 DEF ReadCell
    <3> QED BY <2>1, <2>2, <3>1, <3>2
  <2>3. CASE d # c
    <3>1. b2.formula[d] = b.formula[d] /\ b2.computed[d] = b.computed[d]
          /\ w.delta[d] = b.delta[d] /\ w.base[d] = b.base[d]
      BY <1>2, <1>7, <2>3
    <3>2. b2.formula[d] = None => ReadCell(b2, d) = ReadCell(b, d)
      <4>1. CASE b2 = w
        BY <3>1, <4>1 DEF ReadCell
      <4>2. CASE b2 # w
        BY <1>6, <1>8, <3>1, <4>2 DEF ReadCell
      <4> QED BY <4>1, <4>2
    <3> QED BY <2>1, <2>3, <3>1, <3>2
  <2> QED BY <2>2, <2>3
<1>12. SheetOf(b2) = Changed(SheetOf(b), c, v)
  <2>1. SheetOf(b2) = [d \in Cells |-> SheetOf(b2)[d]]
        /\ SheetOf(b) = [d \in Cells |-> SheetOf(b)[d]]
    BY DEF SheetOf
  <2> QED BY <1>11, <2>1 DEF Changed
<1>13. ASSUME b2.delta[c] # None PROVE BookOK(b2, all \cup {c})
  <2>1. ASSUME NEW d \in Cells, b2.formula[d] = None, b2.delta[d] = None
        PROVE  b2.computed[d] = None /\ d \notin all \cup {c}
    <3>1. d # c /\ b2 = w
      BY <1>5, <1>13, <2>1
    <3>2. b.formula[d] = None /\ b.delta[d] = None
      BY <1>2, <2>1, <3>1
    <3> QED BY <1>2, <3>1, <3>2 DEF BookOK
  <2> QED BY <1>7, <2>1 DEF BookOK
<1>14. b2.computed[c] = None
  BY <1>2, <1>7
<1> QED BY <1>7, <1>12, <1>13, <1>14

\* So does a formula.
LEMMA FormulaEdit ==
  ASSUME NEW b, NEW all, BookOK(b, all), NEW c \in Cells, NEW f \in Formulas,
         NEW b2, b2 = FormulaSet(b, c, f)
  PROVE  /\ SheetOf(b2) = Changed(SheetOf(b), c, f)
         /\ BookOK(b2, all \cup {c}) /\ b2.limit = b.limit
<1>1. b \in Books
  BY DEF BookOK
<1>2. b2 \in Books /\ b2.base = b.base /\ b2.limit = b.limit /\ b2.computed = b.computed
      /\ \A d \in Cells : /\ b2.formula[d] = IF d = c THEN f ELSE b.formula[d]
                          /\ b2.delta[d] = IF d = c THEN None ELSE b.delta[d]
  BY <1>1 DEF Books, FormulaSet, ClearDelta
<1>3. f # None
  BY ContentsAssumption
<1>4. ASSUME NEW d \in Cells PROVE SheetOf(b2)[d] = IF d = c THEN f ELSE SheetOf(b)[d]
  <2>1. /\ SheetOf(b2)[d] = IF b2.formula[d] # None THEN b2.formula[d] ELSE ReadCell(b2, d)
        /\ SheetOf(b)[d] = IF b.formula[d] # None THEN b.formula[d] ELSE ReadCell(b, d)
    BY DEF SheetOf
  <2>2. d # c => ReadCell(b2, d) = ReadCell(b, d)
    BY <1>2 DEF ReadCell
  <2> QED BY <1>2, <1>3, <2>1, <2>2
<1>5. SheetOf(b2) = Changed(SheetOf(b), c, f)
  <2>1. SheetOf(b2) = [d \in Cells |-> SheetOf(b2)[d]]
        /\ SheetOf(b) = [d \in Cells |-> SheetOf(b)[d]]
    BY DEF SheetOf
  <2> QED BY <1>4, <2>1 DEF Changed
<1>6. BookOK(b2, all \cup {c})
  BY <1>2, <1>3 DEF BookOK
<1> QED BY <1>2, <1>5, <1>6

-----------------------------------------------------------------------------
(* Steps *)

\* An empty journal leads nowhere.
LEMMA EmptyBridge ==
  ASSUME NEW P
  PROVE  Bridge(EmptyJournal, P, P) /\ Retyped(EmptyJournal) = {}
<1>1. EmptyJournal.events = <<>> /\ EmptyJournal.ops = <<>> /\ EmptyJournal \in Journals
  BY DEF EmptyJournal, Journals
<1>2. \A l, c : Mine(<<>>, l, c) = {}
  BY DEF Mine
<1> QED BY <1>1, <1>2, RetypedFacts DEF Bridge, Spans

\* Fewer journals ask for less.
LEMMA FewerRetyped ==
  ASSUME NEW b, NEW all, BookOK(b, all), NEW some \in SUBSET all
  PROVE  BookOK(b, some)
BY DEF BookOK

LEMMA InitIInv == Init => IInv
<1> SUFFICES ASSUME Init PROVE IInv
  OBVIOUS
<1> USE DEF Init
<1>1. journal = EmptyJournal /\ done = <<>> /\ undone = <<>> /\ past = <<>> /\ future = <<>>
      /\ open = FALSE
  OBVIOUS
<1>2. AllRetyped = {}
  BY <1>1, EmptyBridge DEF AllRetyped
<1>3. book \in Books /\ \A c \in Cells : book.computed[c] = None
  BY DEF Books, Plains
<1>4. BookOK(book, AllRetyped)
  BY <1>2, <1>3 DEF BookOK
<1>5. HistoryOK
  <2>1. Len(journal.events) <= MaxEdits /\ Len(done) + Len(undone) <= MaxActions
    BY <1>1, BoundsAssumption DEF EmptyJournal
  <2>2. past \in Seq(Sheets) /\ future \in Seq(Sheets) /\ done \in Seq(Journals)
        /\ undone \in Seq(Journals)
    BY <1>1
  <2>3. Len(past) = 0 /\ Len(done) = 0 /\ Len(future) = Len(undone)
    BY <1>1
  <2>4. Len(past) = Len(done) + (IF open THEN 1 ELSE 0)
    BY <1>1, <2>3
  <2> QED BY <1>1, <2>1, <2>2, <2>3, <2>4 DEF HistoryOK
<1>6. BridgesOK
  BY <1>1 DEF BridgesOK
<1> QED BY <1>4, <1>5, <1>6 DEF IInv

\* What an edit inside an action preserves.
LEMMA EditKeeps ==
  ASSUME IInv, open, Len(journal.events) < MaxEdits, UNCHANGED <<open, done, undone, past, future>>,
         BookOK(book', AllRetyped'), Len(journal'.events) = Len(journal.events) + 1,
         Bridge(journal', past[Len(past)], SheetOf(book'))
  PROVE  IInv'
<1>1. HistoryOK'
  <2>1. Len(journal'.events) <= MaxEdits
    <3>1. journal \in Journals
      BY DEF IInv, BridgesOK, Bridge
    <3>2. Len(journal.events) \in Nat
      BY <3>1 DEF Journals
    <3> QED BY <3>2, BoundsAssumption
  <2> QED BY <2>1 DEF IInv, HistoryOK
<1>2. Committed' = Committed
  BY DEF Committed
<1>3. BridgesOK'
  BY <1>2 DEF IInv, BridgesOK, AfterDone, BeforeUndone
<1> QED BY <1>1, <1>3 DEF IInv

\* It asks no more of the workbook than of the cell it edits.
LEMMA EditRetypes ==
  ASSUME UNCHANGED <<done, undone>>, NEW c, Retyped(journal') \subseteq Retyped(journal) \cup {c}
  PROVE  AllRetyped' \subseteq AllRetyped \cup {c}
BY DEF AllRetyped

LEMMA StepBegin == IInv /\ BeginAction => IInv'
<1> SUFFICES ASSUME IInv, BeginAction PROVE IInv'
  OBVIOUS
<1>1. /\ ~open /\ open' = TRUE /\ Len(done) < MaxActions /\ journal' = EmptyJournal
      /\ past' = Append(past, SheetOf(book))
      /\ UNCHANGED <<book, done, undone, future>>
  BY DEF BeginAction
<1>2. BookOK(book, AllRetyped) /\ HistoryOK /\ BridgesOK /\ journal = EmptyJournal
  BY <1>1 DEF IInv, HistoryOK
<1>3. SheetOf(book) \in Sheets
  BY <1>2, SheetFacts
<1>4. /\ Len(past) = Len(done) /\ past' \in Seq(Sheets) /\ Len(past') = Len(past) + 1
      /\ past'[Len(past) + 1] = SheetOf(book) /\ \A k \in 1..Len(past) : past'[k] = past[k]
      /\ Len(past) \in Nat
  BY <1>1, <1>2, <1>3 DEF HistoryOK
<1>5. HistoryOK'
  BY <1>1, <1>2, <1>4, BoundsAssumption DEF HistoryOK, EmptyJournal
<1>6. Committed' = Committed /\ Committed = SheetOf(book)
  BY <1>1, <1>4 DEF Committed, SheetOf
<1>7. AllRetyped' = AllRetyped /\ SheetOf(book)' = SheetOf(book)
  BY <1>1, <1>2 DEF AllRetyped, SheetOf
<1>8. BridgesOK'
  <2>1. Bridge(journal', past'[Len(past')], SheetOf(book))
    BY <1>1, <1>4, EmptyBridge
  <2>2. ASSUME NEW k \in 1..Len(done)
        PROVE  Bridge(done[k], past'[k], AfterDone(k)')
    <3>1. Bridge(done[k], past[k], AfterDone(k))
      BY <1>2 DEF BridgesOK
    <3>2. past'[k] = past[k] /\ (k < Len(done) => past'[k + 1] = past[k + 1])
      BY <1>4
    <3>3. AfterDone(k)' = AfterDone(k)
      BY <1>1, <1>6, <3>2 DEF AfterDone
    <3> QED BY <3>1, <3>2, <3>3
  <2>3. ASSUME NEW k \in 1..Len(undone)
        PROVE  Bridge(undone[k], BeforeUndone(k)', future[k])
    <3>1. BeforeUndone(k)' = BeforeUndone(k)
      BY <1>1, <1>6 DEF BeforeUndone
    <3> QED BY <1>2, <3>1 DEF BridgesOK
  <2> QED BY <1>1, <1>7, <2>1, <2>2, <2>3 DEF BridgesOK
<1> QED BY <1>1, <1>2, <1>5, <1>7, <1>8 DEF IInv

LEMMA StepSetValue ==
  ASSUME IInv, NEW c \in Cells, NEW v \in Values, SetValue(c, v), ~Buries
  PROVE  IInv' /\ SheetOf(book)' = [SheetOf(book) EXCEPT ![c] = v]
<1> DEFINE Q == SheetOf(book)
<1>0. book'.delta[c] = None =>
        \A d \in Cells : book'.formula[d] = None => book'.computed[d] = None /\ d \notin AllRetyped'
  <2> SUFFICES ASSUME book'.delta[c] = None, NEW d \in Cells, book'.formula[d] = None
               PROVE  book'.computed[d] = None /\ d \notin AllRetyped'
    OBVIOUS
  <2>1. Hiding' = {}
    BY DEF Buries
  <2> QED BY <2>1 DEF Hiding
<1>1. /\ open /\ Len(journal.events) < MaxEdits
      /\ book' = ValueSet(book, c, v)
      /\ journal' = [events |-> Append(journal.events, Event(c, book.formula[c], None)),
                     ops    |-> (journal.ops \o Op("delta", c, OldDelta(c), v))
                                  \o Op("computed", c, book.computed[c], book'.computed[c])]
      /\ UNCHANGED <<open, done, undone, past, future>>
  BY DEF SetValue, MayEdit, ValueSet
<1>2. BookOK(book, AllRetyped) /\ BridgesOK
  BY DEF IInv
<1>3. /\ SheetOf(book') = Changed(Q, c, v)
      /\ book' \in Books /\ book'.computed[c] \in {Result, None}
      /\ book'.delta[c] # None => BookOK(book', AllRetyped \cup {c})
  <2>1. PICK b2 : b2 = book'
    OBVIOUS
  <2>2. b2 = ValueSet(book, c, v)
    BY <1>1, <2>1
  <2>3. b2.delta[c] = None => \A d \in Cells : b2.formula[d] = None => b2.computed[d] = None
    BY <1>0, <2>1
  <2>4. /\ SheetOf(b2) = Changed(SheetOf(book), c, v)
        /\ b2 \in Books /\ b2.computed[c] \in {Result, None}
        /\ b2.delta[c] # None => BookOK(b2, AllRetyped \cup {c})
    BY <1>2, <2>2, <2>3, ValueEdit
  <2> QED BY <2>1, <2>4
<1>4. Q \in Sheets /\ FormulaOf(Q[c]) = book.formula[c]
  BY <1>2, SheetFacts
<1>5. OldDelta(c) = DeltaOf(Q[c])
  <2>1. book.formula[c] \in Formulas \cup {None}
    BY <1>2 DEF BookOK, Books
  <2>2. book.formula[c] # None => Q[c] \in Formulas
    BY <1>2, <2>1, SheetFacts
  <2>3. book.formula[c] = None => Q[c] = ReadCell(book, c) /\ Q[c] \in Plains
    BY <1>2, SheetFacts
  <2> HIDE DEF Q
  <2> QED BY <2>1, <2>2, <2>3, ContentsAssumption DEF OldDelta, DeltaOf, Plains
<1>6. v \in Formulas \cup Plains /\ FormulaOf(v) = None /\ DeltaOf(v) = v
  BY ContentsAssumption DEF FormulaOf, DeltaOf, Plains
<1>7. book.computed[c] \in {Result, None}
  BY <1>2 DEF BookOK, Books
<1>8. Bridge(journal, past[Len(past)], Q)
  BY <1>1, <1>2 DEF BridgesOK
<1> HIDE DEF Q
<1>9. journal' = Recorded(journal, c, FormulaOf(Q[c]), FormulaOf(v), DeltaOf(Q[c]), DeltaOf(v),
                          book.computed[c], book'.computed[c])
  BY <1>1, <1>4, <1>5, <1>6 DEF Recorded
<1>10. /\ Bridge(journal', past[Len(past)], SheetOf(book'))
       /\ Retyped(journal') \subseteq Retyped(journal) \cup {c}
  <2>1. PICK u \in {Result, None} : u = book.computed[c]
    BY <1>7
  <2>2. PICK w \in {Result, None} : w = book'.computed[c]
    BY <1>3
  <2>3. journal' = Recorded(journal, c, FormulaOf(Q[c]), FormulaOf(v), DeltaOf(Q[c]), DeltaOf(v),
                            u, w)
    BY <1>9, <2>1, <2>2
  <2>4. Bridge(journal', past[Len(past)], Changed(Q, c, v))
        /\ Retyped(journal') \subseteq Retyped(journal) \cup {c}
    BY <1>4, <1>6, <1>8, <2>3, BridgeExtends
  <2> QED BY <1>3, <2>4
<1>11. Len(journal'.events) = Len(journal.events) + 1
  <2>1. journal.events \in Seq(Entries("formula"))
    BY <1>8 DEF Bridge, Journals
  <2> QED BY <1>1, <2>1
<1>12. BookOK(book', AllRetyped')
  <2>1. AllRetyped' \subseteq AllRetyped \cup {c}
    BY <1>1, <1>10, EditRetypes
  <2>2. CASE book'.delta[c] # None
    BY <1>3, <2>1, <2>2, FewerRetyped
  <2>3. CASE book'.delta[c] = None
    BY <1>3, <1>0, <2>3 DEF BookOK
  <2> QED BY <2>2, <2>3
<1>13. IInv'
  BY <1>1, <1>10, <1>11, <1>12, EditKeeps
<1> QED BY <1>3, <1>13 DEF Q, Changed

LEMMA StepSetFormula ==
  ASSUME IInv, NEW c \in Cells, NEW f \in Formulas, SetFormula(c, f)
  PROVE  IInv' /\ SheetOf(book)' = [SheetOf(book) EXCEPT ![c] = f]
<1> DEFINE Q == SheetOf(book)
<1>1. /\ open /\ Len(journal.events) < MaxEdits
      /\ book' = FormulaSet(book, c, f)
      /\ journal' = [events |-> Append(journal.events, Event(c, book.formula[c], f)),
                     ops    |-> journal.ops \o Op("delta", c, OldDelta(c), None)]
      /\ UNCHANGED <<open, done, undone, past, future>>
  BY DEF SetFormula, MayEdit, FormulaSet
<1>2. BookOK(book, AllRetyped) /\ BridgesOK
  BY DEF IInv
<1>3. /\ SheetOf(book') = Changed(Q, c, f)
      /\ BookOK(book', AllRetyped \cup {c})
  BY <1>1, <1>2, FormulaEdit
<1>4. Q \in Sheets /\ FormulaOf(Q[c]) = book.formula[c]
  BY <1>2, SheetFacts
<1>5. OldDelta(c) = DeltaOf(Q[c]) /\ DeltaOf(Q[c]) \in Plains \cup {None}
  <2>1. book.formula[c] \in Formulas \cup {None}
    BY <1>2 DEF BookOK, Books
  <2>2. book.formula[c] # None => Q[c] \in Formulas
    BY <1>2, <2>1, SheetFacts
  <2>3. book.formula[c] = None => Q[c] = ReadCell(book, c) /\ Q[c] \in Plains
    BY <1>2, SheetFacts
  <2> HIDE DEF Q
  <2> QED BY <2>1, <2>2, <2>3, ContentsAssumption DEF OldDelta, DeltaOf, Plains
<1>6. f \in Formulas \cup Plains /\ FormulaOf(f) = f /\ DeltaOf(f) = None
  BY DEF FormulaOf, DeltaOf
<1>7. Bridge(journal, past[Len(past)], Q)
  BY <1>1, <1>2 DEF BridgesOK
<1> HIDE DEF Q
<1>8. journal.ops \in Seq(Entries("delta") \cup Entries("computed"))
      /\ journal.events \in Seq(Entries("formula"))
  BY <1>7 DEF Bridge, Journals
<1>9. journal' = Recorded(journal, c, FormulaOf(Q[c]), FormulaOf(f), DeltaOf(Q[c]), DeltaOf(f),
                          None, None)
  <2> DEFINE o == journal.ops \o Op("delta", c, DeltaOf(Q[c]), DeltaOf(f))
             S == Entries("delta") \cup Entries("computed")
  <2>1. Entry("delta", c, DeltaOf(Q[c]), DeltaOf(f)) \in S
    BY <1>5, <1>6 DEF Entry, Entries, Held
  <2> HIDE DEF S
  <2>2. o \in Seq(S)
    BY <1>8, <2>1, AppendOp DEF S
  <2> HIDE DEF o
  <2>3. o \o Op("computed", c, None, None) = o
    BY <2>2 DEF Op
  <2> QED BY <1>1, <1>4, <1>5, <1>6, <2>3 DEF o, Recorded
<1>10. /\ Bridge(journal', past[Len(past)], SheetOf(book'))
       /\ Retyped(journal') \subseteq Retyped(journal) \cup {c}
  <2>1. PICK u \in {Result, None} : u = None
    OBVIOUS
  <2>2. PICK x \in Formulas \cup Plains : x = f
    BY <1>6
  <2>3. journal' = Recorded(journal, c, FormulaOf(Q[c]), FormulaOf(x), DeltaOf(Q[c]), DeltaOf(x),
                            u, u)
    BY <1>9, <2>1, <2>2
  <2>4. PICK j2 : j2 = journal'
    OBVIOUS
  <2>5. Bridge(j2, past[Len(past)], Changed(Q, c, x)) /\ Retyped(j2) \subseteq Retyped(journal) \cup {c}
    BY <1>4, <1>7, <2>3, <2>4, BridgeExtends
  <2> QED BY <1>3, <2>2, <2>4, <2>5
<1>11. Len(journal'.events) = Len(journal.events) + 1
  BY <1>1, <1>8
<1>12. BookOK(book', AllRetyped')
  <2>1. AllRetyped' \subseteq AllRetyped \cup {c}
    BY <1>1, <1>10, EditRetypes
  <2> QED BY <1>3, <2>1, FewerRetyped
<1>13. IInv'
  BY <1>1, <1>10, <1>11, <1>12, EditKeeps
<1> QED BY <1>3, <1>13 DEF Q, Changed

\* The last element and the rest of a stack.
LEMMA FrontFacts ==
  ASSUME NEW S, NEW s \in Seq(S), s # <<>>
  PROVE  /\ Front(s) \in Seq(S) /\ Len(s) \in Nat \ {0} /\ Len(Front(s)) = Len(s) - 1
         /\ \A i \in 1..(Len(s) - 1) : Front(s)[i] = s[i]
         /\ Last(s) = s[Len(s)] /\ Last(s) \in S
<1>1. Len(s) \in Nat \ {0} /\ \A i \in 1..Len(s) : s[i] \in S
  OBVIOUS
<1>2. /\ Front(s) \in Seq(S) /\ Len(Front(s)) = Len(s) - 1
      /\ \A i \in 1..(Len(s) - 1) : Front(s)[i] = s[i]
  <2> DEFINE m == Len(s) - 1
  <2>0. m \in Nat /\ (\A i \in 1..m : s[i] \in S)
    BY <1>1
  <2> HIDE DEF m
  <2>1. m \in Int /\ 1 \in Int /\ (IF 1 <= m THEN m - 1 + 1 ELSE 0) = m /\ m - 1 + 1 = m
        /\ \A i \in 1..m : 1 + i - 1 = i
    BY <2>0
  <2>2. /\ SubSeq(s, 1, m) \in Seq(S)
        /\ Len(SubSeq(s, 1, m)) = IF 1 <= m THEN m - 1 + 1 ELSE 0
        /\ \A i \in 1..(m - 1 + 1) : SubSeq(s, 1, m)[i] = s[1 + i - 1]
    BY <2>0, <2>1, SubSeqProperties
  <2>3. SubSeq(s, 1, m) \in Seq(S) /\ Len(SubSeq(s, 1, m)) = m
        /\ \A i \in 1..m : SubSeq(s, 1, m)[i] = s[i]
    BY <2>1, <2>2
  <2> QED BY <2>3 DEF m, Front
<1> QED BY <1>1, <1>2 DEF Last

LEMMA AppendFacts ==
  ASSUME NEW S, NEW s \in Seq(S), NEW x \in S
  PROVE  /\ Append(s, x) \in Seq(S) /\ Len(s) \in Nat /\ Len(Append(s, x)) = Len(s) + 1
         /\ \A i \in 1..Len(s) : Append(s, x)[i] = s[i]
         /\ Append(s, x)[Len(s) + 1] = x
OBVIOUS

\* A step that moves journals between the stacks asks no more of the
\* workbook.
LEMMA MovedJournals ==
  ASSUME \A i \in 1..Len(done') :
           \/ done'[i] = journal
           \/ \E k \in 1..Len(done) : done'[i] = done[k]
           \/ \E k \in 1..Len(undone) : done'[i] = undone[k],
         \A i \in 1..Len(undone') :
           \/ \E k \in 1..Len(done) : undone'[i] = done[k]
           \/ \E k \in 1..Len(undone) : undone'[i] = undone[k],
         journal' = EmptyJournal
  PROVE  AllRetyped' \subseteq AllRetyped
<1>1. Retyped(journal)' = {}
  BY EmptyBridge
<1>2. ASSUME NEW c \in AllRetyped' PROVE c \in AllRetyped
  <2>1. \/ \E i \in 1..Len(done') : c \in Retyped(done'[i])
        \/ \E i \in 1..Len(undone') : c \in Retyped(undone'[i])
    BY <1>1, <1>2 DEF AllRetyped
  <2>2. \/ c \in Retyped(journal)
        \/ \E k \in 1..Len(done) : c \in Retyped(done[k])
        \/ \E k \in 1..Len(undone) : c \in Retyped(undone[k])
    BY <2>1
  <2> QED BY <2>2 DEF AllRetyped
<1> QED BY <1>2

LEMMA StepCommit == IInv /\ Commit => IInv' /\ SheetOf(book)' = SheetOf(book)
<1> SUFFICES ASSUME IInv, Commit PROVE IInv' /\ SheetOf(book)' = SheetOf(book)
  OBVIOUS
<1> DEFINE n == Len(done)
<1>1. /\ open /\ open' = FALSE /\ journal' = EmptyJournal
      /\ done' = Append(done, journal) /\ undone' = <<>> /\ future' = <<>>
      /\ book' = book /\ past' = past
  BY DEF Commit
<1>2. BookOK(book, AllRetyped) /\ HistoryOK /\ BridgesOK
  BY DEF IInv
<1>3. /\ done \in Seq(Journals) /\ past \in Seq(Sheets)
      /\ Len(past) = n + 1 /\ n < MaxActions
  BY <1>1, <1>2 DEF HistoryOK
<1>4. Bridge(journal, past[n + 1], SheetOf(book)) /\ journal \in Journals
  BY <1>1, <1>2, <1>3 DEF BridgesOK, Bridge
<1>5. /\ done' \in Seq(Journals) /\ n \in Nat /\ Len(done') = n + 1
      /\ \A i \in 1..n : done'[i] = done[i]
      /\ done'[n + 1] = journal
  BY <1>1, <1>3, <1>4, AppendFacts
<1>6. HistoryOK'
  <2>1. Len(journal'.events) <= MaxEdits /\ Len(undone') = 0 /\ Len(future') = 0
        /\ undone' \in Seq(Journals) /\ future' \in Seq(Sheets)
    BY <1>1, BoundsAssumption DEF EmptyJournal
  <2>2. Len(done') + Len(undone') <= MaxActions
    BY <1>3, <1>5, <2>1, BoundsAssumption
  <2>3. Len(past') = Len(done') + (IF open' THEN 1 ELSE 0) /\ open' \in BOOLEAN
    <3>1. (IF open' THEN 1 ELSE 0) = 0 /\ open' \in BOOLEAN
      BY <1>1, Zenon
    <3>2. Len(past') = Len(done') + 0
      BY <1>1, <1>3, <1>5
    <3> QED BY <3>1, <3>2
  <2> QED BY <1>1, <1>3, <1>5, <2>1, <2>2, <2>3 DEF HistoryOK
<1>7. SheetOf(book)' = SheetOf(book)
  BY <1>1
<1>8. AllRetyped' \subseteq AllRetyped
  <2>1. \A i \in 1..Len(done') : done'[i] = journal \/ \E k \in 1..n : done'[i] = done[k]
    BY <1>5
  <2>2. 1..Len(undone') = {}
    BY <1>1
  <2> QED BY <1>1, <2>1, <2>2, MovedJournals
<1>9. ASSUME NEW k \in 1..(n + 1)
      PROVE  Bridge(done'[k], past[k], AfterDone(k)')
  <2>1. CASE k = n + 1
    <3>1. AfterDone(k)' = SheetOf(book)
      BY <1>1, <1>5, <1>7, <2>1 DEF AfterDone, Committed
    <3> QED BY <1>4, <1>5, <2>1, <3>1
  <2>2. CASE k < n + 1
    <3>1. AfterDone(k)' = past[k + 1]
      BY <1>1, <1>5, <2>2 DEF AfterDone
    <3>2. AfterDone(k) = past[k + 1]
      BY <1>1, <1>3, <1>5, <2>2 DEF AfterDone, Committed
    <3>3. k \in 1..n /\ done'[k] = done[k]
      BY <1>5, <2>2
    <3>4. Bridge(done[k], past[k], AfterDone(k))
      BY <1>2, <3>3 DEF BridgesOK
    <3> QED BY <3>1, <3>2, <3>3, <3>4
  <2> QED BY <1>5, <2>1, <2>2
<1>10. BridgesOK'
  <2>1. \A k \in 1..Len(done') : Bridge(done'[k], past'[k], AfterDone(k)')
    BY <1>1, <1>5, <1>7, <1>9
  <2>2. 1..Len(undone') = {}
    BY <1>1
  <2> QED BY <1>1, <2>1, <2>2 DEF BridgesOK
<1>11. BookOK(book, AllRetyped')
  BY <1>2, <1>8, FewerRetyped
<1>12. BookOK(book', AllRetyped')
  BY <1>1, <1>11
<1> QED BY <1>6, <1>7, <1>10, <1>12 DEF IInv

LEMMA StepFail ==
  IInv /\ Fail => IInv' /\ SheetOf(book)' = Last(past) /\ past # <<>>
<1> SUFFICES ASSUME IInv, Fail PROVE IInv' /\ SheetOf(book)' = Last(past) /\ past # <<>>
  OBVIOUS
<1> DEFINE n == Len(done)
           P == past[n + 1]
<1>1. /\ open /\ open' = FALSE /\ journal' = EmptyJournal
      /\ book' = UndoJournal(book, journal)
      /\ past' = Front(past) /\ UNCHANGED <<done, undone, future>>
  BY DEF Fail
<1>2. BookOK(book, AllRetyped) /\ HistoryOK /\ BridgesOK
  BY DEF IInv
<1>3. past \in Seq(Sheets) /\ Len(past) = n + 1 /\ n \in Nat
  BY <1>1, <1>2 DEF HistoryOK
<1>4. past # <<>> /\ P \in Sheets /\ Last(past) = P
  BY <1>3 DEF Last
<1>5. /\ past' \in Seq(Sheets) /\ Len(past') = n /\ \A i \in 1..n : past'[i] = past[i]
  BY <1>1, <1>3, <1>4, FrontFacts
<1>6. Bridge(journal, P, SheetOf(book))
  BY <1>1, <1>2, <1>3 DEF BridgesOK
<1>7. /\ SheetOf(book') = P /\ BookOK(book', AllRetyped) /\ book'.limit = book.limit
  <2>1. Retyped(journal) \subseteq AllRetyped
    BY DEF AllRetyped
  <2> HIDE DEF P
  <2> QED BY <1>1, <1>2, <1>4, <1>6, <2>1, UndoCrosses
<1>8. HistoryOK'
  <2>1. Len(journal'.events) <= MaxEdits
    BY <1>1, BoundsAssumption DEF EmptyJournal
  <2>2. Len(past') = Len(done') + (IF open' THEN 1 ELSE 0) /\ open' \in BOOLEAN
    <3>1. (IF open' THEN 1 ELSE 0) = 0 /\ open' \in BOOLEAN
      BY <1>1, Zenon
    <3>2. Len(past') = Len(done') + 0
      BY <1>1, <1>3, <1>5
    <3> QED BY <3>1, <3>2
  <2>3. /\ future' \in Seq(Sheets) /\ done' \in Seq(Journals) /\ undone' \in Seq(Journals)
        /\ Len(future') = Len(undone') /\ Len(done') + Len(undone') <= MaxActions
    BY <1>1, <1>2 DEF HistoryOK
  <2> QED BY <1>1, <1>5, <2>1, <2>2, <2>3 DEF HistoryOK
<1>9. AllRetyped' \subseteq AllRetyped
  BY <1>1, MovedJournals
<1>10. BookOK(book', AllRetyped')
  BY <1>7, <1>9, FewerRetyped
<1>11. Committed' = Committed
  <2>1. Committed' = P /\ Committed = P
    BY <1>1, <1>3, <1>7 DEF Committed
  <2> QED BY <2>1
<1>12. ASSUME NEW k \in 1..n
       PROVE  Bridge(done[k], past'[k], AfterDone(k)')
  <2>1. AfterDone(k)' = AfterDone(k) /\ past'[k] = past[k]
    BY <1>1, <1>3, <1>5, <1>11 DEF AfterDone
  <2> QED BY <1>2, <2>1 DEF BridgesOK
<1>13. ASSUME NEW k \in 1..Len(undone)
       PROVE  Bridge(undone[k], BeforeUndone(k)', future[k])
  <2>1. BeforeUndone(k)' = BeforeUndone(k)
    BY <1>1, <1>11 DEF BeforeUndone
  <2> QED BY <1>2, <2>1 DEF BridgesOK
<1>14. BridgesOK'
  BY <1>1, <1>11, <1>12, <1>13 DEF BridgesOK
<1> QED BY <1>4, <1>7, <1>8, <1>10, <1>14 DEF IInv

LEMMA StepUndo ==
  IInv /\ Undo => IInv' /\ SheetOf(book)' = Last(past) /\ past # <<>>
<1> SUFFICES ASSUME IInv, Undo PROVE IInv' /\ SheetOf(book)' = Last(past) /\ past # <<>>
  OBVIOUS
<1> DEFINE n == Len(done)
           m == Len(undone)
           P == past[n]
           j == done[n]
<1>1. /\ ~open /\ open' = open /\ journal' = journal /\ done # <<>>
      /\ book' = UndoJournal(book, Last(done))
      /\ done' = Front(done) /\ undone' = Append(undone, Last(done))
      /\ past' = Front(past) /\ future' = Append(future, SheetOf(book))
  BY DEF Undo
<1>2. BookOK(book, AllRetyped) /\ HistoryOK /\ BridgesOK
  BY DEF IInv
<1>3. /\ past \in Seq(Sheets) /\ future \in Seq(Sheets) /\ done \in Seq(Journals)
      /\ undone \in Seq(Journals) /\ Len(past) = n /\ Len(future) = m /\ n + m <= MaxActions
      /\ journal = EmptyJournal /\ Len(journal.events) <= MaxEdits
  BY <1>1, <1>2 DEF HistoryOK
<1>4. n \in Nat \ {0} /\ j \in Journals /\ P \in Sheets /\ past # <<>> /\ m \in Nat
  BY <1>1, <1>3
<1>5. Last(done) = j /\ Last(past) = P
  BY <1>3 DEF Last
<1>6. SheetOf(book) \in Sheets
  BY <1>2, SheetFacts
<1>7. /\ done' \in Seq(Journals) /\ Len(done') = n - 1
      /\ \A i \in 1..(n - 1) : done'[i] = done[i]
  BY <1>1, <1>3, FrontFacts
<1>8. /\ past' \in Seq(Sheets) /\ Len(past') = n - 1
      /\ \A i \in 1..(n - 1) : past'[i] = past[i]
  BY <1>1, <1>3, <1>4, FrontFacts
<1>9. /\ undone' \in Seq(Journals) /\ Len(undone') = m + 1 /\ undone'[m + 1] = j
      /\ \A i \in 1..m : undone'[i] = undone[i]
  BY <1>1, <1>3, <1>4, <1>5, AppendFacts
<1>10. /\ future' \in Seq(Sheets) /\ Len(future') = m + 1 /\ future'[m + 1] = SheetOf(book)
       /\ \A i \in 1..m : future'[i] = future[i]
  BY <1>1, <1>3, <1>6, AppendFacts
<1>11. Bridge(j, P, SheetOf(book))
  <2>1. AfterDone(n) = SheetOf(book)
    BY <1>1, <1>4 DEF AfterDone, Committed
  <2> QED BY <1>2, <1>4, <2>1 DEF BridgesOK
<1>12. SheetOf(book') = P /\ BookOK(book', AllRetyped) /\ book'.limit = book.limit
  <2>1. Retyped(j) \subseteq AllRetyped
    BY <1>4 DEF AllRetyped
  <2> HIDE DEF P, j
  <2> QED BY <1>1, <1>2, <1>4, <1>5, <1>11, <2>1, UndoCrosses
<1>13. HistoryOK'
  <2>1. Len(done') + Len(undone') <= MaxActions
    BY <1>3, <1>4, <1>7, <1>9, BoundsAssumption
  <2>2. Len(past') = Len(done') + (IF open' THEN 1 ELSE 0) /\ open' \in BOOLEAN
    BY <1>1, <1>2, <1>4, <1>7, <1>8 DEF HistoryOK
  <2> QED BY <1>1, <1>3, <1>7, <1>8, <1>9, <1>10, <2>1, <2>2 DEF HistoryOK
<1>14. AllRetyped' \subseteq AllRetyped
  <2>1. \A i \in 1..Len(done') : \E k \in 1..n : done'[i] = done[k]
    BY <1>4, <1>7
  <2>2. \A i \in 1..Len(undone') : \/ \E k \in 1..n : undone'[i] = done[k]
                                   \/ \E k \in 1..m : undone'[i] = undone[k]
    BY <1>4, <1>9
  <2>3. journal' = EmptyJournal
    BY <1>1, <1>3
  <2> QED BY <2>1, <2>2, <2>3, MovedJournals
<1>15. BookOK(book', AllRetyped')
  BY <1>12, <1>14, FewerRetyped
<1>16. Committed' = P /\ Committed = SheetOf(book)
  BY <1>1, <1>12 DEF Committed
<1>17. ASSUME NEW k \in 1..(n - 1)
       PROVE  Bridge(done'[k], past'[k], AfterDone(k)')
  <2>1. Bridge(done[k], past[k], AfterDone(k)) /\ AfterDone(k) = past[k + 1]
    BY <1>2, <1>4 DEF BridgesOK, AfterDone
  <2>2. done'[k] = done[k] /\ past'[k] = past[k]
    BY <1>7, <1>8
  <2>3. AfterDone(k)' = past[k + 1]
    <3>1. CASE k = n - 1
      BY <1>4, <1>7, <1>16, <3>1 DEF AfterDone
    <3>2. CASE k < n - 1
      <4>1. k + 1 \in 1..(n - 1)
        BY <1>4, <3>2
      <4> QED BY <1>7, <1>8, <3>2, <4>1 DEF AfterDone
    <3> QED BY <1>4, <3>1, <3>2
  <2> QED BY <2>1, <2>2, <2>3
<1>18. ASSUME NEW k \in 1..(m + 1)
       PROVE  Bridge(undone'[k], BeforeUndone(k)', future'[k])
  <2>1. CASE k = m + 1
    <3>1. BeforeUndone(k)' = P
      BY <1>4, <1>9, <1>16, <2>1 DEF BeforeUndone
    <3> QED BY <1>9, <1>10, <1>11, <2>1, <3>1
  <2>2. CASE k < m + 1
    <3>1. k \in 1..m /\ undone'[k] = undone[k] /\ future'[k] = future[k]
      BY <1>4, <1>9, <1>10, <2>2
    <3>2. BeforeUndone(k)' = future'[k + 1]
      BY <1>9, <2>2 DEF BeforeUndone
    <3>3. future'[k + 1] = BeforeUndone(k)
      <4>1. CASE k = m
        BY <1>4, <1>10, <1>16, <4>1 DEF BeforeUndone
      <4>2. CASE k < m
        <5>1. k + 1 \in 1..m
          BY <1>4, <4>2
        <5> QED BY <1>10, <4>2, <5>1 DEF BeforeUndone
      <4> QED BY <3>1, <4>1, <4>2
    <3>4. Bridge(undone[k], BeforeUndone(k), future[k])
      BY <1>2, <3>1 DEF BridgesOK
    <3> QED BY <3>1, <3>2, <3>3, <3>4
  <2> QED BY <1>4, <2>1, <2>2
<1>19. BridgesOK'
  BY <1>1, <1>7, <1>9, <1>16, <1>17, <1>18 DEF BridgesOK
<1> QED BY <1>4, <1>5, <1>12, <1>13, <1>15, <1>19 DEF IInv

LEMMA StepRedo ==
  IInv /\ Redo => IInv' /\ SheetOf(book)' = Last(future) /\ future # <<>>
<1> SUFFICES ASSUME IInv, Redo PROVE IInv' /\ SheetOf(book)' = Last(future) /\ future # <<>>
  OBVIOUS
<1> DEFINE n == Len(done)
           m == Len(undone)
           Q == future[m]
           j == undone[m]
<1>1. /\ ~open /\ open' = open /\ journal' = journal /\ undone # <<>>
      /\ book' = RedoJournal(book, Last(undone))
      /\ undone' = Front(undone) /\ done' = Append(done, Last(undone))
      /\ past' = Append(past, SheetOf(book)) /\ future' = Front(future)
  BY DEF Redo
<1>2. BookOK(book, AllRetyped) /\ HistoryOK /\ BridgesOK
  BY DEF IInv
<1>3. /\ past \in Seq(Sheets) /\ future \in Seq(Sheets) /\ done \in Seq(Journals)
      /\ undone \in Seq(Journals) /\ Len(past) = n /\ Len(future) = m /\ n + m <= MaxActions
      /\ journal = EmptyJournal /\ Len(journal.events) <= MaxEdits
  BY <1>1, <1>2 DEF HistoryOK
<1>4. m \in Nat \ {0} /\ j \in Journals /\ Q \in Sheets /\ future # <<>> /\ n \in Nat
  BY <1>1, <1>3
<1>5. Last(undone) = j /\ Last(future) = Q
  BY <1>3 DEF Last
<1>6. SheetOf(book) \in Sheets
  BY <1>2, SheetFacts
<1>7. /\ undone' \in Seq(Journals) /\ Len(undone') = m - 1
      /\ \A i \in 1..(m - 1) : undone'[i] = undone[i]
  BY <1>1, <1>3, FrontFacts
<1>8. /\ future' \in Seq(Sheets) /\ Len(future') = m - 1
      /\ \A i \in 1..(m - 1) : future'[i] = future[i]
  BY <1>1, <1>3, <1>4, FrontFacts
<1>9. /\ done' \in Seq(Journals) /\ Len(done') = n + 1 /\ done'[n + 1] = j
      /\ \A i \in 1..n : done'[i] = done[i]
  BY <1>1, <1>3, <1>4, <1>5, AppendFacts
<1>10. /\ past' \in Seq(Sheets) /\ Len(past') = n + 1 /\ past'[n + 1] = SheetOf(book)
       /\ \A i \in 1..n : past'[i] = past[i]
  BY <1>1, <1>3, <1>6, AppendFacts
<1>11. Bridge(j, SheetOf(book), Q)
  <2>1. BeforeUndone(m) = SheetOf(book)
    BY <1>1, <1>4 DEF BeforeUndone, Committed
  <2> QED BY <1>2, <1>4, <2>1 DEF BridgesOK
<1>12. SheetOf(book') = Q /\ BookOK(book', AllRetyped) /\ book'.limit = book.limit
  <2>1. Retyped(j) \subseteq AllRetyped
    BY <1>4 DEF AllRetyped
  <2> HIDE DEF Q, j
  <2> QED BY <1>1, <1>2, <1>4, <1>5, <1>11, <2>1, RedoCrosses
<1>13. HistoryOK'
  <2>1. Len(done') + Len(undone') <= MaxActions
    BY <1>3, <1>4, <1>7, <1>9, BoundsAssumption
  <2>2. Len(past') = Len(done') + (IF open' THEN 1 ELSE 0) /\ open' \in BOOLEAN
    BY <1>1, <1>2, <1>4, <1>9, <1>10 DEF HistoryOK
  <2> QED BY <1>1, <1>3, <1>7, <1>8, <1>9, <1>10, <2>1, <2>2 DEF HistoryOK
<1>14. AllRetyped' \subseteq AllRetyped
  <2>1. \A i \in 1..Len(undone') : \E k \in 1..m : undone'[i] = undone[k]
    BY <1>4, <1>7
  <2>2. \A i \in 1..Len(done') : \/ \E k \in 1..n : done'[i] = done[k]
                                 \/ \E k \in 1..m : done'[i] = undone[k]
    BY <1>4, <1>9
  <2>3. journal' = EmptyJournal
    BY <1>1, <1>3
  <2> QED BY <2>1, <2>2, <2>3, MovedJournals
<1>15. BookOK(book', AllRetyped')
  BY <1>12, <1>14, FewerRetyped
<1>16. Committed' = Q /\ Committed = SheetOf(book)
  BY <1>1, <1>12 DEF Committed
<1>17. ASSUME NEW k \in 1..(m - 1)
       PROVE  Bridge(undone'[k], BeforeUndone(k)', future'[k])
  <2>1. Bridge(undone[k], BeforeUndone(k), future[k])
        /\ BeforeUndone(k) = future[k + 1]
    BY <1>2, <1>4 DEF BridgesOK, BeforeUndone
  <2>2. undone'[k] = undone[k] /\ future'[k] = future[k]
    BY <1>7, <1>8
  <2>3. BeforeUndone(k)' = future[k + 1]
    <3>1. CASE k = m - 1
      BY <1>4, <1>7, <1>16, <3>1 DEF BeforeUndone
    <3>2. CASE k < m - 1
      <4>1. k + 1 \in 1..(m - 1)
        BY <1>4, <3>2
      <4> QED BY <1>7, <1>8, <3>2, <4>1 DEF BeforeUndone
    <3> QED BY <1>4, <3>1, <3>2
  <2> QED BY <2>1, <2>2, <2>3
<1>18. ASSUME NEW k \in 1..(n + 1)
       PROVE  Bridge(done'[k], past'[k], AfterDone(k)')
  <2>1. CASE k = n + 1
    <3>1. AfterDone(k)' = Q
      BY <1>4, <1>9, <1>16, <2>1 DEF AfterDone
    <3> QED BY <1>9, <1>10, <1>11, <2>1, <3>1
  <2>2. CASE k < n + 1
    <3>1. k \in 1..n /\ done'[k] = done[k] /\ past'[k] = past[k]
      BY <1>4, <1>9, <1>10, <2>2
    <3>2. AfterDone(k)' = past'[k + 1]
      BY <1>9, <2>2 DEF AfterDone
    <3>3. past'[k + 1] = AfterDone(k)
      <4>1. CASE k = n
        BY <1>4, <1>10, <1>16, <4>1 DEF AfterDone
      <4>2. CASE k < n
        <5>1. k + 1 \in 1..n
          BY <1>4, <4>2
        <5> QED BY <1>10, <4>2, <5>1 DEF AfterDone
      <4> QED BY <3>1, <4>1, <4>2
    <3>4. Bridge(done[k], past[k], AfterDone(k))
      BY <1>2, <3>1 DEF BridgesOK
    <3> QED BY <3>1, <3>2, <3>3, <3>4
  <2> QED BY <1>4, <2>1, <2>2
<1>19. BridgesOK'
  BY <1>1, <1>7, <1>9, <1>16, <1>17, <1>18 DEF BridgesOK
<1> QED BY <1>4, <1>5, <1>12, <1>13, <1>15, <1>19 DEF IInv

\* A result replaces what only formulas show.
LEMMA StepEvaluate ==
  ASSUME IInv, Evaluate
  PROVE  IInv' /\ SheetOf(book)' = SheetOf(book)
<1>1. /\ ~open
      /\ book' = [book EXCEPT !.computed =
                    [c \in Cells |-> IF book.formula[c] # None THEN Result ELSE book.computed[c]]]
      /\ UNCHANGED <<open, journal, done, undone, past, future>>
  BY DEF Evaluate
<1>2. BookOK(book, AllRetyped) /\ HistoryOK /\ BridgesOK /\ book \in Books
  BY DEF IInv, BookOK
<1>5. /\ book' \in Books /\ book'.formula = book.formula /\ book'.delta = book.delta
      /\ book'.base = book.base /\ book'.limit = book.limit
      /\ \A c \in Cells : book'.computed[c] =
                            IF book.formula[c] # None THEN Result ELSE book.computed[c]
  <2> DEFINE results == [c \in Cells |-> IF book.formula[c] # None THEN Result
                                         ELSE book.computed[c]]
  <2>1. results \in [Cells -> {Result, None}]
        /\ \A c \in Cells : results[c] = IF book.formula[c] # None THEN Result
                                         ELSE book.computed[c]
    <3>1. book.computed \in [Cells -> {Result, None}]
      BY <1>2 DEF Books
    <3> QED BY <3>1
  <2>2. book' = [book EXCEPT !.computed = results]
    BY <1>1
  <2> HIDE DEF results
  <2>3. book'.computed = results
    BY <1>2, <2>2 DEF Books
  <2>4. /\ book' \in Books /\ book'.formula = book.formula /\ book'.delta = book.delta
        /\ book'.base = book.base /\ book'.limit = book.limit
    BY <1>2, <2>1, <2>2 DEF Books
  <2> QED BY <2>1, <2>3, <2>4
<1>6. SheetOf(book') = SheetOf(book)
  <2>1. ASSUME NEW c \in Cells, book.formula[c] = None
        PROVE  ReadCell(book', c) = ReadCell(book, c)
    BY <1>5, <2>1 DEF ReadCell
  <2>2. ASSUME NEW c \in Cells PROVE SheetOf(book')[c] = SheetOf(book)[c]
    BY <1>5, <2>1 DEF SheetOf
  <2>3. SheetOf(book') = [c \in Cells |-> SheetOf(book')[c]]
        /\ SheetOf(book) = [c \in Cells |-> SheetOf(book)[c]]
    BY DEF SheetOf
  <2> QED BY <2>2, <2>3
<1>7. AllRetyped' = AllRetyped /\ Committed' = Committed
  BY <1>1, <1>5, <1>6 DEF AllRetyped, Committed
<1>8. BookOK(book', AllRetyped)
  BY <1>2, <1>5 DEF BookOK
<1>9. HistoryOK'
  BY <1>1, <1>2 DEF HistoryOK
<1>10. BridgesOK'
  BY <1>1, <1>2, <1>7 DEF BridgesOK, AfterDone, BeforeUndone
<1> QED BY <1>6, <1>7, <1>8, <1>9, <1>10 DEF IInv

\* Every step maps to a step of LinearHistory, or changes nothing of it.
LEMMA StepAbstract ==
  ASSUME IInv, [Next]_vars, [~Buries]_vars
  PROVE  IInv' /\ [Abstract!Next]_(Abstract!vars)
<1>1. SheetOf(book) \in Sheets
  BY SheetFacts DEF IInv
<1>2. CASE BeginAction
  <2>1. IInv'
    BY <1>2, StepBegin
  <2>2. Abstract!Begin
    BY <1>2 DEF BeginAction, Abstract!Begin
  <2> QED BY <2>1, <2>2 DEF Abstract!Next
<1>3. ASSUME NEW c \in Cells, NEW v \in Values, SetValue(c, v), ~Buries
      PROVE  IInv' /\ Abstract!Next
  <2>1. IInv' /\ SheetOf(book)' = [SheetOf(book) EXCEPT ![c] = v]
    BY <1>3, StepSetValue
  <2>2. open /\ UNCHANGED <<open, past, future>>
    BY <1>3 DEF SetValue, MayEdit
  <2>3. Abstract!Edit(c, v) /\ v \in Formulas \cup AllValues
    BY <2>1, <2>2 DEF Abstract!Edit, AllValues
  <2> QED BY <2>1, <2>3 DEF Abstract!Next
<1>4. ASSUME NEW c \in Cells, NEW f \in Formulas, SetFormula(c, f)
      PROVE  IInv' /\ Abstract!Next
  <2>1. IInv' /\ SheetOf(book)' = [SheetOf(book) EXCEPT ![c] = f]
    BY <1>4, StepSetFormula
  <2>2. open /\ UNCHANGED <<open, past, future>>
    BY <1>4 DEF SetFormula, MayEdit
  <2>3. Abstract!Edit(c, f) /\ f \in Formulas \cup AllValues
    BY <2>1, <2>2 DEF Abstract!Edit, AllValues
  <2> QED BY <2>1, <2>3 DEF Abstract!Next
<1>5. CASE Commit
  <2>1. IInv' /\ SheetOf(book)' = SheetOf(book)
    BY <1>5, StepCommit
  <2>2. Abstract!End
    BY <1>5, <2>1 DEF Commit, Abstract!End
  <2> QED BY <2>1, <2>2 DEF Abstract!Next
<1>6. CASE Fail
  <2>1. IInv' /\ SheetOf(book)' = Last(past)
    BY <1>6, StepFail
  <2>2. Abstract!Abort
    BY <1>6, <2>1 DEF Fail, Front, Last, Abstract!Abort, Abstract!Last, Abstract!Front
  <2> QED BY <2>1, <2>2 DEF Abstract!Next
<1>7. CASE Undo
  <2>1. IInv' /\ SheetOf(book)' = Last(past) /\ past # <<>>
    BY <1>7, StepUndo
  <2>2. Abstract!Undo
    BY <1>7, <2>1 DEF Undo, Front, Last, Abstract!Undo, Abstract!Last, Abstract!Front
  <2> QED BY <2>1, <2>2 DEF Abstract!Next
<1>8. CASE Redo
  <2>1. IInv' /\ SheetOf(book)' = Last(future) /\ future # <<>>
    BY <1>8, StepRedo
  <2>2. Abstract!Redo
    BY <1>8, <2>1 DEF Redo, Front, Last, Abstract!Redo, Abstract!Last, Abstract!Front
  <2> QED BY <2>1, <2>2 DEF Abstract!Next
<1>9. CASE Evaluate
  <2>1. IInv' /\ SheetOf(book)' = SheetOf(book)
    BY <1>9, StepEvaluate
  <2>2. UNCHANGED Abstract!vars
    BY <1>9, <2>1 DEF Evaluate, Abstract!vars
  <2> QED BY <2>1, <2>2
<1>10. CASE UNCHANGED vars
  <2>1. UNCHANGED <<book, open, journal, done, undone, past, future>>
    BY <1>10 DEF vars
  <2>2. UNCHANGED Abstract!vars
    BY <2>1 DEF Abstract!vars, SheetOf
  <2>3. SheetOf(book)' = SheetOf(book)
        /\ AllRetyped' = AllRetyped /\ BookOK(book', AllRetyped)
    BY <2>1 DEF IInv, AllRetyped
  <2>4. HistoryOK'
    BY <2>1 DEF IInv, HistoryOK
  <2>5. BridgesOK'
    BY <2>1, <2>3 DEF IInv, BridgesOK, AfterDone, BeforeUndone, Committed
  <2> QED BY <2>2, <2>3, <2>4, <2>5 DEF IInv
<1>11. CASE Next /\ ~Buries
  BY <1>2, <1>3, <1>4, <1>5, <1>6, <1>7, <1>8, <1>9, <1>11 DEF Next
<1> QED BY <1>10, <1>11

-----------------------------------------------------------------------------
(* Theorems *)

\* Every journal on the stacks leads from the sheet of the history before it
\* to the one after it, and the overlay entries it leaves behind are masked.
THEOREM JournalsAreBridges == Spec /\ NeverBuries => []IInv
<1>1. IInv /\ [Next]_vars /\ [~Buries]_vars => IInv'
  BY StepAbstract
<1> QED BY <1>1, InitIInv, PTL DEF Spec, NeverBuries

LEMMA InvariantShows == IInv => StoreOK
<1> SUFFICES ASSUME IInv PROVE StoreOK
  OBVIOUS
<1>1. book \in Books
  BY DEF IInv, BookOK
<1>2. TypeOK
  <2>1. Plains \subseteq AllValues
    BY DEF Plains, AllValues
  <2>2. book \in [formula : [Cells -> Formulas \cup {None}],
                  delta : [Cells -> AllValues \cup {None}],
                  computed : [Cells -> {Result, None}], base : [Cells -> AllValues],
                  limit : Limits]
    BY <1>1, <2>1 DEF Books
  <2> QED BY <2>2 DEF TypeOK, IInv, HistoryOK
<1>3. \A c \in Cells : book.formula[c] = None => ReadCell(book, c) \in Plains
  BY SheetFacts DEF IInv
<1>4. Result \notin Plains
  BY ContentsAssumption DEF Plains
<1> QED BY <1>2, <1>3, <1>4 DEF StoreOK, NoStaleResult

\* StoreOK for every chunk, dense or sparse, and every sequence of actions,
\* failures, undos, redos and evaluations, until an edit compacts a chunk in
\* which a delta entry hides a result: what undo, redo and rollback leave in
\* the computed overlay never shows in a cell without a formula.
THEOREM NoResultIsStale == Spec /\ NeverBuries => []StoreOK
<1>1. Spec /\ NeverBuries => []IInv
  BY JournalsAreBridges
<1> QED BY <1>1, InvariantShows, PTL

\* The hypothesis leaves out no more than it has to: the first edit that
\* compacts a chunk with a hidden result in it makes that result show, in a
\* value cell that nobody edited.
THEOREM BuryingShowsResults ==
  ASSUME IInv, NEW c \in Cells, NEW v \in Values, SetValue(c, v), book'.delta[c] = None,
         NEW d \in Cells, book'.formula[d] = None, book'.computed[d] # None
  PROVE  ~StoreOK' /\ d # c /\ ReadCell(book, d) # Result
<1>1. book \in Books /\ book' = ValueSet(book, c, v)
  BY DEF IInv, BookOK, SetValue, ValueSet
<1> DEFINE w == [book EXCEPT !.formula[c] = None, !.delta[c] = v, !.computed[c] = None]
<1>2. w \in Books /\ w.delta[c] = v /\ w.computed[c] = None /\ v # None
      /\ \A e \in Cells : e # c => w.formula[e] = book.formula[e] /\ w.computed[e] = book.computed[e]
  BY <1>1, ContentsAssumption DEF Books, Plains
<1>3. book' = MaybeCompact(w)
  BY <1>1 DEF ValueSet, MirrorValue, Books
<1>4. DOMAIN w.delta = Cells /\ DOMAIN w.base = Cells
  BY <1>2 DEF Books
<1> HIDE DEF w
<1>5. /\ book'.delta = [e \in Cells |-> None]
      /\ book'.computed = w.computed /\ book'.formula = w.formula
  BY <1>2, <1>3, <1>4 DEF MaybeCompact, Books
<1>6. d # c /\ book'.delta[d] = None /\ book'.computed[d] = Result /\ book.formula[d] = None
  BY <1>2, <1>5 DEF Books
<1>7. ReadCell(book', d) = Result
  BY <1>6 DEF ReadCell
<1>8. ReadCell(book, d) # Result
  BY <1>6, InvariantShows DEF StoreOK, NoStaleResult
<1>9. ~NoStaleResult'
  BY <1>7 DEF NoStaleResult
<1> QED BY <1>6, <1>8, <1>9 DEF StoreOK

\* ImplementsLinearHistory for every chunk: journals of raw overlay entries
\* give one line of history, rollback of a failed action included.
THEOREM JournalsAreLinear == Spec /\ NeverBuries => ImplementsLinearHistory
<1>1. Init => Abstract!Init
  <2> SUFFICES ASSUME Init PROVE Abstract!Init
    OBVIOUS
  <2>1. SheetOf(book) \in Sheets
    BY InitIInv, SheetFacts DEF IInv
  <2>2. SheetOf(book) \in [Cells -> Formulas \cup AllValues]
    BY <2>1 DEF Sheets, Plains, AllValues
  <2> QED BY <2>2 DEF Init, Abstract!Init
<1>2. IInv /\ [Next]_vars /\ [~Buries]_vars => [Abstract!Next]_(Abstract!vars)
  BY StepAbstract
<1>3. Spec /\ NeverBuries => []IInv
  BY JournalsAreBridges
<1> QED BY <1>1, <1>2, <1>3, PTL DEF Spec, NeverBuries, ImplementsLinearHistory, Abstract!Spec
===============================================================================
