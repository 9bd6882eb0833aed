------------------------- MODULE TransactionLogProofs -------------------------
(***************************************************************************)
(* Theorems about the two specifications that use the log of               *)
(* ChangeLogOps as a store: LazyChangeLog, which keeps a formula run as    *)
(* one record, and TransactionContext, which rolls back from the log.      *)
(*                                                                         *)
(* LazyChangeLog, for all events, caps and bounds: its cell is well formed *)
(* and counts right, and it implements ChangeLog.  The inductive invariant *)
(* relates the log to its written-out form (Shows): the records and the    *)
(* plain entries of the cell interleave in the order of their sequence     *)
(* numbers, so the written-out log is the one sequence that has all the    *)
(* entries in that order (WrittenIs), and what each operation makes of     *)
(* the cell is that sequence again, appended to or cut.  Retained::expand  *)
(* is a loop over the records; ExpandOK says that it computes it.  The     *)
(* capture is treated likewise: an item of the written-out capture is a    *)
(* run or an event by the places of the runs (ItemOfRun, EventItem).       *)
(*                                                                         *)
(* TransactionContext, for all cells, formulas, scopes, definitions,       *)
(* savepoint names and bounds: a rollback restores the graph it must       *)
(* restore and never gets stuck, and the indexes of a transaction stay     *)
(* valid.  These theorems assume that no name is scoped to the default     *)
(* sheet: with one, the editor logs the wrong old definition and           *)
(* RollbackRestores is false, as MCDefaultSheetScopes of                   *)
(* MCTransactionContext shows.  The inductive invariant says of every      *)
(* logged change that its inverse, applied to the graph after the change,  *)
(* can be applied and gives the graph before it; the graphs before and     *)
(* after are the `was` fields of neighbouring entries, so a suffix of the  *)
(* log is a path back.                                                     *)
(***************************************************************************)
EXTENDS LazyChangeLog, TransactionContext,
        FiniteSetTheorems, SequenceTheorems, WellFoundedInduction, TLAPS


-----------------------------------------------------------------------------
(* The cell of the log, and what it stands for *)

\* The entries of a written-out log, as in ChangeLog.
Loggable == [tag : {"CompoundStart", "CompoundEnd"}] \cup [tag : {"Event"}, ev : Events]
Written == [ev : Loggable, seq : Nat, group : Nat]

InOrder(w) == \A i, j \in DOMAIN w : i < j => w[i].seq < w[j].seq
Elements(w) == {w[i] : i \in DOMAIN w}

\* The records of a cell, and what a cell is.
RunRecords == [pos : Nat, seq0 : Nat, group : Nat, members : Seq(Events)]
RetainedCells == [plain : Seq(Written), lazy : Seq(RunRecords), expanded : BOOLEAN, len : Nat,
          pending : Nat]

SeqAfter(r) == r.seq0 + Len(r.members)

\* The records of a cell are in log order, and between the plain entries that
\* their positions say.
CellShape(c) ==
  /\ c \in RetainedCells
  /\ c.expanded <=> c.lazy = <<>>
  /\ \A n \in 1..Len(c.lazy) : c.lazy[n].pos \in 0..Len(c.plain)
  /\ \A m, n \in 1..Len(c.lazy) :
       m < n => c.lazy[m].pos <= c.lazy[n].pos /\ SeqAfter(c.lazy[m]) <= c.lazy[n].seq0
  /\ InOrder(c.plain)
  /\ \A n \in 1..Len(c.lazy), i \in 1..Len(c.plain) :
       /\ i <= c.lazy[n].pos => c.plain[i].seq < c.lazy[n].seq0
       /\ i > c.lazy[n].pos => SeqAfter(c.lazy[n]) <= c.plain[i].seq

\* The cell stands for the entries w, all of them numbered below seq.
CellOK(c, w, seq) ==
  /\ CellShape(c)
  /\ \A n \in 1..Len(c.lazy) : SeqAfter(c.lazy[n]) <= seq
  /\ \A i \in 1..Len(c.plain) : c.plain[i].seq < seq
  /\ w \in Seq(Written) /\ InOrder(w) /\ Elements(w) = EntriesOf(c) /\ c.len = Len(w)
  /\ \A i \in 1..Len(w) : w[i].seq < seq

LEMMA EntrySeq ==
  ASSUME NEW w \in Seq(Written), NEW i \in 1..Len(w)
  PROVE  w[i] \in Written /\ w[i].seq \in Nat
<1>1. w[i] \in Written
  OBVIOUS
<1> QED BY <1>1 DEF Written

LEMMA RankOf ==
  ASSUME NEW w \in Seq(Written), InOrder(w), NEW i \in 1..Len(w)
  PROVE  Cardinality({y \in Elements(w) : y.seq < w[i].seq}) = i - 1
<1> DEFINE S == {y \in Elements(w) : y.seq < w[i].seq}
           n == i - 1
           f == [k \in 1..n |-> w[k]]
<1>1. DOMAIN w = 1..Len(w) /\ n \in Nat /\ Len(w) \in Nat
  OBVIOUS
<1>2. \A k \in 1..Len(w) : w[k].seq \in Nat
  BY EntrySeq
<1>3. \A k \in 1..n : k \in 1..Len(w) /\ k < i
  BY <1>1
<1>4. f \in [1..n -> S]
  <2>1. \A k \in 1..n : w[k] \in S
    BY <1>1, <1>3 DEF InOrder, Elements
  <2> QED BY <2>1
<1>5. \A k, j \in 1..n : f[k] = f[j] => k = j
  <2> SUFFICES ASSUME NEW k \in 1..n, NEW j \in 1..n, k < j PROVE w[k] # w[j]
    BY <1>1
  <2>1. w[k].seq < w[j].seq
    BY <1>1, <1>3 DEF InOrder
  <2> QED BY <1>2, <1>3, <2>1
<1>6. \A y \in S : \E k \in 1..n : f[k] = y
  <2> TAKE y \in S
  <2>1. PICK k \in 1..Len(w) : y = w[k]
    BY <1>1 DEF Elements
  <2>2. w[k].seq < w[i].seq
    BY <2>1
  <2>3. k < i
    <3> SUFFICES ASSUME i < k PROVE FALSE
      BY <1>2, <2>2
    <3>1. w[i].seq < w[k].seq
      BY <1>1 DEF InOrder
    <3> QED BY <1>2, <2>2, <3>1
  <2>4. k \in 1..n
    BY <1>1, <2>3
  <2> QED BY <2>1, <2>4
<1> HIDE DEF n, S, f
<1>7. ExistsBijection(1..n, S)
  <2>1. f \in Injection(1..n, S)
    <3>1. DOMAIN f = 1..n
      BY <1>4
    <3> QED BY <1>4, <1>5, <3>1 DEF Injection, IsInjective
  <2>2. f \in Surjection(1..n, S)
    BY <1>4, <1>6 DEF Surjection
  <2> QED BY <2>1, <2>2 DEF ExistsBijection, Bijection
<1>8. Cardinality(S) = n
  BY <1>1, <1>7, FS_CountingElements
<1> QED BY <1>8 DEF S, n

LEMMA SizeOf ==
  ASSUME NEW w \in Seq(Written), InOrder(w)
  PROVE  Cardinality(Elements(w)) = Len(w)
<1> DEFINE n == Len(w)
           S == Elements(w)
<1>1. DOMAIN w = 1..n /\ n \in Nat /\ w \in [1..n -> S]
  BY DEF Elements
<1>2. \A k, j \in 1..n : w[k] = w[j] => k = j
  <2> SUFFICES ASSUME NEW k \in 1..n, NEW j \in 1..n, k < j PROVE w[k] # w[j]
    BY <1>1
  <2>1. w[k].seq < w[j].seq
    BY <1>1 DEF InOrder
  <2>2. w[k].seq \in Nat /\ w[j].seq \in Nat
    BY EntrySeq
  <2> QED BY <2>1, <2>2
<1>3. \A y \in S : \E k \in 1..n : w[k] = y
  BY <1>1 DEF Elements
<1> HIDE DEF n, S
<1>4. ExistsBijection(1..n, S)
  <2>1. w \in Injection(1..n, S)
    BY <1>1, <1>2 DEF Injection, IsInjective
  <2>2. w \in Surjection(1..n, S)
    BY <1>1, <1>3 DEF Surjection
  <2> QED BY <2>1, <2>2 DEF ExistsBijection, Bijection
<1>5. Cardinality(S) = n
  BY <1>1, <1>4, FS_CountingElements
<1> QED BY <1>5 DEF S, n

\* There is one way to write entries out in order.
LEMMA WrittenIs ==
  ASSUME NEW c, NEW w \in Seq(Written), InOrder(w), Elements(w) = EntriesOf(c)
  PROVE  WrittenOut(c) = w
<1> DEFINE S == EntriesOf(c)
           rank(x) == Cardinality({y \in S : y.seq < x.seq})
           at(i) == CHOOSE x \in S : rank(x) = i - 1
           v == [i \in 1..Cardinality(S) |-> at(i)]
<1>1. WrittenOut(c) = v
  BY DEF WrittenOut
<1>2. Cardinality(S) = Len(w)
  BY SizeOf
<1>3. \A i \in 1..Len(w) : rank(w[i]) = i - 1
  <2> TAKE i \in 1..Len(w)
  <2>1. Cardinality({y \in Elements(w) : y.seq < w[i].seq}) = i - 1
    BY RankOf
  <2> QED BY <2>1
<1>4. ASSUME NEW i \in 1..Len(w) PROVE at(i) = w[i]
  <2>1. w[i] \in S /\ rank(w[i]) = i - 1
    BY <1>3 DEF Elements
  <2>2. ASSUME NEW x \in S, rank(x) = i - 1 PROVE x = w[i]
    <3>1. PICK k \in 1..Len(w) : x = w[k]
      BY DEF Elements
    <3>2. rank(x) = k - 1
      BY <1>3, <3>1
    <3> HIDE DEF rank
    <3> QED BY <2>2, <3>1, <3>2
  <2> HIDE DEF S, rank
  <2> QED BY <2>1, <2>2
<1>5. v = w
  <2>1. w = [i \in 1..Len(w) |-> w[i]]
    OBVIOUS
  <2> HIDE DEF at, S
  <2> QED BY <1>2, <1>4, <2>1
<1> QED BY <1>1, <1>5

-----------------------------------------------------------------------------
(* Written in order *)

LEMMA ConcatOrder ==
  ASSUME NEW a \in Seq(Written), NEW b \in Seq(Written), InOrder(a), InOrder(b),
         \A i \in 1..Len(a), j \in 1..Len(b) : a[i].seq < b[j].seq
  PROVE  /\ a \o b \in Seq(Written) /\ Len(a \o b) = Len(a) + Len(b)
         /\ InOrder(a \o b) /\ Elements(a \o b) = Elements(a) \cup Elements(b)
<1> DEFINE w == a \o b
<1>1. /\ w \in Seq(Written) /\ Len(w) = Len(a) + Len(b) /\ DOMAIN w = 1..Len(w)
      /\ Len(a) \in Nat /\ Len(b) \in Nat /\ DOMAIN a = 1..Len(a) /\ DOMAIN b = 1..Len(b)
  OBVIOUS
<1>2. \A i \in 1..Len(a) : w[i] = a[i]
  OBVIOUS
<1>3. \A i \in 1..Len(b) : w[Len(a) + i] = b[i]
  OBVIOUS
<1> HIDE DEF w
<1>4. \A i \in 1..Len(w) : i \in 1..Len(a) \/ (i - Len(a) \in 1..Len(b) /\ w[i] = b[i - Len(a)])
  <2> TAKE i \in 1..Len(w)
  <2>1. CASE i > Len(a)
    <3>1. i - Len(a) \in 1..Len(b) /\ i = Len(a) + (i - Len(a))
      BY <1>1, <2>1
    <3> QED BY <1>3, <3>1
  <2> QED BY <1>1, <2>1
<1>5. InOrder(w)
  <2> SUFFICES ASSUME NEW i \in 1..Len(w), NEW j \in 1..Len(w), i < j PROVE w[i].seq < w[j].seq
    BY <1>1 DEF InOrder
  <2>1. CASE i \in 1..Len(a) /\ j \in 1..Len(a)
    BY <1>1, <1>2, <2>1 DEF InOrder
  <2>2. CASE i \in 1..Len(a) /\ j \notin 1..Len(a)
    BY <1>2, <1>4, <2>2
  <2>3. CASE i \notin 1..Len(a)
    <3>1. i - Len(a) \in 1..Len(b) /\ w[i] = b[i - Len(a)]
      BY <1>4, <2>3
    <3>2. j \notin 1..Len(a) /\ i - Len(a) < j - Len(a)
      BY <1>1, <2>3
    <3>3. j - Len(a) \in 1..Len(b) /\ w[j] = b[j - Len(a)]
      BY <1>4, <3>2
    <3> QED BY <1>1, <3>1, <3>2, <3>3 DEF InOrder
  <2> QED BY <2>1, <2>2, <2>3
<1>6. Elements(w) = Elements(a) \cup Elements(b)
  <2>1. \A x \in Elements(w) : x \in Elements(a) \cup Elements(b)
    BY <1>1, <1>2, <1>4 DEF Elements
  <2>2. \A x \in Elements(a) : x \in Elements(w)
    <3>1. \A i \in 1..Len(a) : i \in 1..Len(w)
      BY <1>1
    <3> QED BY <1>1, <1>2, <3>1 DEF Elements
  <2>3. \A x \in Elements(b) : x \in Elements(w)
    <3>1. \A i \in 1..Len(b) : Len(a) + i \in 1..Len(w)
      BY <1>1
    <3> QED BY <1>1, <1>3, <3>1 DEF Elements
  <2> QED BY <2>1, <2>2, <2>3
<1> QED BY <1>1, <1>5, <1>6 DEF w

LEMMA SubOrder ==
  ASSUME NEW w \in Seq(Written), InOrder(w), NEW lo \in Nat, NEW hi \in Nat,
         1 <= lo, hi <= Len(w)
  PROVE  LET s == SubSeq(w, lo, hi) IN
         /\ s \in Seq(Written) /\ Len(s) = (IF lo <= hi THEN hi - lo + 1 ELSE 0)
         /\ \A i \in 1..Len(s) : lo + i - 1 \in lo..hi /\ s[i] = w[lo + i - 1]
         /\ InOrder(s) /\ Elements(s) = {w[i] : i \in lo..hi}
<1> DEFINE s == SubSeq(w, lo, hi)
           n == IF lo <= hi THEN hi - lo + 1 ELSE 0
<1>1. n \in Nat /\ DOMAIN w = 1..Len(w) /\ Len(w) \in Nat
  OBVIOUS
<1>2. \A i \in lo..hi : i \in 1..Len(w)
  BY <1>1
<1>3. s \in Seq(Written) /\ Len(s) = n /\ \A i \in 1..n : s[i] = w[lo + i - 1]
  <2>1. \A i \in lo..hi : w[i] \in Written
    BY <1>2
  <2> QED BY <2>1
<1> HIDE DEF s
<1>4. \A i \in 1..n : lo + i - 1 \in lo..hi
  OBVIOUS
<1>5. \A i \in lo..hi : i - lo + 1 \in 1..n /\ lo + (i - lo + 1) - 1 = i
  OBVIOUS
<1> HIDE DEF n
<1>6. InOrder(s)
  <2> SUFFICES ASSUME NEW i \in 1..n, NEW j \in 1..n, i < j PROVE s[i].seq < s[j].seq
    BY <1>3 DEF InOrder
  <2>1. lo + i - 1 < lo + j - 1 /\ lo + i - 1 \in 1..Len(w) /\ lo + j - 1 \in 1..Len(w)
    BY <1>1, <1>2, <1>4
  <2>2. w[lo + i - 1].seq < w[lo + j - 1].seq
    BY <1>1, <2>1 DEF InOrder
  <2> QED BY <1>3, <2>2
<1>7. Elements(s) = {w[i] : i \in lo..hi}
  <2>1. DOMAIN s = 1..n
    BY <1>3
  <2>2. \A x \in Elements(s) : \E i \in lo..hi : x = w[i]
    BY <1>3, <1>4, <2>1 DEF Elements
  <2>3. ASSUME NEW i \in lo..hi PROVE w[i] \in Elements(s)
    <3>1. s[i - lo + 1] = w[i] /\ i - lo + 1 \in 1..n
      BY <1>3, <1>5
    <3> QED BY <2>1, <3>1 DEF Elements
  <2> QED BY <2>2, <2>3
<1> QED BY <1>1, <1>3, <1>4, <1>6, <1>7 DEF s, n

Between(w, lo, hi) == {w[i] : i \in lo..hi}

LEMMA CutOrder ==
  ASSUME NEW w \in Seq(Written), InOrder(w), NEW lo \in Nat, NEW hi \in Nat,
         1 <= lo, hi <= Len(w)
  PROVE  /\ SubSeq(w, lo, hi) \in Seq(Written) /\ InOrder(SubSeq(w, lo, hi))
         /\ Elements(SubSeq(w, lo, hi)) = Between(w, lo, hi)
BY SubOrder DEF Between

LEMMA MembersFacts ==
  ASSUME NEW r \in RunRecords
  PROVE  LET m == Members(r) IN
         /\ m \in Seq(Written) /\ Len(m) = Len(r.members) /\ InOrder(m)
         /\ Elements(m) = Range(m)
         /\ \A i \in 1..Len(m) : m[i].seq = r.seq0 + i - 1 /\ r.seq0 <= m[i].seq /\ m[i].seq < SeqAfter(r)
<1> DEFINE m == Members(r)
           e(i) == [ev |-> [tag |-> "Event", ev |-> r.members[i]], seq |-> r.seq0 + i - 1,
                    group |-> r.group]
<1>1. r.members \in Seq(Events) /\ r.seq0 \in Nat /\ r.group \in Nat
  BY DEF RunRecords
<1>2. DOMAIN r.members = 1..Len(r.members) /\ Len(r.members) \in Nat
  BY <1>1
<1>3. m = [i \in 1..Len(r.members) |-> e(i)]
  BY <1>2 DEF Members
<1>4. \A i \in 1..Len(r.members) : e(i) \in Written
  <2> TAKE i \in 1..Len(r.members)
  <2>1. r.members[i] \in Events
    BY <1>1
  <2>2. [tag |-> "Event", ev |-> r.members[i]] \in Loggable
    BY <2>1 DEF Loggable
  <2> QED BY <1>1, <2>2 DEF Written
<1>5. \A i \in 1..Len(r.members) : e(i).seq = r.seq0 + i - 1
  OBVIOUS
<1> HIDE DEF m, e
<1>6. m \in Seq(Written) /\ Len(m) = Len(r.members) /\ DOMAIN m = 1..Len(m)
  BY <1>2, <1>3, <1>4
<1>7. \A i \in 1..Len(m) : m[i].seq = r.seq0 + i - 1
  BY <1>3, <1>5, <1>6
<1>8. InOrder(m)
  BY <1>1, <1>6, <1>7 DEF InOrder
<1>9. \A i \in 1..Len(m) : r.seq0 <= m[i].seq /\ m[i].seq < SeqAfter(r)
  BY <1>1, <1>2, <1>6, <1>7 DEF SeqAfter
<1>10. Elements(m) = Range(m)
  BY DEF Elements, Range
<1> QED BY <1>6, <1>7, <1>8, <1>9, <1>10 DEF m

-----------------------------------------------------------------------------
(* RetainedCell *)

LEMMA EntriesOfDef ==
  ASSUME NEW c, c.lazy \in Seq(RunRecords)
  PROVE  EntriesOf(c) = Elements(c.plain)
                             \cup UNION {Elements(Members(c.lazy[n])) : n \in 1..Len(c.lazy)}
<1>1. DOMAIN c.lazy = 1..Len(c.lazy)
  OBVIOUS
<1>2. \A s : Range(s) = Elements(s)
  BY DEF Range, Elements
<1> QED BY <1>1, <1>2 DEF EntriesOf

LEMMA CellTypes ==
  ASSUME NEW c \in RetainedCells
  PROVE  /\ c.plain \in Seq(Written) /\ c.lazy \in Seq(RunRecords)
         /\ c.expanded \in BOOLEAN /\ c.len \in Nat /\ c.pending \in Nat
         /\ Len(c.plain) \in Nat /\ Len(c.lazy) \in Nat
         /\ \A n \in 1..Len(c.lazy) :
              /\ c.lazy[n] \in RunRecords /\ c.lazy[n].pos \in Nat /\ c.lazy[n].seq0 \in Nat
              /\ Len(c.lazy[n].members) \in Nat /\ SeqAfter(c.lazy[n]) \in Nat
         /\ \A i \in 1..Len(c.plain) : c.plain[i] \in Written /\ c.plain[i].seq \in Nat
<1>1. c.plain \in Seq(Written) /\ c.lazy \in Seq(RunRecords)
      /\ c.expanded \in BOOLEAN /\ c.len \in Nat /\ c.pending \in Nat
  BY DEF RetainedCells
<1>2. \A n \in 1..Len(c.lazy) : c.lazy[n] \in RunRecords
  BY <1>1
<1>3. \A r \in RunRecords : r.pos \in Nat /\ r.seq0 \in Nat /\ r.members \in Seq(Events)
  BY DEF RunRecords
<1>4. \A r \in RunRecords : Len(r.members) \in Nat /\ SeqAfter(r) \in Nat
  BY <1>3 DEF SeqAfter
<1>5. \A i \in 1..Len(c.plain) : c.plain[i] \in Written /\ c.plain[i].seq \in Nat
  BY <1>1, EntrySeq
<1> QED BY <1>1, <1>2, <1>3, <1>4, <1>5

LEMMA AppendOrder ==
  ASSUME NEW w \in Seq(Written), InOrder(w), NEW x \in Written,
         \A i \in 1..Len(w) : w[i].seq < x.seq
  PROVE  /\ Append(w, x) \in Seq(Written) /\ Len(Append(w, x)) = Len(w) + 1
         /\ InOrder(Append(w, x)) /\ Elements(Append(w, x)) = Elements(w) \cup {x}
<1>1. /\ Append(w, x) = w \o <<x>>
      /\ <<x>> \in Seq(Written) /\ Len(<<x>>) = 1 /\ <<x>>[1] = x
  OBVIOUS
<1>2. InOrder(<<x>>) /\ Elements(<<x>>) = {x}
  BY DEF InOrder, Elements
<1>3. \A i \in 1..Len(w), j \in 1..Len(<<x>>) : w[i].seq < <<x>>[j].seq
  BY <1>1
<1> QED BY <1>1, <1>2, <1>3, ConcatOrder

LEMMA PushPlainOK ==
  ASSUME NEW c, NEW w, NEW seq \in Nat, CellOK(c, w, seq), NEW x \in Written, x.seq = seq
  PROVE  CellOK(PushPlain(c, x), Append(w, x), seq + 1)
<1> DEFINE d == PushPlain(c, x)
<1>1. c \in RetainedCells /\ w \in Seq(Written) /\ Len(w) \in Nat
  BY DEF CellOK, CellShape
<1>2. /\ c.plain \in Seq(Written) /\ c.lazy \in Seq(RunRecords) /\ Len(c.plain) \in Nat
      /\ Len(c.lazy) \in Nat /\ c.len \in Nat
  BY <1>1, CellTypes
<1>3. /\ d.plain = Append(c.plain, x) /\ d.lazy = c.lazy /\ d.len = c.len + 1
      /\ d.expanded = c.expanded /\ d \in RetainedCells
  <2> DEFINE P == Append(c.plain, x)
             L == c.len + 1
  <2>1. P \in Seq(Written) /\ L \in Nat
    BY <1>2
  <2>2. d = [c EXCEPT !.plain = P, !.len = L]
    BY DEF PushPlain
  <2> HIDE DEF P, L, d
  <2>3. d.plain = P /\ d.lazy = c.lazy /\ d.len = L /\ d.expanded = c.expanded /\ d \in RetainedCells
    BY <1>1, <2>1, <2>2 DEF RetainedCells
  <2> QED BY <2>3 DEF P, L
<1>6. /\ \A i \in 1..Len(w) : w[i].seq < seq
      /\ \A i \in 1..Len(c.plain) : c.plain[i].seq < seq
      /\ InOrder(w) /\ InOrder(c.plain) /\ Elements(w) = EntriesOf(c) /\ c.len = Len(w)
  BY DEF CellOK, CellShape
<1> HIDE DEF d
<1>7. /\ InOrder(Append(w, x)) /\ Elements(Append(w, x)) = Elements(w) \cup {x}
      /\ Append(w, x) \in Seq(Written) /\ Len(Append(w, x)) = Len(w) + 1
  BY <1>1, <1>6, AppendOrder
<1>8. InOrder(d.plain) /\ Elements(d.plain) = Elements(c.plain) \cup {x} /\ Len(d.plain) = Len(c.plain) + 1
  <2> DEFINE P == c.plain
  <2>1. P \in Seq(Written) /\ InOrder(P) /\ \A i \in 1..Len(P) : P[i].seq < x.seq
    BY <1>2, <1>6
  <2> HIDE DEF P
  <2>2. /\ Len(Append(P, x)) = Len(P) + 1
        /\ InOrder(Append(P, x)) /\ Elements(Append(P, x)) = Elements(P) \cup {x}
    BY <2>1, AppendOrder
  <2> QED BY <1>3, <2>2 DEF P
<1>9. EntriesOf(d) = EntriesOf(c) \cup {x}
  <2>1. EntriesOf(d) = Elements(d.plain)
                            \cup UNION {Elements(Members(d.lazy[n])) : n \in 1..Len(d.lazy)}
    BY <1>2, <1>3, EntriesOfDef
  <2>2. EntriesOf(c) = Elements(c.plain)
                            \cup UNION {Elements(Members(c.lazy[n])) : n \in 1..Len(c.lazy)}
    BY <1>2, EntriesOfDef
  <2> QED BY <1>3, <1>8, <2>1, <2>2
<1>10. \A i \in 1..Len(d.plain) : (i \in 1..Len(c.plain) /\ d.plain[i] = c.plain[i])
                                    \/ (i = Len(c.plain) + 1 /\ d.plain[i] = x)
  BY <1>2, <1>3
<1>11. \A n \in 1..Len(c.lazy) : c.lazy[n].pos \in 0..Len(c.plain) /\ SeqAfter(c.lazy[n]) <= seq /\ SeqAfter(c.lazy[n]) \in Nat /\ c.lazy[n].pos \in Nat
  BY <1>1, CellTypes DEF CellOK, CellShape
<1>12. CellShape(d)
  <2>1. \A n \in 1..Len(d.lazy) : d.lazy[n].pos \in 0..Len(d.plain)
    BY <1>2, <1>3, <1>8, <1>11
  <2>2. \A m, n \in 1..Len(d.lazy) :
          m < n => d.lazy[m].pos <= d.lazy[n].pos /\ SeqAfter(d.lazy[m]) <= d.lazy[n].seq0
    BY <1>3 DEF CellOK, CellShape
  <2>3. ASSUME NEW n \in 1..Len(d.lazy), NEW i \in 1..Len(d.plain)
        PROVE  /\ i <= d.lazy[n].pos => d.plain[i].seq < d.lazy[n].seq0
               /\ i > d.lazy[n].pos => SeqAfter(d.lazy[n]) <= d.plain[i].seq
    <3>1. CASE i \in 1..Len(c.plain) /\ d.plain[i] = c.plain[i]
      BY <1>3, <2>3, <3>1 DEF CellOK, CellShape
    <3>2. CASE i = Len(c.plain) + 1 /\ d.plain[i] = x
      BY <1>2, <1>3, <1>11, <2>3, <3>2
    <3> QED BY <1>10, <3>1, <3>2
  <2>4. d.expanded <=> d.lazy = <<>>
    BY <1>3 DEF CellOK, CellShape
  <2> QED BY <1>3, <1>8, <2>1, <2>2, <2>3, <2>4 DEF CellShape
<1>13. \A i \in 1..Len(d.plain) : d.plain[i].seq < seq + 1
  <2>1. \A i \in 1..Len(c.plain) : c.plain[i].seq \in Nat
    BY <1>1, CellTypes
  <2> QED BY <1>6, <1>10, <2>1
<1>14. \A i \in 1..Len(Append(w, x)) : Append(w, x)[i].seq < seq + 1
  <2>1. \A i \in 1..Len(w) : w[i].seq \in Nat
    BY <1>1, EntrySeq
  <2> QED BY <1>1, <1>6, <2>1
<1> QED BY <1>3, <1>6, <1>7, <1>9, <1>11, <1>12, <1>13, <1>14 DEF CellOK, d

LEMMA PushRunOK ==
  ASSUME NEW c, NEW w, NEW seq \in Nat, CellOK(c, w, seq), NEW r \in RunRecords,
         r.pos = Len(c.plain), r.seq0 = seq
  PROVE  CellOK(PushRun(c, r), w \o Members(r), seq + Len(r.members))
<1> DEFINE d == PushRun(c, r)
           m == Members(r)
           v == w \o m
<1>1. c \in RetainedCells /\ w \in Seq(Written) /\ Len(w) \in Nat
  BY DEF CellOK, CellShape
<1>2. /\ c.plain \in Seq(Written) /\ c.lazy \in Seq(RunRecords) /\ Len(c.plain) \in Nat
      /\ Len(c.lazy) \in Nat /\ c.len \in Nat /\ c.pending \in Nat
  BY <1>1, CellTypes
<1>3. /\ m \in Seq(Written) /\ Len(m) = Len(r.members) /\ InOrder(m) /\ Len(m) \in Nat
      /\ \A i \in 1..Len(m) : r.seq0 <= m[i].seq /\ m[i].seq < SeqAfter(r)
      /\ \A i \in 1..Len(m) : m[i].seq \in Nat
  BY MembersFacts, EntrySeq
<1>4. SeqAfter(r) = seq + Len(m) /\ SeqAfter(r) \in Nat
  BY <1>3 DEF SeqAfter
<1>5. /\ d.plain = c.plain /\ d.lazy = Append(c.lazy, r) /\ d.len = c.len + Len(m)
      /\ d.expanded = FALSE /\ d \in RetainedCells
  <2> DEFINE P == Append(c.lazy, r)
             L == c.len + Len(r.members)
             Q == c.pending + 1
  <2>1. P \in Seq(RunRecords) /\ L \in Nat /\ Q \in Nat
    BY <1>2, <1>3
  <2>2. d = [c EXCEPT !.lazy = P, !.len = L, !.pending = Q, !.expanded = FALSE]
    BY DEF PushRun
  <2> HIDE DEF P, L, Q, d, m
  <2>3. d.plain = c.plain /\ d.lazy = P /\ d.len = L /\ d.expanded = FALSE /\ d \in RetainedCells
    BY <1>1, <2>1, <2>2 DEF RetainedCells
  <2> QED BY <1>3, <2>3 DEF P, L
<1> HIDE DEF d, m, v
<1>6. /\ \A i \in 1..Len(w) : w[i].seq < seq
      /\ \A i \in 1..Len(c.plain) : c.plain[i].seq < seq
      /\ \A n \in 1..Len(c.lazy) : SeqAfter(c.lazy[n]) <= seq
      /\ InOrder(w) /\ InOrder(c.plain) /\ Elements(w) = EntriesOf(c) /\ c.len = Len(w)
  BY DEF CellOK, CellShape
<1>7. /\ v \in Seq(Written) /\ Len(v) = Len(w) + Len(m) /\ InOrder(v)
      /\ Elements(v) = Elements(w) \cup Elements(m)
  <2>1. \A i \in 1..Len(w), j \in 1..Len(m) : w[i].seq < m[j].seq
    <3>1. \A i \in 1..Len(w) : w[i].seq \in Nat
      BY <1>1, EntrySeq
    <3> QED BY <1>3, <1>6, <3>1
  <2> QED BY ONLY <1>1, <1>3, <1>6, <2>1, ConcatOrder DEF v
<1>8. \A n \in 1..Len(d.lazy) : (n \in 1..Len(c.lazy) /\ d.lazy[n] = c.lazy[n])
                                  \/ (n = Len(c.lazy) + 1 /\ d.lazy[n] = r)
  BY <1>2, <1>5
<1>9. Len(d.lazy) = Len(c.lazy) + 1 /\ d.lazy[Len(c.lazy) + 1] = r
      /\ \A n \in 1..Len(c.lazy) : d.lazy[n] = c.lazy[n]
  BY <1>2, <1>5
<1>10. EntriesOf(d) = EntriesOf(c) \cup Elements(m)
  <2> DEFINE X(e, n) == Elements(Members(e.lazy[n]))
  <2>0. EntriesOf(d) = Elements(d.plain) \cup UNION {X(d, n) : n \in 1..Len(d.lazy)}
    BY <1>5, CellTypes, EntriesOfDef
  <2>1. EntriesOf(d) = Elements(c.plain) \cup UNION {X(d, n) : n \in 1..Len(d.lazy)}
    BY ONLY <2>0, <1>5
  <2>2. EntriesOf(c) = Elements(c.plain) \cup UNION {X(c, n) : n \in 1..Len(c.lazy)}
    BY <1>2, EntriesOfDef
  <2>3. \A n \in 1..Len(c.lazy) : X(d, n) = X(c, n) /\ n \in 1..Len(d.lazy)
    BY <1>2, <1>9
  <2>4. X(d, Len(c.lazy) + 1) = Elements(m) /\ Len(c.lazy) + 1 \in 1..Len(d.lazy)
    BY <1>2, <1>9 DEF m
  <2>5. \A n \in 1..Len(d.lazy) : n \in 1..Len(c.lazy) \/ n = Len(c.lazy) + 1
    BY <1>8
  <2> HIDE DEF X
  <2>6. UNION {X(d, n) : n \in 1..Len(d.lazy)} = (UNION {X(c, n) : n \in 1..Len(c.lazy)}) \cup Elements(m)
    BY ONLY <2>3, <2>4, <2>5
  <2> QED BY <2>1, <2>2, <2>6
<1>11. CellShape(d)
  <2>1. \A n \in 1..Len(c.lazy) : /\ c.lazy[n].pos \in 0..Len(c.plain) /\ c.lazy[n].pos \in Nat
                                  /\ SeqAfter(c.lazy[n]) \in Nat
    BY <1>1, CellTypes DEF CellOK, CellShape
  <2>2. \A n \in 1..Len(d.lazy) : d.lazy[n].pos \in 0..Len(d.plain)
    BY <1>2, <1>5, <1>8, <2>1
  <2>3. ASSUME NEW k \in 1..Len(d.lazy), NEW n \in 1..Len(d.lazy), k < n
        PROVE  d.lazy[k].pos <= d.lazy[n].pos /\ SeqAfter(d.lazy[k]) <= d.lazy[n].seq0
    <3>1. k \in 1..Len(c.lazy) /\ d.lazy[k] = c.lazy[k]
      BY <1>2, <1>8, <1>9, <2>3
    <3>2. CASE n \in 1..Len(c.lazy)
      BY <1>9, <2>3, <3>1, <3>2 DEF CellOK, CellShape
    <3>3. CASE n = Len(c.lazy) + 1
      BY <1>6, <1>9, <2>1, <3>1, <3>3
    <3> QED BY <1>8, <3>2, <3>3
  <2>4. ASSUME NEW n \in 1..Len(d.lazy), NEW i \in 1..Len(d.plain)
        PROVE  /\ i <= d.lazy[n].pos => d.plain[i].seq < d.lazy[n].seq0
               /\ i > d.lazy[n].pos => SeqAfter(d.lazy[n]) <= d.plain[i].seq
    <3>1. CASE n \in 1..Len(c.lazy)
      BY <1>5, <1>9, <2>4, <3>1 DEF CellOK, CellShape
    <3>2. CASE n = Len(c.lazy) + 1
      BY <1>2, <1>5, <1>6, <1>9, <2>4, <3>2
    <3> QED BY <1>8, <3>1, <3>2
  <2>5. d.expanded <=> d.lazy = <<>>
    BY <1>2, <1>5, <1>9
  <2> QED BY <1>5, <1>6, <2>2, <2>3, <2>4, <2>5 DEF CellShape
<1>12. \A n \in 1..Len(d.lazy) : SeqAfter(d.lazy[n]) <= seq + Len(m)
  <2>1. \A n \in 1..Len(c.lazy) : SeqAfter(c.lazy[n]) \in Nat
    BY <1>1, CellTypes
  <2> TAKE n \in 1..Len(d.lazy)
  <2>2. CASE n \in 1..Len(c.lazy) /\ d.lazy[n] = c.lazy[n]
    <3> DEFINE a == SeqAfter(c.lazy[n])
               l == Len(m)
    <3>1. a \in Nat /\ a <= seq /\ l \in Nat /\ seq \in Nat
      BY <1>3, <1>6, <2>1, <2>2
    <3> HIDE DEF a, l
    <3>2. a <= seq + l
      BY ONLY <3>1
    <3> QED BY <2>2, <3>2 DEF a, l
  <2>3. CASE n = Len(c.lazy) + 1 /\ d.lazy[n] = r
    <3>1. SeqAfter(d.lazy[n]) = SeqAfter(r)
      BY <2>3
    <3>2. SeqAfter(r) \in Nat /\ SeqAfter(r) = seq + Len(m)
      BY <1>4
    <3>3. SeqAfter(r) <= SeqAfter(r)
      BY ONLY <3>2
    <3> QED BY <3>1, <3>2, <3>3
  <2> QED BY <1>8, <2>2, <2>3
<1>13. \A i \in 1..Len(d.plain) : d.plain[i].seq < seq + Len(m)
  <2>1. \A i \in 1..Len(c.plain) : c.plain[i].seq \in Nat
    BY <1>1, CellTypes
  <2> QED BY <1>3, <1>5, <1>6, <2>1
<1>14. \A i \in 1..Len(v) : v[i].seq < seq + Len(m)
  <2>1. \A i \in 1..Len(w) : w[i].seq \in Nat
    BY <1>1, EntrySeq
  <2>2. \A i \in 1..Len(v) : (i \in 1..Len(w) /\ v[i] = w[i]) \/ (i - Len(w) \in 1..Len(m) /\ v[i] = m[i - Len(w)])
    BY <1>1, <1>3, <1>7 DEF v
  <2>3. ASSUME NEW i \in 1..Len(v) PROVE v[i].seq < seq + Len(m)
    <3>1. CASE i \in 1..Len(w) /\ v[i] = w[i]
      BY <1>3, <1>6, <2>1, <3>1, SMTT(30)
    <3>2. CASE i - Len(w) \in 1..Len(m) /\ v[i] = m[i - Len(w)]
      BY <1>3, <1>4, <3>2
    <3> QED BY <2>2, <3>1, <3>2
  <2> QED BY <2>3
<1>15. CellOK(d, v, seq + Len(m))
  BY <1>5, <1>6, <1>7, <1>10, <1>11, <1>12, <1>13, <1>14 DEF CellOK
<1> QED BY <1>3, <1>15 DEF d, m, v

-----------------------------------------------------------------------------
(* Loops *)

\* A set of numbers that is not empty has a least one.
LEMMA LeastNumber ==
  ASSUME NEW S \in SUBSET Nat, S # {}
  PROVE  \E x \in S : \A y \in S : x <= y
<1> DEFINE R == OpToRel(<, Nat)
<1>1. IsWellFoundedOn(R, Nat)
  BY NatLessThanWellFounded
<1>2. \A x, y \in Nat : y < x => <<y, x>> \in R
  BY DEF OpToRel
<1> HIDE DEF R
<1>3. PICK x \in S : \A y \in S : ~(<<y, x>> \in R)
  BY <1>1, WFMin
<1>4. \A y \in S : ~(y < x)
  BY <1>2, <1>3, Zenon
<1> QED BY <1>4

\* Induction up to N.
LEMMA Reaches ==
  ASSUME NEW N \in Nat, NEW G, 0 \in G, \A k \in 1..N : k - 1 \in G => k \in G
  PROVE  0..N \subseteq G
<1> DEFINE T == {k \in 0..N : k \notin G}
<1> SUFFICES ASSUME T # {} PROVE FALSE
  OBVIOUS
<1>1. T \in SUBSET Nat
  OBVIOUS
<1>2. PICK m \in T : \A y \in T : m <= y
  <2> HIDE DEF T
  <2> QED BY <1>1, LeastNumber
<1>3. m # 0 /\ m \in 0..N /\ m \notin G
  OBVIOUS
<1>4. m - 1 \in 0..N /\ m - 1 \notin T
  <2> HIDE DEF T
  <2> QED BY <1>2, <1>3
<1> QED BY <1>3, <1>4

\* A loop of N steps from b exists.
LEMMA LoopExists ==
  ASSUME NEW S, NEW b \in S, NEW N \in Nat, NEW F \in [1..N -> [S -> S]]
  PROVE  \E s \in [0..N -> S] : s[0] = b /\ \A k \in 1..N : s[k] = F[k][s[k - 1]]
<1> DEFINE Has(m) == \E s \in [0..m -> S] :
                       \A k \in 0..m : s[k] = IF k = 0 THEN b ELSE F[k][s[k - 1]]
           G == {m \in 0..N : Has(m)}
<1>1. Has(0)
  <2> DEFINE s == [k \in 0..0 |-> b]
  <2>1. s \in [0..0 -> S] /\ \A k \in 0..0 : s[k] = IF k = 0 THEN b ELSE F[k][s[k - 1]]
    OBVIOUS
  <2> QED BY <2>1
<1>2. ASSUME NEW m \in 1..N, Has(m - 1) PROVE Has(m)
  <2>1. PICK s \in [0..(m - 1) -> S] :
               \A k \in 0..(m - 1) : s[k] = IF k = 0 THEN b ELSE F[k][s[k - 1]]
    BY <1>2
  <2> DEFINE next == F[m][s[m - 1]]
             t == [k \in 0..m |-> IF k = m THEN next ELSE s[k]]
  <2>2. next \in S
    <3>1. s[m - 1] \in S
      BY <2>1
    <3> QED BY <3>1
  <2>3. t \in [0..m -> S]
    <3> HIDE DEF next
    <3> QED BY <2>2
  <2>4. \A k \in 0..m : t[k] = IF k = 0 THEN b ELSE F[k][t[k - 1]]
    <3> TAKE k \in 0..m
    <3>1. CASE k = m
      BY <3>1
    <3>2. CASE k < m
      <4>1. s[k] = IF k = 0 THEN b ELSE F[k][s[k - 1]]
        BY <2>1, <3>2
      <4>2. t[k] = s[k] /\ (k # 0 => t[k - 1] = s[k - 1])
        <5> HIDE DEF next
        <5> QED BY <3>2
      <4> HIDE DEF t
      <4> QED BY <4>1, <4>2
    <3> QED BY <3>1, <3>2
  <2> QED BY <2>3, <2>4
<1>3. 0 \in G /\ \A k \in 1..N : k - 1 \in G => k \in G
  <2>1. \A k \in 1..N : Has(k - 1) => Has(k)
    <3> HIDE DEF Has
    <3> QED BY <1>2
  <2> HIDE DEF Has
  <2> QED BY <1>1, <2>1
<1>4. Has(N)
  <2>1. 0..N \subseteq G
    <3> HIDE DEF G
    <3> QED BY ONLY <1>3, N \in Nat, Reaches
  <2> QED BY <2>1
<1>5. PICK s \in [0..N -> S] : \A k \in 0..N : s[k] = IF k = 0 THEN b ELSE F[k][s[k - 1]]
  BY <1>4
<1>6. s[0] = b /\ \A k \in 1..N : s[k] = F[k][s[k - 1]]
  BY <1>5
<1> QED BY <1>6

-----------------------------------------------------------------------------
(* Retained::expand *)

\* The first p plain entries of a cell, and what its first n records stand for.
PlainUpTo(c, p) == {c.plain[i] : i \in 1..p}
RunsUpTo(c, n) == UNION {Elements(Members(c.lazy[k])) : k \in 1..n}

\* Records and plain entries are apart.
LEMMA Apart ==
  ASSUME NEW c, CellShape(c), NEW n \in 0..Len(c.lazy), NEW x \in RunsUpTo(c, n)
  PROVE  /\ \A i \in 1..Len(c.plain) :
              (\A k \in 1..n : c.lazy[k].pos < i) => x.seq < c.plain[i].seq
         /\ \A m \in 1..Len(c.lazy) : n < m => x.seq < c.lazy[m].seq0
<1>1. PICK k \in 1..n : x \in Elements(Members(c.lazy[k]))
  BY DEF RunsUpTo
<1>2. c \in RetainedCells /\ k \in 1..Len(c.lazy)
  BY DEF CellShape
<1> DEFINE r == c.lazy[k]
           m == Members(r)
<1>3. /\ r \in RunRecords /\ SeqAfter(r) \in Nat
      /\ \A i \in 1..Len(c.plain) : c.plain[i].seq \in Nat
      /\ \A j \in 1..Len(c.lazy) : c.lazy[j].seq0 \in Nat /\ c.lazy[j].pos \in Nat
  BY <1>2, CellTypes
<1>4. m \in Seq(Written) /\ \A i \in 1..Len(m) : m[i].seq < SeqAfter(r)
  <2> HIDE DEF r
  <2> QED BY <1>3, MembersFacts
<1>5. PICK i \in 1..Len(m) : x = m[i]
  <2> HIDE DEF r
  <2> QED BY <1>1, <1>4 DEF Elements, r
<1>6. x.seq \in Nat /\ x.seq < SeqAfter(r)
  BY <1>4, <1>5, EntrySeq
<1>7. ASSUME NEW j \in 1..Len(c.plain), \A h \in 1..n : c.lazy[h].pos < j PROVE x.seq < c.plain[j].seq
  <2>1. c.lazy[k].pos < j
    BY <1>7
  <2>2. SeqAfter(c.lazy[k]) <= c.plain[j].seq
    BY <1>2, <1>3, <2>1 DEF CellShape
  <2> QED BY <1>3, <1>6, <2>2
<1>8. ASSUME NEW j \in 1..Len(c.lazy), n < j PROVE x.seq < c.lazy[j].seq0
  <2>1. SeqAfter(c.lazy[k]) <= c.lazy[j].seq0
    BY <1>2, <1>8 DEF CellShape
  <2> QED BY <1>3, <1>6, <2>1
<1> QED BY <1>7, <1>8

\* Sequences one behind the other.
LEMMA JoinOrder ==
  ASSUME NEW a \in Seq(Written), NEW b \in Seq(Written), InOrder(a), InOrder(b),
         \A x \in Elements(a), y \in Elements(b) : x.seq < y.seq
  PROVE  /\ a \o b \in Seq(Written) /\ InOrder(a \o b)
         /\ Elements(a \o b) = Elements(a) \cup Elements(b)
<1>1. \A i \in 1..Len(a), j \in 1..Len(b) : a[i].seq < b[j].seq
  <2>1. DOMAIN a = 1..Len(a) /\ DOMAIN b = 1..Len(b)
    OBVIOUS
  <2> QED BY <2>1 DEF Elements
<1> QED BY <1>1, ConcatOrder

\* One turn of the loop of expand: the entries moved so far are in order, and
\* stay so.
Moved(c, n, acc) ==
  /\ acc.out \in Seq(Written) /\ InOrder(acc.out)
  /\ acc.p = c.lazy[IF n = 0 THEN 1 ELSE n].pos
  /\ Elements(acc.out) = PlainUpTo(c, acc.p) \cup RunsUpTo(c, n)

LEMMA PlaceFacts ==
  ASSUME NEW c, CellShape(c), NEW n \in 1..Len(c.lazy), NEW acc, Moved(c, n - 1, acc)
  PROVE  Moved(c, n, Place(c, acc, c.lazy[n]))
<1> DEFINE r == c.lazy[n]
           mid == SubSeq(c.plain, acc.p + 1, r.pos)
           m == Members(r)
           d == Place(c, acc, r)
<1>1. /\ c \in RetainedCells /\ c.plain \in Seq(Written) /\ Len(c.plain) \in Nat /\ InOrder(c.plain)
      /\ Len(c.lazy) \in Nat /\ r \in RunRecords /\ r.pos \in 0..Len(c.plain)
      /\ \A i \in 1..Len(c.plain) : c.plain[i].seq \in Nat
      /\ \A k \in 1..Len(c.lazy) : c.lazy[k].pos \in 0..Len(c.plain) /\ c.lazy[k].pos \in Nat
  <2>1. c \in RetainedCells
    BY DEF CellShape
  <2> QED BY <2>1, CellTypes DEF CellShape
<1>2. acc.p \in Nat /\ acc.p <= r.pos
  <2>1. CASE n = 1
    BY <1>1, <2>1 DEF Moved
  <2>2. CASE n > 1
    <3>1. acc.p = c.lazy[n - 1].pos /\ n - 1 \in 1..Len(c.lazy) /\ n - 1 < n
      BY <1>1, <2>2 DEF Moved
    <3>2. c.lazy[n - 1].pos <= c.lazy[n].pos
      BY <3>1 DEF CellShape
    <3> QED BY <1>1, <3>1, <3>2
  <2> QED BY <1>1, <2>1, <2>2
<1>3. \A k \in 1..(n - 1) : k \in 1..Len(c.lazy) /\ c.lazy[k].pos <= acc.p
  <2> TAKE k \in 1..(n - 1)
  <2>1. acc.p = c.lazy[n - 1].pos /\ n - 1 \in 1..Len(c.lazy) /\ k \in 1..Len(c.lazy)
    BY <1>1 DEF Moved
  <2>2. CASE k = n - 1
    BY <1>1, <2>1, <2>2
  <2>3. CASE k < n - 1
    BY <1>1, <2>1, <2>3 DEF CellShape
  <2> QED BY <2>1, <2>2, <2>3
<1>4. /\ mid \in Seq(Written) /\ InOrder(mid)
      /\ Elements(mid) = {c.plain[i] : i \in (acc.p + 1)..r.pos}
  <2> DEFINE P == c.plain
             lo == acc.p + 1
             hi == r.pos
  <2>1. P \in Seq(Written) /\ InOrder(P) /\ lo \in Nat /\ hi \in Nat /\ 1 <= lo /\ hi <= Len(P)
    BY <1>1, <1>2
  <2> HIDE DEF P, lo, hi
  <2>2. /\ SubSeq(P, lo, hi) \in Seq(Written) /\ InOrder(SubSeq(P, lo, hi))
        /\ Elements(SubSeq(P, lo, hi)) = {P[i] : i \in lo..hi}
    <3>1. /\ SubSeq(P, lo, hi) \in Seq(Written) /\ InOrder(SubSeq(P, lo, hi))
          /\ Elements(SubSeq(P, lo, hi)) = Between(P, lo, hi)
      BY ONLY <2>1, CutOrder
    <3> QED BY <3>1 DEF Between
  <2> QED BY <2>2 DEF P, lo, hi
<1>5. /\ acc.out \in Seq(Written) /\ InOrder(acc.out)
      /\ Elements(acc.out) = PlainUpTo(c, acc.p) \cup RunsUpTo(c, n - 1)
  BY DEF Moved
<1>6. m \in Seq(Written) /\ InOrder(m) /\ \A y \in Elements(m) : y.seq \in Nat /\ r.seq0 <= y.seq
  <2>1. /\ m \in Seq(Written) /\ InOrder(m) /\ DOMAIN m = 1..Len(m)
        /\ \A i \in 1..Len(m) : r.seq0 <= m[i].seq /\ m[i].seq \in Nat
    <3> HIDE DEF r
    <3>1. r \in RunRecords
      BY <1>1
    <3>2. m \in Seq(Written) /\ InOrder(m) /\ \A i \in 1..Len(m) : r.seq0 <= m[i].seq
      BY <3>1, MembersFacts
    <3> HIDE DEF m
    <3> QED BY <3>2, EntrySeq
  <2> HIDE DEF m, r
  <2> QED BY <2>1 DEF Elements
<1> HIDE DEF r, mid, m
<1>7. \A x \in Elements(acc.out), y \in Elements(mid) : x.seq < y.seq
  <2> TAKE x \in Elements(acc.out), y \in Elements(mid)
  <2>1. PICK j \in (acc.p + 1)..r.pos : y = c.plain[j]
    BY <1>4
  <2>2. j \in 1..Len(c.plain) /\ acc.p < j
    BY <1>1, <1>2, <2>1
  <2>3. CASE x \in PlainUpTo(c, acc.p)
    <3>1. PICK i \in 1..acc.p : x = c.plain[i]
      BY <2>3 DEF PlainUpTo
    <3>2. i \in 1..Len(c.plain) /\ i < j
      BY <1>1, <1>2, <2>1, <2>2, <3>1
    <3>3. DOMAIN c.plain = 1..Len(c.plain)
      BY <1>1
    <3> QED BY <1>1, <2>1, <2>2, <3>1, <3>2, <3>3 DEF InOrder
  <2>4. CASE x \in RunsUpTo(c, n - 1)
    <3>1. n - 1 \in 0..Len(c.lazy)
      BY <1>1
    <3>2. \A k \in 1..(n - 1) : c.lazy[k].pos < j
      BY <1>1, <1>2, <1>3, <2>2
    <3>3. x.seq < c.plain[j].seq
      BY <2>2, <2>4, <3>1, <3>2, Apart
    <3> QED BY <2>1, <3>3
  <2> QED BY <1>5, <2>3, <2>4
<1> DEFINE a == acc.out \o mid
<1>8. a \in Seq(Written) /\ InOrder(a) /\ Elements(a) = Elements(acc.out) \cup Elements(mid)
  BY <1>4, <1>5, <1>7, JoinOrder
<1>9. Elements(acc.out) \cup Elements(mid) = PlainUpTo(c, r.pos) \cup RunsUpTo(c, n - 1)
  <2>1. \A i \in 1..r.pos : i \in 1..acc.p \/ i \in (acc.p + 1)..r.pos
    BY <1>1, <1>2
  <2>2. \A i \in 1..acc.p : i \in 1..r.pos
    BY <1>1, <1>2
  <2>3. \A i \in (acc.p + 1)..r.pos : i \in 1..r.pos
    BY <1>1, <1>2
  <2> QED BY <1>4, <1>5, <2>1, <2>2, <2>3 DEF PlainUpTo
<1>10. \A x \in Elements(a), y \in Elements(m) : x.seq < y.seq
  <2> TAKE x \in Elements(a), y \in Elements(m)
  <2>0. r.seq0 <= y.seq /\ y.seq \in Nat /\ r.seq0 \in Nat
    BY <1>1, <1>6 DEF RunRecords
  <2>1. CASE x \in PlainUpTo(c, r.pos)
    <3>1. PICK i \in 1..r.pos : x = c.plain[i]
      BY <2>1 DEF PlainUpTo
    <3>2. i \in 1..Len(c.plain) /\ i <= c.lazy[n].pos
      BY <1>1, <3>1 DEF r
    <3>3. c.plain[i].seq < c.lazy[n].seq0
      BY <3>2 DEF CellShape
    <3> QED BY <1>1, <2>0, <3>1, <3>2, <3>3 DEF r
  <2>2. CASE x \in RunsUpTo(c, n - 1)
    <3>1. n - 1 \in 0..Len(c.lazy) /\ n - 1 < n
      BY <1>1
    <3>2. x.seq < c.lazy[n].seq0
      BY <2>2, <3>1, Apart
    <3>3. x.seq \in Nat
      <4>1. x \in Elements(acc.out)
        BY <1>5, <2>2
      <4> QED BY <1>5, <4>1, EntrySeq DEF Elements
    <3> QED BY <2>0, <3>2, <3>3 DEF r
  <2> QED BY <1>8, <1>9, <2>1, <2>2
<1> HIDE DEF a
<1>11. a \o m \in Seq(Written) /\ InOrder(a \o m) /\ Elements(a \o m) = Elements(a) \cup Elements(m)
  BY <1>6, <1>8, <1>10, JoinOrder
<1>12. RunsUpTo(c, n) = RunsUpTo(c, n - 1) \cup Elements(m)
  <2>1. \A k \in 1..n : k \in 1..(n - 1) \/ k = n
    OBVIOUS
  <2>2. n \in 1..n /\ \A k \in 1..(n - 1) : k \in 1..n
    OBVIOUS
  <2> QED BY <2>1, <2>2 DEF RunsUpTo, m, r
<1>13. d.out = a \o m /\ d.p = r.pos
  <2>1. d = [out |-> acc.out \o mid \o m, p |-> IF acc.p < r.pos THEN r.pos ELSE acc.p]
    BY DEF Place, mid, m
  <2>2. (IF acc.p < r.pos THEN r.pos ELSE acc.p) = r.pos
    BY <1>1, <1>2
  <2> HIDE DEF d
  <2> QED BY <2>1, <2>2 DEF a
<1>14. d.p = c.lazy[IF n = 0 THEN 1 ELSE n].pos
  BY <1>13 DEF r
<1> QED BY <1>8, <1>9, <1>11, <1>12, <1>13, <1>14 DEF Moved, r

\* Expanding a cell puts its entries in order.
LEMMA ExpandOK ==
  ASSUME NEW c, NEW w, NEW seq, CellOK(c, w, seq)
  PROVE  Expand(c).plain = w /\ Expand(c) = [c EXCEPT !.plain = w, !.lazy = <<>>]
<1>1. /\ CellShape(c) /\ c \in RetainedCells /\ w \in Seq(Written) /\ InOrder(w)
      /\ Elements(w) = EntriesOf(c)
  BY DEF CellOK, CellShape
<1>2. /\ c.plain \in Seq(Written) /\ InOrder(c.plain) /\ c.lazy \in Seq(RunRecords)
      /\ Len(c.lazy) \in Nat /\ Len(c.plain) \in Nat
      /\ \A i \in 1..Len(c.plain) : c.plain[i].seq \in Nat
      /\ \A k \in 1..Len(c.lazy) : c.lazy[k].pos \in 0..Len(c.plain) /\ c.lazy[k].pos \in Nat
  BY <1>1, CellTypes DEF CellShape
<1>3. EntriesOf(c) = PlainUpTo(c, Len(c.plain)) \cup RunsUpTo(c, Len(c.lazy))
  <2>1. DOMAIN c.plain = 1..Len(c.plain)
    BY <1>2
  <2>2. Elements(c.plain) = PlainUpTo(c, Len(c.plain))
    BY <2>1 DEF Elements, PlainUpTo
  <2> QED BY <1>2, <2>2, EntriesOfDef DEF RunsUpTo
<1>4. \A v \in Seq(Written) : InOrder(v) /\ Elements(v) = EntriesOf(c) => v = w
  <2>1. WrittenOut(c) = w
    BY <1>1, WrittenIs
  <2>2. \A v \in Seq(Written) : InOrder(v) /\ Elements(v) = EntriesOf(c) => WrittenOut(c) = v
    BY WrittenIs
  <2> QED BY <2>1, <2>2
<1>5. CASE c.lazy = <<>>
  <2>1. RunsUpTo(c, 0) = {} /\ Len(c.lazy) = 0
    BY <1>5 DEF RunsUpTo
  <2>2. Elements(c.plain) = EntriesOf(c)
    BY <1>2, <1>3, <2>1 DEF Elements, PlainUpTo
  <2>3. c.plain = w
    <3> DEFINE P == c.plain
    <3>1. P \in Seq(Written) /\ InOrder(P) /\ Elements(P) = EntriesOf(c)
      BY <1>2, <2>2
    <3> HIDE DEF P
    <3>2. P = w
      BY <1>4, <3>1
    <3> QED BY <3>2 DEF P
  <2>4. Expand(c) = c
    BY <1>5 DEF Expand
  <2>5. c = [c EXCEPT !.plain = w, !.lazy = <<>>]
    BY <1>1, <1>5, <2>3 DEF RetainedCells
  <2> QED BY <2>3, <2>4, <2>5
<1>6. CASE c.lazy # <<>>
  <2> DEFINE N == Len(c.lazy)
             start == c.lazy[1].pos
             Accs == [out : Seq(Written), p : Nat]
             b == [out |-> SubSeq(c.plain, 1, start), p |-> start]
             f == [k \in 1..N |-> [x \in Accs |-> Place(c, x, c.lazy[k])]]
             IsLoop(t) == t = [n \in 0..N |-> IF n = 0 THEN b ELSE Place(c, t[n - 1], c.lazy[n])]
  <2>1. N \in Nat /\ N > 0 /\ 1 \in 1..N
    BY <1>2, <1>6
  <2>2. /\ Moved(c, 0, b) /\ b \in Accs
    <3>1. /\ SubSeq(c.plain, 1, start) \in Seq(Written) /\ InOrder(SubSeq(c.plain, 1, start))
          /\ Elements(SubSeq(c.plain, 1, start)) = {c.plain[i] : i \in 1..start}
      <4> DEFINE P == c.plain
                 hi == start
      <4>1. P \in Seq(Written) /\ InOrder(P) /\ 1 \in Nat /\ hi \in Nat /\ 1 <= 1 /\ hi <= Len(P)
        BY <1>2, <2>1
      <4> HIDE DEF P, hi
      <4>2. /\ SubSeq(P, 1, hi) \in Seq(Written) /\ InOrder(SubSeq(P, 1, hi))
            /\ Elements(SubSeq(P, 1, hi)) = {P[i] : i \in 1..hi}
        BY ONLY <4>1, SubOrder
      <4> QED BY <4>2 DEF P, hi
    <3>2. start \in Nat
      BY <1>2, <2>1
    <3>3. RunsUpTo(c, 0) = {}
      BY DEF RunsUpTo
    <3>4. b.out = SubSeq(c.plain, 1, start) /\ b.p = start
      OBVIOUS
    <3>5. b \in Accs
      BY <3>1, <3>2
    <3> HIDE DEF b
    <3> QED BY <3>1, <3>3, <3>4, <3>5 DEF Moved, PlainUpTo
  <2>3. \A x \in Accs, k \in 1..N : Place(c, x, c.lazy[k]) \in Accs
    <3> TAKE x \in Accs, k \in 1..N
    <3> DEFINE r == c.lazy[k]
    <3>1. r \in RunRecords /\ r.pos \in Nat /\ r.pos <= Len(c.plain) /\ x.out \in Seq(Written) /\ x.p \in Nat
      BY <1>1, <1>2, CellTypes
    <3>2. Members(r) \in Seq(Written)
      <4> HIDE DEF r
      <4> QED BY <3>1, MembersFacts
    <3>3. SubSeq(c.plain, x.p + 1, r.pos) \in Seq(Written)
      <4>1. \A i \in (x.p + 1)..r.pos : c.plain[i] \in Written
        BY <1>2, <3>1
      <4> HIDE DEF r
      <4> QED BY <3>1, <4>1
    <3> HIDE DEF r
    <3> DEFINE o == x.out \o SubSeq(c.plain, x.p + 1, r.pos) \o Members(r)
               q == IF x.p < r.pos THEN r.pos ELSE x.p
    <3>4. o \in Seq(Written) /\ q \in Nat
      BY <3>1, <3>2, <3>3
    <3>5. Place(c, x, r) = [out |-> o, p |-> q]
      BY DEF Place
    <3> HIDE DEF o, q
    <3>6. Place(c, x, r) \in Accs
      BY <3>4, <3>5
    <3> QED BY <3>6 DEF r
  <2>4. f \in [1..N -> [Accs -> Accs]] /\ \A x \in Accs, k \in 1..N : f[k][x] = Place(c, x, c.lazy[k])
    <3> HIDE DEF Accs, N
    <3> QED BY <2>3
  <2> HIDE DEF f, N, b, Accs
  <2>5. PICK t \in [0..N -> Accs] : t[0] = b /\ \A k \in 1..N : t[k] = f[k][t[k - 1]]
    <3>1. N \in Nat /\ b \in Accs /\ f \in [1..N -> [Accs -> Accs]]
      BY <2>1, <2>2, <2>4
    <3> QED BY ONLY <3>1, LoopExists
  <2>6. IsLoop(t)
    <3>1. \A k \in 0..N : k # 0 => t[k - 1] \in Accs /\ k \in 1..N
      BY <2>1
    <3>2. \A k \in 0..N : k # 0 => f[k][t[k - 1]] = Place(c, t[k - 1], c.lazy[k])
      BY <2>4, <3>1
    <3>3. \A k \in 0..N : t[k] = IF k = 0 THEN b ELSE f[k][t[k - 1]]
      BY <2>1, <2>5
    <3> QED BY <3>2, <3>3
  <2> DEFINE s == CHOOSE x : IsLoop(x)
             e == s[N]
  <2>7. IsLoop(s)
    <3> HIDE DEF IsLoop
    <3> QED BY <2>6
  <2>8. Expand(c) = [c EXCEPT !.plain = e.out \o SubSeq(c.plain, e.p + 1, Len(c.plain)), !.lazy = <<>>]
    BY <1>6 DEF Expand, N, b
  <2> HIDE DEF s
  <2>9. s[0] = b /\ \A k \in 1..N : s[k] = Place(c, s[k - 1], c.lazy[k])
    BY <2>1, <2>7
  <2>10. Moved(c, N, e)
    <3> DEFINE G == {k \in 0..N : Moved(c, k, s[k])}
    <3>1. 0 \in G
      BY <2>1, <2>2, <2>9
    <3>2. ASSUME NEW k \in 1..N, k - 1 \in G PROVE k \in G
      <4>1. Moved(c, k - 1, s[k - 1]) /\ k \in 1..Len(c.lazy)
        BY <3>2 DEF N
      <4>2. Moved(c, k, Place(c, s[k - 1], c.lazy[k]))
        BY ONLY <1>1, <4>1, PlaceFacts
      <4> QED BY <2>1, <2>9, <4>2
    <3> HIDE DEF G
    <3>3. 0..N \subseteq G
      BY ONLY <2>1, <3>1, <3>2, Reaches
    <3> QED BY <2>1, <3>3 DEF G
  <2> HIDE DEF e
  <2> DEFINE rest == SubSeq(c.plain, e.p + 1, Len(c.plain))
  <2>11. /\ e.out \in Seq(Written) /\ InOrder(e.out) /\ e.p = c.lazy[N].pos
         /\ Elements(e.out) = PlainUpTo(c, e.p) \cup RunsUpTo(c, N)
         /\ e.p \in Nat /\ e.p <= Len(c.plain)
    BY <1>2, <2>1, <2>10 DEF Moved, N
  <2>12. rest \in Seq(Written) /\ InOrder(rest) /\ Elements(rest) = {c.plain[i] : i \in (e.p + 1)..Len(c.plain)}
    <3> DEFINE P == c.plain
               lo == e.p + 1
    <3>1. P \in Seq(Written) /\ InOrder(P) /\ lo \in Nat /\ Len(P) \in Nat /\ 1 <= lo /\ Len(P) <= Len(P)
      BY <1>2, <2>11
    <3> HIDE DEF P, lo
    <3>2. /\ SubSeq(P, lo, Len(P)) \in Seq(Written) /\ InOrder(SubSeq(P, lo, Len(P)))
          /\ Elements(SubSeq(P, lo, Len(P))) = {P[i] : i \in lo..Len(P)}
      BY ONLY <3>1, SubOrder
    <3> QED BY <3>2 DEF P, lo
  <2> HIDE DEF rest
  <2>13. \A x \in Elements(e.out), y \in Elements(rest) : x.seq < y.seq
    <3> TAKE x \in Elements(e.out), y \in Elements(rest)
    <3>1. PICK j \in (e.p + 1)..Len(c.plain) : y = c.plain[j]
      BY <2>12
    <3>2. j \in 1..Len(c.plain) /\ e.p < j
      BY <1>2, <2>11, <3>1
    <3>3. CASE x \in PlainUpTo(c, e.p)
      <4>1. PICK i \in 1..e.p : x = c.plain[i]
        BY <3>3 DEF PlainUpTo
      <4>2. i \in 1..Len(c.plain) /\ i < j /\ DOMAIN c.plain = 1..Len(c.plain)
        BY <1>2, <2>11, <3>1, <3>2, <4>1
      <4> QED BY <1>2, <3>1, <3>2, <4>1, <4>2 DEF InOrder
    <3>4. CASE x \in RunsUpTo(c, N)
      <4>1. N \in 0..Len(c.lazy)
        BY <2>1 DEF N
      <4>2. \A k \in 1..N : c.lazy[k].pos < j
        <5> TAKE k \in 1..N
        <5>1. k = N \/ (k < N /\ N \in 1..N)
          BY <2>1
        <5>2. k \in 1..Len(c.lazy) /\ N \in 1..Len(c.lazy)
          BY <2>1 DEF N
        <5>3. c.lazy[k].pos <= c.lazy[N].pos
          BY <1>1, <1>2, <5>1, <5>2 DEF CellShape
        <5> QED BY <1>2, <2>11, <3>2, <5>2, <5>3
      <4>3. x.seq < c.plain[j].seq
        BY <1>1, <3>2, <3>4, <4>1, <4>2, Apart
      <4> QED BY <3>1, <4>3
    <3> QED BY <2>11, <3>3, <3>4
  <2> DEFINE v == e.out \o rest
  <2>14. v \in Seq(Written) /\ InOrder(v) /\ Elements(v) = Elements(e.out) \cup Elements(rest)
    BY <2>11, <2>12, <2>13, JoinOrder
  <2>15. Elements(e.out) \cup Elements(rest) = EntriesOf(c)
    <3>1. \A i \in 1..Len(c.plain) : i \in 1..e.p \/ i \in (e.p + 1)..Len(c.plain)
      BY <1>2, <2>11
    <3>2. /\ \A i \in 1..e.p : i \in 1..Len(c.plain)
          /\ \A i \in (e.p + 1)..Len(c.plain) : i \in 1..Len(c.plain)
      BY <1>2, <2>11
    <3>3. EntriesOf(c) = PlainUpTo(c, Len(c.plain)) \cup RunsUpTo(c, N)
      BY <1>3 DEF N
    <3> QED BY <2>11, <2>12, <3>1, <3>2, <3>3 DEF PlainUpTo
  <2>16. v = w
    <3> HIDE DEF v
    <3> QED BY <1>4, <2>14, <2>15
  <2>17. Expand(c) = [c EXCEPT !.plain = w, !.lazy = <<>>]
    BY <2>8, <2>16 DEF rest
  <2>18. [c EXCEPT !.plain = w, !.lazy = <<>>].plain = w
    BY <1>1 DEF RetainedCells
  <2> QED BY <2>17, <2>18
<1> QED BY <1>5, <1>6

-----------------------------------------------------------------------------
(* Reading and cutting a cell *)

LEMMA EmptySequence ==
  /\ <<>> \in Seq(Written) /\ <<>> \in Seq(RunRecords) /\ Len(<<>>) = 0
  /\ InOrder(<<>>) /\ Elements(<<>>) = {} /\ 1..Len(<<>>) = {}
BY DEF InOrder, Elements

LEMMA WrittenOutIs ==
  ASSUME NEW c, NEW w, NEW seq, CellOK(c, w, seq)
  PROVE  WrittenOut(c) = w
<1>1. w \in Seq(Written) /\ InOrder(w) /\ Elements(w) = EntriesOf(c)
  BY DEF CellOK
<1> QED BY <1>1, WrittenIs

\* A cell without records stands for its plain entries.
LEMMA PlainCell ==
  ASSUME NEW d \in RetainedCells, NEW w \in Seq(Written), InOrder(w), NEW seq,
         \A i \in 1..Len(w) : w[i].seq < seq,
         d.plain = w, d.lazy = <<>>, d.expanded = TRUE, d.len = Len(w)
  PROVE  CellOK(d, w, seq)
<1>1. Len(d.lazy) = 0 /\ 1..Len(d.lazy) = {} /\ d.lazy \in Seq(RunRecords)
  BY EmptySequence
<1>2. EntriesOf(d) = Elements(w)
  <2>1. EntriesOf(d) = Elements(d.plain)
                         \cup UNION {Elements(Members(d.lazy[n])) : n \in 1..Len(d.lazy)}
    BY ONLY <1>1, EntriesOfDef
  <2>2. {Elements(Members(d.lazy[n])) : n \in 1..Len(d.lazy)} = {}
    BY <1>1
  <2>3. UNION {} = {}
    OBVIOUS
  <2> DEFINE E == {Elements(Members(d.lazy[n])) : n \in 1..Len(d.lazy)}
  <2>4. EntriesOf(d) = Elements(d.plain) \cup UNION E
    BY <2>1
  <2>5. E = {}
    BY <2>2
  <2> HIDE DEF E
  <2> QED BY <2>4, <2>5
<1>3. CellShape(d)
  BY <1>1 DEF CellShape
<1> QED BY <1>1, <1>2, <1>3 DEF CellOK

LEMMA EmptyCellOK == \A seq : CellOK(EmptyCell, <<>>, seq)
<1>1. /\ EmptyCell \in RetainedCells /\ EmptyCell.plain = <<>> /\ EmptyCell.lazy = <<>>
      /\ EmptyCell.expanded = TRUE /\ EmptyCell.len = 0
  BY EmptySequence DEF EmptyCell, RetainedCells
<1> HIDE DEF EmptyCell
<1> TAKE seq
<1> QED BY <1>1, EmptySequence, PlainCell

\* What is left of a cell that was read.
ReadCell(c, q) == [Expand(c) EXCEPT !.expanded = TRUE, !.pending = q]

LEMMA ExpandedCell ==
  ASSUME NEW c, NEW w, NEW seq, CellOK(c, w, seq), NEW q \in Nat
  PROVE  LET d == ReadCell(c, q) IN
         /\ CellOK(d, w, seq) /\ d \in RetainedCells
         /\ d.plain = w /\ d.lazy = <<>> /\ d.expanded = TRUE /\ d.len = Len(w)
<1> DEFINE d == ReadCell(c, q)
<1>0. d = [Expand(c) EXCEPT !.expanded = TRUE, !.pending = q]
  BY DEF ReadCell
<1> HIDE DEF d
<1> SUFFICES /\ CellOK(d, w, seq) /\ d \in RetainedCells
             /\ d.plain = w /\ d.lazy = <<>> /\ d.expanded = TRUE /\ d.len = Len(w)
  BY DEF d
<1>1. /\ c \in RetainedCells /\ w \in Seq(Written) /\ InOrder(w) /\ c.len = Len(w)
      /\ \A i \in 1..Len(w) : w[i].seq < seq
  BY DEF CellOK, CellShape
<1>2. Expand(c) = [c EXCEPT !.plain = w, !.lazy = <<>>]
  BY ExpandOK
<1>3. d = [[c EXCEPT !.plain = w, !.lazy = <<>>] EXCEPT !.expanded = TRUE, !.pending = q]
  BY ONLY <1>0, <1>2
<1> DEFINE z == <<>>
<1>4. z \in Seq(RunRecords)
  BY EmptySequence
<1>5. d = [[c EXCEPT !.plain = w, !.lazy = z] EXCEPT !.expanded = TRUE, !.pending = q]
  BY <1>3
<1> HIDE DEF z
<1>6. d \in RetainedCells /\ d.plain = w /\ d.lazy = z /\ d.expanded = TRUE /\ d.len = c.len
  BY ONLY <1>1, <1>4, <1>5, q \in Nat DEF RetainedCells
<1>7. d.lazy = <<>>
  BY <1>6 DEF z
<1> QED BY ONLY <1>1, <1>6, <1>7, PlainCell

LEMMA SettledCell ==
  ASSUME NEW c, NEW w, NEW seq, CellOK(c, w, seq)
  PROVE  /\ CellOK(Settle(c), w, seq) /\ Settle(c) \in RetainedCells
         /\ Settle(c).plain = w /\ Settle(c).lazy = <<>> /\ Settle(c).expanded = TRUE
         /\ CellOK(Get(c), w, seq)
<1>1. c \in RetainedCells /\ (c.expanded <=> c.lazy = <<>>) /\ c.expanded \in BOOLEAN /\ c.pending \in Nat
  BY CellTypes DEF CellOK, CellShape
<1>2. CASE c.expanded
  <2>1. Settle(c) = c /\ Get(c) = c /\ c.lazy = <<>> /\ c.expanded = TRUE
    BY <1>1, <1>2 DEF Settle, Get
  <2>2. c.plain = w
    <3>1. Expand(c) = c
      BY <2>1 DEF Expand
    <3>2. Expand(c).plain = w
      BY ExpandOK
    <3> QED BY <3>1, <3>2
  <2> QED BY <1>1, <2>1, <2>2
<1>3. CASE ~c.expanded
  <2> DEFINE d == ReadCell(c, 0)
             g == ReadCell(c, c.pending)
  <2>1. CellOK(d, w, seq) /\ d \in RetainedCells /\ d.plain = w /\ d.lazy = <<>> /\ d.expanded = TRUE
    BY 0 \in Nat, ExpandedCell
  <2>2. CellOK(g, w, seq)
    <3> DEFINE P == c.pending
    <3>1. P \in Nat
      BY <1>1
    <3> HIDE DEF P
    <3>2. CellOK(ReadCell(c, P), w, seq)
      BY ONLY <3>1, CellOK(c, w, seq), ExpandedCell
    <3> QED BY <3>2 DEF P
  <2>3. [Expand(c) EXCEPT !.expanded = TRUE] = g
    <3>1. Expand(c) = [c EXCEPT !.plain = w, !.lazy = <<>>]
      BY ExpandOK
    <3>2. Expand(c) \in [plain : {w}, lazy : {<<>>}, expanded : BOOLEAN, len : Nat, pending : {c.pending}]
      BY <1>1, <3>1 DEF RetainedCells
    <3> QED BY <3>2 DEF ReadCell
  <2>4. Settle(c) = d /\ Get(c) = g
    BY <1>3, <2>3 DEF Settle, Get, ReadCell
  <2> QED BY <2>1, <2>2, <2>4
<1> QED BY <1>1, <1>2, <1>3

LEMMA KeptCell ==
  ASSUME NEW c, NEW w, NEW seq, CellOK(c, w, seq), NEW lo \in Nat, NEW hi \in Nat, 1 <= lo, hi <= Len(w)
  PROVE  CellOK(KeepRange(c, lo, hi), SubSeq(w, lo, hi), seq)
<1> DEFINE r == Settle(c)
           s == SubSeq(w, lo, hi)
           n == Len(s)
           d == [r EXCEPT !.plain = s, !.len = n]
<1>1. r \in RetainedCells /\ r.plain = w /\ r.lazy = <<>> /\ r.expanded = TRUE
  BY SettledCell
<1>2. w \in Seq(Written) /\ InOrder(w) /\ Len(w) \in Nat /\ \A i \in 1..Len(w) : w[i].seq < seq
  BY DEF CellOK
<1>3. /\ s \in Seq(Written) /\ n \in Nat /\ InOrder(s)
      /\ \A i \in 1..Len(s) : lo + i - 1 \in lo..hi /\ s[i] = w[lo + i - 1]
  <2>1. /\ s \in Seq(Written) /\ InOrder(s)
        /\ \A i \in 1..Len(s) : lo + i - 1 \in lo..hi /\ s[i] = w[lo + i - 1]
    BY <1>2, SubOrder
  <2> QED BY <2>1
<1>4. (IF hi < Len(r.plain) THEN hi ELSE Len(r.plain)) = hi
  BY <1>1, <1>2
<1>5. KeepRange(c, lo, hi) = d
  BY <1>1, <1>4 DEF KeepRange
<1> HIDE DEF s, n, r
<1>6. d \in RetainedCells /\ d.plain = s /\ d.lazy = <<>> /\ d.expanded = TRUE /\ d.len = n
  BY <1>1, <1>3 DEF RetainedCells
<1>7. \A i \in 1..Len(s) : s[i].seq < seq
  <2>1. \A i \in 1..Len(s) : lo + i - 1 \in 1..Len(w)
    BY <1>2, <1>3
  <2> QED BY <1>2, <1>3, <2>1
<1> HIDE DEF d
<1>8. CellOK(d, s, seq)
  BY <1>3, <1>6, <1>7, PlainCell DEF n
<1> QED BY <1>5, <1>8 DEF s

-----------------------------------------------------------------------------
(* The log over a cell shows the log over the entries *)

LazyLogs == [enabled : BOOLEAN, max : Nat \cup {NoCap}, depth : Nat, seq : Nat,
             stack : Seq(Nat), gid : Nat, retained : RetainedCells]
ShownLogs == [enabled : BOOLEAN, max : Nat \cup {NoCap}, depth : Nat, seq : Nat,
              stack : Seq(Nat), gid : Nat, retained : Seq(Written)]

\* The log l, kept with records, is the log a written out.
Shows(l, a) ==
  /\ l \in LazyLogs /\ a \in ShownLogs
  /\ a.enabled = l.enabled /\ a.max = l.max /\ a.depth = l.depth /\ a.seq = l.seq
  /\ a.stack = l.stack /\ a.gid = l.gid
  /\ CellOK(l.retained, a.retained, l.seq)

LEMMA ShowsView ==
  ASSUME NEW l, NEW a, Shows(l, a)
  PROVE  LogView(l) = a
<1> DEFINE C == l.retained
           W == a.retained
           V == WrittenOut(C)
<1>1. V = W
  <2>1. CellOK(C, W, l.seq)
    BY DEF Shows
  <2> HIDE DEF C, W
  <2> QED BY ONLY <2>1, WrittenOutIs DEF V
<1>2. LogView(l) = [l EXCEPT !.retained = V]
  BY DEF LogView
<1> HIDE DEF V
<1> QED BY <1>1, <1>2 DEF Shows, LazyLogs, ShownLogs

LEMMA ShowsTypes ==
  ASSUME NEW l, NEW a, Shows(l, a)
  PROVE  /\ l.enabled \in BOOLEAN /\ l.max \in Nat \cup {NoCap} /\ l.depth \in Nat
         /\ l.seq \in Nat /\ l.stack \in Seq(Nat) /\ l.gid \in Nat
         /\ l.retained \in RetainedCells /\ a.retained \in Seq(Written)
         /\ l.retained.len = Len(a.retained) /\ Len(a.retained) \in Nat
<1>1. l \in LazyLogs /\ a \in ShownLogs /\ CellOK(l.retained, a.retained, l.seq)
  BY DEF Shows
<1>2. l.retained.len = Len(a.retained)
  BY <1>1 DEF CellOK
<1> QED BY <1>1, <1>2 DEF LazyLogs, ShownLogs

SetEntries(l, seq, c) == [l EXCEPT !.seq = seq, !.retained = c]
SetGroups(l, d, g, s) == [l EXCEPT !.depth = d, !.gid = g, !.stack = s]
SetLimits(l, on, max) == [l EXCEPT !.enabled = on, !.max = max]

LEMMA ShowsEntries ==
  ASSUME NEW l, NEW a, Shows(l, a), NEW seq \in Nat, NEW c, NEW w, CellOK(c, w, seq)
  PROVE  Shows(SetEntries(l, seq, c), SetEntries(a, seq, w))
<1>1. c \in RetainedCells /\ w \in Seq(Written)
  BY DEF CellOK, CellShape
<1> DEFINE k == SetEntries(l, seq, c)
           b == SetEntries(a, seq, w)
<1>2. k.retained = c /\ b.retained = w /\ k.seq = seq
  BY <1>1 DEF Shows, SetEntries, LazyLogs, ShownLogs
<1>3. /\ k \in LazyLogs /\ b \in ShownLogs
      /\ b.enabled = k.enabled /\ b.max = k.max /\ b.depth = k.depth /\ b.seq = k.seq
      /\ b.stack = k.stack /\ b.gid = k.gid
  BY <1>1 DEF Shows, SetEntries, LazyLogs, ShownLogs
<1> HIDE DEF k, b
<1>4. Shows(k, b)
  BY <1>2, <1>3 DEF Shows
<1> QED BY <1>4 DEF k, b

LEMMA ShowsGroups ==
  ASSUME NEW l, NEW a, Shows(l, a), NEW d \in Nat, NEW g \in Nat, NEW s \in Seq(Nat)
  PROVE  Shows(SetGroups(l, d, g, s), SetGroups(a, d, g, s))
<1> DEFINE k == SetGroups(l, d, g, s)
           b == SetGroups(a, d, g, s)
<1>2. k.retained = l.retained /\ b.retained = a.retained /\ k.seq = l.seq
  BY DEF Shows, SetGroups, LazyLogs, ShownLogs
<1>3. /\ k \in LazyLogs /\ b \in ShownLogs
      /\ b.enabled = k.enabled /\ b.max = k.max /\ b.depth = k.depth /\ b.seq = k.seq
      /\ b.stack = k.stack /\ b.gid = k.gid
  BY DEF Shows, SetGroups, LazyLogs, ShownLogs
<1> HIDE DEF k, b
<1>4. Shows(k, b)
  BY <1>2, <1>3 DEF Shows
<1> QED BY <1>4 DEF k, b

LEMMA ShowsLimits ==
  ASSUME NEW l, NEW a, Shows(l, a), NEW on \in BOOLEAN, NEW max \in Nat \cup {NoCap}
  PROVE  Shows(SetLimits(l, on, max), SetLimits(a, on, max))
<1> DEFINE k == SetLimits(l, on, max)
           b == SetLimits(a, on, max)
<1>2. k.retained = l.retained /\ b.retained = a.retained /\ k.seq = l.seq
  BY DEF Shows, SetLimits, LazyLogs, ShownLogs
<1>3. /\ k \in LazyLogs /\ b \in ShownLogs
      /\ b.enabled = k.enabled /\ b.max = k.max /\ b.depth = k.depth /\ b.seq = k.seq
      /\ b.stack = k.stack /\ b.gid = k.gid
  BY DEF Shows, SetLimits, LazyLogs, ShownLogs
<1> HIDE DEF k, b
<1>4. Shows(k, b)
  BY <1>2, <1>3 DEF Shows
<1> QED BY <1>4 DEF k, b

\* Spending numbers leaves a cell alone.
LEMMA LaterCell ==
  ASSUME NEW c, NEW w, NEW q \in Nat, CellOK(c, w, q), NEW r \in Nat, q <= r
  PROVE  CellOK(c, w, r)
<1>1. c \in RetainedCells /\ w \in Seq(Written)
  BY DEF CellOK, CellShape
<1>2. \A n \in 1..Len(c.lazy) : SeqAfter(c.lazy[n]) \in Nat
  BY <1>1, CellTypes
<1>3. \A i \in 1..Len(c.plain) : c.plain[i].seq \in Nat
  BY <1>1, CellTypes
<1>4. \A i \in 1..Len(w) : w[i].seq \in Nat
  BY <1>1, EntrySeq
<1> HIDE DEF SeqAfter
<1> QED BY <1>2, <1>3, <1>4 DEF CellOK

LEMMA KeepsEntries ==
  ASSUME NEW l, NEW a, Shows(l, a), NEW c, NEW w, CellOK(c, w, l.seq)
  PROVE  Shows([l EXCEPT !.retained = c], [a EXCEPT !.retained = w])
<1> DEFINE q == l.seq
           k == [l EXCEPT !.retained = c]
           b == [a EXCEPT !.retained = w]
<1>1. q \in Nat /\ CellOK(c, w, q)
  BY ShowsTypes
<1>2. k = SetEntries(l, q, c) /\ b = SetEntries(a, q, w)
  BY DEF Shows, SetEntries, LazyLogs, ShownLogs
<1> HIDE DEF q, k, b
<1>3. Shows(SetEntries(l, q, c), SetEntries(a, q, w))
  BY ONLY <1>1, Shows(l, a), ShowsEntries
<1>4. Shows(k, b)
  BY <1>2, <1>3
<1> QED BY <1>4 DEF k, b

LEMMA EnforceCapShows ==
  ASSUME NEW l, NEW a, Shows(l, a)
  PROVE  Shows(LEnforceCap(l), EnforceCap(a))
<1> DEFINE C == l.retained
           W == a.retained
           M == l.max
           n == Len(W)
           q == l.seq
<1>1. /\ M \in Nat \cup {NoCap} /\ n \in Nat /\ C.len = n /\ a.max = M /\ q \in Nat
      /\ W \in Seq(Written) /\ CellOK(C, W, q)
  BY ShowsTypes DEF Shows
<1>2. NoCap \notin Nat /\ NoCap # 0 /\ ~(NoCap > 0)
  BY DEF NoCap
<1>3. CASE M = NoCap
  <2>1. LEnforceCap(l) = l
    BY <1>2, <1>3 DEF LEnforceCap
  <2>2. EnforceCap(a) = a
    BY <1>1, <1>3 DEF EnforceCap
  <2> QED BY <2>1, <2>2
<1>4. CASE M = 0
  <2>1. LEnforceCap(l) = [l EXCEPT !.retained = EmptyCell]
    BY <1>2, <1>4 DEF LEnforceCap
  <2>2. EnforceCap(a) = [a EXCEPT !.retained = <<>>]
    <3>1. CASE n = 0
      <4>1. W = <<>>
        BY <1>1, <3>1
      <4>2. EnforceCap(a) = a
        BY <1>1, <1>4, <3>1 DEF EnforceCap
      <4>3. a \in ShownLogs
        BY DEF Shows
      <4> QED BY <4>1, <4>2, <4>3 DEF ShownLogs
    <3>2. CASE n # 0
      <4>1. SubSeq(W, n - M + 1, n) = <<>>
        <5>1. n - M + 1 = n + 1
          BY <1>1, <1>4
        <5>2. SubSeq(W, n + 1, n) = <<>>
          BY <1>1
        <5> QED BY <5>1, <5>2
      <4>2. EnforceCap(a) = [a EXCEPT !.retained = SubSeq(W, n - M + 1, n)]
        BY <1>1, <1>2, <1>4, <3>2 DEF EnforceCap
      <4> QED BY <4>1, <4>2
    <3> QED BY <3>1, <3>2
  <2>3. CellOK(EmptyCell, <<>>, q)
    BY EmptyCellOK
  <2>4. Shows([l EXCEPT !.retained = EmptyCell], [a EXCEPT !.retained = <<>>])
    BY <2>3, KeepsEntries
  <2> QED BY <2>1, <2>2, <2>4
<1>5. CASE M \in Nat /\ M > 0 /\ n <= M
  <2>1. M # NoCap /\ M # 0
    BY <1>2, <1>5
  <2>2. LEnforceCap(l) = l
    BY <1>1, <1>5, <2>1 DEF LEnforceCap
  <2>3. EnforceCap(a) = a
    BY <1>1, <1>5 DEF EnforceCap
  <2> QED BY <2>2, <2>3
<1>6. CASE M \in Nat /\ M > 0 /\ ~(n <= M)
  <2> DEFINE lo == n - M + 1
  <2>1. M # NoCap /\ M # 0
    BY <1>2, <1>6
  <2>2. LEnforceCap(l) = [l EXCEPT !.retained = KeepRange(C, lo, n)]
    BY <1>1, <1>6, <2>1 DEF LEnforceCap
  <2>3. EnforceCap(a) = [a EXCEPT !.retained = SubSeq(W, lo, n)]
    BY <1>1, <1>6, <2>1 DEF EnforceCap
  <2>4. lo \in Nat /\ 1 <= lo /\ n <= Len(W)
    BY <1>1, <1>6
  <2> DEFINE c == KeepRange(C, lo, n)
             w == SubSeq(W, lo, n)
  <2>5. CellOK(c, w, l.seq)
    <3> HIDE DEF C, W, q, lo
    <3>1. CellOK(KeepRange(C, lo, n), SubSeq(W, lo, n), q)
      BY ONLY <1>1, <2>4, KeptCell
    <3> QED BY <3>1 DEF q
  <2> HIDE DEF c, w
  <2>6. Shows([l EXCEPT !.retained = c], [a EXCEPT !.retained = w])
    BY <2>5, KeepsEntries
  <2> QED BY <2>2, <2>3, <2>6 DEF c, w
<1> QED BY <1>1, <1>3, <1>4, <1>5, <1>6

LEMMA GroupIs ==
  ASSUME NEW l, NEW a, Shows(l, a)
  PROVE  CurrentGroup(l) = CurrentGroup(a) /\ CurrentGroup(l) \in Nat
<1> DEFINE S == l.stack
<1>1. S \in Seq(Nat) /\ a.stack = S
  BY ShowsTypes DEF Shows
<1>2. S # <<>> => S[Len(S)] \in Nat
  BY <1>1
<1> QED BY <1>1, <1>2 DEF CurrentGroup, NoGroup

LEMMA StampOne ==
  ASSUME NEW a, NEW e, a.seq \in Nat
  PROVE  Stamp(a, <<e>>) = <<[ev |-> e, seq |-> a.seq, group |-> CurrentGroup(a)]>>
BY DEF Stamp

LEMMA ReplayRecordShows ==
  ASSUME NEW l, NEW a, Shows(l, a), NEW e \in Loggable, NEW retain \in BOOLEAN
  PROVE  Shows(LReplayRecord(l, e, retain), ReplayEvents(a, <<e>>, retain))
<1> DEFINE C == l.retained
           W == a.retained
           q == l.seq
           x == [ev |-> e, seq |-> q, group |-> CurrentGroup(l)]
<1>1. q \in Nat /\ CellOK(C, W, q) /\ a.seq = q /\ a.enabled = l.enabled /\ l.enabled \in BOOLEAN
      /\ W \in Seq(Written)
  BY ShowsTypes DEF Shows
<1>2. x \in Written /\ x.seq = q
  BY <1>1, GroupIs DEF Written
<1>3. Stamp(a, <<e>>) = <<x>>
  BY <1>1, StampOne, GroupIs
<1>4. CASE ~l.enabled
  BY <1>1, <1>4 DEF LReplayRecord, ReplayEvents
<1>5. CASE l.enabled /\ retain
  <2>1. LReplayRecord(l, e, retain) = SetEntries(l, q + 1, PushPlain(C, x))
    BY <1>1, <1>5 DEF LReplayRecord, SetEntries
  <2>2. ReplayEvents(a, <<e>>, retain) = SetEntries(a, q + 1, W \o <<x>>)
    BY <1>1, <1>3, <1>5 DEF ReplayEvents, SetEntries
  <2>3. W \o <<x>> = Append(W, x)
    <3> HIDE DEF x, W
    <3> QED BY <1>1, <1>2
  <2> HIDE DEF C, W, x, q
  <2>4. CellOK(PushPlain(C, x), Append(W, x), q + 1)
    BY ONLY <1>1, <1>2, PushPlainOK
  <2> DEFINE c == PushPlain(C, x)
             w == Append(W, x)
             r == q + 1
  <2>5. r \in Nat /\ CellOK(c, w, r)
    BY <1>1, <2>4
  <2> HIDE DEF c, w, r
  <2>6. Shows(SetEntries(l, r, c), SetEntries(a, r, w))
    BY ONLY <2>5, Shows(l, a), ShowsEntries
  <2> QED BY <2>1, <2>2, <2>3, <2>6 DEF c, w, r
<1>6. CASE l.enabled /\ ~retain
  <2> DEFINE r == q + 1
  <2>1. LReplayRecord(l, e, retain) = SetEntries(l, r, C)
    BY <1>1, <1>6 DEF LReplayRecord, SetEntries
  <2>2. ReplayEvents(a, <<e>>, retain) = SetEntries(a, r, W)
    BY <1>1, <1>6 DEF ReplayEvents, SetEntries
  <2> HIDE DEF C, W
  <2>3. r \in Nat /\ q <= r
    BY <1>1
  <2> HIDE DEF r, q
  <2>4. CellOK(C, W, r)
    BY ONLY <1>1, <2>3, LaterCell
  <2>5. Shows(SetEntries(l, r, C), SetEntries(a, r, W))
    BY ONLY <2>3, <2>4, Shows(l, a), ShowsEntries
  <2> QED BY <2>1, <2>2, <2>5
<1> QED BY <1>1, <1>4, <1>5, <1>6

\* A run is logged as its members one by one would be.
MemberEvents(ms) == [i \in DOMAIN ms |-> [tag |-> "Event", ev |-> ms[i]]]

LEMMA ReplayRunShows ==
  ASSUME NEW l, NEW a, Shows(l, a), NEW ms \in Seq(Events), NEW retain \in BOOLEAN
  PROVE  Shows(LReplayRun(l, ms, retain), ReplayEvents(a, MemberEvents(ms), retain))
<1> DEFINE C == l.retained
           W == a.retained
           q == l.seq
           P == Len(C.plain)
           x == [pos |-> P, seq0 |-> q, group |-> CurrentGroup(l), members |-> ms]
           n == Len(ms)
<1>1. q \in Nat /\ CellOK(C, W, q) /\ a.seq = q /\ a.enabled = l.enabled /\ l.enabled \in BOOLEAN
      /\ W \in Seq(Written) /\ C \in RetainedCells /\ n \in Nat /\ DOMAIN ms = 1..n
  BY ShowsTypes DEF Shows
<1>0. P \in Nat
  <2> HIDE DEF C
  <2> QED BY <1>1, CellTypes
<1>2. x \in RunRecords /\ x.seq0 = q /\ x.pos = P /\ x.members = ms
  BY <1>0, <1>1, GroupIs DEF RunRecords
<1>3. Len(MemberEvents(ms)) = n /\ Stamp(a, MemberEvents(ms)) = Members(x)
  <2>1. MemberEvents(ms) = [i \in 1..n |-> [tag |-> "Event", ev |-> ms[i]]]
    BY <1>1 DEF MemberEvents
  <2>2. Len(MemberEvents(ms)) = n
    BY <1>1, <2>1
  <2>3. \A i \in 1..n : MemberEvents(ms)[i] = [tag |-> "Event", ev |-> ms[i]]
    BY <2>1
  <2>4. Stamp(a, MemberEvents(ms)) = [i \in 1..n |-> [ev |-> [tag |-> "Event", ev |-> ms[i]],
                                     seq |-> q + i - 1, group |-> CurrentGroup(l)]]
    BY <1>1, <2>2, <2>3, GroupIs DEF Stamp
  <2>5. Members(x) = [i \in 1..n |-> [ev |-> [tag |-> "Event", ev |-> ms[i]],
                                     seq |-> q + i - 1, group |-> CurrentGroup(l)]]
    BY <1>1 DEF Members
  <2> QED BY <2>2, <2>4, <2>5
<1>4. CASE ~l.enabled
  BY <1>1, <1>4 DEF LReplayRun, ReplayEvents
<1> DEFINE r == q + n
<1>7. r \in Nat /\ q <= r
  BY <1>1
<1>5. CASE l.enabled /\ retain
  <2>1. LReplayRun(l, ms, retain) = SetEntries(l, r, PushRun(C, x))
    BY <1>1, <1>5 DEF LReplayRun, SetEntries
  <2>2. ReplayEvents(a, MemberEvents(ms), retain) = SetEntries(a, r, W \o Members(x))
    BY <1>1, <1>3, <1>5 DEF ReplayEvents, SetEntries
  <2>0. r = q + Len(x.members)
    BY <1>2
  <2>3. x.pos = Len(C.plain)
    BY <1>2
  <2> HIDE DEF C, W, x, q, r
  <2>4. CellOK(PushRun(C, x), W \o Members(x), q + Len(x.members))
    BY ONLY <1>1, <1>2, <2>3, PushRunOK
  <2> DEFINE c == PushRun(C, x)
             w == W \o Members(x)
  <2>5. CellOK(c, w, r)
    BY <2>0, <2>4
  <2> HIDE DEF c, w
  <2>6. Shows(SetEntries(l, r, c), SetEntries(a, r, w))
    BY ONLY <1>7, <2>5, Shows(l, a), ShowsEntries
  <2> QED BY <2>1, <2>2, <2>6 DEF c, w
<1>6. CASE l.enabled /\ ~retain
  <2>1. LReplayRun(l, ms, retain) = SetEntries(l, r, C)
    BY <1>1, <1>6 DEF LReplayRun, SetEntries
  <2>2. ReplayEvents(a, MemberEvents(ms), retain) = SetEntries(a, r, W)
    BY <1>1, <1>3, <1>6 DEF ReplayEvents, SetEntries
  <2> HIDE DEF C, W, r, q
  <2>4. CellOK(C, W, r)
    BY ONLY <1>1, <1>7, LaterCell
  <2>5. Shows(SetEntries(l, r, C), SetEntries(a, r, W))
    BY ONLY <1>7, <2>4, Shows(l, a), ShowsEntries
  <2> QED BY <2>1, <2>2, <2>5
<1> QED BY <1>1, <1>4, <1>5, <1>6

LEMMA RecordShows ==
  ASSUME NEW l, NEW a, Shows(l, a), NEW e \in Loggable
  PROVE  Shows(LRecord(l, e), RecordEvent(a, e))
<1>1. l.enabled \in BOOLEAN /\ a.enabled = l.enabled
  BY ShowsTypes DEF Shows
<1>2. Shows(LReplayRecord(l, e, TRUE), ReplayEvents(a, <<e>>, TRUE))
  BY TRUE \in BOOLEAN, ReplayRecordShows
<1>3. Shows(LEnforceCap(LReplayRecord(l, e, TRUE)), EnforceCap(ReplayEvents(a, <<e>>, TRUE)))
  BY ONLY <1>2, EnforceCapShows
<1>4. CASE l.enabled
  BY <1>1, <1>3, <1>4 DEF LRecord, RecordEvent
<1>5. CASE ~l.enabled
  BY <1>1, <1>5 DEF LRecord, RecordEvent
<1> QED BY <1>1, <1>4, <1>5

LEMMA OpenShows ==
  ASSUME NEW l, NEW a, Shows(l, a)
  PROVE  Shows(OpenCompound(l), OpenCompound(a))
<1> DEFINE S == l.stack
           d == l.depth + 1
           g == IF l.depth = 0 THEN l.gid + 1 ELSE l.gid
           s == CASE l.depth = 0 -> Append(S, l.gid)
                  [] l.depth # 0 /\ S # <<>> -> Append(S, CurrentGroup(l))
                  [] OTHER -> S
<1>1. /\ l.depth \in Nat /\ l.gid \in Nat /\ S \in Seq(Nat) /\ a.depth = l.depth
      /\ a.gid = l.gid /\ a.stack = S /\ CurrentGroup(l) \in Nat
      /\ CurrentGroup(a) = CurrentGroup(l)
  BY ShowsTypes, GroupIs DEF Shows
<1>2. OpenCompound(l) = SetGroups(l, d, g, s)
  BY <1>1 DEF OpenCompound, SetGroups
<1>3. OpenCompound(a) = SetGroups(a, d, g, s)
  BY <1>1 DEF OpenCompound, SetGroups
<1>4. d \in Nat /\ g \in Nat
  BY <1>1
<1>5. s \in Seq(Nat)
  <2>1. Append(S, l.gid) \in Seq(Nat) /\ Append(S, CurrentGroup(l)) \in Seq(Nat)
    BY <1>1
  <2> QED BY <1>1, <2>1
<1> HIDE DEF d, g, s
<1>6. Shows(SetGroups(l, d, g, s), SetGroups(a, d, g, s))
  BY ONLY <1>4, <1>5, Shows(l, a), ShowsGroups
<1> QED BY <1>2, <1>3, <1>6

LEMMA CloseShows ==
  ASSUME NEW l, NEW a, Shows(l, a), l.depth # 0
  PROVE  Shows(CloseCompound(l), CloseCompound(a))
<1> DEFINE S == l.stack
           d == l.depth - 1
           g == l.gid
           s == IF S = <<>> THEN S ELSE SubSeq(S, 1, Len(S) - 1)
<1>1. /\ l.depth \in Nat /\ g \in Nat /\ S \in Seq(Nat) /\ a.depth = l.depth
      /\ a.gid = l.gid /\ a.stack = S /\ l \in LazyLogs /\ a \in ShownLogs
  BY ShowsTypes, GroupIs DEF Shows
<1>2. CloseCompound(l) = SetGroups(l, d, g, s)
  BY <1>1 DEF CloseCompound, SetGroups, LazyLogs
<1>3. CloseCompound(a) = SetGroups(a, d, g, s)
  BY <1>1 DEF CloseCompound, SetGroups, ShownLogs
<1>4. d \in Nat
  BY <1>1
<1>5. s \in Seq(Nat)
  <2> HIDE DEF S
  <2>1. CASE S = <<>>
    BY <1>1, <2>1
  <2>2. CASE S # <<>>
    <3>1. SubSeq(S, 1, Len(S) - 1) \in Seq(Nat)
      BY <1>1, <2>2
    <3> QED BY <2>2, <3>1
  <2> QED BY <2>1, <2>2
<1> HIDE DEF d, g, s
<1>6. Shows(SetGroups(l, d, g, s), SetGroups(a, d, g, s))
  BY ONLY <1>1, <1>4, <1>5, Shows(l, a), ShowsGroups
<1> QED BY <1>2, <1>3, <1>6

LEMMA MarkersLoggable ==
  /\ CompoundStart \in Loggable /\ CompoundEnd \in Loggable
  /\ \A e \in Events : [tag |-> "Event", ev |-> e] \in Loggable
BY DEF CompoundStart, CompoundEnd, Loggable

LEMMA DepthKept ==
  ASSUME NEW l, NEW a, Shows(l, a), NEW e, NEW retain \in BOOLEAN
  PROVE  /\ LReplayRecord(l, e, retain).depth = l.depth
         /\ LRecord(l, e).depth = l.depth
<1> DEFINE k == LReplayRecord(l, e, retain)
<1>1. \A b \in BOOLEAN : LReplayRecord(l, e, b) \in [enabled : BOOLEAN, max : Nat \cup {NoCap},
         depth : {l.depth}, seq : Nat, stack : Seq(Nat), gid : Nat, retained : {LReplayRecord(l, e, b).retained}]
  <2> TAKE b \in BOOLEAN
  <2> DEFINE r == IF b THEN PushPlain(l.retained, [ev |-> e, seq |-> l.seq, group |-> CurrentGroup(l)])
                  ELSE l.retained
             q == l.seq + 1
  <2>1. l \in LazyLogs /\ q \in Nat
    BY ShowsTypes DEF Shows
  <2>2. LReplayRecord(l, e, b) = l \/ LReplayRecord(l, e, b) = [l EXCEPT !.seq = q, !.retained = r]
    BY DEF LReplayRecord
  <2> HIDE DEF r, q
  <2> QED BY <2>1, <2>2 DEF LazyLogs
<1>2. k.depth = l.depth /\ LReplayRecord(l, e, TRUE).depth = l.depth
  BY <1>1
<1>3. LRecord(l, e).depth = l.depth
  <2> DEFINE j == LReplayRecord(l, e, TRUE)
  <2>1. LRecord(l, e) = l \/ LRecord(l, e) = LEnforceCap(j)
    BY DEF LRecord
  <2>2. j \in [enabled : BOOLEAN, max : Nat \cup {NoCap},
         depth : {l.depth}, seq : Nat, stack : Seq(Nat), gid : Nat, retained : {j.retained}]
    BY <1>1
  <2> HIDE DEF j
  <2>3. \E c : LEnforceCap(j) = [j EXCEPT !.retained = c]
    <3>0. j.max \in Nat \cup {NoCap}
      BY <2>2
    <3>1. j = [j EXCEPT !.retained = j.retained]
      BY <2>2
    <3> DEFINE c == KeepRange(j.retained, j.retained.len - j.max + 1, j.retained.len)
    <3>2. \/ LEnforceCap(j) = j
          \/ LEnforceCap(j) = [j EXCEPT !.retained = EmptyCell]
          \/ LEnforceCap(j) = [j EXCEPT !.retained = c]
      <4> HIDE DEF KeepRange, EmptyCell
      <4>1. CASE j.max = NoCap
        BY <4>1 DEF LEnforceCap, NoCap
      <4>2. CASE j.max = 0
        BY <4>2 DEF LEnforceCap, NoCap
      <4>3. CASE j.max # NoCap /\ j.max # 0 /\ j.max > 0 /\ j.retained.len <= j.max
        BY <4>3 DEF LEnforceCap
      <4>4. CASE j.max # NoCap /\ j.max # 0 /\ ~(j.max > 0 /\ j.retained.len <= j.max)
        BY <4>4 DEF LEnforceCap
      <4> QED BY <4>1, <4>2, <4>3, <4>4
    <3> HIDE DEF c
    <3> QED BY <3>1, <3>2
  <2>4. PICK c : LEnforceCap(j) = [j EXCEPT !.retained = c]
    BY <2>3
  <2>5. LEnforceCap(j).depth = j.depth
    BY <2>2, <2>4
  <2> QED BY <1>2, <2>1, <2>5 DEF j
<1> QED BY <1>2, <1>3

LEMMA BeginShows ==
  ASSUME NEW l, NEW a, Shows(l, a)
  PROVE  Shows(LRecord(OpenCompound(l), CompoundStart), BeginCompound(a))
<1> DEFINE k == OpenCompound(l)
           b == OpenCompound(a)
<1>1. Shows(k, b)
  BY OpenShows
<1> HIDE DEF k, b
<1>2. Shows(LRecord(k, CompoundStart), RecordEvent(b, CompoundStart))
  BY <1>1, MarkersLoggable, RecordShows
<1> QED BY <1>2 DEF k, b, BeginCompound

LEMMA EndShows ==
  ASSUME NEW l, NEW a, Shows(l, a)
  PROVE  Shows(IF l.depth = 0 THEN l ELSE CloseCompound(LRecord(l, CompoundEnd)), EndCompound(a))
<1>1. a.depth = l.depth
  BY DEF Shows
<1>2. CASE l.depth = 0
  BY <1>1, <1>2 DEF EndCompound
<1>3. CASE l.depth # 0
  <2> DEFINE k == LRecord(l, CompoundEnd)
             b == RecordEvent(a, CompoundEnd)
  <2>1. Shows(k, b)
    BY MarkersLoggable, RecordShows
  <2>2. k.depth # 0
    BY <1>3, TRUE \in BOOLEAN, DepthKept
  <2> HIDE DEF k, b
  <2>3. Shows(CloseCompound(k), CloseCompound(b))
    BY <2>1, <2>2, CloseShows
  <2> QED BY <1>1, <1>3, <2>3 DEF k, b, EndCompound
<1> QED BY <1>2, <1>3

LEMMA ReplayEndShows ==
  ASSUME NEW l, NEW a, Shows(l, a), NEW retain \in BOOLEAN
  PROVE  Shows(IF l.depth = 0 THEN l ELSE CloseCompound(LReplayRecord(l, CompoundEnd, retain)),
               ReplayEndCompound(a, retain))
<1>1. a.depth = l.depth
  BY DEF Shows
<1>2. CASE l.depth = 0
  BY <1>1, <1>2 DEF ReplayEndCompound
<1>3. CASE l.depth # 0
  <2> DEFINE k == LReplayRecord(l, CompoundEnd, retain)
             b == ReplayEvents(a, <<CompoundEnd>>, retain)
  <2>1. Shows(k, b)
    BY MarkersLoggable, ReplayRecordShows
  <2>2. k.depth # 0
    BY <1>3, DepthKept
  <2> HIDE DEF k, b
  <2>3. Shows(CloseCompound(k), CloseCompound(b))
    BY <2>1, <2>2, CloseShows
  <2> QED BY <1>1, <1>3, <2>3 DEF k, b, ReplayEndCompound
<1> QED BY <1>2, <1>3

LEMMA ReplayBeginShows ==
  ASSUME NEW l, NEW a, Shows(l, a), NEW retain \in BOOLEAN
  PROVE  Shows(LReplayRecord(OpenCompound(l), CompoundStart, retain), ReplayBeginCompound(a, retain))
<1> DEFINE k == OpenCompound(l)
           b == OpenCompound(a)
<1>1. Shows(k, b)
  BY OpenShows
<1> HIDE DEF k, b
<1>2. Shows(LReplayRecord(k, CompoundStart, retain), ReplayEvents(b, <<CompoundStart>>, retain))
  BY <1>1, MarkersLoggable, ReplayRecordShows
<1> QED BY <1>2 DEF k, b, ReplayBeginCompound

LEMMA SameEntries ==
  ASSUME NEW l, NEW a, Shows(l, a), NEW c, CellOK(c, a.retained, l.seq)
  PROVE  Shows([l EXCEPT !.retained = c], a)
<1> DEFINE W == a.retained
<1>1. a = [a EXCEPT !.retained = W]
  BY DEF Shows, ShownLogs
<1>2. CellOK(c, W, l.seq)
  OBVIOUS
<1> HIDE DEF W
<1>3. Shows([l EXCEPT !.retained = c], [a EXCEPT !.retained = W])
  BY <1>2, KeepsEntries
<1> QED BY <1>1, <1>3

LEMMA ReadShows ==
  ASSUME NEW l, NEW a, Shows(l, a)
  PROVE  Shows([l EXCEPT !.retained = Get(@)], a)
<1> DEFINE C == l.retained
           W == a.retained
           q == l.seq
           c == Get(C)
<1>1. CellOK(C, W, q)
  BY DEF Shows
<1>2. CellOK(c, a.retained, l.seq)
  <2> HIDE DEF C, W, q
  <2>1. CellOK(Get(C), W, q)
    BY ONLY <1>1, SettledCell
  <2> QED BY <2>1 DEF W, q
<1> HIDE DEF c
<1>3. Shows([l EXCEPT !.retained = c], a)
  BY <1>2, SameEntries
<1> QED BY <1>3 DEF c

LEMMA TruncateShows ==
  ASSUME NEW l, NEW a, Shows(l, a), NEW len \in 0..l.retained.len
  PROVE  Shows([l EXCEPT !.retained = KeepRange(@, 1, len)], TruncateLog(a, len))
         /\ len \in 0..Len(a.retained)
<1> DEFINE C == l.retained
           W == a.retained
           q == l.seq
           c == KeepRange(C, 1, len)
           w == SubSeq(W, 1, len)
<1>1. CellOK(C, W, q) /\ C.len = Len(W) /\ Len(W) \in Nat /\ W \in Seq(Written)
  BY ShowsTypes DEF Shows
<1>2. len \in Nat /\ len <= Len(W) /\ 1 <= 1 /\ 1 \in Nat
  BY <1>1
<1>3. CellOK(c, w, l.seq)
  <2> HIDE DEF C, W, q
  <2>1. CellOK(KeepRange(C, 1, len), SubSeq(W, 1, len), q)
    BY ONLY <1>1, <1>2, KeptCell
  <2> QED BY <2>1 DEF q
<1>4. len \in 0..Len(a.retained)
  BY <1>2
<1>5. CASE len >= Len(W)
  <2>1. TruncateLog(a, len) = a
    BY <1>5 DEF TruncateLog
  <2>2. w = a.retained
    <3>1. len = Len(W)
      BY <1>1, <1>2, <1>5
    <3> HIDE DEF W
    <3>2. SubSeq(W, 1, Len(W)) = W
      BY <1>1
    <3> QED BY <3>1, <3>2 DEF W
  <2> HIDE DEF c
  <2>3. Shows([l EXCEPT !.retained = c], a)
    BY <1>3, <2>2, SameEntries
  <2> QED BY <1>4, <2>1, <2>3 DEF c
<1>6. CASE ~(len >= Len(W))
  <2>1. TruncateLog(a, len) = [a EXCEPT !.retained = w]
    BY <1>6 DEF TruncateLog
  <2> HIDE DEF c, w
  <2>2. Shows([l EXCEPT !.retained = c], [a EXCEPT !.retained = w])
    BY <1>3, KeepsEntries
  <2> QED BY <1>4, <2>1, <2>2 DEF c
<1> QED BY <1>5, <1>6

LEMMA ClearShows ==
  ASSUME NEW l, NEW a, Shows(l, a)
  PROVE  Shows([l EXCEPT !.retained = EmptyCell, !.depth = 0, !.stack = <<>>], ClearLog(a))
<1> DEFINE z == <<>>
           q == l.seq
           k == [l EXCEPT !.retained = EmptyCell, !.depth = 0, !.stack = z]
           b == [a EXCEPT !.retained = z, !.depth = 0, !.stack = z]
<1>1. CellOK(EmptyCell, z, q) /\ EmptyCell \in RetainedCells /\ z \in Seq(Written) /\ z \in Seq(Nat)
  <2>1. CellOK(EmptyCell, z, q)
    BY EmptyCellOK
  <2>2. z \in Seq(Nat)
    OBVIOUS
  <2> QED BY <2>1, <2>2, EmptySequence DEF CellOK, CellShape
<1>2. ClearLog(a) = b
  BY DEF ClearLog
<1> HIDE DEF EmptyCell, z
<1>3. k.retained = EmptyCell /\ b.retained = z /\ k.seq = q
  BY DEF Shows, LazyLogs, ShownLogs
<1>4. /\ k \in LazyLogs /\ b \in ShownLogs
      /\ b.enabled = k.enabled /\ b.max = k.max /\ b.depth = k.depth /\ b.seq = k.seq
      /\ b.stack = k.stack /\ b.gid = k.gid
  BY <1>1 DEF Shows, LazyLogs, ShownLogs
<1> HIDE DEF k, b, q
<1>5. Shows(k, b)
  BY <1>1, <1>3, <1>4 DEF Shows
<1> QED BY <1>2, <1>5 DEF k, z

LEMMA EmptyLogShows == Shows([EmptyLog EXCEPT !.retained = EmptyCell], EmptyLog)
<1> DEFINE z == <<>>
           k == [EmptyLog EXCEPT !.retained = EmptyCell]
<1>1. CellOK(EmptyCell, z, 0) /\ EmptyCell \in RetainedCells /\ z \in Seq(Written) /\ z \in Seq(Nat)
  <2>1. CellOK(EmptyCell, z, 0)
    BY EmptyCellOK
  <2>2. z \in Seq(Nat)
    OBVIOUS
  <2> QED BY <2>1, <2>2, EmptySequence DEF CellOK, CellShape
<1>2. EmptyLog = [enabled |-> TRUE, max |-> NoCap, depth |-> 0, seq |-> 0,
                  stack |-> z, gid |-> 1, retained |-> z]
  BY DEF EmptyLog
<1> HIDE DEF EmptyCell, z
<1>3. k.retained = EmptyCell /\ EmptyLog.retained = z /\ k.seq = 0
  BY <1>2
<1>4. /\ k \in LazyLogs /\ EmptyLog \in ShownLogs
      /\ EmptyLog.enabled = k.enabled /\ EmptyLog.max = k.max /\ EmptyLog.depth = k.depth
      /\ EmptyLog.seq = k.seq /\ EmptyLog.stack = k.stack /\ EmptyLog.gid = k.gid
  BY <1>1, <1>2 DEF LazyLogs, ShownLogs
<1> HIDE DEF k
<1>5. Shows(k, EmptyLog)
  BY <1>1, <1>3, <1>4 DEF Shows
<1> QED BY <1>5 DEF k

LEMMA SetEnabledShows ==
  ASSUME NEW l, NEW a, Shows(l, a), NEW on \in BOOLEAN
  PROVE  Shows([l EXCEPT !.enabled = on], [a EXCEPT !.enabled = on])
<1> DEFINE M == l.max
           k == [l EXCEPT !.enabled = on]
           b == [a EXCEPT !.enabled = on]
<1>1. M \in Nat \cup {NoCap} /\ k = SetLimits(l, on, M) /\ b = SetLimits(a, on, M)
  BY DEF Shows, SetLimits, LazyLogs, ShownLogs
<1> HIDE DEF M, k, b
<1>2. Shows(SetLimits(l, on, M), SetLimits(a, on, M))
  BY <1>1, ShowsLimits
<1> QED BY <1>1, <1>2 DEF k, b

LEMMA SetMaxShows ==
  ASSUME NEW l, NEW a, Shows(l, a), NEW max \in Nat \cup {NoCap}
  PROVE  Shows(LEnforceCap([l EXCEPT !.max = max]), SetMaxEvents(a, max))
<1> DEFINE B == l.enabled
           k == [l EXCEPT !.max = max]
           b == [a EXCEPT !.max = max]
<1>1. B \in BOOLEAN /\ k = SetLimits(l, B, max) /\ b = SetLimits(a, B, max)
  BY DEF Shows, SetLimits, LazyLogs, ShownLogs
<1> HIDE DEF B, k, b
<1>2. Shows(SetLimits(l, B, max), SetLimits(a, B, max))
  BY <1>1, ShowsLimits
<1>3. Shows(LEnforceCap(k), EnforceCap(b))
  BY <1>1, <1>2, EnforceCapShows
<1> QED BY <1>3 DEF k, b, SetMaxEvents

-----------------------------------------------------------------------------
(* The capture, and what is left of it to replay *)

Captures == [events : Seq(Loggable), lazy : Seq([pos : Nat, members : Seq(Events)]),
             depth : Nat, p : Nat, k : Nat]

\* The runs of a capture are in order, between the events their positions
\* say, and the replay is not past the position of a run it has not replayed.
CaptureOK(c) ==
  /\ c \in Captures
  /\ c.p <= Len(c.events) /\ c.k <= Len(c.lazy)
  /\ \A r \in 1..Len(c.lazy) : c.lazy[r].pos <= Len(c.events)
  /\ \A r, s \in 1..Len(c.lazy) : r < s => c.lazy[r].pos <= c.lazy[s].pos
  /\ \A r \in RunsLeft(c) : c.p <= c.lazy[r].pos

Total(c) == Len(c.events) - c.p + Len(c.lazy) - c.k

LEMMA PlaceRange ==
  ASSUME NEW r \in Nat, NEW x \in Nat, NEW P \in Nat, NEW K \in Nat, NEW E \in Nat, NEW R \in Nat,
         K < r, r <= R, P <= x, x <= E
  PROVE  r - K + x - P \in 1..(E - P + R - K)
OBVIOUS

LEMMA PlaceOrder ==
  ASSUME NEW r \in Nat, NEW s \in Nat, NEW x \in Nat, NEW y \in Nat, NEW P \in Nat, NEW K \in Nat,
         r < s, x <= y
  PROVE  r - K + x - P < s - K + y - P
OBVIOUS

LEMMA CaptureTypes ==
  ASSUME NEW c, CaptureOK(c)
  PROVE  /\ c.p \in Nat /\ c.k \in Nat /\ c.depth \in Nat
         /\ c.events \in Seq(Loggable) /\ c.lazy \in Seq([pos : Nat, members : Seq(Events)])
         /\ Len(c.events) \in Nat /\ Len(c.lazy) \in Nat /\ Total(c) \in Nat
         /\ c.p <= Len(c.events) /\ c.k <= Len(c.lazy)
         /\ \A r \in 1..Len(c.lazy) : c.lazy[r].pos \in Nat /\ c.lazy[r].members \in Seq(Events)
         /\ \A r \in RunsLeft(c) :
              /\ r \in 1..Len(c.lazy) /\ r \in Nat /\ c.k < r
              /\ RunPlace(c, r) = r - c.k + c.lazy[r].pos - c.p
              /\ RunPlace(c, r) \in 1..Total(c)
<1>1. /\ c.p \in Nat /\ c.k \in Nat /\ c.depth \in Nat
      /\ c.events \in Seq(Loggable) /\ c.lazy \in Seq([pos : Nat, members : Seq(Events)])
  BY DEF CaptureOK, Captures
<1>2. Len(c.events) \in Nat /\ Len(c.lazy) \in Nat /\ c.p <= Len(c.events) /\ c.k <= Len(c.lazy)
  BY <1>1 DEF CaptureOK
<1>3. Total(c) \in Nat
  BY <1>1, <1>2 DEF Total
<1>4. \A r \in 1..Len(c.lazy) : c.lazy[r].pos \in Nat /\ c.lazy[r].members \in Seq(Events)
  <2> TAKE r \in 1..Len(c.lazy)
  <2> DEFINE S == [pos : Nat, members : Seq(Events)]
             L == c.lazy
  <2>1. L \in Seq(S) /\ r \in 1..Len(L)
    BY <1>1
  <2>2. L[r] \in S
    <3> HIDE DEF L, S
    <3> QED BY <2>1
  <2> QED BY <2>2
<1>5. ASSUME NEW r \in RunsLeft(c)
      PROVE  /\ r \in 1..Len(c.lazy) /\ r \in Nat /\ c.k < r
             /\ RunPlace(c, r) = r - c.k + c.lazy[r].pos - c.p
             /\ RunPlace(c, r) \in 1..Total(c)
  <2>1. r \in 1..Len(c.lazy) /\ r \in Nat /\ c.k < r
    BY <1>1, <1>2 DEF RunsLeft
  <2>2. c.lazy[r].pos \in Nat /\ c.p <= c.lazy[r].pos /\ c.lazy[r].pos <= Len(c.events)
    BY <1>4, <2>1 DEF CaptureOK
  <2>3. RunPlace(c, r) = r - c.k + c.lazy[r].pos - c.p
    BY <1>1, <2>1, <2>2, SMTT(30) DEF RunPlace
  <2>4. r <= Len(c.lazy)
    BY <2>1
  <2> DEFINE x == c.lazy[r].pos
             P == c.p
             K == c.k
             E == Len(c.events)
             R == Len(c.lazy)
  <2>5. x \in Nat /\ P \in Nat /\ K \in Nat /\ E \in Nat /\ R \in Nat /\ P <= x /\ x <= E /\ r <= R
        /\ K < r /\ r \in Nat
    BY <1>1, <1>2, <2>1, <2>2, <2>4
  <2> HIDE DEF x, P, K, E, R
  <2>6. r - K + x - P \in 1..(E - P + R - K)
    BY ONLY <2>5, PlaceRange
  <2>7. RunPlace(c, r) \in 1..Total(c)
    BY <2>3, <2>6 DEF Total, x, P, K, E, R
  <2> QED BY <2>1, <2>3, <2>7
<1> QED BY <1>1, <1>2, <1>3, <1>4, <1>5

LEMMA PlacesGrow ==
  ASSUME NEW c, CaptureOK(c), NEW r \in RunsLeft(c), NEW s \in RunsLeft(c), r < s
  PROVE  RunPlace(c, r) < RunPlace(c, s)
<1>1. /\ c.p \in Nat /\ c.k \in Nat /\ r \in 1..Len(c.lazy) /\ s \in 1..Len(c.lazy)
      /\ c.lazy[r].pos \in Nat /\ c.lazy[s].pos \in Nat /\ r \in Nat /\ s \in Nat
      /\ RunPlace(c, r) = r - c.k + c.lazy[r].pos - c.p
      /\ RunPlace(c, s) = s - c.k + c.lazy[s].pos - c.p
  BY CaptureTypes
<1>2. c.lazy[r].pos <= c.lazy[s].pos
  BY <1>1 DEF CaptureOK
<1> DEFINE x == c.lazy[r].pos
           y == c.lazy[s].pos
           P == c.p
           K == c.k
<1>3. x \in Nat /\ y \in Nat /\ P \in Nat /\ K \in Nat /\ x <= y /\ r \in Nat /\ s \in Nat
      /\ RunPlace(c, r) = r - K + x - P /\ RunPlace(c, s) = s - K + y - P
  BY <1>1, <1>2
<1> HIDE DEF x, y, P, K
<1>4. r - K + x - P < s - K + y - P
  BY ONLY <1>3, r < s, PlaceOrder
<1> QED BY <1>3, <1>4

LEMMA PlacesDiffer ==
  ASSUME NEW c, CaptureOK(c), NEW r \in RunsLeft(c), NEW s \in RunsLeft(c),
         RunPlace(c, r) = RunPlace(c, s)
  PROVE  r = s
<1>1. r \in Nat /\ s \in Nat /\ RunPlace(c, r) \in Nat /\ RunPlace(c, s) \in Nat
  <2>1. r \in Nat /\ s \in Nat /\ Total(c) \in Nat /\ RunPlace(c, r) \in 1..Total(c)
    BY CaptureTypes
  <2> QED BY <2>1
<1>2. r < s => RunPlace(c, r) < RunPlace(c, s)
  BY PlacesGrow
<1>3. s < r => RunPlace(c, s) < RunPlace(c, r)
  BY PlacesGrow
<1> QED BY <1>1, <1>2, <1>3

\* The item at the place of a run is the run.
LEMMA ItemOfRun ==
  ASSUME NEW c, CaptureOK(c), NEW r \in RunsLeft(c)
  PROVE  ItemAt(c, RunPlace(c, r)) = [tag |-> "Run", members |-> c.lazy[r].members]
<1> DEFINE n == RunPlace(c, r)
           s == CHOOSE t \in RunsLeft(c) : RunPlace(c, t) = n
<1>1. s \in RunsLeft(c) /\ RunPlace(c, s) = n
  OBVIOUS
<1>2. s = r
  <2> HIDE DEF s
  <2> QED BY <1>1, PlacesDiffer
<1> QED BY <1>2 DEF ItemAt

\* The runs before place n, of which there are m, are the next m ones.
RunsBefore(c, n) == {r \in RunsLeft(c) : RunPlace(c, r) < n}

LEMMA RunsBeforeFinite ==
  ASSUME NEW c, CaptureOK(c), NEW n
  PROVE  IsFiniteSet(RunsBefore(c, n)) /\ Cardinality(RunsBefore(c, n)) \in Nat
<1>1. c.k \in Nat /\ Len(c.lazy) \in Nat
  BY CaptureTypes
<1>2. c.k + 1 \in Int /\ Len(c.lazy) \in Int
  BY <1>1
<1>3. IsFiniteSet((c.k + 1)..Len(c.lazy))
  BY <1>2, FS_Interval
<1>4. RunsBefore(c, n) \subseteq (c.k + 1)..Len(c.lazy)
  BY DEF RunsBefore, RunsLeft
<1>5. IsFiniteSet(RunsBefore(c, n))
  BY <1>3, <1>4, FS_Subset
<1> QED BY <1>5, FS_CardinalityType

LEMMA EventItem ==
  ASSUME NEW c, CaptureOK(c), NEW n, \A r \in RunsLeft(c) : RunPlace(c, r) # n
  PROVE  ItemAt(c, n) = c.events[c.p + n - Cardinality(RunsBefore(c, n))]
BY DEF ItemAt, RunsBefore

LEMMA IntervalCount ==
  ASSUME NEW a \in Nat, NEW b \in Nat, a <= b
  PROVE  Cardinality((a + 1)..b) = b - a
<1>1. a + 1 \in Int /\ b \in Int
  OBVIOUS
<1>2. Cardinality((a + 1)..b) = IF a + 1 > b THEN 0 ELSE b - (a + 1) + 1
  BY <1>1, FS_Interval
<1> QED BY <1>2

LEMMA EventPlace ==
  ASSUME NEW c, CaptureOK(c), NEW n \in 1..Total(c), \A r \in RunsLeft(c) : RunPlace(c, r) # n
  PROVE  c.p + n - Cardinality(RunsBefore(c, n)) \in 1..Len(c.events)
<1> DEFINE K == c.k
           R == Len(c.lazy)
           U == RunsLeft(c) \ RunsBefore(c, n)
<1>1. /\ c.p \in Nat /\ K \in Nat /\ R \in Nat /\ Len(c.events) \in Nat /\ Total(c) \in Nat
      /\ c.p <= Len(c.events) /\ K <= R /\ n \in Nat
      /\ \A r \in RunsLeft(c) :
              /\ r \in 1..R /\ r \in Nat /\ K < r /\ c.lazy[r].pos \in Nat
              /\ RunPlace(c, r) = r - K + c.lazy[r].pos - c.p
              /\ RunPlace(c, r) \in 1..Total(c) /\ RunPlace(c, r) \in Nat
              /\ c.p <= c.lazy[r].pos /\ c.lazy[r].pos <= Len(c.events)
  <2>1. /\ c.p \in Nat /\ K \in Nat /\ R \in Nat /\ Len(c.events) \in Nat /\ Total(c) \in Nat
        /\ c.p <= Len(c.events) /\ K <= R
        /\ \A r \in 1..R : c.lazy[r].pos \in Nat
        /\ \A r \in RunsLeft(c) :
             /\ r \in 1..R /\ r \in Nat /\ K < r
             /\ RunPlace(c, r) = r - K + c.lazy[r].pos - c.p
             /\ RunPlace(c, r) \in 1..Total(c)
    BY ONLY CaptureOK(c), CaptureTypes
  <2>2. /\ \A r \in 1..R : c.lazy[r].pos <= Len(c.events)
        /\ \A r \in RunsLeft(c) : c.p <= c.lazy[r].pos
    BY DEF CaptureOK
  <2>3. n \in Nat /\ \A m \in 1..Total(c) : m \in Nat
    BY <2>1
  <2> QED BY ONLY <2>1, <2>2, <2>3
<1>2. CASE U = {}
  <2>1. RunsBefore(c, n) = (K + 1)..R
    BY <1>2 DEF RunsBefore, RunsLeft
  <2>2. Cardinality(RunsBefore(c, n)) = R - K
    BY <1>1, <2>1, IntervalCount
  <2>3. R - K < n
    <3>1. CASE R = K
      BY <1>1, <3>1
    <3>2. CASE R # K
      <4>1. R \in RunsLeft(c)
        BY <1>1, <3>2 DEF RunsLeft
      <4>2. RunPlace(c, R) < n
        BY <1>2, <4>1 DEF RunsBefore
      <4> QED BY <1>1, <4>1, <4>2, SMTT(30)
    <3> QED BY <3>1, <3>2
  <2>4. n <= Len(c.events) - c.p + R - K
    BY <1>1 DEF Total
  <2> QED BY <1>1, <2>2, <2>3, <2>4, SMTT(30)
<1>3. CASE U # {}
  <2>1. U \in SUBSET Nat
    BY <1>1
  <2>2. PICK u \in U : \A y \in U : u <= y
    <3> HIDE DEF U
    <3> QED BY <1>3, <2>1, LeastNumber
  <2>3. u \in RunsLeft(c) /\ ~(RunPlace(c, u) < n) /\ RunPlace(c, u) # n
    BY <2>2 DEF RunsBefore
  <2>4. n < RunPlace(c, u)
    BY <1>1, <2>3
  <2> DEFINE v == u - 1
  <2>5. RunsBefore(c, n) = (K + 1)..v
    <3>1. ASSUME NEW r \in RunsBefore(c, n) PROVE r \in (K + 1)..v
      <4>1. r \in RunsLeft(c) /\ RunPlace(c, r) < n
        BY DEF RunsBefore
      <4>2. r # u
        BY <2>3, <4>1
      <4>3. ~(u < r)
        <5> SUFFICES ASSUME u < r PROVE FALSE
          OBVIOUS
        <5>1. RunPlace(c, u) < RunPlace(c, r)
          BY <2>3, <4>1, PlacesGrow
        <5> QED BY <1>1, <2>3, <2>4, <4>1, <5>1
      <4> QED BY <1>1, <2>3, <4>1, <4>2, <4>3
    <3>2. ASSUME NEW r \in (K + 1)..v PROVE r \in RunsBefore(c, n)
      <4>1. r \in RunsLeft(c) /\ r < u
        BY <1>1, <2>3 DEF RunsLeft
      <4>2. r \notin U
        BY <1>1, <2>2, <2>3, <4>1
      <4> QED BY <4>1, <4>2
    <3> QED BY <3>1, <3>2
  <2>6. v \in Nat /\ K <= v
    BY <1>1, <2>3
  <2>7. Cardinality(RunsBefore(c, n)) = v - K
    <3> HIDE DEF v, K
    <3> QED BY <1>1, <2>5, <2>6, IntervalCount
  <2>8. v - K < n
    <3>1. CASE v = K
      BY <1>1, <3>1
    <3>2. CASE v # K
      <4>1. v \in RunsLeft(c) /\ v \in RunsBefore(c, n)
        BY <1>1, <2>3, <2>5, <2>6, <3>2 DEF RunsLeft
      <4>2. RunPlace(c, v) < n
        BY <4>1 DEF RunsBefore
      <4> DEFINE P == c.p
                 x == c.lazy[v].pos
      <4>3. /\ v - K + x - P < n /\ P \in Nat /\ x \in Nat /\ P <= x /\ K \in Nat /\ v \in Nat
        BY <1>1, <2>6, <4>1, <4>2
      <4> HIDE DEF P, x, v, K
      <4> QED BY <4>3, n \in 1..Total(c)
    <3> QED BY <3>1, <3>2
  <2>9. n < u - K + Len(c.events) - c.p
    BY <1>1, <2>3, <2>4, SMTT(30)
  <2> DEFINE P == c.p
             E == Len(c.events)
             X == Cardinality(RunsBefore(c, n))
  <2>10. /\ P \in Nat /\ E \in Nat /\ K \in Nat /\ u \in Nat /\ n \in Nat /\ X = u - 1 - K
         /\ u - 1 - K < n /\ n < u - K + E - P
    BY <1>1, <2>3, <2>7, <2>8, <2>9
  <2> HIDE DEF P, E, X, K
  <2>11. P + n - X \in 1..E
    BY <2>10
  <2> QED BY <2>11 DEF P, X, E
<1> QED BY <1>2, <1>3

LEMMA SeqFunction ==
  ASSUME NEW S, NEW q \in Seq(S)
  PROVE  q \in [1..Len(q) -> S] /\ Len(q) \in Nat
OBVIOUS

\* f has the elements of s, then those of z.
Joins(f, s, z) == /\ \A n \in 1..Len(s) : f[n] = s[n]
                  /\ \A m \in 1..Len(z) : f[Len(s) + m] = z[m]

LEMMA ConcatIs ==
  ASSUME NEW S, NEW s \in Seq(S), NEW z \in Seq(S), NEW N \in Nat, NEW f \in [1..N -> S],
         N = Len(s) + Len(z), Joins(f, s, z)
  PROVE  f = s \o z
<1>0. /\ \A n \in 1..Len(s) : f[n] = s[n]
      /\ \A m \in 1..Len(z) : f[Len(s) + m] = z[m]
  BY DEF Joins
<1>1. s \o z \in Seq(S) /\ Len(s \o z) = N /\ Len(s) \in Nat /\ Len(z) \in Nat
  OBVIOUS
<1>2. s \o z \in [1..N -> S]
  <2> DEFINE q == s \o z
  <2>1. q \in Seq(S) /\ Len(q) = N
    BY <1>1
  <2> HIDE DEF q
  <2>2. q \in [1..N -> S]
    BY <2>1, SeqFunction
  <2> QED BY <2>2 DEF q
<1>3. \A n \in 1..N : f[n] = (s \o z)[n]
  <2> TAKE n \in 1..N
  <2>1. CASE n \in 1..Len(s)
    BY <1>0, <1>1, <2>1
  <2>2. CASE n \notin 1..Len(s)
    <3> DEFINE m == n - Len(s)
    <3>1. m \in 1..Len(z) /\ n = Len(s) + m
      BY <1>1, <2>2
    <3>2. (s \o z)[n] = z[m]
      BY <1>1, <3>1
    <3> QED BY <1>0, <3>1, <3>2
  <2> QED BY <2>1, <2>2
<1> DEFINE q == s \o z
<1>4. q \in [1..N -> S] /\ \A n \in 1..N : f[n] = q[n]
  BY <1>2, <1>3
<1> HIDE DEF q
<1>5. f = q
  BY <1>4
<1> QED BY <1>5 DEF q

LEMMA HeadTailIs ==
  ASSUME NEW S, NEW N \in Nat, NEW s \in [1..(N + 1) -> S], NEW t \in [1..N -> S],
         \A n \in 1..N : t[n] = s[n + 1]
  PROVE  s # <<>> /\ Head(s) = s[1] /\ Tail(s) = t
<1>1. s \in Seq(S) /\ Len(s) = N + 1 /\ t \in Seq(S) /\ Len(t) = N
  OBVIOUS
<1>2. s # <<>>
  BY <1>1
<1>3. Tail(s) \in Seq(S) /\ Len(Tail(s)) = N
  BY <1>1, <1>2
<1>4. \A n \in 1..N : Tail(s)[n] = s[n + 1]
  BY <1>1, <1>2
<1>5. Tail(s) = t
  <2> DEFINE q == Tail(s)
  <2>0. q \in Seq(S) /\ Len(q) = N
    BY <1>3
  <2> HIDE DEF q
  <2>1. q \in [1..N -> S]
    BY <2>0, SeqFunction
  <2> USE DEF q
  <2> QED BY <1>4, <2>1
<1> QED BY <1>1, <1>2, <1>5

ItemsOf(c) == [n \in 1..Total(c) |-> ItemAt(c, n)]

LEMMA ViewIs == \A c : CaptureView(c) = [items |-> ItemsOf(c), depth |-> c.depth]
BY DEF CaptureView, ItemsOf, Total

\* Events recorded into a capture come behind all it holds.
LEMMA AppendEvents ==
  ASSUME NEW c, CaptureOK(c), NEW z \in Seq(Loggable), NEW d \in Captures,
         d.events = c.events \o z, d.lazy = c.lazy, d.p = c.p, d.k = c.k
  PROVE  CaptureOK(d) /\ ItemsOf(d) = ItemsOf(c) \o z
<1> DEFINE V == c.events
           D == d.events
           T == Total(c)
<1>1. V \in Seq(Loggable) /\ D = V \o z
  BY CaptureTypes
<1>2. /\ Len(D) = Len(V) + Len(z) /\ Len(V) \in Nat /\ Len(z) \in Nat
      /\ \A i \in 1..Len(V) : D[i] = V[i]
      /\ \A i \in 1..Len(z) : D[Len(V) + i] = z[i]
  <2> HIDE DEF V, D
  <2> QED BY <1>1
<1>3. RunsLeft(d) = RunsLeft(c) /\ \A r \in RunsLeft(c) : RunPlace(d, r) = RunPlace(c, r)
  BY DEF RunsLeft, RunPlace
<1>4. CaptureOK(d)
  <2>1. /\ c.p \in Nat /\ c.k \in Nat /\ c.p <= Len(V) /\ c.k <= Len(c.lazy)
        /\ \A r \in 1..Len(c.lazy) : c.lazy[r].pos \in Nat /\ c.lazy[r].pos <= Len(V)
    BY CaptureTypes DEF CaptureOK
  <2>2. c.p <= Len(D) /\ \A r \in 1..Len(c.lazy) : c.lazy[r].pos <= Len(D)
    <3> HIDE DEF V, D
    <3> QED BY <1>2, <2>1
  <2> QED BY <1>3, <2>1, <2>2 DEF CaptureOK
<1>5. T \in Nat /\ Total(d) = T + Len(z)
  <2>1. c.p \in Nat /\ c.k \in Nat /\ Len(c.lazy) \in Nat /\ T \in Nat
    BY CaptureTypes
  <2>2. Total(d) = Len(D) - c.p + Len(c.lazy) - c.k /\ T = Len(V) - c.p + Len(c.lazy) - c.k
    BY DEF Total
  <2> HIDE DEF D, V, T
  <2> QED BY <1>2, <2>1, <2>2, SMTT(30)
<1>6. RunsBefore(d, 0) = RunsBefore(c, 0) /\ \A n : RunsBefore(d, n) = RunsBefore(c, n)
  BY <1>3 DEF RunsBefore
<1>7. ASSUME NEW n \in 1..T PROVE ItemAt(d, n) = ItemAt(c, n)
  <2>1. CASE \E r \in RunsLeft(c) : RunPlace(c, r) = n
    <3>1. PICK r \in RunsLeft(c) : RunPlace(c, r) = n
      BY <2>1
    <3>2. ItemAt(c, n) = [tag |-> "Run", members |-> c.lazy[r].members]
      BY <3>1, ItemOfRun
    <3>3. ItemAt(d, n) = [tag |-> "Run", members |-> d.lazy[r].members]
      BY <1>3, <1>4, <3>1, ItemOfRun
    <3> QED BY <3>2, <3>3
  <2>2. CASE \A r \in RunsLeft(c) : RunPlace(c, r) # n
    <3> DEFINE i == c.p + n - Cardinality(RunsBefore(c, n))
    <3>1. ItemAt(c, n) = V[i]
      BY <2>2, EventItem
    <3>2. i \in 1..Len(V)
      BY <2>2, EventPlace
    <3>3. ItemAt(d, n) = d.events[d.p + n - Cardinality(RunsBefore(d, n))]
      BY <1>3, <1>4, <2>2, EventItem
    <3>4. ItemAt(d, n) = D[i]
      BY <1>6, <3>3
    <3> HIDE DEF i, D, V
    <3> QED BY <1>2, <3>1, <3>2, <3>4
  <2> QED BY <2>1, <2>2
<1>8. ASSUME NEW m \in 1..Len(z) PROVE ItemAt(d, T + m) = z[m]
  <2> DEFINE n == T + m
  <2>1. \A r \in RunsLeft(c) : RunPlace(c, r) \in Nat /\ RunPlace(c, r) < n /\ RunPlace(c, r) # n
    <3> TAKE r \in RunsLeft(c)
    <3>1. RunPlace(c, r) \in 1..T
      BY CaptureTypes
    <3> HIDE DEF T
    <3> QED BY <1>5, <3>1
  <2>2. RunsBefore(c, n) = RunsLeft(c)
    BY <2>1 DEF RunsBefore
  <2>3. c.k \in Nat /\ Len(c.lazy) \in Nat /\ c.k <= Len(c.lazy) /\ c.p \in Nat
    BY CaptureTypes
  <2>4. Cardinality(RunsBefore(c, n)) = Len(c.lazy) - c.k
    <3> DEFINE K == c.k
               R == Len(c.lazy)
    <3>1. RunsBefore(c, n) = (K + 1)..R
      BY <2>2 DEF RunsLeft
    <3>2. K \in Nat /\ R \in Nat /\ K <= R
      BY <2>3
    <3> HIDE DEF K, R
    <3>3. Cardinality((K + 1)..R) = R - K
      BY ONLY <3>2, IntervalCount
    <3> QED BY <3>1, <3>3 DEF K, R
  <2>5. ItemAt(d, n) = D[c.p + n - (Len(c.lazy) - c.k)]
    <3>1. ItemAt(d, n) = d.events[d.p + n - Cardinality(RunsBefore(d, n))]
      BY <1>3, <1>4, <2>1, EventItem
    <3> QED BY <1>6, <2>4, <3>1
  <2>6. c.p + n - (Len(c.lazy) - c.k) = Len(V) + m
    <3> DEFINE K == c.k
               R == Len(c.lazy)
               P == c.p
               E == Len(V)
    <3>1. K \in Nat /\ R \in Nat /\ P \in Nat /\ E \in Nat /\ T = E - P + R - K /\ m \in Nat
      BY <1>2, <2>3 DEF Total
    <3> HIDE DEF K, R, P, E, T
    <3>2. P + (T + m) - (R - K) = E + m
      BY <3>1
    <3> QED BY <3>2 DEF K, R, P, E
  <2> QED BY <1>2, <2>5, <2>6
<1>9. ItemsOf(d) = ItemsOf(c) \o z
  <2> DEFINE s == ItemsOf(c)
             f == ItemsOf(d)
             N == Total(d)
             S == {s[n] : n \in 1..T} \cup Loggable
  <2>1. s = [n \in 1..T |-> ItemAt(c, n)] /\ f = [n \in 1..N |-> ItemAt(d, n)]
    BY DEF ItemsOf
  <2>2. z \in Seq(S)
    <3>1. Len(z) \in Nat /\ z \in [1..Len(z) -> S]
      BY <1>2
    <3> HIDE DEF S
    <3> QED BY <3>1
  <2>3. s \in Seq(S) /\ Len(s) = T
    <3>1. s \in [1..T -> S]
      BY <2>1
    <3> HIDE DEF S, s, T
    <3> QED BY <1>5, <3>1
  <2>4. N \in Nat /\ N = Len(s) + Len(z)
    <3> HIDE DEF s, N, T
    <3> QED BY <1>2, <1>5, <2>3 DEF N
  <2>5. \A n \in 1..Len(s) : f[n] = s[n]
    <3> TAKE n \in 1..Len(s)
    <3>1. n \in 1..T /\ n \in 1..N
      <4> HIDE DEF s, N, T
      <4> QED BY <1>2, <1>5, <2>3, <2>4
    <3> QED BY <1>7, <2>1, <3>1
  <2>6. \A m \in 1..Len(z) : f[Len(s) + m] = z[m]
    <3> TAKE m \in 1..Len(z)
    <3>1. Len(s) + m \in 1..N /\ Len(s) + m = T + m
      <4> HIDE DEF s, N, T
      <4> QED BY <1>2, <1>5, <2>3, <2>4
    <3> QED BY <1>8, <2>1, <3>1
  <2>7. f \in [1..N -> S]
    <3>1. \A n \in 1..N : f[n] \in S
      <4> TAKE n \in 1..N
      <4>1. CASE n \in 1..Len(s)
        <5>1. s[n] \in S
          BY <2>3, <4>1
        <5> QED BY <2>5, <4>1, <5>1
      <4>2. CASE n \notin 1..Len(s)
        <5> DEFINE m == n - Len(s)
        <5>1. m \in 1..Len(z) /\ n = Len(s) + m
          <6> HIDE DEF s, N, T
          <6> QED BY <1>2, <1>5, <2>3, <2>4, <4>2
        <5>2. f[n] = z[m]
          <6> HIDE DEF f, s, m
          <6> QED BY <2>6, <5>1
        <5>3. z[m] \in S
          <6> HIDE DEF S, m
          <6> QED BY <2>2, <5>1
        <5> QED BY <5>2, <5>3
      <4> QED BY <4>1, <4>2
    <3> HIDE DEF S
    <3> QED BY <2>1, <3>1
  <2> HIDE DEF s, f, N, S
  <2>8. Joins(f, s, z)
    BY <2>5, <2>6 DEF Joins
  <2>9. f = s \o z
    BY ONLY <2>2, <2>3, <2>4, <2>7, <2>8, ConcatIs
  <2> QED BY <2>9 DEF s, f
<1> QED BY <1>4, <1>9

\* A run recorded into a capture comes behind all it holds.
LEMMA AppendRun ==
  ASSUME NEW c, CaptureOK(c), NEW x \in [pos : Nat, members : Seq(Events)], x.pos = Len(c.events),
         NEW d \in Captures,
         d.events = c.events, d.lazy = Append(c.lazy, x), d.p = c.p, d.k = c.k
  PROVE  CaptureOK(d) /\ ItemsOf(d) = Append(ItemsOf(c), [tag |-> "Run", members |-> x.members])
<1> DEFINE L == c.lazy
           M == d.lazy
           R == Len(L)
           E == Len(c.events)
           T == Total(c)
           Q == [pos : Nat, members : Seq(Events)]
           y == [tag |-> "Run", members |-> x.members]
<1>1. L \in Seq(Q) /\ M = Append(L, x) /\ x \in Q
  BY CaptureTypes
<1>2. /\ Len(M) = R + 1 /\ R \in Nat
      /\ \A i \in 1..R : M[i] = L[i]
      /\ M[R + 1] = x
  <2> HIDE DEF L, M, Q
  <2> QED BY <1>1
<1>3. /\ c.p \in Nat /\ c.k \in Nat /\ E \in Nat /\ c.p <= E /\ c.k <= R /\ x.pos = E /\ T \in Nat
      /\ \A r \in 1..R : L[r].pos \in Nat /\ L[r].pos <= E
      /\ \A r \in RunsLeft(c) : c.p <= L[r].pos /\ r \in 1..R /\ RunPlace(c, r) \in 1..T
      /\ \A r, s \in 1..R : r < s => L[r].pos <= L[s].pos
  BY CaptureTypes DEF CaptureOK
<1>4. /\ RunsLeft(d) = RunsLeft(c) \cup {R + 1}
      /\ \A r \in RunsLeft(c) : RunPlace(d, r) = RunPlace(c, r)
      /\ R + 1 \in RunsLeft(d) /\ R + 1 \notin RunsLeft(c)
  <2>1. RunsLeft(d) = (c.k + 1)..(R + 1) /\ RunsLeft(c) = (c.k + 1)..R
    BY <1>2 DEF RunsLeft
  <2>2. \A r \in RunsLeft(c) : M[r] = L[r]
    BY <1>2, <1>3
  <2>3. \A r \in RunsLeft(c) : RunPlace(d, r) = RunPlace(c, r)
    BY <2>2 DEF RunPlace
  <2> DEFINE K == c.k
  <2>4. K \in Nat /\ K <= R /\ R \in Nat
    BY <1>2, <1>3
  <2>5. (K + 1)..(R + 1) = ((K + 1)..R) \cup {R + 1} /\ R + 1 \in (K + 1)..(R + 1)
        /\ R + 1 \notin (K + 1)..R
    <3> HIDE DEF K, R
    <3> QED BY <2>4
  <2> QED BY <2>1, <2>3, <2>5
<1>5. CaptureOK(d)
  <2>1. \A r \in 1..Len(M) : r \in 1..R \/ r = R + 1
    <3> HIDE DEF M, R
    <3> QED BY <1>2
  <2>2. \A r \in 1..Len(M) : M[r].pos <= E
    BY <1>2, <1>3, <2>1
  <2>3. \A r, s \in 1..Len(M) : r < s => M[r].pos <= M[s].pos
    <3> TAKE r, s \in 1..Len(M)
    <3> HAVE r < s
    <3>1. r \in 1..R
      <4> HIDE DEF M, R
      <4> QED BY <1>2, <2>1
    <3>2. CASE s \in 1..R
      BY <1>2, <1>3, <3>1, <3>2
    <3>3. CASE s = R + 1
      BY <1>2, <1>3, <3>1, <3>3
    <3> QED BY <2>1, <3>2, <3>3
  <2>4. \A r \in RunsLeft(d) : c.p <= M[r].pos
    <3> TAKE r \in RunsLeft(d)
    <3>1. CASE r \in RunsLeft(c)
      BY <1>2, <1>3, <3>1
    <3>2. CASE r = R + 1
      BY <1>2, <1>3, <3>2
    <3> QED BY <1>4, <3>1, <3>2
  <2>5. c.k <= Len(M)
    BY <1>2, <1>3
  <2> QED BY <1>3, <2>2, <2>3, <2>4, <2>5 DEF CaptureOK
<1>6. Total(d) = T + 1
  <2> DEFINE K == c.k
             P == c.p
             G == Len(M)
  <2>1. Total(d) = E - P + G - K /\ T = E - P + R - K
    BY DEF Total
  <2>2. E \in Nat /\ P \in Nat /\ K \in Nat /\ R \in Nat /\ G = R + 1
    BY <1>2, <1>3
  <2> HIDE DEF K, P, G, E, R, T
  <2> QED BY <2>1, <2>2
<1>7. RunPlace(d, R + 1) = T + 1
  <2> DEFINE K == c.k
             P == c.p
             z == M[R + 1].pos
  <2>1. RunPlace(d, R + 1) = ((R + 1) - K) + (IF z < P THEN 0 ELSE z - P)
    <3> DEFINE g == R + 1
    <3> HIDE DEF g
    <3>1. RunPlace(d, g) = (g - c.k) + (IF M[g].pos < c.p THEN 0 ELSE M[g].pos - c.p)
      BY ONLY d.p = c.p, d.k = c.k DEF RunPlace
    <3> QED BY ONLY <3>1 DEF g, z, K, P
  <2>2. z = E /\ E \in Nat /\ P \in Nat /\ K \in Nat /\ R \in Nat /\ P <= E
    BY <1>2, <1>3
  <2>3. T = E - P + R - K
    BY DEF Total
  <2> HIDE DEF K, P, z, E, R, T
  <2> QED BY <2>1, <2>2, <2>3
<1>8. ItemAt(d, T + 1) = y
  <2>1. ItemAt(d, RunPlace(d, R + 1)) = [tag |-> "Run", members |-> d.lazy[R + 1].members]
    BY <1>4, <1>5, ItemOfRun
  <2> QED BY <1>2, <1>7, <2>1
<1>9. ASSUME NEW n \in 1..T PROVE ItemAt(d, n) = ItemAt(c, n)
  <2>0. ~(RunPlace(d, R + 1) < n) /\ RunPlace(d, R + 1) # n
    <3> HIDE DEF T
    <3> QED BY <1>3, <1>7
  <2>1. CASE \E r \in RunsLeft(c) : RunPlace(c, r) = n
    <3>1. PICK r \in RunsLeft(c) : RunPlace(c, r) = n
      BY <2>1
    <3>2. ItemAt(c, n) = [tag |-> "Run", members |-> c.lazy[r].members]
      BY <3>1, ItemOfRun
    <3>3. ItemAt(d, n) = [tag |-> "Run", members |-> d.lazy[r].members]
      BY <1>4, <1>5, <3>1, ItemOfRun
    <3>4. M[r] = L[r]
      BY <1>2, <1>3
    <3> QED BY <3>2, <3>3, <3>4
  <2>2. CASE \A r \in RunsLeft(c) : RunPlace(c, r) # n
    <3>1. ItemAt(c, n) = c.events[c.p + n - Cardinality(RunsBefore(c, n))]
      BY <2>2, EventItem
    <3>2. \A r \in RunsLeft(d) : RunPlace(d, r) # n
      BY <1>4, <2>0, <2>2
    <3>3. ItemAt(d, n) = d.events[d.p + n - Cardinality(RunsBefore(d, n))]
      BY <1>5, <3>2, EventItem
    <3>4. RunsBefore(d, n) = RunsBefore(c, n)
      BY <1>4, <2>0 DEF RunsBefore
    <3> QED BY <3>1, <3>3, <3>4
  <2> QED BY <2>1, <2>2
<1>10. ItemsOf(d) = Append(ItemsOf(c), y)
  <2> DEFINE s == ItemsOf(c)
             f == ItemsOf(d)
             N == T + 1
             S == {s[n] : n \in 1..T} \cup {y}
             z == <<y>>
  <2>1. s = [n \in 1..T |-> ItemAt(c, n)] /\ f = [n \in 1..N |-> ItemAt(d, n)]
    BY <1>6 DEF ItemsOf
  <2>2. z \in Seq(S) /\ Len(z) = 1 /\ z[1] = y
    <3> HIDE DEF y
    <3> QED OBVIOUS
  <2>3. s \in Seq(S) /\ Len(s) = T
    <3>1. s \in [1..T -> S]
      BY <2>1
    <3> HIDE DEF S, s, T
    <3> QED BY <1>3, <3>1
  <2>4. N \in Nat /\ N = Len(s) + Len(z)
    <3> HIDE DEF s, T, z
    <3> QED BY <1>3, <2>2, <2>3
  <2>5. \A n \in 1..T : f[n] = s[n] /\ n \in 1..N
    <3> TAKE n \in 1..T
    <3>1. n \in 1..N
      <4> HIDE DEF T
      <4> QED BY <1>3
    <3> QED BY <1>9, <2>1, <3>1
  <2>6. f[N] = y /\ N \in 1..N
    <3>1. N \in 1..N
      <4> HIDE DEF T
      <4> QED BY <1>3
    <3> QED BY <1>8, <2>1, <3>1
  <2>7. f \in [1..N -> S]
    <3>1. \A n \in 1..N : n \in 1..T \/ n = N
      <4> HIDE DEF T
      <4> QED BY <1>3
    <3>2. \A n \in 1..N : f[n] \in S
      BY <2>5, <2>6, <3>1
    <3> HIDE DEF S
    <3> QED BY <2>1, <3>2
  <2> HIDE DEF s, f, S, y
  <2>8. Joins(f, s, z)
    <3>1. \A m \in 1..Len(z) : m = 1
      BY <2>2
    <3>2. f[Len(s) + 1] = z[1]
      BY <2>2, <2>3, <2>6
    <3> QED BY <2>3, <2>5, <3>1, <3>2 DEF Joins
  <2> HIDE DEF z, N
  <2>9. f = s \o z
    BY ONLY <2>2, <2>3, <2>4, <2>7, <2>8, ConcatIs
  <2>10. s \o <<y>> = Append(s, y)
    <3>1. y \in S
      BY DEF S
    <3> QED BY <2>3, <3>1
  <2> QED BY <2>9, <2>10 DEF s, f, z
<1> QED BY <1>5, <1>10

LEMMA FirstItem ==
  ASSUME NEW c, NEW d, Total(d) \in Nat, Total(c) = Total(d) + 1,
         \A n \in 1..Total(d) : ItemAt(d, n) = ItemAt(c, n + 1)
  PROVE  /\ ItemsOf(c) # <<>> /\ Head(ItemsOf(c)) = ItemAt(c, 1) /\ Tail(ItemsOf(c)) = ItemsOf(d)
<1> DEFINE N == Total(d)
           s == ItemsOf(c)
           t == ItemsOf(d)
           S == {ItemAt(c, n) : n \in 1..(N + 1)}
<1>1. s = [n \in 1..(N + 1) |-> ItemAt(c, n)] /\ t = [n \in 1..N |-> ItemAt(d, n)]
  BY DEF ItemsOf
<1>2. N \in Nat /\ 1 \in 1..(N + 1) /\ \A n \in 1..N : n \in 1..(N + 1) /\ n + 1 \in 1..(N + 1)
  OBVIOUS
<1>3. \A n \in 1..N : t[n] = s[n + 1]
  BY <1>1, <1>2
<1>4. s \in [1..(N + 1) -> S]
  BY <1>1
<1>5. t \in [1..N -> S]
  <2>1. \A n \in 1..N : t[n] \in S
    BY <1>1, <1>2
  <2> HIDE DEF S
  <2> QED BY <1>1, <2>1
<1>6. s[1] = ItemAt(c, 1)
  BY <1>1, <1>2
<1> HIDE DEF s, t, S, N
<1>7. s # <<>> /\ Head(s) = s[1] /\ Tail(s) = t
  BY ONLY <1>2, <1>3, <1>4, <1>5, HeadTailIs
<1> QED BY <1>6, <1>7 DEF s, t

LEMMA NothingLeft ==
  ASSUME NEW c, CaptureOK(c)
  PROVE  ItemsOf(c) = <<>> <=> c.p = Len(c.events) /\ c.k = Len(c.lazy)
<1> DEFINE T == Total(c)
           P == c.p
           K == c.k
           E == Len(c.events)
           R == Len(c.lazy)
<1>1. /\ P \in Nat /\ K \in Nat /\ E \in Nat /\ R \in Nat /\ P <= E /\ K <= R /\ T \in Nat
      /\ T = E - P + R - K
  BY CaptureTypes DEF Total
<1>2. T = 0 <=> P = E /\ K = R
  <2> HIDE DEF T, P, K, E, R
  <2> QED BY <1>1
<1>3. ItemsOf(c) = [n \in 1..T |-> ItemAt(c, n)]
  BY DEF ItemsOf
<1>4. T = 0 => ItemsOf(c) = <<>>
  <2> HIDE DEF T
  <2> QED BY <1>3
<1>5. T # 0 => ItemsOf(c) # <<>>
  <2> HIDE DEF T
  <2>1. ASSUME T # 0 PROVE 1 \in DOMAIN ItemsOf(c)
    BY <1>1, <1>3, <2>1
  <2> QED BY <2>1
<1> QED BY <1>2, <1>4, <1>5

\* The next run is the first item left, and the rest stays when it is gone.
LEMMA NextRun ==
  ASSUME NEW c, CaptureOK(c), c.k < Len(c.lazy), c.lazy[c.k + 1].pos = c.p,
         NEW d \in Captures,
         d.events = c.events, d.lazy = c.lazy, d.p = c.p, d.k = c.k + 1
  PROVE  /\ CaptureOK(d) /\ ItemsOf(c) # <<>>
         /\ Head(ItemsOf(c)) = [tag |-> "Run", members |-> c.lazy[c.k + 1].members]
         /\ Tail(ItemsOf(c)) = ItemsOf(d)
<1> DEFINE L == c.lazy
           R == Len(L)
           E == Len(c.events)
           K == c.k
           P == c.p
           u == K + 1
           T == Total(d)
<1>1. /\ P \in Nat /\ K \in Nat /\ E \in Nat /\ R \in Nat /\ P <= E /\ K < R /\ Total(c) \in Nat
      /\ L[u].pos = P
      /\ \A r \in RunsLeft(c) : P <= L[r].pos /\ r \in 1..R
                                /\ RunPlace(c, r) = r - K + L[r].pos - P
  BY CaptureTypes DEF CaptureOK
<1>2. u \in RunsLeft(c) /\ RunsLeft(c) = {u} \cup RunsLeft(d) /\ u \notin RunsLeft(d) /\ u \in Nat
  <2>1. RunsLeft(c) = (K + 1)..R /\ RunsLeft(d) = (u + 1)..R
    BY DEF RunsLeft
  <2>2. u \in Nat /\ R \in Nat /\ u <= R
    <3> HIDE DEF K, R
    <3> QED BY <1>1
  <2>3. u \in u..R /\ u..R = {u} \cup ((u + 1)..R) /\ u \notin (u + 1)..R
    <3> HIDE DEF u, R
    <3> QED BY ONLY <2>2
  <2> QED BY <2>1, <2>2, <2>3
<1>3. CaptureOK(d)
  <2>1. u <= R
    <3> HIDE DEF K, R
    <3> QED BY <1>1
  <2> QED BY <1>1, <1>2, <2>1 DEF CaptureOK
<1>4. RunPlace(c, u) = 1
  <2>1. RunPlace(c, u) = u - K + L[u].pos - P
    BY <1>1, <1>2
  <2>2. L[u].pos = P
    BY <1>1
  <2> HIDE DEF K, P
  <2> QED BY <1>1, <2>1, <2>2
<1>5. \A r \in RunsLeft(d) : /\ RunPlace(d, r) \in Nat /\ RunPlace(c, r) \in Nat
                             /\ RunPlace(c, r) = RunPlace(d, r) + 1
  <2> TAKE r \in RunsLeft(d)
  <2> DEFINE x == L[r].pos
             g == d.k
  <2>1. RunPlace(c, r) = r - K + x - P
    BY <1>1, <1>2
  <2>2. RunPlace(d, r) = r - g + x - P /\ RunPlace(d, r) \in 1..Total(d) /\ Total(d) \in Nat
    <3>1. RunPlace(d, r) = r - d.k + d.lazy[r].pos - d.p /\ RunPlace(d, r) \in 1..Total(d)
          /\ Total(d) \in Nat
      BY <1>3, CaptureTypes
    <3> QED BY <3>1
  <2>3. x \in Nat /\ r \in Nat
    BY <1>1, <1>2, CaptureTypes
  <2>4. g = K + 1
    OBVIOUS
  <2> HIDE DEF x, g, K, P
  <2> QED BY <1>1, <2>1, <2>2, <2>3, <2>4
<1>6. T \in Nat /\ Total(c) = T + 1
  <2> DEFINE g == d.k
  <2>1. T = E - P + R - g /\ Total(c) = E - P + R - K /\ g = K + 1
    BY DEF Total
  <2>2. T \in Nat
    BY <1>3, CaptureTypes
  <2> HIDE DEF g, E, P, R, K, T
  <2> QED BY <1>1, <2>1, <2>2
<1>7. ItemAt(c, 1) = [tag |-> "Run", members |-> L[u].members]
  BY <1>2, <1>4, ItemOfRun
<1>8. ASSUME NEW n \in 1..T PROVE ItemAt(d, n) = ItemAt(c, n + 1)
  <2>0. n \in Nat /\ RunPlace(c, u) # n + 1 /\ RunPlace(c, u) < n + 1
    <3> HIDE DEF T
    <3> QED BY <1>4, <1>6
  <2>1. CASE \E r \in RunsLeft(d) : RunPlace(d, r) = n
    <3>1. PICK r \in RunsLeft(d) : RunPlace(d, r) = n
      BY <2>1
    <3>2. RunPlace(c, r) = n + 1 /\ r \in RunsLeft(c)
      BY <1>2, <1>5, <3>1
    <3>3. ItemAt(c, n + 1) = [tag |-> "Run", members |-> c.lazy[r].members]
      BY <3>2, ItemOfRun
    <3>4. ItemAt(d, n) = [tag |-> "Run", members |-> d.lazy[r].members]
      BY <1>3, <3>1, ItemOfRun
    <3> QED BY <3>3, <3>4
  <2>2. CASE \A r \in RunsLeft(d) : RunPlace(d, r) # n
    <3> DEFINE A == RunsBefore(d, n)
               B == RunsBefore(c, n + 1)
    <3>1. B = A \cup {u} /\ u \notin A
      <4>1. \A r \in RunsLeft(d) : RunPlace(d, r) < n <=> RunPlace(c, r) < n + 1
        BY <1>5, <2>0
      <4> QED BY <1>2, <2>0, <4>1 DEF RunsBefore
    <3>2. IsFiniteSet(A) /\ Cardinality(A) \in Nat
      BY <1>3, RunsBeforeFinite
    <3>3. Cardinality(B) = Cardinality(A) + 1
      <4> HIDE DEF A, B
      <4> QED BY <3>1, <3>2, FS_AddElement
    <3>4. ItemAt(d, n) = c.events[P + n - Cardinality(A)]
      BY <1>3, <2>2, EventItem
    <3>5. \A r \in RunsLeft(c) : RunPlace(c, r) # n + 1
      BY <1>2, <1>5, <2>0, <2>2
    <3>6. ItemAt(c, n + 1) = c.events[P + (n + 1) - Cardinality(B)]
      BY <3>5, EventItem
    <3> DEFINE a == Cardinality(A)
               b == Cardinality(B)
    <3>7. P + n - a = P + (n + 1) - b
      <4>1. a \in Nat /\ b = a + 1 /\ P \in Nat
        BY <1>1, <3>2, <3>3
      <4> HIDE DEF a, b, P
      <4> QED BY <2>0, <4>1
    <3> QED BY <3>4, <3>6, <3>7
  <2> QED BY <2>1, <2>2
<1>9. /\ ItemsOf(c) # <<>> /\ Head(ItemsOf(c)) = ItemAt(c, 1) /\ Tail(ItemsOf(c)) = ItemsOf(d)
  BY <1>6, <1>8, FirstItem
<1> QED BY <1>3, <1>7, <1>9

\* So is the next event, when no run is due before it.
LEMMA NextEvent ==
  ASSUME NEW c, CaptureOK(c), c.p < Len(c.events),
         c.k < Len(c.lazy) => c.lazy[c.k + 1].pos > c.p,
         NEW d \in Captures,
         d.events = c.events, d.lazy = c.lazy, d.p = c.p + 1, d.k = c.k
  PROVE  /\ CaptureOK(d) /\ ItemsOf(c) # <<>>
         /\ Head(ItemsOf(c)) = c.events[c.p + 1]
         /\ Tail(ItemsOf(c)) = ItemsOf(d)
<1> DEFINE L == c.lazy
           R == Len(L)
           E == Len(c.events)
           K == c.k
           P == c.p
           T == Total(d)
<1>1. /\ P \in Nat /\ K \in Nat /\ E \in Nat /\ R \in Nat /\ P < E /\ K <= R /\ Total(c) \in Nat
      /\ \A r \in 1..R : L[r].pos \in Nat
      /\ \A r, s \in 1..R : r < s => L[r].pos <= L[s].pos
      /\ \A r \in RunsLeft(c) : r \in 1..R /\ r \in Nat /\ K < r
                                /\ RunPlace(c, r) = r - K + L[r].pos - P
  BY CaptureTypes DEF CaptureOK
<1>2. RunsLeft(d) = RunsLeft(c)
  BY DEF RunsLeft
<1>3. \A r \in RunsLeft(c) : P + 1 <= L[r].pos
  <2> TAKE r \in RunsLeft(c)
  <2> DEFINE u == K + 1
             x == L[u].pos
             y == L[r].pos
  <2>1. u \in 1..R /\ r \in 1..R /\ (r = u \/ u < r) /\ K < R
    <3>1. r \in 1..R /\ r \in Nat /\ K < r
      BY <1>1
    <3> HIDE DEF K, R
    <3> QED BY <1>1, <3>1
  <2>2. x \in Nat /\ y \in Nat /\ x > P
    BY <1>1, <2>1
  <2>3. x <= y
    <3>1. CASE r = u
      BY <2>2, <3>1
    <3>2. CASE u < r
      BY <1>1, <2>1, <3>2
    <3> QED BY <2>1, <3>1, <3>2
  <2> HIDE DEF x, y, P
  <2>4. P + 1 <= y
    BY <1>1, <2>2, <2>3
  <2> QED BY <2>4 DEF y
<1>4. CaptureOK(d)
  <2>1. P + 1 <= E
    <3> HIDE DEF P, E
    <3> QED BY <1>1
  <2> QED BY <1>1, <1>2, <1>3, <2>1 DEF CaptureOK
<1>5. \A r \in RunsLeft(c) : /\ RunPlace(d, r) \in Nat /\ RunPlace(c, r) \in Nat
                             /\ RunPlace(d, r) >= 1
                             /\ RunPlace(c, r) = RunPlace(d, r) + 1
  <2> TAKE r \in RunsLeft(c)
  <2> DEFINE x == L[r].pos
             g == d.p
  <2>1. RunPlace(c, r) = r - K + x - P
    BY <1>1
  <2>2. RunPlace(d, r) = r - K + x - g /\ RunPlace(d, r) \in 1..Total(d) /\ Total(d) \in Nat
    <3>1. RunPlace(d, r) = r - d.k + d.lazy[r].pos - d.p /\ RunPlace(d, r) \in 1..Total(d)
          /\ Total(d) \in Nat
      BY <1>2, <1>4, CaptureTypes
    <3> QED BY <3>1
  <2>3. x \in Nat /\ r \in Nat
    BY <1>1
  <2>4. g = P + 1
    OBVIOUS
  <2> HIDE DEF x, g, K, P
  <2> QED BY <1>1, <2>1, <2>2, <2>3, <2>4
<1>6. T \in Nat /\ Total(c) = T + 1
  <2> DEFINE g == d.p
  <2>1. T = E - g + R - K /\ Total(c) = E - P + R - K /\ g = P + 1
    BY DEF Total
  <2>2. T \in Nat
    BY <1>4, CaptureTypes
  <2> HIDE DEF g, E, P, R, K, T
  <2> QED BY <1>1, <2>1, <2>2
<1>7. ItemAt(c, 1) = c.events[P + 1]
  <2>1. \A r \in RunsLeft(c) : RunPlace(c, r) # 1 /\ ~(RunPlace(c, r) < 1)
    BY <1>5
  <2>2. ItemAt(c, 1) = c.events[P + 1 - Cardinality(RunsBefore(c, 1))]
    BY <2>1, EventItem
  <2>3. RunsBefore(c, 1) = {}
    BY <2>1 DEF RunsBefore
  <2>4. Cardinality(RunsBefore(c, 1)) = 0
    BY <2>3, FS_EmptySet
  <2>5. P + 1 - 0 = P + 1
    <3> HIDE DEF P
    <3> QED BY <1>1
  <2> QED BY <2>2, <2>4, <2>5
<1>8. ASSUME NEW n \in 1..T PROVE ItemAt(d, n) = ItemAt(c, n + 1)
  <2>0. n \in Nat
    <3> HIDE DEF T
    <3> QED BY <1>6
  <2>1. CASE \E r \in RunsLeft(c) : RunPlace(d, r) = n
    <3>1. PICK r \in RunsLeft(c) : RunPlace(d, r) = n
      BY <2>1
    <3>2. RunPlace(c, r) = n + 1
      BY <1>5, <3>1
    <3>3. ItemAt(c, n + 1) = [tag |-> "Run", members |-> c.lazy[r].members]
      BY <3>2, ItemOfRun
    <3>4. ItemAt(d, n) = [tag |-> "Run", members |-> d.lazy[r].members]
      BY <1>2, <1>4, <3>1, ItemOfRun
    <3> QED BY <3>3, <3>4
  <2>2. CASE \A r \in RunsLeft(c) : RunPlace(d, r) # n
    <3> DEFINE A == RunsBefore(d, n)
               a == Cardinality(A)
    <3>1. RunsBefore(c, n + 1) = A
      <4>1. \A r \in RunsLeft(c) : RunPlace(d, r) < n <=> RunPlace(c, r) < n + 1
        BY <1>5, <2>0
      <4> QED BY <1>2, <4>1 DEF RunsBefore
    <3>2. a \in Nat
      BY <1>4, RunsBeforeFinite
    <3>4. ItemAt(d, n) = c.events[P + 1 + n - a]
      BY <1>2, <1>4, <2>2, EventItem
    <3>5. \A r \in RunsLeft(c) : RunPlace(c, r) # n + 1
      BY <1>5, <2>0, <2>2
    <3>6. ItemAt(c, n + 1) = c.events[P + (n + 1) - a]
      BY <3>1, <3>5, EventItem
    <3>7. P + 1 + n - a = P + (n + 1) - a
      <4> HIDE DEF a, P
      <4> QED BY <1>1, <2>0, <3>2
    <3> QED BY <3>4, <3>6, <3>7
  <2> QED BY <2>1, <2>2
<1>9. /\ ItemsOf(c) # <<>> /\ Head(ItemsOf(c)) = ItemAt(c, 1) /\ Tail(ItemsOf(c)) = ItemsOf(d)
  BY <1>6, <1>8, FirstItem
<1> QED BY <1>4, <1>7, <1>9

-----------------------------------------------------------------------------
(* Every step of the log with records is a step of the log without *)

LEMMA SameLogOps ==
  /\ \A l : Abstract!CurrentGroup(l) = CurrentGroup(l)
  /\ \A l : Abstract!EnforceCap(l) = EnforceCap(l)
  /\ \A l, m : Abstract!SetMaxEvents(l, m) = SetMaxEvents(l, m)
  /\ \A l, s : Abstract!Stamp(l, s) = Stamp(l, s)
  /\ \A l, s, b : Abstract!ReplayEvents(l, s, b) = ReplayEvents(l, s, b)
  /\ \A l, e : Abstract!RecordEvent(l, e) = RecordEvent(l, e)
  /\ \A l : Abstract!OpenCompound(l) = OpenCompound(l)
  /\ \A l : Abstract!CloseCompound(l) = CloseCompound(l)
  /\ \A l : Abstract!BeginCompound(l) = BeginCompound(l)
  /\ \A l : Abstract!EndCompound(l) = EndCompound(l)
  /\ \A l, b : Abstract!ReplayBeginCompound(l, b) = ReplayBeginCompound(l, b)
  /\ \A l, b : Abstract!ReplayEndCompound(l, b) = ReplayEndCompound(l, b)
  /\ \A l, n : Abstract!TruncateLog(l, n) = TruncateLog(l, n)
  /\ \A l : Abstract!ClearLog(l) = ClearLog(l)
  /\ Abstract!EmptyLog = EmptyLog
  /\ Abstract!CompoundStart = CompoundStart /\ Abstract!CompoundEnd = CompoundEnd
<1>1. /\ \A l : Abstract!CurrentGroup(l) = CurrentGroup(l)
      /\ Abstract!EmptyLog = EmptyLog
      /\ Abstract!CompoundStart = CompoundStart /\ Abstract!CompoundEnd = CompoundEnd
  BY DEF Abstract!CurrentGroup, CurrentGroup, Abstract!NoGroup, NoGroup, Abstract!EmptyLog, EmptyLog,
         Abstract!NoCap, NoCap, Abstract!CompoundStart, Abstract!CompoundEnd, CompoundStart, CompoundEnd
<1>2. \A l : Abstract!EnforceCap(l) = EnforceCap(l)
  BY DEF Abstract!EnforceCap, EnforceCap, Abstract!NoCap, NoCap
<1>3. \A l, m : Abstract!SetMaxEvents(l, m) = SetMaxEvents(l, m)
  BY <1>2 DEF Abstract!SetMaxEvents, SetMaxEvents
<1>4. \A l, s : Abstract!Stamp(l, s) = Stamp(l, s)
  BY <1>1 DEF Abstract!Stamp, Stamp
<1>5. \A l, s, b : Abstract!ReplayEvents(l, s, b) = ReplayEvents(l, s, b)
  BY <1>4 DEF Abstract!ReplayEvents, ReplayEvents
<1>6. \A l, e : Abstract!RecordEvent(l, e) = RecordEvent(l, e)
  BY <1>2, <1>5 DEF Abstract!RecordEvent, RecordEvent
<1>7. \A l : Abstract!OpenCompound(l) = OpenCompound(l)
  BY <1>1 DEF Abstract!OpenCompound, OpenCompound
<1>8. \A l : Abstract!CloseCompound(l) = CloseCompound(l)
  BY DEF Abstract!CloseCompound, CloseCompound
<1>9. \A l : Abstract!BeginCompound(l) = BeginCompound(l)
  BY <1>1, <1>6, <1>7 DEF Abstract!BeginCompound, BeginCompound
<1>10. \A l : Abstract!EndCompound(l) = EndCompound(l)
  BY <1>1, <1>6, <1>8 DEF Abstract!EndCompound, EndCompound
<1>11. \A l, b : Abstract!ReplayBeginCompound(l, b) = ReplayBeginCompound(l, b)
  BY <1>1, <1>5, <1>7 DEF Abstract!ReplayBeginCompound, ReplayBeginCompound
<1>12. \A l, b : Abstract!ReplayEndCompound(l, b) = ReplayEndCompound(l, b)
  BY <1>1, <1>5, <1>8 DEF Abstract!ReplayEndCompound, ReplayEndCompound
<1>13. \A l, n : Abstract!TruncateLog(l, n) = TruncateLog(l, n)
  BY DEF Abstract!TruncateLog, TruncateLog
<1>14. \A l : Abstract!ClearLog(l) = ClearLog(l)
  BY DEF Abstract!ClearLog, ClearLog
<1> QED BY <1>1, <1>2, <1>3, <1>4, <1>5, <1>6, <1>7, <1>8, <1>9, <1>10, <1>11, <1>12, <1>13, <1>14

\* The inductive invariant: the log shows its written-out form, and the
\* capture is in order.
LazyInv ==
  /\ Shows(log, LogView(log))
  /\ CaptureOK(capture)
  /\ mode \in {"idle", "edit", "publish", "discard"}
  /\ mode \in {"publish", "discard"} => capture.depth = 0

AbstractStep == [Abstract!Next]_(Abstract!vars)

LEMMA ShowsNow ==
  ASSUME NEW a, Shows(log', a)
  PROVE  Shows(log, LogView(log))' /\ LogView(log)' = a
<1>1. LogView(log') = a
  BY ShowsView
<1> QED BY <1>1

\* A direct step that shows as a gives a good state.
LEMMA DirectStep ==
  ASSUME LazyInv, NEW l, Direct(l), NEW a, Shows(l, a)
  PROVE  LazyInv' /\ LogView(log)' = a /\ CaptureView(capture)' = CaptureView(capture)
         /\ mode = "idle" /\ mode' = mode /\ before' = before
<1>1. log' = l /\ mode = "idle" /\ mode' = mode /\ capture' = capture /\ before' = before
  BY DEF Direct
<1>2. Shows(log, LogView(log))' /\ LogView(log)' = a
  <2>1. Shows(log', a)
    BY <1>1
  <2> QED BY <2>1, ShowsNow
<1>3. CaptureOK(capture)' /\ CaptureView(capture)' = CaptureView(capture)
  BY <1>1 DEF LazyInv
<1> QED BY <1>1, <1>2, <1>3 DEF LazyInv

LEMMA DirectSteps ==
  ASSUME LazyInv,
         \/ \E e \in Events : Record(e)
         \/ Begin
         \/ End
         \/ \E max \in Caps : SetMaxChangelogEvents(max)
         \/ \E on \in BOOLEAN : SetEnabled(on)
         \/ \E len \in 0..log.retained.len : Truncate(len)
         \/ Clear
         \/ Read
  PROVE  LazyInv' /\ AbstractStep
<1> DEFINE a == LogView(log)
<1>0. Shows(log, a)
  BY DEF LazyInv
<1>a. /\ a.seq = log.seq /\ a.depth = log.depth /\ a.gid = log.gid
      /\ log.retained.len = Len(a.retained)
  BY <1>0, ShowsTypes DEF Shows
<1> HIDE DEF a
<1>1. ASSUME NEW e \in Events, Record(e) PROVE LazyInv' /\ AbstractStep
  <2> DEFINE x == Abstract!Plain(e)
             b == RecordEvent(a, x)
  <2>1. x \in Loggable
    BY MarkersLoggable DEF Abstract!Plain
  <2>2. Direct(LRecord(log, x)) /\ log.seq < MaxSeq
    BY <1>1 DEF Record
  <2> HIDE DEF x
  <2>3. Shows(LRecord(log, x), b)
    BY <1>0, <2>1, RecordShows
  <2>4. LazyInv' /\ LogView(log)' = b /\ CaptureView(capture)' = CaptureView(capture)
         /\ mode = "idle" /\ mode' = mode /\ before' = before
    BY <2>2, <2>3, DirectStep
  <2>5. Abstract!Record(e)
    BY <1>a, <2>2, <2>4, SameLogOps DEF a, x, Abstract!Record
  <2> QED BY <2>4, <2>5 DEF AbstractStep, Abstract!Next, Abstract!DirectUse
<1>2. ASSUME Begin PROVE LazyInv' /\ AbstractStep
  <2> DEFINE b == BeginCompound(a)
             l == LRecord(OpenCompound(log), CompoundStart)
  <2>2. Direct(l) /\ log.seq < MaxSeq /\ log.depth < MaxDepth /\ log.gid <= MaxGroups
    BY <1>2 DEF Begin
  <2>3. Shows(l, b)
    BY <1>0, BeginShows
  <2> HIDE DEF l
  <2>4. LazyInv' /\ LogView(log)' = b /\ CaptureView(capture)' = CaptureView(capture)
         /\ mode = "idle" /\ mode' = mode /\ before' = before
    BY <2>2, <2>3, DirectStep
  <2>5. Abstract!Begin
    BY <1>a, <2>2, <2>4, SameLogOps DEF a, Abstract!Begin
  <2> QED BY <2>4, <2>5 DEF AbstractStep, Abstract!Next, Abstract!DirectUse
<1>3. ASSUME End PROVE LazyInv' /\ AbstractStep
  <2> DEFINE b == EndCompound(a)
             l == IF log.depth = 0 THEN log ELSE CloseCompound(LRecord(log, CompoundEnd))
  <2>2. Direct(l) /\ log.seq < MaxSeq
    BY <1>3 DEF End
  <2>3. Shows(l, b)
    BY <1>0, EndShows
  <2> HIDE DEF l
  <2>4. LazyInv' /\ LogView(log)' = b /\ CaptureView(capture)' = CaptureView(capture)
         /\ mode = "idle" /\ mode' = mode /\ before' = before
    BY <2>2, <2>3, DirectStep
  <2>5. Abstract!End
    BY <1>a, <2>2, <2>4, SameLogOps DEF a, Abstract!End
  <2> QED BY <2>4, <2>5 DEF AbstractStep, Abstract!Next, Abstract!DirectUse
<1>4. ASSUME NEW max \in Caps, SetMaxChangelogEvents(max) PROVE LazyInv' /\ AbstractStep
  <2> DEFINE b == SetMaxEvents(a, max)
             l == LEnforceCap([log EXCEPT !.max = max])
  <2>1. max \in Nat \cup {NoCap}
    BY LazyAssumption
  <2>2. Direct(l)
    BY <1>4 DEF SetMaxChangelogEvents
  <2>3. Shows(l, b)
    BY <1>0, <2>1, SetMaxShows
  <2> HIDE DEF l
  <2>4. LazyInv' /\ LogView(log)' = b /\ CaptureView(capture)' = CaptureView(capture)
         /\ mode = "idle" /\ mode' = mode /\ before' = before
    BY <2>2, <2>3, DirectStep
  <2>5. Abstract!SetMaxChangelogEvents(max)
    BY <2>4, SameLogOps DEF a, Abstract!SetMaxChangelogEvents
  <2> QED BY <2>4, <2>5 DEF AbstractStep, Abstract!Next, Abstract!DirectUse
<1>5. ASSUME NEW on \in BOOLEAN, SetEnabled(on) PROVE LazyInv' /\ AbstractStep
  <2> DEFINE b == [a EXCEPT !.enabled = on]
             l == [log EXCEPT !.enabled = on]
  <2>2. Direct(l)
    BY <1>5 DEF SetEnabled
  <2>3. Shows(l, b)
    BY <1>0, SetEnabledShows
  <2> HIDE DEF l
  <2>4. LazyInv' /\ LogView(log)' = b /\ CaptureView(capture)' = CaptureView(capture)
         /\ mode = "idle" /\ mode' = mode /\ before' = before
    BY <2>2, <2>3, DirectStep
  <2>5. Abstract!SetEnabled(on)
    BY <2>4 DEF a, Abstract!SetEnabled
  <2> QED BY <2>4, <2>5 DEF AbstractStep, Abstract!Next, Abstract!DirectUse
<1>6. ASSUME NEW len \in 0..log.retained.len, Truncate(len) PROVE LazyInv' /\ AbstractStep
  <2> DEFINE b == TruncateLog(a, len)
             l == [log EXCEPT !.retained = KeepRange(@, 1, len)]
  <2>2. Direct(l)
    BY <1>6 DEF Truncate
  <2>3. Shows(l, b) /\ len \in 0..Len(a.retained)
    BY <1>0, TruncateShows
  <2> HIDE DEF l
  <2>4. LazyInv' /\ LogView(log)' = b /\ CaptureView(capture)' = CaptureView(capture)
         /\ mode = "idle" /\ mode' = mode /\ before' = before
    BY <2>2, <2>3, DirectStep
  <2>5. Abstract!Truncate(len)
    BY <2>4, SameLogOps DEF a, Abstract!Truncate
  <2>6. len \in 0..Len(LogView(log).retained)
    BY <2>3 DEF a
  <2> QED BY <2>4, <2>5, <2>6 DEF AbstractStep, Abstract!Next, Abstract!DirectUse
<1>7. ASSUME Clear PROVE LazyInv' /\ AbstractStep
  <2> DEFINE b == ClearLog(a)
             l == [log EXCEPT !.retained = EmptyCell, !.depth = 0, !.stack = <<>>]
  <2>2. Direct(l)
    BY <1>7 DEF Clear
  <2>3. Shows(l, b)
    BY <1>0, ClearShows
  <2> HIDE DEF l
  <2>4. LazyInv' /\ LogView(log)' = b /\ CaptureView(capture)' = CaptureView(capture)
         /\ mode = "idle" /\ mode' = mode /\ before' = before
    BY <2>2, <2>3, DirectStep
  <2>5. Abstract!Clear
    BY <2>4, SameLogOps DEF a, Abstract!Clear
  <2> QED BY <2>4, <2>5 DEF AbstractStep, Abstract!Next, Abstract!DirectUse
<1>8. ASSUME Read PROVE LazyInv' /\ AbstractStep
  <2> DEFINE l == [log EXCEPT !.retained = Get(@)]
  <2>2. Direct(l)
    BY <1>8 DEF Read
  <2>3. Shows(l, a)
    BY <1>0, ReadShows
  <2> HIDE DEF l
  <2>4. LazyInv' /\ LogView(log)' = a /\ CaptureView(capture)' = CaptureView(capture)
         /\ mode = "idle" /\ mode' = mode /\ before' = before
    BY <2>2, <2>3, DirectStep
  <2>5. UNCHANGED Abstract!vars
    BY <2>4 DEF a, Abstract!vars
  <2> QED BY <2>4, <2>5 DEF AbstractStep
<1> QED BY <1>1, <1>2, <1>3, <1>4, <1>5, <1>6, <1>7, <1>8

LEMMA NoCaptureOK == CaptureOK(NoCapture) /\ CaptureView(NoCapture) = Abstract!NoCapture
<1> DEFINE z == <<>>
<1>1. z \in Seq(Loggable) /\ z \in Seq([pos : Nat, members : Seq(Events)]) /\ Len(z) = 0
  OBVIOUS
<1>2. NoCapture = [events |-> z, lazy |-> z, depth |-> 0, p |-> 0, k |-> 0]
  BY DEF NoCapture
<1> HIDE DEF z
<1>3. /\ NoCapture \in Captures /\ NoCapture.p = 0 /\ NoCapture.k = 0 /\ NoCapture.depth = 0
      /\ NoCapture.events = z /\ NoCapture.lazy = z
  BY <1>1, <1>2 DEF Captures
<1>4. RunsLeft(NoCapture) = {} /\ 1..Len(NoCapture.lazy) = {}
  BY <1>1, <1>3 DEF RunsLeft
<1>5. CaptureOK(NoCapture)
  BY <1>1, <1>3, <1>4 DEF CaptureOK
<1>6. ItemsOf(NoCapture) = <<>>
  BY <1>1, <1>3, <1>5, NothingLeft
<1>7. CaptureView(NoCapture) = [items |-> <<>>, depth |-> 0]
  BY <1>3, <1>6, ViewIs
<1> QED BY <1>5, <1>7 DEF Abstract!NoCapture

\* A step that leaves the log alone and takes the capture to a good one.
LEMMA CaptureStep ==
  ASSUME LazyInv, UNCHANGED log, CaptureOK(capture'),
         mode' \in {"idle", "edit", "publish", "discard"},
         mode' \in {"publish", "discard"} => capture'.depth = 0
  PROVE  LazyInv' /\ LogView(log)' = LogView(log)
BY DEF LazyInv

LEMMA SmallCapture ==
  ASSUME NEW c, CaptureOK(c), Len(c.events) + Len(c.lazy) < MaxCapture
  PROVE  Len(ItemsOf(c)) < MaxCapture
<1> DEFINE T == Total(c)
           P == c.p
           K == c.k
           E == Len(c.events)
           R == Len(c.lazy)
<1>1. P \in Nat /\ K \in Nat /\ E \in Nat /\ R \in Nat /\ T \in Nat /\ T = E - P + R - K
      /\ E + R < MaxCapture
  BY CaptureTypes DEF Total
<1>2. Len(ItemsOf(c)) = T
  <2>1. ItemsOf(c) = [n \in 1..T |-> ItemAt(c, n)]
    BY DEF ItemsOf
  <2> HIDE DEF T
  <2> QED BY <1>1, <2>1
<1> HIDE DEF T, P, K, E, R
<1> QED BY <1>1, <1>2, LazyAssumption

\* What an edit that appends the events z to its capture makes of it.
WithEvents(c, z, m) == [c EXCEPT !.events = @ \o z, !.depth = m]

LEMMA AppendStep ==
  ASSUME NEW c, CaptureOK(c), NEW z \in Seq(Loggable), NEW m \in Nat
  PROVE  LET d == WithEvents(c, z, m) IN
         /\ CaptureOK(d) /\ d.depth = m
         /\ CaptureView(d) = [items |-> CaptureView(c).items \o z, depth |-> m]
<1> DEFINE V == c.events
           W == V \o z
           d == [c EXCEPT !.events = W, !.depth = m]
<1>1. c \in Captures /\ V \in Seq(Loggable)
  BY CaptureTypes DEF CaptureOK
<1>2. W \in Seq(Loggable) /\ W = c.events \o z
  BY <1>1
<1> HIDE DEF W
<1>3. d \in Captures /\ d.events = W /\ d.lazy = c.lazy /\ d.p = c.p /\ d.k = c.k /\ d.depth = m
  BY <1>1, <1>2 DEF Captures
<1> HIDE DEF d
<1>4. CaptureOK(d) /\ ItemsOf(d) = ItemsOf(c) \o z
  BY <1>2, <1>3, AppendEvents
<1>5. CaptureView(d) = [items |-> CaptureView(c).items \o z, depth |-> m]
  BY <1>3, <1>4, ViewIs
<1> QED BY <1>3, <1>4, <1>5 DEF d, W, WithEvents

WithEvent(c, x, m) == [c EXCEPT !.events = Append(@, x), !.depth = m]

LEMMA AppendOne ==
  ASSUME NEW c, CaptureOK(c), NEW x \in Loggable, NEW m \in Nat
  PROVE  LET d == WithEvent(c, x, m) IN
         /\ CaptureOK(d) /\ d.depth = m
         /\ CaptureView(d) = [items |-> Append(CaptureView(c).items, x), depth |-> m]
<1> DEFINE z == <<x>>
           V == c.events
           I == CaptureView(c).items
<1>1. z \in Seq(Loggable) /\ V \in Seq(Loggable)
  BY CaptureTypes
<1>2. Append(V, x) = V \o z
  <2> HIDE DEF V
  <2> QED BY <1>1
<1>3. Append(I, x) = I \o z
  <2> DEFINE T == Total(c)
             S == {ItemAt(c, n) : n \in 1..T} \cup {x}
  <2>1. I = ItemsOf(c) /\ T \in Nat
    BY ViewIs, CaptureTypes
  <2>2. I = [n \in 1..T |-> ItemAt(c, n)]
    BY <2>1 DEF ItemsOf
  <2>3. I \in [1..T -> S]
    BY <2>2
  <2>4. I \in Seq(S) /\ x \in S
    <3> HIDE DEF I, T
    <3> QED BY <2>1, <2>3
  <2> HIDE DEF I, S
  <2> QED BY <2>4
<1>4. LET d == WithEvents(c, z, m) IN
         /\ CaptureOK(d) /\ d.depth = m
         /\ CaptureView(d) = [items |-> CaptureView(c).items \o z, depth |-> m]
  <2> HIDE DEF z
  <2> QED BY <1>1, AppendStep
<1>5. WithEvent(c, x, m) = WithEvents(c, z, m)
  BY <1>2 DEF WithEvent, WithEvents
<1> QED BY <1>3, <1>4, <1>5

LEMMA AppendARun ==
  ASSUME NEW c, CaptureOK(c), NEW ms \in Seq(Events)
  PROVE  LET d == [c EXCEPT !.lazy = Append(@, [pos |-> Len(c.events), members |-> ms])] IN
         /\ CaptureOK(d)
         /\ CaptureView(d) = [items |-> Append(CaptureView(c).items, [tag |-> "Run", members |-> ms]),
                              depth |-> c.depth]
<1> DEFINE E == Len(c.events)
           Q == [pos : Nat, members : Seq(Events)]
           x == [pos |-> E, members |-> ms]
           L == c.lazy
           M == Append(L, x)
           d == [c EXCEPT !.lazy = M]
<1>1. c \in Captures /\ L \in Seq(Q) /\ E \in Nat
  BY CaptureTypes DEF CaptureOK
<1>2. x \in Q /\ x.pos = E /\ x.members = ms
  BY <1>1
<1>3. M \in Seq(Q) /\ M = Append(c.lazy, x)
  <2> HIDE DEF x, Q
  <2> QED BY <1>1, <1>2
<1> HIDE DEF M
<1>4. d \in Captures /\ d.events = c.events /\ d.lazy = M /\ d.p = c.p /\ d.k = c.k /\ d.depth = c.depth
  BY <1>1, <1>3 DEF Captures
<1> HIDE DEF d, x
<1>5. CaptureOK(d) /\ ItemsOf(d) = Append(ItemsOf(c), [tag |-> "Run", members |-> x.members])
  BY <1>2, <1>3, <1>4, AppendRun
<1>6. CaptureView(d) = [items |-> Append(CaptureView(c).items, [tag |-> "Run", members |-> ms]),
                        depth |-> c.depth]
  BY <1>2, <1>4, <1>5, ViewIs
<1> QED BY <1>5, <1>6 DEF d, M, x

LEMMA EditSteps ==
  ASSUME LazyInv,
         \/ StartEdit
         \/ \E e \in Events : CaptureRecord(e)
         \/ \E members \in Abstract!Runs : CaptureRun(members)
         \/ CaptureBegin
         \/ CaptureEnd
         \/ \E outcome \in {"publish", "discard"} : FinishEdit(outcome)
  PROVE  LazyInv' /\ AbstractStep
<1> DEFINE a == LogView(log)
           c == capture
           V == CaptureView(c)
           m == c.depth
<1>0. Shows(log, a) /\ CaptureOK(c) /\ m \in Nat /\ c \in Captures
  BY CaptureTypes DEF LazyInv, CaptureOK
<1>a. a.seq = log.seq /\ a.depth = log.depth /\ a.gid = log.gid
  BY <1>0, ShowsTypes DEF Shows
<1>b. V.items = ItemsOf(c) /\ V.depth = m
  BY ViewIs
<1>c. HasRoom => Len(V.items) < MaxCapture
  BY <1>0, <1>b, SmallCapture DEF HasRoom
<1> HIDE DEF a
<1>1. ASSUME StartEdit PROVE LazyInv' /\ AbstractStep
  <2>1. /\ mode = "idle" /\ log.seq < MaxSeq /\ log.gid <= MaxGroups /\ mode' = "edit"
        /\ capture' = NoCapture /\ before' = LogView(log) /\ UNCHANGED log
    BY <1>1 DEF StartEdit
  <2>2. LazyInv' /\ LogView(log)' = LogView(log)
    BY <2>1, NoCaptureOK, CaptureStep
  <2>3. CaptureView(capture)' = Abstract!NoCapture
    BY <2>1, NoCaptureOK
  <2>4. Abstract!StartEdit
    BY <2>1, <2>2, <2>3 DEF Abstract!StartEdit
  <2>5. LogView(log).seq < MaxSeq /\ LogView(log).gid <= MaxGroups
    BY <1>a, <2>1 DEF a
  <2> QED BY <2>2, <2>4, <2>5 DEF AbstractStep, Abstract!Next, Abstract!Editing
<1>2. ASSUME NEW e \in Events, CaptureRecord(e) PROVE LazyInv' /\ AbstractStep
  <2> DEFINE x == Abstract!Plain(e)
             d == [c EXCEPT !.events = Append(@, x)]
  <2>1. mode = "edit" /\ HasRoom /\ capture' = d /\ UNCHANGED <<log, mode, before>>
    BY <1>2 DEF CaptureRecord
  <2>2. x \in Loggable
    BY MarkersLoggable DEF Abstract!Plain
  <2> HIDE DEF x
  <2>3. d = WithEvent(c, x, m)
    BY <1>0 DEF WithEvent, Captures
  <2> HIDE DEF d, c, m
  <2>4. LET g == WithEvent(c, x, m) IN
         /\ CaptureOK(g) /\ g.depth = m
         /\ CaptureView(g) = [items |-> Append(CaptureView(c).items, x), depth |-> m]
    BY ONLY <1>0, <2>2, AppendOne
  <2>5. CaptureOK(capture') /\ CaptureView(capture)' = [items |-> Append(V.items, x), depth |-> m]
    BY <2>1, <2>3, <2>4
  <2>6. LazyInv' /\ LogView(log)' = LogView(log)
    BY <2>1, <2>5, CaptureStep
  <2>7. [V EXCEPT !.items = Append(@, x)] = [items |-> Append(V.items, x), depth |-> m]
    <3>1. V = [items |-> ItemsOf(c), depth |-> c.depth]
      BY ViewIs
    <3> QED BY <3>1, SMTT(30) DEF m
  <2>8. Abstract!Capture(x)
    BY <1>c, <2>1, <2>5, <2>6, <2>7 DEF Abstract!Capture, c
  <2> QED BY <2>6, <2>8 DEF AbstractStep, Abstract!Next, Abstract!Editing, x
<1>3. ASSUME NEW ms \in Abstract!Runs, CaptureRun(ms) PROVE LazyInv' /\ AbstractStep
  <2> DEFINE x == Abstract!Run(ms)
             d == [c EXCEPT !.lazy = Append(@, [pos |-> Len(c.events), members |-> ms])]
  <2>1. mode = "edit" /\ HasRoom /\ capture' = d /\ UNCHANGED <<log, mode, before>>
    BY <1>3 DEF CaptureRun
  <2>2. ms \in Seq(Events)
    <3>1. PICK n \in 1..MaxRun : ms \in [1..n -> Events]
      BY DEF Abstract!Runs
    <3>2. n \in Nat
      BY LazyAssumption
    <3> QED BY <3>1, <3>2
  <2>3. x = [tag |-> "Run", members |-> ms]
    BY DEF Abstract!Run
  <2>4. /\ CaptureOK(d)
        /\ CaptureView(d) = [items |-> Append(CaptureView(c).items, [tag |-> "Run", members |-> ms]),
                              depth |-> c.depth]
    <3> HIDE DEF c
    <3> QED BY ONLY <1>0, <2>2, AppendARun
  <2> HIDE DEF d, c, m, x
  <2>5. CaptureOK(capture') /\ CaptureView(capture)' = [items |-> Append(V.items, x), depth |-> m]
    BY <2>1, <2>3, <2>4 DEF m
  <2>6. LazyInv' /\ LogView(log)' = LogView(log)
    BY <2>1, <2>5, CaptureStep
  <2>7. [V EXCEPT !.items = Append(@, x)] = [items |-> Append(V.items, x), depth |-> m]
    <3>1. V = [items |-> ItemsOf(c), depth |-> c.depth]
      BY ViewIs
    <3> QED BY <3>1, SMTT(30) DEF m
  <2>8. Abstract!Capture(x)
    BY <1>c, <2>1, <2>5, <2>6, <2>7 DEF Abstract!Capture, c
  <2> QED BY <2>6, <2>8 DEF AbstractStep, Abstract!Next, Abstract!Editing, x
<1>4. ASSUME CaptureBegin PROVE LazyInv' /\ AbstractStep
  <2> DEFINE x == CompoundStart
             q == m + 1
             d == [c EXCEPT !.events = Append(@, x), !.depth = @ + 1]
  <2>1. mode = "edit" /\ HasRoom /\ log.depth + c.depth < MaxDepth
        /\ capture' = d /\ UNCHANGED <<log, mode, before>>
    BY <1>4 DEF CaptureBegin
  <2>2. x \in Loggable /\ q \in Nat
    BY <1>0, MarkersLoggable
  <2> HIDE DEF x
  <2>3. d = WithEvent(c, x, q)
    BY <1>0 DEF WithEvent, Captures
  <2> HIDE DEF d, c, m, q
  <2>4. LET g == WithEvent(c, x, q) IN
         /\ CaptureOK(g) /\ g.depth = q
         /\ CaptureView(g) = [items |-> Append(CaptureView(c).items, x), depth |-> q]
    BY ONLY <1>0, <2>2, AppendOne
  <2>5. CaptureOK(capture') /\ CaptureView(capture)' = [items |-> Append(V.items, x), depth |-> q]
    BY <2>1, <2>3, <2>4
  <2>6. LazyInv' /\ LogView(log)' = LogView(log)
    BY <2>1, <2>5, CaptureStep
  <2>7. q = V.depth + 1 /\ LogView(log).depth + V.depth < MaxDepth
    BY <1>a, <1>b, <2>1 DEF a, q, m
  <2>8. Abstract!CaptureBegin
    BY <1>c, <2>1, <2>5, <2>6, <2>7, SameLogOps DEF Abstract!CaptureBegin, c, x
  <2> QED BY <2>6, <2>8 DEF AbstractStep, Abstract!Next, Abstract!Editing
<1>5. ASSUME CaptureEnd PROVE LazyInv' /\ AbstractStep
  <2> DEFINE x == CompoundEnd
             q == m - 1
             d == [c EXCEPT !.events = Append(@, x), !.depth = @ - 1]
  <2>1. mode = "edit" /\ c.depth > 0
        /\ capture' = d /\ UNCHANGED <<log, mode, before>>
    BY <1>5 DEF CaptureEnd
  <2>2. x \in Loggable /\ q \in Nat
    BY <1>0, <2>1, MarkersLoggable
  <2> HIDE DEF x
  <2>3. d = WithEvent(c, x, q)
    BY <1>0 DEF WithEvent, Captures
  <2> HIDE DEF d, c, m, q
  <2>4. LET g == WithEvent(c, x, q) IN
         /\ CaptureOK(g) /\ g.depth = q
         /\ CaptureView(g) = [items |-> Append(CaptureView(c).items, x), depth |-> q]
    BY ONLY <1>0, <2>2, AppendOne
  <2>5. CaptureOK(capture') /\ CaptureView(capture)' = [items |-> Append(V.items, x), depth |-> q]
    BY <2>1, <2>3, <2>4
  <2>6. LazyInv' /\ LogView(log)' = LogView(log)
    BY <2>1, <2>5, CaptureStep
  <2>7. q = V.depth - 1 /\ V.depth > 0
    BY <1>b, <2>1 DEF q, m
  <2>8. Abstract!CaptureEnd
    BY <2>1, <2>5, <2>6, <2>7, SameLogOps DEF Abstract!CaptureEnd, c, x
  <2> QED BY <2>6, <2>8 DEF AbstractStep, Abstract!Next, Abstract!Editing
<1>6. ASSUME NEW outcome \in {"publish", "discard"}, FinishEdit(outcome) PROVE LazyInv' /\ AbstractStep
  <2> DEFINE z == [i \in 1..m |-> CompoundEnd]
             d == [c EXCEPT !.events = @ \o z, !.depth = 0]
  <2>1. mode = "edit" /\ mode' = outcome /\ capture' = d /\ UNCHANGED <<log, before>>
    BY <1>6 DEF FinishEdit
  <2>2. z \in Seq(Loggable)
    <3>1. CompoundEnd \in Loggable
      BY MarkersLoggable
    <3> HIDE DEF m
    <3> QED BY <1>0, <3>1
  <2>3. d = WithEvents(c, z, 0)
    BY DEF WithEvents
  <2> HIDE DEF d, c, m, z
  <2>4. LET g == WithEvents(c, z, 0) IN
         /\ CaptureOK(g) /\ g.depth = 0
         /\ CaptureView(g) = [items |-> CaptureView(c).items \o z, depth |-> 0]
    BY ONLY <1>0, <2>2, 0 \in Nat, AppendStep
  <2>5. CaptureOK(capture') /\ CaptureView(capture)' = [items |-> V.items \o z, depth |-> 0]
        /\ capture'.depth = 0
    BY <2>1, <2>3, <2>4
  <2>6. LazyInv' /\ LogView(log)' = LogView(log)
    BY <2>1, <2>5, CaptureStep
  <2>7. z = [i \in 1..V.depth |-> Abstract!CompoundEnd]
    BY <1>b, SameLogOps DEF z
  <2>8. Abstract!FinishEdit(outcome)
    BY <2>1, <2>5, <2>6, <2>7 DEF Abstract!FinishEdit, c
  <2> QED BY <2>6, <2>8 DEF AbstractStep, Abstract!Next, Abstract!Editing
<1> QED BY <1>1, <1>2, <1>3, <1>4, <1>5, <1>6

\* The next run of a replay is at the position the replay has reached.
LEMMA RunDue ==
  ASSUME CaptureOK(capture)
  PROVE  /\ RunIsNext => /\ capture.k < Len(capture.lazy)
                         /\ capture.lazy[capture.k + 1].pos = capture.p
         /\ ~RunIsNext => \/ /\ capture.p < Len(capture.events)
                             /\ capture.k < Len(capture.lazy)
                                  => capture.lazy[capture.k + 1].pos > capture.p
                          \/ /\ capture.p = Len(capture.events)
                             /\ capture.k = Len(capture.lazy)
<1> DEFINE P == capture.p
           K == capture.k
           E == Len(capture.events)
           R == Len(capture.lazy)
           x == capture.lazy[K + 1].pos
<1>1. P \in Nat /\ K \in Nat /\ E \in Nat /\ R \in Nat /\ P <= E /\ K <= R
  BY CaptureTypes
<1>2. K < R => x \in Nat /\ P <= x /\ x <= E
  <2> HAVE K < R
  <2>1. K + 1 \in (K + 1)..R /\ K + 1 \in 1..R
    <3> HIDE DEF K, R
    <3> QED BY <1>1
  <2>2. K + 1 \in RunsLeft(capture)
    BY <2>1 DEF RunsLeft
  <2> QED BY <2>1, <2>2, CaptureTypes DEF CaptureOK
<1>3. RunIsNext <=> K < R /\ (x <= P \/ P = E)
  BY DEF RunIsNext
<1> HIDE DEF P, K, E, R, x
<1>4. /\ RunIsNext => K < R /\ x = P
      /\ ~RunIsNext => (P < E /\ (K < R => x > P)) \/ (P = E /\ K = R)
  BY <1>1, <1>2, <1>3
<1> QED BY <1>4 DEF P, K, E, R, x

LEMMA ReplayRunStep ==
  ASSUME LazyInv, ReplayRun
  PROVE  LazyInv' /\ AbstractStep
<1> DEFINE a == LogView(log)
           c == capture
           V == CaptureView(c)
           u == c.k + 1
           ms == c.lazy[u].members
           x == [tag |-> "Run", members |-> ms]
           g == c.k + 1
           d == [c EXCEPT !.k = g]
           b == ReplayEvents(a, MemberEvents(ms), Retain)
<1>0. Shows(log, a) /\ CaptureOK(c) /\ c \in Captures /\ Retain \in BOOLEAN /\ mode \in {"publish", "discard"}
      /\ c.depth = 0
  BY DEF LazyInv, CaptureOK, Retain, ReplayRun
<1>1. RunIsNext /\ log' = LReplayRun(log, ms, Retain) /\ capture' = d /\ UNCHANGED <<mode, before>>
  BY DEF ReplayRun
<1>2. c.k < Len(c.lazy) /\ c.lazy[u].pos = c.p
  BY <1>0, <1>1, RunDue
<1>3. g \in Nat /\ ms \in Seq(Events)
  <2> DEFINE K == c.k
             R == Len(c.lazy)
  <2>1. K \in Nat /\ R \in Nat
    BY <1>0, CaptureTypes
  <2>2. K + 1 \in Nat /\ K + 1 \in 1..R
    <3>1. K < R
      BY <1>2
    <3> HIDE DEF K, R
    <3> QED BY <2>1, <3>1
  <2> QED BY <1>0, <2>2, CaptureTypes
<1>4. Shows(log', b)
  <2> HIDE DEF a, ms
  <2> QED BY <1>0, <1>1, <1>3, ReplayRunShows
<1>5. Shows(log, LogView(log))' /\ LogView(log)' = b
  BY <1>4, ShowsNow
<1> HIDE DEF g
<1>6. d \in Captures /\ d.events = c.events /\ d.lazy = c.lazy /\ d.p = c.p /\ d.k = g /\ d.depth = c.depth
  BY <1>0, <1>3 DEF Captures
<1>7. d.k = c.k + 1
  BY <1>6 DEF g
<1> HIDE DEF d
<1>8. /\ CaptureOK(d) /\ ItemsOf(c) # <<>>
      /\ Head(ItemsOf(c)) = x /\ Tail(ItemsOf(c)) = ItemsOf(d)
  BY <1>0, <1>2, <1>6, <1>7, NextRun
<1>9. /\ V.items # <<>> /\ Head(V.items) = x
      /\ CaptureView(capture)' = [V EXCEPT !.items = Tail(@)]
  <2>1. V = [items |-> ItemsOf(c), depth |-> c.depth] /\ CaptureView(d) = [items |-> ItemsOf(d), depth |-> d.depth]
    BY ViewIs
  <2>2. capture' = d
    BY <1>1
  <2> HIDE DEF x
  <2> QED BY <1>6, <1>8, <2>1, <2>2
<1>10. Abstract!ReplayItem(a, x, Retain) = b
  <2>1. [i \in DOMAIN ms |-> Abstract!Plain(ms[i])] = MemberEvents(ms)
    BY DEF Abstract!Plain, MemberEvents
  <2> HIDE DEF ms, a
  <2>2. x.tag = "Run" /\ x.members = ms
    OBVIOUS
  <2> HIDE DEF x
  <2> QED BY <2>1, <2>2, SameLogOps DEF Abstract!ReplayItem
<1>11. Abstract!ReplayStep
  <2>1. Abstract!Retain = Retain
    BY DEF Abstract!Retain, Retain
  <2> QED BY <1>0, <1>1, <1>5, <1>9, <1>10, <2>1 DEF Abstract!ReplayStep
<1>12. LazyInv'
  BY <1>0, <1>1, <1>5, <1>6, <1>8 DEF LazyInv
<1> QED BY <1>11, <1>12 DEF AbstractStep, Abstract!Next

LEMMA ReplayEventStep ==
  ASSUME LazyInv, ReplayEvent
  PROVE  LazyInv' /\ AbstractStep
<1> DEFINE a == LogView(log)
           c == capture
           V == CaptureView(c)
           u == c.p + 1
           x == c.events[u]
           g == c.p + 1
           d == [c EXCEPT !.p = g]
           b == Abstract!ReplayItem(a, x, Retain)
<1>0. Shows(log, a) /\ CaptureOK(c) /\ c \in Captures /\ Retain \in BOOLEAN /\ mode \in {"publish", "discard"}
      /\ c.depth = 0
  BY DEF LazyInv, CaptureOK, Retain, ReplayEvent
<1>1. /\ ~RunIsNext /\ c.p < Len(c.events) /\ capture' = d /\ UNCHANGED <<mode, before>>
      /\ log' = CASE x = CompoundStart -> LReplayRecord(OpenCompound(log), x, Retain)
                  [] x = CompoundEnd -> IF log.depth = 0 THEN log
                                        ELSE CloseCompound(LReplayRecord(log, x, Retain))
                  [] OTHER -> LReplayRecord(log, x, Retain)
  BY DEF ReplayEvent
<1>2. g \in Nat /\ x \in Loggable
  <2> DEFINE P == c.p
             D == c.events
  <2>1. P \in Nat /\ D \in Seq(Loggable) /\ P < Len(D)
    BY <1>0, <1>1, CaptureTypes
  <2>2. P + 1 \in Nat /\ D[P + 1] \in Loggable
    <3> HIDE DEF P, D
    <3> QED BY <2>1
  <2> QED BY <2>2
<1>3. c.k < Len(c.lazy) => c.lazy[c.k + 1].pos > c.p
  <2>1. c.p \in Nat /\ Len(c.events) \in Nat
    BY <1>0, CaptureTypes
  <2>2. c.p # Len(c.events)
    BY <1>1, <2>1
  <2> QED BY <1>0, <1>1, <2>2, RunDue
<1>4. Shows(log', b)
  <2> HIDE DEF a, x
  <2>0. CompoundStart.tag = "CompoundStart" /\ CompoundEnd.tag = "CompoundEnd"
        /\ CompoundStart # CompoundEnd
    BY DEF CompoundStart, CompoundEnd
  <2>1. CASE x = CompoundStart
    <3>1. log' = LReplayRecord(OpenCompound(log), CompoundStart, Retain)
      BY <1>1, <2>0, <2>1
    <3>2. b = ReplayBeginCompound(a, Retain)
      BY <2>0, <2>1, SameLogOps DEF Abstract!ReplayItem
    <3> QED BY <1>0, <3>1, <3>2, ReplayBeginShows
  <2>2. CASE x = CompoundEnd
    <3>1. log' = IF log.depth = 0 THEN log
                 ELSE CloseCompound(LReplayRecord(log, CompoundEnd, Retain))
      BY <1>1, <2>0, <2>2
    <3>2. b = ReplayEndCompound(a, Retain)
      BY <2>0, <2>2, SameLogOps DEF Abstract!ReplayItem
    <3> QED BY <1>0, <3>1, <3>2, ReplayEndShows
  <2>3. CASE x # CompoundStart /\ x # CompoundEnd
    <3>1. x.tag = "Event"
      BY <1>2, <2>3 DEF Loggable, CompoundStart, CompoundEnd
    <3>2. log' = LReplayRecord(log, x, Retain)
      BY <1>1, <2>3
    <3>3. b = ReplayEvents(a, <<x>>, Retain)
      BY <3>1, SameLogOps DEF Abstract!ReplayItem
    <3> QED BY <1>0, <1>2, <3>2, <3>3, ReplayRecordShows
  <2> QED BY <2>1, <2>2, <2>3
<1>5. Shows(log, LogView(log))' /\ LogView(log)' = b
  BY <1>4, ShowsNow
<1> HIDE DEF g
<1>6. d \in Captures /\ d.events = c.events /\ d.lazy = c.lazy /\ d.p = g /\ d.k = c.k /\ d.depth = c.depth
  BY <1>0, <1>2 DEF Captures
<1>7. d.p = c.p + 1
  BY <1>6 DEF g
<1> HIDE DEF d
<1>8. /\ CaptureOK(d) /\ ItemsOf(c) # <<>>
      /\ Head(ItemsOf(c)) = x /\ Tail(ItemsOf(c)) = ItemsOf(d)
  BY <1>0, <1>1, <1>3, <1>6, <1>7, NextEvent
<1>9. /\ V.items # <<>> /\ Head(V.items) = x
      /\ CaptureView(capture)' = [V EXCEPT !.items = Tail(@)]
  <2>1. V = [items |-> ItemsOf(c), depth |-> c.depth] /\ CaptureView(d) = [items |-> ItemsOf(d), depth |-> d.depth]
    BY ViewIs
  <2> QED BY <1>1, <1>6, <1>8, <2>1
<1>10. Abstract!ReplayStep
  <2>1. Abstract!Retain = Retain
    BY DEF Abstract!Retain, Retain
  <2> HIDE DEF x
  <2> QED BY <1>0, <1>1, <1>5, <1>9, <2>1 DEF Abstract!ReplayStep
<1>11. LazyInv'
  BY <1>0, <1>1, <1>5, <1>6, <1>8 DEF LazyInv
<1> QED BY <1>10, <1>11 DEF AbstractStep, Abstract!Next

LEMMA ReplayDoneStep ==
  ASSUME LazyInv, ReplayDone
  PROVE  LazyInv' /\ AbstractStep
<1> DEFINE a == LogView(log)
           c == capture
           b == IF Retain THEN EnforceCap(a) ELSE a
<1>0. Shows(log, a) /\ CaptureOK(c) /\ Retain \in BOOLEAN /\ mode \in {"publish", "discard"}
      /\ c.depth = 0
  BY DEF LazyInv, CaptureOK, Retain, ReplayDone
<1>1. /\ ~RunIsNext /\ c.p = Len(c.events) /\ capture' = NoCapture /\ mode' = "idle"
      /\ before' = EmptyLog /\ log' = IF Retain THEN LEnforceCap(log) ELSE log
  BY DEF ReplayDone
<1>2. Shows(log', b)
  <2>1. Shows(LEnforceCap(log), EnforceCap(a))
    BY <1>0, EnforceCapShows
  <2> QED BY <1>0, <1>1, <2>1
<1>3. Shows(log, LogView(log))' /\ LogView(log)' = b
  BY <1>2, ShowsNow
<1>4. c.k = Len(c.lazy)
  <2>1. c.p \in Nat
    BY <1>0, CaptureTypes
  <2>2. ~(c.p < Len(c.events))
    BY <1>1, <2>1
  <2> QED BY <1>0, <1>1, <2>2, RunDue
<1>5. ItemsOf(c) = <<>>
  BY <1>0, <1>1, <1>4, NothingLeft
<1>6. CaptureView(c) = [items |-> <<>>, depth |-> 0]
  BY <1>0, <1>5, ViewIs
<1>7. CaptureView(capture)' = CaptureView(capture) /\ CaptureView(c).items = <<>>
  BY <1>1, <1>6, NoCaptureOK DEF Abstract!NoCapture
<1>8. Abstract!ReplayDone
  <2>1. Abstract!Retain = Retain
    BY DEF Abstract!Retain, Retain
  <2> QED BY <1>0, <1>1, <1>3, <1>7, <2>1, SameLogOps DEF Abstract!ReplayDone
<1>9. LazyInv'
  BY <1>1, <1>3, NoCaptureOK DEF LazyInv
<1> QED BY <1>8, <1>9 DEF AbstractStep, Abstract!Next

LEMMA LazyInitially ==
  ASSUME LazyInit
  PROVE  LazyInv /\ Abstract!Init
<1>1. Shows(log, EmptyLog)
  BY EmptyLogShows DEF LazyInit
<1>2. LogView(log) = EmptyLog
  BY <1>1, ShowsView
<1>3. CaptureOK(capture) /\ CaptureView(capture) = Abstract!NoCapture
  BY NoCaptureOK DEF LazyInit
<1> QED BY <1>1, <1>2, <1>3, SameLogOps DEF LazyInit, LazyInv, Abstract!Init

LEMMA LazyStep ==
  ASSUME LazyInv, [LazyNext]_lazyVars
  PROVE  LazyInv' /\ AbstractStep
<1>1. CASE LazyNext
  <2>1. ASSUME \/ \E e \in Events : Record(e)
               \/ Begin
               \/ End
               \/ \E max \in Caps : SetMaxChangelogEvents(max)
               \/ \E on \in BOOLEAN : SetEnabled(on)
               \/ \E len \in 0..log.retained.len : Truncate(len)
               \/ Clear
               \/ Read
        PROVE  LazyInv' /\ AbstractStep
    BY <2>1, DirectSteps
  <2>2. ASSUME \/ StartEdit
               \/ \E e \in Events : CaptureRecord(e)
               \/ \E members \in Abstract!Runs : CaptureRun(members)
               \/ CaptureBegin
               \/ CaptureEnd
               \/ \E outcome \in {"publish", "discard"} : FinishEdit(outcome)
        PROVE  LazyInv' /\ AbstractStep
    BY <2>2, EditSteps
  <2> QED BY <1>1, <2>1, <2>2, ReplayRunStep, ReplayEventStep, ReplayDoneStep DEF LazyNext
<1>2. CASE UNCHANGED lazyVars
  <2>1. log' = log /\ mode' = mode /\ capture' = capture /\ before' = before
    BY <1>2 DEF lazyVars
  <2>2. LazyInv'
    BY <2>1 DEF LazyInv
  <2>3. UNCHANGED Abstract!vars
    BY <2>1 DEF Abstract!vars
  <2> QED BY <2>2, <2>3 DEF AbstractStep
<1> QED BY <1>1, <1>2

LEMMA LazyInvWellFormed == LazyInv => LazyWellFormed
<1> SUFFICES ASSUME LazyInv PROVE LazyWellFormed
  OBVIOUS
<1> DEFINE C == log.retained
           W == LogView(log).retained
<1>1. CellOK(C, W, log.seq)
  BY DEF LazyInv, Shows
<1>2. WrittenOut(C) = W
  <2> HIDE DEF C, W
  <2> QED BY <1>1, WrittenOutIs
<1>3. LenExact
  BY <1>1, <1>2 DEF LenExact, CellOK
<1>4. LazyShape
  <2>1. CellShape(C) /\ C \in RetainedCells
    BY <1>1 DEF CellOK, CellShape
  <2>2. DOMAIN C.lazy = 1..Len(C.lazy)
    BY <2>1, CellTypes
  <2> QED BY <2>1, <2>2 DEF LazyShape, CellShape
<1> QED BY <1>3, <1>4 DEF LazyWellFormed

\* The lazy cell is well formed and counts right in every reachable state,
\* whatever the bounds: `expanded` is initialized exactly when no record is
\* pending (what RetainedCell's unsafe code relies on), the records are in log
\* order inside the plain entries, and len is the number of events the cell
\* stands for.
THEOREM LazyCellWellFormed == LazySpec => []LazyWellFormed
<1>1. LazyInit => LazyInv
  BY LazyInitially
<1>2. LazyInv /\ [LazyNext]_lazyVars => LazyInv'
  BY LazyStep
<1> QED BY <1>1, <1>2, LazyInvWellFormed, PTL DEF LazySpec

\* The log kept with run records implements the log with every run written
\* out: a read, an eviction, a truncation or a replay never shows that a run
\* was one record.
THEOREM LazyLogImplements == LazySpec => ImplementsChangeLog
<1>1. LazyInit => LazyInv /\ Abstract!Init
  BY LazyInitially
<1>2. LazyInv /\ [LazyNext]_lazyVars => LazyInv' /\ [Abstract!Next]_(Abstract!vars)
  BY LazyStep DEF AbstractStep
<1> QED BY <1>1, <1>2, PTL DEF LazySpec, ImplementsChangeLog, Abstract!Spec

-----------------------------------------------------------------------------
(* TransactionContext: rolling back along the log *)

\* No client scopes the name to the default sheet.
NoDefaultSheetNames == DefaultSheet \notin Scopes

\* The graph after the first i changes of r, when `end` follows the last.
After(r, i, end) == IF i < Len(r) THEN r[i + 1].ev.was ELSE end

\* r is a path back from `end`.
ChainOK(r, end) ==
  \A i \in 1..Len(r) :
    /\ Invertible(After(r, i, end), r[i].ev)
    /\ ApplyInverse(After(r, i, end), r[i].ev) = r[i].ev.was

\* The graph at the end of the log: while a rollback runs, its goal.
EndGraph == IF phase = "rollback" THEN goal ELSE graph

SavepointsOK(sps, start, r, end) ==
  /\ \A k \in DOMAIN sps : /\ sps[k].index \in start..Len(r)
                           /\ sps[k].was = After(r, sps[k].index, end)
  /\ \A j, k \in DOMAIN sps : j < k => sps[j].index <= sps[k].index

TxOK(t, r, end) ==
  t # None => /\ t.start <= Len(r)
              /\ t.was = After(r, t.start, end)
              /\ SavepointsOK(t.savepoints, t.start, r, end)

UndoOK ==
  /\ phase = "idle" => undo = <<>> /\ change_log.enabled
  /\ phase = "rollback" => ChainOK(undo, graph) /\ goal = After(undo, 0, graph)

\* The inductive invariant.
IInv ==
  /\ TypeOK
  /\ ChainOK(change_log.retained, EndGraph)
  /\ TxOK(tx, change_log.retained, EndGraph)
  /\ UndoOK

-----------------------------------------------------------------------------
(* Sequences of changes *)

\* Least picks a least element of a nonempty set of indexes.
LEMMA LeastProperties ==
  ASSUME NEW S, S \subseteq Nat, S # {}
  PROVE  Least(S) \in S /\ \A j \in S : Least(S) <= j
<1> DEFINE R == OpToRel(<, Nat)
<1>1. IsWellFoundedOn(R, Nat)
  BY NatLessThanWellFounded
<1>2. \A x, y \in Nat : y < x => <<y, x>> \in R
  BY DEF OpToRel
<1> HIDE DEF R
<1>3. PICK x \in S : \A y \in S : ~(<<y, x>> \in R)
  BY <1>1, WFMin
<1>4. \A y \in S : x <= y
  <2> TAKE y \in S
  <2>1. x \in Nat /\ y \in Nat
    OBVIOUS
  <2>2. ~(y < x)
    BY <1>2, <1>3, <2>1, Zenon
  <2> QED BY <2>1, <2>2
<1> QED BY <1>4 DEF Least

\* An entry of a log is an entry of its type.
LEMMA EntryAt ==
  ASSUME NEW r \in Seq(Entries)
  PROVE  /\ Len(r) \in Nat /\ DOMAIN r = 1..Len(r)
         /\ \A i \in 1..Len(r) : r[i] \in Entries /\ r[i].ev \in Changes
                                 /\ r[i].ev.was \in Graphs
<1>1. Len(r) \in Nat /\ DOMAIN r = 1..Len(r) /\ \A i \in 1..Len(r) : r[i] \in Entries
  BY LenProperties, ElementOfSeq
<1> QED BY <1>1 DEF Entries, Changes

\* One more change.
LEMMA ChainExtend ==
  ASSUME NEW r \in Seq(Entries), NEW s \in Seq(Entries), NEW end,
         Len(s) = Len(r) + 1, \A i \in 1..Len(r) : s[i] = r[i],
         ChainOK(r, s[Len(r) + 1].ev.was),
         Invertible(end, s[Len(r) + 1].ev),
         ApplyInverse(end, s[Len(r) + 1].ev) = s[Len(r) + 1].ev.was
  PROVE  /\ ChainOK(s, end)
         /\ \A i \in 0..Len(r) : After(s, i, end) = After(r, i, s[Len(r) + 1].ev.was)
<1>1. Len(r) \in Nat
  BY LenProperties
<1>2. \A i \in 0..Len(r) : After(s, i, end) = After(r, i, s[Len(r) + 1].ev.was)
  <2> TAKE i \in 0..Len(r)
  <2>1. CASE i < Len(r)
    <3>1. i + 1 \in 1..Len(r) /\ i < Len(s)
      BY <1>1, <2>1
    <3> QED BY <2>1, <3>1 DEF After
  <2>2. CASE i = Len(r)
    BY <1>1, <2>2 DEF After
  <2> QED BY <1>1, <2>1, <2>2
<1>3. After(s, Len(r) + 1, end) = end
  BY <1>1 DEF After
<1>4. ChainOK(s, end)
  <2> SUFFICES ASSUME NEW i \in 1..Len(s)
               PROVE  /\ Invertible(After(s, i, end), s[i].ev)
                      /\ ApplyInverse(After(s, i, end), s[i].ev) = s[i].ev.was
    BY DEF ChainOK
  <2>1. CASE i = Len(r) + 1
    BY <2>1, <1>3
  <2>2. CASE i \in 1..Len(r)
    <3>1. s[i] = r[i] /\ After(s, i, end) = After(r, i, s[Len(r) + 1].ev.was)
      BY <1>1, <1>2, <2>2
    <3> QED BY <2>2, <3>1 DEF ChainOK
  <2> QED BY <1>1, <2>1, <2>2
<1> QED BY <1>2, <1>4

\* The changes from n on are a path back from the same graph, to the graph
\* before change n + 1.
LEMMA ChainSuffix ==
  ASSUME NEW r \in Seq(Entries), NEW end, NEW n \in 0..Len(r), ChainOK(r, end)
  PROVE  /\ SubSeq(r, n + 1, Len(r)) \in Seq(Entries)
         /\ ChainOK(SubSeq(r, n + 1, Len(r)), end)
         /\ After(SubSeq(r, n + 1, Len(r)), 0, end) = After(r, n, end)
<1> DEFINE s == SubSeq(r, n + 1, Len(r))
<1>1. Len(r) \in Nat /\ \A i \in (n + 1)..Len(r) : r[i] \in Entries
  BY EntryAt
<1>2. /\ s \in Seq(Entries) /\ Len(s) = Len(r) - n
      /\ \A i \in 1..(Len(r) - n) : s[i] = r[n + i]
  <2>1. n + 1 \in Int /\ Len(r) \in Int
    BY <1>1
  <2>2. /\ s \in Seq(Entries)
        /\ Len(s) = IF n + 1 <= Len(r) THEN Len(r) - (n + 1) + 1 ELSE 0
        /\ \A i \in 1..(Len(r) - (n + 1) + 1) : s[i] = r[(n + 1) + i - 1]
    BY <1>1, <2>1, SubSeqProperties
  <2> QED BY <1>1, <2>2
<1> HIDE DEF s
<1>3. \A i \in 0..Len(s) : After(s, i, end) = After(r, n + i, end)
  <2> TAKE i \in 0..Len(s)
  <2>1. CASE i < Len(s)
    <3>1. i + 1 \in 1..(Len(r) - n) /\ n + i < Len(r) /\ n + (i + 1) = (n + i) + 1
      BY <1>1, <1>2, <2>1
    <3>2. s[i + 1] = r[(n + i) + 1]
      BY <1>2, <3>1
    <3> QED BY <2>1, <3>1, <3>2 DEF After
  <2>2. CASE i = Len(s)
    BY <1>1, <1>2, <2>2 DEF After
  <2>3. i < Len(s) \/ i = Len(s)
    BY <1>1, <1>2
  <2> QED BY <2>1, <2>2, <2>3
<1>4. ChainOK(s, end)
  <2> SUFFICES ASSUME NEW i \in 1..Len(s)
               PROVE  /\ Invertible(After(s, i, end), s[i].ev)
                      /\ ApplyInverse(After(s, i, end), s[i].ev) = s[i].ev.was
    BY DEF ChainOK
  <2>1. n + i \in 1..Len(r) /\ s[i] = r[n + i] /\ i \in 0..Len(s)
    BY <1>1, <1>2
  <2>2. After(s, i, end) = After(r, n + i, end)
    BY <1>3, <2>1
  <2> QED BY <2>1, <2>2 DEF ChainOK
<1>5. After(s, 0, end) = After(r, n, end)
  BY <1>1, <1>2, <1>3
<1> QED BY <1>2, <1>4, <1>5 DEF s

\* The first n changes are a path back from the graph before change n + 1.
LEMMA ChainPrefix ==
  ASSUME NEW r \in Seq(Entries), NEW end, NEW n \in 0..Len(r), ChainOK(r, end)
  PROVE  /\ SubSeq(r, 1, n) \in Seq(Entries) /\ Len(SubSeq(r, 1, n)) = n
         /\ ChainOK(SubSeq(r, 1, n), After(r, n, end))
         /\ \A i \in 0..n : After(SubSeq(r, 1, n), i, After(r, n, end)) = After(r, i, end)
<1> DEFINE s == SubSeq(r, 1, n)
           e == After(r, n, end)
<1>1. Len(r) \in Nat /\ n \in Nat /\ \A i \in 1..n : r[i] \in Entries
  BY EntryAt
<1>2. s \in Seq(Entries) /\ Len(s) = n /\ \A i \in 1..n : s[i] = r[i]
  <2>1. 1 \in Int /\ n \in Int
    BY <1>1
  <2>2. /\ s \in Seq(Entries)
        /\ Len(s) = IF 1 <= n THEN n - 1 + 1 ELSE 0
        /\ \A i \in 1..(n - 1 + 1) : s[i] = r[1 + i - 1]
    BY <1>1, <2>1, SubSeqProperties
  <2> QED BY <1>1, <2>2
<1> HIDE DEF s
<1>3. \A i \in 0..n : After(s, i, e) = After(r, i, end)
  <2> TAKE i \in 0..n
  <2>1. CASE i < n
    <3>1. i + 1 \in 1..n /\ i < Len(r)
      BY <1>1, <2>1
    <3> QED BY <1>2, <2>1, <3>1 DEF After
  <2>2. CASE i = n
    BY <1>1, <1>2, <2>2 DEF After
  <2> QED BY <1>1, <2>1, <2>2
<1> HIDE DEF e
<1>4. ChainOK(s, e)
  <2> SUFFICES ASSUME NEW i \in 1..Len(s)
               PROVE  /\ Invertible(After(s, i, e), s[i].ev)
                      /\ ApplyInverse(After(s, i, e), s[i].ev) = s[i].ev.was
    BY DEF ChainOK
  <2>1. i \in 1..Len(r) /\ s[i] = r[i] /\ i \in 0..n
    BY <1>1, <1>2
  <2> QED BY <1>3, <2>1 DEF ChainOK
<1> QED BY <1>2, <1>3, <1>4 DEF s, e

-----------------------------------------------------------------------------
(* The log *)

LogType == [enabled : BOOLEAN, max : {NoCap}, depth : {0}, seq : Nat,
            stack : {<<>>}, gid : Nat, retained : Seq(Entries)]

\* Recording appends one entry.
LEMMA RecordAppends ==
  ASSUME NEW l \in LogType, l.enabled, NEW ch \in Changes
  PROVE  /\ RecordEvent(l, ch) \in LogType
         /\ RecordEvent(l, ch).enabled
         /\ Len(RecordEvent(l, ch).retained) = Len(l.retained) + 1
         /\ \A i \in 1..Len(l.retained) : RecordEvent(l, ch).retained[i] = l.retained[i]
         /\ RecordEvent(l, ch).retained[Len(l.retained) + 1].ev = ch
<1> DEFINE r == l.retained
           e == [ev |-> ch, seq |-> l.seq, group |-> NoGroup]
           t == Stamp(l, <<ch>>)
<1>1. r \in Seq(Entries) /\ l.seq \in Nat /\ l.stack = <<>> /\ l.max = NoCap
  BY DEF LogType
<1>2. CurrentGroup(l) = NoGroup /\ NoGroup \in Nat
  BY <1>1 DEF CurrentGroup, NoGroup
<1>3. e \in Entries
  BY <1>1, <1>2 DEF Entries
<1>4. t \in [1..1 -> Entries] /\ t[1].ev = ch
  BY <1>1, <1>2, <1>3 DEF Stamp
<1>5. t \in Seq(Entries) /\ Len(t) = 1
  BY <1>4
<1>6. RecordEvent(l, ch) = [l EXCEPT !.seq = l.seq + 1, !.retained = r \o t]
  <2>1. ReplayEvents(l, <<ch>>, TRUE) = [l EXCEPT !.seq = l.seq + 1, !.retained = r \o t]
    BY DEF ReplayEvents
  <2>2. EnforceCap([l EXCEPT !.seq = l.seq + 1, !.retained = r \o t])
          = [l EXCEPT !.seq = l.seq + 1, !.retained = r \o t]
    BY <1>1 DEF EnforceCap, LogType
  <2> QED BY <2>1, <2>2 DEF RecordEvent
<1> HIDE DEF t, r, e
<1>7. /\ r \o t \in Seq(Entries) /\ Len(r \o t) = Len(r) + Len(t)
      /\ \A i \in 1..(Len(r) + Len(t)) :
           (r \o t)[i] = IF i <= Len(r) THEN r[i] ELSE t[i - Len(r)]
  <2>1. r \in Seq(Entries) /\ t \in Seq(Entries)
    BY <1>1, <1>5
  <2> QED BY <2>1, ConcatProperties, Zenon
<1>8. Len(r) \in Nat
  BY <1>1, LenProperties DEF r
<1>9. /\ Len(r \o t) = Len(r) + 1
      /\ \A i \in 1..Len(r) : (r \o t)[i] = r[i]
      /\ (r \o t)[Len(r) + 1] = t[1]
  BY <1>5, <1>7, <1>8
<1>10. /\ RecordEvent(l, ch) \in LogType /\ RecordEvent(l, ch).enabled
       /\ RecordEvent(l, ch).retained = r \o t
  <2>1. l.seq + 1 \in Nat /\ r \o t \in Seq(Entries)
    BY <1>1, <1>7
  <2> DEFINE q == r \o t
  <2> HIDE DEF q
  <2>2. RecordEvent(l, ch) = [l EXCEPT !.seq = l.seq + 1, !.retained = q]
    BY <1>6 DEF q
  <2>3. q \in Seq(Entries)
    BY <2>1 DEF q
  <2>4. RecordEvent(l, ch) \in LogType /\ RecordEvent(l, ch).enabled
        /\ RecordEvent(l, ch).retained = q
    BY <2>1, <2>2, <2>3 DEF LogType
  <2> QED BY <2>4 DEF q
<1> QED BY <1>4, <1>9, <1>10 DEF r

\* An edit whose logged change can be inverted keeps the invariant.
LEMMA EditIInv ==
  ASSUME IInv, NEW g \in Graphs, NEW ch \in Changes, ch.was = graph,
         Invertible(g, ch), ApplyInverse(g, ch) = graph, Edit(g, ch)
  PROVE  IInv'
<1> DEFINE r == change_log.retained
           s == change_log'.retained
<1>1. /\ phase = "idle" /\ phase' = "idle" /\ graph' = g /\ change_log' = RecordEvent(change_log, ch)
      /\ tx' = tx /\ undo' = undo /\ goal' = goal
  BY DEF Edit
<1>2. /\ TypeOK /\ change_log \in LogType /\ change_log.enabled /\ undo = <<>>
      /\ r \in Seq(Entries) /\ ChainOK(r, graph) /\ TxOK(tx, r, graph)
  BY <1>1 DEF IInv, TypeOK, UndoOK, EndGraph, LogType
<1>3. /\ change_log' \in LogType /\ change_log'.enabled /\ s \in Seq(Entries)
      /\ Len(s) = Len(r) + 1 /\ \A i \in 1..Len(r) : s[i] = r[i]
      /\ s[Len(r) + 1].ev = ch
  BY <1>1, <1>2, RecordAppends, SMTT(30) DEF LogType
<1>4. Len(r) \in Nat
  BY <1>2, LenProperties
<1> HIDE DEF r, s
<1>5. /\ ChainOK(s, g)
      /\ \A i \in 0..Len(r) : After(s, i, g) = After(r, i, graph)
  <2>1. ChainOK(r, s[Len(r) + 1].ev.was) /\ s[Len(r) + 1].ev.was = graph
    BY <1>2, <1>3
  <2>2. /\ Invertible(g, s[Len(r) + 1].ev)
        /\ ApplyInverse(g, s[Len(r) + 1].ev) = s[Len(r) + 1].ev.was
    BY <1>3, <2>1
  <2>3. /\ ChainOK(s, g)
        /\ \A i \in 0..Len(r) : After(s, i, g) = After(r, i, s[Len(r) + 1].ev.was)
    BY <1>2, <1>3, <2>1, <2>2, ChainExtend
  <2> QED BY <2>1, <2>3
<1>6. TypeOK'
  BY <1>1, <1>2, <1>3 DEF TypeOK, LogType
<1>7. TxOK(tx, s, g)
  <2> SUFFICES ASSUME tx # None PROVE TxOK(tx, s, g)
    BY DEF TxOK
  <2>1. /\ tx.start \in Nat /\ tx.start <= Len(r) /\ tx.was = After(r, tx.start, graph)
        /\ SavepointsOK(tx.savepoints, tx.start, r, graph)
    BY <1>2 DEF TypeOK, TxOK, Transactions
  <2>2. tx.start <= Len(s) /\ tx.was = After(s, tx.start, g)
    BY <1>3, <1>4, <1>5, <2>1
  <2>3. \A k \in DOMAIN tx.savepoints :
          /\ tx.savepoints[k].index \in tx.start..Len(s)
          /\ tx.savepoints[k].was = After(s, tx.savepoints[k].index, g)
    <3> TAKE k \in DOMAIN tx.savepoints
    <3>1. /\ tx.savepoints[k].index \in tx.start..Len(r)
          /\ tx.savepoints[k].was = After(r, tx.savepoints[k].index, graph)
      BY <2>1 DEF SavepointsOK
    <3>2. tx.savepoints[k].index \in 0..Len(r) /\ tx.savepoints[k].index \in tx.start..Len(s)
      BY <1>3, <1>4, <2>1, <3>1
    <3> QED BY <1>5, <3>1, <3>2
  <2> QED BY <2>1, <2>2, <2>3 DEF TxOK, SavepointsOK
<1>8. UndoOK'
  BY <1>1, <1>2, <1>3 DEF UndoOK
<1>9. EndGraph' = g
  BY <1>1 DEF EndGraph
<1> QED BY <1>1, <1>5, <1>6, <1>7, <1>8, <1>9 DEF IInv, s

\* Setting a cell logs the formula it had.
LEMMA SetCellIInv ==
  ASSUME IInv, NEW c \in Cells, NEW f \in Formulas \cup {None}, SetCell(c, f)
  PROVE  IInv'
<1> DEFINE g == [graph EXCEPT !.formula[c] = f]
           ch == Change("SetCell", c, graph.formula[c])
<1>1. graph \in Graphs
  BY DEF IInv, TypeOK
<1>2. g \in Graphs /\ ch \in Changes /\ ch.was = graph
  BY <1>1 DEF Graphs, Changes, Change
<1>3. Invertible(g, ch)
  BY DEF Invertible, Change
<1>4. ApplyInverse(g, ch) = graph
  BY <1>1 DEF ApplyInverse, Change, Graphs
<1>5. Edit(g, ch)
  BY DEF SetCell
<1> HIDE DEF g, ch
<1> QED BY <1>2, <1>3, <1>4, <1>5, EditIInv

\* Without names on the default sheet the editor logs the definition that
\* it overwrites.
LEMMA OldDefinitionRight ==
  ASSUME NoDefaultSheetNames, NEW s \in Scopes, graph.name[s] # None
  PROVE  OldDefinition(s) = graph.name[s]
  BY DEF OldDefinition, ResolveName, NoDefaultSheetNames

\* Defining, updating and deleting a name log the definition it had.
LEMMA NameIInv ==
  ASSUME NoDefaultSheetNames, IInv, NEW s \in Scopes,
         \/ DeleteName(s)
         \/ \E d \in Definitions : DefineName(s, d) \/ UpdateName(s, d)
  PROVE  IInv'
<1>1. graph \in Graphs /\ graph.name[s] \in Definitions \cup {None}
  BY DEF IInv, TypeOK, Graphs
<1>2. CASE DeleteName(s)
  <2> DEFINE g == [graph EXCEPT !.name[s] = None]
             ch == Change("DeleteName", s, OldDefinition(s))
  <2>1. graph.name[s] # None /\ Edit(g, ch)
    BY <1>2 DEF DeleteName
  <2>2. ch = Change("DeleteName", s, graph.name[s])
    BY <2>1, OldDefinitionRight
  <2>3. g \in Graphs /\ ch \in Changes /\ ch.was = graph
    BY <1>1, <2>2 DEF Graphs, Changes, Change
  <2>4. Invertible(g, ch)
    BY <1>1, <2>1, <2>2 DEF Invertible, Change, Graphs
  <2>5. ApplyInverse(g, ch) = graph
    BY <1>1, <2>2 DEF ApplyInverse, Change, Graphs
  <2> HIDE DEF g, ch
  <2> QED BY <2>1, <2>3, <2>4, <2>5, EditIInv
<1>3. ASSUME NEW d \in Definitions, DefineName(s, d) PROVE IInv'
  <2> DEFINE g == [graph EXCEPT !.name[s] = d]
             ch == Change("DefineName", s, None)
  <2>1. graph.name[s] = None /\ Edit(g, ch)
    BY <1>3 DEF DefineName
  <2>3. g \in Graphs /\ ch \in Changes /\ ch.was = graph
    BY <1>1 DEF Graphs, Changes, Change
  <2>4. Invertible(g, ch)
    BY <1>1, NoneAssumption DEF Invertible, Change, Graphs
  <2>5. ApplyInverse(g, ch) = graph
    BY <1>1, <2>1 DEF ApplyInverse, Change, Graphs
  <2> HIDE DEF g, ch
  <2> QED BY <2>1, <2>3, <2>4, <2>5, EditIInv
<1>4. ASSUME NEW d \in Definitions, UpdateName(s, d) PROVE IInv'
  <2> DEFINE g == [graph EXCEPT !.name[s] = d]
             ch == Change("UpdateName", s, OldDefinition(s))
  <2>1. graph.name[s] # None /\ Edit(g, ch)
    BY <1>4 DEF UpdateName
  <2>2. ch = Change("UpdateName", s, graph.name[s])
    BY <2>1, OldDefinitionRight
  <2>3. g \in Graphs /\ ch \in Changes /\ ch.was = graph
    BY <1>1, <2>2 DEF Graphs, Changes, Change
  <2>4. Invertible(g, ch)
    BY <1>1, <2>2, NoneAssumption DEF Invertible, Change, Graphs
  <2>5. ApplyInverse(g, ch) = graph
    BY <1>1, <2>2 DEF ApplyInverse, Change, Graphs
  <2> HIDE DEF g, ch
  <2> QED BY <2>1, <2>3, <2>4, <2>5, EditIInv
<1> QED BY <1>2, <1>3, <1>4

-----------------------------------------------------------------------------
(* Transactions *)

\* The facts every idle step starts from.
LEMMA IdleFacts ==
  ASSUME IInv, phase = "idle"
  PROVE  /\ change_log \in LogType /\ change_log.enabled /\ undo = <<>> /\ graph \in Graphs
         /\ change_log.retained \in Seq(Entries) /\ Len(change_log.retained) \in Nat
         /\ ChainOK(change_log.retained, graph) /\ TxOK(tx, change_log.retained, graph)
<1>1. /\ change_log \in LogType /\ change_log.enabled /\ undo = <<>> /\ graph \in Graphs
      /\ change_log.retained \in Seq(Entries)
      /\ ChainOK(change_log.retained, graph) /\ TxOK(tx, change_log.retained, graph)
  BY DEF IInv, TypeOK, UndoOK, EndGraph, LogType
<1> QED BY <1>1, LenProperties

\* A transaction begins at the end of the log.
LEMMA BeginIInv ==
  ASSUME IInv, BeginTransaction
  PROVE  IInv'
<1> DEFINE r == change_log.retained
           t == [start |-> Len(r), savepoints |-> <<>>, was |-> graph]
<1>1. /\ phase = "idle" /\ phase' = phase /\ tx' = t /\ graph' = graph /\ change_log' = change_log
      /\ undo' = undo /\ goal' = goal
  BY DEF BeginTransaction
<1>2. graph \in Graphs /\ Len(r) \in Nat
  BY <1>1, IdleFacts
<1>3. t \in Transactions
  BY <1>2 DEF Transactions
<1>4. TxOK(t, r, graph)
  BY <1>2 DEF TxOK, SavepointsOK, After
<1> HIDE DEF t
<1>5. TypeOK'
  BY <1>1, <1>3 DEF IInv, TypeOK
<1>6. EndGraph' = graph /\ EndGraph = graph
  BY <1>1 DEF EndGraph
<1> QED BY <1>1, <1>4, <1>5, <1>6 DEF IInv, UndoOK

\* A commit only forgets the transaction.
LEMMA CommitIInv ==
  ASSUME IInv, Commit
  PROVE  IInv'
<1>1. /\ phase = "idle" /\ phase' = phase /\ tx' = None /\ graph' = graph /\ change_log' = change_log
      /\ undo' = undo /\ goal' = goal
  BY DEF Commit
<1>2. TypeOK'
  BY <1>1 DEF IInv, TypeOK
<1>3. EndGraph' = EndGraph
  BY <1>1 DEF EndGraph
<1> QED BY <1>1, <1>2, <1>3 DEF IInv, UndoOK, TxOK

SavepointType == [name : Savepoints, index : Nat, was : Graphs]

\* A savepoint set now is at the end of the log, after all the others.
LEMMA SavepointIInv ==
  ASSUME IInv, NEW name \in Savepoints, Savepoint(name)
  PROVE  IInv'
<1> DEFINE r == change_log.retained
           sp == [name |-> name, index |-> Len(r), was |-> graph]
           old == tx.savepoints
           new == Append(old, sp)
<1>1. /\ phase = "idle" /\ phase' = phase /\ graph' = graph /\ change_log' = change_log
      /\ undo' = undo /\ goal' = goal
      /\ tx # None /\ tx' = [tx EXCEPT !.savepoints = new]
  BY DEF Savepoint
<1>2. graph \in Graphs /\ Len(r) \in Nat /\ TxOK(tx, r, graph)
  BY <1>1, IdleFacts
<1>3. tx \in Transactions /\ tx.start \in Nat /\ old \in Seq(SavepointType)
  BY <1>1 DEF IInv, TypeOK, Transactions, SavepointType
<1>4. sp \in SavepointType /\ sp.index = Len(r) /\ sp.was = graph
  BY <1>2 DEF SavepointType
<1>5. tx.start <= Len(r) /\ tx.was = After(r, tx.start, graph)
      /\ SavepointsOK(old, tx.start, r, graph)
  BY <1>1, <1>2 DEF TxOK
<1> HIDE DEF sp, old
<1>6. /\ new \in Seq(SavepointType) /\ Len(new) = Len(old) + 1
      /\ \A i \in 1..Len(old) : new[i] = old[i]
      /\ new[Len(old) + 1] = sp
  BY <1>3, <1>4, AppendProperties
<1>7. Len(old) \in Nat /\ DOMAIN old = 1..Len(old)
  BY <1>3, LenProperties
<1>8. DOMAIN new = 1..(Len(old) + 1)
  BY <1>6, LenProperties
<1> HIDE DEF new, r
<1>9. After(r, Len(r), graph) = graph
  BY <1>2 DEF After
<1>10. \A k \in DOMAIN old : old[k].index \in tx.start..Len(r)
                             /\ old[k].was = After(r, old[k].index, graph)
  BY <1>5 DEF SavepointsOK
<1>11. \A k \in DOMAIN new : new[k].index \in tx.start..Len(r)
                             /\ new[k].was = After(r, new[k].index, graph)
  <2> TAKE k \in DOMAIN new
  <2>1. CASE k = Len(old) + 1
    BY <1>2, <1>3, <1>4, <1>5, <1>6, <1>9, <2>1
  <2>2. CASE k \in 1..Len(old)
    BY <1>6, <1>7, <1>10, <2>2
  <2> QED BY <1>7, <1>8, <2>1, <2>2
<1>12. \A j, k \in DOMAIN new : j < k => new[j].index <= new[k].index
  <2> SUFFICES ASSUME NEW j \in DOMAIN new, NEW k \in DOMAIN new, j < k
               PROVE  new[j].index <= new[k].index
    OBVIOUS
  <2>0. j \in 1..Len(old) /\ (k \in 1..Len(old) \/ k = Len(old) + 1)
    BY <1>7, <1>8
  <2>1. CASE k = Len(old) + 1
    <3>1. new[k].index = Len(r)
      BY <1>4, <1>6, <2>1
    <3> QED BY <1>2, <1>3, <1>11, <3>1
  <2>2. CASE k \in 1..Len(old)
    <3>1. old[j].index <= old[k].index
      BY <1>5, <1>7, <2>0, <2>2 DEF SavepointsOK
    <3> QED BY <1>6, <2>0, <2>2, <3>1
  <2> QED BY <2>0, <2>1, <2>2
<1>13. SavepointsOK(new, tx.start, r, graph)
  BY <1>11, <1>12 DEF SavepointsOK
<1>14. /\ tx' \in Transactions /\ tx'.start = tx.start /\ tx'.was = tx.was
       /\ tx'.savepoints = new
  BY <1>1, <1>3, <1>6 DEF Transactions, SavepointType
<1>15. TxOK(tx', r, graph)
  BY <1>5, <1>13, <1>14 DEF TxOK
<1>16. TypeOK'
  BY <1>1, <1>14 DEF IInv, TypeOK
<1>17. EndGraph' = graph /\ EndGraph = graph
  BY <1>1 DEF EndGraph
<1> QED BY <1>1, <1>15, <1>16, <1>17 DEF IInv, UndoOK, r

-----------------------------------------------------------------------------
(* Rolling back *)

\* What a rollback to `index` sets up: the tail of the log leads back to the
\* graph at that index, which the rest of the log ends in.
LEMMA StartRollbackFacts ==
  ASSUME IInv, phase = "idle", NEW n \in 0..Len(change_log.retained),
         NEW target, target = After(change_log.retained, n, graph), StartRollback(n, target)
  PROVE  /\ undo' \in Seq(Entries) /\ change_log' \in LogType /\ goal' \in Graphs
         /\ UndoOK' /\ ChainOK(change_log'.retained, EndGraph')
         /\ Len(change_log'.retained) = n
         /\ \A i \in 0..n :
              After(change_log'.retained, i, EndGraph') = After(change_log.retained, i, graph)
<1> DEFINE r == change_log.retained
           s == SubSeq(r, 1, n)
           u == SubSeq(r, n + 1, Len(r))
<1>1. /\ undo' = u /\ change_log' = [TruncateLog(change_log, n) EXCEPT !.enabled = FALSE]
      /\ phase' = "rollback" /\ goal' = target /\ graph' = graph
  BY DEF StartRollback
<1>2. /\ change_log \in LogType /\ graph \in Graphs /\ r \in Seq(Entries) /\ Len(r) \in Nat
      /\ ChainOK(r, graph)
  BY IdleFacts
<1>3. u \in Seq(Entries) /\ ChainOK(u, graph) /\ After(u, 0, graph) = target
  BY <1>2, ChainSuffix
<1>4. /\ s \in Seq(Entries) /\ Len(s) = n /\ ChainOK(s, target)
      /\ \A i \in 0..n : After(s, i, target) = After(r, i, graph)
  BY <1>2, ChainPrefix
<1>5. TruncateLog(change_log, n) = IF n >= Len(r) THEN change_log ELSE [change_log EXCEPT !.retained = s]
  BY DEF TruncateLog
<1>6. TruncateLog(change_log, n) = [change_log EXCEPT !.retained = s]
  <2>1. CASE n = Len(r)
    <3>1. s = r
      BY <1>2, <2>1, SubSeqFull
    <3> QED BY <1>2, <1>5, <2>1, <3>1 DEF LogType
  <2>2. CASE n < Len(r)
    BY <1>2, <1>5, <2>2
  <2> QED BY <1>2, <2>1, <2>2
<1> HIDE DEF s, u
<1>7. change_log' \in LogType /\ change_log'.retained = s
  BY <1>1, <1>2, <1>4, <1>6 DEF LogType
<1>8. EndGraph' = target
  BY <1>1 DEF EndGraph
<1>9. target \in Graphs
  <2>1. CASE n < Len(r)
    <3>1. n + 1 \in 1..Len(r)
      BY <1>2, <2>1
    <3> QED BY <1>2, <2>1, <3>1, EntryAt DEF After
  <2>2. CASE ~(n < Len(r))
    BY <1>2, <2>2 DEF After
  <2> QED BY <2>1, <2>2
<1>10. UndoOK'
  BY <1>1, <1>3 DEF UndoOK
<1> QED BY <1>1, <1>3, <1>4, <1>7, <1>8, <1>9, <1>10

\* A rollback starts with the changes since the transaction began.
LEMMA RollbackIInv ==
  ASSUME IInv, Rollback
  PROVE  IInv'
<1>1. phase = "idle" /\ tx # None /\ tx' = None /\ StartRollback(tx.start, tx.was)
  BY DEF Rollback
<1>2. TxOK(tx, change_log.retained, graph) /\ Len(change_log.retained) \in Nat
  BY <1>1, IdleFacts
<1>3. tx.start \in Nat
  BY <1>1 DEF IInv, TypeOK, Transactions
<1>4. tx.start \in 0..Len(change_log.retained) /\ tx.was = After(change_log.retained, tx.start, graph)
  BY <1>1, <1>2, <1>3 DEF TxOK
<1>5. /\ undo' \in Seq(Entries) /\ change_log' \in LogType /\ goal' \in Graphs
      /\ UndoOK' /\ ChainOK(change_log'.retained, EndGraph')
  BY <1>1, <1>4, StartRollbackFacts
<1>6. graph' = graph /\ phase' = "rollback"
  BY <1>1 DEF StartRollback
<1>7. TypeOK'
  BY <1>1, <1>5, <1>6 DEF IInv, TypeOK, LogType
<1> QED BY <1>1, <1>5, <1>7 DEF IInv, TxOK

\* The savepoints that truncate_savepoints keeps are a prefix, and all of
\* them are before the index.
LEMMA RetainedPrefix ==
  ASSUME NEW sps \in Seq(SavepointType), NEW index \in Nat
  PROVE  \E m \in 0..Len(sps) :
           /\ RetainBefore(sps, index) \in Seq(SavepointType)
           /\ DOMAIN RetainBefore(sps, index) = 1..m
           /\ \A k \in 1..m : /\ RetainBefore(sps, index)[k] = sps[k]
                              /\ k \in DOMAIN sps
                              /\ sps[k].index < index
<1> DEFINE late == {k \in DOMAIN sps : sps[k].index >= index}
           kept == RetainBefore(sps, index)
<1>1. /\ Len(sps) \in Nat /\ DOMAIN sps = 1..Len(sps)
      /\ \A k \in 1..Len(sps) : sps[k] \in SavepointType
  BY LenProperties, ElementOfSeq
<1>2. \A k \in 1..Len(sps) : sps[k].index \in Nat
  BY <1>1 DEF SavepointType
<1>3. CASE late = {}
  <2>1. kept = sps
    BY <1>3 DEF RetainBefore
  <2>2. \A k \in 1..Len(sps) : sps[k].index < index
    BY <1>1, <1>2, <1>3
  <2>3. Len(sps) \in 0..Len(sps)
    BY <1>1
  <2> HIDE DEF kept
  <2> QED BY <1>1, <2>1, <2>2, <2>3 DEF kept
<1>4. CASE late # {}
  <2> DEFINE m == Least(late) - 1
  <2>1. late \subseteq Nat
    BY <1>1
  <2>2. Least(late) \in late /\ \A j \in late : Least(late) <= j
    BY <1>4, <2>1, LeastProperties
  <2>3. m \in 0..Len(sps) /\ m \in Int /\ m < Least(late) /\ m \in Nat
        /\ Least(late) \in Int
    BY <1>1, <2>2
  <2>4. kept = SubSeq(sps, 1, m)
    BY <1>4 DEF RetainBefore
  <2> HIDE DEF late, m, kept
  <2>5. \A i \in 1..m : sps[i] \in SavepointType
    BY <1>1, <2>3
  <2>6. /\ SubSeq(sps, 1, m) \in Seq(SavepointType)
        /\ Len(SubSeq(sps, 1, m)) = IF 1 <= m THEN m - 1 + 1 ELSE 0
        /\ \A i \in 1..(m - 1 + 1) : SubSeq(sps, 1, m)[i] = sps[1 + i - 1]
    BY <1>1, <2>3, <2>5, SubSeqProperties
  <2>7. kept \in Seq(SavepointType) /\ Len(kept) = m /\ \A i \in 1..m : kept[i] = sps[i]
    BY <2>3, <2>4, <2>6
  <2>8. DOMAIN kept = 1..m
    BY <2>7, LenProperties
  <2>9. \A k \in 1..m : k \in DOMAIN sps /\ sps[k].index < index
    <3> TAKE k \in 1..m
    <3>1. k \in 1..Len(sps) /\ ~(Least(late) <= k)
      <4> DEFINE b == Least(late)
      <4>1. b \in Int /\ m < b
        BY <2>3
      <4> HIDE DEF b
      <4>2. k \in 1..Len(sps) /\ ~(b <= k)
        BY <1>1, <2>3, <4>1
      <4> QED BY <4>2 DEF b
    <3>2. k \notin late
      BY <2>2, <3>1
    <3> QED BY <1>1, <1>2, <3>1, <3>2 DEF late
  <2> QED BY <2>3, <2>7, <2>8, <2>9 DEF kept
<1> QED BY <1>3, <1>4

\* A partial rollback starts with the changes since the savepoint and keeps
\* the savepoints before it.
LEMMA RollbackToSavepointIInv ==
  ASSUME IInv, NEW name \in Savepoints, RollbackToSavepoint(name)
  PROVE  IInv'
<1> DEFINE r == change_log.retained
           sps == tx.savepoints
           k0 == Least(Named(name))
           sp == sps[k0]
           kept == RetainBefore(sps, sp.index)
<1>1. /\ phase = "idle" /\ tx # None /\ Named(name) # {}
      /\ tx' = [tx EXCEPT !.savepoints = kept]
      /\ StartRollback(sp.index, sp.was)
  BY DEF RollbackToSavepoint
<1>2. TxOK(tx, r, graph) /\ Len(r) \in Nat
  BY <1>1, IdleFacts
<1>3. /\ tx \in Transactions /\ tx.start \in Nat
      /\ sps \in Seq(SavepointType)
  BY <1>1 DEF IInv, TypeOK, Transactions, SavepointType
<1>4. /\ tx.start <= Len(r) /\ tx.was = After(r, tx.start, graph)
      /\ SavepointsOK(sps, tx.start, r, graph)
  BY <1>1, <1>2 DEF TxOK
<1>5. k0 \in DOMAIN sps
  <2>1. DOMAIN sps = 1..Len(sps) /\ Len(sps) \in Nat
    BY <1>3, LenProperties
  <2>2. Named(name) \subseteq Nat
    BY <2>1 DEF Named
  <2>3. k0 \in Named(name)
    BY <1>1, <2>2, LeastProperties
  <2> QED BY <2>3 DEF Named
<1>6. sp.index \in tx.start..Len(r) /\ sp.was = After(r, sp.index, graph)
  BY <1>4, <1>5 DEF SavepointsOK
<1>7. sp.index \in 0..Len(r) /\ sp.index \in Nat /\ tx.start <= sp.index
  BY <1>2, <1>3, <1>6
<1> HIDE DEF sp, sps, k0
<1>8. /\ undo' \in Seq(Entries) /\ change_log' \in LogType /\ goal' \in Graphs
      /\ UndoOK' /\ ChainOK(change_log'.retained, EndGraph')
      /\ Len(change_log'.retained) = sp.index
      /\ \A i \in 0..sp.index : After(change_log'.retained, i, EndGraph') = After(r, i, graph)
  BY <1>1, <1>6, <1>7, StartRollbackFacts
<1>9. PICK m \in 0..Len(sps) :
        /\ kept \in Seq(SavepointType) /\ DOMAIN kept = 1..m
        /\ \A k \in 1..m : kept[k] = sps[k] /\ k \in DOMAIN sps /\ sps[k].index < sp.index
  BY <1>3, <1>7, RetainedPrefix
<1> HIDE DEF kept, r
<1>10. \A k \in DOMAIN kept :
         /\ kept[k].index \in tx.start..Len(change_log'.retained)
         /\ kept[k].was = After(change_log'.retained, kept[k].index, EndGraph')
  <2> TAKE k \in DOMAIN kept
  <2>1. kept[k] = sps[k] /\ k \in DOMAIN sps /\ sps[k].index < sp.index
    BY <1>9
  <2>2. sps[k].index \in tx.start..Len(r) /\ sps[k].was = After(r, sps[k].index, graph)
    BY <1>4, <2>1 DEF SavepointsOK
  <2>3. sps[k].index \in 0..sp.index /\ sps[k].index \in tx.start..Len(change_log'.retained)
    BY <1>2, <1>3, <1>7, <1>8, <2>1, <2>2
  <2> QED BY <1>8, <2>1, <2>2, <2>3
<1>11. \A j, k \in DOMAIN kept : j < k => kept[j].index <= kept[k].index
  BY <1>4, <1>9 DEF SavepointsOK
<1>12. SavepointsOK(kept, tx.start, change_log'.retained, EndGraph')
  BY <1>10, <1>11 DEF SavepointsOK
<1>13. /\ tx' \in Transactions /\ tx'.start = tx.start /\ tx'.was = tx.was
       /\ tx'.savepoints = kept
  BY <1>1, <1>3, <1>9 DEF Transactions, SavepointType
<1>14. tx.start <= Len(change_log'.retained)
       /\ tx.was = After(change_log'.retained, tx.start, EndGraph')
  <2>1. tx.start \in 0..sp.index
    BY <1>3, <1>7
  <2> QED BY <1>4, <1>7, <1>8, <2>1
<1>15. TxOK(tx', change_log'.retained, EndGraph')
  BY <1>12, <1>13, <1>14 DEF TxOK
<1>16. graph' = graph /\ phase' = "rollback"
  BY <1>1 DEF StartRollback
<1>17. TypeOK'
  BY <1>8, <1>13, <1>16 DEF IInv, TypeOK, LogType
<1> QED BY <1>8, <1>15, <1>17 DEF IInv

\* An inverse applied by the rollback gives the graph before its change, so
\* the changes that are left are still a path back to the goal.
LEMMA UndoLastIInv ==
  ASSUME IInv, UndoLast
  PROVE  IInv'
<1> DEFINE n == Len(undo) - 1
           change == undo[Len(undo)].ev
           u == SubSeq(undo, 1, n)
<1>1. /\ phase = "rollback" /\ undo # <<>> /\ undo' = u
      /\ graph' = ApplyInverse(graph, change)
      /\ change_log' = change_log /\ tx' = tx /\ phase' = phase /\ goal' = goal
  BY DEF UndoLast
<1>2. undo \in Seq(Entries) /\ ChainOK(undo, graph) /\ goal = After(undo, 0, graph)
  BY <1>1 DEF IInv, TypeOK, UndoOK
<1>3. Len(undo) \in Nat /\ Len(undo) # 0
  BY <1>1, <1>2, LenProperties, EmptySeq
<1>4. n \in 0..Len(undo) /\ Len(undo) \in 1..Len(undo) /\ n < Len(undo) /\ n + 1 = Len(undo)
  BY <1>3
<1>5. After(undo, Len(undo), graph) = graph
  BY <1>3 DEF After
<1>6. graph' = change.was
  BY <1>1, <1>2, <1>4, <1>5 DEF ChainOK
<1>7. After(undo, n, graph) = change.was
  BY <1>4 DEF After
<1>8. /\ u \in Seq(Entries) /\ ChainOK(u, graph')
      /\ After(u, 0, graph') = After(undo, 0, graph)
  <2>1. 0 \in 0..n
    BY <1>3
  <2> HIDE DEF n, change, u
  <2>2. /\ SubSeq(undo, 1, n) \in Seq(Entries)
        /\ ChainOK(SubSeq(undo, 1, n), After(undo, n, graph))
        /\ After(SubSeq(undo, 1, n), 0, After(undo, n, graph)) = After(undo, 0, graph)
    BY <1>2, <1>4, <2>1, ChainPrefix
  <2> QED BY <1>6, <1>7, <2>2 DEF u
<1>9. graph' \in Graphs
  BY <1>2, <1>4, <1>6, EntryAt
<1> HIDE DEF u, n, change
<1>10. TypeOK'
  BY <1>1, <1>8, <1>9 DEF IInv, TypeOK
<1>11. UndoOK'
  BY <1>1, <1>2, <1>8 DEF UndoOK
<1>12. EndGraph' = EndGraph
  BY <1>1 DEF EndGraph
<1> QED BY <1>1, <1>10, <1>11, <1>12 DEF IInv

\* When no change is left, the graph is the one to restore.
LEMMA EndRollbackIInv ==
  ASSUME IInv, EndRollback
  PROVE  IInv'
<1>1. /\ phase = "rollback" /\ undo = <<>> /\ phase' = "idle"
      /\ change_log' = [change_log EXCEPT !.enabled = TRUE]
      /\ graph' = graph /\ tx' = tx /\ undo' = undo /\ goal' = goal
  BY DEF EndRollback
<1>2. goal = graph
  <2>1. goal = After(undo, 0, graph)
    BY <1>1 DEF IInv, UndoOK
  <2>2. Len(undo) = 0
    BY <1>1
  <2> QED BY <2>1, <2>2 DEF After
<1>3. change_log \in LogType
  BY DEF IInv, TypeOK, LogType
<1>4. change_log' \in LogType /\ change_log'.enabled /\ change_log'.retained = change_log.retained
  BY <1>1, <1>3 DEF LogType
<1>5. EndGraph' = EndGraph
  BY <1>1, <1>2 DEF EndGraph
<1>6. TypeOK'
  BY <1>1, <1>4 DEF IInv, TypeOK, LogType
<1>7. UndoOK'
  BY <1>1, <1>4 DEF UndoOK
<1> QED BY <1>1, <1>4, <1>5, <1>6, <1>7 DEF IInv

\* Between transactions nothing points into the log.
LEMMA ClearChangeLogIInv ==
  ASSUME IInv, ClearChangeLog
  PROVE  IInv'
<1>1. /\ phase = "idle" /\ phase' = phase /\ tx = None /\ tx' = tx /\ graph' = graph
      /\ undo' = undo /\ goal' = goal /\ change_log' = ClearLog(change_log)
  BY DEF ClearChangeLog
<1>2. change_log \in LogType /\ change_log.enabled
  BY <1>1, IdleFacts
<1>3. <<>> \in Seq(Entries) /\ Len(<<>>) = 0
  OBVIOUS
<1>4. change_log' \in LogType /\ change_log'.enabled /\ change_log'.retained = <<>>
  BY <1>1, <1>2, <1>3 DEF LogType, ClearLog
<1>5. ChainOK(<<>>, EndGraph')
  BY DEF ChainOK
<1>6. TypeOK'
  BY <1>1, <1>4 DEF IInv, TypeOK, LogType
<1>7. UndoOK'
  BY <1>1, <1>4 DEF IInv, UndoOK
<1> QED BY <1>1, <1>4, <1>5, <1>6, <1>7 DEF IInv, TxOK

-----------------------------------------------------------------------------
(* Theorems *)

\* IInv is inductive: every edit, transaction step and rollback step keeps
\* it, whatever the sizes of the graph and of the log.
THEOREM Inductive ==
  ASSUME NoDefaultSheetNames
  PROVE  Spec => []IInv
<1>1. Init => IInv
  <2> SUFFICES ASSUME Init PROVE IInv
    OBVIOUS
  <2>1. graph \in Graphs /\ goal = graph
    BY DEF Init, Graphs
  <2>2. change_log \in LogType /\ change_log.enabled /\ change_log.retained = <<>>
    BY DEF Init, EmptyLog, LogType
  <2>3. ChainOK(<<>>, EndGraph)
    BY DEF ChainOK
  <2>4. TypeOK
    BY <2>1, <2>2 DEF Init, TypeOK, LogType
  <2> QED BY <2>2, <2>3, <2>4 DEF Init, IInv, TxOK, UndoOK
<1>2. IInv /\ [Next]_vars => IInv'
  <2> SUFFICES ASSUME IInv, [Next]_vars PROVE IInv'
    OBVIOUS
  <2>1. ASSUME NEW c \in Cells, NEW f \in Formulas \cup {None}, SetCell(c, f) PROVE IInv'
    BY <2>1, SetCellIInv
  <2>2. ASSUME NEW s \in Scopes, NEW d \in Definitions,
               DefineName(s, d) \/ UpdateName(s, d)
        PROVE  IInv'
    BY <2>2, NameIInv
  <2>3. ASSUME NEW s \in Scopes, DeleteName(s) PROVE IInv'
    BY <2>3, NameIInv
  <2>4. CASE BeginTransaction
    BY <2>4, BeginIInv
  <2>5. CASE Commit
    BY <2>5, CommitIInv
  <2>6. ASSUME NEW name \in Savepoints, Savepoint(name) PROVE IInv'
    BY <2>6, SavepointIInv
  <2>7. ASSUME NEW name \in Savepoints, RollbackToSavepoint(name) PROVE IInv'
    BY <2>7, RollbackToSavepointIInv
  <2>8. CASE Rollback
    BY <2>8, RollbackIInv
  <2>9. CASE UndoLast
    BY <2>9, UndoLastIInv
  <2>10. CASE EndRollback
    BY <2>10, EndRollbackIInv
  <2>11. CASE ClearChangeLog
    BY <2>11, ClearChangeLogIInv
  <2>12. CASE UNCHANGED vars
    BY <2>12 DEF vars, IInv, TypeOK, UndoOK, EndGraph
  <2> QED BY <2>1, <2>2, <2>3, <2>4, <2>5, <2>6, <2>7, <2>8, <2>9, <2>10, <2>11, <2>12
          DEF Next
<1> QED BY <1>1, <1>2, PTL DEF Spec

\* TypeOK holds in every reachable state.
THEOREM TypeCorrect ==
  ASSUME NoDefaultSheetNames
  PROVE  Spec => []TypeOK
<1>1. IInv => TypeOK
  BY DEF IInv
<1> QED BY <1>1, Inductive, PTL

\* RollbackRestores: when the rollback loop of apply_rollback_events has run
\* through, the graph is what it was at the start of the transaction or at
\* the savepoint.
THEOREM RollbackIsExact ==
  ASSUME NoDefaultSheetNames
  PROVE  Spec => []RollbackRestores
<1>1. IInv => RollbackRestores
  <2> SUFFICES ASSUME IInv, phase = "rollback", undo = <<>> PROVE graph = goal
    BY DEF RollbackRestores
  <2>1. goal = After(undo, 0, graph)
    BY DEF IInv, UndoOK
  <2>2. Len(undo) = 0
    OBVIOUS
  <2> QED BY <2>1, <2>2 DEF After
<1> QED BY <1>1, Inductive, PTL

\* RollbackNeverFails: no inverse that apply_rollback_events reaches is
\* refused by the graph.
THEOREM RollbackCompletes ==
  ASSUME NoDefaultSheetNames
  PROVE  Spec => []RollbackNeverFails
<1>1. IInv => RollbackNeverFails
  <2> SUFFICES ASSUME IInv, phase = "rollback", undo # <<>>
               PROVE  Invertible(graph, undo[Len(undo)].ev)
    BY DEF RollbackNeverFails
  <2>1. undo \in Seq(Entries) /\ ChainOK(undo, graph)
    BY DEF IInv, TypeOK, UndoOK
  <2>2. Len(undo) \in Nat /\ Len(undo) # 0
    BY <2>1, LenProperties, EmptySeq
  <2>3. Len(undo) \in 1..Len(undo)
    BY <2>2
  <2>4. After(undo, Len(undo), graph) = graph
    BY <2>2 DEF After
  <2> QED BY <2>1, <2>3, <2>4 DEF ChainOK
<1> QED BY <1>1, Inductive, PTL

\* IndexesValid: the start of a transaction and its savepoints stay inside
\* the log and in order, through any nesting of partial rollbacks.
THEOREM IndexesStayValid ==
  ASSUME NoDefaultSheetNames
  PROVE  Spec => []IndexesValid
<1>1. IInv => IndexesValid
  BY DEF IInv, TxOK, SavepointsOK, IndexesValid
<1> QED BY <1>1, Inductive, PTL

\* The context stays well formed: take_from and check_size always get indexes
\* inside the log.
THEOREM IndexesStayOK ==
  ASSUME NoDefaultSheetNames
  PROVE  Spec => []IndexesOK
<1>1. TypeOK /\ IndexesValid => IndexesOK
  BY DEF IndexesOK
<1> QED BY <1>1, TypeCorrect, IndexesStayValid, PTL

\* Two logs that agree on their first k entries have the same k-prefix.
LEMMA SamePrefix ==
  ASSUME NEW r \in Seq(Entries), NEW s \in Seq(Entries), NEW k \in Nat,
         k <= Len(r), k <= Len(s), \A i \in 1..k : s[i] = r[i]
  PROVE  SubSeq(s, 1, k) = SubSeq(r, 1, k)
<1>1. Len(r) \in Nat /\ Len(s) \in Nat
  BY LenProperties
<1>2. \A i \in 1..k : r[i] \in Entries /\ s[i] \in Entries
  BY <1>1, EntryAt
<1>3. SubSeq(r, 1, k) = [i \in 1..k |-> r[i]]
  BY <1>1, <1>2
<1>4. SubSeq(s, 1, k) = [i \in 1..k |-> s[i]]
  BY <1>1, <1>2
<1> QED BY <1>3, <1>4

\* What a truncation keeps.
LEMMA TruncateKeeps ==
  ASSUME NEW l \in LogType, NEW n \in 0..Len(l.retained)
  PROVE  /\ TruncateLog(l, n).retained \in Seq(Entries)
         /\ Len(TruncateLog(l, n).retained) = n
         /\ \A i \in 1..n : TruncateLog(l, n).retained[i] = l.retained[i]
<1> DEFINE r == l.retained
<1>1. r \in Seq(Entries)
  BY DEF LogType
<1>2. Len(r) \in Nat
  BY <1>1, LenProperties
<1>3. CASE n >= Len(r)
  <2>1. n = Len(r) /\ TruncateLog(l, n) = l
    BY <1>2, <1>3 DEF TruncateLog
  <2> QED BY <1>1, <2>1
<1>4. CASE n < Len(r)
  <2>1. TruncateLog(l, n).retained = SubSeq(r, 1, n)
    BY <1>2, <1>4 DEF TruncateLog, LogType
  <2>2. n \in Nat /\ \A i \in 1..n : r[i] \in Entries
    BY <1>1, <1>2, EntryAt
  <2>3. SubSeq(r, 1, n) = [i \in 1..n |-> r[i]]
    BY <1>1, <1>2, <2>2
  <2> QED BY <2>1, <2>2, <2>3
<1> QED BY <1>2, <1>3, <1>4

\* A step of an open transaction leaves the entries before its start alone.
LEMMA StepKeepsHistory ==
  ASSUME IInv, [Next]_vars, tx # None
  PROVE  /\ Len(change_log'.retained) >= tx.start
         /\ SubSeq(change_log'.retained, 1, tx.start) = SubSeq(change_log.retained, 1, tx.start)
<1> DEFINE r == change_log.retained
           s == change_log'.retained
           Kept(n) == /\ n \in Nat /\ s \in Seq(Entries) /\ Len(s) >= n
                      /\ \A i \in 1..n : s[i] = r[i]
<1>1. /\ change_log \in LogType /\ r \in Seq(Entries) /\ Len(r) \in Nat
      /\ tx \in Transactions /\ tx.start \in Nat /\ tx.start <= Len(r)
  <2>1. change_log \in LogType /\ r \in Seq(Entries) /\ tx \in Transactions /\ tx.start <= Len(r)
    BY DEF IInv, TypeOK, LogType, TxOK
  <2> QED BY <2>1, LenProperties DEF Transactions
<1>2. ASSUME NEW n \in Nat, tx.start <= n, Kept(n)
      PROVE  /\ Len(s) >= tx.start
             /\ SubSeq(s, 1, tx.start) = SubSeq(r, 1, tx.start)
  <2>1. Len(s) \in Nat
    BY <1>2, LenProperties
  <2>2. Len(s) >= tx.start /\ \A i \in 1..tx.start : s[i] = r[i]
    BY <1>1, <1>2, <2>1
  <2> QED BY <1>1, <1>2, <2>1, <2>2, SamePrefix
<1>3. CASE r = s
  BY <1>1, <1>3
<1>4. ASSUME NEW g, NEW ch \in Changes, Edit(g, ch) PROVE Kept(Len(r))
  <2>1. change_log' = RecordEvent(change_log, ch) /\ change_log.enabled
    BY <1>4 DEF Edit, IInv, UndoOK
  <2>2. change_log' \in LogType /\ Len(s) = Len(r) + 1 /\ \A i \in 1..Len(r) : s[i] = r[i]
    BY <1>1, <2>1, RecordAppends
  <2> QED BY <1>1, <2>2 DEF LogType
<1>5. ASSUME NEW n \in 0..Len(r), NEW target, StartRollback(n, target) PROVE Kept(n)
  <2> DEFINE l == TruncateLog(change_log, n)
  <2>1. change_log' = [l EXCEPT !.enabled = FALSE]
    BY <1>5 DEF StartRollback
  <2>2. /\ l.retained \in Seq(Entries) /\ Len(l.retained) = n
        /\ \A i \in 1..n : l.retained[i] = r[i]
    BY <1>1, TruncateKeeps
  <2>3. s = l.retained
    BY <1>1, <2>1 DEF TruncateLog, LogType
  <2> HIDE DEF l, s
  <2> QED BY <1>1, <2>2, <2>3
<1>6. graph \in Graphs
  BY DEF IInv, TypeOK
<1>7. ASSUME NEW c \in Cells, NEW f \in Formulas \cup {None}, SetCell(c, f) PROVE Kept(Len(r))
  <2>1. Change("SetCell", c, graph.formula[c]) \in Changes
    BY <1>6 DEF Change, Changes, Graphs
  <2> QED BY <1>4, <1>7, <2>1 DEF SetCell
<1>8. ASSUME NEW sc \in Scopes, NEW d \in Definitions,
             DefineName(sc, d) \/ UpdateName(sc, d) \/ DeleteName(sc)
      PROVE  Kept(Len(r))
  <2>1. OldDefinition(sc) \in Definitions \cup {None}
    BY <1>6, ScopesAssumption DEF OldDefinition, ResolveName, Graphs
  <2>2. \A tag \in {"DefineName", "UpdateName", "DeleteName"},
           old \in Definitions \cup {None} : Change(tag, sc, old) \in Changes
    BY <1>6 DEF Change, Changes
  <2> HIDE DEF Kept
  <2> QED BY <1>4, <1>8, <2>1, <2>2 DEF DefineName, UpdateName, DeleteName
<1>9. ASSUME NEW sc \in Scopes, DeleteName(sc) PROVE Kept(Len(r))
  <2>1. OldDefinition(sc) \in Definitions \cup {None}
    BY <1>6, ScopesAssumption DEF OldDefinition, ResolveName, Graphs
  <2>2. Change("DeleteName", sc, OldDefinition(sc)) \in Changes
    BY <1>6, <2>1 DEF Change, Changes
  <2> QED BY <1>4, <1>9, <2>2 DEF DeleteName
<1>10. CASE Rollback
  <2>1. StartRollback(tx.start, tx.was) /\ tx.start \in 0..Len(r)
    BY <1>1, <1>10 DEF Rollback
  <2>2. Kept(tx.start)
    BY <1>5, <2>1
  <2> HIDE DEF Kept, r, s
  <2> QED BY <1>1, <1>2, <2>2 DEF r, s
<1>11. ASSUME NEW name \in Savepoints, RollbackToSavepoint(name)
       PROVE  \E n \in Nat : tx.start <= n /\ Kept(n)
  <2> DEFINE k == Least(Named(name))
             n == tx.savepoints[k].index
  <2>1. phase = "idle" /\ Named(name) # {} /\ StartRollback(n, tx.savepoints[k].was)
    BY <1>11 DEF RollbackToSavepoint
  <2>2. tx.savepoints \in Seq([name : Savepoints, index : Nat, was : Graphs])
    BY <1>1 DEF Transactions
  <2>3. Named(name) \subseteq Nat
    BY <2>2, LenProperties DEF Named
  <2>4. k \in DOMAIN tx.savepoints
    BY <2>1, <2>3, LeastProperties DEF Named
  <2>5. n \in tx.start..Len(r)
    BY <2>1, <2>4 DEF IInv, TxOK, SavepointsOK
  <2>6. n \in 0..Len(r) /\ tx.start <= n /\ n \in Nat
    BY <1>1, <2>5
  <2> HIDE DEF n, k, Kept
  <2> QED BY <1>5, <2>1, <2>6
<1>12. CASE UndoLast \/ Commit \/ \E name \in Savepoints : Savepoint(name)
  BY <1>3, <1>12 DEF UndoLast, Commit, Savepoint
<1>13. CASE EndRollback
  BY <1>1, <1>3, <1>13 DEF EndRollback, LogType
<1>14. CASE UNCHANGED vars
  BY <1>3, <1>14 DEF vars
<1>15. ~BeginTransaction /\ ~ClearChangeLog
  BY DEF BeginTransaction, ClearChangeLog
<1> HIDE DEF Kept, r, s
<1>16. ASSUME Kept(Len(r)) PROVE /\ Len(s) >= tx.start
                                 /\ SubSeq(s, 1, tx.start) = SubSeq(r, 1, tx.start)
  BY <1>1, <1>2, <1>16
<1>17. /\ Len(s) >= tx.start
       /\ SubSeq(s, 1, tx.start) = SubSeq(r, 1, tx.start)
  <2>1. CASE \E c \in Cells, f \in Formulas \cup {None} : SetCell(c, f)
    BY <1>7, <1>16, <2>1
  <2>2. CASE \E sc \in Scopes, d \in Definitions : DefineName(sc, d) \/ UpdateName(sc, d)
    BY <1>8, <1>16, <2>2
  <2>3. CASE \E sc \in Scopes : DeleteName(sc)
    BY <1>9, <1>16, <2>3
  <2>4. CASE \E name \in Savepoints : RollbackToSavepoint(name)
    BY <1>2, <1>11, <2>4
  <2>5. CASE Rollback \/ UndoLast \/ Commit \/ EndRollback \/ UNCHANGED vars
             \/ \E name \in Savepoints : Savepoint(name)
    BY <1>10, <1>12, <1>13, <1>14, <2>5 DEF r, s
  <2> QED BY <1>15, <2>1, <2>2, <2>3, <2>4, <2>5 DEF Next
<1> QED BY <1>17 DEF r, s

\* CommittedHistoryKept: no rollback, partial rollback or edit of a
\* transaction takes back or rewrites an entry logged before the transaction
\* began.
THEOREM HistoryIsKept ==
  ASSUME NoDefaultSheetNames
  PROVE  Spec => CommittedHistoryKept
<1>1. IInv /\ [Next]_vars
        => [tx # None => /\ Len(change_log'.retained) >= tx.start
                         /\ SubSeq(change_log'.retained, 1, tx.start)
                              = SubSeq(change_log.retained, 1, tx.start)]_vars
  BY StepKeepsHistory
<1> QED BY <1>1, Inductive, PTL DEF Spec, CommittedHistoryKept

===============================================================================
