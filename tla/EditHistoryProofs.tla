-------------------------- MODULE EditHistoryProofs --------------------------
(***************************************************************************)
(* Theorems about EditHistory, a workbook with its change log on: for any  *)
(* cells, formulas, values and bounds it implements LinearHistory.         *)
(*                                                                         *)
(* A log has no stack of actions, only groups of consecutive events; the   *)
(* invariant names where each action starts in it, and says that the       *)
(* events between two starts, and the events of a batch kept for redo,     *)
(* lead from the sheet before the action to the sheet after it.  The       *)
(* overlays need not be what they were, only show it.                      *)
(*                                                                         *)
(* The theorems are about the clients that Rules describes; a client that  *)
(* breaks one of the rules is not served so, as the configurations of      *)
(* MCEditHistory show.                                                     *)
(***************************************************************************)
EXTENDS EditHistory, FiniteSetTheorems, SequenceTheorems, WellFoundedInduction, TLAPS

\* The rules that make the groups of the log the client's actions.
Careful == {"grouped", "redo_first", "close_first"} \subseteq Rules

-----------------------------------------------------------------------------
(* Types *)

Sheets == [Cells -> [formula : Formulas \cup {None}, value : AllValues \cup {None},
                     staged : Formulas \cup {None}]]

Books == [formula : [Cells -> Formulas \cup {None}], extent : [Cells -> BOOLEAN],
          staged : [Cells -> Formulas \cup {None}], delta : [Cells -> AllValues \cup {None}],
          computed : [Cells -> {Result, None}], base : [Cells -> AllValues],
          limit : {Limit}, defer : BOOLEAN]

Markers == [tag : {"CompoundStart", "CompoundEnd"}]
ValueEvents == [tag : {"SetValue"}, cell : Cells, oldValue : AllValues \cup {None},
                oldFormula : Formulas \cup {None}, new : AllValues]
FormulaEvents == [tag : {"SetFormula"}, cell : Cells, oldValue : AllValues \cup {None},
                  oldFormula : Formulas \cup {None}, new : Formulas]
StagedEvents == [tag : {"Staged"}, cell : Cells, old : Formulas \cup {None},
                 new : Formulas \cup {None}]
Edits == ValueEvents \cup FormulaEvents \cup StagedEvents
Events == Markers \cup Edits

Entries == [ev : Events, seq : Nat, group : Nat]
Stacks == Seq(Nat)
Groups == Nat \ {0}
Retained == Seq(Entries)
Logs == [enabled : {TRUE}, max : {NoCap}, depth : Nat, seq : Nat, stack : Stacks,
         gid : Groups, retained : Retained]

-----------------------------------------------------------------------------
(* Events lead from one sheet to the next *)

\* A cell that holds x after and before an edit.
After(e, x) ==
  CASE e.tag = "SetValue"   -> [formula |-> None, value |-> e.new, staged |-> x.staged]
    [] e.tag = "SetFormula" -> [formula |-> e.new, value |-> None, staged |-> x.staged]
    [] e.tag = "Staged"     -> [x EXCEPT !.staged = e.new]

OldValue(e) == CASE e.oldFormula # None -> None
                 [] e.oldFormula = None /\ e.oldValue # None -> e.oldValue
                 [] OTHER -> Empty
Before(e, x) ==
  IF e.tag = "Staged" THEN [x EXCEPT !.staged = e.old]
  ELSE [formula |-> e.oldFormula, value |-> OldValue(e), staged |-> x.staged]

Leads(e, P, Q) ==
  \/ e \in Markers /\ Q = P
  \/ /\ e \in Edits
     /\ P[e.cell] = Before(e, P[e.cell])
     /\ Q = [P EXCEPT ![e.cell] = After(e, P[e.cell])]

\* The events lead from P to Q, over the sheets s.
Bridge(es, P, Q) ==
  \E s \in [0..Len(es) -> Sheets] :
    s[0] = P /\ s[Len(es)] = Q /\ \A i \in 1..Len(es) : Leads(es[i], s[i - 1], s[i])

\* A formula has no delta entry, a value no computed entry.
BookOK(b) ==
  /\ b \in Books
  /\ \A c \in Cells : IF b.formula[c] = None THEN b.computed[c] = None ELSE b.delta[c] = None

-----------------------------------------------------------------------------
(* Loops *)

\* A set of numbers has a least element.
LEMMA LeastElement ==
  ASSUME NEW S \in SUBSET Nat, S # {}
  PROVE  \E x \in S : \A y \in S : x <= y
<1> DEFINE R == OpToRel(<, Nat)
<1>1. IsWellFoundedOn(R, Nat)
  BY NatLessThanWellFounded
<1>2. \A x, y \in Nat : y < x => <<y, x>> \in R
  BY DEF OpToRel
<1> HIDE DEF R
<1>3. PICK x \in S : \A y \in S : ~(<<y, x>> \in R)
  BY <1>1, WFMin
<1>4. \A y \in S : ~(y < x)
  BY <1>2, <1>3, Zenon
<1> QED BY <1>4

\* A loop of N steps from b exists.
LEMMA LoopExists ==
  ASSUME NEW S, NEW b \in S, NEW N \in Nat, NEW F \in [1..N -> [S -> S]]
  PROVE  \E s \in [0..N -> S] : s[0] = b /\ \A k \in 1..N : s[k] = F[k][s[k - 1]]
<1> DEFINE Has(m) == \E s \in [0..m -> S] :
                       \A k \in 0..m : s[k] = IF k = 0 THEN b ELSE F[k][s[k - 1]]
           T == {m \in 0..N : ~Has(m)}
<1>1. Has(0)
  <2> DEFINE s == [k \in 0..0 |-> b]
  <2>1. s \in [0..0 -> S] /\ \A k \in 0..0 : s[k] = IF k = 0 THEN b ELSE F[k][s[k - 1]]
    OBVIOUS
  <2> QED BY <2>1
<1>2. ASSUME NEW m \in 1..N, Has(m - 1) PROVE Has(m)
  <2>1. PICK s \in [0..(m - 1) -> S] :
               \A k \in 0..(m - 1) : s[k] = IF k = 0 THEN b ELSE F[k][s[k - 1]]
    BY <1>2
  <2> DEFINE next == F[m][s[m - 1]]
             t == [k \in 0..m |-> IF k = m THEN next ELSE s[k]]
  <2>2. next \in S
    <3>1. s[m - 1] \in S
      BY <2>1
    <3> QED BY <3>1
  <2>3. t \in [0..m -> S]
    <3> HIDE DEF next
    <3> QED BY <2>2
  <2>4. \A k \in 0..m : t[k] = IF k = 0 THEN b ELSE F[k][t[k - 1]]
    <3> TAKE k \in 0..m
    <3>1. CASE k = m
      BY <3>1
    <3>2. CASE k < m
      <4>1. s[k] = IF k = 0 THEN b ELSE F[k][s[k - 1]]
        BY <2>1, <3>2
      <4>2. t[k] = s[k] /\ (k # 0 => t[k - 1] = s[k - 1])
        <5> HIDE DEF next
        <5> QED BY <3>2
      <4> HIDE DEF t
      <4> QED BY <4>1, <4>2
    <3> QED BY <3>1, <3>2
  <2> QED BY <2>3, <2>4
<1>3. T = {}
  <2> SUFFICES ASSUME T # {} PROVE FALSE
    OBVIOUS
  <2>1. T \in SUBSET Nat
    OBVIOUS
  <2>2. PICK m \in T : \A y \in T : m <= y
    <3> HIDE DEF T
    <3> QED BY <2>1, LeastElement
  <2>3. m # 0 /\ m \in 0..N /\ ~Has(m)
    BY <1>1
  <2>4. m - 1 \in 0..N /\ m - 1 \notin T
    <3> HIDE DEF T, Has
    <3> QED BY <2>2, <2>3
  <2>5. Has(m - 1)
    BY <2>4
  <2> HIDE DEF Has
  <2> QED BY <1>2, <2>3, <2>5
<1>4. Has(N)
  BY <1>3
<1>5. PICK s \in [0..N -> S] : \A k \in 0..N : s[k] = IF k = 0 THEN b ELSE F[k][s[k - 1]]
  BY <1>4
<1>6. s[0] = b /\ \A k \in 1..N : s[k] = F[k][s[k - 1]]
  BY <1>5
<1> QED BY <1>6

-----------------------------------------------------------------------------
(* One event of a replay *)

LEMMA SheetFacts ==
  ASSUME NEW b \in Books
  PROVE  /\ SheetOf(b) \in Sheets
         /\ \A c \in Cells : /\ SheetOf(b)[c].formula = b.formula[c]
                             /\ SheetOf(b)[c].staged = b.staged[c]
                             /\ SheetOf(b)[c].value = IF b.formula[c] # None THEN None ELSE ReadCell(b, c)
                             /\ ReadCell(b, c) \in AllValues \cup {None}
<1>1. \A c \in Cells : ReadCell(b, c) \in AllValues \cup {None}
  <2> TAKE c \in Cells
  <2>1. b.delta[c] \in AllValues \cup {None} /\ b.computed[c] \in {Result, None} /\ b.base[c] \in AllValues
    BY DEF Books
  <2>2. Result \in AllValues
    BY DEF AllValues
  <2> QED BY <2>1, <2>2 DEF ReadCell
<1>2. \A c \in Cells : b.formula[c] \in Formulas \cup {None} /\ b.staged[c] \in Formulas \cup {None}
  BY DEF Books
<1> QED BY <1>1, <1>2 DEF SheetOf, Sheets

\* Sheets are equal when their cells are.
LEMMA SheetsEqual ==
  ASSUME NEW P \in Sheets, NEW Q \in Sheets,
         \A c \in Cells : P[c].formula = Q[c].formula /\ P[c].value = Q[c].value /\ P[c].staged = Q[c].staged
  PROVE  P = Q
<1>1. \A c \in Cells : P[c] = Q[c]
  BY DEF Sheets
<1> QED BY <1>1 DEF Sheets

\* A value written to a cell is shown, compacted or not, and no other changes.
LEMMA MirrorFacts ==
  ASSUME NEW b \in Books, NEW c \in Cells, NEW v \in AllValues, b.formula[c] = None,
         \A d \in Cells \ {c} : IF b.formula[d] = None THEN b.computed[d] = None ELSE b.delta[d] = None,
         NEW m, m = MirrorValue(b, c, v)
  PROVE  /\ BookOK(m) /\ m.formula = b.formula /\ m.staged = b.staged
         /\ ReadCell(m, c) = v
         /\ \A d \in Cells \ {c} : b.formula[d] = None => ReadCell(m, d) = ReadCell(b, d)
<1> DEFINE a == [b EXCEPT !.delta[c] = v, !.computed[c] = None]
<1>0. v # None
  BY NoneAssumption DEF AllValues
<1>1. /\ a \in Books /\ a.formula = b.formula /\ a.staged = b.staged /\ a.base = b.base
      /\ a.delta = [b.delta EXCEPT ![c] = v] /\ a.computed = [b.computed EXCEPT ![c] = None]
  BY DEF Books
<1>2. /\ \A d \in Cells : a.delta[d] = IF d = c THEN v ELSE b.delta[d]
      /\ \A d \in Cells : a.computed[d] = IF d = c THEN None ELSE b.computed[d]
  BY <1>1 DEF Books
<1> HIDE DEF a
<1>3. BookOK(a)
  BY <1>1, <1>2 DEF BookOK
<1>4. ReadCell(a, c) = v /\ \A d \in Cells \ {c} : ReadCell(a, d) = ReadCell(b, d)
  BY <1>0, <1>1, <1>2 DEF ReadCell
<1>5. m = a \/ m = [a EXCEPT !.base = [d \in DOMAIN a.base |-> IF a.delta[d] # None THEN a.delta[d] ELSE a.base[d]],
                             !.delta = [d \in DOMAIN a.delta |-> None]]
  BY DEF MirrorValue, MaybeCompact, a
<1>6. CASE m = a
  BY <1>1, <1>3, <1>4, <1>6
<1>7. CASE m = [a EXCEPT !.base = [d \in DOMAIN a.base |-> IF a.delta[d] # None THEN a.delta[d] ELSE a.base[d]],
                         !.delta = [d \in DOMAIN a.delta |-> None]]
  <2> DEFINE base == [d \in Cells |-> IF a.delta[d] # None THEN a.delta[d] ELSE a.base[d]]
             delta == [d \in Cells |-> None]
  <2>1. m = [a EXCEPT !.base = base, !.delta = delta]
    BY <1>1, <1>7 DEF Books
  <2>2. base \in [Cells -> AllValues] /\ delta \in [Cells -> AllValues \cup {None}]
        /\ \A d \in Cells : base[d] = (IF a.delta[d] # None THEN a.delta[d] ELSE a.base[d]) /\ delta[d] = None
    BY <1>1 DEF Books
  <2> HIDE DEF base, delta
  <2>3. m \in Books /\ m.formula = a.formula /\ m.staged = a.staged /\ m.computed = a.computed
        /\ m.base = base /\ m.delta = delta
    BY <1>1, <2>1, <2>2 DEF Books
  <2>4. BookOK(m)
    BY <1>3, <2>2, <2>3 DEF BookOK
  <2>5. \A d \in Cells : a.formula[d] = None => ReadCell(m, d) = ReadCell(a, d)
    <3> SUFFICES ASSUME NEW d \in Cells, a.formula[d] = None PROVE ReadCell(m, d) = ReadCell(a, d)
      OBVIOUS
    <3>1. a.computed[d] = None
      BY <1>3 DEF BookOK
    <3> QED BY <2>2, <2>3, <3>1 DEF ReadCell
  <2> QED BY <1>1, <1>4, <2>3, <2>4, <2>5
<1> QED BY <1>5, <1>6, <1>7

\* The cell of an edit becomes a value.
LEMMA BecomesValue ==
  ASSUME NEW b, BookOK(b), NEW c \in Cells, NEW v \in AllValues, NEW ext \in [Cells -> BOOLEAN],
         NEW g, g = [b EXCEPT !.formula[c] = None, !.extent = ext]
  PROVE  /\ BookOK(MirrorValue(g, c, v))
         /\ SheetOf(MirrorValue(g, c, v)) =
              [SheetOf(b) EXCEPT ![c] = [formula |-> None, value |-> v, staged |-> b.staged[c]]]
<1> DEFINE m == MirrorValue(g, c, v)
           Q == [SheetOf(b) EXCEPT ![c] = [formula |-> None, value |-> v, staged |-> b.staged[c]]]
<1>0. b \in Books
  BY DEF BookOK
<1>1. /\ g \in Books /\ g.formula = [b.formula EXCEPT ![c] = None] /\ g.staged = b.staged
      /\ g.delta = b.delta /\ g.computed = b.computed /\ g.base = b.base
  BY <1>0 DEF Books
<1>2. \A d \in Cells : g.formula[d] = IF d = c THEN None ELSE b.formula[d]
  BY <1>0, <1>1 DEF Books
<1>3. \A d \in Cells \ {c} : IF g.formula[d] = None THEN g.computed[d] = None ELSE g.delta[d] = None
  BY <1>1, <1>2 DEF BookOK
<1>a. m = MirrorValue(g, c, v) /\ g \in Books /\ g.formula[c] = None
  BY <1>1, <1>2
<1> HIDE DEF m
<1>4. /\ BookOK(m) /\ m.formula = g.formula /\ m.staged = g.staged
      /\ ReadCell(m, c) = v
      /\ \A d \in Cells \ {c} : g.formula[d] = None => ReadCell(m, d) = ReadCell(g, d)
  <2>1. v \in AllValues /\ c \in Cells
    OBVIOUS
  <2> QED BY ONLY <1>a, <1>3, <2>1, MirrorFacts, SMT
<1>5. \A d \in Cells : ReadCell(g, d) = ReadCell(b, d)
  BY <1>1 DEF ReadCell
<1>6. m \in Books
  BY <1>4 DEF BookOK
<1>7. Q \in Sheets /\ \A d \in Cells : Q[d] = IF d = c THEN [formula |-> None, value |-> v, staged |-> b.staged[c]]
                                              ELSE SheetOf(b)[d]
  <2>1. SheetOf(b) \in Sheets /\ b.staged[c] \in Formulas \cup {None}
    BY <1>0, SheetFacts DEF Books
  <2> QED BY <2>1 DEF Sheets
<1> HIDE DEF Q
<1>sb. \A d \in Cells : /\ SheetOf(b)[d].formula = b.formula[d] /\ SheetOf(b)[d].staged = b.staged[d]
                       /\ SheetOf(b)[d].value = IF b.formula[d] # None THEN None ELSE ReadCell(b, d)
  BY <1>0, SheetFacts
<1>sm. \A d \in Cells : /\ SheetOf(m)[d].formula = m.formula[d] /\ SheetOf(m)[d].staged = m.staged[d]
                       /\ SheetOf(m)[d].value = IF m.formula[d] # None THEN None ELSE ReadCell(m, d)
  BY <1>6, SheetFacts
<1>8. \A d \in Cells : /\ SheetOf(m)[d].formula = Q[d].formula
                       /\ SheetOf(m)[d].value = Q[d].value /\ SheetOf(m)[d].staged = Q[d].staged
  <2> TAKE d \in Cells
  <2>1. CASE d = c
    BY <1>1, <1>2, <1>4, <1>6, <1>7, <2>1, <1>sb, <1>sm
  <2>2. CASE d # c
    BY <1>0, <1>1, <1>2, <1>4, <1>5, <1>6, <1>7, <2>2, <1>sb, <1>sm
  <2> QED BY <2>1, <2>2
<1>9. SheetOf(m) = Q
  BY <1>6, <1>7, <1>8, SheetFacts, SheetsEqual
<1> QED BY <1>4, <1>9 DEF m, Q

\* The cell of an edit becomes a formula.
LEMMA BecomesFormula ==
  ASSUME NEW b, BookOK(b), NEW c \in Cells, NEW f \in Formulas
  PROVE  /\ BookOK(ClearDelta(SetGraphFormula(b, c, f), c))
         /\ SheetOf(ClearDelta(SetGraphFormula(b, c, f), c)) =
              [SheetOf(b) EXCEPT ![c] = [formula |-> f, value |-> None, staged |-> b.staged[c]]]
<1> DEFINE m == ClearDelta(SetGraphFormula(b, c, f), c)
           Q == [SheetOf(b) EXCEPT ![c] = [formula |-> f, value |-> None, staged |-> b.staged[c]]]
<1>0. b \in Books /\ f # None
  BY NoneAssumption DEF BookOK
<1>1. /\ m \in Books /\ m.formula = [b.formula EXCEPT ![c] = f] /\ m.staged = b.staged
      /\ m.delta = [b.delta EXCEPT ![c] = None] /\ m.computed = b.computed /\ m.base = b.base
  BY <1>0 DEF Books, ClearDelta, SetGraphFormula
<1>2. /\ \A d \in Cells : m.formula[d] = IF d = c THEN f ELSE b.formula[d]
      /\ \A d \in Cells : m.delta[d] = IF d = c THEN None ELSE b.delta[d]
  BY <1>0, <1>1 DEF Books
<1> HIDE DEF m
<1>3. BookOK(m)
  BY <1>0, <1>1, <1>2 DEF BookOK
<1>5. \A d \in Cells \ {c} : ReadCell(m, d) = ReadCell(b, d)
  BY <1>1, <1>2 DEF ReadCell
<1>7. Q \in Sheets /\ \A d \in Cells : Q[d] = IF d = c THEN [formula |-> f, value |-> None, staged |-> b.staged[c]]
                                              ELSE SheetOf(b)[d]
  <2>1. SheetOf(b) \in Sheets /\ b.staged[c] \in Formulas \cup {None}
    BY <1>0, SheetFacts DEF Books
  <2> QED BY <2>1 DEF Sheets
<1> HIDE DEF Q
<1>sb. \A d \in Cells : /\ SheetOf(b)[d].formula = b.formula[d] /\ SheetOf(b)[d].staged = b.staged[d]
                       /\ SheetOf(b)[d].value = IF b.formula[d] # None THEN None ELSE ReadCell(b, d)
  BY <1>0, SheetFacts
<1>sm. \A d \in Cells : /\ SheetOf(m)[d].formula = m.formula[d] /\ SheetOf(m)[d].staged = m.staged[d]
                       /\ SheetOf(m)[d].value = IF m.formula[d] # None THEN None ELSE ReadCell(m, d)
  BY <1>1, SheetFacts
<1>8. \A d \in Cells : /\ SheetOf(m)[d].formula = Q[d].formula
                       /\ SheetOf(m)[d].value = Q[d].value /\ SheetOf(m)[d].staged = Q[d].staged
  <2> TAKE d \in Cells
  <2>1. CASE d = c
    BY <1>0, <1>1, <1>2, <1>7, <2>1, <1>sb, <1>sm
  <2>2. CASE d # c
    BY <1>0, <1>1, <1>2, <1>5, <1>7, <2>2, <1>sb, <1>sm
  <2> QED BY <2>1, <2>2
<1>9. SheetOf(m) = Q
  BY <1>1, <1>7, <1>8, SheetFacts, SheetsEqual
<1> QED BY <1>3, <1>9 DEF m, Q

\* The staged formula of a cell changes.
LEMMA BecomesStaged ==
  ASSUME NEW b, BookOK(b), NEW c \in Cells, NEW f \in Formulas \cup {None}
  PROVE  /\ BookOK([b EXCEPT !.staged[c] = f])
         /\ SheetOf([b EXCEPT !.staged[c] = f]) = [SheetOf(b) EXCEPT ![c].staged = f]
<1> DEFINE m == [b EXCEPT !.staged[c] = f]
           Q == [SheetOf(b) EXCEPT ![c].staged = f]
<1>0. b \in Books
  BY DEF BookOK
<1>1. /\ m \in Books /\ m.staged = [b.staged EXCEPT ![c] = f] /\ m.formula = b.formula
      /\ m.delta = b.delta /\ m.computed = b.computed /\ m.base = b.base
  BY <1>0 DEF Books
<1>2. \A d \in Cells : m.staged[d] = IF d = c THEN f ELSE b.staged[d]
  BY <1>0, <1>1 DEF Books
<1> HIDE DEF m
<1>3. BookOK(m)
  BY <1>0, <1>1 DEF BookOK
<1>5. \A d \in Cells : ReadCell(m, d) = ReadCell(b, d)
  BY <1>1 DEF ReadCell
<1>7. Q \in Sheets /\ \A d \in Cells : Q[d] = IF d = c THEN [SheetOf(b)[c] EXCEPT !.staged = f]
                                              ELSE SheetOf(b)[d]
  <2>1. SheetOf(b) \in Sheets
    BY <1>0, SheetFacts
  <2> HIDE DEF Sheets
  <2>2. \A d \in Cells : Q[d] = IF d = c THEN [SheetOf(b)[c] EXCEPT !.staged = f] ELSE SheetOf(b)[d]
    BY <2>1 DEF Sheets
  <2>3. [SheetOf(b)[c] EXCEPT !.staged = f] \in [formula : Formulas \cup {None}, value : AllValues \cup {None},
                     staged : Formulas \cup {None}]
    BY <2>1 DEF Sheets
  <2> QED BY <2>1, <2>2, <2>3 DEF Sheets
<1>7a. Q[c].staged = f /\ Q[c].formula = SheetOf(b)[c].formula /\ Q[c].value = SheetOf(b)[c].value
  <2>1. SheetOf(b)[c] \in [formula : Formulas \cup {None}, value : AllValues \cup {None},
                     staged : Formulas \cup {None}]
    BY <1>0, SheetFacts DEF Sheets
  <2>2. Q[c] = [SheetOf(b)[c] EXCEPT !.staged = f]
    BY <1>7
  <2> HIDE DEF Q
  <2> QED BY <2>1, <2>2
<1> HIDE DEF Q
<1>sb. \A d \in Cells : /\ SheetOf(b)[d].formula = b.formula[d] /\ SheetOf(b)[d].staged = b.staged[d]
                       /\ SheetOf(b)[d].value = IF b.formula[d] # None THEN None ELSE ReadCell(b, d)
  BY <1>0, SheetFacts
<1>sm. \A d \in Cells : /\ SheetOf(m)[d].formula = m.formula[d] /\ SheetOf(m)[d].staged = m.staged[d]
                       /\ SheetOf(m)[d].value = IF m.formula[d] # None THEN None ELSE ReadCell(m, d)
  BY <1>1, SheetFacts
<1>8. \A d \in Cells : /\ SheetOf(m)[d].formula = Q[d].formula
                       /\ SheetOf(m)[d].value = Q[d].value /\ SheetOf(m)[d].staged = Q[d].staged
  <2> TAKE d \in Cells
  <2>1. CASE d = c
    BY <1>0, <1>1, <1>2, <1>5, <1>7a, <2>1, <1>sb, <1>sm
  <2>2. CASE d # c
    BY <1>0, <1>1, <1>2, <1>5, <1>7, <2>2, <1>sb, <1>sm
  <2> QED BY <2>1, <2>2
<1>9. SheetOf(m) = Q
  BY <1>1, <1>7, <1>8, SheetFacts, SheetsEqual
<1> QED BY <1>3, <1>9 DEF m, Q

LEMMA LeavesGraph ==
  ASSUME NEW b \in Books, NEW c \in Cells
  PROVE  /\ Vacate(b, c) = [b EXCEPT !.formula[c] = None, !.extent = [b.extent EXCEPT ![c] = TRUE]]
         /\ Retire(b, c) = [b EXCEPT !.formula[c] = None, !.extent = [b.extent EXCEPT ![c] = FALSE]]
         /\ [b.extent EXCEPT ![c] = TRUE] \in [Cells -> BOOLEAN]
         /\ [b.extent EXCEPT ![c] = FALSE] \in [Cells -> BOOLEAN]
BY DEF Vacate, Retire, Books

\* A cell that leaves the graph, its vertex vacated or retired, for a value.
LEMMA LeavesForValue ==
  ASSUME NEW b, BookOK(b), NEW c \in Cells, NEW v \in AllValues,
         NEW g, g = Vacate(b, c) \/ g = Retire(b, c)
  PROVE  /\ BookOK(MirrorValue(g, c, v))
         /\ SheetOf(MirrorValue(g, c, v)) =
              [SheetOf(b) EXCEPT ![c] = [formula |-> None, value |-> v, staged |-> b.staged[c]]]
<1>1. b \in Books
  BY DEF BookOK
<1>2. PICK ext \in [Cells -> BOOLEAN] : g = [b EXCEPT !.formula[c] = None, !.extent = ext]
  <2>1. CASE g = Vacate(b, c)
    BY <1>1, <2>1, LeavesGraph, Zenon
  <2>2. CASE g = Retire(b, c)
    BY <1>1, <2>2, LeavesGraph, Zenon
  <2> QED BY <2>1, <2>2
<1>3. BookOK(b) /\ c \in Cells /\ v \in AllValues
  OBVIOUS
<1> QED BY ONLY <1>2, <1>3, BecomesValue, ZenonT(60)

\* Markers change nothing, edits one cell: a replay does what the edit did.
LEMMA ForwardFacts ==
  ASSUME NEW b, BookOK(b), NEW e \in Events
  PROVE  /\ BookOK(Forward(b, e))
         /\ e \in Markers => Forward(b, e) = b
         /\ e \in Edits => SheetOf(Forward(b, e)) =
                             [SheetOf(b) EXCEPT ![e.cell] = After(e, SheetOf(b)[e.cell])]
<1>0. b \in Books /\ SheetOf(b) \in Sheets
  BY SheetFacts DEF BookOK
<1>1. CASE e \in Markers
  <2>1. e.tag \in {"CompoundStart", "CompoundEnd"}
    BY <1>1 DEF Markers
  <2>2. Forward(b, e) = b
    BY <2>1 DEF Forward, GraphForward, StagedForward, ArrowForward
  <2>3. e \notin Edits
    BY <2>1 DEF Edits, ValueEvents, FormulaEvents, StagedEvents
  <2> QED BY <2>2, <2>3
<1>2. CASE e \in ValueEvents
  <2>1. e.tag = "SetValue" /\ e.cell \in Cells /\ e.new \in AllValues
    BY <1>2 DEF ValueEvents
  <2>2. Forward(b, e) = MirrorValue(Vacate(b, e.cell), e.cell, e.new)
    BY <2>1 DEF Forward, GraphForward, StagedForward, ArrowForward
  <2>3. /\ BookOK(Forward(b, e))
        /\ SheetOf(Forward(b, e)) =
             [SheetOf(b) EXCEPT ![e.cell] = [formula |-> None, value |-> e.new, staged |-> b.staged[e.cell]]]
    BY ONLY BookOK(b), <2>1, <2>2, LeavesForValue, SMT
  <2>4. After(e, SheetOf(b)[e.cell]) = [formula |-> None, value |-> e.new, staged |-> b.staged[e.cell]]
    <3>1. SheetOf(b)[e.cell].staged = b.staged[e.cell]
      BY <1>0, <2>1, SheetFacts
    <3> QED BY <1>0, <2>1, <3>1 DEF After, Sheets
  <2>5. e \notin Markers
    BY <2>1 DEF Markers
  <2> QED BY <2>3, <2>4, <2>5
<1>3. CASE e \in FormulaEvents
  <2>1. e.tag = "SetFormula" /\ e.cell \in Cells /\ e.new \in Formulas
    BY <1>3 DEF FormulaEvents
  <2>2. Forward(b, e) = ClearDelta(SetGraphFormula(b, e.cell, e.new), e.cell)
    BY <2>1 DEF Forward, GraphForward, StagedForward, ArrowForward
  <2>3. /\ BookOK(Forward(b, e))
        /\ SheetOf(Forward(b, e)) =
             [SheetOf(b) EXCEPT ![e.cell] = [formula |-> e.new, value |-> None, staged |-> b.staged[e.cell]]]
    BY <1>0, <2>1, <2>2, BecomesFormula
  <2>4. After(e, SheetOf(b)[e.cell]) = [formula |-> e.new, value |-> None, staged |-> b.staged[e.cell]]
    <3>1. SheetOf(b)[e.cell].staged = b.staged[e.cell]
      BY <1>0, <2>1, SheetFacts
    <3> QED BY <1>0, <2>1, <3>1 DEF After, Sheets
  <2>5. e \notin Markers
    BY <2>1 DEF Markers
  <2> QED BY <2>3, <2>4, <2>5
<1>4. CASE e \in StagedEvents
  <2>1. e.tag = "Staged" /\ e.cell \in Cells /\ e.new \in Formulas \cup {None}
    BY <1>4 DEF StagedEvents
  <2>2. Forward(b, e) = [b EXCEPT !.staged[e.cell] = e.new]
    BY <2>1 DEF Forward, GraphForward, StagedForward, ArrowForward
  <2>3. /\ BookOK(Forward(b, e))
        /\ SheetOf(Forward(b, e)) = [SheetOf(b) EXCEPT ![e.cell].staged = e.new]
    BY <1>0, <2>1, <2>2, BecomesStaged
  <2>4. After(e, SheetOf(b)[e.cell]) = [SheetOf(b)[e.cell] EXCEPT !.staged = e.new]
    BY <2>1 DEF After
  <2>5. e \notin Markers
    BY <2>1 DEF Markers
  <2> QED BY <2>3, <2>4, <2>5
<1> QED BY <1>1, <1>2, <1>3, <1>4 DEF Events, Edits

LEMMA BackwardFacts ==
  ASSUME NEW b, BookOK(b), NEW e \in Events
  PROVE  /\ BookOK(Backward(b, e))
         /\ e \in Markers => Backward(b, e) = b
         /\ e \in Edits => SheetOf(Backward(b, e)) =
                             [SheetOf(b) EXCEPT ![e.cell] = Before(e, SheetOf(b)[e.cell])]
<1>0. b \in Books /\ SheetOf(b) \in Sheets
  BY SheetFacts DEF BookOK
<1>1. CASE e \in Markers
  <2>1. e.tag \in {"CompoundStart", "CompoundEnd"}
    BY <1>1 DEF Markers
  <2>2. Backward(b, e) = b
    BY <2>1 DEF Backward, GraphBackward, StagedBackward, ArrowBackward, CellEdit
  <2>3. e \notin Edits
    BY <2>1 DEF Edits, ValueEvents, FormulaEvents, StagedEvents
  <2> QED BY <2>2, <2>3
<1>2. CASE e \in ValueEvents \cup FormulaEvents
  <2>1. /\ e.tag \in {"SetValue", "SetFormula"} /\ e.cell \in Cells
        /\ e.oldValue \in AllValues \cup {None} /\ e.oldFormula \in Formulas \cup {None}
    BY <1>2 DEF ValueEvents, FormulaEvents
  <2>2. e \notin Markers
    BY <2>1 DEF Markers
  <2>3. CASE e.oldFormula # None
    <3>1. Backward(b, e) = ClearDelta(SetGraphFormula(b, e.cell, e.oldFormula), e.cell)
      BY <2>1, <2>3 DEF Backward, GraphBackward, StagedBackward, ArrowBackward, CellEdit
    <3>2. /\ BookOK(Backward(b, e))
          /\ SheetOf(Backward(b, e)) =
               [SheetOf(b) EXCEPT ![e.cell] = [formula |-> e.oldFormula, value |-> None, staged |-> b.staged[e.cell]]]
      BY <1>0, <2>1, <2>3, <3>1, BecomesFormula
    <3>3. Before(e, SheetOf(b)[e.cell]) = [formula |-> e.oldFormula, value |-> None, staged |-> b.staged[e.cell]]
      <4>1. SheetOf(b)[e.cell].staged = b.staged[e.cell]
        BY <1>0, <2>1, SheetFacts
      <4>2. OldValue(e) = None /\ e.tag # "Staged"
        BY <2>1, <2>3 DEF OldValue
      <4> QED BY <1>0, <2>1, <4>1, <4>2 DEF Before, Sheets
    <3> QED BY <2>2, <3>2, <3>3
  <2>4. CASE e.oldFormula = None
    <3> DEFINE v == IF e.oldValue = None THEN Empty ELSE e.oldValue
    <3>0. v \in AllValues
      BY <2>1 DEF AllValues
    <3>1. \/ Backward(b, e) = MirrorValue(Vacate(b, e.cell), e.cell, v)
          \/ Backward(b, e) = MirrorValue(Retire(b, e.cell), e.cell, v)
      BY <2>1, <2>4 DEF Backward, GraphBackward, StagedBackward, ArrowBackward, CellEdit
    <3>2. /\ BookOK(Backward(b, e))
          /\ SheetOf(Backward(b, e)) =
               [SheetOf(b) EXCEPT ![e.cell] = [formula |-> None, value |-> v, staged |-> b.staged[e.cell]]]
      <4> HIDE DEF v
      <4> QED BY ONLY BookOK(b), <2>1, <3>0, <3>1, LeavesForValue, SMT
    <3>3. Before(e, SheetOf(b)[e.cell]) = [formula |-> None, value |-> v, staged |-> b.staged[e.cell]]
      <4>1. SheetOf(b)[e.cell].staged = b.staged[e.cell]
        BY <1>0, <2>1, SheetFacts
      <4>2. OldValue(e) = v /\ e.tag # "Staged"
        BY <2>1, <2>4 DEF OldValue
      <4> HIDE DEF v
      <4> QED BY <1>0, <2>1, <2>4, <4>1, <4>2 DEF Before, Sheets
    <3> QED BY <2>2, <3>2, <3>3
  <2> QED BY <2>3, <2>4
<1>4. CASE e \in StagedEvents
  <2>1. e.tag = "Staged" /\ e.cell \in Cells /\ e.old \in Formulas \cup {None}
    BY <1>4 DEF StagedEvents
  <2>2. Backward(b, e) = [b EXCEPT !.staged[e.cell] = e.old]
    BY <2>1 DEF Backward, GraphBackward, StagedBackward, ArrowBackward, CellEdit
  <2>3. /\ BookOK(Backward(b, e))
        /\ SheetOf(Backward(b, e)) = [SheetOf(b) EXCEPT ![e.cell].staged = e.old]
    BY <1>0, <2>1, <2>2, BecomesStaged
  <2>4. Before(e, SheetOf(b)[e.cell]) = [SheetOf(b)[e.cell] EXCEPT !.staged = e.old]
    BY <2>1 DEF Before
  <2>5. e \notin Markers
    BY <2>1 DEF Markers
  <2> QED BY <2>3, <2>4, <2>5
<1> QED BY <1>1, <1>2, <1>4 DEF Events, Edits

\* What an edit did, its inverse takes back.
LEMMA BeforeAfter ==
  ASSUME NEW P \in Sheets, NEW e \in Edits, P[e.cell] = Before(e, P[e.cell]),
         NEW Q \in Sheets, Q = [P EXCEPT ![e.cell] = After(e, P[e.cell])]
  PROVE  [Q EXCEPT ![e.cell] = Before(e, Q[e.cell])] = P
<1> DEFINE c == e.cell
<1>1. c \in Cells /\ e.tag \in {"SetValue", "SetFormula", "Staged"}
  BY DEF Edits, ValueEvents, FormulaEvents, StagedEvents
<1>2. Q[c] = After(e, P[c]) /\ P[c] \in [formula : Formulas \cup {None}, value : AllValues \cup {None},
                                         staged : Formulas \cup {None}]
  BY <1>1 DEF Sheets
<1>3. Before(e, Q[c]) = Before(e, P[c])
  <2>1. CASE e.tag = "Staged"
    BY <1>2, <2>1 DEF Before, After
  <2>2. CASE e.tag # "Staged"
    <3>1. Q[c].staged = P[c].staged
      BY <1>1, <1>2, <2>2 DEF After
    <3> QED BY <2>2, <3>1 DEF Before
  <2> QED BY <2>1, <2>2
<1>4. Before(e, Q[c]) = P[c]
  BY <1>3
<1> QED BY <1>1, <1>4 DEF Sheets

-----------------------------------------------------------------------------
(* A whole batch *)

\* Induction up to N.
LEMMA UpTo ==
  ASSUME NEW N \in Nat, NEW G, 0 \in G, \A k \in 1..N : k - 1 \in G => k \in G
  PROVE  0..N \subseteq G
<1> DEFINE T == {k \in 0..N : k \notin G}
<1> SUFFICES ASSUME T # {} PROVE FALSE
  OBVIOUS
<1>1. T \in SUBSET Nat
  OBVIOUS
<1>2. PICK m \in T : \A y \in T : m <= y
  <2> HIDE DEF T
  <2> QED BY <1>1, LeastElement
<1>3. m # 0 /\ m \in 0..N /\ m \notin G
  OBVIOUS
<1>4. m - 1 \in 0..N /\ m - 1 \notin T
  <2> HIDE DEF T
  <2> QED BY <1>2, <1>3
<1> QED BY <1>3, <1>4

GoodBooks == {b \in Books : BookOK(b)}

LEMMA GoodBook == \A b : b \in GoodBooks <=> BookOK(b)
BY DEF GoodBooks, BookOK

\* A loop stays in S when its steps do.
LEMMA LoopStays ==
  ASSUME NEW S, NEW N \in Nat, NEW s, NEW t, s = [n \in 0..N |-> t[n]],
         s[0] \in S, \A k \in 1..N : s[k - 1] \in S => s[k] \in S
  PROVE  s \in [0..N -> S]
<1> DEFINE G == {k \in 0..N : s[k] \in S}
<1>1. 0 \in G /\ \A k \in 1..N : k - 1 \in G => k \in G
  OBVIOUS
<1>2. 0..N \subseteq G
  <2> HIDE DEF G
  <2> QED BY <1>1, UpTo
<1> QED BY <1>2

\* redo_logged goes through the workbooks s.
LEMMA ForwardLoop ==
  ASSUME NEW b, BookOK(b), NEW batch \in Seq(Events)
  PROVE  \E s \in [0..Len(batch) -> GoodBooks] :
           /\ s[0] = b /\ s[Len(batch)] = ReplayForward(b, batch)
           /\ \A k \in 1..Len(batch) : s[k] = Forward(s[k - 1], batch[k])
<1> DEFINE N == Len(batch)
           Loop(t) == t = [n \in 0..N |-> IF n = 0 THEN b ELSE Forward(t[n - 1], batch[n])]
           f == [k \in 1..N |-> [x \in GoodBooks |-> Forward(x, batch[k])]]
<1>0. N \in Nat /\ b \in GoodBooks /\ \A k \in 1..N : batch[k] \in Events
  BY GoodBook
<1>1. \A x \in GoodBooks, k \in 1..N : Forward(x, batch[k]) \in GoodBooks
  BY <1>0, ForwardFacts, GoodBook
<1>2. f \in [1..N -> [GoodBooks -> GoodBooks]]
      /\ \A x \in GoodBooks, k \in 1..N : f[k][x] = Forward(x, batch[k])
  BY <1>1
<1> HIDE DEF f, N
<1>3. PICK t \in [0..N -> GoodBooks] : t[0] = b /\ \A k \in 1..N : t[k] = f[k][t[k - 1]]
  <2>1. N \in Nat /\ b \in GoodBooks /\ f \in [1..N -> [GoodBooks -> GoodBooks]]
    BY <1>0, <1>2
  <2> QED BY ONLY <2>1, LoopExists
<1>4. Loop(t)
  <2>1. \A k \in 0..N : k # 0 => t[k - 1] \in GoodBooks /\ k \in 1..N
    BY <1>0
  <2>2. \A k \in 0..N : k # 0 => f[k][t[k - 1]] = Forward(t[k - 1], batch[k])
    BY <1>2, <2>1
  <2>3. \A k \in 0..N : t[k] = IF k = 0 THEN b ELSE f[k][t[k - 1]]
    BY <1>0, <1>3
  <2> QED BY <2>2, <2>3
<1> DEFINE s == CHOOSE x : Loop(x)
<1>5. Loop(s) /\ ReplayForward(b, batch) = s[N]
  <2>1. Loop(s)
    <3> HIDE DEF Loop
    <3> QED BY <1>4
  <2> QED BY <2>1 DEF ReplayForward, N
<1> HIDE DEF s
<1>6. s[0] = b /\ \A k \in 1..N : s[k] = Forward(s[k - 1], batch[k])
  BY <1>0, <1>5
<1>7. s \in [0..N -> GoodBooks]
  <2>1. \A k \in 1..N : s[k - 1] \in GoodBooks => s[k] \in GoodBooks
    BY <1>1, <1>6
  <2>2. s = [n \in 0..N |-> s[n]]
    BY <1>5
  <2> HIDE DEF Loop
  <2> QED BY ONLY <1>0, <1>6, <2>1, <2>2, LoopStays, ZenonT(60)
<1> QED BY <1>5, <1>6, <1>7 DEF N

\* undo_logged goes through the workbooks s.
LEMMA BackwardLoop ==
  ASSUME NEW b, BookOK(b), NEW batch \in Seq(Events)
  PROVE  \E s \in [0..Len(batch) -> GoodBooks] :
           /\ s[0] = b /\ s[Len(batch)] = ReplayBackward(b, batch)
           /\ \A k \in 1..Len(batch) : s[k] = Backward(s[k - 1], batch[Len(batch) + 1 - k])
<1> DEFINE N == Len(batch)
           Loop(t) == t = [n \in 0..N |-> IF n = 0 THEN b ELSE Backward(t[n - 1], batch[N + 1 - n])]
           f == [k \in 1..N |-> [x \in GoodBooks |-> Backward(x, batch[N + 1 - k])]]
<1>0. N \in Nat /\ b \in GoodBooks /\ \A k \in 1..N : batch[N + 1 - k] \in Events
  <2>1. \A k \in 1..N : N + 1 - k \in 1..N
    OBVIOUS
  <2> QED BY <2>1, GoodBook
<1>1. \A x \in GoodBooks, k \in 1..N : Backward(x, batch[N + 1 - k]) \in GoodBooks
  BY <1>0, BackwardFacts, GoodBook
<1>2. f \in [1..N -> [GoodBooks -> GoodBooks]]
      /\ \A x \in GoodBooks, k \in 1..N : f[k][x] = Backward(x, batch[N + 1 - k])
  BY <1>1
<1> HIDE DEF f, N
<1>3. PICK t \in [0..N -> GoodBooks] : t[0] = b /\ \A k \in 1..N : t[k] = f[k][t[k - 1]]
  <2>1. N \in Nat /\ b \in GoodBooks /\ f \in [1..N -> [GoodBooks -> GoodBooks]]
    BY <1>0, <1>2
  <2> QED BY ONLY <2>1, LoopExists
<1>4. Loop(t)
  <2>1. \A k \in 0..N : k # 0 => t[k - 1] \in GoodBooks /\ k \in 1..N
    BY <1>0
  <2>2. \A k \in 0..N : k # 0 => f[k][t[k - 1]] = Backward(t[k - 1], batch[N + 1 - k])
    BY <1>2, <2>1
  <2>3. \A k \in 0..N : t[k] = IF k = 0 THEN b ELSE f[k][t[k - 1]]
    BY <1>0, <1>3
  <2> QED BY <2>2, <2>3
<1> DEFINE s == CHOOSE x : Loop(x)
<1>5. Loop(s) /\ ReplayBackward(b, batch) = s[N]
  <2>1. Loop(s)
    <3> HIDE DEF Loop
    <3> QED BY <1>4
  <2> QED BY <2>1 DEF ReplayBackward, N
<1> HIDE DEF s
<1>6. s[0] = b /\ \A k \in 1..N : s[k] = Backward(s[k - 1], batch[N + 1 - k])
  BY <1>0, <1>5
<1>7. s \in [0..N -> GoodBooks]
  <2>1. \A k \in 1..N : s[k - 1] \in GoodBooks => s[k] \in GoodBooks
    BY <1>1, <1>6
  <2>2. s = [n \in 0..N |-> s[n]]
    BY <1>5
  <2> HIDE DEF Loop
  <2> QED BY ONLY <1>0, <1>6, <2>1, <2>2, LoopStays, ZenonT(60)
<1> QED BY <1>5, <1>6, <1>7 DEF N

LEMMA LeadsForward ==
  ASSUME NEW b, BookOK(b), NEW e \in Events, NEW Q, Leads(e, SheetOf(b), Q)
  PROVE  SheetOf(Forward(b, e)) = Q
BY ForwardFacts DEF Leads

LEMMA LeadsBackward ==
  ASSUME NEW b, BookOK(b), NEW e \in Events, NEW P \in Sheets, Leads(e, P, SheetOf(b))
  PROVE  SheetOf(Backward(b, e)) = P
<1>1. SheetOf(b) \in Sheets
  BY SheetFacts DEF BookOK
<1>2. CASE e \in Markers /\ SheetOf(b) = P
  BY <1>2, BackwardFacts
<1>3. CASE /\ e \in Edits /\ P[e.cell] = Before(e, P[e.cell])
           /\ SheetOf(b) = [P EXCEPT ![e.cell] = After(e, P[e.cell])]
  <2>1. SheetOf(Backward(b, e)) = [SheetOf(b) EXCEPT ![e.cell] = Before(e, SheetOf(b)[e.cell])]
    BY <1>3, BackwardFacts
  <2> QED BY <1>1, <1>3, <2>1, BeforeAfter
<1> QED BY <1>2, <1>3 DEF Leads

\* Redo and undo of a batch go from one end of it to the other.
LEMMA ReplayForwardFacts ==
  ASSUME NEW b, BookOK(b), NEW batch \in Seq(Events)
  PROVE  /\ BookOK(ReplayForward(b, batch))
         /\ \A Q : Bridge(batch, SheetOf(b), Q) => SheetOf(ReplayForward(b, batch)) = Q
<1>1. PICK s \in [0..Len(batch) -> GoodBooks] :
           /\ s[0] = b /\ s[Len(batch)] = ReplayForward(b, batch)
           /\ \A k \in 1..Len(batch) : s[k] = Forward(s[k - 1], batch[k])
  BY ForwardLoop
<1>0. Len(batch) \in Nat /\ Len(batch) \in 0..Len(batch) /\ \A k \in 1..Len(batch) : batch[k] \in Events
  OBVIOUS
<1>2. BookOK(ReplayForward(b, batch))
  BY <1>0, <1>1, GoodBook
<1>3. ASSUME NEW Q, Bridge(batch, SheetOf(b), Q) PROVE SheetOf(ReplayForward(b, batch)) = Q
  <2>1. PICK t \in [0..Len(batch) -> Sheets] :
               t[0] = SheetOf(b) /\ t[Len(batch)] = Q /\ \A i \in 1..Len(batch) : Leads(batch[i], t[i - 1], t[i])
    BY <1>3 DEF Bridge
  <2> DEFINE G == {k \in 0..Len(batch) : SheetOf(s[k]) = t[k]}
  <2>2. 0 \in G
    BY <1>1, <2>1
  <2>3. ASSUME NEW k \in 1..Len(batch), k - 1 \in G PROVE k \in G
    <3>1. BookOK(s[k - 1]) /\ SheetOf(s[k - 1]) = t[k - 1]
      BY <2>3, GoodBook
    <3>2. Leads(batch[k], SheetOf(s[k - 1]), t[k]) /\ batch[k] \in Events
      BY <1>0, <2>1, <3>1
    <3>3. SheetOf(s[k]) = t[k]
      BY <1>1, <3>1, <3>2, LeadsForward
    <3> QED BY <3>3
  <2> HIDE DEF G
  <2>4. 0..Len(batch) \subseteq G
    BY <1>0, <2>2, <2>3, UpTo
  <2> QED BY <1>0, <1>1, <2>1, <2>4 DEF G
<1> QED BY <1>2, <1>3

LEMMA ReplayBackwardFacts ==
  ASSUME NEW b, BookOK(b), NEW batch \in Seq(Events)
  PROVE  /\ BookOK(ReplayBackward(b, batch))
         /\ \A P : Bridge(batch, P, SheetOf(b)) => SheetOf(ReplayBackward(b, batch)) = P
<1> DEFINE N == Len(batch)
<1>1. PICK s \in [0..N -> GoodBooks] :
           /\ s[0] = b /\ s[N] = ReplayBackward(b, batch)
           /\ \A k \in 1..N : s[k] = Backward(s[k - 1], batch[N + 1 - k])
  BY BackwardLoop
<1>0. N \in Nat /\ N \in 0..N /\ \A k \in 1..N : batch[k] \in Events
  OBVIOUS
<1>2. BookOK(ReplayBackward(b, batch))
  BY <1>0, <1>1, GoodBook
<1>3. ASSUME NEW P, Bridge(batch, P, SheetOf(b)) PROVE SheetOf(ReplayBackward(b, batch)) = P
  <2>1. PICK t \in [0..N -> Sheets] :
               t[0] = P /\ t[N] = SheetOf(b) /\ \A i \in 1..N : Leads(batch[i], t[i - 1], t[i])
    BY <1>3 DEF Bridge
  <2> HIDE DEF N
  <2> DEFINE G == {k \in 0..N : SheetOf(s[k]) = t[N - k]}
  <2>2. 0 \in G
    BY <1>0, <1>1, <2>1
  <2>3. ASSUME NEW k \in 1..N, k - 1 \in G PROVE k \in G
    <3>1. BookOK(s[k - 1]) /\ SheetOf(s[k - 1]) = t[N - (k - 1)]
      BY <1>0, <2>3, GoodBook
    <3>2. N + 1 - k \in 1..N /\ N - (k - 1) = N + 1 - k /\ (N + 1 - k) - 1 = N - k /\ N - k \in 0..N /\ k \in 0..N
      BY <1>0
    <3>3. Leads(batch[N + 1 - k], t[N - k], SheetOf(s[k - 1])) /\ batch[N + 1 - k] \in Events /\ t[N - k] \in Sheets
      BY <1>0, <2>1, <3>1, <3>2
    <3>4. SheetOf(s[k]) = t[N - k]
      BY <1>1, <3>1, <3>3, LeadsBackward
    <3> QED BY <3>2, <3>4
  <2> HIDE DEF G
  <2>4. 0..N \subseteq G
    BY <1>0, <2>2, <2>3, UpTo
  <2>5. SheetOf(s[N]) = t[N - N] /\ N - N = 0
    BY <1>0, <2>4 DEF G
  <2> QED BY <1>1, <2>1, <2>5
<1> QED BY <1>2, <1>3

LEMMA BridgeEnds ==
  ASSUME NEW es \in Seq(Events), NEW P, NEW Q, Bridge(es, P, Q)
  PROVE  P \in Sheets /\ Q \in Sheets
<1>1. Len(es) \in Nat
  OBVIOUS
<1> QED BY <1>1 DEF Bridge

LEMMA BridgeEmpty ==
  ASSUME NEW P \in Sheets
  PROVE  Bridge(<<>>, P, P)
<1> DEFINE s == [i \in 0..0 |-> P]
<1>1. s \in [0..0 -> Sheets] /\ s[0] = P
  OBVIOUS
<1>2. Len(<<>>) = 0 /\ 1..0 = {}
  OBVIOUS
<1> HIDE DEF s
<1> QED BY <1>1, <1>2 DEF Bridge

LEMMA BridgeAppend ==
  ASSUME NEW es \in Seq(Events), NEW e \in Events, NEW P, NEW Q, NEW R \in Sheets,
         Bridge(es, P, Q), Leads(e, Q, R)
  PROVE  Bridge(Append(es, e), P, R)
<1> DEFINE N == Len(es)
           fs == Append(es, e)
<1>0. N \in Nat /\ Len(fs) = N + 1 /\ fs[N + 1] = e /\ \A i \in 1..N : fs[i] = es[i]
  OBVIOUS
<1>1. PICK s \in [0..N -> Sheets] :
             s[0] = P /\ s[N] = Q /\ \A i \in 1..N : Leads(es[i], s[i - 1], s[i])
  BY DEF Bridge
<1> DEFINE t == [i \in 0..(N + 1) |-> IF i = N + 1 THEN R ELSE s[i]]
<1> HIDE DEF N, fs
<1>2. t \in [0..(N + 1) -> Sheets] /\ t[0] = P /\ t[N + 1] = R /\ \A i \in 0..N : t[i] = s[i]
  BY <1>0, <1>1
<1> HIDE DEF t
<1>3. \A i \in 1..(N + 1) : Leads(fs[i], t[i - 1], t[i])
  <2> TAKE i \in 1..(N + 1)
  <2>1. CASE i = N + 1
    <3>1. fs[i] = e /\ t[i - 1] = Q /\ t[i] = R
      BY <1>0, <1>1, <1>2, <2>1
    <3> QED BY <3>1
  <2>2. CASE i # N + 1
    <3>1. i \in 1..N /\ fs[i] = es[i] /\ t[i - 1] = s[i - 1] /\ t[i] = s[i]
      BY <1>0, <1>2, <2>2
    <3> QED BY <1>1, <3>1
  <2> QED BY <2>1, <2>2
<1>4. Bridge(fs, P, R)
  BY <1>0, <1>2, <1>3 DEF Bridge
<1> QED BY <1>4 DEF fs

-----------------------------------------------------------------------------
(* The actions on the log: entries of one group each, one after the other *)

\* The action that starts at entry st[k] ends before the next one starts.
EndOf(r, st, k) == IF k = Len(st) THEN Len(r) ELSE st[k + 1] - 1

Batch(r, st, k) == [i \in 1..(EndOf(r, st, k) - st[k] + 1) |-> r[st[k] + i - 1].ev]

Segments(r, st) ==
  /\ r \in Seq(Entries) /\ st \in Seq(Nat)
  /\ Len(st) = 0 <=> Len(r) = 0
  /\ Len(st) > 0 => st[1] = 1
  /\ \A k \in 1..Len(st) : st[k] \in 1..Len(r) /\ r[st[k]].group > 0
  /\ \A k, j \in 1..Len(st) : k < j => st[k] < st[j] /\ r[st[k]].group < r[st[j]].group
  /\ \A k \in 1..Len(st) : \A i \in 1..Len(r) :
       st[k] <= i /\ i <= EndOf(r, st, k) => r[i].group = r[st[k]].group
  /\ \A i \in 1..Len(r) : \E k \in 1..Len(st) : st[k] <= i /\ i <= EndOf(r, st, k)

\* The first n actions of one log and of the other are the same.
SameActions(q, su, r, st, n) ==
  \A k \in 1..n : q[su[k]] = r[st[k]] /\ Batch(q, su, k) = Batch(r, st, k)

LEMMA SegmentEnds ==
  ASSUME NEW r, NEW st, Segments(r, st), NEW k \in 1..Len(st)
  PROVE  EndOf(r, st, k) \in st[k]..Len(r) /\ st[k] \in Nat /\ Len(r) \in Nat /\ Len(st) \in Nat
<1>1. Len(r) \in Nat /\ Len(st) \in Nat /\ st[k] \in 1..Len(r)
  <2>1. r \in Seq(Entries) /\ st \in Seq(Nat) /\ st[k] \in 1..Len(r)
    BY DEF Segments
  <2> QED BY <2>1
<1>2. CASE k = Len(st)
  BY <1>1, <1>2 DEF EndOf
<1>3. CASE k # Len(st)
  <2>1. k + 1 \in 1..Len(st) /\ k < k + 1
    BY <1>1, <1>3
  <2>2. st[k] < st[k + 1] /\ st[k + 1] \in 1..Len(r)
    BY <2>1 DEF Segments
  <2> QED BY <1>1, <1>3, <2>2 DEF EndOf
<1> QED BY <1>2, <1>3

LEMMA BatchFacts ==
  ASSUME NEW r, NEW st, Segments(r, st), NEW k \in 1..Len(st)
  PROVE  /\ Batch(r, st, k) \in Seq(Events) /\ Batch(r, st, k) # <<>>
         /\ Len(Batch(r, st, k)) = EndOf(r, st, k) - st[k] + 1
         /\ \A i \in 1..(EndOf(r, st, k) - st[k] + 1) : Batch(r, st, k)[i] = r[st[k] + i - 1].ev
<1> DEFINE n == EndOf(r, st, k) - st[k] + 1
           b == Batch(r, st, k)
<1>1. n \in Nat /\ n > 0 /\ \A i \in 1..n : st[k] + i - 1 \in 1..Len(r)
  <2>1. st[k] \in 1..Len(r)
    BY DEF Segments
  <2> QED BY <2>1, SegmentEnds
<1>2. \A i \in 1..n : r[st[k] + i - 1].ev \in Events
  <2>1. \A j \in 1..Len(r) : r[j] \in Entries
    BY DEF Segments
  <2> QED BY <1>1, <2>1 DEF Entries
<1>3. b = [i \in 1..n |-> r[st[k] + i - 1].ev]
  BY DEF Batch
<1> HIDE DEF n, b
<1>4. b \in [1..n -> Events] /\ \A i \in 1..n : b[i] = r[st[k] + i - 1].ev
  BY <1>2, <1>3
<1>5. b \in Seq(Events)
  BY <1>1, <1>4, SeqDef
<1>6. Len(b) = n
  BY <1>1, <1>4, <1>5
<1>7. b # <<>>
  BY <1>1, <1>6
<1> QED BY <1>4, <1>5, <1>6, <1>7 DEF n, b

\* An event of the open action.
LEMMA SegmentsGrow ==
  ASSUME NEW r, NEW st, Segments(r, st), Len(st) > 0, NEW x \in Entries,
         x.group = r[st[Len(st)]].group
  PROVE  /\ Segments(Append(r, x), st)
         /\ \A k \in 1..Len(st) : Append(r, x)[st[k]] = r[st[k]]
         /\ Batch(Append(r, x), st, Len(st)) = Append(Batch(r, st, Len(st)), x.ev)
         /\ \A k \in 1..(Len(st) - 1) : Batch(Append(r, x), st, k) = Batch(r, st, k)
<1> DEFINE n == Len(st)
           q == Append(r, x)
<1>1. /\ r \in Seq(Entries) /\ st \in Seq(Nat) /\ n \in Nat /\ n \in 1..n /\ Len(r) \in Nat
      /\ q \in Seq(Entries) /\ Len(q) = Len(r) + 1 /\ q[Len(r) + 1] = x
      /\ \A i \in 1..Len(r) : q[i] = r[i]
  BY DEF Segments
<1> HIDE DEF q
<1>2. \A k \in 1..n : st[k] \in 1..Len(r) /\ q[st[k]] = r[st[k]]
  BY <1>1 DEF Segments
<1>3. EndOf(q, st, n) = Len(r) + 1 /\ EndOf(r, st, n) = Len(r)
      /\ \A k \in 1..(n - 1) : EndOf(q, st, k) = EndOf(r, st, k)
  BY <1>1 DEF EndOf
<1>4. Segments(q, st)
  <2>1. \A k \in 1..n : \A i \in 1..Len(q) :
          st[k] <= i /\ i <= EndOf(q, st, k) => q[i].group = q[st[k]].group
    <3> SUFFICES ASSUME NEW k \in 1..n, NEW i \in 1..Len(q), st[k] <= i, i <= EndOf(q, st, k)
                 PROVE  q[i].group = q[st[k]].group
      OBVIOUS
    <3>1. CASE i = Len(r) + 1
      <4>1. k = n
        <5> SUFFICES ASSUME k # n PROVE FALSE
          OBVIOUS
        <5>1. k \in 1..(n - 1)
          BY <1>1
        <5> QED BY <1>1, <1>3, <3>1, <5>1, SegmentEnds
      <4> QED BY <1>1, <1>2, <3>1, <4>1
    <3>2. CASE i # Len(r) + 1
      <4>1. i \in 1..Len(r) /\ q[i] = r[i]
        BY <1>1, <3>2
      <4>2. i <= EndOf(r, st, k)
        <5>1. CASE k = n
          BY <1>3, <4>1, <5>1
        <5>2. CASE k # n
          <6>1. k \in 1..(n - 1)
            BY <1>1, <5>2
          <6> QED BY <1>3, <6>1
        <5> QED BY <5>1, <5>2
      <4>3. r[i].group = r[st[k]].group
        BY <4>1, <4>2 DEF Segments
      <4> QED BY <1>2, <4>1, <4>3
    <3> QED BY <3>1, <3>2
  <2>2. \A i \in 1..Len(q) : \E k \in 1..n : st[k] <= i /\ i <= EndOf(q, st, k)
    <3> TAKE i \in 1..Len(q)
    <3>1. CASE i = Len(r) + 1
      <4>1. st[n] <= i /\ i <= EndOf(q, st, n)
        BY <1>1, <1>2, <1>3, <3>1
      <4> QED BY <1>1, <4>1
    <3>2. CASE i # Len(r) + 1
      <4>1. i \in 1..Len(r)
        BY <1>1, <3>2
      <4>2. PICK k \in 1..n : st[k] <= i /\ i <= EndOf(r, st, k)
        BY <4>1 DEF Segments
      <4>3. i <= EndOf(q, st, k)
        <5>1. CASE k = n
          BY <1>1, <1>3, <4>1, <5>1
        <5>2. CASE k # n
          <6>1. k \in 1..(n - 1)
            BY <1>1, <5>2
          <6> QED BY <1>3, <4>2, <6>1
        <5> QED BY <5>1, <5>2
      <4> QED BY <4>2, <4>3
    <3> QED BY <3>1, <3>2
  <2>3. \A k \in 1..n : st[k] \in 1..Len(q) /\ q[st[k]].group > 0
    BY <1>1, <1>2 DEF Segments
  <2>4. \A k, j \in 1..n : k < j => st[k] < st[j] /\ q[st[k]].group < q[st[j]].group
    BY <1>1, <1>2 DEF Segments
  <2>5. (n = 0 <=> Len(q) = 0) /\ (n > 0 => st[1] = 1)
    BY <1>1 DEF Segments
  <2> QED BY <1>1, <2>1, <2>2, <2>3, <2>4, <2>5 DEF Segments
<1>5. Batch(q, st, n) = Append(Batch(r, st, n), x.ev)
  <2> DEFINE a == Batch(q, st, n)
             b == Batch(r, st, n)
             len == Len(r) - st[n] + 1
  <2>1. /\ a \in Seq(Events) /\ Len(a) = len + 1
        /\ \A i \in 1..(len + 1) : a[i] = q[st[n] + i - 1].ev
    <3>1. /\ a \in Seq(Events) /\ Len(a) = EndOf(q, st, n) - st[n] + 1
          /\ \A i \in 1..(EndOf(q, st, n) - st[n] + 1) : a[i] = q[st[n] + i - 1].ev
      <4>1. Segments(q, st) /\ n \in 1..Len(st)
        BY <1>1, <1>4
      <4> HIDE DEF n
      <4> QED BY ONLY <4>1, BatchFacts
    <3>2. EndOf(q, st, n) - st[n] + 1 = len + 1
      BY <1>1, <1>2, <1>3
    <3> QED BY <3>1, <3>2
  <2>2. /\ b \in Seq(Events) /\ Len(b) = len
        /\ \A i \in 1..len : b[i] = r[st[n] + i - 1].ev
    <3>1. /\ b \in Seq(Events) /\ Len(b) = EndOf(r, st, n) - st[n] + 1
          /\ \A i \in 1..(EndOf(r, st, n) - st[n] + 1) : b[i] = r[st[n] + i - 1].ev
      <4>1. Segments(r, st) /\ n \in 1..Len(st)
        BY <1>1
      <4> HIDE DEF n
      <4> QED BY ONLY <4>1, BatchFacts
    <3>2. EndOf(r, st, n) - st[n] + 1 = len
      BY <1>1, <1>2, <1>3
    <3> QED BY <3>1, <3>2
  <2>3. len \in Nat /\ st[n] + (len + 1) - 1 = Len(r) + 1 /\ \A i \in 1..len : st[n] + i - 1 \in 1..Len(r) /\ i \in 1..(len + 1)
    BY <1>1, <1>2, SMTT(30)
  <2>4. x.ev \in Events
    BY DEF Entries
  <2> HIDE DEF a, b, len, n
  <2>5. /\ Append(b, x.ev) \in Seq(Events) /\ Len(Append(b, x.ev)) = len + 1
        /\ Append(b, x.ev)[len + 1] = x.ev /\ \A i \in 1..len : Append(b, x.ev)[i] = b[i]
    BY <2>2, <2>4
  <2>6. \A i \in 1..(len + 1) : a[i] = Append(b, x.ev)[i]
    <3> TAKE i \in 1..(len + 1)
    <3>1. CASE i = len + 1
      BY <1>1, <2>1, <2>3, <2>5, <3>1
    <3>2. CASE i # len + 1
      <4>1. i \in 1..len
        BY <2>3, <3>2
      <4>2. q[st[n] + i - 1] = r[st[n] + i - 1]
        BY <1>1, <2>3, <4>1
      <4> QED BY <2>1, <2>2, <2>5, <4>1, <4>2
    <3> QED BY <3>1, <3>2
  <2>7. a = Append(b, x.ev)
    BY <2>1, <2>5, <2>6, SeqEqual
  <2> QED BY <2>7 DEF a, b
<1>6. ASSUME NEW k \in 1..(n - 1) PROVE Batch(q, st, k) = Batch(r, st, k)
  <2>1. k \in 1..n
    BY <1>1
  <2>2. st[k] \in 1..Len(r) /\ EndOf(r, st, k) \in st[k]..Len(r)
    BY <1>2, <2>1, SegmentEnds
  <2>3. \A i \in 1..(EndOf(r, st, k) - st[k] + 1) : q[st[k] + i - 1] = r[st[k] + i - 1]
    <3>0. Len(r) \in Nat /\ \A i \in 1..Len(r) : q[i] = r[i]
      BY <1>1
    <3>1. \A i \in 1..(EndOf(r, st, k) - st[k] + 1) : st[k] + i - 1 \in 1..Len(r)
      BY ONLY <2>2, <3>0
    <3> QED BY ONLY <3>0, <3>1
  <2> QED BY <1>3, <2>3 DEF Batch
<1> QED BY <1>2, <1>4, <1>5, <1>6 DEF q

\* The first event of an action.
LEMMA SegmentsOpen ==
  ASSUME NEW r, NEW st, Segments(r, st), NEW x \in Entries, x.group > 0,
         \A k \in 1..Len(st) : r[st[k]].group < x.group
  PROVE  LET q == Append(r, x)
             su == Append(st, Len(r) + 1) IN
         /\ Segments(q, su)
         /\ Len(su) = Len(st) + 1 /\ q[su[Len(su)]] = x
         /\ Batch(q, su, Len(su)) = <<x.ev>>
         /\ SameActions(q, su, r, st, Len(st))
<1> DEFINE n == Len(st)
           q == Append(r, x)
           su == Append(st, Len(r) + 1)
<1>1. /\ r \in Seq(Entries) /\ st \in Seq(Nat) /\ n \in Nat /\ Len(r) \in Nat
      /\ q \in Seq(Entries) /\ Len(q) = Len(r) + 1 /\ q[Len(r) + 1] = x
      /\ \A i \in 1..Len(r) : q[i] = r[i]
  BY DEF Segments
<1>2. /\ su \in Seq(Nat) /\ Len(su) = n + 1 /\ su[n + 1] = Len(r) + 1
      /\ \A k \in 1..n : su[k] = st[k]
  BY <1>1
<1> HIDE DEF q, su
<1>3. \A k \in 1..n : st[k] \in 1..Len(r) /\ q[st[k]] = r[st[k]] /\ q[su[k]] = r[st[k]]
  <2>1. \A k \in 1..n : st[k] \in 1..Len(r)
    BY DEF Segments
  <2> QED BY <1>1, <1>2, <2>1
<1>4. EndOf(q, su, n + 1) = Len(r) + 1 /\ \A k \in 1..n : EndOf(q, su, k) = EndOf(r, st, k)
  <2>1. EndOf(q, su, n + 1) = Len(r) + 1
    BY <1>1, <1>2 DEF EndOf
  <2>2. ASSUME NEW k \in 1..n PROVE EndOf(q, su, k) = EndOf(r, st, k)
    <3>1. EndOf(q, su, k) = su[k + 1] - 1
      BY <1>1, <1>2 DEF EndOf
    <3>2. CASE k = n
      BY <1>1, <1>2, <3>1, <3>2 DEF EndOf
    <3>3. CASE k # n
      <4>1. k + 1 \in 1..n
        BY <1>1, <3>3
      <4> QED BY <1>2, <3>1, <3>3, <4>1 DEF EndOf
    <3> QED BY <3>2, <3>3
  <2> QED BY <2>1, <2>2
<1>5. \A k \in 1..n : EndOf(r, st, k) \in st[k]..Len(r)
  BY SegmentEnds
<1>n. \A k \in 1..(n + 1) : k \in 1..n \/ k = n + 1
  BY <1>1
<1>6. Segments(q, su)
  <2>1. \A k \in 1..(n + 1) : \A i \in 1..Len(q) :
          su[k] <= i /\ i <= EndOf(q, su, k) => q[i].group = q[su[k]].group
    <3> SUFFICES ASSUME NEW k \in 1..(n + 1), NEW i \in 1..Len(q), su[k] <= i, i <= EndOf(q, su, k)
                 PROVE  q[i].group = q[su[k]].group
      OBVIOUS
    <3>1. CASE k = n + 1
      <4>1. i = Len(r) + 1
        BY <1>1, <1>2, <1>4, <3>1
      <4> QED BY <1>2, <3>1, <4>1
    <3>2. CASE k \in 1..n
      <4>1. i \in 1..Len(r) /\ st[k] <= i /\ i <= EndOf(r, st, k)
        BY <1>1, <1>2, <1>3, <1>4, <1>5, <3>2
      <4>2. r[i].group = r[st[k]].group
        BY <3>2, <4>1 DEF Segments
      <4> QED BY <1>1, <1>3, <3>2, <4>1, <4>2
    <3> QED BY <1>n, <3>1, <3>2
  <2>2. \A i \in 1..Len(q) : \E k \in 1..(n + 1) : su[k] <= i /\ i <= EndOf(q, su, k)
    <3> TAKE i \in 1..Len(q)
    <3>1. CASE i = Len(r) + 1
      <4>1. n + 1 \in 1..(n + 1) /\ su[n + 1] <= i /\ i <= EndOf(q, su, n + 1)
        BY <1>1, <1>2, <1>4, <3>1
      <4> QED BY <4>1
    <3>2. CASE i # Len(r) + 1
      <4>1. i \in 1..Len(r)
        BY <1>1, <3>2
      <4>2. PICK k \in 1..n : st[k] <= i /\ i <= EndOf(r, st, k)
        BY <4>1 DEF Segments
      <4>3. k \in 1..(n + 1) /\ su[k] <= i /\ i <= EndOf(q, su, k)
        BY <1>1, <1>2, <1>4, <4>2
      <4> QED BY <4>3
    <3> QED BY <3>1, <3>2
  <2>3. \A k \in 1..(n + 1) : su[k] \in 1..Len(q) /\ q[su[k]].group > 0
    <3> TAKE k \in 1..(n + 1)
    <3>1. CASE k = n + 1
      BY <1>1, <1>2, <3>1
    <3>2. CASE k \in 1..n
      <4>1. st[k] \in 1..Len(r) /\ r[st[k]].group > 0
        BY <3>2 DEF Segments
      <4> QED BY <1>1, <1>2, <1>3, <3>2, <4>1
    <3> QED BY <1>n, <3>1, <3>2
  <2>4. \A k, j \in 1..(n + 1) : k < j => su[k] < su[j] /\ q[su[k]].group < q[su[j]].group
    <3> SUFFICES ASSUME NEW k \in 1..(n + 1), NEW j \in 1..(n + 1), k < j
                 PROVE  su[k] < su[j] /\ q[su[k]].group < q[su[j]].group
      OBVIOUS
    <3>0. k \in 1..n
      BY <1>1
    <3>1. CASE j = n + 1
      <4>1. su[k] = st[k] /\ st[k] \in 1..Len(r) /\ q[su[k]] = r[st[k]]
        BY <1>2, <1>3, <3>0
      <4>2. su[j] = Len(r) + 1 /\ q[su[j]] = x
        BY <1>1, <1>2, <3>1
      <4>3. st[k] < Len(r) + 1
        BY <1>1, <4>1
      <4>4. r[st[k]].group < x.group
        BY <3>0
      <4> QED BY <4>1, <4>2, <4>3, <4>4
    <3>2. CASE j \in 1..n
      <4>1. st[k] < st[j] /\ r[st[k]].group < r[st[j]].group
        BY <3>0, <3>2 DEF Segments
      <4> QED BY <1>2, <1>3, <3>0, <3>2, <4>1
    <3> QED BY <1>n, <3>1, <3>2
  <2>5. (n + 1 = 0 <=> Len(q) = 0) /\ su[1] = 1
    <3>1. CASE n = 0
      <4>1. Len(r) = 0
        BY <3>1 DEF Segments
      <4> QED BY <1>1, <1>2, <3>1, <4>1
    <3>2. CASE n # 0
      <4>1. 1 \in 1..n /\ st[1] = 1
        BY <1>1, <3>2 DEF Segments
      <4> QED BY <1>1, <1>2, <4>1
    <3> QED BY <3>1, <3>2
  <2> QED BY <1>1, <1>2, <2>1, <2>2, <2>3, <2>4, <2>5 DEF Segments
<1>7. Batch(q, su, n + 1) = <<x.ev>>
  <2>1. Batch(q, su, n + 1) = [i \in 1..1 |-> q[Len(r) + i].ev]
    <3>1. EndOf(q, su, n + 1) - su[n + 1] + 1 = 1
      BY <1>1, <1>2, <1>4
    <3>2. \A i \in 1..1 : q[su[n + 1] + i - 1].ev = q[Len(r) + i].ev
      <4>1. \A i \in 1..1 : su[n + 1] + i - 1 = Len(r) + i
        BY <1>1, <1>2
      <4> QED BY <4>1
    <3> QED BY <3>1, <3>2 DEF Batch
  <2>2. \A i \in 1..1 : q[Len(r) + i].ev = x.ev
    BY <1>1
  <2>3. [i \in 1..1 |-> q[Len(r) + i].ev] = [i \in 1..1 |-> x.ev]
    BY <2>2
  <2>4. [i \in 1..1 |-> x.ev] = <<x.ev>>
    OBVIOUS
  <2> QED BY <2>1, <2>3, <2>4
<1>8. ASSUME NEW k \in 1..n PROVE Batch(q, su, k) = Batch(r, st, k)
  <2>1. su[k] = st[k] /\ EndOf(q, su, k) = EndOf(r, st, k)
    BY <1>2, <1>4
  <2>2. st[k] \in 1..Len(r) /\ EndOf(r, st, k) \in st[k]..Len(r)
    BY <1>3, <1>5
  <2>3. \A i \in 1..(EndOf(r, st, k) - st[k] + 1) : q[st[k] + i - 1] = r[st[k] + i - 1]
    <3>1. \A i \in 1..(EndOf(r, st, k) - st[k] + 1) : st[k] + i - 1 \in 1..Len(r)
      BY <1>1, <2>2, SMTT(30)
    <3> QED BY <1>1, <3>1
  <2> QED BY <2>1, <2>3 DEF Batch
<1>9. SameActions(q, su, r, st, n)
  BY <1>3, <1>8 DEF SameActions
<1> QED BY <1>1, <1>2, <1>6, <1>7, <1>9 DEF q, su

LEMMA PrefixFacts ==
  ASSUME NEW S, NEW s \in Seq(S), NEW m \in 0..Len(s)
  PROVE  /\ SubSeq(s, 1, m) \in Seq(S) /\ Len(SubSeq(s, 1, m)) = m
         /\ \A i \in 1..m : SubSeq(s, 1, m)[i] = s[i]
<1>1. Len(s) \in Nat /\ m \in Int /\ 1 \in Int /\ \A i \in 1..m : s[i] \in S
  OBVIOUS
<1>2. SubSeq(s, 1, m) \in Seq(S) /\ Len(SubSeq(s, 1, m)) = IF 1 <= m THEN m - 1 + 1 ELSE 0
  BY <1>1, SubSeqProperties
<1>3. Len(SubSeq(s, 1, m)) = m
  BY <1>1, <1>2
<1>4. \A i \in 1..m : SubSeq(s, 1, m)[i] = s[i]
  OBVIOUS
<1> QED BY <1>2, <1>3, <1>4

\* The last action is taken off the log.
LEMMA SegmentsCut ==
  ASSUME NEW r, NEW st, Segments(r, st), Len(st) > 0
  PROVE  LET q == SubSeq(r, 1, st[Len(st)] - 1)
             su == SubSeq(st, 1, Len(st) - 1) IN
         /\ Segments(q, su)
         /\ Len(su) = Len(st) - 1
         /\ SameActions(q, su, r, st, Len(st) - 1)
<1> DEFINE n == Len(st)
           q == SubSeq(r, 1, st[Len(st)] - 1)
           su == SubSeq(st, 1, Len(st) - 1)
           m == st[n] - 1
<1>1. r \in Seq(Entries) /\ st \in Seq(Nat) /\ n \in Nat /\ n \in 1..n /\ Len(r) \in Nat
  BY DEF Segments
<1>2. st[n] \in 1..Len(r) /\ m \in Nat /\ m < Len(r)
  <2>1. st[n] \in 1..Len(r)
    BY <1>1 DEF Segments
  <2> QED BY <1>1, <2>1
<1>3. /\ q \in Seq(Entries) /\ Len(q) = m /\ \A i \in 1..m : q[i] = r[i]
  BY <1>1, <1>2
<1>4. /\ su \in Seq(Nat) /\ Len(su) = n - 1 /\ \A k \in 1..(n - 1) : su[k] = st[k]
  <2>1. n - 1 \in 0..Len(st)
    BY <1>1
  <2> QED BY <1>1, <2>1, PrefixFacts
<1>m. m + 1 = st[n] /\ m \in Nat
  BY <1>2
<1> HIDE DEF m, q, su
<1>5. \A k \in 1..(n - 1) : k \in 1..n /\ st[k] \in 1..m /\ q[su[k]] = r[st[k]]
  <2>1. \A k \in 1..(n - 1) : k \in 1..n /\ k < n
    BY <1>1
  <2>2. \A k \in 1..(n - 1) : st[k] \in 1..Len(r) /\ st[k] < st[n]
    BY <1>1, <2>1 DEF Segments
  <2>3. \A k \in 1..(n - 1) : st[k] \in 1..m
    BY <1>2, <1>m, <2>2
  <2> QED BY <1>3, <1>4, <2>1, <2>3
<1>6. \A k \in 1..(n - 1) : EndOf(q, su, k) = EndOf(r, st, k)
  <2> TAKE k \in 1..(n - 1)
  <2>1. EndOf(r, st, k) = st[k + 1] - 1
    BY <1>1 DEF EndOf
  <2>2. CASE k = n - 1
    <3>1. EndOf(q, su, k) = m
      BY <1>3, <1>4, <2>2 DEF EndOf
    <3>2. k + 1 = n
      BY <1>1, <2>2
    <3> QED BY <1>m, <2>1, <3>1, <3>2
  <2>3. CASE k # n - 1
    <3>1. k + 1 \in 1..(n - 1)
      BY <1>1, <2>3
    <3> QED BY <1>4, <2>1, <2>3, <3>1 DEF EndOf
  <2> QED BY <2>2, <2>3
<1>7. \A k \in 1..(n - 1) : EndOf(r, st, k) \in st[k]..m
  <2> TAKE k \in 1..(n - 1)
  <2>1. EndOf(r, st, k) \in st[k]..Len(r)
    BY <1>5, SegmentEnds
  <2>2. EndOf(r, st, k) = st[k + 1] - 1 /\ k + 1 \in 1..n
    BY <1>1 DEF EndOf
  <2>3. st[k + 1] <= st[n] /\ st[k + 1] \in Nat
    <3>1. CASE k + 1 = n
      BY <1>2, <3>1
    <3>2. CASE k + 1 < n
      <4>1. st[k + 1] < st[n] /\ st[k + 1] \in 1..Len(r)
        BY <1>1, <2>2, <3>2 DEF Segments
      <4> QED BY <1>1, <1>2, <4>1
    <3> QED BY <1>1, <3>1, <3>2
  <2> QED BY <1>2, <1>m, <2>1, <2>2, <2>3
<1>8. Segments(q, su)
  <2>1. \A k \in 1..(n - 1) : \A i \in 1..m :
          su[k] <= i /\ i <= EndOf(q, su, k) => q[i].group = q[su[k]].group
    <3> SUFFICES ASSUME NEW k \in 1..(n - 1), NEW i \in 1..m, su[k] <= i, i <= EndOf(q, su, k)
                 PROVE  q[i].group = q[su[k]].group
      OBVIOUS
    <3>1. i \in 1..Len(r) /\ k \in 1..n /\ st[k] <= i /\ i <= EndOf(r, st, k)
      BY <1>1, <1>2, <1>4, <1>5, <1>6, SMTT(30)
    <3>2. r[i].group = r[st[k]].group
      BY <3>1 DEF Segments
    <3> QED BY <1>3, <1>5, <3>2
  <2>2. \A i \in 1..m : \E k \in 1..(n - 1) : su[k] <= i /\ i <= EndOf(q, su, k)
    <3> TAKE i \in 1..m
    <3>1. i \in 1..Len(r) /\ i < st[n]
      BY <1>1, <1>2, <1>m
    <3>2. PICK k \in 1..n : st[k] <= i /\ i <= EndOf(r, st, k)
      BY <3>1 DEF Segments
    <3>3. k # n
      BY <1>2, <3>1, <3>2
    <3>4. k \in 1..(n - 1)
      BY <1>1, <3>3
    <3> QED BY <1>4, <1>6, <3>2, <3>4
  <2>3. \A k \in 1..(n - 1) : su[k] \in 1..m /\ q[su[k]].group > 0
    BY <1>4, <1>5 DEF Segments
  <2>4. \A k, j \in 1..(n - 1) : k < j => su[k] < su[j] /\ q[su[k]].group < q[su[j]].group
    <3> SUFFICES ASSUME NEW k \in 1..(n - 1), NEW j \in 1..(n - 1), k < j
                 PROVE  su[k] < su[j] /\ q[su[k]].group < q[su[j]].group
      OBVIOUS
    <3>1. st[k] < st[j] /\ r[st[k]].group < r[st[j]].group
      BY <1>5 DEF Segments
    <3> QED BY <1>4, <1>5, <3>1
  <2>5. (n - 1 = 0 <=> m = 0) /\ (n - 1 > 0 => su[1] = 1)
    <3>1. st[1] = 1
      BY DEF Segments
    <3>2. CASE n = 1
      BY <1>m, <3>1, <3>2
    <3>3. CASE n > 1
      <4>1. 1 \in 1..(n - 1)
        BY <1>1, <3>3
      <4>2. su[1] = 1 /\ st[1] \in 1..m
        BY <1>4, <1>5, <3>1, <4>1
      <4>3. m # 0
        BY <1>m, <4>2
      <4> QED BY <1>m, <3>3, <4>2, <4>3
    <3>4. n = 1 \/ n > 1
      <4>1. n \in Nat /\ n > 0
        BY <1>1
      <4> HIDE DEF n
      <4> QED BY ONLY <4>1
    <3> QED BY <3>2, <3>3, <3>4
  <2> QED BY <1>3, <1>4, <2>1, <2>2, <2>3, <2>4, <2>5 DEF Segments
<1>9. ASSUME NEW k \in 1..(n - 1) PROVE Batch(q, su, k) = Batch(r, st, k)
  <2>1. su[k] = st[k] /\ EndOf(q, su, k) = EndOf(r, st, k)
    BY <1>4, <1>6
  <2>2. st[k] \in 1..m /\ EndOf(r, st, k) \in st[k]..m
    BY <1>5, <1>7
  <2>3. \A i \in 1..(EndOf(r, st, k) - st[k] + 1) : q[st[k] + i - 1] = r[st[k] + i - 1]
    <3>1. \A i \in 1..(EndOf(r, st, k) - st[k] + 1) : st[k] + i - 1 \in 1..m
      BY <1>2, <2>2
    <3> QED BY <1>3, <3>1
  <2> QED BY <2>1, <2>3 DEF Batch
<1>10. SameActions(q, su, r, st, n - 1)
  BY <1>5, <1>9 DEF SameActions
<1> QED BY <1>4, <1>8, <1>10 DEF q, su

\* last_group_indices finds the last action, whole.
LEMMA LastGroupFacts ==
  ASSUME NEW l, NEW r, r = l.retained, NEW st, Segments(r, st), Len(st) > 0
  PROVE  /\ LastGroupIndices(l) = st[Len(st)]..Len(r)
         /\ Min(LastGroupIndices(l)) = st[Len(st)] /\ Max(LastGroupIndices(l)) = Len(r)
         /\ Cardinality(LastGroupIndices(l)) = Len(r) - st[Len(st)] + 1
<1> DEFINE n == Len(st)
           a == st[n]
           group(i) == r[i].group
<1>1. r \in Seq(Entries) /\ n \in Nat /\ n \in 1..n /\ Len(r) \in Nat /\ a \in 1..Len(r) /\ Len(r) \in 1..Len(r)
  <2>1. r \in Seq(Entries) /\ st \in Seq(Nat)
    BY DEF Segments
  <2>2. n \in Nat /\ n \in 1..n
    BY <2>1
  <2>3. a \in 1..Len(r) /\ Len(r) \in Nat
    BY <2>1, <2>2 DEF Segments
  <2> QED BY <2>1, <2>2, <2>3
<1>2. \A i \in 1..Len(r) : group(i) > 0 /\ group(i) \in Nat
  <2> TAKE i \in 1..Len(r)
  <2>1. PICK k \in 1..n : st[k] <= i /\ i <= EndOf(r, st, k)
    BY DEF Segments
  <2>2. group(i) = group(st[k]) /\ group(st[k]) > 0
    BY <2>1 DEF Segments
  <2>3. r[i] \in Entries
    BY <1>1
  <2> QED BY <2>2, <2>3 DEF Entries
<1>3. \A i \in a..Len(r) : group(i) = group(a)
  <2> TAKE i \in a..Len(r)
  <2>1. i \in 1..Len(r) /\ st[n] <= i /\ i <= EndOf(r, st, n)
    BY <1>1 DEF EndOf
  <2> QED BY <1>1, <2>1 DEF Segments
<1>4. \A i \in 1..Len(r) : i < a => group(i) # group(a)
  <2> SUFFICES ASSUME NEW i \in 1..Len(r), i < a PROVE group(i) # group(a)
    OBVIOUS
  <2>1. PICK k \in 1..n : st[k] <= i /\ i <= EndOf(r, st, k)
    BY DEF Segments
  <2>2. group(i) = group(st[k]) /\ st[k] \in 1..Len(r)
    BY <2>1 DEF Segments
  <2>3. k # n
    BY <1>1, <2>1, <2>2
  <2>4. k < n
    BY <1>1, <2>3
  <2>5. group(st[k]) < group(a)
    BY <1>1, <2>4 DEF Segments
  <2> QED BY <1>1, <1>2, <2>2, <2>5
<1> DEFINE grouped == {i \in DOMAIN r : r[i].group # NoGroup}
           newest == CHOOSE i \in grouped : \A j \in grouped : j <= i
<1>5. grouped = 1..Len(r) /\ grouped # {}
  BY <1>1, <1>2 DEF NoGroup
<1>6. newest = Len(r)
  <2>1. Len(r) \in grouped /\ \A j \in grouped : j <= Len(r)
    <3> HIDE DEF grouped
    <3> QED BY <1>1, <1>5
  <2>2. newest \in grouped /\ \A j \in grouped : j <= newest
    <3> HIDE DEF grouped
    <3> QED BY <2>1
  <2> HIDE DEF newest, grouped
  <2> QED BY <1>1, <1>5, <2>1, <2>2
<1>7. LastGroupIndices(l) = {i \in grouped : r[i].group = r[newest].group}
  BY <1>5 DEF LastGroupIndices
<1> HIDE DEF newest, grouped
<1>8. LastGroupIndices(l) = {i \in 1..Len(r) : r[i].group = r[Len(r)].group}
  BY <1>5, <1>6, <1>7
<1>9. r[Len(r)].group = r[a].group
  BY <1>1, <1>3
<1>10. LastGroupIndices(l) = a..Len(r)
  <2>1. ASSUME NEW i \in 1..Len(r) PROVE r[i].group = r[a].group <=> i \in a..Len(r)
    BY <1>1, <1>3, <1>4
  <2>2. a..Len(r) \subseteq 1..Len(r)
    BY <1>1
  <2> HIDE DEF a
  <2> QED BY <1>8, <1>9, <2>1, <2>2
<1>11. Cardinality(a..Len(r)) = Len(r) - a + 1
  <2>1. a \in Int /\ Len(r) \in Int /\ ~(a > Len(r))
    BY <1>1
  <2> QED BY <2>1, FS_Interval
<1>12. a \in Nat /\ Len(r) \in Nat /\ a \in a..Len(r) /\ Len(r) \in a..Len(r)
  BY <1>1
<1> HIDE DEF a
<1>13. Min(a..Len(r)) = a
  <2>1. \A y \in a..Len(r) : a <= y
    BY <1>12
  <2>2. \A x \in a..Len(r) : (\A y \in a..Len(r) : x <= y) => x = a
    BY <1>12
  <2> QED BY <1>12, <2>1, <2>2 DEF Min
<1>14. Max(a..Len(r)) = Len(r)
  <2>1. \A y \in a..Len(r) : Len(r) >= y
    BY <1>12
  <2>2. \A x \in a..Len(r) : (\A y \in a..Len(r) : x >= y) => x = Len(r)
    BY <1>12
  <2> QED BY <1>12, <2>1, <2>2 DEF Max
<1> QED BY <1>10, <1>11, <1>13, <1>14 DEF a

\* There are as many groups as actions.
LEMMA GroupCount ==
  ASSUME NEW r, NEW st, Segments(r, st)
  PROVE  Cardinality({r[i].group : i \in DOMAIN r}) = Len(st)
<1> DEFINE n == Len(st)
           S == {r[i].group : i \in DOMAIN r}
           f == [k \in 1..n |-> r[st[k]].group]
<1>1. r \in Seq(Entries) /\ st \in Seq(Nat) /\ n \in Nat /\ DOMAIN r = 1..Len(r)
  BY DEF Segments
<1>2. \A k \in 1..n : st[k] \in DOMAIN r
  BY <1>1 DEF Segments
<1>3. f \in [1..n -> S]
  BY <1>2
<1>4. \A k, j \in 1..n : f[k] = f[j] => k = j
  <2> SUFFICES ASSUME NEW k \in 1..n, NEW j \in 1..n, k < j PROVE r[st[k]].group # r[st[j]].group
    BY <1>1
  <2>1. r[st[k]].group < r[st[j]].group
    BY DEF Segments
  <2>2. r[st[k]].group \in Nat /\ r[st[j]].group \in Nat
    <3>1. \A i \in DOMAIN r : r[i] \in Entries
      BY <1>1
    <3>2. r[st[k]] \in Entries /\ r[st[j]] \in Entries
      BY <1>2, <3>1
    <3> QED BY <3>2 DEF Entries
  <2> QED BY <2>1, <2>2
<1>5. \A g \in S : \E k \in 1..n : f[k] = g
  <2> TAKE g \in S
  <2>1. PICK i \in 1..Len(r) : g = r[i].group
    BY <1>1
  <2>2. PICK k \in 1..n : st[k] <= i /\ i <= EndOf(r, st, k)
    BY DEF Segments
  <2>3. r[i].group = r[st[k]].group
    BY <2>2 DEF Segments
  <2> QED BY <2>1, <2>3
<1> HIDE DEF n, S, f
<1>6. ExistsBijection(1..n, S)
  <2>1. f \in Injection(1..n, S)
    <3>1. DOMAIN f = 1..n
      BY <1>3
    <3> QED BY <1>3, <1>4, <3>1 DEF Injection, IsInjective
  <2>2. f \in Surjection(1..n, S)
    BY <1>3, <1>5 DEF Surjection
  <2> QED BY <2>1, <2>2 DEF ExistsBijection, Bijection
<1>7. Cardinality(S) = n
  BY <1>1, <1>6, FS_CountingElements
<1> QED BY <1>7 DEF S, n

LEMMA CountFacts ==
  ASSUME NEW b \in Seq(Events), NEW e \in Events, NEW tag
  PROVE  /\ Count(b, tag) \in Nat
         /\ Count(Append(b, e), tag) = Count(b, tag) + IF e.tag = tag THEN 1 ELSE 0
         /\ Count(<<>>, tag) = 0
<1> DEFINE S == {i \in DOMAIN b : b[i].tag = tag}
           c == Append(b, e)
           T == {i \in DOMAIN c : c[i].tag = tag}
           n == Len(b)
<1>1. n \in Nat /\ DOMAIN b = 1..n /\ DOMAIN c = 1..(n + 1) /\ c[n + 1] = e /\ \A i \in 1..n : c[i] = b[i]
  OBVIOUS
<1>2. IsFiniteSet(S)
  <2>1. IsFiniteSet(1..n)
    BY <1>1, FS_Interval
  <2>2. S \in SUBSET (1..n)
    BY <1>1
  <2> HIDE DEF S
  <2> QED BY <2>1, <2>2, FS_Subset
<1>3. T = IF e.tag = tag THEN S \cup {n + 1} ELSE S
  <2>1. \A i \in 1..(n + 1) : i \in 1..n \/ i = n + 1
    BY <1>1
  <2>2. 1..n \subseteq 1..(n + 1) /\ n + 1 \in 1..(n + 1)
    BY <1>1
  <2> HIDE DEF c, n
  <2> QED BY <1>1, <2>1, <2>2
<1>4. n + 1 \notin S
  BY <1>1
<1>5. Cardinality(S) \in Nat
  BY <1>2, FS_CardinalityType
<1>6. Cardinality(S \cup {n + 1}) = Cardinality(S) + 1
  <2> HIDE DEF S
  <2> QED BY <1>2, <1>4, FS_AddElement
<1>7. Count(<<>>, tag) = 0
  <2>1. {i \in DOMAIN <<>> : <<>>[i].tag = tag} = {}
    OBVIOUS
  <2> QED BY <2>1, FS_EmptySet DEF Count
<1>8. Count(b, tag) = Cardinality(S) /\ Count(c, tag) = Cardinality(T)
  BY DEF Count
<1> HIDE DEF S, T, n, c
<1>9. Count(c, tag) = Count(b, tag) + IF e.tag = tag THEN 1 ELSE 0
  BY <1>3, <1>5, <1>6, <1>8
<1> QED BY <1>5, <1>7, <1>8, <1>9 DEF c

-----------------------------------------------------------------------------
(* The log's own operations *)

\* The log holds the actions that start at st, and while one is open every
\* frame of the group stack has its group.
LogOK(l, st) ==
  /\ l \in Logs /\ Segments(l.retained, st)
  /\ \A k \in 1..Len(st) : l.retained[st[k]].group < l.gid
  /\ Len(l.stack) = l.depth
  /\ l.depth > 0 =>
       Len(st) > 0 /\ \A j \in 1..l.depth : l.stack[j] = l.retained[st[Len(st)]].group

LEMMA RecordFacts ==
  ASSUME NEW l \in Logs, NEW e \in Events, NEW m, m = RecordEvent(l, e), CurrentGroup(l) \in Nat
  PROVE  /\ m \in Logs /\ m.depth = l.depth /\ m.stack = l.stack /\ m.gid = l.gid
         /\ m.retained = Append(l.retained, [ev |-> e, seq |-> l.seq, group |-> CurrentGroup(l)])
<1> DEFINE x == [ev |-> e, seq |-> l.seq, group |-> CurrentGroup(l)]
<1>1. l.enabled = TRUE /\ l.max = NoCap /\ l.seq \in Nat /\ l.retained \in Seq(Entries)
  BY DEF Logs, Stacks, Groups, Retained
<1>2. Stamp(l, <<e>>) = <<x>>
  <2>1. Len(<<e>>) = 1 /\ <<e>>[1] = e
    OBVIOUS
  <2>2. \A i \in 1..1 : [ev |-> <<e>>[i], seq |-> l.seq + i - 1, group |-> CurrentGroup(l)] = x
    BY <1>1, <2>1
  <2>3. Stamp(l, <<e>>) = [i \in 1..1 |-> x]
    BY <2>1, <2>2 DEF Stamp
  <2> HIDE DEF x
  <2>4. [i \in 1..1 |-> x] = <<x>>
    OBVIOUS
  <2> QED BY <2>3, <2>4
<1>3. x \in Entries
  BY <1>1 DEF Entries
<1> HIDE DEF x
<1>4. ReplayEvents(l, <<e>>, TRUE) = [l EXCEPT !.seq = l.seq + 1, !.retained = l.retained \o <<x>>]
  <2>1. Len(<<e>>) = 1
    OBVIOUS
  <2> QED BY <1>1, <1>2, <2>1 DEF ReplayEvents
<1>5. m = [l EXCEPT !.seq = l.seq + 1, !.retained = l.retained \o <<x>>]
  BY <1>1, <1>4 DEF RecordEvent, EnforceCap, Logs
<1>6. l.retained \o <<x>> = Append(l.retained, x) /\ Append(l.retained, x) \in Seq(Entries)
  BY <1>1, <1>3, AppendIsConcat
<1>7. m.retained = Append(l.retained, x) /\ m \in Logs /\ m.depth = l.depth /\ m.stack = l.stack /\ m.gid = l.gid
  <2> DEFINE rr == Append(l.retained, x)
             sq == l.seq + 1
  <2>1. sq \in Nat /\ rr \in Retained
    BY <1>1, <1>6 DEF Retained
  <2>2. m = [l EXCEPT !.seq = sq, !.retained = rr] /\ l \in Logs
    BY <1>5, <1>6
  <2> HIDE DEF rr, sq
  <2>3. m.retained = rr /\ m \in Logs /\ m.depth = l.depth /\ m.stack = l.stack /\ m.gid = l.gid
    BY ONLY <2>1, <2>2 DEF Logs
  <2> QED BY <2>3 DEF rr
<1> QED BY <1>7 DEF x

\* An event goes to the open action.
LEMMA LogGrows ==
  ASSUME NEW l, NEW st, LogOK(l, st), l.depth > 0, NEW e \in Events, NEW m, m = RecordEvent(l, e)
  PROVE  /\ LogOK(m, st) /\ m.depth = l.depth /\ m.stack = l.stack /\ m.gid = l.gid
         /\ Batch(m.retained, st, Len(st)) = Append(Batch(l.retained, st, Len(st)), e)
         /\ \A k \in 1..(Len(st) - 1) : Batch(m.retained, st, k) = Batch(l.retained, st, k)
<1> DEFINE r == l.retained
           q == m.retained
           x == [ev |-> e, seq |-> l.seq, group |-> CurrentGroup(l)]
<1>1. l \in Logs /\ Segments(r, st) /\ Len(st) > 0 /\ l.depth \in Nat /\ l.stack \in Seq(Nat) /\ Len(l.stack) = l.depth
  BY DEF LogOK, Logs, Stacks, Groups, Retained
<1>2. CurrentGroup(l) = r[st[Len(st)]].group /\ CurrentGroup(l) \in Nat
  <2>1. l.stack # <<>> /\ Len(l.stack) \in 1..l.depth /\ CurrentGroup(l) = l.stack[Len(l.stack)]
    BY <1>1 DEF CurrentGroup
  <2>2. l.stack[Len(l.stack)] = r[st[Len(st)]].group
    BY <1>1, <2>1 DEF LogOK
  <2>3. l.stack[Len(l.stack)] \in Nat
    BY <1>1, <2>1
  <2> QED BY <2>1, <2>2, <2>3
<1>3. /\ m \in Logs /\ m.depth = l.depth /\ m.stack = l.stack /\ m.gid = l.gid
      /\ q = Append(r, x)
  BY <1>1, <1>2, RecordFacts
<1>4. x \in Entries /\ x.group = r[st[Len(st)]].group /\ x.ev = e
  BY <1>1, <1>2 DEF Entries, Logs, Stacks, Groups, Retained
<1> HIDE DEF x, q, r
<1>5. /\ Segments(q, st)
      /\ \A k \in 1..Len(st) : q[st[k]] = r[st[k]]
      /\ Batch(q, st, Len(st)) = Append(Batch(r, st, Len(st)), e)
      /\ \A k \in 1..(Len(st) - 1) : Batch(q, st, k) = Batch(r, st, k)
  <2>1. Segments(r, st) /\ Len(st) > 0 /\ x \in Entries /\ x.group = r[st[Len(st)]].group
    BY <1>1, <1>4
  <2>2. /\ Segments(Append(r, x), st)
        /\ \A k \in 1..Len(st) : Append(r, x)[st[k]] = r[st[k]]
        /\ Batch(Append(r, x), st, Len(st)) = Append(Batch(r, st, Len(st)), x.ev)
        /\ \A k \in 1..(Len(st) - 1) : Batch(Append(r, x), st, k) = Batch(r, st, k)
    BY ONLY <2>1, SegmentsGrow
  <2> QED BY ONLY <1>3, <1>4, <2>2
<1>6. Len(st) \in 1..Len(st)
  <2>1. st \in Seq(Nat)
    BY <1>1 DEF Segments
  <2> QED BY <1>1, <2>1
<1>7. LogOK(m, st)
  <2>1. \A k \in 1..Len(st) : q[st[k]].group < m.gid
    BY <1>3, <1>5 DEF LogOK, r
  <2>2. \A j \in 1..m.depth : m.stack[j] = q[st[Len(st)]].group
    BY <1>3, <1>5, <1>6 DEF LogOK, r
  <2> QED BY <1>1, <1>3, <1>5, <2>1, <2>2 DEF LogOK, q
<1> QED BY <1>3, <1>5, <1>7 DEF q, r

\* The log m is l and a new action that has just started.
Opened(l, st, m, su) ==
  /\ LogOK(m, su) /\ m.depth = 1 /\ Len(su) = Len(st) + 1
  /\ Batch(m.retained, su, Len(su)) = <<CompoundStart>>
  /\ \A k \in 1..Len(st) : Batch(m.retained, su, k) = Batch(l.retained, st, k)

\* begin_compound of an outermost action.
LEMMA LogOpens ==
  ASSUME NEW l, NEW st, LogOK(l, st), l.depth = 0, NEW m, m = BeginCompound(l),
         NEW su, su = Append(st, Len(l.retained) + 1)
  PROVE  Opened(l, st, m, su)
<1> DEFINE o == OpenCompound(l)
           r == l.retained
           q == m.retained
           x == [ev |-> CompoundStart, seq |-> l.seq, group |-> l.gid]
<1>1. /\ l \in Logs /\ Segments(r, st) /\ l.gid \in Nat \ {0} /\ l.stack \in Seq(Nat) /\ Len(l.stack) = 0
      /\ l.retained \in Seq(Entries) /\ l.seq \in Nat
  BY DEF LogOK, Logs, Stacks, Groups, Retained
<1>2. l.stack = <<>> /\ Append(l.stack, l.gid) = <<l.gid>>
  <2>1. l.stack = <<>>
    BY <1>1, EmptySeq
  <2>2. \A g : Append(<<>>, g) = <<g>>
    OBVIOUS
  <2> QED BY <2>1, <2>2
<1>3. o = [l EXCEPT !.depth = 1, !.gid = l.gid + 1, !.stack = <<l.gid>>]
  BY <1>1, <1>2 DEF OpenCompound
<1>4. <<l.gid>> \in Seq(Nat) /\ Len(<<l.gid>>) = 1 /\ <<l.gid>>[1] = l.gid /\ <<l.gid>> # <<>>
  BY <1>1
<1>5. /\ o \in Logs /\ o.depth = 1 /\ o.gid = l.gid + 1 /\ o.stack = <<l.gid>> /\ o.retained = r /\ o.seq = l.seq
  <2> DEFINE sk == <<l.gid>>
             gid == l.gid + 1
  <2>1. sk \in Stacks /\ gid \in Groups /\ 1 \in Nat
    BY <1>1, <1>4 DEF Stacks, Groups
  <2>2. o = [l EXCEPT !.depth = 1, !.gid = gid, !.stack = sk] /\ l \in Logs
    BY <1>1, <1>3
  <2> HIDE DEF sk, o, gid
  <2>4. o \in Logs /\ o.depth = 1 /\ o.gid = gid /\ o.stack = sk /\ o.retained = l.retained /\ o.seq = l.seq
    BY ONLY <2>1, <2>2 DEF Logs
  <2> QED BY <2>4 DEF sk, gid
<1> HIDE DEF o
<1>6. CurrentGroup(o) = l.gid
  BY <1>4, <1>5 DEF CurrentGroup
<1>7. CompoundStart \in Events
  BY DEF CompoundStart, Events, Markers
<1>8. /\ m \in Logs /\ m.depth = 1 /\ m.stack = <<l.gid>> /\ m.gid = l.gid + 1 /\ q = Append(r, x)
  <2>1. m = RecordEvent(o, CompoundStart)
    BY DEF BeginCompound, o
  <2> QED BY <1>1, <1>5, <1>6, <1>7, <2>1, RecordFacts, SMTT(30)
<1>9. x \in Entries /\ x.group = l.gid /\ x.ev = CompoundStart
  BY <1>1, <1>7 DEF Entries
<1> HIDE DEF x, q
<1>10. \A k \in 1..Len(st) : r[st[k]].group < x.group
  BY <1>9 DEF LogOK
<1> HIDE DEF r
<1>11. /\ Segments(q, su)
       /\ Len(su) = Len(st) + 1
       /\ \A k \in 1..Len(st) : q[su[k]] = r[st[k]]
       /\ q[su[Len(su)]] = x
       /\ Batch(q, su, Len(su)) = <<CompoundStart>>
       /\ \A k \in 1..Len(st) : Batch(q, su, k) = Batch(r, st, k)
  <2>1. su = Append(st, Len(r) + 1) /\ x.group > 0
    BY <1>1, <1>9 DEF r
  <2>2. Segments(r, st) /\ x \in Entries /\ x.group > 0 /\ \A k \in 1..Len(st) : r[st[k]].group < x.group
    BY <1>1, <1>9, <1>10, <2>1
  <2> DEFINE qq == Append(r, x)
             uu == Append(st, Len(r) + 1)
  <2>3. /\ Segments(qq, uu)
        /\ Len(uu) = Len(st) + 1 /\ qq[uu[Len(uu)]] = x
        /\ Batch(qq, uu, Len(uu)) = <<x.ev>>
        /\ SameActions(qq, uu, r, st, Len(st))
    BY ONLY <2>2, SegmentsOpen
  <2>4. qq = q /\ uu = su
    BY ONLY <1>8, <2>1
  <2> HIDE DEF qq, uu
  <2> QED BY ONLY <1>9, <2>3, <2>4 DEF SameActions
<1>12. LogOK(m, su)
  <2>0. Len(st) \in Nat
    <3>1. st \in Seq(Nat)
      BY <1>1 DEF Segments
    <3> QED BY <3>1
  <2>1. \A k \in 1..Len(su) : q[su[k]].group < m.gid
    <3> TAKE k \in 1..Len(su)
    <3>1. CASE k = Len(su)
      <4>1. q[su[k]].group = l.gid /\ m.gid = l.gid + 1 /\ l.gid \in Nat
        BY ONLY <1>1, <1>8, <1>9, <1>11, <3>1
      <4> QED BY ONLY <4>1
    <3>2. CASE k # Len(su)
      <4>1. k \in 1..Len(st)
        BY <1>11, <2>0, <3>2
      <4>2. r[st[k]] \in Entries
        <5>1. r \in Seq(Entries) /\ st[k] \in 1..Len(r)
          BY <1>1, <4>1 DEF Segments
        <5> QED BY <5>1
      <4>3. r[st[k]].group < l.gid /\ r[st[k]].group \in Nat
        BY <1>9, <1>10, <4>1, <4>2 DEF Entries
      <4>4. q[su[k]].group = r[st[k]].group /\ m.gid = l.gid + 1 /\ l.gid \in Nat
        BY ONLY <1>1, <1>8, <1>11, <4>1
      <4> QED BY ONLY <4>3, <4>4
    <3> QED BY <3>1, <3>2
  <2>2. \A j \in 1..m.depth : m.stack[j] = q[su[Len(su)]].group
    <3>1. q[su[Len(su)]].group = l.gid
      BY ONLY <1>9, <1>11
    <3>2. \A j \in 1..m.depth : j = 1
      BY ONLY <1>8
    <3>3. m.stack[1] = l.gid
      BY ONLY <1>4, <1>8
    <3> QED BY ONLY <3>1, <3>2, <3>3
  <2>3. Len(m.stack) = m.depth /\ Len(su) > 0
    BY <1>4, <1>8, <1>11, <2>0
  <2> QED BY <1>8, <1>11, <2>1, <2>2, <2>3 DEF LogOK, q
<1> QED BY <1>8, <1>11, <1>12 DEF q, r, Opened

\* begin_compound of a nested action.
LEMMA LogNests ==
  ASSUME NEW l, NEW st, LogOK(l, st), l.depth > 0, NEW m, m = BeginCompound(l)
  PROVE  /\ LogOK(m, st) /\ m.depth = l.depth + 1
         /\ Batch(m.retained, st, Len(st)) = Append(Batch(l.retained, st, Len(st)), CompoundStart)
         /\ \A k \in 1..(Len(st) - 1) : Batch(m.retained, st, k) = Batch(l.retained, st, k)
<1> DEFINE o == OpenCompound(l)
           g == l.retained[st[Len(st)]].group
<1>1. /\ l \in Logs /\ l.depth \in Nat /\ l.stack \in Seq(Nat) /\ Len(l.stack) = l.depth
      /\ \A j \in 1..l.depth : l.stack[j] = g
  BY DEF LogOK, Logs, Stacks, Groups, Retained
<1>2. l.stack # <<>> /\ CurrentGroup(l) = g /\ g \in Nat
  <2>1. l.stack # <<>> /\ Len(l.stack) \in 1..l.depth
    BY <1>1
  <2> QED BY <1>1, <2>1 DEF CurrentGroup
<1> HIDE DEF g
<1>3. o = [l EXCEPT !.depth = l.depth + 1, !.gid = l.gid, !.stack = Append(l.stack, g)]
  <2>1. l.depth # 0
    BY <1>1
  <2>2. (IF l.depth = 0 THEN l.gid + 1 ELSE l.gid) = l.gid
    BY <2>1
  <2>3. (CASE l.depth = 0 -> Append(l.stack, l.gid)
           [] l.depth # 0 /\ l.stack # <<>> -> Append(l.stack, CurrentGroup(l))
           [] OTHER -> l.stack) = Append(l.stack, g)
    BY <1>2, <2>1
  <2> QED BY <2>2, <2>3 DEF OpenCompound
<1>4. /\ Append(l.stack, g) \in Seq(Nat) /\ Len(Append(l.stack, g)) = l.depth + 1
      /\ \A j \in 1..(l.depth + 1) : Append(l.stack, g)[j] = g
  BY <1>1, <1>2
<1>5. /\ o \in Logs /\ o.depth = l.depth + 1 /\ o.gid = l.gid /\ o.stack = Append(l.stack, g) /\ o.retained = l.retained
  <2> DEFINE sk == Append(l.stack, g)
             d == l.depth + 1
  <2>1. sk \in Stacks /\ d \in Nat
    BY <1>1, <1>4 DEF Stacks
  <2>2. o = [l EXCEPT !.depth = d, !.gid = l.gid, !.stack = sk] /\ l \in Logs
    BY <1>1, <1>3
  <2> HIDE DEF sk, o, d
  <2>4. o \in Logs /\ o.depth = d /\ o.gid = l.gid /\ o.stack = sk /\ o.retained = l.retained
    BY ONLY <2>1, <2>2 DEF Logs
  <2> QED BY <2>4 DEF sk, d
<1> HIDE DEF o
<1>6. LogOK(o, st) /\ o.depth > 0
  <2>1. \A j \in 1..o.depth : o.stack[j] = o.retained[st[Len(st)]].group
    BY <1>4, <1>5 DEF g
  <2>2. Len(o.stack) = o.depth /\ o.depth > 0
    BY <1>1, <1>4, <1>5
  <2> QED BY <1>5, <2>1, <2>2 DEF LogOK
<1>7. CompoundStart \in Events /\ m = RecordEvent(o, CompoundStart)
  BY DEF CompoundStart, Events, Markers, BeginCompound, o
<1> QED BY <1>5, <1>6, <1>7, LogGrows

\* end_compound.
LEMMA LogCloses ==
  ASSUME NEW l, NEW st, LogOK(l, st), l.depth > 0, NEW m, m = EndCompound(l)
  PROVE  /\ LogOK(m, st) /\ m.depth = l.depth - 1
         /\ Batch(m.retained, st, Len(st)) = Append(Batch(l.retained, st, Len(st)), CompoundEnd)
         /\ \A k \in 1..(Len(st) - 1) : Batch(m.retained, st, k) = Batch(l.retained, st, k)
<1> DEFINE o == RecordEvent(l, CompoundEnd)
           g == o.retained[st[Len(st)]].group
<1>1. CompoundEnd \in Events
  BY DEF CompoundEnd, Events, Markers
<1>2. /\ LogOK(o, st) /\ o.depth = l.depth /\ o.stack = l.stack /\ o.gid = l.gid
      /\ Batch(o.retained, st, Len(st)) = Append(Batch(l.retained, st, Len(st)), CompoundEnd)
      /\ \A k \in 1..(Len(st) - 1) : Batch(o.retained, st, k) = Batch(l.retained, st, k)
  <2> HIDE DEF g
  <2> QED BY <1>1, LogGrows
<1>3. l.depth # 0 /\ m = CloseCompound(o)
  BY DEF EndCompound, LogOK, Logs, Stacks, Groups, Retained
<1> HIDE DEF o
<1>4. /\ o \in Logs /\ o.depth \in Nat /\ o.stack \in Seq(Nat) /\ Len(o.stack) = o.depth /\ o.depth > 0
      /\ \A j \in 1..o.depth : o.stack[j] = g
  BY <1>2 DEF LogOK, Logs, Stacks, Groups, Retained
<1> HIDE DEF g
<1> DEFINE sk == SubSeq(o.stack, 1, Len(o.stack) - 1)
<1>5. /\ sk \in Seq(Nat) /\ Len(sk) = o.depth - 1 /\ \A j \in 1..(o.depth - 1) : sk[j] = g
  <2>1. o.depth - 1 \in 0..Len(o.stack)
    BY <1>4
  <2>2. sk \in Seq(Nat) /\ Len(sk) = o.depth - 1 /\ \A j \in 1..(o.depth - 1) : sk[j] = o.stack[j]
    BY <1>4, <2>1, PrefixFacts
  <2>3. \A j \in 1..(o.depth - 1) : j \in 1..o.depth
    BY <1>4
  <2> HIDE DEF sk
  <2> QED BY <1>4, <2>2, <2>3
<1>6. m = [o EXCEPT !.depth = o.depth - 1, !.stack = sk]
  <2>1. o.stack # <<>>
    BY <1>4
  <2> QED BY <1>3, <1>4, <2>1 DEF CloseCompound
<1> HIDE DEF sk
<1>7. /\ m \in Logs /\ m.depth = o.depth - 1 /\ m.stack = sk /\ m.gid = o.gid /\ m.retained = o.retained
  <2>1. o.depth - 1 \in Nat
    BY <1>4
  <2>2. sk \in Stacks
    BY <1>5 DEF Stacks
  <2> QED BY <1>4, <1>6, <2>1, <2>2 DEF Logs
<1>8. LogOK(m, st)
  <2>1. \A j \in 1..m.depth : m.stack[j] = m.retained[st[Len(st)]].group
    BY <1>5, <1>7 DEF g
  <2>2. Len(m.stack) = m.depth
    BY <1>5, <1>7
  <2> QED BY <1>2, <1>4, <1>7, <2>1, <2>2 DEF LogOK
<1> QED BY <1>2, <1>7, <1>8

\* The log m is l without its last action.
Cut(l, st, m, su) ==
  /\ LogOK(m, su) /\ m.depth = 0 /\ Len(su) = Len(st) - 1
  /\ \A k \in 1..(Len(st) - 1) : Batch(m.retained, su, k) = Batch(l.retained, st, k)

\* Undo takes the last action off.
LEMMA LogCut ==
  ASSUME NEW l, NEW st, LogOK(l, st), l.depth = 0, Len(st) > 0,
         NEW m, m = TruncateLog(l, st[Len(st)] - 1), NEW su, su = SubSeq(st, 1, Len(st) - 1)
  PROVE  Cut(l, st, m, su)
<1> DEFINE r == l.retained
           q == SubSeq(r, 1, st[Len(st)] - 1)
<1>1. l \in Logs /\ Segments(r, st) /\ Len(l.stack) = 0 /\ r \in Seq(Entries)
  BY DEF LogOK, Logs, Stacks, Groups, Retained
<1>2. st[Len(st)] \in 1..Len(r) /\ Len(r) \in Nat /\ Len(st) \in Nat /\ Len(st) \in 1..Len(st)
  <2>1. st \in Seq(Nat)
    BY <1>1 DEF Segments
  <2>2. Len(st) \in 1..Len(st)
    BY <2>1
  <2>3. st[Len(st)] \in 1..Len(r)
    BY <1>1, <2>2 DEF Segments
  <2> QED BY <1>1, <2>1, <2>2, <2>3
<1>3. /\ Segments(q, su) /\ Len(su) = Len(st) - 1
      /\ \A k \in 1..(Len(st) - 1) : q[su[k]] = r[st[k]]
      /\ \A k \in 1..(Len(st) - 1) : Batch(q, su, k) = Batch(r, st, k)
  <2> DEFINE uu == SubSeq(st, 1, Len(st) - 1)
  <2>1. Segments(r, st) /\ Len(st) > 0
    BY <1>1
  <2> HIDE DEF r
  <2>2. /\ Segments(q, uu) /\ Len(uu) = Len(st) - 1
        /\ SameActions(q, uu, r, st, Len(st) - 1)
    BY ONLY <2>1, SegmentsCut
  <2>3. uu = su
    OBVIOUS
  <2> HIDE DEF q, uu
  <2> QED BY ONLY <2>2, <2>3 DEF SameActions
<1>4. m = [l EXCEPT !.retained = q]
  BY <1>1, <1>2 DEF TruncateLog
<1>5. q \in Retained
  BY <1>3 DEF Segments, Retained
<1> HIDE DEF q
<1>6. m \in Logs /\ m.depth = 0 /\ m.stack = l.stack /\ m.gid = l.gid /\ m.retained = q
  BY <1>1, <1>4, <1>5 DEF Logs
<1>7. \A k \in 1..Len(su) : q[su[k]].group < m.gid
  <2> TAKE k \in 1..Len(su)
  <2>1. k \in 1..(Len(st) - 1) /\ k \in 1..Len(st)
    BY <1>2, <1>3
  <2> QED BY <1>3, <1>6, <2>1 DEF LogOK
<1>8. LogOK(m, su)
  BY <1>1, <1>3, <1>6, <1>7 DEF LogOK
<1> QED BY <1>3, <1>6, <1>8 DEF Cut

-----------------------------------------------------------------------------
(* A batch logged again *)

OpenLogs(st, d) == {l \in Logs : LogOK(l, st) /\ l.depth = d}

LEMMA OpenLog == \A l, st, d : l \in OpenLogs(st, d) <=> LogOK(l, st) /\ l.depth = d
BY DEF OpenLogs, LogOK

LEMMA RelogLoop ==
  ASSUME NEW l, NEW st, LogOK(l, st), l.depth > 0, NEW batch \in Seq(Events)
  PROVE  \E s \in [0..Len(batch) -> OpenLogs(st, l.depth)] :
           /\ s[0] = l /\ s[Len(batch)] = Relogged(l, batch)
           /\ \A k \in 1..Len(batch) : s[k] = RecordEvent(s[k - 1], batch[k])
<1> DEFINE N == Len(batch)
           S == OpenLogs(st, l.depth)
           Loop(t) == t = [n \in 0..N |-> IF n = 0 THEN l ELSE RecordEvent(t[n - 1], batch[n])]
           f == [k \in 1..N |-> [x \in S |-> RecordEvent(x, batch[k])]]
<1>0. N \in Nat /\ l \in S /\ \A k \in 1..N : batch[k] \in Events
  BY OpenLog
<1>1. \A x \in S, k \in 1..N : RecordEvent(x, batch[k]) \in S
  BY <1>0, LogGrows, OpenLog
<1> HIDE DEF S
<1>2. f \in [1..N -> [S -> S]]
      /\ \A x \in S, k \in 1..N : f[k][x] = RecordEvent(x, batch[k])
  BY <1>1
<1> HIDE DEF f, N
<1>3. PICK t \in [0..N -> S] : t[0] = l /\ \A k \in 1..N : t[k] = f[k][t[k - 1]]
  <2>1. N \in Nat /\ l \in S /\ f \in [1..N -> [S -> S]]
    BY <1>0, <1>2
  <2> QED BY ONLY <2>1, LoopExists
<1>4. Loop(t)
  <2>1. \A k \in 0..N : k # 0 => t[k - 1] \in S /\ k \in 1..N
    BY <1>0
  <2>2. \A k \in 0..N : k # 0 => f[k][t[k - 1]] = RecordEvent(t[k - 1], batch[k])
    BY <1>2, <2>1
  <2>3. \A k \in 0..N : t[k] = IF k = 0 THEN l ELSE f[k][t[k - 1]]
    BY <1>0, <1>3
  <2> QED BY <2>2, <2>3
<1> DEFINE s == CHOOSE x : Loop(x)
<1>5. Loop(s) /\ Relogged(l, batch) = s[N]
  <2>1. Loop(s)
    <3> HIDE DEF Loop
    <3> QED BY <1>4
  <2> QED BY <2>1 DEF Relogged, N
<1> HIDE DEF s
<1>6. s[0] = l /\ \A k \in 1..N : s[k] = RecordEvent(s[k - 1], batch[k])
  BY <1>0, <1>5
<1>7. s \in [0..N -> S]
  <2>1. \A k \in 1..N : s[k - 1] \in S => s[k] \in S
    BY <1>1, <1>6
  <2>2. s = [n \in 0..N |-> s[n]]
    BY <1>5
  <2> HIDE DEF Loop
  <2> QED BY ONLY <1>0, <1>6, <2>1, <2>2, LoopStays, ZenonT(60)
<1> QED BY <1>5, <1>6, <1>7 DEF N, S

LEMMA PrefixGrows ==
  ASSUME NEW S, NEW b \in Seq(S), NEW k \in 1..Len(b)
  PROVE  SubSeq(b, 1, k) = Append(SubSeq(b, 1, k - 1), b[k]) /\ b[k] \in S
<1> DEFINE p == SubSeq(b, 1, k)
           q == SubSeq(b, 1, k - 1)
<1>1. Len(b) \in Nat /\ k \in 0..Len(b) /\ k - 1 \in 0..Len(b) /\ k \in Nat /\ b[k] \in S
  OBVIOUS
<1>2. p \in Seq(S) /\ Len(p) = k /\ \A i \in 1..k : p[i] = b[i]
  BY <1>1, PrefixFacts
<1>3. q \in Seq(S) /\ Len(q) = k - 1 /\ \A i \in 1..(k - 1) : q[i] = b[i]
  BY <1>1, PrefixFacts
<1> HIDE DEF p, q
<1>4. Append(q, b[k]) \in Seq(S) /\ Len(Append(q, b[k])) = k /\ \A i \in 1..k : Append(q, b[k])[i] = b[i]
  <2>1. Append(q, b[k]) \in Seq(S) /\ Len(Append(q, b[k])) = k
    BY <1>1, <1>3
  <2>2. ASSUME NEW i \in 1..k PROVE Append(q, b[k])[i] = b[i]
    <3>1. CASE i = k
      BY <1>1, <1>3, <3>1
    <3>2. CASE i # k
      <4>1. i \in 1..(k - 1)
        BY <1>1, <3>2
      <4> QED BY <1>1, <1>3, <4>1
    <3> QED BY <3>1, <3>2
  <2> QED BY <2>1, <2>2
<1>5. p = Append(q, b[k])
  <2>1. \A i \in 1..Len(p) : p[i] = Append(q, b[k])[i]
    BY <1>2, <1>4
  <2> QED BY <1>2, <1>4, <2>1, SeqEqual
<1> QED BY <1>1, <1>5 DEF p, q

\* The log m is l with the batch at the end of its open action.
Extended(l, st, m, batch) ==
  /\ LogOK(m, st) /\ m.depth = l.depth
  /\ \A k \in 1..(Len(st) - 1) : Batch(m.retained, st, k) = Batch(l.retained, st, k)
  /\ \A tag : Count(Batch(m.retained, st, Len(st)), tag) =
                Count(Batch(l.retained, st, Len(st)), tag) + Count(batch, tag)
  /\ \A P, Q, R : /\ Bridge(Batch(l.retained, st, Len(st)), P, Q)
                  /\ Bridge(batch, Q, R)
                  => Bridge(Batch(m.retained, st, Len(st)), P, R)

\* A batch logged again ends the open action as it was logged first.
LEMMA RelogFacts ==
  ASSUME NEW l, NEW st, LogOK(l, st), l.depth > 0, NEW batch \in Seq(Events),
         NEW m, m = Relogged(l, batch)
  PROVE  Extended(l, st, m, batch)
<1> DEFINE N == Len(batch)
           d == l.depth
           n == Len(st)
           Newest(x) == Batch(x.retained, st, n)
<1>1. PICK s \in [0..N -> OpenLogs(st, d)] :
           /\ s[0] = l /\ s[N] = m
           /\ \A k \in 1..N : s[k] = RecordEvent(s[k - 1], batch[k])
  BY RelogLoop
<1>0. N \in Nat /\ N \in 0..N /\ n \in 1..n /\ d > 0 /\ \A k \in 1..N : batch[k] \in Events /\ k - 1 \in 0..N
  <2>1. st \in Seq(Nat) /\ Len(st) > 0
    BY DEF LogOK, Segments
  <2> QED BY <2>1
<1>2. LogOK(m, st) /\ m.depth = d
  BY <1>0, <1>1, OpenLog
<1>3. \A k \in 0..N : LogOK(s[k], st) /\ s[k].depth = d
  BY <1>1, OpenLog
<1>4. \A k \in 0..N : Newest(s[k]) \in Seq(Events)
  <2> TAKE k \in 0..N
  <2>1. Segments(s[k].retained, st)
    BY <1>3 DEF LogOK
  <2> QED BY <1>0, <2>1, BatchFacts
<1>5. ASSUME NEW k \in 1..N
      PROVE  /\ Newest(s[k]) = Append(Newest(s[k - 1]), batch[k])
             /\ \A j \in 1..(n - 1) : Batch(s[k].retained, st, j) = Batch(s[k - 1].retained, st, j)
  <2>1. LogOK(s[k - 1], st) /\ s[k - 1].depth > 0 /\ batch[k] \in Events /\ s[k] = RecordEvent(s[k - 1], batch[k])
    BY <1>0, <1>1, <1>3
  <2> QED BY <2>1, LogGrows
<1> HIDE DEF Newest
<1>6. \A j \in 1..(n - 1) : Batch(m.retained, st, j) = Batch(l.retained, st, j)
  <2> TAKE j \in 1..(n - 1)
  <2> DEFINE G == {k \in 0..N : Batch(s[k].retained, st, j) = Batch(l.retained, st, j)}
  <2>1. 0 \in G
    BY <1>0, <1>1
  <2>2. \A k \in 1..N : k - 1 \in G => k \in G
    BY <1>0, <1>5
  <2> HIDE DEF G
  <2>3. 0..N \subseteq G
    BY <1>0, <2>1, <2>2, UpTo
  <2> QED BY <1>0, <1>1, <2>3 DEF G
<1>7. ASSUME NEW tag PROVE Count(Newest(m), tag) = Count(Newest(l), tag) + Count(batch, tag)
  <2> DEFINE G == {k \in 0..N : Count(Newest(s[k]), tag) = Count(Newest(l), tag) + Count(SubSeq(batch, 1, k), tag)}
  <2>0. Count(Newest(l), tag) \in Nat
    <3>1. Newest(l) \in Seq(Events) /\ CompoundStart \in Events
      BY <1>0, <1>1, <1>4 DEF CompoundStart, Events, Markers
    <3> QED BY <3>1, CountFacts
  <2>1. 0 \in G
    <3>1. SubSeq(batch, 1, 0) = <<>>
      OBVIOUS
    <3>2. Count(<<>>, tag) = 0
      <4>1. Newest(l) \in Seq(Events) /\ CompoundStart \in Events
        BY <1>0, <1>1, <1>4 DEF CompoundStart, Events, Markers
      <4> QED BY <4>1, CountFacts
    <3>3. Count(Newest(s[0]), tag) = Count(Newest(l), tag) + Count(SubSeq(batch, 1, 0), tag)
      <4>1. \A x \in Nat : x = x + 0
        OBVIOUS
      <4> QED BY ONLY <1>1, <2>0, <3>1, <3>2, <4>1
    <3> QED BY <1>0, <3>3
  <2>2. ASSUME NEW k \in 1..N, k - 1 \in G PROVE k \in G
    <3> DEFINE p == SubSeq(batch, 1, k - 1)
               e == batch[k]
    <3>1. SubSeq(batch, 1, k) = Append(p, e) /\ e \in Events /\ k \in 1..Len(batch)
      BY PrefixGrows
    <3>2. p \in Seq(Events)
      <4>1. k - 1 \in 0..Len(batch)
        BY <1>0
      <4> QED BY <4>1, PrefixFacts
    <3>3. Newest(s[k - 1]) \in Seq(Events) /\ Newest(s[k]) = Append(Newest(s[k - 1]), e)
      BY <1>0, <1>4, <1>5
    <3>4. Count(Newest(s[k - 1]), tag) = Count(Newest(l), tag) + Count(p, tag)
      BY <2>2
    <3> HIDE DEF p, e
    <3>5. Count(Append(p, e), tag) = Count(p, tag) + (IF e.tag = tag THEN 1 ELSE 0) /\ Count(p, tag) \in Nat
      BY <3>1, <3>2, CountFacts
    <3>6. Count(Newest(s[k]), tag) = Count(Newest(s[k - 1]), tag) + (IF e.tag = tag THEN 1 ELSE 0)
      BY <3>1, <3>3, CountFacts
    <3>7. Count(Newest(s[k]), tag) = Count(Newest(l), tag) + Count(SubSeq(batch, 1, k), tag)
      <4>1. \A x, y, z \in Nat : (x + y) + z = x + (y + z)
        OBVIOUS
      <4> DEFINE z == IF e.tag = tag THEN 1 ELSE 0
      <4>2. z \in Nat
        OBVIOUS
      <4>3. Count(Append(p, e), tag) = Count(p, tag) + z /\ Count(Newest(s[k]), tag) = Count(Newest(s[k - 1]), tag) + z
        BY ONLY <3>5, <3>6
      <4> HIDE DEF z
      <4>4. Count(SubSeq(batch, 1, k), tag) = Count(Append(p, e), tag)
        BY ONLY <3>1, Zenon
      <4>5. Count(Newest(s[k]), tag) = Count(Newest(l), tag) + (Count(p, tag) + z)
        BY ONLY <2>0, <3>4, <3>5, <4>1, <4>2, <4>3
      <4>6. Count(Newest(s[k]), tag) = Count(Newest(l), tag) + Count(Append(p, e), tag)
        BY ONLY <4>3, <4>5, Zenon
      <4> QED BY ONLY <4>4, <4>6, Zenon
    <3> QED BY <1>0, <3>7
  <2> HIDE DEF G
  <2>3. 0..N \subseteq G
    BY <1>0, <2>1, <2>2, UpTo
  <2>4. SubSeq(batch, 1, N) = batch
    BY SubSeqFull
  <2>5. Count(Newest(s[N]), tag) = Count(Newest(l), tag) + Count(SubSeq(batch, 1, N), tag)
    BY <1>0, <2>3 DEF G
  <2> QED BY <1>1, <2>4, <2>5
<1>8. ASSUME NEW P, NEW Q, NEW R, Bridge(Newest(l), P, Q), Bridge(batch, Q, R) PROVE Bridge(Newest(m), P, R)
  <2>1. PICK t \in [0..N -> Sheets] :
               t[0] = Q /\ t[N] = R /\ \A i \in 1..N : Leads(batch[i], t[i - 1], t[i])
    BY <1>8 DEF Bridge
  <2> DEFINE G == {k \in 0..N : Bridge(Newest(s[k]), P, t[k])}
  <2>2. 0 \in G
    BY <1>0, <1>1, <1>8, <2>1
  <2>3. ASSUME NEW k \in 1..N, k - 1 \in G PROVE k \in G
    <3>1. /\ Newest(s[k - 1]) \in Seq(Events) /\ Newest(s[k]) = Append(Newest(s[k - 1]), batch[k])
          /\ Bridge(Newest(s[k - 1]), P, t[k - 1]) /\ Leads(batch[k], t[k - 1], t[k])
          /\ batch[k] \in Events /\ t[k] \in Sheets /\ k \in 0..N
      <4>1. k - 1 \in 0..N /\ k \in 0..N /\ batch[k] \in Events
        BY <1>0
      <4>2. t[k] \in Sheets /\ Leads(batch[k], t[k - 1], t[k]) /\ Bridge(Newest(s[k - 1]), P, t[k - 1])
        BY <2>1, <2>3, <4>1
      <4>3. Newest(s[k - 1]) \in Seq(Events) /\ Newest(s[k]) = Append(Newest(s[k - 1]), batch[k])
        BY <1>4, <1>5, <4>1
      <4> QED BY <4>1, <4>2, <4>3
    <3>2. Bridge(Append(Newest(s[k - 1]), batch[k]), P, t[k])
      BY ONLY <3>1, BridgeAppend
    <3> QED BY <3>1, <3>2
  <2> HIDE DEF G
  <2>4. 0..N \subseteq G
    BY <1>0, <2>2, <2>3, UpTo
  <2> QED BY <1>0, <1>1, <2>1, <2>4 DEF G
<1> QED BY <1>2, <1>6, <1>7, <1>8 DEF Newest, Extended

-----------------------------------------------------------------------------
(* The invariant *)

\* Every action on the log is closed, but for the last one's depth.
Balanced(r, st, d) ==
  \A k \in 1..Len(st) : Count(Batch(r, st, k), "CompoundStart") =
                          Count(Batch(r, st, k), "CompoundEnd") + IF k = Len(st) THEN d ELSE 0

\* The log l has the actions of the past p, the batches u are those of the
\* future f.
Shape(l, u, p, f, st) ==
  /\ LogOK(l, st) /\ Balanced(l.retained, st, l.depth)
  /\ p \in Seq(Sheets) /\ Len(p) = Len(st)
  /\ f \in Seq(Sheets) /\ Len(f) = Len(u)
  /\ u \in Seq(Seq(Events))
  /\ \A k \in 1..Len(u) : u[k] # <<>> /\ Count(u[k], "CompoundStart") = Count(u[k], "CompoundEnd")
  /\ l.depth > 0 => u = <<>>

\* The sheet after the k-th of the sheets s, when the present one is sh.
Following(sh, s, k) == IF k = Len(s) THEN sh ELSE s[k + 1]

\* Each action leads from its sheet of the past to the next ...
PastBridges(sh, r, p, st) ==
  \A k \in 1..Len(st) : Bridge(Batch(r, st, k), p[k], Following(sh, p, k))

\* ... and each batch undone to its sheet of the future.
FutureBridges(sh, u, f) ==
  \A k \in 1..Len(u) : Bridge(u[k], Following(sh, f, k), f[k])

LEMMA MarkerEvents ==
  /\ CompoundStart \in Events /\ CompoundStart.tag = "CompoundStart"
  /\ CompoundEnd \in Events /\ CompoundEnd.tag = "CompoundEnd"
  /\ \A sh : Leads(CompoundStart, sh, sh) /\ Leads(CompoundEnd, sh, sh)
<1>1. /\ CompoundStart \in Markers /\ CompoundStart.tag = "CompoundStart"
      /\ CompoundEnd \in Markers /\ CompoundEnd.tag = "CompoundEnd"
  BY DEF CompoundStart, CompoundEnd, Markers
<1> QED BY <1>1 DEF Leads, Events

\* One more event in the last action.
LEMMA PastGrows ==
  ASSUME NEW r, NEW q, NEW st, Segments(r, st), Len(st) > 0, NEW e \in Events,
         Batch(q, st, Len(st)) = Append(Batch(r, st, Len(st)), e),
         \A k \in 1..(Len(st) - 1) : Batch(q, st, k) = Batch(r, st, k)
  PROVE  /\ \A d, x \in Nat : Balanced(r, st, d) /\ x = (IF e.tag = "CompoundStart" THEN d + 1
                                 ELSE IF e.tag = "CompoundEnd" THEN d - 1 ELSE d)
                              => Balanced(q, st, x)
         /\ \A p, sh : \A sg \in Sheets :
              PastBridges(sh, r, p, st) /\ Len(p) = Len(st) /\ Leads(e, sh, sg) => PastBridges(sg, q, p, st)
<1> DEFINE n == Len(st)
           b == Batch(r, st, n)
<1>0. n \in Nat /\ n \in 1..n /\ \A k \in 1..n : k = n \/ k \in 1..(n - 1)
  <2>1. st \in Seq(Nat)
    BY DEF Segments
  <2>2. n \in Nat /\ n > 0
    BY <2>1
  <2> HIDE DEF n
  <2> QED BY <2>2
<1>1. b \in Seq(Events)
  BY <1>0, BatchFacts
<1>2. ASSUME NEW d \in Nat, NEW x \in Nat, Balanced(r, st, d),
             x = (IF e.tag = "CompoundStart" THEN d + 1 ELSE IF e.tag = "CompoundEnd" THEN d - 1 ELSE d)
      PROVE  Balanced(q, st, x)
  <2>1. \A tag : Count(Append(b, e), tag) = Count(b, tag) + (IF e.tag = tag THEN 1 ELSE 0) /\ Count(b, tag) \in Nat
    BY <1>1, CountFacts
  <2>2. Count(b, "CompoundStart") = Count(b, "CompoundEnd") + d
    BY <1>0, <1>2 DEF Balanced
  <2>3. Count(Append(b, e), "CompoundStart") = Count(Append(b, e), "CompoundEnd") + x
    <3>1. /\ Count(Append(b, e), "CompoundStart") = Count(b, "CompoundStart") + (IF e.tag = "CompoundStart" THEN 1 ELSE 0)
          /\ Count(Append(b, e), "CompoundEnd") = Count(b, "CompoundEnd") + (IF e.tag = "CompoundEnd" THEN 1 ELSE 0)
          /\ Count(b, "CompoundStart") \in Nat /\ Count(b, "CompoundEnd") \in Nat
      BY <2>1
    <3> HIDE DEF b
    <3>2. CASE e.tag = "CompoundStart"
      BY <1>2, <2>2, <3>1, <3>2
    <3>3. CASE e.tag = "CompoundEnd"
      BY <1>2, <2>2, <3>1, <3>3
    <3>4. CASE e.tag # "CompoundStart" /\ e.tag # "CompoundEnd"
      BY <1>2, <2>2, <3>1, <3>4
    <3> QED BY <3>2, <3>3, <3>4
  <2>4. ASSUME NEW k \in 1..n
        PROVE  Count(Batch(q, st, k), "CompoundStart") =
                 Count(Batch(q, st, k), "CompoundEnd") + IF k = n THEN x ELSE 0
    <3>1. CASE k = n
      <4>1. Batch(q, st, k) = Append(b, e)
        BY <3>1
      <4> HIDE DEF b
      <4> QED BY <2>3, <3>1, <4>1
    <3>2. CASE k # n
      <4>1. Batch(q, st, k) = Batch(r, st, k)
        BY <1>0, <3>2
      <4>2. Count(Batch(r, st, k), "CompoundStart") = Count(Batch(r, st, k), "CompoundEnd") + 0
        BY <1>2, <3>2 DEF Balanced
      <4> QED BY <3>2, <4>1, <4>2
    <3> QED BY <3>1, <3>2
  <2> QED BY <2>4 DEF Balanced
<1>3. ASSUME NEW p, NEW sh, NEW sg \in Sheets, PastBridges(sh, r, p, st), Len(p) = n, Leads(e, sh, sg)
      PROVE  PastBridges(sg, q, p, st)
  <2> SUFFICES ASSUME NEW k \in 1..n PROVE Bridge(Batch(q, st, k), p[k], Following(sg, p, k))
    BY DEF PastBridges
  <2>0. Bridge(Batch(r, st, k), p[k], Following(sh, p, k))
    BY <1>3 DEF PastBridges
  <2>1. CASE k = n
    <3>1. Bridge(b, p[n], sh) /\ Following(sg, p, k) = sg /\ Batch(q, st, k) = Append(b, e)
      BY <1>3, <2>0, <2>1 DEF Following
    <3>2. sg \in Sheets /\ Leads(e, sh, sg) /\ e \in Events
      BY <1>3
    <3> HIDE DEF b, n
    <3>3. Bridge(Append(b, e), p[n], sg)
      BY ONLY <1>1, <3>1, <3>2, BridgeAppend
    <3> QED BY <2>1, <3>1, <3>3
  <2>2. CASE k # n
    <3>1. Batch(q, st, k) = Batch(r, st, k)
      BY <1>0, <2>2
    <3>2. Following(sg, p, k) = Following(sh, p, k)
      BY <1>3, <2>2 DEF Following
    <3> QED BY <2>0, <3>1, <3>2
  <2> QED BY <2>1, <2>2
<1> QED BY <1>2, <1>3

LEMMA FollowingAppend ==
  ASSUME NEW s \in Seq(Sheets), NEW x, NEW y \in Sheets
  PROVE  /\ \A k \in 1..Len(s) : Following(x, Append(s, y), k) = Following(y, s, k)
         /\ Following(x, Append(s, y), Len(s) + 1) = x
<1> DEFINE n == Len(s)
           t == Append(s, y)
<1>1. n \in Nat /\ Len(t) = n + 1 /\ t[n + 1] = y /\ \A k \in 1..n : t[k] = s[k]
  OBVIOUS
<1> HIDE DEF t, n
<1>2. \A k \in 1..n : Following(x, t, k) = Following(y, s, k)
  <2> TAKE k \in 1..n
  <2>1. k # Len(t) /\ Following(x, t, k) = t[k + 1]
    BY <1>1 DEF Following
  <2>2. CASE k = n
    BY <1>1, <2>1, <2>2 DEF Following, n
  <2>3. CASE k # n
    <3>1. k + 1 \in 1..n
      BY <1>1, <2>3
    <3> QED BY <1>1, <2>1, <2>3, <3>1 DEF Following, n
  <2> QED BY <2>2, <2>3
<1>3. Following(x, t, n + 1) = x
  BY <1>1 DEF Following
<1> QED BY <1>2, <1>3 DEF t, n

LEMMA FollowingFront ==
  ASSUME NEW s \in Seq(Sheets), NEW x, NEW n, n = Len(s), n > 0, NEW k \in 1..(n - 1)
  PROVE  Following(s[n], SubSeq(s, 1, n - 1), k) = Following(x, s, k)
<1> DEFINE v == SubSeq(s, 1, n - 1)
<1>1. n \in Nat
  OBVIOUS
<1>2. Len(v) = n - 1 /\ \A i \in 1..(n - 1) : v[i] = s[i]
  <2>1. n - 1 \in 0..n
    BY <1>1
  <2> QED BY <2>1, PrefixFacts
<1> HIDE DEF v
<1>3. k # n /\ k + 1 \in 1..n /\ Following(x, s, k) = s[k + 1]
  BY <1>1 DEF Following
<1>4. CASE k = n - 1
  BY <1>1, <1>2, <1>3, <1>4 DEF Following
<1>5. CASE k # n - 1
  <2>1. k + 1 \in 1..(n - 1)
    BY <1>1, <1>5
  <2> QED BY <1>1, <1>2, <1>3, <1>5, <2>1 DEF Following
<1> QED BY <1>4, <1>5 DEF v

\* An event in the open action: an edit, or a marker of a nested action or
\* of its end.
LEMMA ShapeGrows ==
  ASSUME NEW l, NEW u, NEW p, NEW f, NEW st, Shape(l, u, p, f, st), l.depth > 0, NEW e \in Events,
         NEW m, LogOK(m, st),
         m.depth = (IF e.tag = "CompoundStart" THEN l.depth + 1
                    ELSE IF e.tag = "CompoundEnd" THEN l.depth - 1 ELSE l.depth),
         Batch(m.retained, st, Len(st)) = Append(Batch(l.retained, st, Len(st)), e),
         \A k \in 1..(Len(st) - 1) : Batch(m.retained, st, k) = Batch(l.retained, st, k)
  PROVE  /\ Shape(m, u, p, f, st)
         /\ \A sh : \A sg \in Sheets :
              PastBridges(sh, l.retained, p, st) /\ Leads(e, sh, sg) => PastBridges(sg, m.retained, p, st)
<1>1. LogOK(l, st) /\ Balanced(l.retained, st, l.depth) /\ u = <<>>
  BY DEF Shape
<1>3. Segments(l.retained, st) /\ Len(st) > 0 /\ l.depth \in Nat /\ m.depth \in Nat
  BY <1>1 DEF LogOK, Logs
<1>4. /\ Balanced(m.retained, st, m.depth)
      /\ \A pp, sh : \A sg \in Sheets :
           PastBridges(sh, l.retained, pp, st) /\ Len(pp) = Len(st) /\ Leads(e, sh, sg) => PastBridges(sg, m.retained, pp, st)
  <2> DEFINE r == l.retained
             q == m.retained
  <2>1. /\ Segments(r, st) /\ Len(st) > 0 /\ e \in Events
        /\ Batch(q, st, Len(st)) = Append(Batch(r, st, Len(st)), e)
        /\ \A k \in 1..(Len(st) - 1) : Batch(q, st, k) = Batch(r, st, k)
    BY <1>3
  <2> HIDE DEF r, q
  <2>2. /\ \A d, x \in Nat : Balanced(r, st, d) /\ x = (IF e.tag = "CompoundStart" THEN d + 1
                                 ELSE IF e.tag = "CompoundEnd" THEN d - 1 ELSE d)
                              => Balanced(q, st, x)
        /\ \A pp, sh : \A sg \in Sheets :
              PastBridges(sh, r, pp, st) /\ Len(pp) = Len(st) /\ Leads(e, sh, sg) => PastBridges(sg, q, pp, st)
    BY ONLY <2>1, PastGrows
  <2>3. Balanced(r, st, l.depth)
    BY <1>1 DEF r
  <2> DEFINE d == l.depth
             x == m.depth
  <2>4. d \in Nat /\ x \in Nat /\ Balanced(r, st, d)
        /\ x = (IF e.tag = "CompoundStart" THEN d + 1 ELSE IF e.tag = "CompoundEnd" THEN d - 1 ELSE d)
    BY <1>3, <2>3
  <2> HIDE DEF d, x
  <2>5. Balanced(q, st, x)
    BY ONLY <2>2, <2>4
  <2> QED BY <2>2, <2>5 DEF r, q, x
<1>5. Shape(m, u, p, f, st)
  BY <1>1, <1>4 DEF Shape
<1>6. Len(p) = Len(st)
  BY DEF Shape
<1> QED BY <1>4, <1>5, <1>6

\* begin_action and end_action inside an action.
LEMMA NestStep ==
  ASSUME NEW l, NEW u, NEW p, NEW f, NEW st, Shape(l, u, p, f, st), l.depth > 0, NEW m, m = BeginCompound(l)
  PROVE  /\ Shape(m, u, p, f, st) /\ m.depth = l.depth + 1
         /\ \A sh \in Sheets : PastBridges(sh, l.retained, p, st) => PastBridges(sh, m.retained, p, st)
<1>1. LogOK(l, st)
  BY DEF Shape
<1>2. /\ LogOK(m, st) /\ m.depth = l.depth + 1
      /\ Batch(m.retained, st, Len(st)) = Append(Batch(l.retained, st, Len(st)), CompoundStart)
      /\ \A k \in 1..(Len(st) - 1) : Batch(m.retained, st, k) = Batch(l.retained, st, k)
  BY <1>1, LogNests
<1> QED BY <1>2, MarkerEvents, ShapeGrows

LEMMA CloseStep ==
  ASSUME NEW l, NEW u, NEW p, NEW f, NEW st, Shape(l, u, p, f, st), l.depth > 0, NEW m, m = EndCompound(l)
  PROVE  /\ Shape(m, u, p, f, st) /\ m.depth = l.depth - 1
         /\ \A sh \in Sheets : PastBridges(sh, l.retained, p, st) => PastBridges(sh, m.retained, p, st)
<1>1. LogOK(l, st)
  BY DEF Shape
<1>2. /\ LogOK(m, st) /\ m.depth = l.depth - 1
      /\ Batch(m.retained, st, Len(st)) = Append(Batch(l.retained, st, Len(st)), CompoundEnd)
      /\ \A k \in 1..(Len(st) - 1) : Batch(m.retained, st, k) = Batch(l.retained, st, k)
  BY <1>1, LogCloses
<1> QED BY <1>2, MarkerEvents, ShapeGrows

\* An edit in the open action.
LEMMA EditStep ==
  ASSUME NEW l, NEW u, NEW p, NEW f, NEW st, Shape(l, u, p, f, st), l.depth > 0, NEW e \in Edits,
         NEW m, m = RecordEvent(l, e)
  PROVE  /\ Shape(m, u, p, f, st) /\ m.depth = l.depth
         /\ \A sh : \A sg \in Sheets :
              PastBridges(sh, l.retained, p, st) /\ Leads(e, sh, sg) => PastBridges(sg, m.retained, p, st)
<1>1. LogOK(l, st) /\ e \in Events /\ e.tag # "CompoundStart" /\ e.tag # "CompoundEnd"
  BY DEF Shape, Events, Edits, ValueEvents, FormulaEvents, StagedEvents
<1>2. /\ LogOK(m, st) /\ m.depth = l.depth
      /\ Batch(m.retained, st, Len(st)) = Append(Batch(l.retained, st, Len(st)), e)
      /\ \A k \in 1..(Len(st) - 1) : Batch(m.retained, st, k) = Batch(l.retained, st, k)
  BY <1>1, LogGrows
<1> QED BY <1>1, <1>2, ShapeGrows

\* begin_action of an outermost action.
LEMMA OpenStep ==
  ASSUME NEW l, NEW u, NEW p, NEW f, NEW st, Shape(l, u, p, f, st), l.depth = 0, NEW sh \in Sheets,
         NEW m, m = BeginCompound(l)
  PROVE  LET su == Append(st, Len(l.retained) + 1)
         IN  /\ Shape(m, <<>>, Append(p, sh), <<>>, su) /\ m.depth = 1
             /\ PastBridges(sh, l.retained, p, st) => PastBridges(sh, m.retained, Append(p, sh), su)
<1> DEFINE su == Append(st, Len(l.retained) + 1)
           n == Len(st)
           pp == Append(p, sh)
<1>1. LogOK(l, st) /\ Balanced(l.retained, st, l.depth) /\ p \in Seq(Sheets) /\ Len(p) = n
  BY DEF Shape
<1>2. /\ LogOK(m, su) /\ m.depth = 1 /\ Len(su) = Len(st) + 1
      /\ Batch(m.retained, su, Len(su)) = <<CompoundStart>>
      /\ \A k \in 1..Len(st) : Batch(m.retained, su, k) = Batch(l.retained, st, k)
  <2> HIDE DEF su
  <2>1. LogOK(l, st) /\ l.depth = 0 /\ m = BeginCompound(l) /\ su = Append(st, Len(l.retained) + 1)
    BY <1>1 DEF su
  <2>2. Opened(l, st, m, su)
    BY ONLY <2>1, LogOpens
  <2> QED BY <2>2 DEF Opened
<1>3. n \in Nat /\ pp \in Seq(Sheets) /\ Len(pp) = n + 1 /\ pp[n + 1] = sh /\ \A k \in 1..n : pp[k] = p[k]
  BY <1>1
<1>4. /\ \A k \in 1..n : Following(sh, pp, k) = Following(sh, p, k)
      /\ Following(sh, pp, n + 1) = sh
  BY <1>1, FollowingAppend
<1> HIDE DEF su, pp
<1>5. \A k \in 1..Len(su) : k = n + 1 \/ k \in 1..n
  BY <1>2, <1>3
<1>6. Balanced(m.retained, su, m.depth)
  <2>1. Count(<<CompoundStart>>, "CompoundStart") = 1 /\ Count(<<CompoundStart>>, "CompoundEnd") = 0
    <3>1. <<CompoundStart>> = Append(<<>>, CompoundStart) /\ <<>> \in Seq(Events)
      OBVIOUS
    <3>2. \A tag : Count(Append(<<>>, CompoundStart), tag) = Count(<<>>, tag) + (IF CompoundStart.tag = tag THEN 1 ELSE 0)
                   /\ Count(<<>>, tag) = 0
      BY <3>1, MarkerEvents, CountFacts
    <3>3. Count(Append(<<>>, CompoundStart), "CompoundStart") = 1 /\ Count(Append(<<>>, CompoundStart), "CompoundEnd") = 0
      BY <3>2, MarkerEvents
    <3> QED BY ONLY <3>1, <3>3, Zenon
  <2>2. ASSUME NEW k \in 1..Len(su)
        PROVE  Count(Batch(m.retained, su, k), "CompoundStart") =
                 Count(Batch(m.retained, su, k), "CompoundEnd") + IF k = Len(su) THEN m.depth ELSE 0
    <3>1. CASE k = n + 1
      BY <1>2, <2>1, <3>1
    <3>2. CASE k \in 1..n
      <4>1. Batch(m.retained, su, k) = Batch(l.retained, st, k) /\ k # Len(su)
        BY <1>2, <1>3, <3>2
      <4>2. Count(Batch(l.retained, st, k), "CompoundStart") = Count(Batch(l.retained, st, k), "CompoundEnd") + 0
        BY <1>1, <3>2 DEF Balanced
      <4> QED BY <4>1, <4>2
    <3> QED BY <1>5, <3>1, <3>2
  <2> QED BY <2>2 DEF Balanced
<1>7. Shape(m, <<>>, pp, <<>>, su)
  <2>1. <<>> \in Seq(Sheets) /\ <<>> \in Seq(Seq(Events)) /\ Len(<<>>) = 0 /\ 1..0 = {}
    OBVIOUS
  <2> QED BY <1>2, <1>3, <1>6, <2>1 DEF Shape
<1>8. ASSUME PastBridges(sh, l.retained, p, st) PROVE PastBridges(sh, m.retained, pp, su)
  <2> SUFFICES ASSUME NEW k \in 1..Len(su) PROVE Bridge(Batch(m.retained, su, k), pp[k], Following(sh, pp, k))
    BY DEF PastBridges
  <2>1. CASE k = n + 1
    <3>1. Bridge(Append(<<>>, CompoundStart), sh, sh)
      <4>1. /\ <<>> \in Seq(Events) /\ CompoundStart \in Events /\ sh \in Sheets
            /\ Bridge(<<>>, sh, sh) /\ Leads(CompoundStart, sh, sh)
        BY BridgeEmpty, MarkerEvents
      <4> QED BY ONLY <4>1, BridgeAppend, Zenon
    <3>2. Append(<<>>, CompoundStart) = <<CompoundStart>>
      OBVIOUS
    <3>3. Batch(m.retained, su, k) = <<CompoundStart>> /\ pp[k] = sh /\ Following(sh, pp, k) = sh
      BY <1>2, <1>3, <1>4, <2>1
    <3> QED BY ONLY <3>1, <3>2, <3>3, Zenon
  <2>2. CASE k \in 1..n
    <3>1. Bridge(Batch(l.retained, st, k), p[k], Following(sh, p, k))
      BY <1>8, <2>2 DEF PastBridges
    <3> QED BY <1>2, <1>3, <1>4, <2>2, <3>1
  <2> QED BY <1>5, <2>1, <2>2
<1> QED BY <1>2, <1>7, <1>8 DEF su, pp

\* A batch is logged again in the open action.
LEMMA RelogStep ==
  ASSUME NEW l, NEW u, NEW p, NEW f, NEW st, Shape(l, u, p, f, st), l.depth > 0,
         NEW batch \in Seq(Events), Count(batch, "CompoundStart") = Count(batch, "CompoundEnd"),
         NEW m, m = Relogged(l, batch)
  PROVE  /\ Shape(m, u, p, f, st) /\ m.depth = l.depth
         /\ \A sh, sg : PastBridges(sh, l.retained, p, st) /\ Bridge(batch, sh, sg)
                        => PastBridges(sg, m.retained, p, st)
<1> DEFINE n == Len(st)
           r == l.retained
           q == m.retained
<1>1. LogOK(l, st) /\ Balanced(r, st, l.depth) /\ p \in Seq(Sheets) /\ Len(p) = n
  BY DEF Shape
<1>2. /\ LogOK(m, st) /\ m.depth = l.depth
      /\ \A k \in 1..(n - 1) : Batch(q, st, k) = Batch(r, st, k)
      /\ \A tag : Count(Batch(q, st, n), tag) = Count(Batch(r, st, n), tag) + Count(batch, tag)
      /\ \A P, Q, R : Bridge(Batch(r, st, n), P, Q) /\ Bridge(batch, Q, R) => Bridge(Batch(q, st, n), P, R)
  <2>1. LogOK(l, st) /\ l.depth > 0 /\ batch \in Seq(Events) /\ m = Relogged(l, batch)
    BY <1>1
  <2>2. Extended(l, st, m, batch)
    BY ONLY <2>1, RelogFacts
  <2> QED BY <2>2 DEF Extended
<1>3. n \in Nat /\ n \in 1..n /\ l.depth \in Nat /\ \A k \in 1..n : k = n \/ k \in 1..(n - 1)
  <2>1. st \in Seq(Nat) /\ Len(st) > 0 /\ l.depth \in Nat
    BY <1>1 DEF LogOK, Segments, Logs
  <2>2. n \in Nat /\ n > 0
    BY <2>1
  <2> HIDE DEF n
  <2> QED BY <2>1, <2>2
<1>4. Batch(r, st, n) \in Seq(Events)
  <2>1. Segments(r, st)
    BY <1>1 DEF LogOK
  <2> QED BY <1>3, <2>1, BatchFacts
<1>5. Balanced(q, st, m.depth)
  <2>1. \A tag : Count(Batch(r, st, n), tag) \in Nat /\ Count(batch, tag) \in Nat
    BY <1>4, MarkerEvents, CountFacts
  <2>2. ASSUME NEW k \in 1..n
        PROVE  Count(Batch(q, st, k), "CompoundStart") =
                 Count(Batch(q, st, k), "CompoundEnd") + IF k = n THEN m.depth ELSE 0
    <3>0. Count(Batch(r, st, k), "CompoundStart") = Count(Batch(r, st, k), "CompoundEnd") + IF k = n THEN l.depth ELSE 0
      BY <1>1 DEF Balanced
    <3>1. CASE k = n
      <4> DEFINE a1 == Count(Batch(r, st, n), "CompoundStart")
                 a2 == Count(Batch(r, st, n), "CompoundEnd")
                 b1 == Count(Batch(q, st, n), "CompoundStart")
                 b2 == Count(Batch(q, st, n), "CompoundEnd")
                 c == Count(batch, "CompoundEnd")
      <4>1. b1 = a1 + c /\ b2 = a2 + c /\ a1 \in Nat /\ a2 \in Nat /\ c \in Nat /\ a1 = a2 + l.depth
        BY <1>2, <2>1, <3>0, <3>1
      <4> HIDE DEF a1, a2, b1, b2, c
      <4>2. b1 = b2 + l.depth
        BY <1>3, <4>1
      <4> QED BY <1>2, <3>1, <4>2 DEF b1, b2
    <3>2. CASE k # n
      <4>1. Batch(q, st, k) = Batch(r, st, k)
        BY <1>2, <1>3, <3>2
      <4>2. Count(Batch(r, st, k), "CompoundStart") = Count(Batch(r, st, k), "CompoundEnd") + 0
        BY <3>0, <3>2
      <4> QED BY <3>2, <4>1, <4>2
    <3> QED BY <3>1, <3>2
  <2> QED BY <2>2 DEF Balanced
<1>6. Shape(m, u, p, f, st)
  BY <1>2, <1>5 DEF Shape
<1>7. ASSUME NEW sh, NEW sg, PastBridges(sh, r, p, st), Bridge(batch, sh, sg) PROVE PastBridges(sg, q, p, st)
  <2> SUFFICES ASSUME NEW k \in 1..n PROVE Bridge(Batch(q, st, k), p[k], Following(sg, p, k))
    BY DEF PastBridges
  <2>0. Bridge(Batch(r, st, k), p[k], Following(sh, p, k))
    BY <1>7 DEF PastBridges
  <2>1. CASE k = n
    <3>1. Bridge(Batch(r, st, n), p[n], sh) /\ Following(sg, p, k) = sg
      BY <1>1, <2>0, <2>1 DEF Following
    <3>2. Bridge(Batch(q, st, n), p[n], sg)
      BY ONLY <1>2, <1>7, <3>1
    <3> QED BY <2>1, <3>1, <3>2
  <2>2. CASE k # n
    <3>1. Batch(q, st, k) = Batch(r, st, k)
      BY <1>2, <1>3, <2>2
    <3>2. Following(sg, p, k) = Following(sh, p, k)
      BY <1>1, <2>2 DEF Following
    <3> QED BY <2>0, <3>1, <3>2
  <2> QED BY <2>1, <2>2
<1> QED BY <1>2, <1>6, <1>7

\* A sheet ahead of the present one, and a batch that leads to it.
LEMMA FutureSteps ==
  ASSUME NEW u \in Seq(Seq(Events)), NEW f \in Seq(Sheets), Len(f) = Len(u), NEW sh, FutureBridges(sh, u, f)
  PROVE  /\ \A sg, batch : sh \in Sheets /\ Bridge(batch, sg, sh) =>
              FutureBridges(sg, Append(u, batch), Append(f, sh))
         /\ Len(u) > 0 =>
              /\ Bridge(u[Len(u)], sh, f[Len(u)])
              /\ FutureBridges(f[Len(u)], SubSeq(u, 1, Len(u) - 1), SubSeq(f, 1, Len(u) - 1))
<1> DEFINE n == Len(u)
<1>1. n \in Nat
  OBVIOUS
<1>2. \A k \in 1..n : Bridge(u[k], Following(sh, f, k), f[k])
  BY DEF FutureBridges
<1>3. ASSUME NEW sg, NEW batch, sh \in Sheets, Bridge(batch, sg, sh)
      PROVE  FutureBridges(sg, Append(u, batch), Append(f, sh))
  <2> DEFINE v == Append(u, batch)
             g == Append(f, sh)
  <2>1. /\ Len(v) = n + 1 /\ v[n + 1] = batch /\ g[n + 1] = sh
        /\ \A k \in 1..n : v[k] = u[k] /\ g[k] = f[k]
    BY <1>1
  <2>2. /\ \A k \in 1..n : Following(sg, g, k) = Following(sh, f, k)
        /\ Following(sg, g, n + 1) = sg
    <3>1. f \in Seq(Sheets) /\ sh \in Sheets /\ Len(f) = n
      BY <1>3
    <3> HIDE DEF n
    <3>2. /\ \A k \in 1..Len(f) : Following(sg, Append(f, sh), k) = Following(sh, f, k)
          /\ Following(sg, Append(f, sh), Len(f) + 1) = sg
      BY ONLY <3>1, FollowingAppend
    <3> QED BY ONLY <3>1, <3>2 DEF g
  <2> HIDE DEF v, g
  <2>3. ASSUME NEW k \in 1..(n + 1) PROVE Bridge(v[k], Following(sg, g, k), g[k])
    <3>1. CASE k = n + 1
      BY <1>3, <2>1, <2>2, <3>1
    <3>2. CASE k # n + 1
      <4>1. k \in 1..n
        BY <1>1, <3>2
      <4> QED BY <1>2, <2>1, <2>2, <4>1
    <3> QED BY <3>1, <3>2
  <2>4. FutureBridges(sg, v, g)
    BY <2>1, <2>3 DEF FutureBridges
  <2> QED BY <2>4 DEF v, g
<1>4. ASSUME n > 0
      PROVE  /\ Bridge(u[n], sh, f[n])
             /\ FutureBridges(f[n], SubSeq(u, 1, n - 1), SubSeq(f, 1, n - 1))
  <2> DEFINE v == SubSeq(u, 1, n - 1)
             g == SubSeq(f, 1, n - 1)
  <2>1. n \in 1..n /\ n - 1 \in 0..n /\ \A k \in 1..(n - 1) : k \in 1..n
    BY <1>1, <1>4
  <2>2. Bridge(u[n], sh, f[n])
    BY <1>2, <2>1 DEF Following
  <2>3. Len(v) = n - 1 /\ \A k \in 1..(n - 1) : v[k] = u[k]
    BY <2>1, PrefixFacts
  <2>4. \A k \in 1..(n - 1) : g[k] = f[k]
    BY <2>1, PrefixFacts
  <2>5. \A k \in 1..(n - 1) : Following(f[n], g, k) = Following(sh, f, k)
    <3> TAKE k \in 1..(n - 1)
    <3>1. f \in Seq(Sheets) /\ n = Len(f) /\ n > 0 /\ k \in 1..(n - 1)
      BY <1>4
    <3> HIDE DEF n
    <3> QED BY ONLY <3>1, FollowingFront, ZenonT(60)
  <2> HIDE DEF v, g
  <2>6. FutureBridges(f[n], v, g)
    BY <1>2, <2>1, <2>3, <2>4, <2>5 DEF FutureBridges
  <2> QED BY <2>2, <2>6 DEF v, g
<1> QED BY <1>3, <1>4

\* Undo: the last action leaves the log and becomes the last batch undone.
LEMMA UndoStep ==
  ASSUME NEW l, NEW u, NEW p, NEW f, NEW st, Shape(l, u, p, f, st), l.depth = 0, Len(st) > 0,
         NEW sh \in Sheets, NEW m, m = TruncateLog(l, st[Len(st)] - 1)
  PROVE  LET su == SubSeq(st, 1, Len(st) - 1)
             batch == Batch(l.retained, st, Len(st))
         IN  /\ Shape(m, Append(u, batch), SubSeq(p, 1, Len(p) - 1), Append(f, sh), su) /\ m.depth = 0
             /\ PastBridges(sh, l.retained, p, st) =>
                  /\ Bridge(batch, p[Len(p)], sh)
                  /\ PastBridges(p[Len(p)], m.retained, SubSeq(p, 1, Len(p) - 1), su)
<1> DEFINE n == Len(st)
           su == SubSeq(st, 1, n - 1)
           batch == Batch(l.retained, st, n)
           v == Append(u, batch)
           g == Append(f, sh)
           pp == SubSeq(p, 1, n - 1)
<1>1. /\ LogOK(l, st) /\ Balanced(l.retained, st, 0) /\ p \in Seq(Sheets) /\ Len(p) = n
      /\ f \in Seq(Sheets) /\ Len(f) = Len(u) /\ u \in Seq(Seq(Events))
      /\ \A k \in 1..Len(u) : u[k] # <<>> /\ Count(u[k], "CompoundStart") = Count(u[k], "CompoundEnd")
  BY DEF Shape
<1>2. /\ LogOK(m, su) /\ m.depth = 0 /\ Len(su) = n - 1
      /\ \A k \in 1..(n - 1) : Batch(m.retained, su, k) = Batch(l.retained, st, k)
  <2>1. LogOK(l, st) /\ l.depth = 0 /\ Len(st) > 0 /\ m = TruncateLog(l, st[Len(st)] - 1) /\ su = SubSeq(st, 1, Len(st) - 1)
    BY <1>1
  <2> HIDE DEF su
  <2>2. Cut(l, st, m, su)
    BY ONLY <2>1, LogCut
  <2> QED BY <2>2 DEF Cut
<1>3. n \in Nat /\ n > 0 /\ n \in 1..n /\ n - 1 \in 0..n /\ (\A k \in 1..(n - 1) : k \in 1..n /\ k # n) /\ Segments(l.retained, st)
  <2>1. st \in Seq(Nat) /\ Len(st) > 0 /\ Segments(l.retained, st)
    BY <1>1 DEF LogOK, Segments
  <2>2. n \in Nat /\ n > 0
    BY <2>1
  <2> HIDE DEF n
  <2> QED BY <2>1, <2>2
<1>4. batch \in Seq(Events) /\ batch # <<>>
  BY <1>3, BatchFacts
<1>5. Count(batch, "CompoundStart") = Count(batch, "CompoundEnd")
  <2>1. Count(batch, "CompoundStart") = Count(batch, "CompoundEnd") + 0
    BY <1>1, <1>3 DEF Balanced
  <2>2. Count(batch, "CompoundEnd") \in Nat
    BY <1>4, MarkerEvents, CountFacts
  <2> QED BY <2>1, <2>2
<1>6. pp \in Seq(Sheets) /\ Len(pp) = n - 1 /\ \A k \in 1..(n - 1) : pp[k] = p[k]
  BY <1>1, <1>3, PrefixFacts
<1>7. /\ v \in Seq(Seq(Events)) /\ g \in Seq(Sheets) /\ Len(g) = Len(v)
      /\ \A k \in 1..Len(v) : v[k] # <<>> /\ Count(v[k], "CompoundStart") = Count(v[k], "CompoundEnd")
  <2> HIDE DEF batch
  <2>1. /\ v \in Seq(Seq(Events)) /\ g \in Seq(Sheets) /\ Len(g) = Len(v) /\ Len(u) \in Nat
        /\ Len(v) = Len(u) + 1 /\ v[Len(u) + 1] = batch /\ \A k \in 1..Len(u) : v[k] = u[k]
    BY <1>1, <1>4
  <2> HIDE DEF v
  <2>2. \A k \in 1..Len(v) : k = Len(u) + 1 \/ k \in 1..Len(u)
    BY <2>1
  <2> QED BY <1>1, <1>4, <1>5, <2>1, <2>2
<1>8. Balanced(m.retained, su, 0)
  <2>1. ASSUME NEW k \in 1..(n - 1)
        PROVE  Count(Batch(m.retained, su, k), "CompoundStart") = Count(Batch(m.retained, su, k), "CompoundEnd") + 0
    <3>1. Count(Batch(l.retained, st, k), "CompoundStart") = Count(Batch(l.retained, st, k), "CompoundEnd") + 0
      BY <1>1, <1>3 DEF Balanced
    <3> QED BY <1>2, <3>1
  <2> HIDE DEF su
  <2> QED BY <1>2, <2>1 DEF Balanced
<1>9. Shape(m, v, pp, g, su)
  <2> HIDE DEF v, pp, g, su, batch, n
  <2> QED BY <1>2, <1>6, <1>7, <1>8 DEF Shape
<1>10. ASSUME PastBridges(sh, l.retained, p, st)
       PROVE  Bridge(batch, p[n], sh) /\ PastBridges(p[n], m.retained, pp, su)
  <2>1. \A k \in 1..n : Bridge(Batch(l.retained, st, k), p[k], Following(sh, p, k))
    BY <1>10 DEF PastBridges
  <2>2. Bridge(batch, p[n], sh)
    BY <1>1, <1>3, <2>1 DEF Following
  <2>3. \A k \in 1..(n - 1) : Following(p[n], pp, k) = Following(sh, p, k)
    <3> TAKE k \in 1..(n - 1)
    <3>1. p \in Seq(Sheets) /\ n = Len(p) /\ n > 0 /\ k \in 1..(n - 1)
      BY <1>1, <1>3
    <3> HIDE DEF n
    <3> QED BY ONLY <3>1, FollowingFront, ZenonT(60)
  <2> HIDE DEF pp, su, batch
  <2>4. PastBridges(p[n], m.retained, pp, su)
    BY <1>2, <1>3, <1>6, <2>1, <2>3 DEF PastBridges
  <2> QED BY <2>2, <2>4
<1>11. n = Len(p)
  BY <1>1
<1> QED BY <1>2, <1>9, <1>10, <1>11

\* Redo: the last batch undone is an action on the log again.
LEMMA RedoStep ==
  ASSUME NEW l, NEW u, NEW p, NEW f, NEW st, Shape(l, u, p, f, st), l.depth = 0, Len(u) > 0,
         NEW sh \in Sheets, NEW m, m = EndCompound(Relogged(BeginCompound(l), u[Len(u)]))
  PROVE  LET su == Append(st, Len(l.retained) + 1)
         IN  /\ Shape(m, SubSeq(u, 1, Len(u) - 1), Append(p, sh), SubSeq(f, 1, Len(u) - 1), su) /\ m.depth = 0
             /\ \A sg \in Sheets : PastBridges(sh, l.retained, p, st) /\ Bridge(u[Len(u)], sh, sg) =>
                    PastBridges(sg, m.retained, Append(p, sh), su)
<1> DEFINE su == Append(st, Len(l.retained) + 1)
           n == Len(u)
           batch == u[n]
           pp == Append(p, sh)
           m1 == BeginCompound(l)
           m2 == Relogged(m1, batch)
           v == SubSeq(u, 1, n - 1)
           g == SubSeq(f, 1, n - 1)
<1>1. /\ f \in Seq(Sheets) /\ Len(f) = n /\ u \in Seq(Seq(Events))
      /\ \A k \in 1..n : u[k] # <<>> /\ Count(u[k], "CompoundStart") = Count(u[k], "CompoundEnd")
  BY DEF Shape
<1>2. n \in 1..n /\ n \in Nat /\ n - 1 \in 0..n /\ batch \in Seq(Events) /\ Count(batch, "CompoundStart") = Count(batch, "CompoundEnd")
      /\ \A k \in 1..(n - 1) : k \in 1..n
  BY <1>1
<1>3. /\ Shape(m1, <<>>, pp, <<>>, su) /\ m1.depth = 1
      /\ PastBridges(sh, l.retained, p, st) => PastBridges(sh, m1.retained, pp, su)
  BY OpenStep
<1> HIDE DEF su, pp, m1
<1>4. /\ Shape(m2, <<>>, pp, <<>>, su) /\ m2.depth = 1
      /\ \A sg : PastBridges(sh, m1.retained, pp, su) /\ Bridge(batch, sh, sg) => PastBridges(sg, m2.retained, pp, su)
  <2>1. m1.depth > 0 /\ m1.depth = 1
    BY <1>3
  <2> HIDE DEF batch
  <2> QED BY <1>2, <1>3, <2>1, RelogStep
<1> HIDE DEF m2, batch
<1>5. /\ Shape(m, <<>>, pp, <<>>, su) /\ m.depth = 0
      /\ \A sg \in Sheets : PastBridges(sg, m2.retained, pp, su) => PastBridges(sg, m.retained, pp, su)
  <2>1. m = EndCompound(m2) /\ m2.depth > 0 /\ m2.depth - 1 = 0 /\ Shape(m2, <<>>, pp, <<>>, su)
    BY <1>4 DEF m2, m1, batch
  <2> QED BY ONLY <2>1, CloseStep
<1>6. v \in Seq(Seq(Events)) /\ Len(v) = n - 1 /\ \A k \in 1..(n - 1) : v[k] = u[k]
  BY <1>1, <1>2, PrefixFacts
<1>7. g \in Seq(Sheets) /\ Len(g) = n - 1
  BY <1>1, <1>2, PrefixFacts
<1> HIDE DEF v, g
<1>8. Shape(m, v, pp, g, su)
  <2>1. \A k \in 1..Len(v) : v[k] # <<>> /\ Count(v[k], "CompoundStart") = Count(v[k], "CompoundEnd")
    BY <1>1, <1>2, <1>6
  <2>2. ~(m.depth > 0)
    BY <1>5
  <2> QED BY <1>5, <1>6, <1>7, <2>1, <2>2 DEF Shape
<1> QED BY <1>3, <1>4, <1>5, <1>8 DEF v, g, su, pp, batch

-----------------------------------------------------------------------------
(* What the edits do to the sheet *)

Contents == [formula : Formulas \cup {None}, value : AllValues \cup {None}, staged : Formulas \cup {None}]

LEMMA SheetsAreContents == Sheets = [Cells -> Contents]
BY DEF Sheets, Contents

\* A cell without a formula shows a value.
LEMMA ShownValue ==
  ASSUME NEW b, BookOK(b), NEW c \in Cells
  PROVE  /\ b.formula[c] = None => ReadCell(b, c) \in AllValues /\ ReadCell(b, c) # None
         /\ GetCellValue(b, c) \in AllValues \cup {None}
<1>1. /\ b.delta[c] \in AllValues \cup {None} /\ b.computed[c] \in {Result, None} /\ b.base[c] \in AllValues
      /\ b.formula[c] = None => b.computed[c] = None
  BY DEF BookOK, Books
<1>2. None \notin AllValues
  BY NoneAssumption DEF AllValues
<1>3. b.formula[c] = None => ReadCell(b, c) \in AllValues
  BY <1>1 DEF ReadCell
<1>4. GetCellValue(b, c) \in AllValues \cup {None}
  <2>1. ReadCell(b, c) \in AllValues \cup {None}
    BY SheetFacts DEF BookOK
  <2> QED BY <2>1 DEF GetCellValue
<1> QED BY <1>2, <1>3, <1>4

\* Writing once more what a cell shows changes nothing.
LEMMA WrittenAgain ==
  ASSUME NEW b, BookOK(b), NEW c \in Cells, NEW v \in AllValues, b.formula[c] = None, ReadCell(b, c) = v
  PROVE  /\ BookOK([b EXCEPT !.delta[c] = v])
         /\ SheetOf([b EXCEPT !.delta[c] = v]) = SheetOf(b)
<1> DEFINE m == [b EXCEPT !.delta[c] = v]
<1>0. b \in Books /\ v # None
  BY NoneAssumption DEF BookOK, AllValues
<1>1. /\ m \in Books /\ m.delta = [b.delta EXCEPT ![c] = v] /\ m.formula = b.formula
      /\ m.staged = b.staged /\ m.computed = b.computed /\ m.base = b.base
  BY <1>0 DEF Books
<1>2. \A d \in Cells : m.delta[d] = IF d = c THEN v ELSE b.delta[d]
  BY <1>0, <1>1 DEF Books
<1> HIDE DEF m
<1>3. BookOK(m)
  BY <1>1, <1>2 DEF BookOK
<1>4. \A d \in Cells : ReadCell(m, d) = ReadCell(b, d)
  <2> TAKE d \in Cells
  <2>1. CASE d = c
    <3>1. ReadCell(m, c) = v
      BY <1>0, <1>2 DEF ReadCell
    <3> QED BY <2>1, <3>1
  <2>2. CASE d # c
    BY <1>1, <1>2, <2>2 DEF ReadCell
  <2> QED BY <2>1, <2>2
<1>5. SheetOf(m) = SheetOf(b)
  BY <1>1, <1>4 DEF SheetOf
<1> QED BY <1>3, <1>5 DEF m

\* Evaluation changes nothing a user entered.
LEMMA EvaluateFacts ==
  ASSUME NEW b, BookOK(b),
         NEW m, m = [b EXCEPT !.computed = [c \in Cells |-> IF b.formula[c] # None THEN Result ELSE @[c]]]
  PROVE  BookOK(m) /\ SheetOf(m) = SheetOf(b)
<1> DEFINE cs == [c \in Cells |-> IF b.formula[c] # None THEN Result ELSE b.computed[c]]
<1>0. b \in Books
  BY DEF BookOK
<1>1. cs \in [Cells -> {Result, None}]
  BY <1>0 DEF Books
<1>2. /\ m \in Books /\ m.computed = cs /\ m.formula = b.formula
      /\ m.staged = b.staged /\ m.delta = b.delta /\ m.base = b.base
  <2>1. m = [b EXCEPT !.computed = cs]
    OBVIOUS
  <2> HIDE DEF cs
  <2> QED BY <1>0, <1>1, <2>1 DEF Books
<1>3. \A c \in Cells : b.formula[c] = None => m.computed[c] = b.computed[c]
  BY <1>2
<1> HIDE DEF cs
<1>4. BookOK(m)
  BY <1>2, <1>3 DEF BookOK
<1>5. \A c \in Cells : b.formula[c] = None => ReadCell(m, c) = ReadCell(b, c)
  BY <1>2, <1>3 DEF ReadCell
<1>6. SheetOf(m) = SheetOf(b)
  BY <1>2, <1>5 DEF SheetOf
<1> QED BY <1>4, <1>6

\* An edit that sets a cell, as it is logged.
LEMMA CellEvents ==
  ASSUME NEW c \in Cells, NEW old \in AllValues \cup {None}, NEW of \in Formulas \cup {None}
  PROVE  /\ \A v \in AllValues : CellEvent("SetValue", c, old, of, v) \in ValueEvents
         /\ \A f \in Formulas : CellEvent("SetFormula", c, old, of, f) \in FormulaEvents
         /\ \A s, f \in Formulas \cup {None} : StagedEvent(c, s, f) \in StagedEvents
BY DEF CellEvent, StagedEvent, ValueEvents, FormulaEvents, StagedEvents

LEMMA AfterContents ==
  ASSUME NEW e \in ValueEvents \cup FormulaEvents, NEW x \in Contents
  PROVE  After(e, x) \in Contents /\ After(e, x).staged = x.staged
<1>0. x.staged \in Formulas \cup {None}
  BY DEF Contents
<1>1. CASE e \in ValueEvents
  <2>1. e.tag = "SetValue" /\ e.new \in AllValues
    BY <1>1 DEF ValueEvents
  <2>2. After(e, x) = [formula |-> None, value |-> e.new, staged |-> x.staged]
    BY <2>1 DEF After
  <2> QED BY ONLY <1>0, <2>1, <2>2 DEF Contents
<1>2. CASE e \in FormulaEvents
  <2>1. e.tag = "SetFormula" /\ e.new \in Formulas
    BY <1>2 DEF FormulaEvents
  <2>2. After(e, x) = [formula |-> e.new, value |-> None, staged |-> x.staged]
    BY <2>1 DEF After
  <2> QED BY ONLY <1>0, <2>1, <2>2 DEF Contents
<1> QED BY <1>1, <1>2

\* The sheet after set_value or set_formula in the graph, the log with what
\* is recorded of it (s was staged for the cell), and the workbook.
AfterSet(e, P) == [[P EXCEPT ![e.cell] = After(e, P[e.cell])] EXCEPT ![e.cell].staged = None]

LogSet(l, e, s) ==
  IF s = None THEN RecordEvent(l, e)
  ELSE RecordEvent(RecordEvent(l, e), StagedEvent(e.cell, s, None))

BookSet(b, e) ==
  IF e \in ValueEvents
  THEN [EditCell(b, e) EXCEPT !.delta[e.cell] = e.new, !.staged[e.cell] = None]
  ELSE [EditCell(b, e) EXCEPT !.staged[e.cell] = None]

\* set_value and set_formula log what they did to the cell, and then that a
\* staged formula is gone.
LEMMA EditThenClear ==
  ASSUME NEW l, NEW u, NEW p, NEW f, NEW st, Shape(l, u, p, f, st), l.depth > 0,
         NEW e \in ValueEvents \cup FormulaEvents, NEW P \in Sheets,
         NEW m, m = LogSet(l, e, P[e.cell].staged)
  PROVE  /\ Shape(m, u, p, f, st) /\ m.depth = l.depth
         /\ P[e.cell] = Before(e, P[e.cell]) /\ PastBridges(P, l.retained, p, st)
              => PastBridges(AfterSet(e, P), m.retained, p, st)
<1> DEFINE c == e.cell
           P1 == [P EXCEPT ![c] = After(e, P[c])]
           Q == AfterSet(e, P)
           s == P[c].staged
           m1 == RecordEvent(l, e)
           se == StagedEvent(c, s, None)
<1>1. e \in Edits /\ c \in Cells /\ After(e, P[c]) \in Contents /\ After(e, P[c]).staged = s
  <2>1. P[c] \in Contents /\ c \in Cells
    BY SheetsAreContents DEF ValueEvents, FormulaEvents
  <2>2. After(e, P[c]) \in Contents /\ After(e, P[c]).staged = P[c].staged
    BY ONLY <2>1, e \in ValueEvents \cup FormulaEvents, AfterContents
  <2>4. e \in Edits
    BY DEF Edits
  <2> QED BY <2>1, <2>2, <2>4
<1>2. P1 \in Sheets /\ P1[c] = After(e, P[c]) /\ s \in Formulas \cup {None}
  BY <1>1, SheetsAreContents DEF Contents
<1>2a. Q = [P1 EXCEPT ![c].staged = None]
  BY DEF AfterSet
<1>2b. m = IF s = None THEN RecordEvent(l, e) ELSE RecordEvent(RecordEvent(l, e), StagedEvent(c, s, None))
  BY DEF LogSet
<1>2c. P1 = [P EXCEPT ![c] = After(e, P[c])]
  OBVIOUS
<1> HIDE DEF c, P1, Q, s
<1>3. [P1[c] EXCEPT !.staged = None] \in Contents /\ [P1[c] EXCEPT !.staged = s] = P1[c]
  BY <1>1, <1>2 DEF Contents
<1>4. Q = [P1 EXCEPT ![c] = [P1[c] EXCEPT !.staged = None]]
  BY <1>1, <1>2, <1>2a
<1>5. Q \in Sheets
  BY <1>1, <1>2, <1>3, <1>4, SheetsAreContents
<1>6. P[c] = Before(e, P[c]) => Leads(e, P, P1)
  BY <1>1, <1>2c DEF Leads, c
<1>7. /\ Shape(m1, u, p, f, st) /\ m1.depth = l.depth
      /\ \A sh : \A sg \in Sheets :
           PastBridges(sh, l.retained, p, st) /\ Leads(e, sh, sg) => PastBridges(sg, m1.retained, p, st)
  BY <1>1, EditStep
<1> HIDE DEF m1
<1>8. CASE s = None
  <2>1. m = m1 /\ Q = P1
    <3>1. Q = [P1 EXCEPT ![c] = P1[c]]
      BY <1>3, <1>4, <1>8
    <3> QED BY <1>2, <1>2b, <1>8, <3>1, SheetsAreContents DEF m1
  <2> QED BY <1>2, <1>6, <1>7, <2>1 DEF c, Q
<1>9. CASE s # None
  <2>1. m = RecordEvent(m1, se) /\ m1.depth > 0
    BY <1>2b, <1>7, <1>9 DEF m1
  <2>2. se \in Edits /\ se.cell = c /\ se.tag = "Staged" /\ se.old = s /\ se.new = None
    BY <1>1, <1>2 DEF StagedEvent, StagedEvents, Edits
  <2> HIDE DEF se
  <2>3. Leads(se, P1, Q)
    <3>1. Before(se, P1[c]) = P1[c] /\ After(se, P1[c]) = [P1[c] EXCEPT !.staged = None]
      BY <1>3, <2>2 DEF Before, After
    <3> QED BY <1>4, <2>2, <3>1 DEF Leads
  <2>4. /\ Shape(m, u, p, f, st) /\ m.depth = m1.depth
        /\ \A sh : \A sg \in Sheets :
             PastBridges(sh, m1.retained, p, st) /\ Leads(se, sh, sg) => PastBridges(sg, m.retained, p, st)
    BY <1>7, <2>1, <2>2, EditStep
  <2> QED BY <1>2, <1>5, <1>6, <1>7, <2>3, <2>4 DEF c, Q
<1> QED BY <1>8, <1>9

\* What they do to the workbook.
LEMMA SetFacts ==
  ASSUME NEW b, BookOK(b), NEW e \in ValueEvents \cup FormulaEvents,
         NEW m, m = BookSet(b, e)
  PROVE  BookOK(m) /\ SheetOf(m) = AfterSet(e, SheetOf(b))
<1> DEFINE c == e.cell
           g == EditCell(b, e)
           P == SheetOf(b)
           P1 == [P EXCEPT ![c] = After(e, P[c])]
<1>0. c \in Cells /\ e \in Edits /\ e \in Events /\ e.tag # "Staged" /\ None \in Formulas \cup {None}
  BY DEF ValueEvents, FormulaEvents, Edits, Events
<1>1. g = Forward(b, e)
  BY <1>0 DEF EditCell, Forward, StagedForward
<1>2. BookOK(g) /\ SheetOf(g) = P1
  BY <1>0, <1>1, ForwardFacts
<1>3. P \in Sheets /\ P[c] \in Contents
  BY <1>0, SheetFacts, SheetsAreContents DEF BookOK
<1> HIDE DEF g
<1>4. CASE e \in ValueEvents
  <2> DEFINE h == [g EXCEPT !.delta[c] = e.new]
  <2>1. e.tag = "SetValue" /\ e.new \in AllValues
    BY <1>4 DEF ValueEvents
  <2>2. After(e, P[c]) = [formula |-> None, value |-> e.new, staged |-> P[c].staged]
    BY <2>1 DEF After
  <2>3. P1[c] = After(e, P[c])
    BY <1>0, <1>3, SheetsAreContents
  <2> HIDE DEF P1, P
  <2>4. SheetOf(g)[c].formula = None /\ SheetOf(g)[c].value = e.new
    BY ONLY <1>2, <2>2, <2>3
  <2>5. g.formula[c] = None /\ ReadCell(g, c) = e.new
    <3>1. g \in Books
      BY <1>2 DEF BookOK
    <3> QED BY <1>0, <2>4, <3>1, SheetFacts
  <2>6. BookOK(h) /\ SheetOf(h) = SheetOf(g)
    BY ONLY <1>0, <1>2, <2>1, <2>5, WrittenAgain
  <2>7. m = [h EXCEPT !.staged[c] = None]
    BY <1>4 DEF g, P1, P, BookSet
  <2> HIDE DEF h
  <2>8. BookOK(m) /\ SheetOf(m) = [SheetOf(h) EXCEPT ![c].staged = None]
    BY <1>0, <2>6, <2>7, BecomesStaged
  <2> QED BY <1>2, <2>6, <2>8 DEF P1, P, AfterSet
<1>5. CASE e \notin ValueEvents
  <2>1. m = [g EXCEPT !.staged[c] = None]
    BY <1>5 DEF g, BookSet
  <2> HIDE DEF P1, P
  <2>2. BookOK(m) /\ SheetOf(m) = [SheetOf(g) EXCEPT ![c].staged = None]
    BY <1>0, <1>2, <2>1, BecomesStaged
  <2> QED BY <1>2, <2>2 DEF P1, P, AfterSet
<1> QED BY <1>4, <1>5

\* The old state in the event is the one the cell shows, when no value was
\* there or it was handed over.
LEMMA ReadsBack ==
  ASSUME NEW b, BookOK(b), NEW e \in ValueEvents \cup FormulaEvents, e.oldFormula = b.formula[e.cell],
         b.formula[e.cell] # None \/ e.oldValue = GetCellValue(b, e.cell)
  PROVE  SheetOf(b)[e.cell] = Before(e, SheetOf(b)[e.cell])
<1> DEFINE c == e.cell
           x == SheetOf(b)[c]
<1>1. c \in Cells /\ e.tag # "Staged"
  BY DEF ValueEvents, FormulaEvents
<1>2. x \in Contents /\ x.formula = b.formula[c] /\ x.value = IF b.formula[c] # None THEN None ELSE ReadCell(b, c)
  BY <1>1, SheetFacts, SheetsAreContents DEF BookOK
<1>3. OldValue(e) = x.value
  <2>1. CASE b.formula[c] # None
    BY <1>2, <2>1 DEF OldValue
  <2>2. CASE b.formula[c] = None
    <3>1. ReadCell(b, c) # None
      BY <1>1, <2>2, ShownValue
    <3>2. x.value = ReadCell(b, c) /\ e.oldFormula = None /\ e.oldValue = GetCellValue(b, c)
      BY <1>2, <2>2
    <3> QED BY <3>1, <3>2 DEF OldValue, GetCellValue
  <2> QED BY <2>1, <2>2
<1>4. Before(e, x) = [formula |-> e.oldFormula, value |-> OldValue(e), staged |-> x.staged]
  BY <1>1 DEF Before
<1> HIDE DEF x
<1>5. x = [formula |-> x.formula, value |-> x.value, staged |-> x.staged]
  BY <1>2 DEF Contents
<1>6. x = Before(e, x)
  BY <1>2, <1>3, <1>4, <1>5
<1> QED BY <1>6 DEF x

-----------------------------------------------------------------------------
(* The inductive invariant *)

\* The workbook shows what the past and the future lead to.  Only a client
\* that overwrites no value with a formula has the bridges.
Sound(b, l, u, p, f, st) ==
  /\ BookOK(b) /\ Shape(l, u, p, f, st)
  /\ "no_overwrite" \in Rules => /\ PastBridges(SheetOf(b), l.retained, p, st)
                                 /\ FutureBridges(SheetOf(b), u, f)

HInv == \E st : Sound(book, log, undone, past, future, st)

\* The sheet Q is P but for one cell.
OneCell(P, c, Q) == \E x \in Contents : Q = [P EXCEPT ![c] = x]

LEMMA SoundEdit ==
  ASSUME NEW b, NEW l, NEW p, NEW f, NEW st, Sound(b, l, <<>>, p, f, st), NEW b2, BookOK(b2),
         NEW m, Shape(m, <<>>, p, f, st),
         "no_overwrite" \in Rules /\ PastBridges(SheetOf(b), l.retained, p, st)
           => PastBridges(SheetOf(b2), m.retained, p, st)
  PROVE  Sound(b2, m, <<>>, p, f, st)
<1>1. Len(<<>>) = 0 /\ 1..0 = {}
  OBVIOUS
<1>2. FutureBridges(SheetOf(b2), <<>>, f)
  BY <1>1 DEF FutureBridges
<1> QED BY <1>2 DEF Sound

\* set_value and set_formula in the graph, in an open action.
LEMMA EditMade ==
  ASSUME NEW b, NEW l, NEW p, NEW f, NEW st, Sound(b, l, <<>>, p, f, st), l.depth > 0,
         NEW e \in ValueEvents \cup FormulaEvents, e.oldFormula = b.formula[e.cell],
         "no_overwrite" \in Rules => b.formula[e.cell] # None \/ e.oldValue = GetCellValue(b, e.cell),
         NEW b2, b2 = BookSet(b, e), NEW m, m = LogSet(l, e, b.staged[e.cell])
  PROVE  Sound(b2, m, <<>>, p, f, st) /\ m.depth = l.depth /\ OneCell(SheetOf(b), e.cell, SheetOf(b2))
<1> DEFINE c == e.cell
           P == SheetOf(b)
           x == After(e, P[c])
           P1 == [P EXCEPT ![c] = x]
<1>1. BookOK(b) /\ Shape(l, <<>>, p, f, st) /\ c \in Cells
  BY DEF Sound, ValueEvents, FormulaEvents
<1>2. P \in Sheets /\ P[c] \in Contents /\ P[c].staged = b.staged[c]
  BY <1>1, SheetFacts, SheetsAreContents DEF BookOK
<1>3. BookOK(b2) /\ SheetOf(b2) = AfterSet(e, P)
  BY <1>1, SetFacts
<1>4. /\ Shape(m, <<>>, p, f, st) /\ m.depth = l.depth
      /\ P[c] = Before(e, P[c]) /\ PastBridges(P, l.retained, p, st) => PastBridges(SheetOf(b2), m.retained, p, st)
  <2>1. m = LogSet(l, e, P[e.cell].staged)
    BY <1>2
  <2> HIDE DEF P
  <2> QED BY <1>1, <1>2, <1>3, <2>1, EditThenClear
<1>5. "no_overwrite" \in Rules => P[c] = Before(e, P[c])
  BY <1>1, ReadsBack
<1>6. Sound(b2, m, <<>>, p, f, st)
  BY <1>3, <1>4, <1>5, SoundEdit
<1>7. OneCell(P, c, SheetOf(b2))
  <2>1. x \in Contents
    BY <1>2, AfterContents
  <2> HIDE DEF P
  <2>2. P1[c] = x
    BY <1>1, <1>2, SheetsAreContents
  <2>3. SheetOf(b2) = [P1 EXCEPT ![c].staged = None]
    BY <1>3 DEF AfterSet
  <2> HIDE DEF x
  <2>4. [x EXCEPT !.staged = None] \in Contents
    BY <2>1 DEF Contents
  <2>5. [P1 EXCEPT ![c].staged = None] = [P EXCEPT ![c] = [x EXCEPT !.staged = None]]
    BY <1>1, <1>2, <2>2, SheetsAreContents
  <2> QED BY <2>3, <2>4, <2>5 DEF OneCell
<1> QED BY <1>4, <1>6, <1>7

\* set_formula that stages the text.
LEMMA StageMade ==
  ASSUME NEW b, NEW l, NEW p, NEW f, NEW st, Sound(b, l, <<>>, p, f, st), l.depth > 0,
         NEW c \in Cells, NEW t \in Formulas, NEW b2, b2 = [b EXCEPT !.staged[c] = t],
         NEW m, m = IF b.staged[c] = t THEN l ELSE RecordEvent(l, StagedEvent(c, b.staged[c], t))
  PROVE  Sound(b2, m, <<>>, p, f, st) /\ m.depth = l.depth /\ OneCell(SheetOf(b), c, SheetOf(b2))
<1> DEFINE P == SheetOf(b)
           Q == SheetOf(b2)
           e == StagedEvent(c, b.staged[c], t)
<1>1. BookOK(b) /\ Shape(l, <<>>, p, f, st)
  BY DEF Sound
<1>2. P \in Sheets /\ P[c] \in Contents /\ P[c].staged = b.staged[c] /\ b.staged[c] \in Formulas \cup {None}
  BY <1>1, SheetFacts, SheetsAreContents DEF BookOK, Books
<1>3. BookOK(b2) /\ Q = [P EXCEPT ![c].staged = t]
  BY <1>1, BecomesStaged
<1>4. e \in Edits /\ e.cell = c /\ e.tag = "Staged" /\ e.old = b.staged[c] /\ e.new = t
  BY <1>2 DEF StagedEvent, StagedEvents, Edits
<1> HIDE DEF e, P
<1>5. [P[c] EXCEPT !.staged = t] \in Contents /\ [P[c] EXCEPT !.staged = b.staged[c]] = P[c]
  BY <1>2 DEF Contents
<1>6. Q = [P EXCEPT ![c] = [P[c] EXCEPT !.staged = t]]
  BY <1>2, <1>3
<1> HIDE DEF Q
<1>7. OneCell(P, c, Q) /\ Q \in Sheets
  BY <1>2, <1>5, <1>6, SheetsAreContents DEF OneCell
<1>8. Shape(m, <<>>, p, f, st) /\ m.depth = l.depth /\ (PastBridges(P, l.retained, p, st) => PastBridges(Q, m.retained, p, st))
  <2>1. CASE b.staged[c] = t
    <3>1. m = l /\ Q = P
      BY <1>2, <1>5, <1>6, <2>1, SheetsAreContents
    <3> QED BY <1>1, <3>1
  <2>2. CASE b.staged[c] # t
    <3>1. m = RecordEvent(l, e)
      BY <2>2 DEF e
    <3>2. Leads(e, P, Q)
      <4>1. Before(e, P[c]) = P[c] /\ After(e, P[c]) = [P[c] EXCEPT !.staged = t]
        BY <1>4, <1>5 DEF Before, After
      <4> QED BY <1>4, <1>6, <4>1 DEF Leads
    <3>3. /\ Shape(m, <<>>, p, f, st) /\ m.depth = l.depth
          /\ \A sh : \A sg \in Sheets :
               PastBridges(sh, l.retained, p, st) /\ Leads(e, sh, sg) => PastBridges(sg, m.retained, p, st)
      BY <1>1, <1>4, <3>1, EditStep
    <3> QED BY <1>7, <3>2, <3>3
  <2> QED BY <2>1, <2>2
<1>9. Sound(b2, m, <<>>, p, f, st)
  BY <1>3, <1>8, SoundEdit DEF P, Q
<1> QED BY <1>7, <1>8, <1>9 DEF P, Q

\* begin_action outside an action and inside one, and end_action.
LEMMA BeginMade ==
  ASSUME NEW b, NEW l, NEW p, NEW f, NEW st, Sound(b, l, <<>>, p, f, st), l.depth = 0, NEW m, m = BeginCompound(l)
  PROVE  /\ \E su : Sound(b, m, <<>>, Append(p, SheetOf(b)), <<>>, su)
         /\ m.depth = 1 /\ f = <<>>
<1> DEFINE sh == SheetOf(b)
           su == Append(st, Len(l.retained) + 1)
           u == <<>>
           pp == Append(p, sh)
<1>1. BookOK(b) /\ Shape(l, u, p, f, st) /\ sh \in Sheets
  BY SheetFacts DEF Sound, BookOK
<1>2. f = <<>>
  <2>1. f \in Seq(Sheets) /\ Len(f) = Len(<<>>) /\ Len(<<>>) = 0
    BY <1>1 DEF Shape
  <2> QED BY <2>1, EmptySeq
<1> HIDE DEF sh, u
<1>3. /\ Shape(m, <<>>, pp, <<>>, su) /\ m.depth = 1
      /\ PastBridges(sh, l.retained, p, st) => PastBridges(sh, m.retained, pp, su)
  BY <1>1, OpenStep
<1>4. FutureBridges(sh, <<>>, <<>>)
  <2>1. Len(<<>>) = 0 /\ 1..0 = {}
    OBVIOUS
  <2> QED BY <2>1 DEF FutureBridges
<1> HIDE DEF su, pp
<1>5. Sound(b, m, <<>>, pp, <<>>, su)
  BY <1>1, <1>3, <1>4 DEF Sound, sh
<1> QED BY <1>2, <1>3, <1>5 DEF pp, sh

LEMMA NestMade ==
  ASSUME NEW b, NEW l, NEW u, NEW p, NEW f, NEW st, Sound(b, l, u, p, f, st), l.depth > 0, NEW m, m = BeginCompound(l)
  PROVE  Sound(b, m, u, p, f, st) /\ m.depth = l.depth + 1
<1>1. BookOK(b) /\ Shape(l, u, p, f, st) /\ SheetOf(b) \in Sheets
  BY SheetFacts DEF Sound, BookOK
<1>2. /\ Shape(m, u, p, f, st) /\ m.depth = l.depth + 1
      /\ \A sh \in Sheets : PastBridges(sh, l.retained, p, st) => PastBridges(sh, m.retained, p, st)
  BY <1>1, NestStep
<1> QED BY <1>1, <1>2 DEF Sound

LEMMA EndMade ==
  ASSUME NEW b, NEW l, NEW u, NEW p, NEW f, NEW st, Sound(b, l, u, p, f, st), l.depth > 0, NEW m, m = EndCompound(l)
  PROVE  Sound(b, m, u, p, f, st) /\ m.depth = l.depth - 1 /\ f = <<>>
<1>1. BookOK(b) /\ Shape(l, u, p, f, st) /\ SheetOf(b) \in Sheets
  BY SheetFacts DEF Sound, BookOK
<1>2. /\ Shape(m, u, p, f, st) /\ m.depth = l.depth - 1
      /\ \A sh \in Sheets : PastBridges(sh, l.retained, p, st) => PastBridges(sh, m.retained, p, st)
  BY <1>1, CloseStep
<1>3. f = <<>>
  <2>1. f \in Seq(Sheets) /\ Len(f) = Len(<<>>) /\ Len(<<>>) = 0
    BY <1>1 DEF Shape
  <2> QED BY <2>1, EmptySeq
<1> QED BY <1>1, <1>2, <1>3 DEF Sound

\* Undo of the last action.
LEMMA UndoMade ==
  ASSUME NEW b, NEW l, NEW u, NEW p, NEW f, NEW st, Sound(b, l, u, p, f, st), l.depth = 0, Len(st) > 0,
         NEW m, m = TruncateLog(l, st[Len(st)] - 1),
         NEW batch, batch = Batch(l.retained, st, Len(st)), NEW b2, b2 = ReplayBackward(b, batch)
  PROVE  /\ \E su : Sound(b2, m, Append(u, batch), SubSeq(p, 1, Len(p) - 1), Append(f, SheetOf(b)), su)
         /\ m.depth = 0 /\ p # <<>>
         /\ "no_overwrite" \in Rules => SheetOf(b2) = p[Len(p)]
<1> DEFINE sh == SheetOf(b)
           su == SubSeq(st, 1, Len(st) - 1)
           v == Append(u, batch)
           g == Append(f, sh)
           pp == SubSeq(p, 1, Len(p) - 1)
           sg == p[Len(p)]
<1>1. BookOK(b) /\ Shape(l, u, p, f, st) /\ sh \in Sheets
  BY SheetFacts DEF Sound, BookOK
<1>2. /\ Shape(m, v, pp, g, su) /\ m.depth = 0
      /\ PastBridges(sh, l.retained, p, st) => Bridge(batch, sg, sh) /\ PastBridges(sg, m.retained, pp, su)
  <2> HIDE DEF sh
  <2> QED BY <1>1, UndoStep
<1>3. /\ u \in Seq(Seq(Events)) /\ f \in Seq(Sheets) /\ Len(f) = Len(u) /\ p # <<>>
  <2>1. p \in Seq(Sheets) /\ Len(p) = Len(st)
    BY <1>1 DEF Shape
  <2>2. p # <<>>
    BY <2>1
  <2> QED BY <1>1, <2>2 DEF Shape
<1>4. batch \in Seq(Events)
  <2>1. Segments(l.retained, st) /\ st \in Seq(Nat)
    BY <1>1 DEF Shape, LogOK, Segments
  <2>2. Len(st) \in 1..Len(st)
    BY <2>1
  <2> QED BY <2>1, <2>2, BatchFacts
<1> HIDE DEF su, v, g, pp, sg
<1>5. BookOK(b2) /\ \A P : Bridge(batch, P, sh) => SheetOf(b2) = P
  BY <1>1, <1>4, ReplayBackwardFacts
<1>6. ASSUME "no_overwrite" \in Rules
      PROVE  SheetOf(b2) = sg /\ PastBridges(sg, m.retained, pp, su) /\ FutureBridges(sg, v, g)
  <2>1. PastBridges(sh, l.retained, p, st) /\ FutureBridges(sh, u, f)
    BY <1>6 DEF Sound
  <2>2. Bridge(batch, sg, sh) /\ PastBridges(sg, m.retained, pp, su)
    BY <1>2, <2>1
  <2> HIDE DEF sh
  <2>3. FutureBridges(sg, Append(u, batch), Append(f, sh))
    BY ONLY <1>1, <1>3, <2>1, <2>2, FutureSteps
  <2> QED BY <1>5, <2>2, <2>3 DEF v, g
<1>7. Sound(b2, m, v, pp, g, su)
  BY <1>2, <1>5, <1>6 DEF Sound
<1> QED BY <1>2, <1>3, <1>6, <1>7 DEF v, pp, g, sg

\* Redo of the last batch.
LEMMA RedoMade ==
  ASSUME NEW b, NEW l, NEW u, NEW p, NEW f, NEW st, Sound(b, l, u, p, f, st), l.depth = 0, u # <<>>,
         NEW batch, batch = u[Len(u)], NEW b2, b2 = ReplayForward(b, batch),
         NEW m, m = EndCompound(Relogged(BeginCompound(l), batch))
  PROVE  /\ \E su : Sound(b2, m, SubSeq(u, 1, Len(u) - 1), Append(p, SheetOf(b)), SubSeq(f, 1, Len(f) - 1), su)
         /\ m.depth = 0 /\ f # <<>>
         /\ "no_overwrite" \in Rules => SheetOf(b2) = f[Len(f)]
<1> DEFINE sh == SheetOf(b)
           su == Append(st, Len(l.retained) + 1)
           v == SubSeq(u, 1, Len(u) - 1)
           g == SubSeq(f, 1, Len(u) - 1)
           pp == Append(p, sh)
           sg == f[Len(u)]
<1>1. BookOK(b) /\ Shape(l, u, p, f, st) /\ sh \in Sheets
  BY SheetFacts DEF Sound, BookOK
<1>2. u \in Seq(Seq(Events)) /\ f \in Seq(Sheets) /\ Len(f) = Len(u)
  BY <1>1 DEF Shape
<1>3. Len(u) > 0 /\ Len(u) \in 1..Len(u) /\ f # <<>> /\ batch \in Seq(Events) /\ sg \in Sheets
  BY <1>2
<1>4. /\ Shape(m, v, pp, g, su) /\ m.depth = 0
      /\ \A sk \in Sheets : PastBridges(sh, l.retained, p, st) /\ Bridge(batch, sh, sk) => PastBridges(sk, m.retained, pp, su)
  <2> HIDE DEF sh
  <2>1. m = EndCompound(Relogged(BeginCompound(l), u[Len(u)]))
    OBVIOUS
  <2> QED BY <1>1, <1>3, <2>1, RedoStep
<1> HIDE DEF su, v, g, pp, sg
<1>5. BookOK(b2) /\ \A Q : Bridge(batch, sh, Q) => SheetOf(b2) = Q
  BY <1>1, <1>3, ReplayForwardFacts
<1>6. ASSUME "no_overwrite" \in Rules
      PROVE  SheetOf(b2) = sg /\ PastBridges(sg, m.retained, pp, su) /\ FutureBridges(sg, v, g)
  <2>1. PastBridges(sh, l.retained, p, st) /\ FutureBridges(sh, u, f)
    BY <1>6 DEF Sound
  <2> HIDE DEF sh
  <2>2. /\ Bridge(u[Len(u)], sh, f[Len(u)])
        /\ FutureBridges(f[Len(u)], SubSeq(u, 1, Len(u) - 1), SubSeq(f, 1, Len(u) - 1))
    BY ONLY <1>2, <1>3, <2>1, FutureSteps
  <2>3. Bridge(batch, sh, sg) /\ FutureBridges(sg, v, g)
    BY <2>2 DEF sg, v, g
  <2> QED BY <1>3, <1>4, <1>5, <2>1, <2>3
<1>7. Sound(b2, m, v, pp, g, su)
  BY <1>4, <1>5, <1>6 DEF Sound
<1> QED BY <1>2, <1>3, <1>4, <1>6, <1>7 DEF v, pp, g, sg

-----------------------------------------------------------------------------
(* The steps *)

\* A step of the abstract history, or none.
AbstractStep == [Abstract!Next]_(Abstract!vars)

LEMMA EmptyBooks ==
  ASSUME Init, Defers \subseteq BOOLEAN
  PROVE  HInv
<1> DEFINE st == <<>>
<1>0. Empty \in AllValues
  BY DEF AllValues
<1>1. BookOK(book)
  <2>1. PICK defer \in Defers :
       book = [formula  |-> [c \in Cells |-> None], extent |-> [c \in Cells |-> FALSE],
               staged   |-> [c \in Cells |-> None], delta  |-> [c \in Cells |-> None],
               computed |-> [c \in Cells |-> None], base   |-> [c \in Cells |-> Empty],
               limit    |-> Limit,                   defer  |-> defer]
    BY DEF Init
  <2> QED BY <1>0, <2>1 DEF BookOK, Books
<1>2. Len(st) = 0 /\ 1..0 = {} /\ st \in Seq(Nat) /\ Len(<<>>) = 0
  OBVIOUS
<1>3. LogOK(EmptyLog, st)
  <2>1. EmptyLog \in Logs
    BY DEF EmptyLog, Logs, Stacks, Groups, Retained
  <2>2. EmptyLog.retained = <<>> /\ EmptyLog.stack = <<>> /\ EmptyLog.depth = 0 /\ <<>> \in Seq(Entries)
    BY DEF EmptyLog
  <2>3. Segments(<<>>, st)
    BY <1>2, <2>2 DEF Segments
  <2> QED BY <1>2, <2>1, <2>2, <2>3 DEF LogOK
<1>4. Shape(EmptyLog, <<>>, <<>>, <<>>, st)
  <2>1. Balanced(EmptyLog.retained, st, EmptyLog.depth)
    BY <1>2 DEF Balanced
  <2> QED BY <1>2, <1>3, <2>1 DEF Shape
<1>5. \A sh : PastBridges(sh, EmptyLog.retained, <<>>, st) /\ FutureBridges(sh, <<>>, <<>>)
  BY <1>2 DEF PastBridges, FutureBridges
<1> HIDE DEF st
<1>6. Sound(book, EmptyLog, <<>>, <<>>, <<>>, st)
  BY <1>1, <1>4, <1>5 DEF Sound
<1> QED BY <1>6 DEF HInv, Init

\* An edit takes place in an open action, with nothing left to redo.
LEMMA InAction ==
  ASSUME Careful, MayEdit, NewStep
  PROVE  log.depth > 0 /\ undone = <<>> /\ UNCHANGED <<past, future>>
<1>1. log.depth > 0 /\ undone = <<>>
  BY DEF Careful, MayEdit
<1>2. log.depth # 0
  BY <1>1
<1> QED BY <1>1, <1>2 DEF NewStep

LEMMA EditIsEdit ==
  ASSUME NEW c \in Cells, OneCell(SheetOf(book), c, SheetOf(book')), log.depth > 0, log'.depth = log.depth,
         UNCHANGED <<past, future>>
  PROVE  AbstractStep
<1>1. PICK x \in Contents : SheetOf(book') = [SheetOf(book) EXCEPT ![c] = x]
  BY DEF OneCell
<1>2. SheetOf(book)' = SheetOf(book')
  OBVIOUS
<1>3. Abstract!Edit(c, x)
  BY <1>1, <1>2 DEF Abstract!Edit
<1> QED BY <1>3 DEF AbstractStep, Abstract!Next, Contents

LEMMA SetValueKeeps ==
  ASSUME Careful, HInv, NEW c \in Cells, NEW v \in Values, SetValue(c, v)
  PROVE  HInv' /\ AbstractStep
<1> DEFINE e == CellEvent("SetValue", c, GetCellValue(book, c), book.formula[c], v)
<1>1. PICK st : Sound(book, log, undone, past, future, st)
  BY DEF HInv
<1>2. log.depth > 0 /\ undone = <<>> /\ UNCHANGED <<past, future>>
  BY InAction DEF SetValue
<1>3. BookOK(book) /\ book.formula[c] \in Formulas \cup {None} /\ v \in AllValues
  BY <1>1 DEF Sound, BookOK, Books, AllValues
<1>4. e \in ValueEvents /\ e.cell = c /\ e.new = v /\ e.oldFormula = book.formula[c] /\ e.oldValue = GetCellValue(book, c)
  <2>1. GetCellValue(book, c) \in AllValues \cup {None}
    BY <1>3, ShownValue
  <2> QED BY <1>3, <2>1 DEF CellEvent, ValueEvents
<1>5. book' = BookSet(book, e) /\ log' = LogSet(log, e, book.staged[e.cell]) /\ undone' = <<>>
  BY <1>2, <1>4 DEF SetValue, ClearStaged, BookSet, LogSet
<1> HIDE DEF e
<1>6. Sound(book', log', <<>>, past, future, st) /\ log'.depth = log.depth /\ OneCell(SheetOf(book), e.cell, SheetOf(book'))
  BY <1>1, <1>2, <1>4, <1>5, EditMade
<1>7. HInv'
  BY <1>2, <1>5, <1>6 DEF HInv
<1> QED BY <1>2, <1>4, <1>6, <1>7, EditIsEdit

LEMMA SetFormulaKeeps ==
  ASSUME Careful, HInv, NEW c \in Cells, NEW f \in Formulas, SetFormulaInGraph(c, f)
  PROVE  HInv' /\ AbstractStep
<1> DEFINE oldValue == IF book.defer THEN GetCellValue(book, c) ELSE None
           e == CellEvent("SetFormula", c, oldValue, book.formula[c], f)
<1>1. PICK st : Sound(book, log, undone, past, future, st)
  BY DEF HInv
<1>2. log.depth > 0 /\ undone = <<>> /\ UNCHANGED <<past, future>>
  BY InAction DEF SetFormulaInGraph
<1>3. BookOK(book) /\ book.formula[c] \in Formulas \cup {None}
  BY <1>1 DEF Sound, BookOK, Books
<1>4. e \in FormulaEvents /\ e.cell = c /\ e.new = f /\ e.oldFormula = book.formula[c] /\ e.oldValue = oldValue /\ e \notin ValueEvents
  <2>1. oldValue \in AllValues \cup {None}
    BY <1>3, ShownValue
  <2> HIDE DEF oldValue
  <2> QED BY <1>3, <2>1 DEF CellEvent, FormulaEvents, ValueEvents
<1>5. book' = BookSet(book, e) /\ log' = LogSet(log, e, book.staged[e.cell]) /\ undone' = <<>>
  BY <1>2, <1>4 DEF SetFormulaInGraph, ClearStaged, BookSet, LogSet
<1>6. "no_overwrite" \in Rules => book.formula[c] # None \/ oldValue = GetCellValue(book, c)
  BY DEF SetFormulaInGraph
<1> HIDE DEF e, oldValue
<1>7. Sound(book', log', <<>>, past, future, st) /\ log'.depth = log.depth /\ OneCell(SheetOf(book), e.cell, SheetOf(book'))
  BY <1>1, <1>2, <1>4, <1>5, <1>6, EditMade
<1>8. HInv'
  BY <1>2, <1>5, <1>7 DEF HInv
<1> QED BY <1>2, <1>4, <1>7, <1>8, EditIsEdit

LEMMA StageFormulaKeeps ==
  ASSUME Careful, HInv, NEW c \in Cells, NEW f \in Formulas, StageFormula(c, f)
  PROVE  HInv' /\ AbstractStep
<1>1. PICK st : Sound(book, log, undone, past, future, st)
  BY DEF HInv
<1>2. log.depth > 0 /\ undone = <<>> /\ UNCHANGED <<past, future>>
  BY InAction DEF StageFormula
<1>3. /\ book' = [book EXCEPT !.staged[c] = f] /\ undone' = <<>>
      /\ log' = IF book.staged[c] = f THEN log ELSE RecordEvent(log, StagedEvent(c, book.staged[c], f))
  BY <1>2 DEF StageFormula
<1>4. Sound(book', log', <<>>, past, future, st) /\ log'.depth = log.depth /\ OneCell(SheetOf(book), c, SheetOf(book'))
  BY <1>1, <1>2, <1>3, StageMade
<1>5. HInv'
  BY <1>2, <1>3, <1>4 DEF HInv
<1> QED BY <1>2, <1>4, <1>5, EditIsEdit

LEMMA EvaluateKeeps ==
  ASSUME HInv, Evaluate
  PROVE  HInv' /\ AbstractStep
<1>1. PICK st : Sound(book, log, undone, past, future, st)
  BY DEF HInv
<1>2. BookOK(book') /\ SheetOf(book') = SheetOf(book)
  BY <1>1, EvaluateFacts DEF Sound, Evaluate
<1>3. Sound(book', log, undone, past, future, st)
  BY <1>1, <1>2 DEF Sound
<1>4. HInv'
  BY <1>3 DEF HInv, Evaluate
<1>5. UNCHANGED Abstract!vars
  BY <1>2 DEF Abstract!vars, Evaluate
<1> QED BY <1>4, <1>5 DEF AbstractStep

LEMMA BeginKeeps ==
  ASSUME Careful, HInv, BeginAction
  PROVE  HInv' /\ AbstractStep
<1>1. PICK st : Sound(book, log, undone, past, future, st)
  BY DEF HInv
<1>2. undone = <<>> /\ undone' = <<>> /\ book' = book /\ log' = BeginCompound(log) /\ NewStep /\ log.depth \in Nat
  BY <1>1 DEF Careful, BeginAction, Sound, Shape, LogOK, Logs
<1>3. SheetOf(book)' = SheetOf(book)
  BY <1>2
<1>4. CASE log.depth = 0
  <2>1. past' = Append(past, SheetOf(book)) /\ future' = <<>>
    BY <1>2, <1>4 DEF NewStep
  <2>2. (\E su : Sound(book, log', <<>>, Append(past, SheetOf(book)), <<>>, su)) /\ log'.depth = 1 /\ future = <<>>
    BY <1>1, <1>2, <1>4, BeginMade
  <2>3. HInv'
    BY <1>2, <2>1, <2>2 DEF HInv
  <2>4. Abstract!Begin
    <3>1. ~(log.depth > 0) /\ (log'.depth > 0) /\ future' = future
      BY <1>4, <2>1, <2>2
    <3> QED BY <1>3, <2>1, <3>1 DEF Abstract!Begin
  <2> QED BY <2>3, <2>4 DEF AbstractStep, Abstract!Next
<1>5. CASE log.depth > 0
  <2>1. past' = past /\ future' = future
    <3>1. log.depth # 0
      BY <1>5
    <3> QED BY <1>2, <3>1 DEF NewStep
  <2>2. Sound(book, log', undone, past, future, st) /\ log'.depth = log.depth + 1
    BY <1>1, <1>2, <1>5, NestMade
  <2>3. HInv'
    BY <1>2, <2>1, <2>2 DEF HInv
  <2>4. UNCHANGED Abstract!vars
    <3>1. (log.depth > 0) /\ (log'.depth > 0)
      BY <1>2, <1>5, <2>2
    <3>2. (log.depth > 0)' = (log.depth > 0)
      BY <3>1
    <3> QED BY <1>3, <2>1, <3>2 DEF Abstract!vars
  <2> QED BY <2>3, <2>4 DEF AbstractStep
<1> QED BY <1>2, <1>4, <1>5

LEMMA EndKeeps ==
  ASSUME HInv, EndAction
  PROVE  HInv' /\ AbstractStep
<1>1. PICK st : Sound(book, log, undone, past, future, st)
  BY DEF HInv
<1>2. /\ log.depth > 0 /\ log' = EndCompound(log) /\ log.depth \in Nat
      /\ book' = book /\ undone' = undone /\ past' = past /\ future' = future
  BY <1>1 DEF EndAction, Sound, Shape, LogOK, Logs
<1>3. Sound(book, log', undone, past, future, st) /\ log'.depth = log.depth - 1 /\ future = <<>>
  BY <1>1, <1>2, EndMade
<1>4. HInv'
  BY <1>2, <1>3 DEF HInv
<1>5. SheetOf(book)' = SheetOf(book)
  BY <1>2
<1>6. CASE log.depth = 1
  <2>1. ~(log'.depth > 0)
    BY <1>3, <1>6
  <2>2. Abstract!End
    BY <1>2, <1>3, <1>5, <2>1 DEF Abstract!End
  <2> QED BY <1>4, <2>2 DEF AbstractStep, Abstract!Next
<1>7. CASE log.depth # 1
  <2>1. (log.depth > 0)' = (log.depth > 0)
    <3>1. log'.depth > 0
      BY <1>2, <1>3, <1>7
    <3> QED BY <1>2, <3>1
  <2>2. UNCHANGED Abstract!vars
    BY <1>2, <1>5, <2>1 DEF Abstract!vars
  <2> QED BY <1>4, <2>2 DEF AbstractStep
<1> QED BY <1>6, <1>7

\* What undo takes is the last action.
LEMMA UndoTakes ==
  ASSUME Careful, NEW st, Sound(book, log, undone, past, future, st), Undo
  PROVE  /\ log.depth = 0 /\ Len(st) > 0 /\ past # <<>>
         /\ log' = TruncateLog(log, st[Len(st)] - 1)
         /\ book' = ReplayBackward(book, Batch(log.retained, st, Len(st)))
         /\ undone' = Append(undone, Batch(log.retained, st, Len(st)))
         /\ past' = SubSeq(past, 1, Len(past) - 1) /\ future' = Append(future, SheetOf(book))
<1> DEFINE r == log.retained
           group == LastGroupIndices(log)
           first == Min(group)
           batch == [i \in 1..Cardinality(group) |-> r[first + i - 1].ev]
<1>1. /\ log.depth = 0 /\ group # {}
      /\ log' = TruncateLog(log, first - 1) /\ book' = ReplayBackward(book, batch) /\ undone' = Append(undone, batch)
      /\ past' = (IF past = <<>> THEN past ELSE Front(past)) /\ future' = Append(future, SheetOf(book))
  BY DEF Undo, MayReplay, Careful
<1>2. Segments(r, st) /\ r \in Seq(Entries) /\ st \in Seq(Nat) /\ past \in Seq(Sheets) /\ Len(past) = Len(st)
  BY DEF Sound, Shape, LogOK, Segments
<1>3. Len(st) > 0
  <2> SUFFICES ASSUME Len(st) = 0 PROVE FALSE
    BY <1>2
  <2>1. Len(r) = 0
    BY <1>2 DEF Segments
  <2>2. DOMAIN r = {}
    BY <1>2, <2>1
  <2>3. group = {}
    BY <2>1, <2>2 DEF LastGroupIndices
  <2> QED BY <1>1, <2>3
<1>4. first = st[Len(st)] /\ Cardinality(group) = Len(r) - st[Len(st)] + 1
  <2>1. r = log.retained
    OBVIOUS
  <2> HIDE DEF r
  <2> QED BY <1>2, <1>3, <2>1, LastGroupFacts
<1>5. batch = Batch(r, st, Len(st))
  <2>1. EndOf(r, st, Len(st)) = Len(r)
    BY DEF EndOf
  <2> QED BY <1>4, <2>1 DEF Batch
<1>6. past # <<>>
  BY <1>2, <1>3
<1>7. past' = SubSeq(past, 1, Len(past) - 1)
  BY <1>1, <1>6 DEF Front
<1> HIDE DEF first, batch, group
<1> QED BY <1>1, <1>3, <1>4, <1>5, <1>6, <1>7

LEMMA UndoKeeps ==
  ASSUME Careful, HInv, Undo
  PROVE  /\ HInv'
         /\ "no_overwrite" \in Rules => SheetOf(book)' = past[Len(past)] /\ AbstractStep
<1>1. PICK st : Sound(book, log, undone, past, future, st)
  BY DEF HInv
<1> DEFINE batch == Batch(log.retained, st, Len(st))
<1>2. /\ log.depth = 0 /\ Len(st) > 0 /\ past # <<>>
      /\ log' = TruncateLog(log, st[Len(st)] - 1) /\ book' = ReplayBackward(book, batch)
      /\ undone' = Append(undone, batch)
      /\ past' = SubSeq(past, 1, Len(past) - 1) /\ future' = Append(future, SheetOf(book))
  BY <1>1, UndoTakes
<1>3. /\ \E su : Sound(book', log', Append(undone, batch), SubSeq(past, 1, Len(past) - 1), Append(future, SheetOf(book)), su)
      /\ log'.depth = 0
      /\ "no_overwrite" \in Rules => SheetOf(book') = past[Len(past)]
  <2>1. batch = Batch(log.retained, st, Len(st))
    OBVIOUS
  <2> HIDE DEF batch
  <2> QED BY <1>1, <1>2, <2>1, UndoMade
<1> HIDE DEF batch
<1>4. HInv'
  BY <1>2, <1>3 DEF HInv
<1>5. ASSUME "no_overwrite" \in Rules PROVE SheetOf(book)' = past[Len(past)] /\ AbstractStep
  <2>1. SheetOf(book)' = past[Len(past)]
    BY <1>3, <1>5
  <2>2. ~(log.depth > 0) /\ ~(log'.depth > 0)
    BY <1>2, <1>3
  <2>3. Abstract!Undo
    BY <1>2, <2>1, <2>2 DEF Abstract!Undo, Abstract!Last, Abstract!Front
  <2> QED BY <2>1, <2>3 DEF AbstractStep, Abstract!Next
<1> QED BY <1>4, <1>5

LEMMA RedoKeeps ==
  ASSUME Careful, HInv, Redo
  PROVE  HInv' /\ ("no_overwrite" \in Rules => AbstractStep) /\ Len(undone') < Len(undone)
<1>1. PICK st : Sound(book, log, undone, past, future, st)
  BY DEF HInv
<1> DEFINE batch == undone[Len(undone)]
<1>2. /\ log.depth = 0 /\ undone # <<>> /\ undone' = SubSeq(undone, 1, Len(undone) - 1)
      /\ log' = EndCompound(Relogged(BeginCompound(log), batch)) /\ book' = ReplayForward(book, batch)
      /\ past' = Append(past, SheetOf(book)) /\ future' = (IF future = <<>> THEN future ELSE Front(future))
  BY DEF Redo, MayReplay, Careful, Front
<1>3. /\ \E su : Sound(book', log', SubSeq(undone, 1, Len(undone) - 1), Append(past, SheetOf(book)),
                       SubSeq(future, 1, Len(future) - 1), su)
      /\ log'.depth = 0 /\ future # <<>>
      /\ "no_overwrite" \in Rules => SheetOf(book') = future[Len(future)]
  <2>1. batch = undone[Len(undone)]
    OBVIOUS
  <2> HIDE DEF batch
  <2> QED BY <1>1, <1>2, <2>1, RedoMade
<1> HIDE DEF batch
<1>4. future' = SubSeq(future, 1, Len(future) - 1)
  BY <1>2, <1>3 DEF Front
<1>5. HInv'
  BY <1>2, <1>3, <1>4 DEF HInv
<1>6. ASSUME "no_overwrite" \in Rules PROVE AbstractStep
  <2>1. SheetOf(book)' = future[Len(future)]
    BY <1>3, <1>6
  <2>2. ~(log.depth > 0) /\ ~(log'.depth > 0)
    BY <1>2, <1>3
  <2>3. Abstract!Redo
    BY <1>2, <1>3, <1>4, <2>1, <2>2 DEF Abstract!Redo, Abstract!Last, Abstract!Front
  <2> QED BY <2>3 DEF AbstractStep, Abstract!Next
<1>7. Len(undone') < Len(undone)
  <2>1. undone \in Seq(Seq(Events))
    BY <1>1 DEF Sound, Shape
  <2>2. Len(undone) \in Nat /\ Len(undone) > 0 /\ Len(undone) - 1 \in 0..Len(undone)
    BY <1>2, <2>1
  <2>3. Len(undone') = Len(undone) - 1
    BY <1>2, <2>1, <2>2, PrefixFacts
  <2> QED BY <2>2, <2>3
<1> QED BY <1>5, <1>6, <1>7

\* Every step keeps the invariant, is a step of the abstract history, and
\* only undo makes more to redo, back at the sheet of the past.
LEMMA StepKeeps ==
  ASSUME Careful, HInv, [Next]_vars
  PROVE  /\ HInv'
         /\ "no_overwrite" \in Rules => AbstractStep
         /\ "no_overwrite" \in Rules /\ Len(undone') > Len(undone) => SheetOf(book)' = past[Len(past)]
<1>0. Len(undone) \in Nat
  BY DEF HInv, Sound, Shape
<1>1. ASSUME NEW c \in Cells, NEW v \in Values, SetValue(c, v)
      PROVE  HInv' /\ AbstractStep /\ undone' = undone
  BY <1>1, SetValueKeeps DEF SetValue
<1>2. ASSUME NEW c \in Cells, NEW f \in Formulas, SetFormulaInGraph(c, f)
      PROVE  HInv' /\ AbstractStep /\ undone' = undone
  BY <1>2, SetFormulaKeeps DEF SetFormulaInGraph
<1>3. ASSUME NEW c \in Cells, NEW f \in Formulas, StageFormula(c, f)
      PROVE  HInv' /\ AbstractStep /\ undone' = undone
  BY <1>3, StageFormulaKeeps DEF StageFormula
<1>4. CASE Evaluate
  BY <1>0, <1>4, EvaluateKeeps DEF Evaluate
<1>5. CASE BeginAction
  BY <1>0, <1>5, BeginKeeps DEF BeginAction
<1>6. CASE EndAction
  BY <1>0, <1>6, EndKeeps DEF EndAction
<1>7. CASE Undo
  BY <1>7, UndoKeeps
<1>8. CASE Redo
  <2>1. Len(undone') \in Nat
    BY <1>8, RedoKeeps DEF HInv, Sound, Shape
  <2> QED BY <1>0, <1>8, <2>1, RedoKeeps
<1>9. CASE UNCHANGED vars
  <2>1. HInv'
    BY <1>9 DEF HInv, vars
  <2>2. UNCHANGED Abstract!vars /\ undone' = undone
    BY <1>9 DEF Abstract!vars, vars
  <2> QED BY <1>0, <2>1, <2>2 DEF AbstractStep
<1> QED BY <1>0, <1>1, <1>2, <1>3, <1>4, <1>5, <1>6, <1>7, <1>8, <1>9 DEF Next

-----------------------------------------------------------------------------
(* The theorems *)

\* Every state of a careful client (Workbook's edits, actions, undo and redo)
\* has the books, the log and the history in the relation HInv: the log is
\* cut into the actions done, each of which, as each batch undone, leads from
\* one sheet of the history to the next.
THEOREM HistoryInvariant ==
  ASSUME Careful, Defers \subseteq BOOLEAN
  PROVE  Spec => []HInv
<1>1. Init => HInv
  BY EmptyBooks
<1>2. HInv /\ [Next]_vars => HInv'
  BY StepKeeps
<1> QED BY <1>1, <1>2, PTL DEF Spec

LEMMA StepsFollow ==
  ASSUME HInv
  PROVE  StepsAreActions /\ UndoAvailable
<1>1. PICK st : Sound(book, log, undone, past, future, st)
  BY DEF HInv
<1>2. /\ BookOK(book) /\ LogOK(log, st) /\ Len(past) = Len(st) /\ Len(future) = Len(undone)
      /\ undone \in Seq(Seq(Events)) /\ st \in Seq(Nat) /\ log.retained \in Seq(Entries)
      /\ \A k \in 1..Len(undone) : undone[k] # <<>> /\ Count(undone[k], "CompoundStart") = Count(undone[k], "CompoundEnd")
  BY <1>1 DEF Sound, Shape, LogOK, Segments
<1>3. Segments(log.retained, st) /\ log.depth \in Nat /\ log.seq \in Nat /\ Len(log.stack) = log.depth
  BY <1>2 DEF LogOK, Logs
<1>4. DOMAIN undone = 1..Len(undone)
  BY <1>2
<1>5. TypeOK
  BY <1>2, <1>3, <1>4 DEF TypeOK, BookOK, Books
<1>6. StepsMatchGroups
  BY <1>2, <1>3, GroupCount DEF StepsMatchGroups
<1>7. UndoneWhole
  BY <1>2, <1>4 DEF UndoneWhole
<1>8. ASSUME log.retained # <<>> PROVE Max(LastGroupIndices(log)) = Len(log.retained)
  <2>1. Len(log.retained) # 0
    BY <1>2, <1>8, EmptySeq
  <2>2. Len(st) > 0
    BY <1>2, <1>3, <2>1 DEF Segments
  <2> QED BY <1>3, <2>2, LastGroupFacts
<1> QED BY <1>5, <1>6, <1>7, <1>8 DEF StepsAreActions, UndoAvailable

\* Steps are actions (workbook.rs begin_action, end_action, undo, redo): for a
\* client that edits in actions, closes them before it undoes or redoes and
\* redoes all it undid before it edits again, the groups on the log are its
\* actions, and the batches kept for redo are whole actions, opened as often
\* as closed.
THEOREM StepsAreActionsHolds ==
  ASSUME Careful, Defers \subseteq BOOLEAN
  PROVE  Spec => []StepsAreActions
<1>1. Spec => []HInv
  BY HistoryInvariant
<1>2. HInv => StepsAreActions
  BY StepsFollow
<1> QED BY <1>1, <1>2, PTL

\* Undo is never refused (undo_engine.rs, "Non-tail undo not supported"): the
\* last group of the log always ends it.
THEOREM UndoAvailableHolds ==
  ASSUME Careful, Defers \subseteq BOOLEAN
  PROVE  Spec => []UndoAvailable
<1>1. Spec => []HInv
  BY HistoryInvariant
<1>2. HInv => UndoAvailable
  BY StepsFollow
<1> QED BY <1>1, <1>2, PTL

\* Undo brings back the sheet before the action (undo_logged), whatever was
\* evaluated, compacted, undone and redone in between.
THEOREM UndoRevertsHolds ==
  ASSUME Careful, "no_overwrite" \in Rules, Defers \subseteq BOOLEAN
  PROVE  Spec => UndoReverts
<1>1. Spec => []HInv
  BY HistoryInvariant
<1>2. HInv /\ [Next]_vars => [Len(undone') > Len(undone) /\ past # <<>> => SheetOf(book)' = past[Len(past)]]_vars
  BY StepKeeps
<1> QED BY <1>1, <1>2, PTL DEF Spec, UndoReverts

\* The workbook implements the abstract linear history: every edit, undo and
\* redo of edit_with_logger, undo_logged and redo_logged is a step of it.
THEOREM LinearHistoryImplemented ==
  ASSUME Careful, "no_overwrite" \in Rules, Defers \subseteq BOOLEAN
  PROVE  Spec => ImplementsLinearHistory
<1>1. Spec => []HInv
  BY HistoryInvariant
<1>2. HInv /\ [Next]_vars => [Abstract!Next]_(Abstract!vars)
  BY StepKeeps DEF AbstractStep
<1>3. Init => Abstract!Init
  <2> SUFFICES ASSUME Init PROVE Abstract!Init
    OBVIOUS
  <2>1. PICK st : Sound(book, log, undone, past, future, st)
    BY EmptyBooks DEF HInv
  <2>2. SheetOf(book) \in Sheets
    BY <2>1, SheetFacts DEF Sound, BookOK
  <2>3. (log.depth > 0) = FALSE /\ past = <<>> /\ future = <<>>
    BY DEF Init, EmptyLog
  <2> QED BY <2>2, <2>3 DEF Abstract!Init, Sheets
<1> QED BY <1>1, <1>2, <1>3, PTL DEF Spec, ImplementsLinearHistory, Abstract!Spec
===============================================================================
