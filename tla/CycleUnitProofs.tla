--------------------------- MODULE CycleUnitProofs ---------------------------
(***************************************************************************)
(* Theorems about CycleUnit, for any number of members, any formulas and   *)
(* any limits: a task that settles leaves the one assignment of values     *)
(* that does not depend on what was there before, a retained cycle is a    *)
(* fixed point, and a cycle goes on from the values it had.                *)
(*                                                                         *)
(* The invariant follows the settle loop through a pass: a member that has *)
(* run, or did not have to, shows what it computes from the values as they *)
(* are now, unless it reads itself or will be found stale.  The budget of  *)
(* the loop suffices because every settle pass but one makes another       *)
(* member final: up to date and reading only final members.                *)
(***************************************************************************)
EXTENDS CycleUnit, FiniteSetTheorems, WellFoundedInduction, TLAPS

-----------------------------------------------------------------------------
(* The inductive invariant *)

\* The phases, and what is pinned: members that were stamped show #CIRC!.
TaskOK ==
  /\ phase # "idle" => dirty
  /\ phase # "idle" => \A i \in Members : IsAnchor(i) => i \in excluded
  /\ phase # "idle" => \A i \in excluded : value[i] = Circ
  /\ phase \in {"pass", "last"} => todo \cap excluded = {}
  /\ phase \in {"first", "classify"} => how = "none"
  /\ phase = "pass" => how \in {"none", "stamped"}
  /\ phase = "last" => how = "stamped"
  /\ phase = "classify" => todo = {}
  /\ phase \in {"idle", "first", "finished"} => prev = <<>>

Looping == phase \in {"pass", "classify"} /\ how = "none"

\* Member i shows what it computes now, and its edges are up to date.
Computed(i) == value[i] = Result(i, value) /\ reads[i] = Reads(i, value)

\* A member that the pass is done with is up to date, reads itself, or will
\* be found stale.
SettleOK ==
  Looping => \A i \in Members \ (excluded \cup todo) :
               i \in Stale \/ i \in reads[i] \/ Computed(i)

\* In a full pass after another one every member computes its value from
\* values before and after the pass.
Mixed(w) == \A j \in Members : w[j] \in {prev[j], value[j]}
MixOK ==
  Looping /\ prev # <<>> =>
    \A i \in Members \ excluded :
      /\ i \in todo => value[i] = prev[i]
      /\ i \notin todo => \E w \in [Members -> Values] : Mixed(w) /\ value[i] = Result(i, w)

Fixed == \A i \in Members : value[i] = Result(i, value)

\* How a task ended, until its request does.
EndOK ==
  phase \in {"ending", "finished"} =>
    /\ how = "exact" /\ excluded = {} => Fixed
    /\ how = "settled" => Ground(value, excluded)
    /\ phase = "finished" /\ retained => iterating /\ how = "exact" /\ persisted = value

\* Between requests.
IdleOK ==
  phase = "idle" =>
    /\ ~dirty /\ retained /\ excluded = {} => Fixed
    /\ ~dirty /\ how = "settled" => Ground(value, excluded)
    /\ last # <<>> => persisted = last /\ \A i \in Members : value[i] \in {last[i], Empty}

IInv ==
  TypeOK /\ TaskOK /\ SettleOK /\ MixOK /\ EndOK /\ IdleOK /\ StateSurvives

-----------------------------------------------------------------------------
(* Formulas *)

\* A term over values of the members has a value, and depends on what it reads.
LEMMA TermFacts ==
  ASSUME NEW term \in Term, NEW v \in [Members -> Values], NEW w \in [Members -> Values],
         \A j \in TermReads(term) : v[j] = w[j]
  PROVE  /\ TermValue(term, v) \in Values \cup {Array}
         /\ TermReads(term) \subseteq Members
         /\ TermValue(term, w) = TermValue(term, v)
<1>1. CASE term \in [op : {"const"}, of : Numbers]
  BY <1>1, ValuesAssumption DEF TermValue, TermReads, Values
<1>2. CASE term \in [op : {"ref", "next", "flip", "array"}, of : Members]
  <2>1. v[term.of] \in Values /\ term.op \in {"ref", "next", "flip", "array"}
        /\ term.of \in Members
    BY <1>2
  <2>2. term.op # "array" => w[term.of] = v[term.of]
    BY <2>1 DEF TermReads
  <2>3. v[term.of] # Circ => Number(v[term.of]) \in Numbers
    BY <2>1, SizesAssumption DEF Number, Values, Numbers
  <2>4. TermValue(term, v) \in Values \cup {Array}
    BY <2>1, <2>3, SizesAssumption DEF TermValue, Values, Numbers
  <2>5. TermValue(term, w) = TermValue(term, v)
    BY <2>1, <2>2 DEF TermValue
  <2> QED BY <2>1, <2>4, <2>5 DEF TermReads
<1> QED BY <1>1, <1>2 DEF Term

\* A formula that is not an anchor computes a value or an array from what it
\* reads.
LEMMA FormulaFacts ==
  ASSUME formula \in [Members -> Formula], NEW i \in Members, ~IsAnchor(i),
         NEW v \in [Members -> Values], NEW w \in [Members -> Values],
         \A j \in Reads(i, v) : v[j] = w[j]
  PROVE  /\ Result(i, v) \in Values \cup {Array} /\ Reads(i, v) \subseteq Members
         /\ Result(i, w) = Result(i, v) /\ Reads(i, w) = Reads(i, v)
<1> DEFINE f == formula[i]
           b == Taken(f, v)
<1>1. /\ f \in Formula /\ f.yes \in Term /\ f.no \in Term /\ f.on \in Members
      /\ f.test \in {"none", "input", "positive", "iserror"}
  BY DEF Formula, IsAnchor, Anchor
<1>2. /\ Result(i, v) = IF b = "fail" THEN Circ ELSE TermValue(Branch(f, b), v)
      /\ Reads(i, v) = (IF f.test \in {"positive", "iserror"} THEN {f.on} ELSE {})
                       \cup (IF b = "fail" THEN {} ELSE TermReads(Branch(f, b)))
  BY DEF Result, Reads
<1>3. Taken(f, w) = b
  BY <1>1, <1>2 DEF Taken
<1>4. /\ Result(i, w) = IF b = "fail" THEN Circ ELSE TermValue(Branch(f, b), w)
      /\ Reads(i, w) = (IF f.test \in {"positive", "iserror"} THEN {f.on} ELSE {})
                       \cup (IF b = "fail" THEN {} ELSE TermReads(Branch(f, b)))
  BY <1>3 DEF Result, Reads
<1>5. Branch(f, b) \in Term
  BY <1>1 DEF Branch
<1> HIDE DEF f, b
<1>6. CASE b = "fail"
  BY <1>1, <1>2, <1>4, <1>6 DEF Values
<1>7. CASE b # "fail"
  <2>1. \A j \in TermReads(Branch(f, b)) : v[j] = w[j]
    BY <1>2, <1>7
  <2> QED BY <1>1, <1>2, <1>4, <1>5, <1>7, <2>1, TermFacts
<1> QED BY <1>6, <1>7

\* What formulas compute depends on the input cell and on nothing else that
\* a request changes.
LEMMA SameFormulas ==
  ASSUME UNCHANGED <<formula, input>>
  PROVE  \A j, w : Result(j, w)' = Result(j, w) /\ Reads(j, w)' = Reads(j, w)
<1> SUFFICES ASSUME NEW j, NEW w
             PROVE  Result(j, w)' = Result(j, w) /\ Reads(j, w)' = Reads(j, w)
  OBVIOUS
<1>1. Taken(formula[j], w)' = Taken(formula[j], w)
  BY DEF Taken
<1>2. Result(j, w)' = Result(j, w)
  BY <1>1 DEF Result
<1>3. Reads(j, w)' = Reads(j, w)
  BY <1>1 DEF Reads
<1> QED BY <1>2, <1>3

-----------------------------------------------------------------------------
(* The live graph *)

\* Reached is closed, and grows along edges.
LEMMA ReachedFacts ==
  ASSUME NEW E, NEW i \in Members
  PROVE  /\ Reached(E, i) \in SUBSET Members
         /\ Successors(E, {i}) \subseteq Reached(E, i)
         /\ \A j \in Reached(E, i) : Reached(E, j) \subseteq Reached(E, i)
<1> DEFINE R == Reached(E, i)
<1>1. R \in SUBSET Members /\ Successors(E, {i}) \subseteq R
  BY DEF Reached, Successors
<1>2. ASSUME NEW t \in Successors(E, R), NEW S \in Closed(E), Successors(E, {i}) \subseteq S
      PROVE  t \in S
  <2>1. R \subseteq S
    BY <1>2 DEF Reached
  <2>2. t \in Successors(E, S)
    BY <1>2, <2>1 DEF Successors
  <2> QED BY <1>2, <2>2 DEF Closed
<1>3. R \in Closed(E)
  BY <1>1, <1>2 DEF Closed, Reached, Successors
<1>4. ASSUME NEW j \in R PROVE Reached(E, j) \subseteq R
  <2>1. Successors(E, {j}) \subseteq Successors(E, R)
    BY <1>4 DEF Successors
  <2> QED BY <1>3, <2>1 DEF Reached, Closed
<1> QED BY <1>1, <1>4

\* Without a live cycle every set of members has one that reads none of it.
LEMMA LiveAcyclic ==
  ASSUME Live = {}, NEW S \in SUBSET (Members \ excluded), S # {}
  PROVE  \E i \in S : reads[i] \cap S = {}
<1> DEFINE E == LiveEdges
           T == {Reached(E, i) : i \in S}
<1>1. IsFiniteSet(Members)
  BY SizesAssumption, FS_Interval DEF Members
<1>2. T \subseteq SUBSET Members /\ T # {}
  BY ReachedFacts
<1>3. IsWellFoundedOn(StrictSubsetOrdering(Members), SUBSET Members)
  BY <1>1, FS_StrictSubsetOrderingWellFounded, FS_FiniteSubsetsOfFinite
<1>4. PICK x \in T : \A y \in T : <<y, x>> \notin StrictSubsetOrdering(Members)
  <2> HIDE DEF T
  <2> QED BY <1>2, <1>3, WFMin
<1>5. PICK i \in S : x = Reached(E, i)
  OBVIOUS
<1>6. ASSUME NEW j \in reads[i] \cap S PROVE FALSE
  <2>1. <<i, j>> \in E /\ i \in Members /\ j \in Members
    BY <1>6 DEF LiveEdges
  <2>2. j \in Reached(E, i)
    BY <2>1, ReachedFacts DEF Successors
  <2>3. Reached(E, j) \subseteq Reached(E, i)
    BY <2>1, <2>2, ReachedFacts
  <2>4. j \notin Reached(E, j)
    BY <2>1 DEF Live, InCycle, Reached
  <2>5. <<Reached(E, j), x>> \in StrictSubsetOrdering(Members)
    BY <1>2, <1>5, <2>2, <2>3, <2>4 DEF StrictSubsetOrdering
  <2> QED BY <1>4, <1>6, <2>5
<1> QED BY <1>6

-----------------------------------------------------------------------------
(* Passes *)

\* Members is not empty, so a vector of values is not the empty sequence.
LEMMA ValuesNotNone ==
  ASSUME NEW v \in [Members -> Values]
  PROVE  v # <<>>
<1>1. 1 \in DOMAIN v
  BY SizesAssumption DEF Members
<1> QED BY <1>1

\* What the invariant says of a member that is about to run.
LEMMA RunFacts ==
  ASSUME IInv, NEW i \in Members, RunMember(i)
  PROVE  /\ phase = "pass" /\ i \in todo /\ i \notin excluded /\ ~IsAnchor(i)
         /\ Result(i, value) \in Values \cup {Array} /\ Reads(i, value) \subseteq Members
<1>1. phase = "pass" /\ i \in todo
  BY DEF RunMember
<1>2. i \notin excluded /\ ~IsAnchor(i) /\ formula \in [Members -> Formula]
      /\ value \in [Members -> Values]
  BY <1>1 DEF IInv, TaskOK, TypeOK
<1> QED BY <1>1, <1>2, FormulaFacts

\* A run keeps the types and the phases.
LEMMA RunFrame ==
  ASSUME IInv, NEW i \in Members, RunMember(i)
  PROVE  TypeOK' /\ TaskOK' /\ EndOK' /\ IdleOK' /\ StateSurvives'
<1> DEFINE r == Result(i, value)
           v == IF r = Array THEN Circ ELSE r
<1>1. /\ phase = "pass" /\ i \in todo /\ i \notin excluded /\ ~IsAnchor(i)
      /\ r \in Values \cup {Array} /\ Reads(i, value) \subseteq Members
  BY RunFacts
<1>2. TypeOK /\ TaskOK
  BY DEF IInv
<1>3. v \in Values
  BY <1>1 DEF Values
<1>4. /\ value' = [value EXCEPT ![i] = v]
      /\ reads' = [reads EXCEPT ![i] = Reads(i, value)]
      /\ changed' \in {changed, changed \cup {i}}
      /\ excluded' = (IF r = Array THEN excluded \cup {i} ELSE excluded)
      /\ ran' = Append(ran, i) /\ todo' = todo \ {i}
      /\ phase' = (IF todo = {i} THEN AfterPass ELSE "pass")
      /\ UNCHANGED <<policy, formula, input, dirty, retained, persisted, events, last, order,
                     passes, settles, prev, iterating, how>>
  BY DEF RunMember, config, kept
<1> HIDE DEF r, v
<1>5. phase' \in {"pass", "classify", "ending"}
  BY <1>4 DEF AfterPass
<1>6. TypeOK'
  <2>1. value' \in [Members -> Values]
    BY <1>2, <1>3, <1>4 DEF TypeOK
  <2>2. reads' \in [Members -> SUBSET Members]
    BY <1>1, <1>2, <1>4 DEF TypeOK
  <2>3. ran' \in Seq(Members)
    BY <1>2, <1>4 DEF TypeOK
  <2>4. excluded' \subseteq Members /\ changed' \subseteq Members /\ todo' \subseteq Members
    BY <1>2, <1>4 DEF TypeOK
  <2> QED BY <1>2, <1>4, <1>5, <2>1, <2>2, <2>3, <2>4 DEF TypeOK
<1>7. TaskOK'
  <2>1. \A j \in excluded' : value'[j] = Circ
    <3> SUFFICES ASSUME NEW j \in excluded' PROVE value'[j] = Circ
      OBVIOUS
    <3>1. CASE j = i
      BY <1>1, <1>2, <1>4, <3>1 DEF TypeOK, v
    <3>2. CASE j # i
      BY <1>1, <1>2, <1>4, <3>2 DEF TypeOK, TaskOK
    <3> QED BY <3>1, <3>2
  <2>2. \A j \in Members : IsAnchor(j)' => j \in excluded'
    BY <1>1, <1>2, <1>4 DEF TaskOK, IsAnchor
  <2>3. todo' \cap excluded' = {}
    BY <1>1, <1>2, <1>4 DEF TaskOK
  <2>4. phase' = "classify" => todo' = {} /\ how = "none"
    BY <1>1, <1>2, <1>4 DEF TaskOK, AfterPass
  <2> QED BY <1>1, <1>2, <1>4, <1>5, <2>1, <2>2, <2>3, <2>4 DEF TaskOK
<1>8. EndOK'
  <2>1. CASE phase' # "ending"
    BY <1>5, <2>1 DEF EndOK
  <2>2. CASE phase' = "ending"
    BY <1>1, <1>2, <1>4, <2>2 DEF EndOK, AfterPass, TaskOK
  <2> QED BY <2>1, <2>2
<1>9. IdleOK' /\ StateSurvives'
  BY <1>5 DEF IdleOK, StateSurvives
<1> QED BY <1>6, <1>7, <1>8, <1>9

\* The member that ran is up to date unless it reads itself, and a member that
\* was up to date still is or has become stale.
LEMMA RunSettle ==
  ASSUME IInv, NEW i \in Members, RunMember(i)
  PROVE  SettleOK'
<1> DEFINE r == Result(i, value)
           v == IF r = Array THEN Circ ELSE r
<1>1. /\ phase = "pass" /\ i \in todo /\ i \notin excluded /\ ~IsAnchor(i)
      /\ r \in Values \cup {Array} /\ Reads(i, value) \subseteq Members
  BY RunFacts
<1>2. TypeOK /\ TaskOK /\ SettleOK
  BY DEF IInv
<1>3. /\ value \in [Members -> Values] /\ value' \in [Members -> Values]
      /\ formula \in [Members -> Formula] /\ ran \in Seq(Members)
      /\ reads \in [Members -> SUBSET Members]
  BY <1>2, RunFrame DEF TypeOK
<1>4. /\ value' = [value EXCEPT ![i] = v]
      /\ reads' = [reads EXCEPT ![i] = Reads(i, value)]
      /\ changed' = (IF v # value[i] THEN changed \cup {i} ELSE changed)
      /\ excluded' = (IF r = Array THEN excluded \cup {i} ELSE excluded)
      /\ ran' = Append(ran, i) /\ todo' = todo \ {i}
      /\ UNCHANGED <<formula, input, how>>
  BY DEF RunMember, config, kept
<1>5. \A j, w : Result(j, w)' = Result(j, w) /\ Reads(j, w)' = Reads(j, w)
  BY <1>4, SameFormulas
<1> SUFFICES ASSUME Looping', NEW j \in Members \ (excluded' \cup todo'),
                    j \notin reads'[j], j \notin Stale'
             PROVE  value'[j] = Result(j, value') /\ reads'[j] = Reads(j, value')
  BY <1>5 DEF SettleOK, Computed
<1>6. how = "none" /\ Looping
  BY <1>1, <1>4 DEF Looping
<1> HIDE DEF r, v
<1>7. CASE j = i
  <2>1. reads'[i] = Reads(i, value) /\ value'[i] = v
    BY <1>3, <1>4
  <2>2. r # Array /\ v = r
    BY <1>4, <1>7 DEF v
  <2>3. \A k \in Reads(i, value) : value[k] = value'[k]
    BY <1>1, <1>3, <1>4, <1>7, <2>1
  <2>4. Result(i, value') = Result(i, value) /\ Reads(i, value') = Reads(i, value)
    BY <1>1, <1>3, <2>3, FormulaFacts
  <2> QED BY <1>7, <2>1, <2>2, <2>4 DEF r
<1>8. CASE j # i
  <2>1. j \in Members \ (excluded \cup todo) /\ reads'[j] = reads[j] /\ value'[j] = value[j]
    BY <1>3, <1>4, <1>8
  \* Positions in the pass do not change.
  <2>2. /\ DOMAIN ran' = 1 .. Len(ran) + 1 /\ DOMAIN ran = 1 .. Len(ran) /\ Len(ran) \in Nat
        /\ ran'[Len(ran) + 1] = i
        /\ \A a \in DOMAIN ran : ran'[a] = ran[a]
    BY <1>3, <1>4
  <2>3. j \notin Ran => j \notin Ran'
    BY <1>8, <2>2 DEF Ran
  <2>4. ASSUME NEW t, Before(j, t) PROVE Before(j, t)'
    <3>1. PICK a \in DOMAIN ran, c \in DOMAIN ran : a < c /\ ran[a] = j /\ ran[c] = t
      BY <2>4 DEF Before
    <3>2. a \in DOMAIN ran' /\ c \in DOMAIN ran' /\ ran'[a] = j /\ ran'[c] = t
      BY <2>2, <3>1
    <3> QED BY <3>1, <3>2 DEF Before
  <2>5. j \in Ran => Before(j, i)'
    <3> SUFFICES ASSUME j \in Ran PROVE Before(j, i)'
      OBVIOUS
    <3>1. PICK a \in DOMAIN ran : ran[a] = j
      BY DEF Ran
    <3>2. a \in DOMAIN ran' /\ Len(ran) + 1 \in DOMAIN ran' /\ a < Len(ran) + 1
          /\ ran'[a] = j
      BY <2>2, <3>1
    <3> QED BY <2>2, <3>2 DEF Before
  <2>6. j \notin Stale
    BY <1>4, <2>1, <2>3, <2>4 DEF Stale
  <2>7. value[j] = Result(j, value) /\ reads[j] = Reads(j, value)
    BY <1>2, <1>6, <2>1, <2>6 DEF SettleOK, Computed
  <2>8. i \in reads[j] => v = value[i]
    BY <1>4, <2>1, <2>3, <2>5 DEF Stale
  <2>9. \A k \in Reads(j, value) : value[k] = value'[k]
    BY <1>3, <1>4, <2>1, <2>7, <2>8
  <2>10. ~IsAnchor(j)
    BY <1>1, <1>2, <2>1 DEF TaskOK
  <2>11. Result(j, value') = Result(j, value) /\ Reads(j, value') = Reads(j, value)
    BY <1>3, <2>1, <2>9, <2>10, FormulaFacts
  <2> QED BY <2>1, <2>7, <2>11
<1> QED BY <1>7, <1>8

\* The member that ran computed its value from the values as they were, which
\* are those before the pass for the members still to run.
LEMMA RunMix ==
  ASSUME IInv, NEW i \in Members, RunMember(i)
  PROVE  MixOK'
<1> DEFINE r == Result(i, value)
           v == IF r = Array THEN Circ ELSE r
<1>1. phase = "pass" /\ i \in todo /\ i \notin excluded
  BY RunFacts
<1>2. TypeOK /\ TaskOK /\ MixOK
  BY DEF IInv
<1>3. value \in [Members -> Values] /\ value' \in [Members -> Values]
  BY <1>2, RunFrame DEF TypeOK
<1>4. /\ value' = [value EXCEPT ![i] = v]
      /\ excluded' = (IF r = Array THEN excluded \cup {i} ELSE excluded)
      /\ todo' = todo \ {i} /\ UNCHANGED <<formula, input, how, prev>>
  BY DEF RunMember, config, kept
<1>5. \A j, w : Result(j, w)' = Result(j, w)
  BY <1>4, SameFormulas
<1> SUFFICES ASSUME Looping', prev # <<>>, NEW j \in Members \ excluded'
             PROVE  /\ j \in todo' => value'[j] = prev[j]
                    /\ j \notin todo' => \E w \in [Members -> Values] :
                         Mixed(w)' /\ value'[j] = Result(j, w)
  BY <1>4, <1>5 DEF MixOK
<1>6. how = "none" /\ Looping
  BY <1>1, <1>4 DEF Looping
<1>7. \A k \in Members : k \in todo => value[k] = prev[k]
  BY <1>1, <1>2, <1>6 DEF MixOK, TaskOK
<1> HIDE DEF r, v
<1>8. ASSUME NEW w \in [Members -> Values], Mixed(w) PROVE Mixed(w)'
  BY <1>1, <1>3, <1>4, <1>7, <1>8 DEF Mixed
<1>9. CASE j = i
  <2>1. value'[i] = Result(i, value)
    BY <1>3, <1>4, <1>9 DEF r, v
  <2>2. Mixed(value)
    BY DEF Mixed
  <2> QED BY <1>3, <1>4, <1>8, <1>9, <2>1, <2>2
<1>10. CASE j # i
  <2>1. j \in Members \ excluded /\ value'[j] = value[j] /\ (j \in todo' <=> j \in todo)
    BY <1>3, <1>4, <1>10
  <2>2. j \in todo' => value'[j] = prev[j]
    BY <1>7, <2>1
  <2>3. ASSUME j \notin todo'
        PROVE  \E w \in [Members -> Values] : Mixed(w)' /\ value'[j] = Result(j, w)
    <3>1. PICK w \in [Members -> Values] : Mixed(w) /\ value[j] = Result(j, w)
      BY <1>2, <1>6, <2>1, <2>3 DEF MixOK
    <3> QED BY <1>8, <2>1, <3>1
  <2> QED BY <2>2, <2>3
<1> QED BY <1>9, <1>10

LEMMA RunIInv ==
  ASSUME IInv, NEW i \in Members, RunMember(i)
  PROVE  IInv'
BY RunFrame, RunSettle, RunMix DEF IInv

\* A pass begins.  What it does not run is up to date or reads itself.
LEMMA BeginPassIInv ==
  ASSUME IInv, NEW S \in SUBSET (Members \ excluded), NEW before \in SUBSET (Members \X Members),
         BeginPass(S, before), phase \in {"first", "classify", "last"},
         UNCHANGED <<config, kept, value, excluded, reads, how>>,
         settles' \in Nat, iterating' \in BOOLEAN, prev' \in {<<>>, prev, value},
         how = "none" =>
           /\ \A i \in Members \ (excluded \cup S) : i \in reads[i] \/ Computed(i)
           /\ prev' # <<>> => prev' = value /\ S = Members \ excluded
  PROVE  IInv'
<1>1. /\ todo' = S /\ order' = before /\ ran' = <<>> /\ changed' = {} /\ passes' = passes + 1
      /\ phase' = (IF S = {} THEN AfterPass ELSE "pass")
      /\ UNCHANGED <<policy, formula, input, dirty, retained, persisted, events, last,
                     value, excluded, reads, how>>
  BY DEF BeginPass, config, kept
<1>2. TypeOK /\ TaskOK
  BY DEF IInv
<1>3. how \in {"none", "stamped"}
  BY <1>2 DEF TaskOK
<1>4. phase' \in {"pass", "classify", "ending"}
  BY <1>1 DEF AfterPass
<1>5. TypeOK'
  <2>1. <<>> \in Seq(Members) /\ passes' \in Nat
    BY <1>1, <1>2 DEF TypeOK
  <2>2. prev' \in [Members -> Values] \cup {<<>>}
    BY <1>2 DEF TypeOK
  <2> QED BY <1>1, <1>2, <1>4, <2>1, <2>2 DEF TypeOK
<1>6. TaskOK'
  <2>1. \A j \in Members : IsAnchor(j)' => j \in excluded'
    BY <1>1, <1>2 DEF TaskOK, IsAnchor
  <2> QED BY <1>1, <1>2, <1>3, <1>4, <2>1 DEF TaskOK, AfterPass
<1>7. \A j, w : Result(j, w)' = Result(j, w) /\ Reads(j, w)' = Reads(j, w)
  BY <1>1, SameFormulas
<1>8. SettleOK'
  BY <1>1, <1>7 DEF SettleOK, Computed, Looping
<1>9. MixOK'
  <2> SUFFICES ASSUME how = "none", prev' # <<>>
               PROVE  \A i \in Members \ excluded : i \in S /\ value[i] = prev'[i]
    BY <1>1 DEF MixOK, Looping
  <2> QED OBVIOUS
<1>10. EndOK'
  BY <1>1, <1>3, <1>4 DEF EndOK, AfterPass
<1>11. IdleOK' /\ StateSurvives'
  BY <1>4 DEF IdleOK, StateSurvives
<1> QED BY <1>5, <1>6, <1>8, <1>9, <1>10, <1>11 DEF IInv

LEMMA FirstPassIInv ==
  ASSUME IInv, FirstPass
  PROVE  IInv'
<1>1. /\ phase = "first" /\ BeginPass(Members \ excluded, FullOrder)
      /\ UNCHANGED <<config, kept, value, excluded, reads, settles, prev, iterating, how>>
  BY DEF FirstPass, FullPass
<1>2. prev = <<>> /\ settles \in Nat /\ iterating \in BOOLEAN
  BY <1>1 DEF IInv, TypeOK, TaskOK
<1>3. FullOrder \in SUBSET (Members \X Members)
  BY DEF FullOrder
<1> QED BY <1>1, <1>2, <1>3, BeginPassIInv

LEMMA IterateIInv ==
  ASSUME IInv, Iterate
  PROVE  IInv'
<1>1. /\ phase = "classify" /\ BeginPass(Members \ excluded, FullOrder)
      /\ iterating' = TRUE /\ prev' = value
      /\ UNCHANGED <<config, kept, value, excluded, reads, settles, how>>
  BY DEF Iterate, FullPass, WantsIteration, Classifying
<1>2. settles \in Nat
  BY DEF IInv, TypeOK
<1>3. FullOrder \in SUBSET (Members \X Members)
  BY DEF FullOrder
<1> QED BY <1>1, <1>2, <1>3, BeginPassIInv

LEMMA LastPassIInv ==
  ASSUME IInv, LastPass
  PROVE  IInv'
<1>1. /\ phase = "last" /\ BeginPass(todo, order)
      /\ UNCHANGED <<config, kept, value, excluded, reads, settles, prev, iterating, how>>
  BY DEF LastPass
<1>2. /\ how = "stamped" /\ settles \in Nat /\ iterating \in BOOLEAN
      /\ todo \in SUBSET (Members \ excluded) /\ order \in SUBSET (Members \X Members)
  BY <1>1 DEF IInv, TypeOK, TaskOK
<1> QED BY <1>1, <1>2, BeginPassIInv

\* A settle pass runs the stale members.
LEMMA SettleIInv ==
  ASSUME IInv, Settle
  PROVE  IInv'
<1>1. phase = "classify" /\ UNCHANGED <<config, kept, iterating>>
  BY DEF Settle, WantsSettling, Classifying
<1>2. TypeOK /\ TaskOK /\ SettleOK /\ how = "none" /\ todo = {} /\ Looping
  BY <1>1 DEF IInv, TaskOK, Looping
<1>3. CASE OverBudget
  <2>1. /\ value' = Stamped(Members \ excluded) /\ excluded' = Members /\ how' = "over"
        /\ phase' = "ending"
        /\ UNCHANGED <<policy, formula, input, dirty, retained, persisted, events, last,
                       reads, changed, todo, order, ran, passes, settles, prev, iterating>>
    BY <1>1, <1>3 DEF Settle, loop, config, kept
  <2>2. value' \in [Members -> Values] /\ \A i \in Members : value'[i] = Circ
    BY <1>1, <1>2, <2>1 DEF Stamped, TypeOK, TaskOK, Values
  <2>3. TypeOK'
    BY <1>2, <2>1, <2>2 DEF TypeOK
  <2>4. TaskOK'
    BY <1>1, <1>2, <2>1, <2>2 DEF TaskOK
  <2> QED BY <2>1, <2>3, <2>4
          DEF IInv, SettleOK, MixOK, EndOK, IdleOK, StateSurvives, Looping
<1>4. CASE ~OverBudget
  <2>1. /\ BeginPass(Stale, Topo(LiveEdges)) /\ settles' = settles + 1 /\ prev' = <<>>
        /\ UNCHANGED <<value, excluded, reads, how>>
    BY <1>4 DEF Settle
  <2>2. Stale \in SUBSET (Members \ excluded) /\ Topo(LiveEdges) \in SUBSET (Members \X Members)
    BY DEF Stale, Topo
  <2>3. \A i \in Members \ (excluded \cup Stale) : i \in reads[i] \/ Computed(i)
    BY <1>2 DEF SettleOK
  <2>4. settles' \in Nat /\ iterating' \in BOOLEAN
    BY <1>1, <1>2, <2>1 DEF TypeOK
  <2> QED BY <1>1, <2>1, <2>2, <2>3, <2>4, BeginPassIInv
<1> QED BY <1>3, <1>4

\* The members of a live cycle are stamped.
LEMMA StampCycleIInv ==
  ASSUME IInv, StampCycle
  PROVE  IInv'
<1>1. /\ phase = "classify" /\ value' = Stamped(Live \ excluded)
      /\ excluded' = excluded \cup Live /\ todo' = Members \ (excluded \cup Live)
      /\ order' = Topo(LiveEdges) /\ how' = "stamped" /\ phase' = "last"
      /\ UNCHANGED <<policy, formula, input, dirty, retained, persisted, events, last,
                     reads, changed, ran, passes, settles, prev, iterating>>
  BY DEF StampCycle, Classifying, config, kept
<1>2. TypeOK /\ TaskOK /\ Live \subseteq Members /\ order' \subseteq Members \X Members
  BY <1>1 DEF IInv, Live, InCycle, Topo
<1>3. /\ value' \in [Members -> Values]
      /\ \A i \in Members : value'[i] = IF i \in Live \ excluded THEN Circ ELSE value[i]
  BY <1>1, <1>2 DEF Stamped, TypeOK, Values
<1>4. TypeOK'
  BY <1>1, <1>2, <1>3 DEF TypeOK
<1>5. TaskOK'
  <2>1. \A i \in excluded' : value'[i] = Circ
    BY <1>1, <1>2, <1>3 DEF TaskOK, TypeOK
  <2>2. \A j \in Members : IsAnchor(j)' => j \in excluded'
    BY <1>1, <1>2 DEF TaskOK, IsAnchor
  <2> QED BY <1>1, <1>2, <2>1, <2>2 DEF TaskOK
<1> QED BY <1>1, <1>4, <1>5
        DEF IInv, SettleOK, MixOK, EndOK, IdleOK, StateSurvives, Looping

\* A full pass that repeats every value was a fixed point.
LEMMA StopIteratingIInv ==
  ASSUME IInv, StopIterating
  PROVE  IInv'
<1>1. /\ phase = "classify" /\ phase' = "ending" /\ iterating' = TRUE
      /\ how' = (IF ~AllConverged THEN "capped" ELSE IF Exact THEN "exact" ELSE "converged")
      /\ UNCHANGED <<policy, formula, input, dirty, retained, persisted, events, last, value,
                     excluded, reads, changed, todo, order, ran, passes, settles, prev>>
  BY DEF StopIterating, Classifying, config, kept, loop
<1>2. TypeOK /\ TaskOK /\ MixOK /\ how = "none" /\ todo = {} /\ Looping
  BY <1>1 DEF IInv, TaskOK, Looping
<1>3. TypeOK'
  BY <1>1, <1>2 DEF TypeOK
<1>4. TaskOK'
  <2>1. \A j \in Members : IsAnchor(j)' => j \in excluded'
    BY <1>1, <1>2 DEF TaskOK, IsAnchor
  <2> QED BY <1>1, <1>2, <2>1 DEF TaskOK
<1>5. EndOK'
  <2> SUFFICES ASSUME AllConverged, Exact, excluded = {} PROVE Fixed'
    BY <1>1 DEF EndOK
  <2>1. prev # <<>> /\ prev \in [Members -> Values] /\ value \in [Members -> Values]
    BY <1>2 DEF AllConverged, TypeOK
  <2>2. \A i \in Members : prev[i] = value[i]
    BY DEF AllConverged, Exact, Converged
  <2>3. ASSUME NEW i \in Members PROVE value[i] = Result(i, value)
    <3>1. PICK w \in [Members -> Values] : Mixed(w) /\ value[i] = Result(i, w)
      BY <1>2, <2>1 DEF MixOK
    <3>2. w = value
      BY <2>1, <2>2, <3>1 DEF Mixed
    <3> QED BY <3>1, <3>2
  <2> QED BY <1>1, <2>3, SameFormulas DEF Fixed
<1> QED BY <1>1, <1>3, <1>4, <1>5 DEF IInv, SettleOK, MixOK, IdleOK, StateSurvives, Looping

\* Nothing is stale and nothing is in a cycle: the values are exact.
LEMMA SettledIInv ==
  ASSUME IInv, Settled
  PROVE  IInv'
<1>1. /\ phase = "classify" /\ phase' = "ending" /\ how' = "settled" /\ Live = {} /\ Stale = {}
      /\ UNCHANGED <<policy, formula, input, dirty, retained, persisted, events, last, value,
                     excluded, reads, changed, todo, order, ran, passes, settles, prev,
                     iterating>>
  BY DEF Settled, Classifying, config, kept, loop
<1>2. TypeOK /\ TaskOK /\ SettleOK /\ how = "none" /\ todo = {} /\ Looping
  BY <1>1 DEF IInv, TaskOK, Looping
<1>3. TypeOK'
  BY <1>1, <1>2 DEF TypeOK
<1>4. TaskOK'
  <2>1. \A j \in Members : IsAnchor(j)' => j \in excluded'
    BY <1>1, <1>2 DEF TaskOK, IsAnchor
  <2> QED BY <1>1, <1>2, <2>1 DEF TaskOK
<1>5. \A i \in Members \ excluded : i \notin reads[i]
  <2> SUFFICES ASSUME NEW i \in Members \ excluded, i \in reads[i] PROVE FALSE
    OBVIOUS
  <2>1. {i} \in SUBSET (Members \ excluded) /\ {i} # {}
    OBVIOUS
  <2>2. \E j \in {i} : reads[j] \cap {i} = {}
    BY <1>1, <2>1, LiveAcyclic
  <2> QED BY <2>2
<1>6. \A i \in Members \ excluded : value[i] = Result(i, value) /\ reads[i] = Reads(i, value)
  BY <1>1, <1>2, <1>5 DEF SettleOK, Computed
<1>7. \A i \in Members : value[i] = IF i \in excluded THEN Circ ELSE Result(i, value)
  BY <1>1, <1>2, <1>6 DEF TaskOK
<1>8. \A S \in (SUBSET (Members \ excluded)) \ {{}} : \E i \in S : Reads(i, value) \cap S = {}
  BY <1>1, <1>6, LiveAcyclic
<1>9. \A j, w : Result(j, w)' = Result(j, w) /\ Reads(j, w)' = Reads(j, w)
  BY <1>1, SameFormulas
<1>10. Ground(value, excluded)'
  BY <1>1, <1>7, <1>8, <1>9 DEF Ground
<1>11. EndOK'
  BY <1>1, <1>10 DEF EndOK
<1> QED BY <1>1, <1>3, <1>4, <1>11 DEF IInv, SettleOK, MixOK, IdleOK, StateSurvives, Looping

-----------------------------------------------------------------------------
(* Requests and edits *)

\* How a task ended is a matter of its values and of what was stamped.
LEMMA SameEnd ==
  ASSUME UNCHANGED <<formula, input, value, excluded>>
  PROVE  (Fixed => Fixed') /\ (Ground(value, excluded) => Ground(value, excluded)')
<1>1. \A j, w : Result(j, w)' = Result(j, w) /\ Reads(j, w)' = Reads(j, w)
  BY SameFormulas
<1> QED BY <1>1 DEF Fixed, Ground

\* A request starts a cycle from the values it had.
LEMMA StartIInv ==
  ASSUME IInv, Start
  PROVE  IInv'
<1>1. /\ phase = "idle" /\ dirty /\ phase' = "first"
      /\ excluded' = {i \in Members : IsAnchor(i)}
      /\ value' = [i \in Members |-> IF IsAnchor(i) THEN Circ
                                     ELSE IF value[i] = Empty THEN persisted[i] ELSE value[i]]
      /\ iterating' = FALSE /\ how' = "none"
      /\ UNCHANGED <<policy, formula, input, dirty, retained, persisted, events, last,
                     reads, changed, todo, order, ran, passes, settles, prev>>
  BY DEF Start, config, kept, loop
<1>2. TypeOK /\ TaskOK /\ IdleOK
  BY DEF IInv
<1>3. value' \in [Members -> Values]
  BY <1>1, <1>2 DEF TypeOK, Values
<1>4. TypeOK'
  BY <1>1, <1>2, <1>3 DEF TypeOK
<1>5. TaskOK'
  <2>1. \A j \in Members : IsAnchor(j)' => j \in excluded'
    BY <1>1 DEF IsAnchor
  <2>2. \A j \in excluded' : value'[j] = Circ
    BY <1>1
  <2> QED BY <1>1, <1>2, <2>1, <2>2 DEF TaskOK
<1>6. StateSurvives'
  <2> SUFFICES ASSUME last # <<>>, NEW i \in Members \ excluded' PROVE value'[i] = last[i]
    BY <1>1 DEF StateSurvives
  <2>1. persisted[i] = last[i] /\ value[i] \in {last[i], Empty}
    BY <1>1, <1>2 DEF IdleOK
  <2>2. value'[i] = IF value[i] = Empty THEN persisted[i] ELSE value[i]
    BY <1>1
  <2> QED BY <2>1, <2>2
<1> QED BY <1>1, <1>4, <1>5, <1>6 DEF IInv, SettleOK, MixOK, EndOK, IdleOK, Looping

\* The settle loop is over.
LEMMA NoLoopTypes ==
  ASSUME NoLoop
  PROVE  /\ reads' \in [Members -> SUBSET Members] /\ changed' = {} /\ todo' = {} /\ order' = {}
         /\ ran' \in Seq(Members) /\ passes' = 0 /\ settles' = 0 /\ prev' = <<>>
BY DEF NoLoop

LEMMA FinishIInv ==
  ASSUME IInv, Finish
  PROVE  IInv'
<1>1. /\ phase = "ending" /\ phase' = "finished" /\ NoLoop
      /\ retained' = (iterating /\ how = "exact")
      /\ persisted' = (CASE ~iterating -> [i \in Members |-> Empty]
                         [] iterating /\ how = "exact" -> value
                         [] OTHER -> persisted)
      /\ UNCHANGED <<policy, formula, input, value, dirty, excluded, iterating, how, events,
                     last>>
  BY DEF Finish, config
<1>2. TypeOK /\ TaskOK /\ EndOK
  BY DEF IInv
<1>3. persisted' \in [Members -> Values] /\ retained' \in BOOLEAN
  BY <1>1, <1>2 DEF TypeOK, Values
<1>4. TypeOK'
  <2> HIDE DEF Values, Formula
  <2> QED BY <1>1, <1>2, <1>3, NoLoopTypes DEF TypeOK
<1>5. TaskOK'
  <2>1. \A j \in Members : IsAnchor(j)' => j \in excluded'
    BY <1>1, <1>2 DEF TaskOK, IsAnchor
  <2> QED BY <1>1, <1>2, <2>1, NoLoopTypes DEF TaskOK
<1>6. retained' => iterating' /\ how' = "exact" /\ persisted' = value'
  BY <1>1
<1>7. EndOK'
  BY <1>1, <1>2, <1>6, SameEnd DEF EndOK
<1> QED BY <1>1, <1>4, <1>5, <1>7 DEF IInv, SettleOK, MixOK, IdleOK, StateSurvives, Looping

LEMMA EndRequestIInv ==
  ASSUME IInv, EndRequest
  PROVE  IInv'
<1>1. /\ phase = "finished" /\ phase' = "idle" /\ dirty' = (iterating /\ ~retained)
      /\ persisted' = (IF iterating /\ ~retained THEN value ELSE persisted)
      /\ last' = (IF iterating THEN value ELSE <<>>)
      /\ UNCHANGED <<policy, formula, input, value, excluded, reads, changed, todo, order, ran,
                     passes, settles, prev, iterating, how, retained, events>>
  BY DEF EndRequest, config, loop
<1>2. TypeOK /\ TaskOK /\ EndOK
  BY DEF IInv
<1>3. TypeOK'
  <2>1. /\ persisted' \in [Members -> Values] /\ dirty' \in BOOLEAN
        /\ last' \in [Members -> Values] \cup {<<>>}
    BY <1>1, <1>2 DEF TypeOK
  <2> QED BY <1>1, <1>2, <2>1 DEF TypeOK
<1>4. TaskOK'
  BY <1>1, <1>2 DEF TaskOK
<1>5. IdleOK'
  <2>1. ASSUME last' # <<>>
        PROVE  persisted' = last' /\ \A i \in Members : value'[i] \in {last'[i], Empty}
    <3>1. iterating /\ last' = value /\ value' = value
      BY <1>1, <2>1
    <3>2. persisted' = value
      BY <1>1, <1>2, <3>1 DEF EndOK
    <3> QED BY <3>1, <3>2
  <2>2. retained' /\ excluded' = {} => Fixed'
    BY <1>1, <1>2, SameEnd DEF EndOK
  <2>3. how' = "settled" => Ground(value, excluded)'
    BY <1>1, <1>2, SameEnd DEF EndOK
  <2> QED BY <2>1, <2>2, <2>3 DEF IdleOK
<1> QED BY <1>1, <1>3, <1>4, <1>5 DEF IInv, SettleOK, MixOK, EndOK, StateSurvives, Looping

\* A request that is cancelled stays dirty, and forgets what it left before.
LEMMA CancelIInv ==
  ASSUME IInv, Cancel
  PROVE  IInv'
<1>1. /\ phase # "idle" /\ phase' = "idle" /\ events' = events + 1 /\ last' = <<>> /\ NoLoop
      /\ UNCHANGED <<policy, formula, input, value, dirty, excluded, iterating, how, retained,
                     persisted>>
  BY DEF Cancel, config, WantsIteration, WantsSettling, Classifying
<1>2. TypeOK /\ TaskOK /\ dirty
  BY <1>1 DEF IInv, TaskOK
<1>3. TypeOK'
  BY <1>1, <1>2, NoLoopTypes DEF TypeOK
<1>4. TaskOK'
  BY <1>1, NoLoopTypes DEF TaskOK
<1>5. IdleOK'
  BY <1>1, <1>2 DEF IdleOK
<1> QED BY <1>1, <1>3, <1>4, <1>5 DEF IInv, SettleOK, MixOK, EndOK, StateSurvives, Looping

LEMMA SetInputIInv ==
  ASSUME IInv, SetInput
  PROVE  IInv'
<1>1. /\ phase = "idle" /\ phase' = "idle" /\ events' = events + 1 /\ input' = 1 - input
      /\ dirty' = TRUE
      /\ UNCHANGED <<policy, formula, value, excluded, reads, changed, todo, order, ran, passes,
                     settles, prev, iterating, how, retained, persisted, last>>
  BY DEF SetInput, config, loop
<1>2. TypeOK /\ TaskOK /\ IdleOK
  BY DEF IInv
<1>3. TypeOK'
  BY <1>1, <1>2 DEF TypeOK
<1>4. TaskOK'
  BY <1>1, <1>2 DEF TaskOK
<1>5. IdleOK'
  BY <1>1, <1>2 DEF IdleOK
<1> QED BY <1>1, <1>3, <1>4, <1>5 DEF IInv, SettleOK, MixOK, EndOK, StateSurvives, Looping

\* Inserted rows clear values, which the request that follows finds again.
LEMMA InsertRowsIInv ==
  ASSUME IInv, NEW k \in Members, InsertRows(k)
  PROVE  IInv'
<1>1. /\ phase = "idle" /\ phase' = "idle" /\ events' = events + 1 /\ dirty' = TRUE
      /\ value' = [i \in Members |-> IF i >= k THEN Empty ELSE value[i]]
      /\ UNCHANGED <<policy, formula, input, excluded, reads, changed, todo, order, ran, passes,
                     settles, prev, iterating, how, retained, persisted, last>>
  BY DEF InsertRows, config, loop
<1>2. TypeOK /\ TaskOK /\ IdleOK
  BY DEF IInv
<1>3. value' \in [Members -> Values] /\ \A i \in Members : value'[i] \in {value[i], Empty}
  BY <1>1, <1>2 DEF TypeOK, Values
<1>4. TypeOK'
  BY <1>1, <1>2, <1>3 DEF TypeOK
<1>5. TaskOK'
  BY <1>1, <1>2 DEF TaskOK
<1>6. IdleOK'
  BY <1>1, <1>2, <1>3 DEF IdleOK
<1> QED BY <1>1, <1>4, <1>5, <1>6 DEF IInv, SettleOK, MixOK, EndOK, StateSurvives, Looping

-----------------------------------------------------------------------------
(* Theorems *)

LEMMA InitIInv == Init => IInv
<1> SUFFICES ASSUME Init PROVE IInv
  OBVIOUS
<1>1. TypeOK
  <2>1. value \in [Members -> Values] /\ persisted \in [Members -> Values]
    BY DEF Init, Values
  <2>2. formula \in [Members -> Formula]
    BY WorkbooksAssumption DEF Init
  <2>3. ran \in Seq(Members) /\ reads \in [Members -> SUBSET Members]
    BY DEF Init
  <2>4. /\ policy \in Policies /\ input \in {0, 1} /\ dirty = TRUE /\ phase = "idle"
        /\ excluded = {} /\ changed = {} /\ todo = {} /\ order = {} /\ passes = 0
        /\ settles = 0 /\ events = 0 /\ prev = <<>> /\ iterating = FALSE /\ how = "none"
        /\ retained = FALSE /\ last = <<>>
    BY DEF Init
  <2>5. /\ {passes, settles, events} \subseteq Nat
        /\ prev \in [Members -> Values] \cup {<<>>} /\ last \in [Members -> Values] \cup {<<>>}
    BY <2>4
  <2>6. dirty \in BOOLEAN /\ iterating \in BOOLEAN /\ retained \in BOOLEAN
    BY <2>4
  <2> QED BY <2>1, <2>2, <2>3, <2>4, <2>5, <2>6 DEF TypeOK
<1>2. phase = "idle" /\ dirty = TRUE /\ prev = <<>> /\ last = <<>>
  BY DEF Init
<1> QED BY <1>1, <1>2
        DEF IInv, TaskOK, SettleOK, MixOK, EndOK, IdleOK, StateSurvives, Looping

LEMMA NextIInv ==
  ASSUME IInv, [Next]_vars
  PROVE  IInv'
<1>1. CASE Start
  BY <1>1, StartIInv
<1>2. CASE Work
  <2>1. CASE \E i \in Members : RunMember(i)
    BY <2>1, RunIInv
  <2> QED BY <1>2, <2>1, FirstPassIInv, StampCycleIInv, LastPassIInv, StopIteratingIInv,
             IterateIInv, SettleIInv, SettledIInv, FinishIInv, EndRequestIInv
          DEF Work
<1>3. CASE Cancel
  BY <1>3, CancelIInv
<1>4. CASE SetInput
  BY <1>4, SetInputIInv
<1>5. CASE \E k \in Members : InsertRows(k)
  BY <1>5, InsertRowsIInv
<1>6. CASE UNCHANGED vars
  <2>1. /\ UNCHANGED <<policy, formula, input, value, dirty, phase, excluded, reads, changed>>
        /\ UNCHANGED <<todo, order, ran, passes, settles, prev, iterating, how, retained>>
        /\ UNCHANGED <<persisted, events, last>>
    BY <1>6 DEF vars
  <2>2. \A j, w : Result(j, w)' = Result(j, w) /\ Reads(j, w)' = Reads(j, w)
    BY <2>1, SameFormulas
  <2>3. TypeOK' /\ TaskOK' /\ StateSurvives'
    BY <2>1 DEF IInv, TypeOK, TaskOK, StateSurvives, IsAnchor
  <2>4. EndOK' /\ IdleOK'
    BY <2>1, SameEnd DEF IInv, EndOK, IdleOK
  <2>5. SettleOK'
    BY <2>1, <2>2 DEF IInv, SettleOK, Looping, Stale, Ran, Before, Computed
  <2>6. MixOK'
    BY <2>1, <2>2 DEF IInv, MixOK, Looping, Mixed
  <2> QED BY <2>3, <2>4, <2>5, <2>6 DEF IInv
<1> QED BY <1>1, <1>2, <1>3, <1>4, <1>5, <1>6 DEF Next

\* The settle loop of evaluate_scc_unit keeps its invariant, under both
\* policies and with cancellations and edits anywhere between its passes.
THEOREM CycleInvariant == Spec => []IInv
<1>1. IInv /\ [Next]_vars => IInv'
  BY NextIInv
<1> QED BY <1>1, InitIInv, PTL DEF Spec

\* The variables of the task keep their types: an array result is stamped and
\* never committed.
THEOREM TypeCorrect == Spec => []TypeOK
<1>1. IInv => TypeOK
  BY DEF IInv
<1> QED BY <1>1, CycleInvariant, PTL

\* A task that found no stale reader and no live cycle leaves exact values:
\* re-running stale readers only, in any order that follows the recorded
\* reads, misses nothing, whatever branches flipped on the way.
THEOREM SettledValuesAreExact == Spec => []SettledIsExact
<1>1. IInv => SettledIsExact
  BY DEF IInv, IdleOK, SettledIsExact, Clean
<1> QED BY <1>1, CycleInvariant, PTL

\* Exact values do not depend on what the cells held before: there is only
\* one assignment of this kind, the same for every history of the workbook.
THEOREM ExactValuesAreUnique ==
  ASSUME formula \in [Members -> Formula], NEW pinned \in SUBSET Members,
         \A i \in Members : IsAnchor(i) => i \in pinned,
         NEW v \in [Members -> Values], NEW w \in [Members -> Values],
         Ground(v, pinned), \A i \in Members : w[i] = IF i \in pinned THEN Circ ELSE Result(i, w)
  PROVE  v = w
<1> DEFINE D == {i \in Members : v[i] # w[i]}
<1>1. \A i \in Members : v[i] = IF i \in pinned THEN Circ ELSE Result(i, v)
  BY DEF Ground
<1>2. D \in SUBSET (Members \ pinned)
  BY <1>1
<1>3. D = {}
  <2> SUFFICES ASSUME D # {} PROVE FALSE
    OBVIOUS
  <2> HIDE DEF D
  <2>1. PICK i \in D : Reads(i, v) \cap D = {}
    BY <1>2 DEF Ground
  <2>2. i \in Members \ pinned /\ ~IsAnchor(i) /\ v[i] # w[i]
    BY <1>2 DEF D
  <2>3. Reads(i, v) \subseteq Members
    BY <2>2, FormulaFacts
  <2>4. \A j \in Reads(i, v) : v[j] = w[j]
    BY <2>1, <2>3 DEF D
  <2>5. Result(i, w) = Result(i, v)
    BY <2>2, <2>4, FormulaFacts
  <2> QED BY <1>1, <2>2, <2>5
<1> QED BY <1>3

\* A retained cycle is a fixed point: values that a full pass repeated exactly
\* are what every member computes from all of them, although the pass read
\* some before and some after they were written.
THEOREM RetainedCyclesAreFixed == Spec => []RetainedIsFixed
<1>1. IInv => RetainedIsFixed
  BY DEF IInv, IdleOK, RetainedIsFixed, Clean, Fixed
<1> QED BY <1>1, CycleInvariant, PTL

\* A cycle goes on from the values that the last request left, also after
\* inserted rows cleared them (iterative_state_values).
THEOREM CycleStateSurvives == Spec => []StateSurvives
<1>1. IInv => StateSurvives
  BY DEF IInv
<1> QED BY <1>1, CycleInvariant, PTL

-----------------------------------------------------------------------------
(* The budget of the settle loop *)

\* The members of F are final: stamped, or up to date and reading final ones
\* only.
Solid(F) ==
  /\ excluded \subseteq F
  /\ \A i \in F \ excluded : Computed(i) /\ reads[i] \subseteq F

\* A member that this pass will make final; or none can become final, and
\* every member outside F reads one outside F, if not yet then after the pass.
Waiting(F) == \E i \in todo \ F : Reads(i, value) \subseteq F
Stuck(F) ==
  /\ \A i \in Members \ F : ~(Reads(i, value) \subseteq F)
  /\ \A i \in Members \ (F \cup todo) : ~(reads[i] \subseteq F)
  /\ F = Members => changed = {}

\* Every settle pass makes a member final, but for one that comes before a
\* cycle shows or the end.
Within(F) ==
  \/ settles <= Cardinality(F)
  \/ settles = Cardinality(F) + 1 /\ (Waiting(F) \/ Stuck(F))

BudgetOK ==
  /\ how # "over"
  /\ phase \in {"idle", "first", "finished"} => settles = 0
  /\ Looping => \E F \in SUBSET Members : Solid(F) /\ Within(F)

LEMMA Sizes ==
  ASSUME NEW F \in SUBSET Members
  PROVE  /\ Cardinality(F) \in Nat /\ Cardinality(F) <= N
         /\ \A i \in Members \ F : Cardinality(F \cup {i}) = Cardinality(F) + 1
<1>1. IsFiniteSet(Members) /\ Cardinality(Members) = N
  BY SizesAssumption, FS_Interval DEF Members
<1>2. IsFiniteSet(F) /\ Cardinality(F) <= Cardinality(Members)
  BY <1>1, FS_Subset
<1>3. Cardinality(F) \in Nat
  BY <1>2, FS_CardinalityType
<1>4. \A i \in Members \ F : Cardinality(F \cup {i}) = Cardinality(F) + 1
  BY <1>2, FS_AddElement
<1> QED BY <1>1, <1>2, <1>3, <1>4

\* A run of member j leaves final members as they are.
LEMMA RunSolid ==
  ASSUME IInv, NEW j \in Members, RunMember(j), how = "none",
         NEW F \in SUBSET Members, Solid(F)
  PROVE  /\ \A i \in F : value'[i] = value[i] /\ reads'[i] = reads[i]
         /\ \A i \in Members \ F : i # j => reads'[i] = reads[i]
         /\ j \in F => changed' = changed /\ excluded' = excluded
         /\ \A i \in Members : ~IsAnchor(i) => 
              (Reads(i, value)' \subseteq F <=> Reads(i, value) \subseteq F)
         /\ \A i \in F \ excluded : Computed(i)' /\ reads'[i] \subseteq F
<1> DEFINE r == Result(j, value)
           v == IF r = Array THEN Circ ELSE r
<1>1. /\ phase = "pass" /\ j \in todo /\ j \notin excluded /\ ~IsAnchor(j)
      /\ r \in Values \cup {Array} /\ Reads(j, value) \subseteq Members
  BY RunFacts
<1>2. TypeOK /\ TaskOK
  BY DEF IInv
<1>3. /\ value' = [value EXCEPT ![j] = v]
      /\ reads' = [reads EXCEPT ![j] = Reads(j, value)]
      /\ changed' = (IF v # value[j] THEN changed \cup {j} ELSE changed)
      /\ excluded' = (IF r = Array THEN excluded \cup {j} ELSE excluded)
      /\ UNCHANGED <<formula, input>>
  BY DEF RunMember, config, kept
<1> HIDE DEF r, v
<1>4. j \in F => v = value[j] /\ Reads(j, value) = reads[j] /\ r # Array
  <2> SUFFICES ASSUME j \in F PROVE v = value[j] /\ Reads(j, value) = reads[j] /\ r # Array
    OBVIOUS
  <2>1. value[j] = r /\ reads[j] = Reads(j, value)
    BY <1>1 DEF Solid, Computed, r
  <2>2. value[j] \in Values /\ Array \notin Values
    BY <1>2, ValuesAssumption DEF TypeOK, Values
  <2> QED BY <2>1, <2>2 DEF v
<1>5. \A i \in F : value'[i] = value[i] /\ reads'[i] = reads[i]
  BY <1>2, <1>3, <1>4 DEF TypeOK
<1>6. \A i \in Members \ F : i # j => reads'[i] = reads[i]
  BY <1>2, <1>3 DEF TypeOK
<1>7. j \in F => changed' = changed /\ excluded' = excluded
  BY <1>3, <1>4
<1>8. /\ value \in [Members -> Values] /\ value' \in [Members -> Values]
      /\ formula \in [Members -> Formula]
  BY <1>2, RunFrame DEF TypeOK
<1>9. \A k, w : Result(k, w)' = Result(k, w) /\ Reads(k, w)' = Reads(k, w)
  BY <1>3, SameFormulas
<1>10. ASSUME NEW i \in Members, ~IsAnchor(i)
       PROVE  /\ Reads(i, value) \subseteq F => Reads(i, value') = Reads(i, value)
              /\ Reads(i, value) \subseteq F => Result(i, value') = Result(i, value)
              /\ Reads(i, value') \subseteq F => Reads(i, value') = Reads(i, value)
  <2>1. ASSUME Reads(i, value) \subseteq F
        PROVE  Reads(i, value') = Reads(i, value) /\ Result(i, value') = Result(i, value)
    <3>1. \A k \in Reads(i, value) : value[k] = value'[k]
      BY <1>5, <2>1
    <3> QED BY <1>8, <1>10, <3>1, FormulaFacts
  <2>2. ASSUME Reads(i, value') \subseteq F
        PROVE  Reads(i, value') = Reads(i, value)
    <3>1. \A k \in Reads(i, value') : value'[k] = value[k]
      BY <1>5, <2>2
    <3> QED BY <1>8, <1>10, <3>1, FormulaFacts
  <2> QED BY <2>1, <2>2
<1>11. \A i \in Members : Reads(i, value)' = Reads(i, value') /\ Result(i, value)' = Result(i, value')
  BY <1>3 DEF Reads, Result, Taken
<1>12. \A i \in Members : ~IsAnchor(i) =>
         (Reads(i, value)' \subseteq F <=> Reads(i, value) \subseteq F)
  BY <1>10, <1>11
<1>13. ASSUME NEW i \in F \ excluded
       PROVE  Computed(i)' /\ reads'[i] \subseteq F
  <2>1. value[i] = Result(i, value) /\ reads[i] = Reads(i, value) /\ reads[i] \subseteq F
    BY DEF Solid, Computed
  <2>2. ~IsAnchor(i) /\ i \in Members
    BY <1>1, <1>2 DEF TaskOK
  <2>3. value'[i] = Result(i, value') /\ reads'[i] = Reads(i, value')
    BY <1>5, <1>10, <2>1, <2>2
  <2>4. Computed(i)'
    BY <1>11, <2>2, <2>3 DEF Computed
  <2> QED BY <1>5, <2>1, <2>4
<1> QED BY <1>5, <1>6, <1>7, <1>12, <1>13

\* A run keeps the budget: the member that was waited for becomes final, and
\* so does one that turns out to be an array.
LEMMA RunBudget ==
  ASSUME IInv, BudgetOK, NEW j \in Members, RunMember(j)
  PROVE  BudgetOK'
<1>1. /\ phase = "pass" /\ j \in todo /\ j \notin excluded /\ ~IsAnchor(j)
      /\ Result(j, value) \in Values \cup {Array} /\ Reads(j, value) \subseteq Members
  BY RunFacts
<1>2. TypeOK /\ TaskOK /\ how \in {"none", "stamped"}
  BY <1>1 DEF IInv, TaskOK
<1>3. /\ value' = [value EXCEPT ![j] = IF Result(j, value) = Array THEN Circ ELSE Result(j, value)]
      /\ reads' = [reads EXCEPT ![j] = Reads(j, value)]
      /\ excluded' = (IF Result(j, value) = Array THEN excluded \cup {j} ELSE excluded)
      /\ todo' = todo \ {j}
      /\ phase' \in {"pass", AfterPass}
      /\ UNCHANGED <<formula, input, how, settles>>
  BY DEF RunMember, config, kept
<1>4. phase' \in {"pass", "classify", "ending"}
  BY <1>3 DEF AfterPass
<1>5. CASE how = "stamped"
  BY <1>3, <1>4, <1>5 DEF BudgetOK, Looping
<1>6. CASE how = "none"
  <2>1. PICK F \in SUBSET Members : Solid(F) /\ Within(F)
    BY <1>1, <1>6 DEF BudgetOK, Looping
  <2>2. /\ \A i \in F : value'[i] = value[i] /\ reads'[i] = reads[i]
        /\ \A i \in Members \ F : i # j => reads'[i] = reads[i]
        /\ j \in F => changed' = changed /\ excluded' = excluded
        /\ \A i \in Members : ~IsAnchor(i) =>
             (Reads(i, value)' \subseteq F <=> Reads(i, value) \subseteq F)
        /\ \A i \in F \ excluded : Computed(i)' /\ reads'[i] \subseteq F
    BY <1>6, <2>1, RunSolid
  <2>3. excluded \subseteq F /\ F \subseteq Members
    BY <2>1 DEF Solid
  <2>4. settles \in Nat /\ Cardinality(F) \in Nat
    BY <1>2, Sizes DEF TypeOK
  <2>5. CASE j \notin F /\ (Result(j, value) = Array \/ Reads(j, value) \subseteq F)
    <3> DEFINE G == F \cup {j}
    <3>1. G \in SUBSET Members /\ Cardinality(G) = Cardinality(F) + 1
      BY <2>5, Sizes
    <3>2. ASSUME Result(j, value) # Array PROVE Computed(j)' /\ reads'[j] \subseteq G
      <4>1. \A k \in Reads(j, value) : value[k] = value'[k]
        BY <2>2, <2>5, <3>2
      <4>2. value \in [Members -> Values] /\ value' \in [Members -> Values]
            /\ formula \in [Members -> Formula]
        BY <1>2, RunFrame DEF TypeOK
      <4>3. Result(j, value') = Result(j, value) /\ Reads(j, value') = Reads(j, value)
        BY <1>1, <4>1, <4>2, FormulaFacts
      <4>4. value'[j] = Result(j, value) /\ reads'[j] = Reads(j, value)
        BY <1>2, <1>3, <3>2 DEF TypeOK
      <4>5. Reads(j, value)' = Reads(j, value') /\ Result(j, value)' = Result(j, value')
        BY <1>3 DEF Reads, Result, Taken
      <4> QED BY <2>5, <3>2, <4>3, <4>4, <4>5 DEF Computed
    <3>3. Solid(G)'
      <4>1. excluded' \subseteq G
        BY <1>3, <2>3
      <4>2. ASSUME NEW i \in G \ excluded' PROVE Computed(i)' /\ reads'[i] \subseteq G
        <5>1. CASE i = j
          BY <1>3, <3>2, <4>2, <5>1
        <5>2. CASE i # j
          BY <1>3, <2>2, <4>2, <5>2
        <5> QED BY <5>1, <5>2
      <4> QED BY <4>1, <4>2 DEF Solid
    <3>4. Within(G)'
      BY <1>3, <2>1, <2>4, <3>1 DEF Within
    <3> QED BY <1>3, <1>4, <1>6, <3>1, <3>3, <3>4 DEF BudgetOK
  <2>6. CASE j \in F \/ (Result(j, value) # Array /\ ~(Reads(j, value) \subseteq F))
    <3>1. excluded' = excluded
      BY <1>3, <2>2, <2>6
    <3>2. Solid(F)'
      BY <2>2, <2>3, <3>1 DEF Solid
    <3>3. Within(F)'
      <4>1. CASE settles <= Cardinality(F)
        BY <1>3, <4>1 DEF Within
      <4>2. CASE settles = Cardinality(F) + 1 /\ Waiting(F)
        <5>1. PICK i \in todo \ F : Reads(i, value) \subseteq F
          BY <4>2 DEF Waiting
        <5>2. i # j
          BY <2>6, <5>1
        <5>3. i \in Members /\ ~IsAnchor(i)
          BY <1>1, <1>2, <2>3, <5>1 DEF TypeOK, TaskOK
        <5>4. Reads(i, value)' \subseteq F
          BY <2>2, <5>1, <5>3
        <5>5. Waiting(F)'
          BY <1>3, <5>1, <5>2, <5>4 DEF Waiting
        <5> QED BY <1>3, <4>2, <5>5 DEF Within
      <4>3. CASE settles = Cardinality(F) + 1 /\ Stuck(F)
        <5>1. \A i \in Members \ F : ~(Reads(i, value)' \subseteq F)
          BY <1>1, <1>2, <2>2, <2>3, <4>3 DEF Stuck, TaskOK
        <5>2. ASSUME NEW i \in Members \ (F \cup todo') PROVE ~(reads'[i] \subseteq F)
          <6>1. CASE i = j
            <7>1. reads'[i] = Reads(i, value)
              BY <1>2, <1>3, <6>1 DEF TypeOK
            <7> QED BY <4>3, <5>2, <7>1 DEF Stuck
          <6>2. CASE i # j
            BY <1>3, <2>2, <4>3, <5>2, <6>2 DEF Stuck
          <6> QED BY <6>1, <6>2
        <5>3. F = Members => changed' = {}
          BY <2>2, <4>3 DEF Stuck
        <5>4. Stuck(F)'
          BY <5>1, <5>2, <5>3 DEF Stuck
        <5> QED BY <1>3, <4>3, <5>4 DEF Within
      <4> QED BY <2>1, <4>1, <4>2, <4>3 DEF Within
    <3> QED BY <1>3, <1>4, <1>6, <3>2, <3>3 DEF BudgetOK
  <2> QED BY <2>5, <2>6
<1> QED BY <1>2, <1>5, <1>6

\* When a pass is over and nothing can become final, nothing is settled: a
\* cycle shows, or nothing is stale.
LEMMA StuckShows ==
  ASSUME IInv, NEW F \in SUBSET Members, Solid(F), Stuck(F), todo = {}
  PROVE  ~WantsSettling
<1>1. CASE F = Members
  <2>1. changed = {}
    BY <1>1 DEF Stuck
  <2> QED BY <2>1 DEF WantsSettling, Stale
<1>2. CASE F # Members
  <2> SUFFICES ASSUME Live = {} PROVE FALSE
    BY DEF WantsSettling
  <2> DEFINE S == Members \ F
  <2>1. S \in SUBSET (Members \ excluded) /\ S # {}
    BY <1>2 DEF Solid
  <2>2. PICK i \in S : reads[i] \cap S = {}
    <3> HIDE DEF S
    <3> QED BY <2>1, LiveAcyclic
  <2>3. reads[i] \subseteq Members
    BY DEF IInv, TypeOK
  <2>4. ~(reads[i] \subseteq F)
    BY DEF Stuck
  <2> QED BY <2>2, <2>3, <2>4
<1> QED BY <1>1, <1>2

LEMMA WithinBudget ==
  ASSUME IInv, BudgetOK, WantsSettling
  PROVE  \E F \in SUBSET Members : Solid(F) /\ settles <= Cardinality(F)
<1>1. phase = "classify" /\ how = "none" /\ todo = {} /\ Looping
  BY DEF WantsSettling, Classifying, IInv, TaskOK, Looping
<1>2. PICK F \in SUBSET Members : Solid(F) /\ Within(F)
  BY <1>1 DEF BudgetOK
<1>3. ~Waiting(F)
  BY <1>1 DEF Waiting
<1>4. ~Stuck(F)
  BY <1>1, <1>2, StuckShows
<1> QED BY <1>2, <1>3, <1>4 DEF Within

\* A settle pass begins: a member that can become final is stale and runs, or
\* it is final already.
LEMMA SettleBudget ==
  ASSUME IInv, BudgetOK, Settle
  PROVE  BudgetOK'
<1>1. WantsSettling /\ phase = "classify" /\ Live = {} /\ how = "none" /\ Looping /\ todo = {}
  BY DEF Settle, WantsSettling, Classifying, IInv, TaskOK, Looping
<1>2. TypeOK /\ TaskOK /\ SettleOK
  BY DEF IInv
<1>3. PICK F \in SUBSET Members : Solid(F) /\ settles <= Cardinality(F)
  BY <1>1, WithinBudget
<1>4. settles \in Nat /\ Cardinality(F) \in Nat /\ Cardinality(F) <= N
  BY <1>2, Sizes DEF TypeOK
<1>5. ~OverBudget
  BY <1>3, <1>4, SizesAssumption DEF OverBudget
<1>6. /\ todo' = Stale /\ changed' = {} /\ settles' = settles + 1
      /\ phase' \in {AfterPass, "pass"}
      /\ UNCHANGED <<value, excluded, reads, how, formula, input>>
  BY <1>5 DEF Settle, BeginPass, config, kept
<1>7. phase' \in {"pass", "classify"}
  BY <1>1, <1>6 DEF AfterPass
<1>8. /\ \A k, w : Result(k, w)' = Result(k, w) /\ Reads(k, w)' = Reads(k, w)
  BY <1>6, SameFormulas
<1>9. \A i \in Members : Reads(i, value)' = Reads(i, value) /\ Result(i, value)' = Result(i, value)
  BY <1>6 DEF Reads, Result, Taken
<1>10. \A G \in SUBSET Members : Solid(G) => Solid(G)'
  BY <1>6, <1>9 DEF Solid, Computed
<1>11. \A i \in Members \ (F \cup Stale) : Computed(i)
  <2> TAKE i \in Members \ (F \cup Stale)
  <2>1. i \notin excluded
    BY <1>3 DEF Solid
  <2>2. i \notin reads[i]
    <3>1. {i} \in SUBSET (Members \ excluded) /\ {i} # {}
      BY <2>1
    <3> QED BY <1>1, <3>1, LiveAcyclic
  <2> QED BY <1>1, <1>2, <2>1, <2>2 DEF SettleOK
<1>12. ASSUME NEW i \in Members \ F, Reads(i, value) \subseteq F
       PROVE  \E G \in SUBSET Members : Solid(G)' /\ Within(G)'
  <2>1. CASE i \in Stale
    <3>1. Waiting(F)'
      BY <1>6, <1>9, <1>12, <2>1 DEF Waiting
    <3>2. Within(F)'
      BY <1>3, <1>4, <1>6, <3>1 DEF Within
    <3> QED BY <1>3, <1>10, <3>2
  <2>2. CASE i \notin Stale
    <3> DEFINE G == F \cup {i}
    <3>1. G \in SUBSET Members /\ Cardinality(G) = Cardinality(F) + 1
      BY <1>12, Sizes
    <3>2. Computed(i) /\ reads[i] \subseteq F
      BY <1>11, <1>12, <2>2 DEF Computed
    <3>3. Solid(G)
      BY <1>3, <3>2 DEF Solid
    <3>4. Within(G)'
      BY <1>3, <1>4, <1>6, <3>1 DEF Within
    <3> HIDE DEF G
    <3> QED BY <1>10, <3>1, <3>3, <3>4
  <2> QED BY <2>1, <2>2
<1>13. ASSUME \A i \in Members \ F : ~(Reads(i, value) \subseteq F)
       PROVE  \E G \in SUBSET Members : Solid(G)' /\ Within(G)'
  <2>1. \A i \in Members \ F : ~(Reads(i, value)' \subseteq F)
    BY <1>9, <1>13
  <2>2. \A i \in Members \ (F \cup Stale) : ~(reads[i] \subseteq F)
    BY <1>11, <1>13 DEF Computed
  <2>3. Stuck(F)'
    BY <1>6, <2>1, <2>2 DEF Stuck
  <2>4. Within(F)'
    BY <1>3, <1>4, <1>6, <2>3 DEF Within
  <2> QED BY <1>3, <1>10, <2>4
<1> QED BY <1>1, <1>6, <1>7, <1>12, <1>13 DEF BudgetOK

\* A full pass makes nothing less final.
LEMMA FullPassBudget ==
  ASSUME IInv, BudgetOK, FirstPass \/ Iterate
  PROVE  BudgetOK'
<1>1. /\ phase \in {"first", "classify"} /\ how = "none"
      /\ todo' = Members \ excluded /\ changed' = {} /\ phase' \in {AfterPass, "pass"}
      /\ UNCHANGED <<value, excluded, reads, how, settles, formula, input>>
  BY DEF FirstPass, Iterate, FullPass, BeginPass, WantsIteration, Classifying, config, kept,
         IInv, TaskOK
<1>2. TypeOK
  BY DEF IInv
<1>3. phase' \in {"pass", "classify"}
  BY <1>1 DEF AfterPass
<1>4. \A i \in Members : Reads(i, value)' = Reads(i, value) /\ Result(i, value)' = Result(i, value)
  BY <1>1 DEF Reads, Result, Taken
<1>5. \A G \in SUBSET Members : Solid(G) => Solid(G)'
  BY <1>1, <1>4 DEF Solid, Computed
<1>6. CASE phase = "first"
  <2>1. settles = 0
    BY <1>6 DEF BudgetOK
  <2>2. excluded \in SUBSET Members /\ Solid(excluded)
    BY <1>2 DEF TypeOK, Solid
  <2>3. Cardinality(excluded) \in Nat
    BY <2>2, Sizes
  <2>4. \E G \in SUBSET Members : Solid(G)' /\ settles <= Cardinality(G)
    BY <1>5, <2>1, <2>2, <2>3
  <2>5. \E G \in SUBSET Members : Solid(G)' /\ Within(G)'
    BY <1>1, <2>4 DEF Within
  <2> QED BY <1>1, <1>3, <2>5 DEF BudgetOK
<1>7. CASE phase = "classify"
  <2>1. PICK F \in SUBSET Members : Solid(F) /\ Within(F)
    BY <1>1, <1>7 DEF BudgetOK, Looping
  <2>2. todo = {}
    BY <1>7 DEF IInv, TaskOK
  <2>3. Stuck(F) => Stuck(F)'
    <3> SUFFICES ASSUME Stuck(F) PROVE Stuck(F)'
      OBVIOUS
    <3>1. \A i \in Members \ F : ~(Reads(i, value)' \subseteq F)
      BY <1>4 DEF Stuck
    <3>2. \A i \in Members \ (F \cup todo') : ~(reads'[i] \subseteq F)
      BY <1>1, <2>2 DEF Stuck
    <3> QED BY <1>1, <3>1, <3>2 DEF Stuck
  <2>4. ~Waiting(F)
    BY <2>2 DEF Waiting
  <2>5. Within(F)'
    BY <1>1, <2>1, <2>3, <2>4 DEF Within
  <2> QED BY <1>1, <1>3, <1>5, <2>1, <2>5 DEF BudgetOK
<1> QED BY <1>1, <1>6, <1>7

LEMMA NextBudget ==
  ASSUME IInv, BudgetOK, [Next]_vars
  PROVE  BudgetOK'
<1>1. CASE Start
  BY <1>1 DEF Start, loop, BudgetOK, Looping
<1>2. CASE \E i \in Members : RunMember(i)
  BY <1>2, RunBudget
<1>3. CASE FirstPass \/ Iterate
  BY <1>3, FullPassBudget
<1>4. CASE Settle
  BY <1>4, SettleBudget
<1>5. CASE LastPass
  <2>1. how = "stamped" /\ phase' \in {AfterPass, "pass"} /\ UNCHANGED how
    BY <1>5 DEF LastPass, BeginPass, IInv, TaskOK
  <2>2. phase' \in {"pass", "ending"}
    BY <2>1 DEF AfterPass
  <2> QED BY <2>1, <2>2 DEF BudgetOK, Looping
<1>6. CASE StampCycle
  BY <1>6 DEF StampCycle, BudgetOK, Looping
<1>7. CASE StopIterating \/ Settled
  <2>1. phase' = "ending" /\ how' \in {"capped", "exact", "converged", "settled"}
    BY <1>7 DEF StopIterating, Settled
  <2> QED BY <2>1 DEF BudgetOK, Looping
<1>8. CASE Finish \/ EndRequest \/ Cancel
  <2>1. phase' \in {"finished", "idle"} /\ UNCHANGED how
    BY <1>8 DEF Finish, EndRequest, Cancel
  <2>2. settles' = 0
    BY <1>8 DEF Finish, EndRequest, Cancel, NoLoop, loop, BudgetOK
  <2> QED BY <2>1, <2>2 DEF BudgetOK, Looping
<1>9. CASE SetInput \/ \E k \in Members : InsertRows(k)
  <2>1. phase = "idle" /\ UNCHANGED <<phase, settles, how>>
    BY <1>9 DEF SetInput, InsertRows, loop
  <2> QED BY <2>1 DEF BudgetOK, Looping
<1>10. CASE UNCHANGED vars
  <2>1. /\ UNCHANGED <<formula, input, value, phase, excluded, reads, changed>>
        /\ UNCHANGED <<todo, settles, how>>
    BY <1>10 DEF vars
  <2>2. \A i \in Members : Reads(i, value)' = Reads(i, value) /\ Result(i, value)' = Result(i, value)
    BY <2>1 DEF Reads, Result, Taken
  <2>3. \A F \in SUBSET Members : Solid(F) => Solid(F)'
    BY <2>1, <2>2 DEF Solid, Computed
  <2>4. \A F \in SUBSET Members : Within(F) => Within(F)'
    <3> TAKE F \in SUBSET Members
    <3>1. Waiting(F) => Waiting(F)'
      BY <2>1, <2>2 DEF Waiting, IInv, TypeOK
    <3>2. Stuck(F) => Stuck(F)'
      BY <2>1, <2>2 DEF Stuck
    <3> QED BY <2>1, <3>1, <3>2 DEF Within
  <2> QED BY <2>1, <2>3, <2>4 DEF BudgetOK, Looping
<1> QED BY <1>1, <1>2, <1>3, <1>4, <1>5, <1>6, <1>7, <1>8, <1>9, <1>10 DEF Next, Work

\* The settle loop of evaluate_scc_unit keeps its types and never takes its
\* emergency exit ("hitting this is a bug"), for any number of members: a
\* settle pass makes another member final for good, or the next graph shows a
\* cycle, or nothing is stale; also when cycles come and go in between, as
\* settle passes are not counted anew after one.
THEOREM LoopStaysWithinBudget == Spec => []LoopOK
<1>1. Init => IInv /\ BudgetOK
  BY InitIInv DEF Init, BudgetOK, Looping
<1>2. IInv /\ BudgetOK /\ [Next]_vars => (IInv /\ BudgetOK)'
  BY NextIInv, NextBudget
<1>3. IInv /\ BudgetOK => LoopOK
  BY DEF IInv, BudgetOK, LoopOK, BudgetSuffices
<1> QED BY <1>1, <1>2, <1>3, PTL DEF Spec

===============================================================================
