---------------------------- MODULE RequestProofs ----------------------------
(***************************************************************************)
(* Theorems about an evaluation request: what it delivers (Freshness), and *)
(* what it holds while it runs (RequestLedger).                            *)
(*                                                                         *)
(* The first half is about workbooks of any size whose formulas return     *)
(* scalars: between requests a clean formula is fresh and the dirty set is *)
(* closed, a request delivers what it was asked for, and every replan has  *)
(* taught it a dirty formula that a dynamic reader reads.  Any             *)
(* formulas may be volatile, dynamic, in runs or readers of compressed     *)
(* ranges, layers may be written directly, buffered or evaluated in        *)
(* parallel, and requests may fail in their first pass.  The inductive     *)
(* invariant speaks of the effective store, the store with the write       *)
(* buffer over it: in it, at every step of every pass, a formula that is   *)
(* not dirty has the value it computes and reads nothing dirty.            *)
(*                                                                         *)
(* The second half is about the ledger, for all budgets, sizes and bounds. *)
(* What the engine accounts and what the ledger has reserved change        *)
(* together, so AccountedIsReserved is inductive by itself; HeldIsAdmitted *)
(* and ScratchPaired are not.  They need the shape of the scopes: each     *)
(* scope was opened at the scratch its parent left (ScopesOK), and a       *)
(* selection is always the innermost scope, inside a preparation.          *)
(***************************************************************************)
EXTENDS Freshness, RequestLedger, FiniteSetTheorems, SequenceTheorems, TLAPS

Contents == Values \cup {Empty}
Stores == [Cells -> Contents]

\* Formulas compute scalars, from what they read and nothing else; a formula
\* does not read itself.
ScalarResults ==
  \A v \in Formulas, s \in Stores :
    Result(v, s).value \in Contents /\ DOMAIN Result(v, s).spill = {}
LocalResults ==
  \A v \in Formulas, s, r \in Stores :
    (\A c \in Reads(v, s) : r[c] = s[c]) => Result(v, r) = Result(v, s)
                                            /\ Reads(v, r) = Reads(v, s)
TypedReads ==
  \A v \in Formulas, s \in Stores : Reads(v, s) \subseteq Cells \ {v}

\* The workbooks the theorems are about, and the rule their clients follow.
ScalarWorkbook ==
  /\ ScalarResults /\ LocalResults /\ TypedReads
  /\ Runs \subseteq SUBSET Formulas
  /\ "first_pass_failures" \in Rules

-----------------------------------------------------------------------------
(* The inductive invariant *)

\* What the engine would read with the buffer written.
Effective == Overlaid(store, buffer)

Requests == [goal : {"none", "all"} \cup Targets, replans : 0 .. MaxReplan,
             hints : [Dynamic -> SUBSET Formulas]]
Passes == [candidates : SUBSET Formulas, edges : SUBSET (Formulas \X Formulas),
           todo : SUBSET Formulas, layer : SUBSET Formulas,
           mode : {"direct", "buffered", "parallel"}, previous : SUBSET Formulas,
           committed : SUBSET Formulas, dropped : SUBSET Formulas,
           hadSpills : BOOLEAN]

Types ==
  /\ store \in Stores
  /\ extent = [v \in Formulas |-> {}]
  /\ dirty \in SUBSET Formulas
  /\ DOMAIN observed \subseteq Dynamic
  /\ \A v \in DOMAIN observed : observed[v] \subseteq Cells
  /\ cached \subseteq SUBSET Formulas
  /\ phase \in {"idle", "plan", "walk", "commit"}
  /\ request \in Requests
  /\ pass \in Passes
  /\ batch.left \in SUBSET Formulas /\ batch.guarded = FALSE
  /\ DOMAIN buffer \subseteq Formulas /\ buffer \in [DOMAIN buffer -> Contents]
  /\ unflushed \in SUBSET Formulas
  /\ outcome \in {"none", "all", "failed", "exhausted"} \cup Targets

BatchShape(b) ==
  b = [left |-> b.left, results |-> b.results, guarded |-> b.guarded, drop |-> b.drop]

\* A request that runs has a goal; nothing is buffered or scheduled outside
\* a pass.
FrameOK ==
  /\ phase = "idle" => request = NoRequest
  /\ phase # "idle" => outcome = "none" /\ request.goal # "none"
  /\ phase \in {"idle", "plan"} =>
       pass = NoPass /\ batch = NoBatch /\ buffer = None /\ unflushed = {}
  /\ phase = "walk" => batch = NoBatch
  /\ phase = "commit" => batch.left # {} /\ BatchShape(batch)

Pending == pass.todo \cup pass.layer \cup batch.left

\* Every candidate is waiting, dropped or committed; what waits in the buffer
\* was committed in the layer at hand.
PassOK ==
  /\ pass.candidates = Pending \cup pass.dropped \cup pass.committed
  /\ pass.todo \cap (pass.layer \cup batch.left) = {}
  /\ pass.layer \cap batch.left = {}
  /\ pass.committed \cap (Pending \cup dirty) = {}
  /\ batch.left \subseteq pass.previous
  /\ unflushed \cup pass.previous \subseteq pass.candidates \ (pass.todo \cup pass.layer)
  /\ DOMAIN buffer \subseteq unflushed \cup pass.previous
  /\ DOMAIN buffer \subseteq pass.committed
  /\ pass.layer = {} /\ batch.left = {} => buffer = None /\ unflushed = {}

\* The formulas that v is known to read before it is evaluated.
Needs(v) == ((Static(v) \cup Hints(v)) \cap Formulas) \ {v}

\* The schedule puts a candidate after the dirty ones it is known to read,
\* so that none of them is dirty, waiting or buffered when its layer runs.
ScheduleOK ==
  /\ \A v \in Pending : Needs(v) \cap dirty \subseteq pass.candidates
  /\ \A v \in pass.todo : \A u \in Needs(v) \cap pass.candidates : <<u, v>> \in pass.edges
  /\ \A v \in pass.layer \cup batch.left :
       Needs(v) \cap (Pending \cup unflushed \cup pass.previous \cup dirty) = {}
  /\ phase \in {"walk", "commit"} =>
       /\ request.goal = "all" => dirty \subseteq pass.candidates
       /\ request.goal \in dirty => request.goal \in pass.candidates

\* A clean formula shows what it computes and reads nothing dirty.
CleanOK ==
  \A v \in Formulas \ dirty :
    Effective[v] = Result(v, Effective).value /\ Reads(v, Effective) \cap dirty = {}

\* What a batch is about to commit is still right.
BatchOK ==
  /\ \A v \in batch.left \ batch.drop :
       /\ batch.results[v].out = Result(v, Effective)
       /\ batch.results[v].reads = Reads(v, Effective)
       /\ Reads(v, Effective) \cap dirty = {}
  /\ \A v \in batch.left \cap batch.drop \cap Dynamic :
       batch.results[v].stale \subseteq Formulas \ (Hints(v) \cup {v})

\* Until a request replans, what was dirty when it began is dirty or
\* committed: a closed set with every volatile formula in it.
Origin == dirty \cup pass.committed
OriginOK ==
  request.replans = 0 =>
    /\ Volatile \cup pass.candidates \subseteq Origin
    /\ \A v \in Formulas \ Origin : Static(v) \cap Origin = {}

\* After a request: a full one leaves every formula fresh, a targeted one a
\* set of fresh formulas that holds the target and all they read.
OutcomeOK ==
  /\ outcome = "all" => \A v \in Formulas : store[v] = Result(v, store).value
  /\ outcome \in Targets =>
       \E S \in SUBSET Formulas :
         /\ outcome \in S
         /\ \A v \in S : store[v] = Result(v, store).value
                         /\ Reads(v, store) \cap Formulas \subseteq S

ChildrenOK == \A c \in Children : store[c] = Empty

IInv ==
  /\ Types /\ FrameOK /\ PassOK /\ ScheduleOK /\ CleanOK /\ BatchOK
  /\ OriginOK /\ OutcomeOK /\ ChildrenOK

\* The hints that a request can gather: a dynamic reader and another formula.
ReaderPairs == {e \in Dynamic \X Formulas : e[1] # e[2]}
Pairs == {e \in ReaderPairs : e[2] \in request.hints[e[1]]}

\* The running request has found more dirty formulas under its dynamic readers
\* than it may replan.
ManyHints == Cardinality(Pairs) > MaxReplan

\* Every replan was paid for with a hint that the request did not have.
Paid(n) == n <= Cardinality(Pairs)
StaleMember == \E v \in batch.left \cap batch.drop \cap Dynamic : batch.results[v].stale # {}
HintsOK ==
  /\ Paid(request.replans)
  /\ pass.dropped # {} => Paid(request.replans + 1) \/ StaleMember
  /\ batch.left \cap batch.drop # {} => Paid(request.replans + 1) \/ StaleMember

-----------------------------------------------------------------------------
(* Dependents, stores, and what is left out without spills *)

\* DependentsOf[c] is closed under the readers of its members ...
LEMMA DependentsClosed ==
  ASSUME NEW c \in Cells
  PROVE  /\ DependentsOf[c] \subseteq Formulas
         /\ Readers({c}) \subseteq DependentsOf[c]
         /\ Readers(DependentsOf[c]) \subseteq DependentsOf[c]
<1> DEFINE closed == {S \in SUBSET Formulas : Readers({c}) \subseteq S /\ Readers(S) \subseteq S}
           D == {v \in Formulas : \A S \in closed : v \in S}
<1>1. DependentsOf[c] = D
  BY DEF DependentsOf
<1>2. Readers({c}) \subseteq D
  BY DEF Readers
<1>3. ASSUME NEW v \in Readers(D), NEW S \in closed PROVE v \in S
  <2>1. D \subseteq S
    OBVIOUS
  <2>2. Readers(D) \subseteq Readers(S)
    BY <2>1 DEF Readers
  <2> QED BY <1>3, <2>2
<1>4. Readers(D) \subseteq Formulas
  BY DEF Readers
<1> QED BY <1>1, <1>2, <1>3, <1>4

\* ... and the least such set.
LEMMA DependentsLeast ==
  ASSUME NEW c \in Cells, NEW S \in SUBSET Formulas,
         Readers({c}) \subseteq S, Readers(S) \subseteq S
  PROVE  DependentsOf[c] \subseteq S
BY DEF DependentsOf

\* Static readers of the dependents of a set, or of the set, are dependents.
LEMMA ReadersOfDependents ==
  ASSUME NEW cs \in SUBSET Formulas, NEW v \in Formulas,
         Static(v) \cap (cs \cup Dependents(cs)) # {}
  PROVE  v \in Dependents(cs)
<1>1. PICK u \in Static(v) : u \in cs \cup Dependents(cs)
  OBVIOUS
<1>2. cs \subseteq Cells
  BY DEF Cells
<1>3. CASE u \in cs
  BY <1>1, <1>2, <1>3, DependentsClosed DEF Dependents, Readers
<1>4. CASE u \in Dependents(cs)
  <2>1. PICK c \in cs : u \in DependentsOf[c]
    BY <1>4 DEF Dependents
  <2>2. v \in Readers(DependentsOf[c])
    BY <1>1, <2>1 DEF Readers
  <2> QED BY <1>2, <2>1, <2>2, DependentsClosed DEF Dependents
<1> QED BY <1>1, <1>3, <1>4

\* Dependents are formulas.
LEMMA DependentsType ==
  ASSUME NEW cs \in SUBSET Formulas
  PROVE  Dependents(cs) \subseteq Formulas
BY DependentsClosed DEF Dependents, Cells

\* A store with a buffer over it is a store; an empty buffer changes nothing.
LEMMA OverlaidType ==
  ASSUME NEW s \in Stores, NEW b, b \in [DOMAIN b -> Contents]
  PROVE  /\ Overlaid(s, b) \in Stores
         /\ \A c \in Cells : Overlaid(s, b)[c] = IF c \in DOMAIN b THEN b[c] ELSE s[c]
         /\ DOMAIN b = {} => Overlaid(s, b) = s
BY DEF Overlaid, Stores

LEMMA NoneFacts ==
  /\ DOMAIN None = {} /\ None \in [DOMAIN None -> Contents]
  /\ \A b : b \in [DOMAIN b -> Contents] => (b = None <=> DOMAIN b = {})
BY DEF None

\* Nothing has an extent.
LEMMA NoExtents ==
  ASSUME Types
  PROVE  /\ ~HasSpills
         /\ \A cs : AnchorsOver(cs) = {}
         /\ Redirtied = (IF pass.hadSpills THEN pass.committed \cap dirty ELSE {})
         /\ \A v, r, w : DirtyReads(v, r, w) = (r \cap Formulas \cap (dirty \cup w)) \ {v}
<1>1. ~HasSpills /\ \A cs : AnchorsOver(cs) = {}
  BY DEF Types, HasSpills, AnchorsOver
<1> QED BY <1>1 DEF Redirtied, DirtyReads

\* The effective store.
LEMMA EffectiveFacts ==
  ASSUME Types
  PROVE  /\ Effective \in Stores
         /\ \A c \in Cells : Effective[c] = IF c \in DOMAIN buffer THEN buffer[c] ELSE store[c]
         /\ DOMAIN buffer = {} <=> buffer = None
         /\ buffer = None => Effective = store
<1>1. store \in Stores /\ buffer \in [DOMAIN buffer -> Contents]
  BY DEF Types
<1>2. DOMAIN buffer = {} <=> buffer = None
  BY <1>1, NoneFacts
<1> QED BY <1>1, <1>2, OverlaidType DEF Effective

\* Reads of formulas that are not dynamic.
LEMMA StaticReads ==
  ASSUME NEW v \in Formulas, NEW s
  PROVE  Static(v) \subseteq Reads(v, s) /\ (v \notin Dynamic => Reads(v, s) = Static(v))
BY DEF Reads

\* Two stores that agree on what v reads in one of them give it one value.
LEMMA SameResult ==
  ASSUME ScalarWorkbook, NEW v \in Formulas, NEW s \in Stores, NEW r \in Stores,
         \A c \in Reads(v, s) : r[c] = s[c]
  PROVE  Result(v, r) = Result(v, s) /\ Reads(v, r) = Reads(v, s)
BY DEF ScalarWorkbook, LocalResults

-----------------------------------------------------------------------------
(* Requests that end *)

\* The state a request leaves: no pass, a closed dirty set with the volatile
\* formulas in it, and clean formulas that are fresh.
LEMMA EndIInv ==
  ASSUME ScalarWorkbook, Types, NEW d \in SUBSET Formulas, NEW how, End(d, how),
         UNCHANGED <<extent, observed, cached>>,
         store' \in Stores, \A c \in Children : store'[c] = Empty,
         Volatile \subseteq d,
         \A v \in Formulas \ d : store'[v] = Result(v, store').value /\ Static(v) \cap d = {},
         how \in {"none", "all", "failed"} \cup Targets,
         how = "all" => \A v \in Formulas : store'[v] = Result(v, store').value,
         how \in Targets =>
           \E S \in SUBSET Formulas :
             /\ how \in S
             /\ \A v \in S : store'[v] = Result(v, store').value
                             /\ Reads(v, store') \cap Formulas \subseteq S
  PROVE  IInv'
<1>1. /\ dirty' = d /\ phase' = "idle" /\ outcome' = how /\ request' = NoRequest
      /\ pass' = NoPass /\ batch' = NoBatch /\ buffer' = None /\ unflushed' = {}
      /\ extent' = extent /\ observed' = observed /\ cached' = cached
  BY DEF End
<1>2. NoRequest \in Requests /\ NoPass \in Passes
  BY ReplanAssumption DEF NoRequest, NoPass, Requests, Passes
<1>3. NoBatch.left = {} /\ NoBatch.guarded = FALSE /\ NoBatch.drop = {}
  BY DEF NoBatch
<1>4. Types'
  BY <1>1, <1>2, <1>3, NoneFacts DEF Types
<1>5. Effective' = store'
  <2>1. None \in [DOMAIN None -> Contents] /\ DOMAIN None = {}
    BY NoneFacts
  <2>2. Overlaid(store', None) = store'
    BY <2>1, OverlaidType
  <2> QED BY <1>1, <2>2 DEF Effective
<1>6. FrameOK'
  BY <1>1 DEF FrameOK
<1>7. /\ NoPass.candidates = {} /\ NoPass.todo = {} /\ NoPass.layer = {}
      /\ NoPass.previous = {} /\ NoPass.committed = {} /\ NoPass.dropped = {}
  BY DEF NoPass
<1>8. PassOK'
  BY <1>1, <1>3, <1>7, NoneFacts DEF PassOK, Pending
<1>9. ScheduleOK'
  BY <1>1, <1>3, <1>7 DEF ScheduleOK, Pending
<1>10. CleanOK'
  <2> SUFFICES ASSUME NEW v \in Formulas \ d
               PROVE  /\ store'[v] = Result(v, store').value
                      /\ Reads(v, store') \cap d = {}
    BY <1>1, <1>5 DEF CleanOK
  <2>1. v \notin Dynamic
    BY DynamicAssumption
  <2> QED BY <2>1, StaticReads
<1>11. BatchOK'
  BY <1>1, <1>3 DEF BatchOK
<1>12. OriginOK'
  BY <1>1, <1>7 DEF OriginOK, Origin
<1>13. OutcomeOK'
  BY <1>1 DEF OutcomeOK
<1>14. ChildrenOK'
  BY DEF ChildrenOK
<1> QED BY <1>4, <1>6, <1>8, <1>9, <1>10, <1>11, <1>12, <1>13, <1>14 DEF IInv

\* A request that succeeds flags the volatile formulas and their dependents.
LEMMA SettledIInv ==
  ASSUME ScalarWorkbook, IInv, buffer = None, request.goal \in {"all"} \cup Targets,
         End(Settled(dirty), request.goal), UNCHANGED <<store, extent, observed, cached>>,
         request.goal = "all" => dirty = {},
         request.goal \in Targets => request.goal \notin dirty
  PROVE  IInv'
<1> DEFINE d == Settled(dirty)
<1>1. /\ Types /\ Effective = store /\ store \in Stores /\ dirty \in SUBSET Formulas
      /\ store' = store
  BY EffectiveFacts DEF IInv, Types
<1>2. d \in SUBSET Formulas /\ Volatile \subseteq d
  BY <1>1, DependentsType, DynamicAssumption DEF Settled
<1>3. \A v \in Formulas \ dirty : store[v] = Result(v, store).value
                                  /\ Reads(v, store) \cap dirty = {}
  BY <1>1 DEF IInv, CleanOK
<1>4. ASSUME NEW v \in Formulas \ d
      PROVE  store[v] = Result(v, store).value /\ Static(v) \cap d = {}
  <2>1. v \in Formulas \ dirty /\ v \notin Dependents(Volatile)
    BY DEF Settled
  <2>2. Static(v) \cap dirty = {}
    BY <1>3, <2>1, StaticReads
  <2>3. Volatile \in SUBSET Formulas
    BY DynamicAssumption
  <2>4. Static(v) \cap (Volatile \cup Dependents(Volatile)) = {}
    BY <2>1, <2>3, ReadersOfDependents
  <2> QED BY <1>3, <2>1, <2>2, <2>4 DEF Settled
<1>5. request.goal \in Targets =>
        \E S \in SUBSET Formulas :
          /\ request.goal \in S
          /\ \A v \in S : store[v] = Result(v, store).value
                          /\ Reads(v, store) \cap Formulas \subseteq S
  <2> SUFFICES ASSUME request.goal \in Targets
               PROVE  /\ request.goal \in Formulas \ dirty
                      /\ \A v \in Formulas \ dirty :
                           /\ store[v] = Result(v, store).value
                           /\ Reads(v, store) \cap Formulas \subseteq Formulas \ dirty
    OBVIOUS
  <2> QED BY <1>3, TargetsAssumption
<1>6. request.goal = "all" => \A v \in Formulas : store[v] = Result(v, store).value
  BY <1>3
<1>7. \A c \in Children : store[c] = Empty
  BY DEF IInv, ChildrenOK
<1>8. UNCHANGED <<extent, observed, cached>>
  OBVIOUS
<1> HIDE DEF d
<1> QED BY <1>1, <1>2, <1>4, <1>5, <1>6, <1>7, <1>8, EndIInv DEF d

\* Nothing to do.
LEMMA NoWorkIInv ==
  ASSUME ScalarWorkbook, IInv, NoWork
  PROVE  IInv'
<1>1. /\ phase = "plan" /\ Candidates = {} /\ End(Settled(dirty), request.goal)
      /\ UNCHANGED <<store, extent, observed, cached>>
  BY DEF NoWork
<1>2. buffer = None /\ request.goal # "none" /\ request \in Requests
  BY <1>1 DEF IInv, FrameOK, Types
<1>3. request.goal \in {"all"} \cup Targets
  BY <1>2 DEF Requests
<1>4. request.goal = "all" => dirty = {}
  BY <1>1 DEF Candidates
<1>5. request.goal \in Targets => request.goal \notin dirty
  <2> SUFFICES ASSUME request.goal \in Targets, request.goal \in dirty PROVE FALSE
    OBVIOUS
  <2>1. request.goal # "all" /\ request.goal \in Formulas
    BY TargetsAssumption
  <2>2. request.goal \in Demand(request.goal)
    BY <2>1 DEF Demand
  <2> QED BY <1>1, <2>1, <2>2 DEF Candidates
<1> QED BY <1>1, <1>2, <1>3, <1>4, <1>5, SettledIInv

\* Between requests nothing is scheduled, and what is not dirty is fresh.
LEMMA IdleFacts ==
  ASSUME IInv, phase = "idle"
  PROVE  /\ Types /\ request = NoRequest /\ pass = NoPass /\ batch = NoBatch
         /\ buffer = None /\ unflushed = {} /\ Effective = store /\ store \in Stores
         /\ dirty \in SUBSET Formulas /\ Volatile \subseteq dirty
         /\ \A v \in Formulas \ dirty : /\ store[v] = Result(v, store).value
                                        /\ Static(v) \cap dirty = {}
                                        /\ v \notin Dynamic
<1>1. /\ Types /\ request = NoRequest /\ pass = NoPass /\ batch = NoBatch
      /\ buffer = None /\ unflushed = {} /\ store \in Stores /\ dirty \in SUBSET Formulas
  BY DEF IInv, FrameOK, Types
<1>2. Effective = store
  BY <1>1, EffectiveFacts
<1>3. request.replans = 0 /\ pass.committed = {}
  BY <1>1 DEF NoRequest, NoPass
<1>4. Volatile \subseteq dirty /\ \A v \in Formulas \ dirty : Static(v) \cap dirty = {}
  BY <1>3 DEF IInv, OriginOK, Origin
<1>5. \A v \in Formulas \ dirty : store[v] = Result(v, store).value /\ v \notin Dynamic
  BY <1>2, <1>4, DynamicAssumption DEF IInv, CleanOK
<1> QED BY <1>1, <1>2, <1>4, <1>5

\* An edit flags the static dependents of the input; no other clean formula
\* reads it, because dynamic readers are dirty between requests.
LEMMA EditIInv ==
  ASSUME ScalarWorkbook, IInv, NEW i \in Inputs, NEW val \in Values, Edit(i, val)
  PROVE  IInv'
<1> DEFINE d == dirty \cup DependentsOf[i]
<1>1. /\ phase = "idle" /\ store' = [store EXCEPT ![i] = val] /\ dirty' = d
      /\ outcome' = "none"
      /\ UNCHANGED <<extent, observed, cached, phase, request, pass, batch, buffer, unflushed>>
  BY DEF Edit
<1>2. /\ Types /\ request = NoRequest /\ pass = NoPass /\ batch = NoBatch
      /\ buffer = None /\ unflushed = {} /\ store \in Stores
      /\ dirty \in SUBSET Formulas /\ Volatile \subseteq dirty
      /\ \A v \in Formulas \ dirty : /\ store[v] = Result(v, store).value
                                     /\ Static(v) \cap dirty = {}
                                     /\ v \notin Dynamic
  BY <1>1, IdleFacts
<1>3. i \in Cells /\ val \in Contents
  BY DEF Cells, Contents
<1>4. store' \in Stores /\ \A c \in Cells \ {i} : store'[c] = store[c]
  BY <1>1, <1>2, <1>3 DEF Stores
<1>5. /\ DependentsOf[i] \subseteq Formulas
      /\ Readers({i}) \subseteq DependentsOf[i]
      /\ Readers(DependentsOf[i]) \subseteq DependentsOf[i]
  BY <1>3, DependentsClosed
<1>6. d \in SUBSET Formulas /\ Volatile \subseteq d
  BY <1>2, <1>5
<1>7. ASSUME NEW v \in Formulas \ d
      PROVE  store'[v] = Result(v, store').value /\ Static(v) \cap d = {}
  <2>1. v \in Formulas \ dirty /\ v \notin DependentsOf[i]
    OBVIOUS
  <2>2. i \notin Static(v) /\ Static(v) \cap DependentsOf[i] = {}
    BY <1>5, <2>1 DEF Readers
  <2>3. v \in Cells \ {i} /\ Static(v) \subseteq Cells \ {i} /\ Reads(v, store) = Static(v)
    BY <1>2, <2>1, <2>2, StaticReads, CellsAssumption, StaticAssumption DEF Cells
  <2>4. Result(v, store') = Result(v, store)
    BY <1>2, <1>4, <2>1, <2>3, SameResult
  <2> QED BY <1>2, <1>4, <2>1, <2>2, <2>3, <2>4
<1>8. \A c \in Children : store'[c] = Empty
  BY <1>4, CellsAssumption DEF IInv, ChildrenOK, Cells
<1>9. End(d, "none")
  BY <1>1, <1>2 DEF End
<1>10. "none" \notin Targets
  BY TargetsAssumption
<1> HIDE DEF d
<1> QED BY <1>1, <1>2, <1>4, <1>6, <1>7, <1>8, <1>9, <1>10, EndIInv

\* A request begins.
LEMMA BeginIInv ==
  ASSUME IInv, NEW goal \in {"all"} \cup Targets, Begin(goal)
  PROVE  IInv'
<1>1. /\ phase = "idle" /\ phase' = "plan" /\ request' = [NoRequest EXCEPT !.goal = goal]
      /\ outcome' = "none"
      /\ UNCHANGED <<store, extent, dirty, observed, cached, pass, batch, buffer, unflushed>>
  BY DEF Begin
<1>2. /\ request = NoRequest /\ pass = NoPass /\ batch = NoBatch
      /\ buffer = None /\ unflushed = {}
  BY <1>1, IdleFacts
<1>3. NoRequest \in Requests /\ NoRequest.replans = 0
  BY ReplanAssumption DEF NoRequest, Requests
<1>4. /\ request' \in Requests /\ request'.goal = goal /\ request'.replans = 0
  BY <1>1, <1>3 DEF Requests
<1>5. Types'
  BY <1>1, <1>4 DEF IInv, Types
<1>6. goal # "none"
  BY TargetsAssumption
<1>7. FrameOK'
  BY <1>1, <1>2, <1>4, <1>6 DEF FrameOK
<1>8. PassOK' /\ Effective' = Effective
  BY <1>1 DEF IInv, PassOK, Pending, Effective
<1>9. /\ pass.candidates = {} /\ pass.todo = {} /\ pass.layer = {} /\ batch.left = {}
  BY <1>2 DEF NoPass, NoBatch
<1>10. ScheduleOK'
  BY <1>1, <1>9 DEF ScheduleOK, Pending
<1>11. CleanOK'
  BY <1>1, <1>8 DEF IInv, CleanOK
<1>12. BatchOK'
  BY <1>1, <1>9 DEF BatchOK
<1>13. OriginOK'
  BY <1>1, <1>2, <1>3 DEF IInv, OriginOK, Origin
<1>14. OutcomeOK'
  BY <1>1, TargetsAssumption DEF OutcomeOK
<1>15. ChildrenOK'
  BY <1>1 DEF IInv, ChildrenOK
<1> QED BY <1>5, <1>7, <1>8, <1>10, <1>11, <1>12, <1>13, <1>14, <1>15 DEF IInv

\* A request that fails in its first pass flags again what it committed; the
\* formulas outside do not read any of that, written or not.
LEMMA AbortIInv ==
  ASSUME ScalarWorkbook, IInv, NEW flushed \in BOOLEAN, Abort(flushed)
  PROVE  IInv'
<1>1. /\ MayFail /\ store' = (IF flushed THEN Overlaid(store, buffer) ELSE store)
      /\ End(Origin, "failed") /\ UNCHANGED <<extent, observed, cached>>
  BY DEF Abort, Restored, Origin
<1>2. request.replans = 0
  BY <1>1 DEF MayFail, ScalarWorkbook
<1>3. /\ Types /\ store \in Stores /\ dirty \in SUBSET Formulas
      /\ pass.committed \in SUBSET Formulas /\ DOMAIN buffer \subseteq pass.committed
  BY DEF IInv, Types, Passes, PassOK
<1>4. /\ Effective \in Stores
      /\ \A c \in Cells : Effective[c] = IF c \in DOMAIN buffer THEN buffer[c] ELSE store[c]
  BY <1>3, EffectiveFacts
<1>5. /\ Origin \in SUBSET Formulas /\ Volatile \subseteq Origin
      /\ \A v \in Formulas \ Origin : Static(v) \cap Origin = {}
  BY <1>2, <1>3 DEF IInv, OriginOK, Origin
<1>6. store' \in Stores /\ \A c \in Cells \ DOMAIN buffer : store'[c] = Effective[c]
  BY <1>1, <1>3, <1>4 DEF Effective
<1>7. ASSUME NEW v \in Formulas \ Origin
      PROVE  store'[v] = Result(v, store').value
  <2>1. v \in Formulas \ dirty /\ v \notin DOMAIN buffer /\ v \in Cells
    BY <1>3 DEF Origin, Cells
  <2>2. Effective[v] = Result(v, Effective).value
    BY <2>1 DEF IInv, CleanOK
  <2>3. v \notin Dynamic
    BY <1>5, DynamicAssumption
  <2>4. Reads(v, Effective) = Static(v)
    BY <2>3, StaticReads
  <2>5. Static(v) \subseteq Cells \ DOMAIN buffer
    BY <1>3, <1>5, StaticAssumption DEF Cells, Origin
  <2>6. \A c \in Reads(v, Effective) : store'[c] = Effective[c]
    BY <1>6, <2>4, <2>5
  <2>7. Result(v, store') = Result(v, Effective)
    BY <1>4, <1>6, <2>6, SameResult
  <2> QED BY <1>6, <2>1, <2>2, <2>7
<1>8. \A c \in Children : store'[c] = Empty
  <2> TAKE c \in Children
  <2>1. c \in Cells \ DOMAIN buffer /\ store[c] = Empty
    BY <1>3, CellsAssumption DEF IInv, ChildrenOK, Cells
  <2> QED BY <1>4, <1>6, <2>1
<1>9. "failed" \notin Targets
  BY TargetsAssumption
<1> HIDE DEF Origin
<1> QED BY <1>1, <1>3, <1>5, <1>6, <1>7, <1>8, <1>9, EndIInv

-----------------------------------------------------------------------------
(* Passes *)

\* Fields that are not written keep their place in IInv.
LEMMA SameEffective ==
  ASSUME IInv, Effective' = Effective, dirty' = dirty
  PROVE  CleanOK'
BY DEF IInv, CleanOK

\* The candidates are dirty or volatile, and what a candidate is known to
\* read is one of them if it is dirty.
LEMMA CandidatesClosed ==
  ASSUME Types, request.goal \in {"all"} \cup Targets
  PROVE  /\ Candidates \in SUBSET Formulas /\ Candidates \subseteq dirty \cup Volatile
         /\ \A v \in Candidates : Needs(v) \cap dirty \subseteq Candidates
         /\ request.goal = "all" => dirty \subseteq Candidates
         /\ request.goal \in dirty => request.goal \in Candidates
<1>1. dirty \subseteq Formulas /\ Volatile \subseteq Formulas
  BY DynamicAssumption DEF Types
<1>2. CASE request.goal = "all"
  BY <1>1, <1>2 DEF Candidates
<1>3. CASE request.goal # "all"
  <2> DEFINE t == request.goal
             closed == {S \in SUBSET Formulas :
                          t \in S /\ \A v \in S : DemandStep(v) \subseteq S}
  <2>1. Candidates = Demand(t) \cap (dirty \cup Volatile)
    BY <1>3 DEF Candidates
  <2>2. Demand(t) = {v \in Formulas : \A S \in closed : v \in S}
    BY DEF Demand
  <2>3. t \in Formulas
    BY <1>3, TargetsAssumption
  <2>4. t \in Demand(t)
    BY <2>2, <2>3
  <2>5. ASSUME NEW v \in Demand(t) PROVE Needs(v) \subseteq Demand(t)
    <3>1. Needs(v) \subseteq DemandStep(v) /\ Needs(v) \subseteq Formulas
      BY DEF Needs, DemandStep
    <3>2. \A S \in closed : DemandStep(v) \subseteq S
      BY <2>2, <2>5
    <3> QED BY <2>2, <3>1, <3>2
  <2> QED BY <1>1, <1>3, <2>1, <2>2, <2>4, <2>5
<1> QED BY <1>2, <1>3

\* A plan orders the candidates by what they are known to read.
LEMMA PlanIInv ==
  ASSUME ScalarWorkbook, IInv, NEW base \in {{}} \cup cached, Plan(base)
  PROVE  IInv'
<1> DEFINE C == Candidates
           added == IF base # {} THEN BaseOrder(base, C) ELSE HintEdges(C) \cup ExtentEdges(C)
           edges == AuthorityEdges(C) \cup added
<1>1. /\ phase = "plan" /\ phase' = "walk" /\ (base # {} => ~HasHints)
      /\ pass' = [NoPass EXCEPT !.candidates = C, !.edges = edges, !.todo = C,
                                !.hadSpills = HasSpills]
      /\ UNCHANGED <<store, extent, dirty, observed, request, batch, buffer, unflushed, outcome>>
      /\ cached' \in {cached, cached \cup {C}}
  BY DEF Plan, Serves, CacheEligible
<1>2. /\ Types /\ outcome = "none" /\ request.goal # "none" /\ request \in Requests
      /\ batch = NoBatch /\ buffer = None /\ unflushed = {} /\ pass = NoPass
  BY <1>1 DEF IInv, FrameOK, Types
<1>3. request.goal \in {"all"} \cup Targets
  BY <1>2 DEF Requests
<1>4. /\ C \in SUBSET Formulas /\ C \subseteq dirty \cup Volatile
      /\ \A v \in C : Needs(v) \cap dirty \subseteq C
      /\ request.goal = "all" => dirty \subseteq C
      /\ request.goal \in dirty => request.goal \in C
  BY <1>2, <1>3, CandidatesClosed
<1>5. edges \in SUBSET (Formulas \X Formulas)
  <2>1. BaseOrder(base, C) \subseteq C \X C
    <3>1. \E L : BaseOrder(base, C) = UNION {(C \cap L[n]) \X (C \ L[n]) : n \in DOMAIN L}
      BY Zenon DEF BaseOrder
    <3> HIDE DEF C
    <3> QED BY <3>1
  <2>2. added \subseteq C \X C
    BY <2>1 DEF HintEdges, ExtentEdges
  <2>3. AuthorityEdges(C) \subseteq C \X C
    BY DEF AuthorityEdges
  <2> HIDE DEF C, added
  <2> QED BY <1>4, <2>2, <2>3
<1>6. \A v \in C : \A u \in Needs(v) \cap C : <<u, v>> \in edges
  <2> TAKE v \in C
  <2> TAKE u \in Needs(v) \cap C
  <2>1. u # v /\ <<u, v>> \in C \X C /\ (u \in Static(v) \/ u \in Hints(v))
    BY DEF Needs
  <2>2. CASE u \in Static(v)
    BY <2>1, <2>2 DEF AuthorityEdges
  <2>3. CASE u \in Hints(v)
    <3>1. base = {}
      BY <1>1, <2>3 DEF Hints, HasHints
    <3> QED BY <2>1, <2>3, <3>1 DEF HintEdges
  <2> QED BY <2>1, <2>2, <2>3
<1> HIDE DEF C, edges
<1>7. /\ pass' \in Passes /\ pass'.candidates = C /\ pass'.edges = edges /\ pass'.todo = C
      /\ pass'.layer = {} /\ pass'.previous = {} /\ pass'.committed = {} /\ pass'.dropped = {}
  BY <1>1, <1>4, <1>5 DEF NoPass, Passes, HasSpills
<1>8. batch.left = {}
  BY <1>2 DEF NoBatch
<1>9. Types'
  BY <1>1, <1>2, <1>4, <1>7 DEF Types
<1>10. FrameOK'
  BY <1>1, <1>2 DEF FrameOK
<1>11. PassOK'
  BY <1>1, <1>2, <1>7, <1>8, NoneFacts DEF PassOK, Pending
<1>12. \A v : Needs(v)' = Needs(v)
  BY <1>1 DEF Needs, Hints
<1>13. ScheduleOK'
  BY <1>1, <1>4, <1>6, <1>7, <1>8, <1>12 DEF ScheduleOK, Pending
<1>14. CleanOK'
  BY <1>1, SameEffective DEF Effective
<1>15. BatchOK'
  BY <1>1, <1>8 DEF BatchOK
<1>16. OriginOK'
  <2>1. pass.committed = {}
    BY <1>2 DEF NoPass
  <2> QED BY <1>1, <1>4, <1>7, <2>1 DEF IInv, OriginOK, Origin
<1>17. OutcomeOK' /\ ChildrenOK'
  BY <1>1, <1>2, TargetsAssumption DEF IInv, OutcomeOK, ChildrenOK
<1> QED BY <1>9, <1>10, <1>11, <1>13, <1>14, <1>15, <1>16, <1>17 DEF IInv

\* The next layer: everything its members are known to read was committed in
\* layers before.
LEMMA NextLayerIInv ==
  ASSUME IInv, NEW mode \in {"direct", "buffered"}, NextLayer(mode)
  PROVE  IInv'
<1> DEFINE L == Unordered(pass.todo, pass.edges)
<1>1. /\ phase = "walk" /\ pass.layer = {} /\ pass.todo # {} /\ pass.dropped = {}
      /\ pass' = [pass EXCEPT !.layer = L, !.todo = @ \ L, !.mode = mode, !.previous = {}]
      /\ UNCHANGED <<store, extent, dirty, observed, cached, phase, request, batch,
                     buffer, unflushed, outcome>>
  BY DEF NextLayer
<1>2. /\ Types /\ PassOK /\ ScheduleOK /\ pass \in Passes /\ batch = NoBatch /\ batch.left = {}
  BY <1>1 DEF IInv, FrameOK, Types, NoBatch
<1>3. L \subseteq pass.todo /\ \A v \in L, u \in pass.todo : <<u, v>> \notin pass.edges
  BY DEF Unordered
<1> HIDE DEF L
<1>4. buffer = None /\ unflushed = {} /\ DOMAIN buffer = {}
  BY <1>1, <1>2, NoneFacts DEF PassOK
<1>5. /\ pass' \in Passes /\ pass'.candidates = pass.candidates /\ pass'.edges = pass.edges
      /\ pass'.todo = pass.todo \ L /\ pass'.layer = L /\ pass'.previous = {}
      /\ pass'.committed = pass.committed /\ pass'.dropped = pass.dropped
  BY <1>1, <1>2, <1>3 DEF Passes
<1>6. Pending' = Pending
  BY <1>1, <1>2, <1>3, <1>5 DEF Pending
<1>7. Types' /\ FrameOK'
  BY <1>1, <1>2, <1>5 DEF IInv, Types, FrameOK
<1>8. PassOK'
  BY <1>1, <1>2, <1>3, <1>4, <1>5, <1>6 DEF PassOK, Pending
<1>9. \A v : Needs(v)' = Needs(v)
  BY <1>1 DEF Needs, Hints
<1>10. \A v \in L : Needs(v) \cap (Pending \cup dirty) = {}
  <2> SUFFICES ASSUME NEW v \in L, NEW u \in Needs(v), u \in Pending \cup dirty PROVE FALSE
    OBVIOUS
  <2>1. v \in pass.todo /\ v \in Pending
    BY <1>3 DEF Pending
  <2>2. u \in pass.candidates
    BY <1>2, <2>1 DEF PassOK, ScheduleOK
  <2>3. <<u, v>> \in pass.edges
    BY <1>2, <2>1, <2>2 DEF ScheduleOK
  <2>4. u \notin pass.todo
    BY <1>3, <2>3
  <2>5. u \in pass.committed
    BY <1>1, <1>2, <2>2, <2>4 DEF PassOK, Pending
  <2> QED BY <1>2, <2>5 DEF PassOK
<1>11. ScheduleOK'
  <2>1. \A v \in Pending' : Needs(v)' \cap dirty' \subseteq pass'.candidates
    BY <1>1, <1>2, <1>5, <1>6, <1>9 DEF ScheduleOK
  <2>2. \A v \in pass'.todo : \A u \in Needs(v)' \cap pass'.candidates : <<u, v>> \in pass'.edges
    BY <1>2, <1>5, <1>9 DEF ScheduleOK
  <2>3. \A v \in pass'.layer \cup batch'.left :
          Needs(v)' \cap (Pending' \cup unflushed' \cup pass'.previous \cup dirty') = {}
    BY <1>1, <1>2, <1>4, <1>5, <1>6, <1>9, <1>10
  <2>4. phase' \in {"walk", "commit"} =>
          /\ request'.goal = "all" => dirty' \subseteq pass'.candidates
          /\ request'.goal \in dirty' => request'.goal \in pass'.candidates
    BY <1>1, <1>2, <1>5 DEF ScheduleOK
  <2> QED BY <2>1, <2>2, <2>3, <2>4 DEF ScheduleOK
<1>12. CleanOK'
  BY <1>1, SameEffective DEF Effective
<1>13. BatchOK'
  BY <1>1, <1>2 DEF BatchOK
<1>14. OriginOK'
  BY <1>1, <1>5 DEF IInv, OriginOK, Origin
<1>15. OutcomeOK' /\ ChildrenOK'
  BY <1>1 DEF IInv, OutcomeOK, ChildrenOK
<1> QED BY <1>7, <1>8, <1>11, <1>12, <1>13, <1>14, <1>15 DEF IInv

\* The units of a layer are evaluated in s, the store or the effective store,
\* with `waiting` left in the buffer.  A member that will commit read nothing
\* dirty and nothing that waits, so it would compute the same in the
\* effective store.
LEMMA EvaluateIInv ==
  ASSUME ScalarWorkbook, IInv, phase = "walk", NEW U \in SUBSET pass.layer, U # {},
         NEW s, NEW unwritten \in SUBSET (unflushed \cup pass.previous),
         NEW parallel \in BOOLEAN, Evaluate(U, s, unwritten, parallel),
         \/ s = store /\ buffer' = buffer /\ DOMAIN buffer \subseteq unwritten
         \/ s = Effective /\ buffer' = None
  PROVE  IInv'
<1> DEFINE E == Effective
           results == [v \in U |->
                         [out |-> Result(v, s), reads |-> Reads(v, s),
                          stale |-> IF v \in Dynamic THEN DirtyReads(v, Reads(v, s), unwritten)
                                    ELSE {}]]
           stale == {v \in U : results[v].stale # {}}
           drop == IF parallel /\ stale # {} THEN U ELSE stale
           guarded == /\ Cardinality(U) > 1
                      /\ \E v \in U : DOMAIN results[v].out.spill # {} \/ extent[v] # {}
           early == IF guarded THEN U \ drop ELSE {}
<1>1. /\ batch' = [left |-> U, results |-> results, guarded |-> guarded, drop |-> drop]
      /\ pass' = [pass EXCEPT !.layer = @ \ U, !.previous = U,
                              !.mode = IF parallel THEN "parallel" ELSE @,
                              !.committed = @ \cup early]
      /\ dirty' = dirty \ early
      /\ store' = s /\ unflushed' = unwritten /\ phase' = "commit"
      /\ UNCHANGED <<extent, observed, cached, request, outcome>>
  BY DEF Evaluate
<1>2. /\ Types /\ PassOK /\ ScheduleOK /\ FrameOK /\ pass \in Passes
      /\ batch = NoBatch /\ batch.left = {}
      /\ store \in Stores /\ dirty \in SUBSET Formulas /\ extent = [v \in Formulas |-> {}]
      /\ U \subseteq Formulas /\ unflushed \in SUBSET Formulas
      /\ pass.previous \in SUBSET Formulas
  BY DEF IInv, FrameOK, Types, NoBatch, Passes
<1>3. /\ E \in Stores
      /\ \A c \in Cells : E[c] = IF c \in DOMAIN buffer THEN buffer[c] ELSE store[c]
  BY <1>2, EffectiveFacts
<1>4. s \in Stores /\ \A c \in Cells \ unwritten : E[c] = s[c]
  BY <1>2, <1>3
<1>5. Effective' = E
  <2>1. CASE s = store /\ buffer' = buffer
    BY <1>1, <2>1 DEF Effective
  <2>2. CASE s = E /\ buffer' = None
    <3>1. Overlaid(E, None) = E
      BY <1>3, NoneFacts, OverlaidType
    <3> QED BY <1>1, <2>2, <3>1 DEF Effective
  <2> QED BY <2>1, <2>2
<1>6. /\ DOMAIN buffer' \subseteq DOMAIN buffer /\ DOMAIN buffer' \subseteq unwritten
      /\ buffer' \in [DOMAIN buffer' -> Contents]
  BY <1>2, NoneFacts DEF Types
<1> HIDE DEF E
<1>7. ~guarded /\ early = {}
  <2>1. \A v \in U : results[v].out = Result(v, s)
    OBVIOUS
  <2>2. \A v \in U : DOMAIN results[v].out.spill = {} /\ extent[v] = {}
    BY <1>2, <1>4, <2>1 DEF ScalarWorkbook, ScalarResults
  <2> HIDE DEF results, drop
  <2> QED BY <2>2
<1>8. /\ batch'.left = U /\ batch'.guarded = FALSE /\ batch'.drop = drop
      /\ batch'.results = results /\ dirty' = dirty
  <2> HIDE DEF results, drop, guarded, early
  <2> QED BY <1>1, <1>7
<1>9. /\ pass' \in Passes /\ pass'.candidates = pass.candidates /\ pass'.edges = pass.edges
      /\ pass'.todo = pass.todo /\ pass'.layer = pass.layer \ U /\ pass'.previous = U
      /\ pass'.committed = pass.committed /\ pass'.dropped = pass.dropped
  <2> HIDE DEF early
  <2> QED BY <1>1, <1>2, <1>7 DEF Passes
<1>10. Pending' = Pending
  BY <1>2, <1>8, <1>9 DEF Pending
<1>11. Types' /\ FrameOK'
  <2>1. Types'
    BY <1>1, <1>2, <1>4, <1>6, <1>8, <1>9 DEF Types
  <2>2. BatchShape(batch')
    <3> HIDE DEF results, drop, guarded
    <3> QED BY <1>1 DEF BatchShape
  <2>3. FrameOK'
    BY <1>1, <1>2, <1>8, <2>2 DEF FrameOK
  <2> QED BY <2>1, <2>3
<1>12. PassOK'
  BY <1>1, <1>2, <1>6, <1>8, <1>9, <1>10 DEF PassOK, Pending
<1>13. \A v : Needs(v)' = Needs(v) /\ Hints(v)' = Hints(v)
  BY <1>1 DEF Needs, Hints
<1>14. ScheduleOK'
  <2>1. \A v \in Pending' : Needs(v)' \cap dirty' \subseteq pass'.candidates
    BY <1>2, <1>8, <1>9, <1>10, <1>13 DEF ScheduleOK
  <2>2. \A v \in pass'.todo : \A u \in Needs(v)' \cap pass'.candidates : <<u, v>> \in pass'.edges
    BY <1>2, <1>9, <1>13 DEF ScheduleOK
  <2>3. \A v \in pass'.layer \cup batch'.left :
          Needs(v)' \cap (Pending' \cup unflushed' \cup pass'.previous \cup dirty') = {}
    <3>1. \A v \in pass.layer :
            Needs(v) \cap (Pending \cup unflushed \cup pass.previous \cup dirty) = {}
      BY <1>2 DEF ScheduleOK
    <3>2. unflushed' \cup pass'.previous \subseteq Pending \cup unflushed \cup pass.previous
      BY <1>1, <1>9 DEF Pending
    <3> QED BY <1>8, <1>9, <1>10, <1>13, <3>1, <3>2
  <2>4. phase' \in {"walk", "commit"} =>
          /\ request'.goal = "all" => dirty' \subseteq pass'.candidates
          /\ request'.goal \in dirty' => request'.goal \in pass'.candidates
    BY <1>1, <1>2, <1>8, <1>9 DEF ScheduleOK
  <2> QED BY <2>1, <2>2, <2>3, <2>4 DEF ScheduleOK
<1>15. CleanOK'
  BY <1>5, <1>8, SameEffective DEF E
<1>16. BatchOK'
  <2>1. \A v \in U : Needs(v) \cap (unwritten \cup dirty) = {}
    BY <1>2 DEF ScheduleOK
  <2>2. ASSUME NEW v \in U \ drop
        PROVE  /\ results[v].out = Result(v, E) /\ results[v].reads = Reads(v, E)
               /\ Reads(v, E) \cap dirty = {}
    <3>1. v \in U /\ v \in Formulas /\ results[v].stale = {}
      BY <1>2
    <3>2. results[v].out = Result(v, s) /\ results[v].reads = Reads(v, s)
      BY <3>1
    <3>3. Reads(v, s) \subseteq Cells \ {v}
      BY <1>4, <3>1 DEF ScalarWorkbook, TypedReads
    <3>4. Reads(v, s) \cap (unwritten \cup dirty) = {}
      <4>1. CASE v \in Dynamic
        <5>1. DirtyReads(v, Reads(v, s), unwritten) = {}
          BY <3>1, <4>1
        <5>2. (Reads(v, s) \cap Formulas \cap (dirty \cup unwritten)) \ {v} = {}
          BY <1>2, <5>1, NoExtents
        <5> QED BY <1>2, <3>3, <5>2
      <4>2. CASE v \notin Dynamic
        <5>1. Reads(v, s) = Static(v)
          BY <3>1, <4>2, StaticReads
        <5>2. Reads(v, s) \cap Formulas \subseteq Needs(v)
          BY <3>3, <5>1 DEF Needs
        <5> QED BY <1>2, <2>1, <3>1, <5>2
      <4> QED BY <4>1, <4>2
    <3>5. \A c \in Reads(v, s) : E[c] = s[c]
      BY <1>4, <3>3, <3>4
    <3>6. Result(v, E) = Result(v, s) /\ Reads(v, E) = Reads(v, s)
      BY <1>3, <1>4, <3>1, <3>5, SameResult
    <3> QED BY <3>2, <3>4, <3>6
  <2>3. ASSUME NEW v \in U \cap drop \cap Dynamic
        PROVE  results[v].stale \subseteq Formulas \ (Hints(v) \cup {v})
    <3>1. results[v].stale = DirtyReads(v, Reads(v, s), unwritten)
      OBVIOUS
    <3>2. results[v].stale = (Reads(v, s) \cap Formulas \cap (dirty \cup unwritten)) \ {v}
      BY <1>2, <3>1, NoExtents
    <3>3. (Hints(v) \cap Formulas) \ {v} \subseteq Needs(v)
      BY DEF Needs
    <3> HIDE DEF results, drop
    <3> QED BY <2>1, <3>2, <3>3
  <2> HIDE DEF results, drop
  <2> QED BY <1>5, <1>8, <1>13, <2>2, <2>3 DEF BatchOK
<1>17. OriginOK'
  BY <1>1, <1>8, <1>9 DEF IInv, OriginOK, Origin
<1>18. ChildrenOK'
  <2> SUFFICES ASSUME NEW c \in Children PROVE s[c] = Empty
    BY <1>1 DEF ChildrenOK
  <2>1. c \in Cells \ unwritten /\ c \notin DOMAIN buffer /\ store[c] = Empty
    BY <1>2, CellsAssumption DEF IInv, ChildrenOK, Cells, Types
  <2> QED BY <1>3, <1>4, <2>1
<1>19. OutcomeOK'
  BY <1>1, <1>2, TargetsAssumption DEF FrameOK, OutcomeOK
<1> QED BY <1>11, <1>12, <1>14, <1>15, <1>16, <1>17, <1>18, <1>19 DEF IInv

\* One unit; a reader of a compressed range has the buffer written first.
LEMMA EvaluateUnitIInv ==
  ASSUME ScalarWorkbook, IInv, NEW U, EvaluateUnit(U)
  PROVE  IInv'
<1> DEFINE flush == U \cap Compressed # {}
           waiting == IF flush THEN None ELSE buffer
           s == IF flush THEN Overlaid(store, buffer) ELSE store
           unwritten == IF waiting = None THEN {} ELSE unflushed \cup pass.previous
<1>1. /\ phase = "walk" /\ U # {} /\ U \in SUBSET pass.layer /\ buffer' = waiting
      /\ Evaluate(U, s, unwritten, FALSE)
  BY DEF EvaluateUnit
<1>2. unwritten \in SUBSET (unflushed \cup pass.previous)
  OBVIOUS
<1>3. \/ s = store /\ buffer' = buffer /\ DOMAIN buffer \subseteq unwritten
      \/ s = Effective /\ buffer' = None
  <2>1. CASE flush
    BY <1>1, <2>1 DEF Effective
  <2>2. CASE ~flush
    <3>1. DOMAIN buffer \subseteq unflushed \cup pass.previous
      BY DEF IInv, PassOK
    <3> QED BY <1>1, <2>2, <3>1, NoneFacts
  <2> QED BY <2>1, <2>2
<1> HIDE DEF s, unwritten, waiting, flush
<1> QED BY <1>1, <1>2, <1>3, EvaluateIInv

\* A group of a layer, evaluated in parallel with nothing in the buffer.
LEMMA EvaluateGroupIInv ==
  ASSUME ScalarWorkbook, IInv, EvaluateGroup
  PROVE  IInv'
<1> DEFINE first == pass.layer \ Compressed
           U == IF first # {} THEN first ELSE pass.layer
<1>1. /\ phase = "walk" /\ pass.layer # {} /\ buffer' = None
      /\ Evaluate(U, Effective, {}, TRUE)
  BY DEF EvaluateGroup, Effective
<1>2. U \in SUBSET pass.layer /\ U # {} /\ {} \in SUBSET (unflushed \cup pass.previous)
  BY <1>1
<1> HIDE DEF U
<1> QED BY <1>1, <1>2, EvaluateIInv

\* Writing the buffer does not change the effective store.
LEMMA FlushSliceIInv ==
  ASSUME IInv, FlushSlice
  PROVE  IInv'
<1>1. /\ phase = "walk" /\ store' = Effective /\ buffer' = None /\ unflushed' = {}
      /\ pass' = [pass EXCEPT !.previous = {}]
      /\ UNCHANGED <<extent, dirty, observed, cached, phase, request, batch, outcome>>
  BY DEF FlushSlice, Effective
<1>2. /\ Types /\ PassOK /\ ScheduleOK /\ pass \in Passes /\ batch = NoBatch /\ batch.left = {}
      /\ outcome = "none"
  BY <1>1 DEF IInv, FrameOK, Types, NoBatch
<1>3. /\ Effective \in Stores
      /\ \A c \in Cells : Effective[c] = IF c \in DOMAIN buffer THEN buffer[c] ELSE store[c]
  BY <1>2, EffectiveFacts
<1>4. Effective' = Effective
  <2>1. Overlaid(Effective, None) = Effective
    BY <1>3, NoneFacts, OverlaidType
  <2> QED BY <1>1, <2>1 DEF Effective
<1>5. /\ pass' \in Passes /\ pass'.candidates = pass.candidates /\ pass'.edges = pass.edges
      /\ pass'.todo = pass.todo /\ pass'.layer = pass.layer /\ pass'.previous = {}
      /\ pass'.committed = pass.committed /\ pass'.dropped = pass.dropped
  BY <1>1, <1>2 DEF Passes
<1>6. Pending' = Pending /\ \A v : Needs(v)' = Needs(v) /\ Hints(v)' = Hints(v)
  BY <1>1, <1>5 DEF Pending, Needs, Hints
<1>7. Types' /\ FrameOK'
  BY <1>1, <1>2, <1>3, <1>5, NoneFacts DEF IInv, Types, FrameOK
<1>8. PassOK'
  BY <1>1, <1>2, <1>5, <1>6, NoneFacts DEF PassOK
<1>9. ScheduleOK'
  BY <1>1, <1>2, <1>5, <1>6 DEF ScheduleOK
<1>10. CleanOK'
  BY <1>1, <1>4, SameEffective
<1>11. BatchOK'
  BY <1>1, <1>2 DEF BatchOK
<1>12. OriginOK'
  BY <1>1, <1>5 DEF IInv, OriginOK, Origin
<1>13. ChildrenOK'
  <2> SUFFICES ASSUME NEW c \in Children PROVE Effective[c] = Empty
    BY <1>1 DEF ChildrenOK
  <2>1. c \in Cells /\ c \notin DOMAIN buffer /\ store[c] = Empty
    BY <1>2, CellsAssumption DEF IInv, ChildrenOK, Cells, Types
  <2> QED BY <1>3, <2>1
<1>14. OutcomeOK'
  BY <1>1, <1>2, TargetsAssumption DEF OutcomeOK
<1> QED BY <1>7, <1>8, <1>9, <1>10, <1>11, <1>12, <1>13, <1>14 DEF IInv

\* A member is done: it leaves the batch, and the buffer is written when the
\* layer or the parallel group is over.
LEMMA DoneFacts ==
  ASSUME IInv, phase = "commit", NEW v \in batch.left, NEW s \in Stores, NEW w,
         w \in [DOMAIN w -> Contents], Done(v, s, w)
  PROVE  /\ batch'.left = batch.left \ {v} /\ batch'.guarded = FALSE
         /\ batch'.left # {} => /\ batch'.results = batch.results /\ batch'.drop = batch.drop
                                /\ BatchShape(batch')
         /\ phase' = "walk" => batch' = NoBatch
         /\ phase' = "commit" => batch'.left # {}
         /\ phase' \in {"walk", "commit"}
         /\ store' \in Stores /\ buffer' \in [DOMAIN buffer' -> Contents]
         /\ Effective' = Overlaid(s, w)
         /\ \A c \in Cells \ DOMAIN w : store'[c] = s[c]
         /\ DOMAIN buffer' \subseteq DOMAIN w /\ unflushed' \subseteq unflushed
         /\ \/ buffer' = None /\ unflushed' = {}
            \/ buffer' = w /\ unflushed' = unflushed
         /\ pass.layer = {} /\ batch'.left = {} => buffer' = None /\ unflushed' = {}
<1> DEFINE ends == batch.left = {v}
           flush == ends /\ (pass.mode = "parallel" \/ pass.layer = {})
<1>1. /\ store' = (IF flush THEN Overlaid(s, w) ELSE s)
      /\ buffer' = (IF flush THEN None ELSE w)
      /\ unflushed' = (IF flush THEN {} ELSE unflushed)
      /\ batch' = (IF ends THEN NoBatch ELSE [batch EXCEPT !.left = @ \ {v}])
      /\ phase' = (IF ends THEN "walk" ELSE "commit")
  BY DEF Done
<1>2. /\ Overlaid(s, w) \in Stores
      /\ \A c \in Cells : Overlaid(s, w)[c] = IF c \in DOMAIN w THEN w[c] ELSE s[c]
  BY OverlaidType
<1>3. Overlaid(Overlaid(s, w), None) = Overlaid(s, w)
  BY <1>2, NoneFacts, OverlaidType
<1>4. Effective' = Overlaid(s, w)
  BY <1>1, <1>3 DEF Effective
<1>5. NoBatch.left = {} /\ NoBatch.guarded = FALSE
  BY DEF NoBatch
<1>6. BatchShape(batch) /\ batch.guarded = FALSE
  BY DEF IInv, Types, FrameOK
<1>7. /\ batch'.left = batch.left \ {v} /\ batch'.guarded = FALSE
      /\ ~ends => /\ batch'.results = batch.results /\ batch'.drop = batch.drop
                  /\ BatchShape(batch')
  <2> DEFINE l == batch.left
             r == batch.results
             g == batch.guarded
             p == batch.drop
  <2>1. batch = [left |-> l, results |-> r, guarded |-> g, drop |-> p]
    BY <1>6 DEF BatchShape
  <2> HIDE DEF l, r, g, p
  <2>2. [batch EXCEPT !.left = @ \ {v}]
          = [left |-> l \ {v}, results |-> r, guarded |-> g, drop |-> p]
    BY <2>1
  <2>3. g = FALSE
    BY <1>6 DEF g
  <2>4. CASE ends
    BY <1>1, <1>5, <2>4
  <2>5. CASE ~ends
    <3>1. batch' = [left |-> l \ {v}, results |-> r, guarded |-> g, drop |-> p]
      BY <1>1, <2>2, <2>5
    <3>2. /\ batch'.left = l \ {v} /\ batch'.guarded = g /\ batch'.results = r
          /\ batch'.drop = p /\ BatchShape(batch')
      BY <3>1 DEF BatchShape
    <3> QED BY <2>3, <3>2 DEF l, r, p
  <2> QED BY <2>4, <2>5
<1>8. ends <=> batch'.left = {}
  BY <1>7
<1> HIDE DEF flush
<1> QED BY <1>1, <1>2, <1>4, <1>7, <1>8, NoneFacts DEF flush

\* A dropped reader stays dirty; what it read becomes a hint.
LEMMA DropStaleIInv ==
  ASSUME IInv, NEW v \in Formulas, DropStale(v)
  PROVE  IInv'
<1>1. /\ phase = "commit" /\ v \in batch.left /\ v \in batch.drop
      /\ pass' = [pass EXCEPT !.dropped = @ \cup {v}]
      /\ request' = (IF v \in Dynamic
                     THEN [request EXCEPT !.hints[v] = @ \cup batch.results[v].stale]
                     ELSE request)
      /\ Done(v, store, buffer)
      /\ UNCHANGED <<extent, dirty, observed, cached, outcome>>
  BY DEF DropStale, MayCommit
<1>2. /\ Types /\ FrameOK /\ PassOK /\ ScheduleOK /\ BatchOK /\ pass \in Passes
      /\ store \in Stores /\ buffer \in [DOMAIN buffer -> Contents] /\ request \in Requests
      /\ outcome = "none" /\ request.goal # "none" /\ dirty \in SUBSET Formulas
  BY <1>1 DEF IInv, FrameOK, Types
<1>3. /\ batch'.left = batch.left \ {v} /\ batch'.guarded = FALSE
      /\ batch'.left # {} => /\ batch'.results = batch.results /\ batch'.drop = batch.drop
                             /\ BatchShape(batch')
      /\ phase' = "walk" => batch' = NoBatch
      /\ phase' = "commit" => batch'.left # {}
      /\ phase' \in {"walk", "commit"}
      /\ store' \in Stores /\ buffer' \in [DOMAIN buffer' -> Contents]
      /\ Effective' = Effective
      /\ \A c \in Cells \ DOMAIN buffer : store'[c] = store[c]
      /\ DOMAIN buffer' \subseteq DOMAIN buffer /\ unflushed' \subseteq unflushed
      /\ \/ buffer' = None /\ unflushed' = {}
         \/ buffer' = buffer /\ unflushed' = unflushed
      /\ pass.layer = {} /\ batch'.left = {} => buffer' = None /\ unflushed' = {}
  BY <1>1, <1>2, DoneFacts DEF Effective
<1>4. /\ pass' \in Passes /\ pass'.candidates = pass.candidates /\ pass'.edges = pass.edges
      /\ pass'.todo = pass.todo /\ pass'.layer = pass.layer /\ pass'.previous = pass.previous
      /\ pass'.committed = pass.committed /\ pass'.dropped = pass.dropped \cup {v}
  BY <1>1, <1>2 DEF Passes
<1>5. /\ request' \in Requests /\ request'.goal = request.goal
      /\ request'.replans = request.replans
      /\ \A u \in Dynamic \ {v} : request'.hints[u] = request.hints[u]
  <2>1. v \in Dynamic => batch.results[v].stale \subseteq Formulas
    BY <1>1, <1>2 DEF BatchOK
  <2> QED BY <1>1, <1>2, <2>1 DEF Requests
<1>6. Pending' = Pending \ {v} /\ v \in Pending
  BY <1>1, <1>2, <1>3, <1>4 DEF Pending, PassOK
<1>7. \A u : u # v => Needs(u)' = Needs(u) /\ Hints(u)' = Hints(u)
  BY <1>5 DEF Needs, Hints
<1>8. Types'
  BY <1>1, <1>2, <1>3, <1>4, <1>5 DEF Types
<1>9. FrameOK'
  BY <1>1, <1>2, <1>3, <1>5 DEF FrameOK
<1>10. PassOK'
  <2>1. v \notin pass.todo /\ v \notin pass.layer
    BY <1>1, <1>2 DEF PassOK
  <2>2. DOMAIN buffer' \subseteq unflushed' \cup pass'.previous
    BY <1>2, <1>3, <1>4, NoneFacts DEF PassOK
  <2>3. pass'.candidates = Pending' \cup pass'.dropped \cup pass'.committed
    BY <1>2, <1>4, <1>6 DEF PassOK
  <2> QED BY <1>1, <1>2, <1>3, <1>4, <1>6, <2>2, <2>3 DEF PassOK
<1>11. ScheduleOK'
  <2>1. \A u \in Pending' : Needs(u)' \cap dirty' \subseteq pass'.candidates
    BY <1>1, <1>2, <1>4, <1>6, <1>7 DEF ScheduleOK
  <2>2. \A u \in pass'.todo : \A t \in Needs(u)' \cap pass'.candidates : <<t, u>> \in pass'.edges
    <3>1. v \notin pass.todo
      BY <1>1, <1>2 DEF PassOK
    <3> QED BY <1>2, <1>4, <1>7, <3>1 DEF ScheduleOK
  <2>3. \A u \in pass'.layer \cup batch'.left :
          Needs(u)' \cap (Pending' \cup unflushed' \cup pass'.previous \cup dirty') = {}
    <3> TAKE u \in pass'.layer \cup batch'.left
    <3>1. u \in pass.layer \cup batch.left /\ u # v
      BY <1>1, <1>2, <1>3, <1>4 DEF PassOK
    <3>2. Needs(u) \cap (Pending \cup unflushed \cup pass.previous \cup dirty) = {}
      BY <1>2, <3>1 DEF ScheduleOK
    <3> QED BY <1>1, <1>3, <1>4, <1>6, <1>7, <3>1, <3>2
  <2>4. phase' \in {"walk", "commit"} =>
          /\ request'.goal = "all" => dirty' \subseteq pass'.candidates
          /\ request'.goal \in dirty' => request'.goal \in pass'.candidates
    BY <1>1, <1>2, <1>4, <1>5 DEF ScheduleOK
  <2> QED BY <2>1, <2>2, <2>3, <2>4 DEF ScheduleOK
<1>12. CleanOK'
  BY <1>1, <1>3, SameEffective
<1>13. BatchOK'
  <2>1. CASE batch'.left = {}
    BY <2>1 DEF BatchOK
  <2>2. CASE batch'.left # {}
    <3>1. /\ batch'.left = batch.left \ {v} /\ batch'.results = batch.results
          /\ batch'.drop = batch.drop /\ Effective' = Effective /\ dirty' = dirty
      BY <1>1, <1>3, <2>2
    <3> QED BY <1>2, <1>7, <3>1 DEF BatchOK
  <2> QED BY <2>1, <2>2
<1>14. OriginOK'
  BY <1>1, <1>4, <1>5 DEF IInv, OriginOK, Origin
<1>15. ChildrenOK'
  <2> SUFFICES ASSUME NEW c \in Children PROVE store'[c] = Empty
    BY DEF ChildrenOK
  <2>1. c \in Cells \ DOMAIN buffer /\ store[c] = Empty
    BY <1>2, CellsAssumption DEF IInv, ChildrenOK, Cells, Types
  <2> QED BY <1>3, <2>1
<1>16. OutcomeOK'
  BY <1>1, <1>2, TargetsAssumption DEF OutcomeOK
<1> QED BY <1>8, <1>9, <1>10, <1>11, <1>12, <1>13, <1>14, <1>15, <1>16 DEF IInv

\* What a commit of a scalar does: v leaves the dirty set, and its value is
\* written or buffered.
LEMMA CommitFacts ==
  ASSUME ScalarWorkbook, IInv, NEW v \in Formulas, Commit(v)
  PROVE  /\ phase = "commit" /\ v \in batch.left /\ v \notin batch.drop
         /\ extent' = extent /\ dirty' = dirty \ {v}
         /\ pass' = [pass EXCEPT !.committed = @ \cup {v}]
         /\ UNCHANGED <<request, outcome>>
         /\ batch.results[v].out = Result(v, Effective)
         /\ batch.results[v].out.value \in Contents
         /\ \/ Done(v, [store EXCEPT ![v] = batch.results[v].out.value], buffer)
            \/ Done(v, store, With(buffer, v, batch.results[v].out.value))
         /\ DOMAIN observed' \subseteq Dynamic
         /\ \A u \in DOMAIN observed' : observed'[u] \subseteq Cells
         /\ cached' \subseteq SUBSET Formulas
<1> DEFINE out == batch.results[v].out
<1>1. phase = "commit" /\ v \in batch.left /\ v \notin batch.drop
  BY DEF Commit, MayCommit
<1>2. Types /\ extent = [u \in Formulas |-> {}] /\ batch.guarded = FALSE
  BY DEF IInv, Types
<1>3. Effective \in Stores
  BY <1>2, EffectiveFacts
<1>4. out = Result(v, Effective) /\ batch.results[v].reads = Reads(v, Effective)
  BY <1>1 DEF IInv, BatchOK
<1>5. DOMAIN out.spill = {} /\ out.value \in Contents
  BY <1>3, <1>4 DEF ScalarWorkbook, ScalarResults
<1>6. extent[v] = {}
  BY <1>2
<1> HIDE DEF out
<1>7. extent' = extent
  <2>1. extent' = [extent EXCEPT ![v] = DOMAIN out.spill]
    BY DEF Commit, out
  <2> QED BY <1>2, <1>5, <1>6, <2>1
<1>8. dirty' = dirty \ {v}
  <2>1. dirty' = (dirty \ {v}) \cup Dependents(extent[v] \cup DOMAIN out.spill) \cup KeptDirty(v)
    BY DEF Commit, out
  <2>2. KeptDirty(v) = {}
    BY <1>2 DEF KeptDirty
  <2>3. Dependents({}) = {}
    BY DEF Dependents
  <2>4. extent[v] \cup DOMAIN out.spill = {}
    BY <1>5, <1>6
  <2> QED BY <2>1, <2>2, <2>3, <2>4
<1>9. \/ Done(v, [store EXCEPT ![v] = out.value], buffer)
      \/ Done(v, store, With(buffer, v, out.value))
  BY <1>5, <1>6 DEF Commit, out
<1>10. /\ pass' = [pass EXCEPT !.committed = @ \cup {v}] /\ UNCHANGED <<request, outcome>>
       /\ Observe(v)
  BY DEF Commit
<1>11. Reads(v, Effective) \subseteq Cells
  BY <1>3 DEF ScalarWorkbook, TypedReads
<1>12. /\ DOMAIN observed' \subseteq Dynamic
       /\ \A u \in DOMAIN observed' : observed'[u] \subseteq Cells
       /\ cached' \subseteq SUBSET Formulas
  BY <1>2, <1>4, <1>10, <1>11 DEF Observe, With, Types
<1> QED BY <1>1, <1>4, <1>5, <1>7, <1>8, <1>9, <1>10, <1>12 DEF out

\* A commit makes v clean.  A clean formula that reads v was clean while v was
\* dirty only if v already had this value.
LEMMA CommitIInv ==
  ASSUME ScalarWorkbook, IInv, NEW v \in Formulas, Commit(v)
  PROVE  IInv'
<1> DEFINE x == batch.results[v].out.value
           E == Effective
           F == Effective'
<1>1. /\ phase = "commit" /\ v \in batch.left /\ v \notin batch.drop
      /\ extent' = extent /\ dirty' = dirty \ {v}
      /\ pass' = [pass EXCEPT !.committed = @ \cup {v}]
      /\ UNCHANGED <<request, outcome>>
      /\ batch.results[v].out = Result(v, E) /\ x \in Contents
      /\ \/ Done(v, [store EXCEPT ![v] = x], buffer)
         \/ Done(v, store, With(buffer, v, x))
      /\ DOMAIN observed' \subseteq Dynamic
      /\ \A u \in DOMAIN observed' : observed'[u] \subseteq Cells
      /\ cached' \subseteq SUBSET Formulas
  BY CommitFacts
<1>2. /\ Types /\ FrameOK /\ PassOK /\ ScheduleOK /\ BatchOK /\ pass \in Passes
      /\ store \in Stores /\ buffer \in [DOMAIN buffer -> Contents]
      /\ outcome = "none" /\ request.goal # "none" /\ dirty \in SUBSET Formulas
      /\ DOMAIN buffer \subseteq Formulas
  BY <1>1 DEF IInv, FrameOK, Types
<1>3. /\ E \in Stores /\ v \in Cells
      /\ \A c \in Cells : E[c] = IF c \in DOMAIN buffer THEN buffer[c] ELSE store[c]
  BY <1>2, EffectiveFacts DEF Cells
<1>4. /\ v \notin DOMAIN buffer /\ v \notin pass.todo /\ v \notin pass.layer
      /\ v \in pass.previous /\ v \in pass.candidates
  BY <1>1, <1>2 DEF PassOK, Pending
<1> HIDE DEF x, E, F
<1>5. PICK s, w :
        /\ s \in Stores /\ w \in [DOMAIN w -> Contents] /\ Done(v, s, w)
        /\ DOMAIN w \subseteq DOMAIN buffer \cup {v}
        /\ \A c \in Cells : Overlaid(s, w)[c] = IF c = v THEN x ELSE E[c]
        /\ \A c \in Cells \ {v} : s[c] = store[c]
  <2>1. CASE Done(v, [store EXCEPT ![v] = x], buffer)
    <3> DEFINE s == [store EXCEPT ![v] = x]
    <3>1. s \in Stores /\ \A c \in Cells : s[c] = IF c = v THEN x ELSE store[c]
      BY <1>1, <1>2, <1>3 DEF Stores
    <3> HIDE DEF s
    <3>2. \A c \in Cells : Overlaid(s, buffer)[c] = IF c = v THEN x ELSE E[c]
      BY <1>2, <1>3, <1>4, <3>1, OverlaidType
    <3> QED BY <1>2, <2>1, <3>1, <3>2 DEF s
  <2>2. CASE Done(v, store, With(buffer, v, x))
    <3> DEFINE w == With(buffer, v, x)
    <3>1. /\ DOMAIN w = DOMAIN buffer \cup {v} /\ w \in [DOMAIN w -> Contents]
          /\ \A c \in DOMAIN w : w[c] = IF c = v THEN x ELSE buffer[c]
      BY <1>1, <1>2 DEF With
    <3> HIDE DEF w
    <3>2. \A c \in Cells : Overlaid(store, w)[c] = IF c = v THEN x ELSE E[c]
      BY <1>2, <1>3, <3>1, OverlaidType
    <3> QED BY <1>2, <2>2, <3>1, <3>2 DEF w
  <2> QED BY <1>1, <2>1, <2>2
<1>6. /\ batch'.left = batch.left \ {v} /\ batch'.guarded = FALSE
      /\ batch'.left # {} => /\ batch'.results = batch.results /\ batch'.drop = batch.drop
                             /\ BatchShape(batch')
      /\ phase' = "walk" => batch' = NoBatch
      /\ phase' = "commit" => batch'.left # {}
      /\ phase' \in {"walk", "commit"}
      /\ store' \in Stores /\ buffer' \in [DOMAIN buffer' -> Contents]
      /\ F = Overlaid(s, w)
      /\ \A c \in Cells \ DOMAIN w : store'[c] = s[c]
      /\ DOMAIN buffer' \subseteq DOMAIN w /\ unflushed' \subseteq unflushed
      /\ \/ buffer' = None /\ unflushed' = {}
         \/ buffer' = w /\ unflushed' = unflushed
      /\ pass.layer = {} /\ batch'.left = {} => buffer' = None /\ unflushed' = {}
  BY <1>1, <1>5, DoneFacts DEF F
<1>7. F \in Stores /\ \A c \in Cells : F[c] = IF c = v THEN x ELSE E[c]
  BY <1>5, <1>6, OverlaidType
<1>8. /\ pass' \in Passes /\ pass'.candidates = pass.candidates /\ pass'.edges = pass.edges
      /\ pass'.todo = pass.todo /\ pass'.layer = pass.layer /\ pass'.previous = pass.previous
      /\ pass'.committed = pass.committed \cup {v} /\ pass'.dropped = pass.dropped
  BY <1>1, <1>2 DEF Passes
<1>9. Pending' = Pending \ {v} /\ v \in Pending
  BY <1>1, <1>2, <1>4, <1>6, <1>8 DEF Pending
<1>10. \A u : Needs(u)' = Needs(u) /\ Hints(u)' = Hints(u)
  BY <1>1 DEF Needs, Hints
<1>11. Types'
  BY <1>1, <1>2, <1>4, <1>5, <1>6, <1>8 DEF Types
<1>12. FrameOK'
  BY <1>1, <1>2, <1>6 DEF FrameOK
<1>13. PassOK'
  <2>1. DOMAIN buffer' \subseteq unflushed' \cup pass'.previous
    BY <1>2, <1>4, <1>5, <1>6, <1>8, NoneFacts DEF PassOK
  <2>2. DOMAIN buffer' \subseteq pass'.committed
    BY <1>2, <1>5, <1>6, <1>8 DEF PassOK
  <2>3. pass'.candidates = Pending' \cup pass'.dropped \cup pass'.committed
    BY <1>2, <1>8, <1>9 DEF PassOK
  <2>4. pass'.committed \cap (Pending' \cup dirty') = {}
    BY <1>1, <1>2, <1>8, <1>9 DEF PassOK
  <2> QED BY <1>1, <1>2, <1>6, <1>8, <2>1, <2>2, <2>3, <2>4 DEF PassOK
<1>14. ScheduleOK'
  <2>1. \A u \in Pending' : Needs(u)' \cap dirty' \subseteq pass'.candidates
    BY <1>1, <1>2, <1>8, <1>9, <1>10 DEF ScheduleOK
  <2>2. \A u \in pass'.todo : \A t \in Needs(u)' \cap pass'.candidates : <<t, u>> \in pass'.edges
    BY <1>2, <1>8, <1>10 DEF ScheduleOK
  <2>3. \A u \in pass'.layer \cup batch'.left :
          Needs(u)' \cap (Pending' \cup unflushed' \cup pass'.previous \cup dirty') = {}
    <3> TAKE u \in pass'.layer \cup batch'.left
    <3>1. Needs(u) \cap (Pending \cup unflushed \cup pass.previous \cup dirty) = {}
      BY <1>2, <1>6, <1>8 DEF ScheduleOK
    <3> QED BY <1>1, <1>6, <1>8, <1>9, <1>10, <3>1
  <2>4. phase' \in {"walk", "commit"} =>
          /\ request'.goal = "all" => dirty' \subseteq pass'.candidates
          /\ request'.goal \in dirty' => request'.goal \in pass'.candidates
    BY <1>1, <1>2, <1>8 DEF ScheduleOK
  <2> QED BY <2>1, <2>2, <2>3, <2>4 DEF ScheduleOK
<1>15. /\ Reads(v, E) \cap dirty = {} /\ x = Result(v, E).value
       /\ v \notin Reads(v, E) /\ Reads(v, E) \subseteq Cells
  BY <1>1, <1>2, <1>3 DEF BatchOK, ScalarWorkbook, TypedReads, x, E
<1>16. \A u \in Formulas \ dirty : E[u] = Result(u, E).value /\ Reads(u, E) \cap dirty = {}
  BY DEF IInv, CleanOK, E
\* A formula that reads nothing dirty computes after the commit what it
\* computed before.
<1>17. ASSUME NEW u \in Formulas, Reads(u, E) \cap dirty = {}
       PROVE  Result(u, F) = Result(u, E) /\ Reads(u, F) = Reads(u, E)
  <2>1. Reads(u, E) \subseteq Cells
    BY <1>3 DEF ScalarWorkbook, TypedReads
  <2>2. \A c \in Reads(u, E) : F[c] = E[c]
    <3> TAKE c \in Reads(u, E)
    <3>1. CASE c # v
      BY <1>7, <2>1, <3>1
    <3>2. CASE c = v
      <4>1. v \in Formulas \ dirty
        BY <1>17, <3>2
      <4> QED BY <1>7, <1>3, <1>15, <1>16, <3>2, <4>1
    <3> QED BY <3>1, <3>2
  <2> QED BY <1>3, <1>7, <2>2, SameResult
<1>18. CleanOK'
  <2> SUFFICES ASSUME NEW u \in Formulas \ dirty'
               PROVE  F[u] = Result(u, F).value /\ Reads(u, F) \cap dirty' = {}
    BY DEF CleanOK, F
  <2>1. Reads(u, E) \cap dirty = {}
    BY <1>1, <1>15, <1>16
  <2>2. Result(u, F) = Result(u, E) /\ Reads(u, F) = Reads(u, E)
    BY <1>17, <2>1
  <2>3. F[u] = Result(u, E).value
    <3>1. u \in Cells
      BY DEF Cells
    <3>2. CASE u = v
      BY <1>7, <1>15, <3>1, <3>2
    <3>3. CASE u # v
      BY <1>1, <1>7, <1>16, <3>1, <3>3
    <3> QED BY <3>2, <3>3
  <2> QED BY <1>1, <2>1, <2>2, <2>3
<1>19. BatchOK'
  <2>1. CASE batch'.left = {}
    BY <2>1 DEF BatchOK
  <2>2. CASE batch'.left # {}
    <3>1. /\ batch'.left = batch.left \ {v} /\ batch'.results = batch.results
          /\ batch'.drop = batch.drop
      BY <1>6, <2>2
    <3>2. ASSUME NEW u \in batch.left \ batch.drop
          PROVE  /\ batch.results[u].out = Result(u, F)
                 /\ batch.results[u].reads = Reads(u, F)
                 /\ Reads(u, F) \cap dirty' = {}
      <4>1. /\ batch.results[u].out = Result(u, E)
            /\ batch.results[u].reads = Reads(u, E)
            /\ Reads(u, E) \cap dirty = {} /\ u \in Formulas
        BY <1>2 DEF BatchOK, E, Types
      <4> QED BY <1>1, <1>17, <4>1
    <3>3. \A u \in batch.left \cap batch.drop \cap Dynamic :
            batch.results[u].stale \subseteq Formulas \ (Hints(u) \cup {u})
      BY <1>2 DEF BatchOK
    <3> QED BY <1>10, <3>1, <3>2, <3>3 DEF BatchOK, F
  <2> QED BY <2>1, <2>2
<1>20. OriginOK'
  <2> SUFFICES ASSUME request.replans = 0
               PROVE  /\ Volatile \cup pass'.candidates \subseteq Origin'
                      /\ \A u \in Formulas \ Origin' : Static(u) \cap Origin' = {}
    BY <1>1 DEF OriginOK
  <2>1. /\ Volatile \cup pass.candidates \subseteq Origin
        /\ \A u \in Formulas \ Origin : Static(u) \cap Origin = {}
    BY DEF IInv, OriginOK
  <2>2. Origin' = Origin
    BY <1>1, <1>4, <1>8, <2>1 DEF Origin
  <2> QED BY <1>8, <2>1, <2>2
<1>21. ChildrenOK'
  <2> SUFFICES ASSUME NEW c \in Children PROVE store'[c] = Empty
    BY DEF ChildrenOK
  <2>1. c \in Cells \ (DOMAIN buffer \cup {v}) /\ store[c] = Empty
    BY <1>2, CellsAssumption DEF IInv, ChildrenOK, Cells
  <2> QED BY <1>5, <1>6, <2>1
<1>22. OutcomeOK'
  BY <1>1, <1>2, TargetsAssumption DEF OutcomeOK
<1> QED BY <1>11, <1>12, <1>13, <1>14, <1>18, <1>19, <1>20, <1>21, <1>22 DEF IInv

\* A walk that is over has reached, dropped or committed every candidate, and
\* nothing waits in the buffer: the flags it leaves are the dirty ones.
LEMMA PassOverFacts ==
  ASSUME IInv, PassOver
  PROVE  /\ phase = "walk" /\ batch.left = {} /\ batch = NoBatch /\ pass.layer = {}
         /\ buffer = None /\ unflushed = {} /\ LeftDirty = dirty
         /\ pass.candidates = pass.todo \cup pass.dropped \cup pass.committed
         /\ request.goal \in {"all"} \cup Targets
         /\ request.goal = "all" => dirty \subseteq pass.candidates
         /\ request.goal \in dirty => request.goal \in pass.candidates
<1>1. phase = "walk" /\ pass.layer = {} /\ batch = NoBatch /\ batch.left = {}
  BY DEF PassOver, IInv, FrameOK, NoBatch
<1>2. /\ buffer = None /\ unflushed = {}
      /\ pass.candidates = pass.todo \cup pass.dropped \cup pass.committed
      /\ pass.committed \cap dirty = {}
  BY <1>1 DEF IInv, PassOK, Pending
<1>3. Types /\ request \in Requests /\ request.goal # "none"
  BY <1>1 DEF IInv, FrameOK, Types
<1>4. Redirtied = {}
  BY <1>2, <1>3, NoExtents
<1>5. Dependents({}) = {}
  BY DEF Dependents
<1>6. LeftDirty = dirty
  BY <1>2, <1>4, <1>5 DEF LeftDirty
<1>7. /\ request.goal = "all" => dirty \subseteq pass.candidates
      /\ request.goal \in dirty => request.goal \in pass.candidates
  BY <1>1 DEF IInv, ScheduleOK
<1>8. request.goal \in {"all"} \cup Targets
  BY <1>3 DEF Requests
<1> QED BY <1>1, <1>2, <1>6, <1>7, <1>8

\* Another pass.
LEMMA ReplanIInv ==
  ASSUME IInv, Replan, Converges'
  PROVE  IInv'
<1>1. PassOver /\ UNCHANGED <<store, extent, observed, cached>>
  BY DEF Replan
<1>2. /\ phase = "walk" /\ batch.left = {} /\ batch = NoBatch /\ buffer = None
      /\ unflushed = {} /\ LeftDirty = dirty
  BY <1>1, PassOverFacts
<1>3. /\ dirty' = dirty /\ phase' = "plan" /\ request.replans < MaxReplan
      /\ request' = [request EXCEPT !.replans = @ + 1]
      /\ pass' = NoPass /\ UNCHANGED <<batch, buffer, unflushed, outcome>>
  <2>1. request.replans < MaxReplan
    BY DEF Replan, End, Converges
  <2> QED BY <1>2, <2>1 DEF Replan
<1>4. Types /\ request \in Requests /\ outcome = "none" /\ request.goal # "none"
  BY <1>2 DEF IInv, FrameOK, Types
<1>5. /\ request' \in Requests /\ request'.goal = request.goal
      /\ request'.replans = request.replans + 1 /\ request'.hints = request.hints
      /\ request'.replans # 0
  BY <1>3, <1>4, ReplanAssumption DEF Requests
<1>6. /\ NoPass \in Passes /\ NoPass.candidates = {} /\ NoPass.todo = {} /\ NoPass.layer = {}
      /\ NoPass.previous = {} /\ NoPass.committed = {} /\ NoPass.dropped = {}
  BY DEF NoPass, Passes
<1>7. Types'
  BY <1>1, <1>3, <1>4, <1>5, <1>6 DEF Types
<1>8. FrameOK'
  BY <1>2, <1>3, <1>4, <1>5 DEF FrameOK
<1>9. PassOK' /\ ScheduleOK' /\ BatchOK'
  BY <1>2, <1>3, <1>6, NoneFacts DEF PassOK, ScheduleOK, BatchOK, Pending
<1>10. CleanOK'
  BY <1>1, <1>3, SameEffective DEF Effective
<1>11. OriginOK'
  BY <1>5 DEF OriginOK
<1>12. OutcomeOK' /\ ChildrenOK'
  BY <1>1, <1>3, <1>4, TargetsAssumption DEF IInv, OutcomeOK, ChildrenOK
<1> QED BY <1>7, <1>8, <1>9, <1>10, <1>11, <1>12 DEF IInv

\* The last pass.
LEMMA FinishIInv ==
  ASSUME ScalarWorkbook, IInv, Finish
  PROVE  IInv'
<1>1. /\ PassOver /\ ~MustReplan /\ End(Settled(LeftDirty), request.goal)
      /\ UNCHANGED <<store, extent, observed, cached>>
  BY DEF Finish
<1>2. /\ buffer = None /\ LeftDirty = dirty /\ request.goal \in {"all"} \cup Targets
      /\ request.goal = "all" => dirty \subseteq pass.candidates
      /\ request.goal \in dirty => request.goal \in pass.candidates
  BY <1>1, PassOverFacts
<1>3. request.goal = "all" => dirty = {}
  BY <1>1, <1>2 DEF MustReplan
<1>4. request.goal \in Targets => request.goal \notin dirty
  BY <1>1, <1>2, TargetsAssumption DEF MustReplan
<1> QED BY <1>1, <1>2, <1>3, <1>4, SettledIInv

-----------------------------------------------------------------------------
(* The invariant *)

\* A workbook starts with every formula dirty.
LEMMA InitIInv == Init => IInv
<1> SUFFICES ASSUME Init PROVE IInv
  OBVIOUS
<1> DEFINE blank == [c \in Cells |-> Empty]
<1>1. /\ extent = [v \in Formulas |-> {}] /\ dirty = Formulas /\ observed = None
      /\ cached = {} /\ phase = "idle" /\ request = NoRequest /\ pass = NoPass
      /\ batch = NoBatch /\ buffer = None /\ unflushed = {} /\ outcome = "none"
  BY DEF Init
<1>2. PICK i \in [Inputs -> Values] : store = Overlaid(blank, i)
  BY DEF Init
<1>3. blank \in Stores /\ i \in [DOMAIN i -> Contents] /\ DOMAIN i = Inputs
  BY DEF Stores, Contents
<1>4. /\ store \in Stores
      /\ \A c \in Cells : store[c] = IF c \in Inputs THEN i[c] ELSE blank[c]
  BY <1>2, <1>3, OverlaidType
<1>5. ChildrenOK
  BY <1>4, CellsAssumption DEF ChildrenOK, Cells
<1>6. NoRequest \in Requests /\ NoPass \in Passes
  BY ReplanAssumption DEF NoRequest, NoPass, Requests, Passes
<1>7. NoBatch.left = {} /\ NoBatch.guarded = FALSE /\ NoBatch.drop = {}
  BY DEF NoBatch
<1>8. Types
  BY <1>1, <1>4, <1>6, <1>7, NoneFacts DEF Types
<1>9. FrameOK
  BY <1>1 DEF FrameOK
<1>10. /\ NoPass.candidates = {} /\ NoPass.todo = {} /\ NoPass.layer = {}
       /\ NoPass.previous = {} /\ NoPass.committed = {} /\ NoPass.dropped = {}
  BY DEF NoPass
<1>11. PassOK /\ ScheduleOK /\ BatchOK
  BY <1>1, <1>7, <1>10, NoneFacts DEF PassOK, ScheduleOK, BatchOK, Pending
<1>12. CleanOK /\ OriginOK
  BY <1>1, <1>10, DynamicAssumption DEF CleanOK, OriginOK, Origin
<1>13. OutcomeOK
  BY <1>1, TargetsAssumption DEF OutcomeOK
<1> QED BY <1>5, <1>8, <1>9, <1>11, <1>12, <1>13 DEF IInv

\* No result spills, so no spill fails.
LEMMA NoSpillFails ==
  ASSUME ScalarWorkbook, IInv, NEW v \in Formulas
  PROVE  ~SpillCommitFails(v)
<1> SUFFICES ASSUME SpillCommitFails(v) PROVE FALSE
  OBVIOUS
<1>1. /\ v \in batch.left \ batch.drop /\ DOMAIN batch.results[v].out.spill # {}
  BY DEF SpillCommitFails, MayCommit
<1>2. batch.results[v].out = Result(v, Effective) /\ Effective \in Stores
  BY <1>1, EffectiveFacts DEF IInv, BatchOK
<1> QED BY <1>1, <1>2 DEF ScalarWorkbook, ScalarResults

\* Every step preserves the invariant, unless it gives the request up.
LEMMA NextIInv ==
  ASSUME ScalarWorkbook, IInv, [Next]_vars, Converges'
  PROVE  IInv'
<1>1. CASE \E i \in Inputs, val \in Values : Edit(i, val)
  BY <1>1, EditIInv
<1>2. CASE \E goal \in {"all"} \cup Targets : Begin(goal)
  BY <1>2, BeginIInv
<1>3. CASE NoWork
  BY <1>3, NoWorkIInv
<1>4. CASE \E base \in {{}} \cup cached : Plan(base)
  BY <1>4, PlanIInv
<1>5. CASE \E mode \in {"direct", "buffered"} : NextLayer(mode)
  BY <1>5, NextLayerIInv
<1>6. CASE \E U \in {{v} : v \in Formulas} \cup Runs : EvaluateUnit(U)
  BY <1>6, EvaluateUnitIInv
<1>7. CASE EvaluateGroup
  BY <1>7, EvaluateGroupIInv
<1>8. CASE FlushSlice
  BY <1>8, FlushSliceIInv
<1>9. CASE \E v \in Formulas : DropStale(v) \/ Commit(v) \/ SpillCommitFails(v)
  BY <1>9, DropStaleIInv, CommitIInv, NoSpillFails
<1>10. CASE Replan
  BY <1>10, ReplanIInv
<1>11. CASE Finish
  BY <1>11, FinishIInv
<1>12. CASE \E flushed \in BOOLEAN : Abort(flushed)
  BY <1>12, AbortIInv
<1>13. CASE UNCHANGED vars
  BY <1>13 DEF vars, IInv, Types, FrameOK, PassOK, Pending, ScheduleOK, Needs, Hints, CleanOK,
               BatchOK, OriginOK, Origin, OutcomeOK, ChildrenOK, Effective
<1> QED BY <1>1, <1>2, <1>3, <1>4, <1>5, <1>6, <1>7, <1>8, <1>9, <1>10, <1>11, <1>12, <1>13
        DEF Next

\* The invariant holds for as long as no request is given up: a request that
\* is leaves volatile formulas clean, which no edit of what they read by
\* INDIRECT would flag.
THEOREM ScalarInvariant ==
  ASSUME ScalarWorkbook
  PROVE  Spec /\ []Converges => []IInv
<1>1. IInv /\ [Next]_vars /\ Converges' => IInv'
  BY NextIInv
<1> QED BY <1>1, InitIInv, PTL DEF Spec

-----------------------------------------------------------------------------
(* Convergence *)

\* A request has finitely many hints to gather; more hints are more pairs.
LEMMA PairsFacts ==
  ASSUME IsFiniteSet(Formulas)
  PROVE  /\ IsFiniteSet(Pairs) /\ Cardinality(Pairs) \in Nat
         /\ IsFiniteSet(ReaderPairs) /\ Cardinality(ReaderPairs) \in Nat
         /\ Cardinality(Pairs) <= Cardinality(ReaderPairs)
<1>1. IsFiniteSet(Dynamic)
  BY DynamicAssumption, FS_Subset
<1>2. IsFiniteSet(Dynamic \X Formulas)
  BY <1>1, FS_Product
<1>3. IsFiniteSet(ReaderPairs)
  BY <1>2, FS_Subset DEF ReaderPairs
<1>4. Pairs \in SUBSET ReaderPairs
  BY DEF Pairs
<1>5. IsFiniteSet(Pairs) /\ Cardinality(Pairs) <= Cardinality(ReaderPairs)
  BY <1>3, <1>4, FS_Subset
<1> QED BY <1>3, <1>5, FS_CardinalityType

\* A request begins without hints.
LEMMA HintsCleared ==
  ASSUME IsFiniteSet(Formulas), request'.replans = 0, pass'.dropped = {}, batch'.left = {}
  PROVE  HintsOK'
<1>1. IsFiniteSet(ReaderPairs) /\ Pairs' \in SUBSET ReaderPairs
  BY PairsFacts DEF Pairs
<1>2. 0 <= Cardinality(Pairs')
  BY <1>1, FS_Subset, FS_CardinalityType
<1> QED BY <1>2 DEF HintsOK, Paid

\* A step between two units keeps the hints.
LEMMA HintsKept ==
  ASSUME HintsOK, batch.left = {}, batch'.left = {}, UNCHANGED request,
         pass'.dropped \in {{}, pass.dropped}
  PROVE  HintsOK'
<1>1. Pairs' = Pairs
  BY DEF Pairs
<1>2. ~StaleMember
  BY DEF StaleMember
<1> QED BY <1>1, <1>2 DEF HintsOK, Paid

\* A member that is to be dropped comes with one whose read was stale.
LEMMA EvaluateHints ==
  ASSUME HintsOK, batch.left = {}, pass \in Passes,
         NEW U, NEW s, NEW unwritten, NEW parallel \in BOOLEAN,
         Evaluate(U, s, unwritten, parallel)
  PROVE  HintsOK'
<1> DEFINE result(v) == [out |-> Result(v, s), reads |-> Reads(v, s),
                         stale |-> IF v \in Dynamic THEN DirtyReads(v, Reads(v, s), unwritten)
                                   ELSE {}]
           results == [v \in U |-> result(v)]
           stale == {v \in U : results[v].stale # {}}
           drop == IF parallel /\ stale # {} THEN U ELSE stale
<1>1. /\ batch'.left = U /\ batch'.results = results /\ batch'.drop = drop
      /\ request' = request
  BY DEF Evaluate
<1>2. pass'.dropped = pass.dropped
  BY DEF Evaluate, Passes
<1>3. Pairs' = Pairs
  BY <1>1 DEF Pairs
<1>4. ~StaleMember
  BY DEF StaleMember
<1>5. U \cap drop # {} => StaleMember'
  <2> SUFFICES ASSUME U \cap drop # {} PROVE StaleMember'
    OBVIOUS
  <2>1. PICK v \in U : results[v].stale # {}
    OBVIOUS
  <2>2. v \in drop /\ v \in Dynamic
    BY <2>1
  <2> HIDE DEF results, drop
  <2> QED BY <1>1, <2>1, <2>2 DEF StaleMember
<1> HIDE DEF drop, results
<1> QED BY <1>1, <1>2, <1>3, <1>4, <1>5 DEF HintsOK, Paid

\* Dropping a reader of something dirty gives the request a hint it did not
\* have, since the schedule already obeys the hints it has.
LEMMA DropStaleHints ==
  ASSUME IsFiniteSet(Formulas), IInv, HintsOK, NEW v \in Formulas, DropStale(v)
  PROVE  HintsOK'
<1> DEFINE stale == batch.results[v].stale
<1>1. /\ phase = "commit" /\ v \in batch.left /\ v \in batch.drop
      /\ request' = (IF v \in Dynamic
                     THEN [request EXCEPT !.hints[v] = @ \cup stale]
                     ELSE request)
      /\ Done(v, store, buffer)
  BY DEF DropStale, MayCommit
<1>2. /\ BatchOK /\ store \in Stores /\ buffer \in [DOMAIN buffer -> Contents]
      /\ request \in Requests
  BY DEF IInv, Types
<1>3. /\ batch'.left = batch.left \ {v}
      /\ batch'.left # {} => batch'.results = batch.results /\ batch'.drop = batch.drop
  BY <1>1, <1>2, DoneFacts
<1>4. v \in Dynamic => stale \subseteq Formulas \ (request.hints[v] \cup {v})
  BY <1>1, <1>2 DEF BatchOK, Hints
<1> HIDE DEF stale
<1>5. /\ request'.replans = request.replans /\ request.replans \in Nat
      /\ \A u \in Dynamic : request'.hints[u]
                              = request.hints[u] \cup (IF u = v THEN stale ELSE {})
  BY <1>1, <1>2, ReplanAssumption DEF Requests
<1>6. Pairs \in SUBSET Pairs'
  BY <1>5 DEF Pairs, ReaderPairs
<1>7. IsFiniteSet(Pairs) /\ Cardinality(Pairs) \in Nat
  BY PairsFacts
<1>8. IsFiniteSet(Pairs') /\ Cardinality(Pairs') \in Nat
  <2>1. IsFiniteSet(ReaderPairs) /\ Pairs' \in SUBSET ReaderPairs
    BY PairsFacts DEF Pairs
  <2> QED BY <2>1, FS_Subset, FS_CardinalityType
<1>9. Cardinality(Pairs) <= Cardinality(Pairs')
  BY <1>6, <1>8, FS_Subset
<1>10. CASE v \in Dynamic /\ stale # {}
  <2>1. PICK u \in stale : u \in Formulas \ (request.hints[v] \cup {v})
    BY <1>4, <1>10
  <2>2. <<v, u>> \in Pairs' /\ <<v, u>> \notin Pairs
    BY <1>5, <1>10, <2>1 DEF Pairs, ReaderPairs
  <2>3. Pairs \cup {<<v, u>>} \in SUBSET Pairs'
    BY <1>6, <2>2
  <2>4. Cardinality(Pairs \cup {<<v, u>>}) = Cardinality(Pairs) + 1
    BY <1>7, <2>2, FS_AddElement
  <2>5. Cardinality(Pairs) + 1 <= Cardinality(Pairs')
    BY <1>8, <2>3, <2>4, FS_Subset
  <2>6. Paid(request.replans)
    BY DEF HintsOK
  <2> QED BY <1>5, <1>7, <1>8, <2>5, <2>6 DEF HintsOK, Paid
<1>11. CASE ~(v \in Dynamic /\ stale # {})
  <2>1. StaleMember => StaleMember'
    <3> SUFFICES ASSUME StaleMember PROVE StaleMember'
      OBVIOUS
    <3>1. PICK u \in batch.left \cap batch.drop \cap Dynamic : batch.results[u].stale # {}
      BY DEF StaleMember
    <3>2. u # v
      BY <1>11, <3>1 DEF stale
    <3> QED BY <1>3, <3>1, <3>2 DEF StaleMember
  <2>2. Paid(request.replans + 1) \/ StaleMember
    BY <1>1 DEF HintsOK
  <2>3. Paid(request.replans)
    BY DEF HintsOK
  <2>4. /\ Paid(request.replans) => Paid(request.replans)'
        /\ Paid(request.replans + 1) => Paid(request.replans + 1)'
    BY <1>5, <1>7, <1>8, <1>9 DEF Paid
  <2> QED BY <2>1, <2>2, <2>3, <2>4 DEF HintsOK
<1> QED BY <1>10, <1>11

\* A commit leaves the members to drop in the batch.
LEMMA CommitHints ==
  ASSUME ScalarWorkbook, IInv, HintsOK, NEW v \in Formulas, Commit(v)
  PROVE  HintsOK'
<1>1. /\ phase = "commit" /\ v \in batch.left /\ v \notin batch.drop
      /\ pass' = [pass EXCEPT !.committed = @ \cup {v}] /\ request' = request
  BY CommitFacts
<1>2. /\ batch'.left = batch.left \ {v}
      /\ batch'.left # {} => batch'.results = batch.results /\ batch'.drop = batch.drop
  <2>1. BatchShape(batch)
    BY <1>1 DEF IInv, FrameOK
  <2>2. PICK s, w : Done(v, s, w)
    BY CommitFacts
  <2>3. batch' = IF batch.left = {v} THEN NoBatch ELSE [batch EXCEPT !.left = @ \ {v}]
    BY <2>2 DEF Done
  <2>4. CASE batch.left = {v}
    BY <2>3, <2>4 DEF NoBatch
  <2>5. CASE batch.left # {v}
    <3> DEFINE l == batch.left
               r == batch.results
               g == batch.guarded
               p == batch.drop
    <3>1. batch = [left |-> l, results |-> r, guarded |-> g, drop |-> p]
      BY <2>1 DEF BatchShape
    <3> HIDE DEF l, r, g, p
    <3>2. [batch EXCEPT !.left = @ \ {v}]
            = [left |-> l \ {v}, results |-> r, guarded |-> g, drop |-> p]
      BY <3>1
    <3> QED BY <2>3, <2>5, <3>2 DEF l, r, p
  <2> QED BY <2>4, <2>5
<1>3. pass'.dropped = pass.dropped
  BY <1>1 DEF IInv, Types, Passes
<1>4. Pairs' = Pairs
  BY <1>1 DEF Pairs
<1>5. StaleMember => StaleMember'
  BY <1>1, <1>2 DEF StaleMember
<1>6. batch'.left \cap batch'.drop # {} => batch.left \cap batch.drop # {}
  BY <1>2
<1> QED BY <1>1, <1>3, <1>4, <1>5, <1>6 DEF HintsOK, Paid

\* A pass is followed by another one only if it dropped a reader.
LEMMA ReplanHints ==
  ASSUME IsFiniteSet(Formulas), IInv, HintsOK, Replan, Converges,
         ~ManyHints
  PROVE  HintsOK' /\ Converges'
<1>1. PassOver /\ MustReplan
  BY DEF Replan
<1>2. /\ phase = "walk" /\ batch.left = {} /\ batch = NoBatch /\ LeftDirty = dirty
      /\ pass.candidates = pass.todo \cup pass.dropped \cup pass.committed
      /\ request.goal = "all" => dirty \subseteq pass.candidates
  BY <1>1, PassOverFacts
<1>3. pass.committed \cap dirty = {}
  BY DEF IInv, PassOK
<1>4. pass.dropped # {}
  BY <1>1, <1>2, <1>3 DEF MustReplan, PassOver
<1>5. Paid(request.replans + 1)
  BY <1>2, <1>4 DEF HintsOK, StaleMember
<1>6. request \in Requests /\ request.replans \in 0 .. MaxReplan
  BY DEF IInv, Types, Requests
<1>7. request.replans < MaxReplan
  BY <1>5, <1>6, PairsFacts, ReplanAssumption DEF Paid, ManyHints
<1>8. /\ request' = [request EXCEPT !.replans = @ + 1]
      /\ pass' = NoPass /\ UNCHANGED <<batch, outcome>>
  BY <1>7 DEF Replan
<1>9. request'.replans = request.replans + 1 /\ request'.hints = request.hints
  BY <1>6, <1>8 DEF Requests
<1>10. Pairs' = Pairs
  BY <1>9 DEF Pairs
<1>11. pass'.dropped = {} /\ batch'.left = {}
  BY <1>2, <1>8 DEF NoPass
<1> QED BY <1>5, <1>8, <1>9, <1>10, <1>11 DEF HintsOK, Paid, Converges

PassInv == IInv /\ HintsOK /\ Converges

LEMMA InitPassInv ==
  ASSUME IsFiniteSet(Formulas)
  PROVE  Init => PassInv
<1> SUFFICES ASSUME Init PROVE PassInv
  OBVIOUS
<1>1. IInv
  BY InitIInv
<1>2. request.replans = 0 /\ pass.dropped = {} /\ batch.left = {} /\ outcome = "none"
  BY DEF Init, NoRequest, NoPass, NoBatch
<1>3. HintsOK
  BY <1>2, PairsFacts DEF HintsOK, Paid
<1> QED BY <1>1, <1>2, <1>3 DEF PassInv, Converges

\* Every step keeps the hints paid for, and gives a request up only when it has
\* many.
LEMMA NextHints ==
  ASSUME ScalarWorkbook, IsFiniteSet(Formulas), ~ManyHints, PassInv, [Next]_vars
  PROVE  HintsOK' /\ Converges'
<1>1. /\ IsFiniteSet(Formulas) /\ ~ManyHints
      /\ IInv /\ HintsOK /\ Converges /\ pass \in Passes
  BY DEF PassInv, IInv, Types
<1>2. /\ NoRequest.replans = 0 /\ NoPass.dropped = {} /\ NoBatch.left = {}
      /\ \A g : [NoRequest EXCEPT !.goal = g].replans = 0
  BY DEF NoRequest, NoPass, NoBatch
<1>3. ASSUME NEW d, NEW how, End(d, how), how # "exhausted"
      PROVE  HintsOK' /\ Converges'
  <2>1. request'.replans = 0 /\ pass'.dropped = {} /\ batch'.left = {}
    BY <1>2, <1>3 DEF End
  <2> QED BY <1>1, <1>3, <2>1, HintsCleared DEF End, Converges
<1>4. phase = "walk" => batch.left = {}
  BY <1>1, <1>2 DEF IInv, FrameOK
<1>5. phase \in {"idle", "plan"} => batch.left = {} /\ pass.dropped = {}
  BY <1>1, <1>2 DEF IInv, FrameOK
<1>6. request.goal # "exhausted"
  BY <1>1, TargetsAssumption DEF IInv, Types, Requests
<1>7. CASE \E i \in Inputs, val \in Values : Edit(i, val)
  <2>1. /\ UNCHANGED <<request, pass, batch>> /\ outcome' = "none" /\ phase = "idle"
    BY <1>7 DEF Edit
  <2> QED BY <1>1, <1>5, <2>1, HintsKept DEF Converges
<1>8. CASE \E goal \in {"all"} \cup Targets : Begin(goal)
  <2>1. PICK goal : request' = [NoRequest EXCEPT !.goal = goal]
    BY <1>8 DEF Begin
  <2>2. UNCHANGED <<pass, batch>> /\ outcome' = "none" /\ phase = "idle"
    BY <1>8 DEF Begin
  <2>3. request'.replans = 0
    BY <1>2, <2>1
  <2> QED BY <1>1, <1>5, <2>2, <2>3, HintsCleared DEF Converges
<1>9. CASE NoWork
  BY <1>3, <1>6, <1>9 DEF NoWork
<1>10. CASE \E base \in {{}} \cup cached : Plan(base)
  <2>1. UNCHANGED <<request, batch, outcome>> /\ phase = "plan"
    BY <1>10 DEF Plan
  <2>2. pass'.dropped = {}
    BY <1>10 DEF Plan, NoPass
  <2> QED BY <1>1, <1>5, <2>1, <2>2, HintsKept DEF Converges
<1>11. CASE \E mode \in {"direct", "buffered"} : NextLayer(mode)
  <2>1. UNCHANGED <<request, batch, outcome>> /\ phase = "walk"
    BY <1>11 DEF NextLayer
  <2>2. pass'.dropped = pass.dropped
    BY <1>1, <1>11 DEF NextLayer, Passes
  <2> QED BY <1>1, <1>4, <2>1, <2>2, HintsKept DEF Converges
<1>12. CASE \E U \in {{v} : v \in Formulas} \cup Runs : EvaluateUnit(U)
  <2>1. PICK U, s, unwritten : Evaluate(U, s, unwritten, FALSE)
    BY <1>12 DEF EvaluateUnit
  <2>2. phase = "walk" /\ outcome' = outcome
    BY <1>12, <2>1 DEF EvaluateUnit, Evaluate
  <2> QED BY <1>1, <1>4, <2>1, <2>2, EvaluateHints DEF Converges
<1>13. CASE EvaluateGroup
  <2>1. PICK U, s : Evaluate(U, s, {}, TRUE)
    BY <1>13 DEF EvaluateGroup
  <2>2. phase = "walk" /\ outcome' = outcome
    BY <1>13, <2>1 DEF EvaluateGroup, Evaluate
  <2> QED BY <1>1, <1>4, <2>1, <2>2, EvaluateHints DEF Converges
<1>14. CASE FlushSlice
  <2>1. UNCHANGED <<request, batch, outcome>> /\ phase = "walk"
    BY <1>14 DEF FlushSlice
  <2>2. pass'.dropped = pass.dropped
    BY <1>1, <1>14 DEF FlushSlice, Passes
  <2> QED BY <1>1, <1>4, <2>1, <2>2, HintsKept DEF Converges
<1>15. CASE \E v \in Formulas : DropStale(v) \/ Commit(v) \/ SpillCommitFails(v)
  <2>1. PICK v \in Formulas : DropStale(v) \/ Commit(v)
    BY <1>1, <1>15, NoSpillFails
  <2>2. HintsOK'
    BY <1>1, <2>1, DropStaleHints, CommitHints
  <2>3. outcome' = outcome
    BY <2>1 DEF DropStale, Commit
  <2> QED BY <1>1, <2>2, <2>3 DEF Converges
<1>16. CASE Replan
  BY <1>1, <1>16, ReplanHints
<1>17. CASE Finish
  BY <1>3, <1>6, <1>17 DEF Finish
<1>18. CASE \E flushed \in BOOLEAN : Abort(flushed)
  BY <1>3, <1>18 DEF Abort
<1>19. CASE UNCHANGED vars
  BY <1>1, <1>19 DEF vars, HintsOK, Paid, Pairs, StaleMember, Converges
<1> QED BY <1>7, <1>8, <1>9, <1>10, <1>11, <1>12, <1>13, <1>14, <1>15, <1>16, <1>17, <1>18,
           <1>19
        DEF Next

-----------------------------------------------------------------------------
(* What the invariant says of requests *)

\* Without extents a formula is fresh when its value is.
LEMMA FreshScalar ==
  ASSUME ScalarWorkbook, Types, NEW v \in Formulas, store[v] = Result(v, store).value
  PROVE  Fresh(v)
<1>1. store \in Stores /\ extent[v] = {}
  BY DEF Types
<1>2. DOMAIN Result(v, store).spill = {}
  BY <1>1 DEF ScalarWorkbook, ScalarResults
<1> QED BY <1>1, <1>2 DEF Fresh

LEMMA CleanIsFreshHolds ==
  ASSUME ScalarWorkbook, IInv
  PROVE  CleanIsFresh
BY IdleFacts, FreshScalar DEF CleanIsFresh

LEMMA DirtyClosedHolds ==
  ASSUME IInv
  PROVE  DirtyClosed
<1> SUFFICES ASSUME phase = "idle", NEW c \in dirty PROVE DependentsOf[c] \subseteq dirty
  BY DEF DirtyClosed, Dependents
<1>1. dirty \in SUBSET Formulas /\ \A v \in Formulas \ dirty : Static(v) \cap dirty = {}
  BY IdleFacts
<1>2. Readers({c}) \subseteq dirty /\ Readers(dirty) \subseteq dirty
  BY <1>1 DEF Readers
<1> QED BY <1>1, <1>2, DependentsLeast DEF Cells

LEMMA RequestsDeliverHolds ==
  ASSUME ScalarWorkbook, IInv
  PROVE  RequestsDeliver
<1>1. Types /\ OutcomeOK /\ ChildrenOK /\ store \in Stores
  BY DEF IInv, Types
<1>2. ExactWhenDone
  BY <1>1, FreshScalar DEF ExactWhenDone, OutcomeOK, ChildrenOK
<1>3. TargetUpToDate
  <2> SUFFICES ASSUME outcome \in Targets PROVE UpToDate(outcome)
    BY DEF TargetUpToDate
  <2> DEFINE step(v) == {u \in Formulas : \/ u \in Reads(v, store)
                                          \/ DOMAIN Result(u, store).spill \cap Reads(v, store) # {}}
             closed == {S \in SUBSET Formulas : outcome \in S /\ \A v \in S : step(v) \subseteq S}
  <2>1. PICK S \in SUBSET Formulas :
          /\ outcome \in S
          /\ \A v \in S : store[v] = Result(v, store).value
                          /\ Reads(v, store) \cap Formulas \subseteq S
    BY <1>1 DEF OutcomeOK
  <2>2. \A v \in S : step(v) \subseteq S
    BY <1>1, <2>1 DEF ScalarWorkbook, ScalarResults
  <2>3. S \in closed
    BY <2>1, <2>2
  <2>4. \A v \in Formulas : (\A T \in closed : v \in T) => Fresh(v)
    BY <1>1, <2>1, <2>3, FreshScalar
  <2> QED BY <2>4 DEF UpToDate
<1> QED BY <1>2, <1>3 DEF RequestsDeliver

-----------------------------------------------------------------------------
(* Theorems *)

\* What replan_exhausted_error means, whatever MaxReplan is.  A pass is repeated
\* only after it dropped a dynamic reader of something stale, a dropped reader
\* gives the request a hint it did not have, and the next schedule obeys every
\* hint: a request is given up only after its dynamic readers met more than
\* MaxReplan dirty formulas, never because one reader is dropped for the same
\* reason in pass after pass.
THEOREM ExhaustionTakesHints ==
  ASSUME ScalarWorkbook, IsFiniteSet(Formulas)
  PROVE  Spec /\ <>~Converges => <>ManyHints
<1>1. PassInv /\ ~ManyHints /\ [Next]_vars => PassInv'
  BY NextHints, NextIInv DEF PassInv
<1>2. PassInv => Converges
  BY DEF PassInv
<1> QED BY <1>1, <1>2, InitPassInv, PTL DEF Spec

\* Between requests a formula that is not flagged dirty shows what it
\* computes, after any edits, passes, replans and failures: commit-time
\* clearing and freshness_drop_stale never leave a stale value unflagged.
THEOREM CleanFormulasAreFresh ==
  ASSUME ScalarWorkbook
  PROVE  Spec /\ []Converges => []CleanIsFresh
<1>1. IInv => CleanIsFresh
  BY CleanIsFreshHolds
<1> QED BY <1>1, ScalarInvariant, PTL

\* Between requests the dirty set is closed under static dependents, whatever
\* the last request left or a failed one put back.
THEOREM DirtyIsClosed ==
  ASSUME ScalarWorkbook
  PROVE  Spec /\ []Converges => []DirtyClosed
<1>1. IInv => DirtyClosed
  BY DirtyClosedHolds
<1> QED BY <1>1, ScalarInvariant, PTL

\* evaluate_all leaves every formula fresh, and evaluate_cell the target and
\* everything it is computed from, dynamic reads included.
THEOREM RequestsAreDelivered ==
  ASSUME ScalarWorkbook
  PROVE  Spec /\ []Converges => []RequestsDeliver
<1>1. IInv => RequestsDeliver
  BY RequestsDeliverHolds
<1> QED BY <1>1, ScalarInvariant, PTL

-----------------------------------------------------------------------------
(* The ledger of a request *)

\* The scratch m in use when the next scope opens, or now, fits the scope f.
Joined(f, m) ==
    /\ f.kind = "request" => m = f.mark
    /\ f.kind = "scratch" => m = f.mark + f.bytes
    /\ f.kind \in {"prepare", "select"} => m >= f.mark

\* The scopes nest, and scratch is the scratch in use inside the innermost.
ScopesOK(fs, scratch) ==
    \A i \in 1 .. Len(fs) :
        /\ Joined(fs[i], IF i < Len(fs) THEN fs[i + 1].mark ELSE scratch)
        /\ (\A j \in 1 .. (i - 1) : fs[j].kind = "request") => fs[i].mark = 0
        /\ fs[i].kind = "select" => i = Len(fs) /\ i > 1 /\ fs[i - 1].kind = "prepare"
        /\ i = 1 => fs[i].kind = "request"

\* The part of the inductive invariant that holds under every budget.
LedgerInv ==
    /\ LedgerTypeOK
    /\ AccountedIsReserved
    /\ HeldIsAdmitted
    /\ RunningWithinBudget
    /\ ScopesOK(frames, ledger.scratch)
    /\ ~Active => failing = "no"

\* A refusal is an error of the request, or the one that mark_topology_edited drops.
Clean ==
    /\ AssertionsHold
    /\ Active /\ ledger.exhausted => failing = "error" \/ "mixed" \in broken
    /\ SuccessIsClean

-----------------------------------------------------------------------------
(* Scopes.                                                                 *)

\* Leaving the innermost scope gives a shorter stack of the same scopes.
LEMMA PopFacts ==
    ASSUME NEW fs \in Seq(Frame), fs # << >>
    PROVE  /\ Len(fs) \in Nat \ {0}
           /\ SubSeq(fs, 1, Len(fs) - 1) \in Seq(Frame)
           /\ Len(SubSeq(fs, 1, Len(fs) - 1)) = Len(fs) - 1
           /\ \A i \in 1 .. (Len(fs) - 1) : SubSeq(fs, 1, Len(fs) - 1)[i] = fs[i]
           /\ fs[Len(fs)] \in Frame
  <1> DEFINE gs == SubSeq(fs, 1, Len(fs) - 1)
  <1>1. Len(fs) \in Nat \ {0} /\ fs[Len(fs)] \in Frame
    OBVIOUS
  <1>2. 1 \in Int /\ Len(fs) - 1 \in Int /\ \A i \in 1 .. (Len(fs) - 1) : fs[i] \in Frame
    BY <1>1
  <1>3. /\ gs \in Seq(Frame)
        /\ Len(gs) = IF 1 <= Len(fs) - 1 THEN Len(fs) - 1 - 1 + 1 ELSE 0
        /\ \A i \in 1 .. (Len(fs) - 1 - 1 + 1) : gs[i] = fs[1 + i - 1]
    BY <1>2, SubSeqProperties
  <1>4. /\ Len(gs) = Len(fs) - 1
        /\ \A i \in 1 .. (Len(fs) - 1) : gs[i] = fs[i]
    <2> HIDE DEF gs
    <2>1. Len(gs) = Len(fs) - 1
      <3>1. Len(gs) = IF 1 <= Len(fs) - 1 THEN Len(fs) - 1 - 1 + 1 ELSE 0
        BY <1>3
      <3>2. CASE Len(fs) = 1
        BY <3>1, <3>2
      <3>3. CASE Len(fs) # 1
        <4>1. Len(fs) \in Nat /\ 1 <= Len(fs) - 1
          BY <1>1, <3>3, SMTT(30)
        <4>2. Len(fs) - 1 - 1 + 1 = Len(fs) - 1
          BY <4>1
        <4>3. QED BY <3>1, <4>1, <4>2
      <3>4. QED BY <3>2, <3>3
    <2>2. ASSUME NEW i \in 1 .. (Len(fs) - 1)
          PROVE  gs[i] = fs[i]
      <3>1. i \in 1 .. (Len(fs) - 1 - 1 + 1) /\ 1 + i - 1 = i
        BY <1>1
      <3>2. QED BY <1>3, <3>1
    <2>3. QED BY <2>1, <2>2
  <1>5. QED BY <1>1, <1>3, <1>4

\* A scope opened at the scratch in use keeps the scopes well nested.
LEMMA PushScopes ==
    ASSUME NEW fs \in Seq(Frame), NEW f \in Frame, NEW m \in Nat, NEW n \in Nat,
           ScopesOK(fs, m), f.mark = m,
           fs = << >> => m = 0 /\ f.kind = "request",
           fs # << >> => fs[Len(fs)].kind # "select",
           f.kind = "select" => fs[Len(fs)].kind = "prepare",
           Joined(f, n)
    PROVE  /\ Append(fs, f) \in Seq(Frame)
           /\ ScopesOK(Append(fs, f), n)
  <1> DEFINE gs == Append(fs, f)
  <1>1. /\ gs \in Seq(Frame)
        /\ Len(gs) = Len(fs) + 1
        /\ Len(fs) \in Nat
        /\ \A i \in 1 .. Len(fs) : gs[i] = fs[i]
        /\ gs[Len(fs) + 1] = f
    OBVIOUS
  <1> HIDE DEF gs
  <1> SUFFICES ASSUME NEW i \in 1 .. Len(gs)
               PROVE  /\ Joined(gs[i], IF i < Len(gs) THEN gs[i + 1].mark ELSE n)
                      /\ (\A j \in 1 .. (i - 1) : gs[j].kind = "request") => gs[i].mark = 0
                      /\ gs[i].kind = "select" =>
                            i = Len(gs) /\ i > 1 /\ gs[i - 1].kind = "prepare"
                      /\ i = 1 => gs[i].kind = "request"
    BY <1>1 DEF ScopesOK, gs
  <1>2. CASE i < Len(fs)
    <2>1. i \in 1 .. Len(fs) /\ i + 1 \in 1 .. Len(fs) /\ i < Len(gs)
      BY <1>1, <1>2
    <2>2. gs[i] = fs[i] /\ gs[i + 1] = fs[i + 1]
      BY <1>1, <2>1
    <2>3. \A j \in 1 .. (i - 1) : gs[j] = fs[j]
      BY <1>1, <2>1
    <2>4. /\ Joined(fs[i], fs[i + 1].mark)
          /\ (\A j \in 1 .. (i - 1) : fs[j].kind = "request") => fs[i].mark = 0
          /\ fs[i].kind # "select"
          /\ i = 1 => fs[i].kind = "request"
      BY <1>2, <2>1 DEF ScopesOK
    <2>5. QED BY <2>1, <2>2, <2>3, <2>4
  <1>3. CASE i = Len(fs)
    <2>1. i \in 1 .. Len(fs) /\ i < Len(gs) /\ ~(i < Len(fs)) /\ fs # << >>
      BY <1>1, <1>3
    <2>2. gs[i] = fs[i] /\ gs[i + 1] = f
      BY <1>1, <1>3, <2>1
    <2>3. \A j \in 1 .. (i - 1) : gs[j] = fs[j]
      BY <1>1, <2>1
    <2>4. fs[i].kind # "select"
      BY <1>3, <2>1
    <2>5. QED BY <1>1, <1>3, <2>1, <2>2, <2>3, <2>4, ZenonT(60) DEF ScopesOK
  <1>4. CASE i = Len(fs) + 1
    <2>1. gs[i] = f /\ ~(i < Len(gs)) /\ i = Len(gs)
      BY <1>1, <1>4
    <2>2. ASSUME \A j \in 1 .. (i - 1) : gs[j].kind = "request"
          PROVE  f.mark = 0
      <3>1. CASE fs = << >>
        BY <3>1
      <3>2. CASE fs # << >>
        <4>1. Len(fs) \in 1 .. Len(fs) /\ ~(Len(fs) < Len(fs))
          BY <1>1, <3>2
        <4>2. \A j \in 1 .. Len(fs) : fs[j].kind = "request"
          BY <1>1, <1>4, <2>2
        <4>3. fs[Len(fs)].mark = 0 /\ Joined(fs[Len(fs)], m)
          BY <4>1, <4>2 DEF ScopesOK
        <4>4. QED BY <4>1, <4>2, <4>3 DEF Joined
      <3>3. QED BY <3>1, <3>2
    <2>3. ASSUME f.kind = "select"
          PROVE  i > 1 /\ gs[i - 1].kind = "prepare"
      <3>1. fs # << >>
        BY <2>3
      <3>2. Len(fs) \in 1 .. Len(fs)
        BY <1>1, <3>1
      <3>3. QED BY <1>1, <1>4, <2>3, <3>2
    <2>4. i = 1 => f.kind = "request"
      BY <1>1, <1>4
    <2>5. QED BY <2>1, <2>2, <2>3, <2>4
  <1>5. QED BY <1>1, <1>2, <1>3, <1>4

\* A scope left at the scratch it was opened at, or a selection left at any
\* scratch since, keeps the scopes well nested.
LEMMA PopScopes ==
    ASSUME NEW fs \in Seq(Frame), fs # << >>, NEW m \in Nat, NEW n \in Nat,
           ScopesOK(fs, m),
           \/ n = fs[Len(fs)].mark
           \/ fs[Len(fs)].kind = "select" /\ n >= fs[Len(fs)].mark
    PROVE  ScopesOK(SubSeq(fs, 1, Len(fs) - 1), n)
  <1> DEFINE gs == SubSeq(fs, 1, Len(fs) - 1)
  <1>1. /\ Len(fs) \in Nat \ {0}
        /\ Len(gs) = Len(fs) - 1
        /\ \A i \in 1 .. (Len(fs) - 1) : gs[i] = fs[i]
    BY PopFacts
  <1>2. \A i \in 1 .. Len(fs) : fs[i] \in Frame
    OBVIOUS
  <1> HIDE DEF gs
  <1> SUFFICES ASSUME NEW i \in 1 .. Len(gs)
               PROVE  /\ Joined(gs[i], IF i < Len(gs) THEN gs[i + 1].mark ELSE n)
                      /\ (\A j \in 1 .. (i - 1) : gs[j].kind = "request") => gs[i].mark = 0
                      /\ gs[i].kind = "select" =>
                            i = Len(gs) /\ i > 1 /\ gs[i - 1].kind = "prepare"
                      /\ i = 1 => gs[i].kind = "request"
    BY <1>1 DEF ScopesOK, gs
  <1>3. i \in 1 .. Len(fs) /\ i < Len(fs) /\ gs[i] = fs[i] /\ i + 1 \in 1 .. Len(fs)
    BY <1>1
  <1>4. \A j \in 1 .. (i - 1) : gs[j] = fs[j]
    BY <1>1
  <1>5. fs[i].kind # "select" /\ Joined(fs[i], fs[i + 1].mark)
    BY <1>3 DEF ScopesOK
  <1>6. /\ (\A j \in 1 .. (i - 1) : fs[j].kind = "request") => fs[i].mark = 0
        /\ i = 1 => fs[i].kind = "request"
    BY <1>3 DEF ScopesOK
  <1>7. CASE i < Len(gs)
    <2>1. gs[i + 1] = fs[i + 1]
      BY <1>1, <1>7
    <2>2. QED BY <1>3, <1>4, <1>5, <1>6, <1>7, <2>1
  <1>8. CASE ~(i < Len(gs))
    <2>1. i + 1 = Len(fs)
      BY <1>1, <1>8
    <2>2. CASE n = fs[Len(fs)].mark
      BY <1>3, <1>4, <1>5, <1>6, <1>8, <2>1, <2>2
    <2>3. CASE fs[Len(fs)].kind = "select" /\ n >= fs[Len(fs)].mark
      <3>1. fs[i].kind = "prepare"
        BY <1>1, <1>3, <2>1, <2>3 DEF ScopesOK
      <3>2. fs[i].mark \in Nat /\ fs[i + 1].mark \in Nat
        BY <1>2, <1>3 DEF Frame
      <3>3. Joined(fs[i], n)
        BY <1>5, <2>1, <2>3, <3>1, <3>2 DEF Joined
      <3>4. QED BY <1>3, <1>4, <1>5, <1>6, <1>8, <3>3
    <2>4. QED BY <2>2, <2>3
  <1>9. QED BY <1>7, <1>8

\* Kinds and marks are all that matters of a scope, save for the innermost.
LEMMA SameScopes ==
    ASSUME NEW fs \in Seq(Frame), NEW gs \in Seq(Frame), fs # << >>,
           NEW m \in Nat, NEW n \in Nat, ScopesOK(fs, m),
           Len(gs) = Len(fs),
           \A i \in 1 .. Len(fs) : gs[i].kind = fs[i].kind /\ gs[i].mark = fs[i].mark,
           \A i \in 1 .. (Len(fs) - 1) : gs[i] = fs[i],
           Joined(gs[Len(fs)], n)
    PROVE  ScopesOK(gs, n)
  <1> SUFFICES ASSUME NEW i \in 1 .. Len(gs)
               PROVE  /\ Joined(gs[i], IF i < Len(gs) THEN gs[i + 1].mark ELSE n)
                      /\ (\A j \in 1 .. (i - 1) : gs[j].kind = "request") => gs[i].mark = 0
                      /\ gs[i].kind = "select" =>
                            i = Len(gs) /\ i > 1 /\ gs[i - 1].kind = "prepare"
                      /\ i = 1 => gs[i].kind = "request"
    BY DEF ScopesOK
  <1>0. Len(fs) \in Nat /\ i \in 1 .. Len(fs)
    OBVIOUS
  <1>1. /\ Joined(fs[i], IF i < Len(fs) THEN fs[i + 1].mark ELSE m)
        /\ (\A j \in 1 .. (i - 1) : fs[j].kind = "request") => fs[i].mark = 0
        /\ fs[i].kind = "select" => i = Len(fs) /\ i > 1 /\ fs[i - 1].kind = "prepare"
        /\ i = 1 => fs[i].kind = "request"
    BY <1>0 DEF ScopesOK
  <1>2. \A j \in 1 .. (i - 1) : gs[j].kind = fs[j].kind
    BY <1>0
  <1>3. Joined(gs[i], IF i < Len(gs) THEN gs[i + 1].mark ELSE n)
    <2>1. CASE i < Len(gs)
      <3>1. gs[i] = fs[i] /\ gs[i + 1].mark = fs[i + 1].mark
        BY <1>0, <2>1
      <3>2. QED BY <1>0, <1>1, <2>1, <3>1
    <2>2. CASE ~(i < Len(gs))
      <3>1. i = Len(fs)
        BY <1>0, <2>2
      <3>2. QED BY <2>2, <3>1
    <2>3. QED BY <2>1, <2>2
  <1>4. gs[i].kind = "select" => i = Len(gs) /\ i > 1 /\ gs[i - 1].kind = "prepare"
    <2>1. i > 1 => gs[i - 1].kind = fs[i - 1].kind
      BY <1>0
    <2>2. QED BY <1>0, <1>1, <2>1
  <1>5. QED BY <1>0, <1>1, <1>2, <1>3, <1>4

\* What the well nested scopes of a running request say of the innermost two.
LEMMA TopFacts ==
    ASSUME LedgerTypeOK, ScopesOK(frames, ledger.scratch), Active
    PROVE  /\ Len(frames) \in Nat \ {0}
           /\ Top \in Frame
           /\ Joined(Top, ledger.scratch)
           /\ Pop \in Seq(Frame)
           /\ Len(Pop) = Len(frames) - 1
           /\ Top.kind # "select" /\ Len(frames) > 1 =>
                 Pop[Len(Pop)].kind # "select"
           /\ Top.kind = "select" => Pop # << >> /\ Pop[Len(Pop)].kind = "prepare"
           /\ Top.kind # "request" => Len(frames) > 1
           /\ Len(frames) > 1 => Pop # << >>
  <1>1. frames \in Seq(Frame) /\ frames # << >>
    BY DEF LedgerTypeOK, Active
  <1>2. /\ Len(frames) \in Nat \ {0}
        /\ Pop \in Seq(Frame)
        /\ Len(Pop) = Len(frames) - 1
        /\ \A i \in 1 .. (Len(frames) - 1) : Pop[i] = frames[i]
        /\ Top \in Frame
    BY <1>1, PopFacts DEF Pop, Top
  <1>3. Joined(Top, ledger.scratch)
    BY <1>2 DEF ScopesOK, Top
  <1>4. Top.kind = "select" => Len(frames) > 1 /\ frames[Len(frames) - 1].kind = "prepare"
    BY <1>2 DEF ScopesOK, Top
  <1>5. Len(frames) > 1 =>
           /\ Pop[Len(Pop)] = frames[Len(frames) - 1]
           /\ frames[Len(frames) - 1].kind # "select"
    <2>1. SUFFICES ASSUME Len(frames) > 1
                   PROVE  /\ Pop[Len(Pop)] = frames[Len(frames) - 1]
                          /\ frames[Len(frames) - 1].kind # "select"
      OBVIOUS
    <2>2. Len(frames) - 1 \in 1 .. (Len(frames) - 1)
      BY <1>2, <2>1
    <2>3. Len(frames) - 1 \in 1 .. Len(frames) /\ Len(frames) - 1 # Len(frames)
      BY <1>2, <2>1
    <2>4. QED BY <1>2, <2>2, <2>3 DEF ScopesOK
  <1>6. Len(frames) > 1 => Pop # << >>
    BY <1>2
  <1>7. Top.kind # "request" => Len(frames) > 1
    <2>1. CASE Len(frames) = 1
      BY <2>1 DEF ScopesOK, Top
    <2>2. CASE Len(frames) # 1
      BY <1>2, <2>2
    <2>3. QED BY <2>1, <2>2
  <1>8. QED BY <1>2, <1>3, <1>4, <1>5, <1>6, <1>7

-----------------------------------------------------------------------------
(* Bytes.                                                                  *)

\* What is held is a number of bytes, which trimming never increases and which
\* does not depend on the length of the list of spills.
LEMMA HeldFacts ==
    ASSUME NEW s \in [len : Nat, cap : Nat], NEW c \in Nat
    PROVE  /\ Held(s, c) \in Nat
           /\ Trimmed(s) \in [len : Nat, cap : Nat]
           /\ Held(Trimmed(s), c) \in Nat
           /\ Held(Trimmed(s), c) <= Held(s, c)
  <1>1. \A k \in Nat : k * EntryBytes \in Nat
    BY EntryAssumption
  <1>2. 0 * EntryBytes = 0
    BY EntryAssumption
  <1>3. Held(s, c) \in Nat /\ Held(s, c) >= c
    BY <1>1 DEF Held
  <1>4. CASE s.len = 0
    <2>1. Trimmed(s) = [len |-> 0, cap |-> 0]
      BY <1>4 DEF Trimmed
    <2>2. Held(Trimmed(s), c) = c
      BY <1>2, <2>1 DEF Held
    <2>3. QED BY <1>3, <2>1, <2>2
  <1>5. CASE s.len # 0
    BY <1>3, <1>5 DEF Trimmed
  <1>6. QED BY <1>4, <1>5

\* More bytes in caches are more bytes held.
LEMMA HeldCaches ==
    ASSUME NEW s \in [len : Nat, cap : Nat], NEW c \in Nat, NEW n \in Nat
    PROVE  /\ Held(s, c + n) = Held(s, c) + n
           /\ n <= c => Held(s, n) <= Held(s, c)
  <1>1. s.cap * EntryBytes \in Nat
    BY EntryAssumption
  <1>2. QED BY <1>1 DEF Held

\* A reconciliation that starts from an accounted ledger leaves it accounted for
\* exactly what is held, and fails just when that is over the budget.
LEMMA ReconciledFacts ==
    ASSUME NEW l \in Ledger, NEW held \in Nat
    PROVE  LET r == Reconciled(l, l.retained, held)
           IN  /\ r.ledger \in Ledger
               /\ r.accounted = held
               /\ r.ledger.retained = held
               /\ r.ledger.scratch = l.scratch
               /\ r.ledger.budgets = l.budgets
               /\ r.ok \in BOOLEAN
               /\ r.ok <=> Within(held, l.budgets.retained)
               /\ r.ok => r.ledger.exhausted = l.exhausted
  <1> DEFINE r == Reconciled(l, l.retained, held)
             none == [l EXCEPT !.retained = @ - l.retained]
             seen == [none EXCEPT !.retained = @ + held]
             next == [seen EXCEPT !.retained = @ + 0]
             checked == ReserveRetained(seen, 0)
  <1>1. l.retained \in Nat /\ l.retained <= l.retained
    BY DEF Ledger
  <1>2. none \in Ledger /\ none.retained = 0 /\ none.scratch = l.scratch
        /\ none.budgets = l.budgets /\ none.exhausted = l.exhausted
    BY <1>1 DEF Ledger
  <1>3. ReleaseRetained(l, l.retained) = Accepted(none)
    BY <1>1 DEF ReleaseRetained
  <1> HIDE DEF none
  <1>4. r = [ledger |-> checked.ledger, accounted |-> held, ok |-> checked.ok]
    BY <1>3 DEF Reconciled, Accepted
  <1>5. /\ seen \in Ledger /\ seen.retained = held /\ seen.scratch = l.scratch
        /\ seen.budgets = l.budgets /\ seen.exhausted = l.exhausted
    BY <1>2 DEF Ledger
  <1> HIDE DEF seen
  <1>6. /\ next \in Ledger /\ next.retained = held /\ next.scratch = l.scratch
        /\ next.budgets = l.budgets /\ next.exhausted = l.exhausted
    BY <1>5 DEF Ledger
  <1>7. checked = IF Within(held, l.budgets.retained) THEN Accepted(next)
                  ELSE Refused(Exhausted(seen))
    <2>1. held + 0 = held
      OBVIOUS
    <2>2. QED BY <1>5, <2>1 DEF ReserveRetained, Admit
  <1> HIDE DEF next, checked, r
  <1>8. CASE Within(held, l.budgets.retained)
    <2>1. r = [ledger |-> next, accounted |-> held, ok |-> TRUE]
      BY <1>4, <1>7, <1>8 DEF Accepted
    <2>2. QED BY <1>6, <1>8, <2>1 DEF r
  <1>9. CASE ~Within(held, l.budgets.retained)
    <2>1. r = [ledger |-> Exhausted(seen), accounted |-> held, ok |-> FALSE]
      BY <1>4, <1>7, <1>9 DEF Refused
    <2>2. /\ Exhausted(seen) \in Ledger
          /\ Exhausted(seen).retained = held /\ Exhausted(seen).scratch = l.scratch
          /\ Exhausted(seen).budgets = l.budgets
      BY <1>5 DEF Exhausted, Ledger
    <2>3. QED BY <1>9, <2>1, <2>2 DEF r
  <1>10. QED BY <1>8, <1>9 DEF r

\* Whether refused or not, reserving and charging leave what they are not about
\* alone, and only a refusal sets the exhaustion.
LEMMA ReserveFacts ==
    ASSUME NEW l \in Ledger, NEW n \in Nat
    PROVE  /\ LET r == ReserveRetained(l, n)
              IN  /\ r.ok \in BOOLEAN /\ r.ledger \in Ledger
                  /\ r.ledger.budgets = l.budgets
                  /\ r.ledger.scratch = l.scratch
                  /\ r.ledger.work = l.work
                  /\ r.ok => /\ r.ledger.retained = l.retained + n
                             /\ Within(l.retained + n, l.budgets.retained)
                             /\ r.ledger.exhausted = l.exhausted
                  /\ ~r.ok => r.ledger.retained = l.retained /\ r.ledger.exhausted
           /\ \A op \in {ReserveGraphSource(l, n), ReserveScheduleDiscovery(l, n)} :
                  /\ op.ok \in BOOLEAN /\ op.ledger \in Ledger
                  /\ op.ledger.budgets = l.budgets
                  /\ op.ledger.retained = l.retained
                  /\ op.ok => /\ op.ledger.scratch = l.scratch + n
                              /\ op.ledger.exhausted = l.exhausted
                  /\ ~op.ok => op.ledger.scratch = l.scratch /\ op.ledger.exhausted
           /\ LET r == ChargeWork(l, n)
              IN  /\ r.ok \in BOOLEAN /\ r.ledger \in Ledger
                  /\ r.ledger.budgets = l.budgets
                  /\ r.ledger.retained = l.retained
                  /\ r.ledger.scratch = l.scratch
                  /\ r.ok => r.ledger.exhausted = l.exhausted
                  /\ ~r.ok => r.ledger.exhausted
  <1> DEFINE x == [l EXCEPT !.retained = @ + n]
             y == [l EXCEPT !.scratch = @ + n]
             z == [l EXCEPT !.work = @ + n]
  <1>1. /\ x \in Ledger /\ x.retained = l.retained + n /\ x.scratch = l.scratch
        /\ x.work = l.work /\ x.budgets = l.budgets /\ x.exhausted = l.exhausted
    BY DEF Ledger
  <1>2. /\ y \in Ledger /\ y.scratch = l.scratch + n /\ y.retained = l.retained
        /\ y.budgets = l.budgets /\ y.exhausted = l.exhausted
    BY DEF Ledger
  <1>3. /\ z \in Ledger /\ z.scratch = l.scratch /\ z.retained = l.retained
        /\ z.budgets = l.budgets /\ z.exhausted = l.exhausted
    BY DEF Ledger
  <1> DEFINE e == Exhausted(l)
             Granted(r, a) == r.ok = TRUE /\ r.ledger = a
             Denied(r) == r.ok = FALSE /\ r.ledger = e
  <1>4. /\ e \in Ledger /\ e.scratch = l.scratch /\ e.retained = l.retained
        /\ e.budgets = l.budgets /\ e.work = l.work /\ e.exhausted = TRUE
    BY DEF Exhausted, Ledger
  <1>5. \/ /\ Granted(ReserveRetained(l, n), x)
           /\ Within(l.retained + n, l.budgets.retained)
        \/ Denied(ReserveRetained(l, n))
    BY DEF ReserveRetained, Admit, Accepted, Refused
  <1>6. \A op \in {ReserveGraphSource(l, n), ReserveScheduleDiscovery(l, n)} :
            Granted(op, y) \/ Denied(op)
    BY DEF ReserveGraphSource, ReserveScheduleDiscovery, Admit, Accepted, Refused
  <1>7. Granted(ChargeWork(l, n), z) \/ Denied(ChargeWork(l, n))
    BY DEF ChargeWork, Admit, Accepted, Refused
  <1> HIDE DEF x, y, z, e
  <1>8. QED BY <1>1, <1>2, <1>3, <1>4, <1>5, <1>6, <1>7

\* Releasing what is reserved succeeds.
LEMMA ReleaseFacts ==
    ASSUME NEW l \in Ledger, NEW n \in Nat
    PROVE  /\ n <= l.retained =>
                 LET r == ReleaseRetained(l, n)
                 IN  /\ r.ok /\ r.ledger \in Ledger
                     /\ r.ledger.budgets = l.budgets
                     /\ r.ledger.retained = l.retained - n
                     /\ r.ledger.scratch = l.scratch
                     /\ r.ledger.exhausted = l.exhausted
           /\ n <= l.scratch =>
                 LET r == ReleaseScratch(l, n)
                     to == ReleaseScratchTo(l, n)
                 IN  /\ r.ok /\ r.ledger \in Ledger
                     /\ r.ledger.budgets = l.budgets
                     /\ r.ledger.retained = l.retained
                     /\ r.ledger.scratch = l.scratch - n
                     /\ r.ledger.exhausted = l.exhausted
                     /\ to.ok /\ to.ledger \in Ledger
                     /\ to.ledger.budgets = l.budgets
                     /\ to.ledger.retained = l.retained
                     /\ to.ledger.scratch = n
                     /\ to.ledger.exhausted = l.exhausted
  <1>1. ASSUME n <= l.retained
        PROVE  LET r == ReleaseRetained(l, n)
               IN  /\ r.ok /\ r.ledger \in Ledger
                   /\ r.ledger.budgets = l.budgets
                   /\ r.ledger.retained = l.retained - n
                   /\ r.ledger.scratch = l.scratch
                   /\ r.ledger.exhausted = l.exhausted
    BY <1>1 DEF ReleaseRetained, Accepted, Ledger
  <1>2. ASSUME n <= l.scratch
        PROVE  LET r == ReleaseScratch(l, n)
               IN  /\ r.ok /\ r.ledger \in Ledger
                   /\ r.ledger.budgets = l.budgets
                   /\ r.ledger.retained = l.retained
                   /\ r.ledger.scratch = l.scratch - n
                   /\ r.ledger.exhausted = l.exhausted
    BY <1>2 DEF ReleaseScratch, Accepted, Ledger
  <1>3. ASSUME n <= l.scratch
        PROVE  LET to == ReleaseScratchTo(l, n)
               IN  /\ to.ok /\ to.ledger \in Ledger
                   /\ to.ledger.budgets = l.budgets
                   /\ to.ledger.retained = l.retained
                   /\ to.ledger.scratch = n
                   /\ to.ledger.exhausted = l.exhausted
    BY <1>3 DEF ReleaseScratchTo, Accepted, Ledger
  <1>4. QED BY <1>1, <1>2, <1>3

-----------------------------------------------------------------------------
(* Kinds of steps.                                                         *)

\* A step that stays in its scope and touches scratch, work or the error only.
LEMMA LedgerStep ==
    ASSUME LedgerInv, Active, ledger' \in Ledger,
           ledger'.retained = ledger.retained, ledger'.budgets = ledger.budgets,
           Joined(Top, ledger'.scratch),
           failing' \in {"no", "stale", "error"}, failing = "error" => failing' = "error",
           broken' \in SUBSET Assertions,
           UNCHANGED <<accounted, spills, caches, frames, last>>
    PROVE  LedgerInv'
  <1>1. LedgerTypeOK'
    BY DEF LedgerInv, LedgerTypeOK
  <1>2. AccountedIsReserved' /\ HeldIsAdmitted' /\ RunningWithinBudget'
    BY DEF LedgerInv, AccountedIsReserved, HeldIsAdmitted, RunningWithinBudget, Active, Top
  <1>3. ScopesOK(frames, ledger'.scratch)
    <2>1. /\ frames \in Seq(Frame) /\ frames # << >> /\ ledger.scratch \in Nat
          /\ ledger'.scratch \in Nat /\ ScopesOK(frames, ledger.scratch)
      BY DEF LedgerInv, LedgerTypeOK, Ledger, Active
    <2>2. Joined(frames[Len(frames)], ledger'.scratch)
      BY DEF Top
    <2>3. QED BY <2>1, <2>2, SameScopes
  <1>4. Active'
    BY DEF Active
  <1>5. QED BY <1>1, <1>2, <1>3, <1>4 DEF LedgerInv

\* A step that opens a scope.
LEMMA PushStep ==
    ASSUME LedgerInv, Running({"request", "scratch", "prepare"}), NEW f \in Frame,
           frames' = Push(f), f.mark = ledger.scratch,
           f.kind = "select" => Top.kind = "prepare" /\ f.bytes = 0,
           ledger' \in Ledger,
           ledger'.retained = ledger.retained, ledger'.budgets = ledger.budgets,
           Joined(f, ledger'.scratch),
           UNCHANGED <<accounted, spills, caches, failing, broken, last>>
    PROVE  LedgerInv'
  <1>1. /\ frames \in Seq(Frame) /\ frames # << >> /\ ledger.scratch \in Nat
        /\ ledger'.scratch \in Nat /\ ScopesOK(frames, ledger.scratch)
        /\ Active /\ Top.kind # "select"
    BY DEF LedgerInv, LedgerTypeOK, Ledger, Running, In, Active
  <1>2. /\ Append(frames, f) \in Seq(Frame)
        /\ ScopesOK(Append(frames, f), ledger'.scratch)
    <2>1. frames[Len(frames)].kind # "select"
      BY <1>1 DEF Top
    <2>2. f.kind = "select" => frames[Len(frames)].kind = "prepare"
      BY DEF Top
    <2>3. QED BY <1>1, <2>1, <2>2, PushScopes
  <1>3. Top' = f /\ Active'
    BY <1>1, <1>2 DEF Top, Active, Push
  <1>4. LedgerTypeOK'
    BY <1>2 DEF LedgerInv, LedgerTypeOK, Push
  <1>5. AccountedIsReserved' /\ RunningWithinBudget'
    BY <1>1 DEF LedgerInv, AccountedIsReserved, RunningWithinBudget
  <1>6. HeldIsAdmitted'
    <2>1. Held(spills, caches) <= ledger.retained
      <3>1. Held(spills, caches) + 0 <= ledger.retained
        BY <1>1 DEF LedgerInv, HeldIsAdmitted
      <3>2. Held(spills, caches) \in Nat
        BY HeldFacts DEF LedgerInv, LedgerTypeOK
      <3>3. QED BY <3>1, <3>2
    <2>2. Held(spills, caches) \in Nat
      BY HeldFacts DEF LedgerInv, LedgerTypeOK
    <2>3. (IF f.kind = "select" THEN f.bytes ELSE 0) = 0
      OBVIOUS
    <2>4. Held(spills, caches) + (IF f.kind = "select" THEN f.bytes ELSE 0) <= ledger.retained
      BY <2>1, <2>2, <2>3
    <2>5. QED BY <1>3, <2>4 DEF HeldIsAdmitted
  <1>7. ScopesOK(frames, ledger.scratch)'
    BY <1>2 DEF Push
  <1>8. QED BY <1>3, <1>4, <1>5, <1>6, <1>7 DEF LedgerInv

\* A step that leaves a scope other than a selection, at the scratch at which it
\* was opened.
LEMMA PopStep ==
    ASSUME LedgerInv, Active, Len(frames) > 1, Top.kind # "select", frames' = Pop,
           ledger' \in Ledger, ledger'.scratch = Top.mark,
           ledger'.retained = ledger.retained, ledger'.budgets = ledger.budgets,
           failing' \in {"no", "stale", "error"}, failing = "error" => failing' = "error",
           broken' \in SUBSET Assertions,
           UNCHANGED <<accounted, spills, caches, last>>
    PROVE  LedgerInv'
  <1>1. /\ frames \in Seq(Frame) /\ frames # << >> /\ ledger.scratch \in Nat
        /\ ledger'.scratch \in Nat /\ ScopesOK(frames, ledger.scratch)
    BY DEF LedgerInv, LedgerTypeOK, Ledger, Active
  <1>2. /\ Len(frames) \in Nat \ {0} /\ Pop \in Seq(Frame)
        /\ Len(Pop) = Len(frames) - 1
        /\ Pop[Len(Pop)].kind # "select" /\ Pop # << >>
    BY TopFacts DEF LedgerInv
  <1>3. ScopesOK(Pop, ledger'.scratch)
    BY <1>1, PopScopes DEF Pop, Top
  <1>4. LedgerTypeOK'
    BY <1>2 DEF LedgerInv, LedgerTypeOK
  <1>5. AccountedIsReserved' /\ RunningWithinBudget'
    BY DEF LedgerInv, AccountedIsReserved, RunningWithinBudget
  <1>6. HeldIsAdmitted'
    <2>1. Held(spills, caches) + 0 <= ledger.retained
      BY DEF LedgerInv, HeldIsAdmitted
    <2>2. Top'.kind # "select"
      BY <1>2 DEF Top
    <2>3. QED BY <2>1, <2>2 DEF HeldIsAdmitted
  <1>7. Active'
    BY <1>2 DEF Active
  <1>8. QED BY <1>3, <1>4, <1>5, <1>6, <1>7 DEF LedgerInv
-----------------------------------------------------------------------------
(* The actions that stay in their scope.                                   *)

\* What the reservations, charges and releases of scratch need to know.
LEMMA Basics ==
    ASSUME LedgerInv
    PROVE  /\ ledger \in Ledger /\ ledger.retained \in Nat /\ ledger.scratch \in Nat
           /\ ledger.work \in Nat /\ ledger.budgets \in Budgets
           /\ accounted \in Nat /\ caches \in Nat
           /\ spills \in [len : Nat, cap : Nat]
           /\ frames \in Seq(Frame)
           /\ failing \in {"no", "stale", "error"}
           /\ broken \in SUBSET Assertions
           /\ last \in [ok : BOOLEAN, exhausted : BOOLEAN, broken : SUBSET Assertions]
           /\ Active => /\ Len(frames) \in Nat \ {0}
                        /\ Top \in Frame
                        /\ Joined(Top, ledger.scratch)
                        /\ ledger.retained = accounted
  <1>1. /\ ledger \in Ledger /\ accounted \in Nat /\ caches \in Nat
        /\ spills \in [len : Nat, cap : Nat]
        /\ frames \in Seq(Frame) /\ failing \in {"no", "stale", "error"}
        /\ broken \in SUBSET Assertions /\ last \in [ok : BOOLEAN, exhausted : BOOLEAN, broken : SUBSET Assertions]
    BY DEF LedgerInv, LedgerTypeOK
  <1>2. /\ ledger.retained \in Nat /\ ledger.scratch \in Nat /\ ledger.work \in Nat
        /\ ledger.budgets \in Budgets
    BY <1>1 DEF Ledger
  <1>3. Active => /\ Len(frames) \in Nat \ {0}
                  /\ Top \in Frame
                  /\ Joined(Top, ledger.scratch)
                  /\ ledger.retained = accounted
    BY TopFacts DEF LedgerInv, AccountedIsReserved
  <1>4. QED BY <1>1, <1>2, <1>3

\* A reservation of graph-source scratch keeps the invariant, admitted or not.
LEMMA StepReserveSource ==
    ASSUME LedgerInv, NEW n \in Sizes, ReserveSource(n)
    PROVE  LedgerInv'
  <1> DEFINE r == ReserveGraphSource(ledger, n)
  <1>1. n \in Nat
    BY SizesAssumption
  <1>2. /\ Active /\ Top.kind = "prepare" /\ failing = "no"
        /\ ledger' = r.ledger /\ failing' = Fails(r)
        /\ UNCHANGED <<accounted, spills, caches, frames, broken, last>>
    BY DEF ReserveSource, Running, In
  <1>3. /\ r.ledger \in Ledger /\ r.ledger.budgets = ledger.budgets
        /\ r.ledger.retained = ledger.retained
        /\ r.ok => r.ledger.scratch = ledger.scratch + n
        /\ ~r.ok => r.ledger.scratch = ledger.scratch
    BY <1>1, Basics, ReserveFacts
  <1> HIDE DEF r
  <1>4. Joined(Top, ledger'.scratch)
    <2>1. Top.mark \in Nat /\ ledger.scratch >= Top.mark /\ ledger.scratch \in Nat
      BY <1>2, Basics DEF Joined, Frame
    <2>2. ledger'.scratch >= Top.mark
      BY <1>1, <1>2, <1>3, <2>1
    <2>3. QED BY <1>2, <2>2 DEF Joined
  <1>5. failing' \in {"no", "stale", "error"}
    BY <1>2 DEF Fails
  <1>6. QED BY <1>2, <1>3, <1>4, <1>5, Basics, LedgerStep

\* A schedule reserves and releases the planner's peak in one step.
LEMMA StepPlanSchedule ==
    ASSUME LedgerInv, NEW n \in Sizes, PlanSchedule(n)
    PROVE  LedgerInv'
  <1> DEFINE r == ReserveScheduleDiscovery(ledger, n)
             s == ReleaseScratch(r.ledger, n)
  <1>1. n \in Nat
    BY SizesAssumption
  <1>2. /\ Active /\ failing = "no"
        /\ ledger' = IF r.ok THEN s.ledger ELSE r.ledger
        /\ failing' = IF r.ok THEN Fails(s) ELSE "error"
        /\ UNCHANGED <<accounted, spills, caches, frames, broken, last>>
    BY DEF PlanSchedule, Running, In
  <1>3. /\ r.ok \in BOOLEAN
        /\ r.ledger \in Ledger /\ r.ledger.budgets = ledger.budgets
        /\ r.ledger.retained = ledger.retained
        /\ r.ok => r.ledger.scratch = ledger.scratch + n
        /\ ~r.ok => r.ledger.scratch = ledger.scratch
    BY <1>1, Basics, ReserveFacts
  <1> HIDE DEF r
  <1>4. r.ok => /\ s.ledger \in Ledger /\ s.ledger.budgets = ledger.budgets
                /\ s.ledger.retained = ledger.retained
                /\ s.ledger.scratch = ledger.scratch
    <2> SUFFICES ASSUME r.ok PROVE /\ s.ledger \in Ledger /\ s.ledger.budgets = ledger.budgets
                                   /\ s.ledger.retained = ledger.retained
                                   /\ s.ledger.scratch = ledger.scratch
      OBVIOUS
    <2>1. ledger.scratch \in Nat /\ r.ledger.scratch = ledger.scratch + n
      BY <1>3, Basics
    <2>2. n <= r.ledger.scratch /\ r.ledger.scratch - n = ledger.scratch
      BY <1>1, <2>1
    <2>3. QED BY <1>1, <1>3, <2>2, ReleaseFacts
  <1> HIDE DEF s
  <1>5. /\ ledger' \in Ledger /\ ledger'.budgets = ledger.budgets
        /\ ledger'.retained = ledger.retained /\ ledger'.scratch = ledger.scratch
    BY <1>2, <1>3, <1>4
  <1>6. Joined(Top, ledger'.scratch)
    BY <1>2, <1>5, Basics
  <1>7. failing' \in {"no", "stale", "error"}
    BY <1>2 DEF Fails
  <1>8. QED BY <1>2, <1>5, <1>6, <1>7, Basics, LedgerStep

\* Charging work, admitted or not, keeps the invariant.
LEMMA StepCharge ==
    ASSUME LedgerInv, NEW units \in Nat, Active, failing = "no",
           ledger' = ChargeWork(ledger, units).ledger,
           failing' = Fails(ChargeWork(ledger, units)),
           UNCHANGED <<accounted, spills, caches, frames, broken, last>>
    PROVE  LedgerInv'
  <1> DEFINE r == ChargeWork(ledger, units)
  <1>1. /\ r.ledger \in Ledger /\ r.ledger.budgets = ledger.budgets
        /\ r.ledger.retained = ledger.retained
        /\ r.ledger.scratch = ledger.scratch
    BY Basics, ReserveFacts
  <1>2. failing' \in {"no", "stale", "error"}
    BY DEF Fails
  <1> HIDE DEF r
  <1>3. /\ ledger' \in Ledger /\ ledger'.budgets = ledger.budgets
        /\ ledger'.retained = ledger.retained
        /\ ledger'.scratch = ledger.scratch
    BY <1>1 DEF r
  <1>4. QED BY <1>2, <1>3, Basics, LedgerStep

\* mark_topology_edited moves no bytes, granted or refused.
LEMMA StepTopologyEdit ==
    ASSUME LedgerInv, TopologyEdit
    PROVE  LedgerInv'
  <1>1. /\ Active
        /\ ledger' = AccountMixedCache(ledger).ledger
        /\ broken' = IF AccountMixedCache(ledger).ok THEN broken ELSE broken \cup {"mixed"}
        /\ UNCHANGED <<accounted, spills, caches, frames, failing, last>>
    BY DEF TopologyEdit, Running, In
  <1>2. ledger' = ledger \/ ledger' = Exhausted(ledger)
    BY <1>1 DEF AccountMixedCache, Admit, Accepted, Refused
  <1>3. /\ ledger' \in Ledger /\ ledger'.budgets = ledger.budgets
        /\ ledger'.retained = ledger.retained
        /\ ledger'.scratch = ledger.scratch
    BY <1>2, Basics DEF Exhausted, Ledger
  <1>4. broken' \in SUBSET Assertions
    BY <1>1, Basics DEF Assertions
  <1>5. QED BY <1>1, <1>3, <1>4, Basics, LedgerStep

\* An error found at a checkpoint only starts to travel out.
LEMMA StepStop ==
    ASSUME LedgerInv, NEW deadline \in BOOLEAN, Stop(deadline)
    PROVE  LedgerInv'
  <1>1. /\ Active /\ failing' = "error"
        /\ ledger' = ledger \/ ledger' = Exhausted(ledger)
        /\ UNCHANGED <<accounted, spills, caches, frames, broken, last>>
    BY DEF Stop, Running, In
  <1>2. /\ ledger' \in Ledger /\ ledger'.budgets = ledger.budgets
        /\ ledger'.retained = ledger.retained
        /\ ledger'.scratch = ledger.scratch
    BY <1>1, Basics DEF Exhausted, Ledger
  <1>3. QED BY <1>1, <1>2, Basics, LedgerStep

\* A stale preparation is still within the budget.
LEMMA StepStale ==
    ASSUME LedgerInv, Stale
    PROVE  LedgerInv'
  <1>1. /\ Active /\ failing = "no" /\ failing' = "stale"
        /\ UNCHANGED <<ledger, accounted, spills, caches, frames, broken, last>>
    BY DEF Stale, Running, In
  <1>2. QED BY <1>1, Basics, LedgerStep

\* A step outside the ledger that leaves no more held than before.
LEMMA HoldingLess ==
    ASSUME LedgerInv, spills' \in [len : Nat, cap : Nat], caches' \in Nat,
           Held(spills', caches') <= Held(spills, caches),
           UNCHANGED <<ledger, accounted, frames, failing, broken, last>>
    PROVE  LedgerInv'
  <1>1. LedgerTypeOK'
    BY DEF LedgerInv, LedgerTypeOK
  <1>2. AccountedIsReserved' /\ RunningWithinBudget' /\ Active' = Active
    BY DEF LedgerInv, AccountedIsReserved, RunningWithinBudget, Active
  <1>3. HeldIsAdmitted'
    <2> SUFFICES ASSUME Active
                 PROVE  Held(spills', caches')
                          + (IF Top.kind = "select" THEN Top.bytes ELSE 0) <= ledger.retained
      BY <1>2 DEF HeldIsAdmitted, Top
    <2> DEFINE k == IF Top.kind = "select" THEN Top.bytes ELSE 0
    <2>1. k \in Nat /\ ledger.retained \in Nat
      BY Basics DEF Frame
    <2>2. Held(spills, caches) + k <= ledger.retained
      BY DEF LedgerInv, HeldIsAdmitted
    <2>3. Held(spills, caches) \in Nat /\ Held(spills', caches') \in Nat
      BY HeldFacts, Basics
    <2> HIDE DEF k
    <2>4. Held(spills', caches') + k <= ledger.retained
      BY <2>1, <2>2, <2>3
    <2>5. QED BY <2>4 DEF k
  <1>4. QED BY <1>1, <1>2, <1>3 DEF LedgerInv

\* A forgotten spill leaves the capacity of the list.
LEMMA StepForgetSpill ==
    ASSUME LedgerInv, ForgetSpill
    PROVE  LedgerInv'
  <1>1. /\ spills.len > 0 /\ spills' = [spills EXCEPT !.len = @ - 1]
        /\ UNCHANGED <<ledger, accounted, caches, frames, failing, broken, last>>
    BY DEF ForgetSpill
  <1>2. /\ spills \in [len : Nat, cap : Nat] /\ caches \in Nat
        /\ spills.len - 1 \in Nat
        /\ spills' = [spills EXCEPT !.len = spills.len - 1]
    BY <1>1, Basics
  <1>3. Held(spills', caches') = Held(spills, caches) /\ Held(spills, caches) \in Nat
    <2>1. spills'.cap = spills.cap
      BY <1>2
    <2>2. Held(spills, caches) \in Nat
      BY <1>2, HeldFacts
    <2>3. QED BY <1>1, <2>1, <2>2 DEF Held
  <1>4. spills' \in [len : Nat, cap : Nat]
    BY <1>2
  <1>5. QED BY <1>1, <1>2, <1>3, <1>4, HoldingLess

\* A dropped cache leaves less held than is reserved.
LEMMA StepDropCaches ==
    ASSUME LedgerInv, NEW n \in 0 .. MaxCaches, DropCaches(n)
    PROVE  LedgerInv'
  <1>1. /\ n < caches /\ caches' = n
        /\ UNCHANGED <<ledger, accounted, spills, frames, failing, broken, last>>
    BY DEF DropCaches
  <1>2. n \in Nat /\ n <= caches
    BY <1>1, Basics, BoundsAssumption
  <1>3. Held(spills, n) <= Held(spills, caches)
    BY <1>2, Basics, HeldCaches
  <1>4. QED BY <1>1, <1>2, <1>3, Basics, HoldingLess

-----------------------------------------------------------------------------
(* The actions that open and leave scopes.                                 *)

\* A scratch scope opens above the scratch in use.
LEMMA StepOpenScratch ==
    ASSUME LedgerInv, NEW n \in Sizes, OpenScratch(n)
    PROVE  LedgerInv'
  <1> DEFINE f == Scope("scratch", n, ledger.scratch, FALSE)
  <1>1. n \in Nat
    BY SizesAssumption
  <1>2. /\ Running({"request", "scratch", "prepare"})
        /\ frames' = Push(f) /\ ledger' = [ledger EXCEPT !.scratch = @ + n]
        /\ UNCHANGED <<accounted, spills, caches, failing, broken, last>>
    BY DEF OpenScratch
  <1>3. f \in Frame /\ f.kind = "scratch" /\ f.bytes = n /\ f.mark = ledger.scratch
    <2>1. ledger.scratch \in Nat
      BY Basics
    <2>2. QED BY <1>1, <2>1 DEF Scope, Frame
  <1> HIDE DEF f
  <1>4. /\ ledger' \in Ledger /\ ledger'.budgets = ledger.budgets
        /\ ledger'.retained = ledger.retained /\ ledger'.scratch = ledger.scratch + n
    BY <1>1, <1>2, Basics DEF Ledger
  <1>5. Joined(f, ledger'.scratch)
    BY <1>3, <1>4 DEF Joined
  <1>6. QED BY <1>2, <1>3, <1>4, <1>5, PushStep

\* A nested request opens at the scratch in use.
LEMMA StepBeginNested ==
    ASSUME LedgerInv, BeginNested
    PROVE  LedgerInv'
  <1> DEFINE f == Scope("request", 0, ledger.scratch, FALSE)
  <1>1. /\ Running({"request", "scratch", "prepare"}) /\ frames' = Push(f)
        /\ UNCHANGED <<ledger, accounted, spills, caches, failing, broken, last>>
    BY DEF BeginNested, Running, In
  <1>2. f \in Frame /\ f.kind = "request" /\ f.mark = ledger.scratch
    <2>1. ledger.scratch \in Nat
      BY Basics
    <2>2. QED BY <2>1 DEF Scope, Frame
  <1> HIDE DEF f
  <1>3. Joined(f, ledger'.scratch)
    BY <1>1, <1>2 DEF Joined
  <1>4. QED BY <1>1, <1>2, <1>3, Basics, PushStep

\* A preparation opens at the scratch in use.
LEMMA StepBeginPrepare ==
    ASSUME LedgerInv, BeginPrepare
    PROVE  LedgerInv'
  <1> DEFINE f == Scope("prepare", 0, ledger.scratch, FALSE)
  <1>1. /\ Running({"request", "scratch", "prepare"}) /\ frames' = Push(f)
        /\ UNCHANGED <<ledger, accounted, spills, caches, failing, broken, last>>
    BY DEF BeginPrepare, Running, In
  <1>2. f \in Frame /\ f.kind = "prepare" /\ f.mark = ledger.scratch
    <2>1. ledger.scratch \in Nat
      BY Basics
    <2>2. QED BY <2>1 DEF Scope, Frame
  <1> HIDE DEF f
  <1>3. Joined(f, ledger'.scratch)
    BY <1>1, <1>2, Basics DEF Joined
  <1>4. QED BY <1>1, <1>2, <1>3, Basics, PushStep

\* A selection opens inside a preparation with nothing to publish.
LEMMA StepBeginSelect ==
    ASSUME LedgerInv, NEW retained \in BOOLEAN, BeginSelect(retained)
    PROVE  LedgerInv'
  <1> DEFINE f == Scope("select", 0, ledger.scratch, retained)
  <1>1. /\ Running({"request", "scratch", "prepare"}) /\ Top.kind = "prepare"
        /\ frames' = Push(f)
        /\ UNCHANGED <<ledger, accounted, spills, caches, failing, broken, last>>
    BY DEF BeginSelect, Running, In
  <1>2. f \in Frame /\ f.kind = "select" /\ f.bytes = 0 /\ f.mark = ledger.scratch
    <2>1. ledger.scratch \in Nat
      BY Basics
    <2>2. QED BY <2>1 DEF Scope, Frame
  <1> HIDE DEF f
  <1>3. Joined(f, ledger'.scratch)
    BY <1>1, <1>2, Basics DEF Joined
  <1>4. QED BY <1>1, <1>2, <1>3, Basics, PushStep

\* The release of a scratch scope is always of bytes that are reserved.
LEMMA CloseReleases ==
    ASSUME LedgerInv, In({"scratch"})
    PROVE  LET r == ReleaseScratch(ledger, Top.bytes)
           IN  /\ r.ok /\ r.ledger \in Ledger
               /\ r.ledger.budgets = ledger.budgets
               /\ r.ledger.retained = ledger.retained
               /\ r.ledger.scratch = Top.mark
               /\ r.ledger.exhausted = ledger.exhausted
  <1>1. Active /\ Top.kind = "scratch"
    BY DEF In
  <1>2. Top.bytes \in Nat /\ Top.mark \in Nat /\ ledger.scratch = Top.mark + Top.bytes
    BY <1>1, Basics DEF Joined, Frame
  <1>3. Top.bytes <= ledger.scratch /\ ledger.scratch - Top.bytes = Top.mark
    BY <1>2
  <1>4. QED BY <1>2, <1>3, Basics, ReleaseFacts

\* A scratch scope is left at the scratch it was opened at.
LEMMA StepCloseScratch ==
    ASSUME LedgerInv, CloseScratch
    PROVE  LedgerInv'
  <1> DEFINE r == ReleaseScratch(ledger, Top.bytes)
  <1>1. /\ In({"scratch"}) /\ frames' = Pop /\ ledger' = r.ledger
        /\ broken' = IF r.ok THEN broken ELSE broken \cup {"release"}
        /\ UNCHANGED <<accounted, spills, caches, failing, last>>
    BY DEF CloseScratch
  <1>2. /\ r.ledger \in Ledger /\ r.ledger.budgets = ledger.budgets
        /\ r.ledger.retained = ledger.retained /\ r.ledger.scratch = Top.mark
    BY <1>1, CloseReleases
  <1> HIDE DEF r
  <1>3. Active /\ Top.kind = "scratch" /\ broken' \in SUBSET Assertions
    BY <1>1, Basics DEF In, Assertions
  <1>4. Len(frames) > 1
    BY <1>3, TopFacts DEF LedgerInv
  <1>5. QED BY <1>1, <1>2, <1>3, <1>4, Basics, PopStep

\* A preparation always finds at least the scratch that was in use before it.
LEMMA PrepareReleases ==
    ASSUME LedgerInv, In({"prepare"})
    PROVE  LET r == ReleaseScratchTo(ledger, Top.mark)
           IN  /\ r.ok /\ r.ledger \in Ledger
               /\ r.ledger.budgets = ledger.budgets
               /\ r.ledger.retained = ledger.retained
               /\ r.ledger.scratch = Top.mark
               /\ r.ledger.exhausted = ledger.exhausted
  <1>1. Active /\ Top.kind = "prepare"
    BY DEF In
  <1>2. Top.mark \in Nat /\ ledger.scratch >= Top.mark /\ ledger.scratch \in Nat
    BY <1>1, Basics DEF Joined, Frame
  <1>3. Top.mark <= ledger.scratch
    BY <1>2
  <1>4. QED BY <1>2, <1>3, Basics, ReleaseFacts

\* A preparation is left, or begun again, at the scratch it was opened at.
LEMMA StepEndPrepare ==
    ASSUME LedgerInv, NEW routed \in BOOLEAN, EndPrepare(routed)
    PROVE  LedgerInv'
  <1> DEFINE r == ReleaseScratchTo(ledger, Top.mark)
             retry == /\ routed
                      /\ failing = "stale"
                      /\ r.ok
                      /\ Top.tries < MaxTransientPreparationRetries
  <1>1. /\ In({"prepare"}) /\ ledger' = r.ledger
        /\ frames' = IF retry THEN [frames EXCEPT ![Len(frames)].tries = @ + 1] ELSE Pop
        /\ failing' = CASE retry -> "no" [] r.ok /\ ~retry -> failing [] OTHER -> "error"
        /\ UNCHANGED <<accounted, spills, caches, broken, last>>
    BY DEF EndPrepare
  <1>2. /\ r.ok /\ r.ledger \in Ledger /\ r.ledger.budgets = ledger.budgets
        /\ r.ledger.retained = ledger.retained /\ r.ledger.scratch = Top.mark
    BY <1>1, PrepareReleases
  <1> HIDE DEF r
  <1>3. Active /\ Top.kind = "prepare"
    BY <1>1 DEF In
  <1>4. Len(frames) > 1
    BY <1>3, TopFacts DEF LedgerInv
  <1>5. CASE ~retry
    <2>1. frames' = Pop /\ failing' = failing
      BY <1>1, <1>2, <1>5
    <2>2. QED BY <1>1, <1>2, <1>3, <1>4, <2>1, Basics, PopStep
  <1>6. CASE retry
    <2>1. /\ frames' = [frames EXCEPT ![Len(frames)].tries = @ + 1]
          /\ failing = "stale" /\ failing' = "no"
      <3>1. failing = "stale"
        BY <1>6
      <3> HIDE DEF retry
      <3>2. QED BY <1>1, <1>6, <3>1
    <2>2. /\ frames \in Seq(Frame) /\ Top \in Frame /\ Len(frames) \in Nat \ {0}
          /\ frames[Len(frames)] = Top
      BY <1>3, Basics DEF Top
    <2>3. [Top EXCEPT !.tries = @ + 1] \in Frame
      <3>1. Top.tries + 1 \in Nat
        BY <2>2 DEF Frame
      <3>2. QED BY <2>2, <3>1 DEF Frame
    <2>4. /\ frames' \in Seq(Frame) /\ Len(frames') = Len(frames)
          /\ \A i \in 1 .. (Len(frames) - 1) : frames'[i] = frames[i]
          /\ frames'[Len(frames)] = [Top EXCEPT !.tries = @ + 1]
      BY <2>1, <2>2, <2>3
    <2>5. /\ frames'[Len(frames)].kind = "prepare"
          /\ frames'[Len(frames)].mark = Top.mark
      BY <1>3, <2>2, <2>4 DEF Frame
    <2>6. Top' = frames'[Len(frames)] /\ Active'
      BY <1>4, <2>2, <2>4 DEF Top, Active
    <2>7. ScopesOK(frames', ledger'.scratch)
      <3>1. /\ ScopesOK(frames, ledger.scratch) /\ ledger.scratch \in Nat
            /\ ledger'.scratch \in Nat /\ Top.mark \in Nat
        BY <1>1, <1>2, <2>2, Basics DEF LedgerInv, Ledger, Frame
      <3>2. \A i \in 1 .. Len(frames) : /\ frames'[i].kind = frames[i].kind
                                        /\ frames'[i].mark = frames[i].mark
        <4> TAKE i \in 1 .. Len(frames)
        <4>1. CASE i = Len(frames)
          BY <1>3, <2>2, <2>5, <4>1
        <4>2. CASE i # Len(frames)
          <5>1. i \in 1 .. (Len(frames) - 1)
            BY <2>2, <4>2
          <5>2. QED BY <2>4, <5>1
        <4>3. QED BY <4>1, <4>2
      <3>3. Joined(frames'[Len(frames)], ledger'.scratch)
        BY <1>1, <1>2, <2>5, <3>1 DEF Joined
      <3>4. QED BY <1>4, <2>2, <2>4, <3>1, <3>2, <3>3, SameScopes
    <2>8. LedgerTypeOK'
      BY <1>1, <1>2, <2>1, <2>4 DEF LedgerInv, LedgerTypeOK
    <2>9. AccountedIsReserved' /\ RunningWithinBudget'
      BY <1>1, <1>2, <1>3, <2>1 DEF LedgerInv, AccountedIsReserved, RunningWithinBudget
    <2>10. HeldIsAdmitted'
      BY <1>1, <1>2, <1>3, <2>5, <2>6 DEF LedgerInv, HeldIsAdmitted
    <2>11. QED BY <2>6, <2>7, <2>8, <2>9, <2>10 DEF LedgerInv
  <1>7. QED BY <1>5, <1>6

\* A smaller amount is within a limit that a larger one is within.
LEMMA WithinLess ==
    ASSUME NEW b \in Budget, NEW n \in Nat, NEW m \in Nat, n <= m, Within(m, b.retained)
    PROVE  Within(n, b.retained)
  <1>1. b.retained \in Nat \cup {Unlimited}
    BY DEF Budget, Limit
  <1>2. QED BY <1>1 DEF Within, Unlimited

\* What the reconciliation of the running request does.
LEMMA ReconcilingFacts ==
    ASSUME LedgerInv, Active
    PROVE  LET held == Held(Trimmed(spills), caches)
               r == Reconciled(ledger, accounted, held)
           IN  /\ held \in Nat
               /\ Trimmed(spills) \in [len : Nat, cap : Nat]
               /\ r.ledger \in Ledger
               /\ r.accounted = held
               /\ r.ledger.retained = held
               /\ r.ledger.scratch = ledger.scratch
               /\ r.ledger.budgets = ledger.budgets
               /\ r.ok \in BOOLEAN
               /\ r.ok => r.ledger.exhausted = ledger.exhausted
               /\ failing # "error" => Within(held, ledger.budgets.retained)
  <1> DEFINE held == Held(Trimmed(spills), caches)
             r == Reconciled(ledger, accounted, held)
  <1>1. /\ ledger \in Ledger /\ ledger.retained = accounted /\ ledger.retained \in Nat
        /\ ledger.budgets \in Budget
    BY Basics, BudgetsAssumption
  <1>2. /\ held \in Nat /\ Trimmed(spills) \in [len : Nat, cap : Nat]
        /\ held <= Held(spills, caches) /\ Held(spills, caches) \in Nat
    BY Basics, HeldFacts
  <1>3. held <= ledger.retained
    <2> DEFINE k == IF Top.kind = "select" THEN Top.bytes ELSE 0
    <2>1. k \in Nat
      BY Basics DEF Frame
    <2>2. Held(spills, caches) + k <= ledger.retained
      BY DEF LedgerInv, HeldIsAdmitted
    <2> HIDE DEF k, held
    <2>3. QED BY <1>1, <1>2, <2>1, <2>2
  <1> HIDE DEF held
  <1>4. failing # "error" => Within(held, ledger.budgets.retained)
    <2>1. failing # "error" => Within(ledger.retained, ledger.budgets.retained)
      BY DEF LedgerInv, RunningWithinBudget
    <2>2. QED BY <1>1, <1>2, <1>3, <2>1, WithinLess
  <1>5. /\ r.ledger \in Ledger
        /\ r.accounted = held
        /\ r.ledger.retained = held
        /\ r.ledger.scratch = ledger.scratch
        /\ r.ledger.budgets = ledger.budgets
        /\ r.ok \in BOOLEAN
        /\ r.ok => r.ledger.exhausted = ledger.exhausted
    BY <1>1, <1>2, ReconciledFacts
  <1>6. QED BY <1>2, <1>4, <1>5 DEF held

\* A selection is left after what it published has been observed.
LEMMA StepEndSelect ==
    ASSUME LedgerInv, EndSelect
    PROVE  LedgerInv'
  <1> DEFINE held == Held(Trimmed(spills), caches)
             r == Reconciled(ledger, accounted, held)
  <1>1. Active /\ Top.kind = "select"
    BY DEF EndSelect, In
  <1>2. /\ frames' = Pop /\ ledger' = r.ledger /\ accounted' = r.accounted
        /\ spills' = Trimmed(spills)
        /\ failing' = IF failing = "no" /\ ~r.ok THEN "error" ELSE failing
        /\ UNCHANGED <<caches, broken, last>>
    BY DEF EndSelect, Reconcile
  <1>3. /\ held \in Nat
        /\ Trimmed(spills) \in [len : Nat, cap : Nat]
        /\ r.ledger \in Ledger
        /\ r.accounted = held
        /\ r.ledger.retained = held
        /\ r.ledger.scratch = ledger.scratch
        /\ r.ledger.budgets = ledger.budgets
        /\ failing # "error" => Within(held, ledger.budgets.retained)
    BY <1>1, ReconcilingFacts
  <1> HIDE DEF r
  <1>4. /\ Len(frames) > 1 /\ Pop \in Seq(Frame) /\ Pop # << >>
        /\ Pop[Len(Pop)].kind = "prepare"
    BY <1>1, TopFacts DEF LedgerInv
  <1>5. Active' /\ Top'.kind = "prepare"
    BY <1>2, <1>4 DEF Active, Top
  <1>6. LedgerTypeOK'
    BY <1>2, <1>3, <1>4 DEF LedgerInv, LedgerTypeOK
  <1>7. AccountedIsReserved' /\ RunningWithinBudget'
    BY <1>2, <1>3 DEF AccountedIsReserved, RunningWithinBudget
  <1>8. HeldIsAdmitted'
    <2>1. held + 0 <= ledger'.retained
      <3> HIDE DEF held
      <3>1. QED BY <1>2, <1>3
    <2>2. QED BY <1>2, <1>5, <2>1 DEF HeldIsAdmitted
  <1>9. ScopesOK(frames', ledger'.scratch)
    <2>1. /\ frames \in Seq(Frame) /\ frames # << >> /\ ledger.scratch \in Nat
          /\ ScopesOK(frames, ledger.scratch)
          /\ frames[Len(frames)].kind = "select"
          /\ ledger.scratch >= frames[Len(frames)].mark
      BY <1>1, Basics DEF LedgerInv, Active, Joined, Top
    <2>2. ScopesOK(Pop, ledger.scratch)
      BY <2>1, PopScopes DEF Pop
    <2>3. QED BY <1>2, <1>3, <2>2
  <1>10. QED BY <1>5, <1>6, <1>7, <1>8, <1>9 DEF LedgerInv

\* The outermost request begins with what earlier requests left.
LEMMA StepBeginRequest ==
    ASSUME LedgerInv, NEW b \in Budgets, BeginRequest(b)
    PROVE  LedgerInv'
  <1> DEFINE l == NewLedger(b)
             f == Scope("request", 0, 0, FALSE)
             held == Held(Trimmed(spills), caches)
             r == Reconciled(l, 0, held)
  <1>1. l \in Ledger /\ l.retained = 0 /\ l.scratch = 0 /\ l.budgets = b
    BY DEF NewLedger, Ledger
  <1>2. /\ held \in Nat /\ Trimmed(spills) \in [len : Nat, cap : Nat]
    BY Basics, HeldFacts
  <1>3. failing = "no"
    BY DEF BeginRequest, LedgerInv
  <1>4. /\ frames' = << f >> /\ ledger' = r.ledger /\ accounted' = r.accounted
        /\ spills' = Trimmed(spills)
        /\ failing' = IF ~r.ok THEN "error" ELSE "no"
        /\ broken' = {} /\ UNCHANGED <<caches, last>>
    BY <1>3 DEF BeginRequest, Reconcile
  <1>5. f \in Frame /\ f.kind = "request" /\ f.mark = 0
    BY DEF Scope, Frame
  <1> HIDE DEF l, held, f
  <1>6. /\ r.ledger \in Ledger /\ r.accounted = held /\ r.ledger.retained = held
        /\ r.ledger.scratch = 0 /\ r.ledger.budgets = b
        /\ r.ok \in BOOLEAN
        /\ r.ok => Within(held, b.retained)
    <2> DEFINE q == Reconciled(l, l.retained, held)
    <2>1. /\ q.ledger \in Ledger /\ q.accounted = held /\ q.ledger.retained = held
          /\ q.ledger.scratch = l.scratch /\ q.ledger.budgets = l.budgets
          /\ q.ok \in BOOLEAN
          /\ q.ok => Within(held, l.budgets.retained)
      BY <1>1, <1>2, ReconciledFacts
    <2>2. r = q
      BY <1>1
    <2> HIDE DEF q, r
    <2>3. QED BY <1>1, <2>1, <2>2
  <1> HIDE DEF r
  <1>7. /\ frames' \in Seq(Frame) /\ Len(frames') = 1 /\ frames'[1] = f /\ frames' # << >>
    BY <1>4, <1>5
  <1>8. Active' /\ Top'.kind = "request"
    BY <1>5, <1>7 DEF Active, Top
  <1>9. LedgerTypeOK'
    BY <1>2, <1>4, <1>6, <1>7 DEF LedgerInv, LedgerTypeOK
  <1>10. AccountedIsReserved' /\ RunningWithinBudget'
    BY <1>4, <1>6 DEF AccountedIsReserved, RunningWithinBudget
  <1>11. HeldIsAdmitted'
    <2>1. held + 0 <= ledger'.retained
      BY <1>2, <1>4, <1>6
    <2>2. QED BY <1>4, <1>8, <2>1 DEF HeldIsAdmitted, held
  <1>12. ScopesOK(frames', ledger'.scratch)
    <2>1. ledger'.scratch = 0
      BY <1>4, <1>6
    <2>2. SUFFICES ASSUME NEW i \in 1 .. Len(frames')
                   PROVE  /\ Joined(frames'[i], IF i < Len(frames') THEN frames'[i + 1].mark
                                                ELSE ledger'.scratch)
                          /\ frames'[i].mark = 0 /\ frames'[i].kind = "request"
      BY DEF ScopesOK
    <2>3. i = 1 /\ frames'[i] = f /\ ~(i < Len(frames'))
      BY <1>7
    <2>4. QED BY <1>5, <2>1, <2>3 DEF Joined
  <1>13. QED BY <1>8, <1>9, <1>10, <1>11, <1>12 DEF LedgerInv

\* A nested request leaves everything alone; the outermost one ends the ledger.
LEMMA StepEndRequest ==
    ASSUME LedgerInv, EndRequest
    PROVE  LedgerInv'
  <1>1. Active /\ Top.kind = "request" /\ frames' = Pop /\ UNCHANGED <<caches, broken>>
    BY DEF EndRequest, In
  <1>2. Len(frames) \in Nat \ {0} /\ Pop \in Seq(Frame) /\ Len(Pop) = Len(frames) - 1
    BY <1>1, TopFacts DEF LedgerInv
  <1>3. CASE Len(frames) > 1
    <2>1. UNCHANGED <<ledger, accounted, spills, failing, last>>
      BY <1>3 DEF EndRequest
    <2>2. ledger.scratch = Top.mark
      BY <1>1, Basics DEF Joined
    <2>3. QED BY <1>1, <1>3, <2>1, <2>2, Basics, PopStep
  <1>4. CASE ~(Len(frames) > 1)
    <2> DEFINE held == Held(Trimmed(spills), caches)
               r == Reconciled(ledger, accounted, held)
    <2>1. /\ ledger' = [r.ledger EXCEPT !.scratch = 0] /\ accounted' = r.accounted
          /\ spills' = Trimmed(spills) /\ failing' = "no"
          /\ last' = [ok |-> failing = "no" /\ r.ok, exhausted |-> r.ledger.exhausted,
                      broken |-> broken]
      BY <1>4 DEF EndRequest
    <2>2. /\ held \in Nat /\ Trimmed(spills) \in [len : Nat, cap : Nat]
          /\ r.ledger \in Ledger /\ r.accounted = held /\ r.ok \in BOOLEAN
      BY <1>1, ReconcilingFacts
    <2> HIDE DEF r, held
    <2>3. ledger' \in Ledger /\ last' \in [ok : BOOLEAN, exhausted : BOOLEAN, broken : SUBSET Assertions]
      BY <2>1, <2>2, Basics DEF Ledger
    <2>4. Len(frames') = 0 /\ frames' \in Seq(Frame)
      BY <1>1, <1>2, <1>4
    <2>5. ~Active'
      BY <2>4 DEF Active
    <2>6. LedgerTypeOK'
      BY <1>1, <2>1, <2>2, <2>3, <2>4 DEF LedgerInv, LedgerTypeOK
    <2>7. ScopesOK(frames', ledger'.scratch)
      BY <2>4 DEF ScopesOK
    <2>8. QED BY <2>1, <2>5, <2>6, <2>7
              DEF LedgerInv, AccountedIsReserved, HeldIsAdmitted, RunningWithinBudget
  <1>5. QED BY <1>3, <1>4

-----------------------------------------------------------------------------
(* The actions that change what is held.                                   *)

\* The innermost scope with another number of bytes, and more scratch, if any,
\* only in a selection.
LEMMA BytesStep ==
    ASSUME LedgerInv, Active, Top.kind = "select", NEW k \in Nat,
           frames' = [frames EXCEPT ![Len(frames)].bytes = k],
           ledger'.scratch \in Nat, ledger'.scratch >= ledger.scratch
    PROVE  /\ frames' \in Seq(Frame) /\ Active'
           /\ Top'.kind = "select" /\ Top'.bytes = k
           /\ ScopesOK(frames', ledger'.scratch)
  <1>1. /\ frames \in Seq(Frame) /\ Top \in Frame /\ Len(frames) \in Nat \ {0}
        /\ frames[Len(frames)] = Top /\ ledger.scratch \in Nat
        /\ ledger.scratch >= Top.mark /\ Top.mark \in Nat
    BY Basics DEF Top, Joined, Frame
  <1>2. [Top EXCEPT !.bytes = k] \in Frame
    BY <1>1 DEF Frame
  <1>3. /\ frames' \in Seq(Frame) /\ Len(frames') = Len(frames)
        /\ \A i \in 1 .. (Len(frames) - 1) : frames'[i] = frames[i]
        /\ frames'[Len(frames)] = [Top EXCEPT !.bytes = k]
    BY <1>1, <1>2
  <1>4. /\ frames'[Len(frames)].kind = "select"
        /\ frames'[Len(frames)].mark = Top.mark
        /\ frames'[Len(frames)].bytes = k
    BY <1>1, <1>3 DEF Frame
  <1>5. Top' = frames'[Len(frames)] /\ Active'
    BY <1>1, <1>3 DEF Top, Active
  <1>6. ScopesOK(frames', ledger'.scratch)
    <2>1. \A i \in 1 .. Len(frames) : /\ frames'[i].kind = frames[i].kind
                                      /\ frames'[i].mark = frames[i].mark
      <3> TAKE i \in 1 .. Len(frames)
      <3>1. CASE i = Len(frames)
        BY <1>1, <1>4, <3>1
      <3>2. CASE i # Len(frames)
        <4>1. i \in 1 .. (Len(frames) - 1)
          BY <1>1, <3>2
        <4>2. QED BY <1>3, <4>1
      <3>3. QED BY <3>1, <3>2
    <2>2. Joined(frames'[Len(frames)], ledger'.scratch)
      BY <1>1, <1>4 DEF Joined
    <2>3. ScopesOK(frames, ledger.scratch) /\ frames # << >>
      BY DEF LedgerInv, Active
    <2>4. QED BY <1>1, <1>3, <2>1, <2>2, <2>3, SameScopes
  <1>7. QED BY <1>3, <1>4, <1>5, <1>6

\* What a selection publishes it had admitted.
LEMMA StepPublish ==
    ASSUME LedgerInv, NEW n \in Sizes, Publish(n)
    PROVE  LedgerInv'
  <1>1. n \in Nat
    BY SizesAssumption
  <1>2. /\ Active /\ Top.kind = "select" /\ n <= Top.bytes
        /\ caches' = caches + n
        /\ frames' = [frames EXCEPT ![Len(frames)].bytes = @ - n]
        /\ UNCHANGED <<ledger, accounted, spills, failing, broken, last>>
    BY DEF Publish, In
  <1>3. /\ Top.bytes \in Nat /\ Top.bytes - n \in Nat /\ caches \in Nat
        /\ ledger.scratch \in Nat /\ ledger.retained \in Nat
    <2>1. /\ caches \in Nat /\ ledger.scratch \in Nat /\ ledger.retained \in Nat
          /\ Top \in Frame
      BY <1>2, Basics
    <2>2. Top.bytes \in Nat
      BY <2>1 DEF Frame
    <2> DEFINE b == Top.bytes
    <2>3. b \in Nat /\ n <= b
      BY <1>2, <2>2
    <2> HIDE DEF b
    <2>4. b - n \in Nat
      BY ONLY <1>1, <2>3
    <2> QED BY <2>1, <2>2, <2>4 DEF b
  <1>4. frames' = [frames EXCEPT ![Len(frames)].bytes = Top.bytes - n]
    BY <1>2 DEF Top
  <1>5. /\ frames' \in Seq(Frame) /\ Active'
        /\ Top'.kind = "select" /\ Top'.bytes = Top.bytes - n
        /\ ScopesOK(frames', ledger'.scratch)
    <2>1. ledger'.scratch \in Nat /\ ledger'.scratch >= ledger.scratch
      BY <1>2, <1>3
    <2>2. QED BY <1>2, <1>3, <1>4, <2>1, BytesStep
  <1>6. LedgerTypeOK'
    BY <1>1, <1>2, <1>3, <1>5 DEF LedgerInv, LedgerTypeOK
  <1>7. AccountedIsReserved' /\ RunningWithinBudget'
    BY <1>2 DEF LedgerInv, AccountedIsReserved, RunningWithinBudget
  <1>8. HeldIsAdmitted'
    <2>1. Held(spills, caches) + Top.bytes <= ledger.retained
      BY <1>2 DEF LedgerInv, HeldIsAdmitted
    <2>2. Held(spills, caches) \in Nat /\ Held(spills, caches + n) = Held(spills, caches) + n
      BY <1>1, Basics, HeldFacts, HeldCaches
    <2>3. Held(spills, caches + n) + (Top.bytes - n) <= ledger.retained
      BY <1>1, <1>3, <2>1, <2>2
    <2>4. QED BY <1>2, <1>5, <2>3 DEF HeldIsAdmitted
  <1>9. QED BY <1>5, <1>6, <1>7, <1>8 DEF LedgerInv

\* A step of a selection, or one that stays in its scope, after which the ledger
\* has admitted d bytes more, and no more than that is held or may be published.
LEMMA AdmitStep ==
    ASSUME LedgerInv, Active, NEW d \in Nat,
           ledger' \in Ledger, ledger'.retained = ledger.retained + d,
           ledger'.budgets = ledger.budgets,
           failing' \in {"no", "error"},
           failing' = "no" => Within(ledger'.retained, ledger'.budgets.retained),
           accounted' = accounted + d,
           spills' \in [len : Nat, cap : Nat], caches' \in Nat, broken' \in SUBSET Assertions,
           last' = last,
           frames' \in Seq(Frame), Active',
           ScopesOK(frames', ledger'.scratch),
           Held(spills', caches') + (IF Top'.kind = "select" THEN Top'.bytes ELSE 0)
              <= ledger'.retained
    PROVE  LedgerInv'
  <1>1. LedgerTypeOK'
    BY Basics DEF LedgerInv, LedgerTypeOK
  <1>2. AccountedIsReserved' /\ RunningWithinBudget' /\ HeldIsAdmitted'
    BY Basics DEF AccountedIsReserved, RunningWithinBudget, HeldIsAdmitted
  <1>3. QED BY <1>1, <1>2 DEF LedgerInv

\* Each of the three outcomes of a backend's checkpoint keeps the invariant.
LEMMA StepSelectCheckpoint ==
    ASSUME LedgerInv, NEW units \in {0, 1}, NEW n \in Sizes, SelectCheckpoint(units, n)
    PROVE  LedgerInv'
  <1> DEFINE c == ChargeWork(ledger, units)
             k == IF Top.retained THEN ReserveRetained(c.ledger, n) ELSE Accepted(c.ledger)
             g == ReserveGraphSource(k.ledger, n)
  <1>1. n \in Nat /\ units \in Nat
    BY SizesAssumption
  <1>2. /\ Active /\ Top.kind = "select" /\ failing = "no"
        /\ ledger' = CASE ~c.ok -> c.ledger [] c.ok /\ ~k.ok -> k.ledger [] OTHER -> g.ledger
        /\ failing' = IF c.ok /\ k.ok /\ g.ok THEN "no" ELSE "error"
        /\ accounted' = IF c.ok /\ k.ok /\ Top.retained THEN accounted + n ELSE accounted
        /\ frames' = IF c.ok /\ k.ok /\ g.ok /\ Top.retained
                     THEN [frames EXCEPT ![Len(frames)].bytes = @ + n] ELSE frames
        /\ UNCHANGED <<spills, caches, broken, last>>
    BY DEF SelectCheckpoint, Running, In
  <1>3. /\ ledger \in Ledger /\ ledger.retained \in Nat /\ ledger.scratch \in Nat
        /\ Top \in Frame /\ Top.bytes \in Nat /\ Top.retained \in BOOLEAN
        /\ Joined(Top, ledger.scratch)
        /\ accounted \in Nat /\ spills \in [len : Nat, cap : Nat] /\ caches \in Nat
        /\ broken \in SUBSET Assertions /\ frames \in Seq(Frame)
    BY <1>2, Basics DEF Frame
  <1>4. /\ c.ok \in BOOLEAN /\ c.ledger \in Ledger /\ c.ledger.budgets = ledger.budgets
        /\ c.ledger.retained = ledger.retained /\ c.ledger.scratch = ledger.scratch
    BY <1>1, <1>3, ReserveFacts
  <1> HIDE DEF c
  <1> DEFINE d == IF k.ok /\ Top.retained THEN n ELSE 0
  <1>5. /\ k.ok \in BOOLEAN /\ k.ledger \in Ledger /\ k.ledger.budgets = ledger.budgets
        /\ k.ledger.scratch = ledger.scratch
        /\ k.ledger.retained = ledger.retained + d
        /\ k.ok => Within(k.ledger.retained, ledger.budgets.retained)
    <2>1. CASE Top.retained
      <3>1. k = ReserveRetained(c.ledger, n)
        BY <2>1
      <3>2. /\ ReserveRetained(c.ledger, n).ok \in BOOLEAN
            /\ ReserveRetained(c.ledger, n).ledger \in Ledger
            /\ ReserveRetained(c.ledger, n).ledger.budgets = c.ledger.budgets
            /\ ReserveRetained(c.ledger, n).ledger.scratch = c.ledger.scratch
            /\ ReserveRetained(c.ledger, n).ok =>
                  /\ ReserveRetained(c.ledger, n).ledger.retained = c.ledger.retained + n
                  /\ Within(c.ledger.retained + n, c.ledger.budgets.retained)
            /\ ~ReserveRetained(c.ledger, n).ok =>
                  ReserveRetained(c.ledger, n).ledger.retained = c.ledger.retained
        BY <1>1, <1>4, ReserveFacts
      <3> HIDE DEF k
      <3>3. CASE k.ok
        <4>1. d = n
          BY <2>1, <3>3
        <4>2. QED BY <1>4, <3>1, <3>2, <3>3, <4>1
      <3>4. CASE ~k.ok
        <4>1. d = 0 /\ ledger.retained + 0 = ledger.retained
          BY <1>3, <3>4
        <4>2. QED BY <1>4, <3>1, <3>2, <3>4, <4>1
      <3>5. QED BY <3>3, <3>4
    <2>2. CASE ~Top.retained
      <3>1. k.ok = TRUE /\ k.ledger = c.ledger /\ d = 0
        BY <2>2 DEF Accepted
      <3>2. Within(ledger.retained, ledger.budgets.retained)
        BY <1>2 DEF LedgerInv, RunningWithinBudget
      <3> HIDE DEF k, d
      <3>3. k.ledger.retained = ledger.retained /\ ledger.retained + d = ledger.retained
        BY <1>3, <1>4, <3>1
      <3>4. Within(k.ledger.retained, ledger.budgets.retained)
        BY <3>2, <3>3
      <3>5. QED BY <1>4, <3>1, <3>3, <3>4
    <2>3. QED BY <1>3, <2>1, <2>2
  <1> HIDE DEF k
  <1>6. /\ g.ok \in BOOLEAN /\ g.ledger \in Ledger /\ g.ledger.budgets = k.ledger.budgets
        /\ g.ledger.retained = k.ledger.retained
        /\ g.ok => g.ledger.scratch = k.ledger.scratch + n
        /\ ~g.ok => g.ledger.scratch = k.ledger.scratch
    BY <1>1, <1>5, ReserveFacts
  <1> HIDE DEF g
  <1>7. Held(spills, caches) + Top.bytes <= ledger.retained /\ Held(spills, caches) \in Nat
    <2>1. Held(spills, caches) \in Nat
      BY <1>3, HeldFacts
    <2>2. QED BY <1>2, <2>1 DEF LedgerInv, HeldIsAdmitted
  <1>8. CASE ~c.ok
    <2>1. /\ ledger' = c.ledger /\ failing' = "error"
          /\ UNCHANGED <<accounted, spills, caches, frames, broken, last>>
      BY <1>2, <1>8
    <2>2. QED BY <1>2, <1>3, <1>4, <2>1, LedgerStep
  <1>9. CASE c.ok /\ ~k.ok
    <2>1. /\ ledger' = k.ledger /\ failing' = "error"
          /\ UNCHANGED <<accounted, spills, caches, frames, broken, last>>
      BY <1>2, <1>9
    <2>2. ledger'.retained = ledger.retained
      BY <1>3, <1>5, <1>9, <2>1
    <2>3. QED BY <1>2, <1>3, <1>5, <2>1, <2>2, LedgerStep
  <1>10. CASE c.ok /\ k.ok
    <2>1. /\ ledger' = g.ledger /\ d \in Nat /\ accounted' = accounted + d
          /\ failing' = IF g.ok THEN "no" ELSE "error"
          /\ UNCHANGED <<spills, caches, broken, last>>
      BY <1>1, <1>2, <1>3, <1>10
    <2>2. /\ ledger' \in Ledger /\ ledger'.budgets = ledger.budgets
          /\ ledger'.retained = ledger.retained + d
          /\ Within(ledger'.retained, ledger'.budgets.retained)
      BY <1>5, <1>6, <1>10, <2>1
    <2>3. ledger'.scratch \in Nat /\ ledger'.scratch >= ledger.scratch
      BY <1>1, <1>3, <1>5, <1>6, <2>1
    <2>4. CASE g.ok /\ Top.retained
      <3>1. frames' = [frames EXCEPT ![Len(frames)].bytes = Top.bytes + n] /\ d = n
        BY <1>2, <1>10, <2>4 DEF Top
      <3>2. /\ frames' \in Seq(Frame) /\ Active' /\ Top'.kind = "select"
            /\ Top'.bytes = Top.bytes + n /\ ScopesOK(frames', ledger'.scratch)
        <4>1. Top.bytes + n \in Nat
          BY <1>1, <1>3
        <4>2. QED BY <1>2, <2>3, <3>1, <4>1, BytesStep
      <3>3. Held(spills, caches) + (Top.bytes + n) <= ledger.retained + d
        BY <1>1, <1>3, <1>7, <3>1
      <3>4. QED BY <1>2, <1>3, <2>1, <2>2, <3>2, <3>3, AdmitStep
    <2>5. CASE ~(g.ok /\ Top.retained)
      <3>1. frames' = frames /\ Active'
        BY <1>2, <2>5 DEF Active
      <3>2. Top' = Top
        BY <3>1 DEF Top
      <3>3. ScopesOK(frames, ledger'.scratch)
        <4>1. Joined(frames[Len(frames)], ledger'.scratch)
          <5>1. Top.mark \in Nat /\ ledger.scratch >= Top.mark
            BY <1>2, <1>3 DEF Joined, Frame
          <5>2. ledger'.scratch >= Top.mark
            BY <1>3, <2>3, <5>1
          <5>3. QED BY <1>2, <5>2 DEF Joined, Top
        <4>2. ScopesOK(frames, ledger.scratch) /\ frames # << >>
          BY <1>2 DEF LedgerInv, Active
        <4>3. QED BY <1>3, <2>3, <4>1, <4>2, SameScopes
      <3>4. Held(spills, caches) + Top.bytes <= ledger.retained + d
        <4>1. QED BY <1>3, <1>7, <2>1
      <3>5. QED BY <1>2, <1>3, <2>1, <2>2, <3>1, <3>2, <3>3, <3>4, AdmitStep
    <2>6. QED BY <2>4, <2>5
  <1>11. QED BY <1>4, <1>5, <1>8, <1>9, <1>10

\* Each of the four outcomes of remember_pending_spill keeps the invariant.
LEMMA StepRememberSpill ==
    ASSUME LedgerInv, NEW allocated \in BOOLEAN, RememberSpill(allocated)
    PROVE  LedgerInv'
  <1> DEFINE c == ChargeWork(ledger, 1)
             full == spills.len = spills.cap
             n == IF full THEN Additional * EntryBytes ELSE 0
             v == IF full THEN ReserveRetained(c.ledger, n) ELSE Accepted(c.ledger)
             u == ReleaseRetained(v.ledger, n)
             admitted == c.ok /\ v.ok
             grown == [len |-> spills.len + 1,
                       cap |-> IF full THEN spills.cap + Additional ELSE spills.cap]
  <1>1. /\ Active /\ Top.kind = "request" /\ failing = "no" /\ (full \/ allocated)
        /\ ledger' = CASE ~c.ok -> c.ledger
                       [] admitted /\ ~allocated -> u.ledger
                       [] OTHER -> v.ledger
        /\ accounted' = IF admitted /\ (allocated \/ ~u.ok) THEN accounted + n ELSE accounted
        /\ failing' = IF admitted /\ allocated THEN "no" ELSE "error"
        /\ spills' = IF admitted /\ allocated THEN grown ELSE spills
        /\ UNCHANGED <<caches, frames, broken, last>>
    BY DEF RememberSpill, Running, In
  <1>2. /\ ledger \in Ledger /\ ledger.retained \in Nat /\ ledger.scratch \in Nat
        /\ Joined(Top, ledger.scratch)
        /\ accounted \in Nat /\ caches \in Nat /\ broken \in SUBSET Assertions
        /\ spills \in [len : Nat, cap : Nat] /\ spills.len \in Nat /\ spills.cap \in Nat
        /\ frames \in Seq(Frame)
    BY <1>1, Basics
  <1>3. Additional \in Nat
    BY <1>2 DEF Additional
  <1>4. n \in Nat /\ grown \in [len : Nat, cap : Nat]
        /\ Held(grown, caches) = Held(spills, caches) + n
        /\ Held(spills, caches) \in Nat
    <2>1. spills.len + 1 \in Nat /\ Held(spills, caches) \in Nat
      <3>1. Held(spills, caches) \in Nat
        BY Basics, HeldFacts
      <3>2. QED BY <1>2, <3>1
    <2>2. CASE full
      <3>1. n = Additional * EntryBytes /\ grown = [len |-> spills.len + 1,
                                                    cap |-> spills.cap + Additional]
        BY <2>2
      <3>2. /\ Additional * EntryBytes \in Nat
            /\ Held([len |-> spills.len + 1, cap |-> spills.cap + Additional], caches)
                 = Held(spills, caches) + Additional * EntryBytes
        <4> DEFINE k == Additional
                   m == spills.len + 1
        <4>1. k \in Nat /\ spills \in [len : Nat, cap : Nat] /\ caches \in Nat /\ m \in Nat
          BY <1>2, <1>3, <2>1
        <4> HIDE DEF k, m
        <4>2. k * EntryBytes \in Nat /\ spills.cap * EntryBytes \in Nat
          BY <4>1, EntryAssumption
        <4>3. (spills.cap + k) * EntryBytes = spills.cap * EntryBytes + k * EntryBytes
          BY <4>1, EntryAssumption
        <4>4. Held([len |-> m, cap |-> spills.cap + k], caches)
                 = Held(spills, caches) + k * EntryBytes
          BY <4>1, <4>2, <4>3 DEF Held
        <4>5. QED BY <4>2, <4>4 DEF k, m
      <3>3. [len |-> spills.len + 1, cap |-> spills.cap + Additional]
               \in [len : Nat, cap : Nat]
        BY <1>2, <1>3, <2>1
      <3> HIDE DEF n, grown
      <3>4. QED BY <2>1, <3>1, <3>2, <3>3
    <2>3. CASE ~full
      <3>1. n = 0 /\ grown = [len |-> spills.len + 1, cap |-> spills.cap]
        BY <2>3
      <3>2. Held([len |-> spills.len + 1, cap |-> spills.cap], caches) = Held(spills, caches)
        BY DEF Held
      <3>3. [len |-> spills.len + 1, cap |-> spills.cap] \in [len : Nat, cap : Nat]
        BY <1>2, <2>1
      <3> HIDE DEF n, grown
      <3>4. QED BY <2>1, <3>1, <3>2, <3>3
    <2>4. QED BY <2>2, <2>3
  <1> HIDE DEF n, grown
  <1>5. /\ c.ok \in BOOLEAN /\ c.ledger \in Ledger /\ c.ledger.budgets = ledger.budgets
        /\ c.ledger.retained = ledger.retained /\ c.ledger.scratch = ledger.scratch
    BY <1>2, ReserveFacts
  <1> HIDE DEF c
  <1>6. /\ v.ok \in BOOLEAN /\ v.ledger \in Ledger /\ v.ledger.budgets = ledger.budgets
        /\ v.ledger.scratch = ledger.scratch
        /\ v.ok => /\ v.ledger.retained = ledger.retained + n
                   /\ Within(v.ledger.retained, ledger.budgets.retained)
        /\ ~v.ok => v.ledger.retained = ledger.retained
    <2>1. CASE full
      <3> DEFINE w == ReserveRetained(c.ledger, n)
      <3>1. /\ w.ok \in BOOLEAN /\ w.ledger \in Ledger
            /\ w.ledger.budgets = c.ledger.budgets
            /\ w.ledger.scratch = c.ledger.scratch
            /\ w.ok => /\ w.ledger.retained = c.ledger.retained + n
                       /\ Within(c.ledger.retained + n, c.ledger.budgets.retained)
            /\ ~w.ok => w.ledger.retained = c.ledger.retained
        BY <1>4, <1>5, ReserveFacts
      <3>2. v = w
        BY <2>1
      <3> HIDE DEF w, v
      <3>3. QED BY <1>5, <3>1, <3>2
    <2>2. CASE ~full
      <3>1. v.ok = TRUE /\ v.ledger = c.ledger /\ n = 0
        BY <2>2 DEF Accepted, n
      <3>2. Within(ledger.retained, ledger.budgets.retained)
        BY <1>1 DEF LedgerInv, RunningWithinBudget
      <3> HIDE DEF v
      <3>3. v.ledger.retained = ledger.retained /\ ledger.retained + n = ledger.retained
        BY <1>2, <1>5, <3>1
      <3>4. Within(v.ledger.retained, ledger.budgets.retained)
        BY <3>2, <3>3
      <3>5. QED BY <1>5, <3>1, <3>3, <3>4
    <2>3. QED BY <2>1, <2>2
  <1> HIDE DEF v
  <1>7. Held(spills, caches) <= ledger.retained
    <2>1. Held(spills, caches) + 0 <= ledger.retained
      BY <1>1 DEF LedgerInv, HeldIsAdmitted
    <2>2. QED BY <1>2, <1>4, <2>1
  <1> HIDE DEF full
  <1>8. CASE ~c.ok
    <2>1. /\ ledger' = c.ledger /\ failing' = "error"
          /\ UNCHANGED <<accounted, spills, caches, frames, broken, last>>
      BY <1>1, <1>8
    <2>2. QED BY <1>1, <1>2, <1>5, <2>1, LedgerStep
  <1>9. CASE c.ok /\ ~v.ok
    <2>1. /\ ledger' = v.ledger /\ failing' = "error"
          /\ UNCHANGED <<accounted, spills, caches, frames, broken, last>>
      BY <1>1, <1>9
    <2>2. QED BY <1>1, <1>2, <1>6, <1>9, <2>1, LedgerStep
  <1>10. CASE c.ok /\ v.ok /\ ~allocated
    <2>1. /\ u.ok /\ u.ledger \in Ledger
          /\ u.ledger.budgets = v.ledger.budgets
          /\ u.ledger.retained = v.ledger.retained - n
          /\ u.ledger.scratch = v.ledger.scratch
      <3>1. n <= v.ledger.retained
        BY <1>2, <1>4, <1>6, <1>10
      <3>2. QED BY <1>4, <1>6, <3>1, ReleaseFacts
    <2> HIDE DEF u
    <2>2. /\ ledger' = u.ledger /\ failing' = "error"
          /\ UNCHANGED <<accounted, spills, caches, frames, broken, last>>
      BY <1>1, <1>10, <2>1
    <2>3. ledger'.retained = ledger.retained
      BY <1>2, <1>4, <1>6, <1>10, <2>1, <2>2
    <2>4. QED BY <1>1, <1>2, <1>6, <2>1, <2>2, <2>3, LedgerStep
  <1>11. CASE c.ok /\ v.ok /\ allocated
    <2>1. /\ ledger' = v.ledger /\ failing' = "no" /\ spills' = grown
          /\ accounted' = accounted + n
          /\ UNCHANGED <<caches, frames, broken, last>>
      BY <1>1, <1>11
    <2>2. Active' /\ Top' = Top
      BY <1>1, <2>1 DEF Active, Top
    <2>3. ScopesOK(frames', ledger'.scratch)
      BY <1>6, <2>1 DEF LedgerInv
    <2>4. Held(spills', caches') + (IF Top'.kind = "select" THEN Top'.bytes ELSE 0)
             <= ledger'.retained
      <3>1. Held(grown, caches) + 0 <= v.ledger.retained
        BY <1>2, <1>4, <1>6, <1>7, <1>11
      <3>2. QED BY <1>1, <2>1, <2>2, <3>1
    <2>5. /\ ledger' \in Ledger /\ ledger'.retained = ledger.retained + n
          /\ ledger'.budgets = ledger.budgets
          /\ Within(ledger'.retained, ledger'.budgets.retained)
      BY <1>6, <1>11, <2>1
    <2>6. QED BY <1>1, <1>2, <1>4, <2>1, <2>2, <2>3, <2>4, <2>5, AdmitStep
  <1>12. QED BY <1>5, <1>6, <1>8, <1>9, <1>10, <1>11

-----------------------------------------------------------------------------
(* The invariant.                                                          *)

\* The invariant holds before the first request.
LEMMA LedgerInitially ==
    ASSUME LedgerInit
    PROVE  LedgerInv
  <1>1. PICK b \in Budgets : ledger = NewLedger(b)
    BY DEF LedgerInit
  <1>2. ledger \in Ledger
    BY <1>1 DEF NewLedger, Ledger
  <1>3. LedgerTypeOK
    <2>1. /\ accounted \in Nat /\ spills \in [len : Nat, cap : Nat] /\ caches \in Nat
          /\ frames \in Seq(Frame)
      BY DEF LedgerInit
    <2>2. /\ failing \in {"no", "stale", "error"} /\ broken \in SUBSET Assertions
          /\ last \in [ok : BOOLEAN, exhausted : BOOLEAN, broken : SUBSET Assertions]
      BY DEF LedgerInit, NoOutcome
    <2>3. QED BY <1>2, <2>1, <2>2 DEF LedgerTypeOK
  <1>4. ~Active /\ Len(frames) = 0 /\ failing = "no"
    BY DEF LedgerInit, Active
  <1>5. ScopesOK(frames, ledger.scratch)
    BY <1>4 DEF ScopesOK
  <1>6. QED BY <1>3, <1>4, <1>5
            DEF LedgerInv, AccountedIsReserved, HeldIsAdmitted, RunningWithinBudget

\* Every step keeps the invariant.
LEMMA LedgerSteps ==
    ASSUME LedgerInv, [LedgerNext]_ledgerVars
    PROVE  LedgerInv'
  <1>1. ASSUME NEW b \in Budgets, BeginRequest(b) PROVE LedgerInv'
    BY <1>1, StepBeginRequest
  <1>2. CASE BeginNested
    BY <1>2, StepBeginNested
  <1>3. CASE EndRequest
    BY <1>3, StepEndRequest
  <1>4. ASSUME NEW n \in Sizes, OpenScratch(n) PROVE LedgerInv'
    BY <1>4, StepOpenScratch
  <1>5. CASE CloseScratch
    BY <1>5, StepCloseScratch
  <1>6. CASE BeginPrepare
    BY <1>6, StepBeginPrepare
  <1>7. ASSUME NEW routed \in BOOLEAN, EndPrepare(routed) PROVE LedgerInv'
    BY <1>7, StepEndPrepare
  <1>8. ASSUME NEW n \in Sizes, ReserveSource(n) PROVE LedgerInv'
    BY <1>8, StepReserveSource
  <1>9. ASSUME NEW retained \in BOOLEAN, BeginSelect(retained) PROVE LedgerInv'
    BY <1>9, StepBeginSelect
  <1>10. ASSUME NEW units \in {0, 1}, NEW n \in Sizes, SelectCheckpoint(units, n) PROVE LedgerInv'
    BY <1>10, StepSelectCheckpoint
  <1>11. ASSUME NEW n \in Sizes, Publish(n) PROVE LedgerInv'
    BY <1>11, StepPublish
  <1>12. CASE EndSelect
    BY <1>12, StepEndSelect
  <1>13. ASSUME NEW n \in Sizes, PlanSchedule(n) PROVE LedgerInv'
    BY <1>13, StepPlanSchedule
  <1>14. ASSUME NEW units \in {1, 2}, Charge(units) PROVE LedgerInv'
    BY <1>14, StepCharge DEF Charge, Running, In
  <1>15. CASE RememberKnownSpill
    BY <1>15, StepCharge DEF RememberKnownSpill, Running, In
  <1>16. ASSUME NEW allocated \in BOOLEAN, RememberSpill(allocated) PROVE LedgerInv'
    BY <1>16, StepRememberSpill
  <1>17. CASE ForgetSpill
    BY <1>17, StepForgetSpill
  <1>18. CASE TopologyEdit
    BY <1>18, StepTopologyEdit
  <1>19. ASSUME NEW n \in 0 .. MaxCaches, DropCaches(n) PROVE LedgerInv'
    BY <1>19, StepDropCaches
  <1>20. ASSUME NEW deadline \in BOOLEAN, Stop(deadline) PROVE LedgerInv'
    BY <1>20, StepStop
  <1>21. CASE Stale
    BY <1>21, StepStale
  <1>22. CASE UNCHANGED ledgerVars
    BY <1>22 DEF ledgerVars, LedgerInv, LedgerTypeOK, AccountedIsReserved, HeldIsAdmitted,
                 RunningWithinBudget, Active, Top, ScopesOK
  <1>23. QED BY <1>1, <1>2, <1>3, <1>4, <1>5, <1>6, <1>7, <1>8, <1>9, <1>10, <1>11, <1>12,
                <1>13, <1>14, <1>15, <1>16, <1>17, <1>18, <1>19, <1>20, <1>21, <1>22 DEF LedgerNext

\* Well nested scopes that are all requests were opened with no scratch in use.
LEMMA RequestsHoldNoScratch ==
    ASSUME LedgerInv
    PROVE  ScratchPaired
  <1> SUFFICES ASSUME Active, \A i \in 1 .. Len(frames) : frames[i].kind = "request"
               PROVE  ledger.scratch = 0
    BY DEF ScratchPaired
  <1>1. Len(frames) \in Nat \ {0} /\ Len(frames) \in 1 .. Len(frames)
    BY Basics
  <1>2. \A j \in 1 .. (Len(frames) - 1) : frames[j].kind = "request"
    BY <1>1
  <1>3. frames[Len(frames)].mark = 0
    BY <1>1, <1>2 DEF LedgerInv, ScopesOK
  <1>4. Top.kind = "request" /\ Joined(Top, ledger.scratch)
    BY <1>1, Basics DEF Top
  <1>5. QED BY <1>3, <1>4 DEF Joined, Top

\* The inductive invariant holds always.
THEOREM Invariance == LedgerSpec => []LedgerInv
  <1>1. LedgerInit => LedgerInv
    BY LedgerInitially
  <1>2. LedgerInv /\ [LedgerNext]_ledgerVars => LedgerInv'
    BY LedgerSteps
  <1>3. QED BY <1>1, <1>2, PTL DEF LedgerSpec

\* The engine's and the ledger's counts never go below zero and its scopes are
\* the scopes of the code, for all budgets and sizes.
THEOREM LedgerTypeCorrect == LedgerSpec => []LedgerTypeOK
  <1>1. LedgerInv => LedgerTypeOK
    BY DEF LedgerInv
  <1>2. QED BY <1>1, Invariance, PTL

\* What the engine accounts is what the ledger has reserved, whatever succeeded
\* or failed, so the release at the start of a reconciliation cannot underflow.
THEOREM AccountsBalance == LedgerSpec => []AccountedIsReserved
  <1>1. LedgerInv => AccountedIsReserved
    BY DEF LedgerInv
  <1>2. QED BY <1>1, Invariance, PTL

\* Nothing that outlives a request was allocated before the ledger admitted it.
THEOREM AdmittedBeforeHeld == LedgerSpec => []HeldIsAdmitted
  <1>1. LedgerInv => HeldIsAdmitted
    BY DEF LedgerInv
  <1>2. QED BY <1>1, Invariance, PTL

\* A request works or retries only within its retained budget.
THEOREM WorksWithinBudget == LedgerSpec => []RunningWithinBudget
  <1>1. LedgerInv => RunningWithinBudget
    BY DEF LedgerInv
  <1>2. QED BY <1>1, Invariance, PTL

\* Every scope gives its scratch back, on every path.
THEOREM ScratchIsPaired == LedgerSpec => []ScratchPaired
  <1>1. LedgerInv => ScratchPaired
    BY RequestsHoldNoScratch
  <1>2. QED BY <1>1, Invariance, PTL

-----------------------------------------------------------------------------
(* Refusals.                                                               *)

\* A step of a request that turns every new exhaustion into an error and breaks
\* no assertion.
LEMMA CleanStep ==
    ASSUME Clean, Active, UNCHANGED <<broken, last>>, ledger'.budgets = ledger.budgets,
           ledger'.exhausted => ledger.exhausted \/ failing' = "error",
           failing = "error" => failing' = "error"
    PROVE  Clean'
  <1>1. AssertionsHold'
    BY DEF Clean, AssertionsHold
  <1>2. SuccessIsClean'
    BY DEF Clean, SuccessIsClean
  <1>3. ledger'.exhausted => failing' = "error" \/ "mixed" \in broken'
    BY DEF Clean
  <1>4. QED BY <1>1, <1>2, <1>3 DEF Clean

\* mark_topology_edited is refused, while a request works, only if the mixed
\* cache's limit lies below the limit for everything retained.
LEMMA MixedIsGranted ==
    ASSUME LedgerInv, Active, failing = "no"
    PROVE  \/ AccountMixedCache(ledger).ok /\ AccountMixedCache(ledger).ledger = ledger
           \/ /\ MixedBelow(ledger.budgets)
              /\ ~AccountMixedCache(ledger).ok
              /\ AccountMixedCache(ledger).ledger = Exhausted(ledger)
  <1> DEFINE b == ledger.budgets
  <1>1. /\ Within(ledger.retained, b.retained) /\ b \in Budgets /\ b \in Budget
        /\ ledger.retained \in Nat
    BY Basics, BudgetsAssumption DEF LedgerInv, RunningWithinBudget
  <1>2. b.retained \in Limit /\ b.mixed \in Limit
    BY <1>1 DEF Budget
  <1>3. \/ Within(ledger.retained, MixedCacheLimit(b))
        \/ MixedBelow(b)
    <2> HIDE DEF b
    <2>1. ASSUME ~MixedBelow(b) PROVE MixedCacheLimit(b) = b.retained
      BY <1>2, <2>1 DEF MixedBelow, MixedCacheLimit, MinimumLimit, Limit, Unlimited
    <2>2. QED BY <1>1, <2>1
  <1>4. QED BY <1>3 DEF AccountMixedCache, Admit, Accepted, Refused

\* No step drops another refusal.
LEMMA CleanNext ==
    ASSUME LedgerInv, Clean, [LedgerNext]_ledgerVars
    PROVE  Clean'
  <1>0. /\ ledger \in Ledger /\ failing \in {"no", "stale", "error"}
        /\ SuccessIsClean /\ AssertionsHold
        /\ Active /\ ledger.exhausted => failing = "error" \/ "mixed" \in broken
    BY Basics DEF Clean
  <1>1. ASSUME NEW b \in Budgets, BeginRequest(b) PROVE Clean'
    <2> DEFINE l == NewLedger(b)
               held == Held(Trimmed(spills), caches)
               r == Reconciled(l, 0, held)
               q == Reconciled(l, l.retained, held)
    <2>1. l \in Ledger /\ l.retained = 0 /\ l.exhausted = FALSE
      BY DEF NewLedger, Ledger
    <2>2. failing = "no"
      BY <1>1 DEF BeginRequest, LedgerInv
    <2>3. /\ ledger' = r.ledger /\ failing' = IF ~r.ok THEN "error" ELSE "no"
          /\ broken' = {} /\ last' = last
      BY <1>1, <2>2 DEF BeginRequest, Reconcile
    <2>4. held \in Nat
      BY Basics, HeldFacts
    <2> HIDE DEF l, held
    <2>5. q.ok => q.ledger.exhausted = l.exhausted
      BY <2>1, <2>4, ReconciledFacts
    <2>6. r = q
      BY <2>1
    <2> HIDE DEF r, q
    <2>7. AssertionsHold' /\ SuccessIsClean'
      BY <1>0, <2>3 DEF AssertionsHold, SuccessIsClean
    <2>8. QED BY <2>1, <2>3, <2>5, <2>6, <2>7 DEF Clean
  <1>2. CASE BeginNested
    BY <1>0, <1>2, CleanStep DEF BeginNested, Running, In
  <1>3. CASE EndRequest
    <2>1. Active /\ UNCHANGED broken
      BY <1>3 DEF EndRequest, In
    <2>2. CASE Len(frames) > 1
      <3>1. UNCHANGED <<ledger, failing, last>>
        BY <1>3, <2>2 DEF EndRequest
      <3>2. QED BY <1>0, <2>1, <3>1, CleanStep
    <2>3. CASE ~(Len(frames) > 1)
      <3> DEFINE r == Reconciled(ledger, accounted, Held(Trimmed(spills), caches))
      <3>1. /\ last' = [ok |-> failing = "no" /\ r.ok, exhausted |-> r.ledger.exhausted,
                        broken |-> broken]
            /\ ledger' = [r.ledger EXCEPT !.scratch = 0]
        BY <1>3, <2>3 DEF EndRequest
      <3>2. /\ r.ok => r.ledger.exhausted = ledger.exhausted
            /\ r.ledger \in Ledger /\ r.ledger.budgets = ledger.budgets
        BY <2>1, ReconcilingFacts
      <3> HIDE DEF r
      <3>3. SuccessIsClean'
        BY <1>0, <2>1, <3>1, <3>2 DEF SuccessIsClean
      <3>4. ~Active'
        <4>1. /\ Len(frames) \in Nat \ {0} /\ Pop \in Seq(Frame)
              /\ Len(Pop) = Len(frames) - 1
          BY <2>1, TopFacts DEF LedgerInv
        <4>2. frames' = Pop /\ Len(Pop) = 0
          BY <1>3, <2>3, <4>1 DEF EndRequest
        <4>3. QED BY <4>1, <4>2 DEF Active
      <3>5. ledger'.budgets = ledger.budgets
        BY <3>1, <3>2 DEF Ledger
      <3>6. QED BY <1>0, <2>1, <3>3, <3>4, <3>5 DEF Clean, AssertionsHold
    <2>4. QED BY <2>2, <2>3
  <1>4. ASSUME NEW n \in Sizes, OpenScratch(n) PROVE Clean'
    <2>1. /\ Active /\ ledger' = [ledger EXCEPT !.scratch = @ + n]
          /\ UNCHANGED <<failing, broken, last>>
      BY <1>4 DEF OpenScratch, Running, In
    <2>2. ledger'.exhausted = ledger.exhausted /\ ledger'.budgets = ledger.budgets
      BY <1>0, <2>1 DEF Ledger
    <2>3. QED BY <1>0, <2>1, <2>2, CleanStep
  <1>5. CASE CloseScratch
    <2> DEFINE r == ReleaseScratch(ledger, Top.bytes)
    <2>1. /\ In({"scratch"}) /\ ledger' = r.ledger
          /\ broken' = IF r.ok THEN broken ELSE broken \cup {"release"}
          /\ UNCHANGED <<failing, last>>
      BY <1>5 DEF CloseScratch
    <2>2. /\ r.ok /\ r.ledger.exhausted = ledger.exhausted
          /\ r.ledger.budgets = ledger.budgets
      BY <2>1, CloseReleases
    <2> HIDE DEF r
    <2>3. Active /\ broken' = broken
      BY <2>1, <2>2 DEF In
    <2>4. QED BY <1>0, <2>1, <2>2, <2>3, CleanStep
  <1>6. CASE BeginPrepare
    BY <1>0, <1>6, CleanStep DEF BeginPrepare, Running, In
  <1>7. ASSUME NEW routed \in BOOLEAN, EndPrepare(routed) PROVE Clean'
    <2> DEFINE r == ReleaseScratchTo(ledger, Top.mark)
    <2>1. /\ In({"prepare"}) /\ ledger' = r.ledger /\ UNCHANGED <<broken, last>>
      BY <1>7 DEF EndPrepare
    <2>2. /\ r.ok /\ r.ledger.exhausted = ledger.exhausted
          /\ r.ledger.budgets = ledger.budgets
      BY <2>1, PrepareReleases
    <2>3. failing = "error" => failing' = "error"
      BY <1>7, <2>2 DEF EndPrepare
    <2> HIDE DEF r
    <2>4. QED BY <1>0, <2>1, <2>2, <2>3, CleanStep DEF In
  <1>8. ASSUME NEW n \in Sizes, ReserveSource(n) PROVE Clean'
    <2> DEFINE r == ReserveGraphSource(ledger, n)
    <2>1. /\ Active /\ failing = "no" /\ ledger' = r.ledger /\ failing' = Fails(r)
          /\ UNCHANGED <<broken, last>>
      BY <1>8 DEF ReserveSource, Running, In
    <2>2. /\ r.ok \in BOOLEAN /\ (r.ok => r.ledger.exhausted = ledger.exhausted)
          /\ r.ledger.budgets = ledger.budgets
      BY <1>0, SizesAssumption, ReserveFacts
    <2> HIDE DEF r
    <2>3. QED BY <1>0, <2>1, <2>2, CleanStep DEF Fails
  <1>9. ASSUME NEW retained \in BOOLEAN, BeginSelect(retained) PROVE Clean'
    BY <1>0, <1>9, CleanStep DEF BeginSelect, Running, In
  <1>10. ASSUME NEW units \in {0, 1}, NEW n \in Sizes, SelectCheckpoint(units, n)
         PROVE  Clean'
    <2> DEFINE c == ChargeWork(ledger, units)
               k == IF Top.retained THEN ReserveRetained(c.ledger, n) ELSE Accepted(c.ledger)
               g == ReserveGraphSource(k.ledger, n)
    <2>1. /\ Active /\ failing = "no"
          /\ ledger' = CASE ~c.ok -> c.ledger [] c.ok /\ ~k.ok -> k.ledger
                         [] OTHER -> g.ledger
          /\ failing' = IF c.ok /\ k.ok /\ g.ok THEN "no" ELSE "error"
          /\ UNCHANGED <<broken, last>>
      BY <1>10 DEF SelectCheckpoint, Running, In
    <2>2. n \in Nat /\ units \in Nat
      BY SizesAssumption
    <2>3. /\ c.ok \in BOOLEAN /\ c.ledger \in Ledger
          /\ c.ledger.budgets = ledger.budgets
          /\ c.ok => c.ledger.exhausted = ledger.exhausted
      BY <1>0, <2>2, ReserveFacts
    <2> HIDE DEF c
    <2>4. /\ k.ok \in BOOLEAN /\ k.ledger \in Ledger
          /\ k.ledger.budgets = c.ledger.budgets
          /\ k.ok => k.ledger.exhausted = c.ledger.exhausted
      <3>1. CASE Top.retained
        <4> DEFINE w == ReserveRetained(c.ledger, n)
        <4>1. /\ w.ok \in BOOLEAN /\ w.ledger \in Ledger
              /\ w.ledger.budgets = c.ledger.budgets
              /\ w.ok => w.ledger.exhausted = c.ledger.exhausted
          BY <2>2, <2>3, ReserveFacts
        <4>2. QED BY <3>1, <4>1
      <3>2. CASE ~Top.retained
        BY <2>3, <3>2 DEF Accepted
      <3>3. QED BY <3>1, <3>2
    <2> HIDE DEF k
    <2>5. /\ g.ok \in BOOLEAN /\ (g.ok => g.ledger.exhausted = k.ledger.exhausted)
          /\ g.ledger.budgets = k.ledger.budgets
      BY <2>2, <2>4, ReserveFacts
    <2> HIDE DEF g
    <2>6. /\ ledger'.exhausted => ledger.exhausted \/ failing' = "error"
          /\ ledger'.budgets = ledger.budgets
      BY <2>1, <2>3, <2>4, <2>5
    <2>7. QED BY <1>0, <2>1, <2>6, CleanStep
  <1>11. ASSUME NEW n \in Sizes, Publish(n) PROVE Clean'
    BY <1>0, <1>11, CleanStep DEF Publish, In
  <1>12. CASE EndSelect
    <2> DEFINE r == Reconciled(ledger, accounted, Held(Trimmed(spills), caches))
    <2>1. /\ Active /\ ledger' = r.ledger
          /\ failing' = IF failing = "no" /\ ~r.ok THEN "error" ELSE failing
          /\ UNCHANGED <<broken, last>>
      BY <1>12 DEF EndSelect, Reconcile, In
    <2>2. r.ok \/ failing = "error"
      <3> DEFINE held == Held(Trimmed(spills), caches)
                 w == Reconciled(ledger, ledger.retained, held)
      <3>1. ledger.retained = accounted /\ held \in Nat
        BY <2>1, Basics, HeldFacts
      <3>2. failing # "error" => Within(held, ledger.budgets.retained)
        BY <2>1, ReconcilingFacts
      <3> HIDE DEF held
      <3>3. Within(held, ledger.budgets.retained) => w.ok
        BY <1>0, <3>1, ReconciledFacts
      <3>4. r = w
        BY <3>1 DEF held
      <3>5. QED BY <3>2, <3>3, <3>4
    <2>3. /\ r.ok => r.ledger.exhausted = ledger.exhausted
          /\ r.ledger.budgets = ledger.budgets
      BY <2>1, ReconcilingFacts
    <2> HIDE DEF r
    <2>4. QED BY <1>0, <2>1, <2>2, <2>3, CleanStep
  <1>13. ASSUME NEW n \in Sizes, PlanSchedule(n) PROVE Clean'
    <2> DEFINE r == ReserveScheduleDiscovery(ledger, n)
               s == ReleaseScratch(r.ledger, n)
    <2>1. /\ Active /\ failing = "no"
          /\ ledger' = IF r.ok THEN s.ledger ELSE r.ledger
          /\ failing' = IF r.ok THEN Fails(s) ELSE "error"
          /\ UNCHANGED <<broken, last>>
      BY <1>13 DEF PlanSchedule, Running, In
    <2>2. n \in Nat /\ ledger.scratch \in Nat
      BY SizesAssumption, Basics
    <2>3. /\ r.ok \in BOOLEAN /\ r.ledger \in Ledger
          /\ r.ledger.budgets = ledger.budgets
          /\ r.ok => /\ r.ledger.exhausted = ledger.exhausted
                     /\ r.ledger.scratch = ledger.scratch + n
      BY <1>0, <2>2, ReserveFacts
    <2> HIDE DEF r
    <2>4. r.ok => /\ s.ok /\ s.ledger.exhausted = r.ledger.exhausted
                  /\ s.ledger.budgets = r.ledger.budgets
      <3>1. r.ok => n <= r.ledger.scratch
        BY <2>2, <2>3
      <3>2. QED BY <2>2, <2>3, <3>1, ReleaseFacts
    <2> HIDE DEF s
    <2>5. QED BY <1>0, <2>1, <2>3, <2>4, CleanStep DEF Fails
  <1>14. ASSUME NEW units \in Nat, Active, failing = "no",
                ledger' = ChargeWork(ledger, units).ledger,
                failing' = Fails(ChargeWork(ledger, units)),
                UNCHANGED <<broken, last>>
         PROVE  Clean'
    <2> DEFINE r == ChargeWork(ledger, units)
    <2>1. /\ r.ok \in BOOLEAN /\ (r.ok => r.ledger.exhausted = ledger.exhausted)
          /\ r.ledger.budgets = ledger.budgets
      BY <1>0, ReserveFacts
    <2>2. failing' = Fails(r) /\ ledger' = r.ledger
      BY <1>14
    <2> HIDE DEF r
    <2>3. QED BY <1>0, <1>14, <2>1, <2>2, CleanStep DEF Fails
  <1>15. ASSUME NEW units \in {1, 2}, Charge(units) PROVE Clean'
    BY <1>14, <1>15 DEF Charge, Running, In
  <1>16. CASE RememberKnownSpill
    BY <1>14, <1>16 DEF RememberKnownSpill, Running, In
  <1>17. ASSUME NEW allocated \in BOOLEAN, RememberSpill(allocated) PROVE Clean'
    <2> DEFINE c == ChargeWork(ledger, 1)
               full == spills.len = spills.cap
               n == IF full THEN Additional * EntryBytes ELSE 0
               v == IF full THEN ReserveRetained(c.ledger, n) ELSE Accepted(c.ledger)
               u == ReleaseRetained(v.ledger, n)
    <2>1. /\ Active /\ failing = "no"
          /\ ledger' = CASE ~c.ok -> c.ledger
                         [] c.ok /\ v.ok /\ ~allocated -> u.ledger
                         [] OTHER -> v.ledger
          /\ failing' = IF c.ok /\ v.ok /\ allocated THEN "no" ELSE "error"
          /\ UNCHANGED <<broken, last>>
      BY <1>17 DEF RememberSpill, Running, In
    <2>2. n \in Nat
      <3>1. Additional \in Nat
        BY Basics DEF Additional
      <3>2. Additional * EntryBytes \in Nat
        BY <3>1, EntryAssumption
      <3>3. QED BY <3>2
    <2> HIDE DEF n
    <2>3. /\ c.ok \in BOOLEAN /\ c.ledger \in Ledger
          /\ c.ledger.budgets = ledger.budgets
          /\ c.ok => c.ledger.exhausted = ledger.exhausted
      BY <1>0, ReserveFacts
    <2> HIDE DEF c
    <2>4. /\ v.ok \in BOOLEAN /\ (v.ok => v.ledger.exhausted = c.ledger.exhausted)
          /\ v.ledger.budgets = c.ledger.budgets
          /\ v.ok => v.ledger \in Ledger /\ n <= v.ledger.retained
      <3>1. CASE full
        <4> DEFINE w == ReserveRetained(c.ledger, n)
        <4>1. /\ w.ok \in BOOLEAN /\ (w.ok => w.ledger.exhausted = c.ledger.exhausted)
              /\ w.ledger.budgets = c.ledger.budgets /\ w.ledger \in Ledger
              /\ w.ok => w.ledger.retained = c.ledger.retained + n
          BY <2>2, <2>3, ReserveFacts
        <4>2. c.ledger.retained \in Nat
          BY <2>3 DEF Ledger
        <4>3. w.ok => n <= w.ledger.retained
          BY <2>2, <4>1, <4>2
        <4>4. QED BY <3>1, <4>1, <4>3
      <3>2. CASE ~full
        <4>1. n = 0 /\ c.ledger.retained \in Nat
          BY <2>3, <3>2 DEF n, Ledger
        <4>2. v.ledger = c.ledger /\ v.ok = TRUE
          BY <3>2 DEF Accepted
        <4>3. n <= c.ledger.retained
          BY <4>1
        <4> HIDE DEF v
        <4>4. QED BY <2>3, <4>2, <4>3
      <3>3. QED BY <3>1, <3>2
    <2> HIDE DEF v
    <2>5. v.ok => u.ledger.budgets = v.ledger.budgets
      BY <2>2, <2>4, ReleaseFacts
    <2> HIDE DEF u, full
    <2>6. /\ ledger'.exhausted => ledger.exhausted \/ failing' = "error"
          /\ ledger'.budgets = ledger.budgets
      BY <2>1, <2>3, <2>4, <2>5
    <2>7. QED BY <1>0, <2>1, <2>6, CleanStep
  <1>18. CASE ForgetSpill \/ UNCHANGED ledgerVars \/ \E n \in 0 .. MaxCaches : DropCaches(n)
    BY <1>0, <1>18 DEF ForgetSpill, DropCaches, ledgerVars, Clean, SuccessIsClean,
                     AssertionsHold, Active
  <1>19. CASE TopologyEdit
    <2>1. /\ Active /\ failing = "no"
          /\ ledger' = AccountMixedCache(ledger).ledger
          /\ broken' = IF AccountMixedCache(ledger).ok THEN broken ELSE broken \cup {"mixed"}
          /\ UNCHANGED <<failing, last>>
      BY <1>19 DEF TopologyEdit, Running, In
    <2>2. CASE AccountMixedCache(ledger).ok /\ ledger' = ledger
      BY <1>0, <2>1, <2>2, CleanStep
    <2>3. CASE MixedBelow(ledger.budgets) /\ ledger' = Exhausted(ledger)
               /\ ~AccountMixedCache(ledger).ok
      <3>1. broken' = broken \cup {"mixed"} /\ ledger'.budgets = ledger.budgets
        BY <1>0, <2>1, <2>3 DEF Exhausted, Ledger
      <3>2. AssertionsHold' /\ SuccessIsClean'
        BY <1>0, <2>1, <2>3, <3>1 DEF AssertionsHold, SuccessIsClean
      <3>3. QED BY <3>1, <3>2 DEF Clean
    <2>4. QED BY <2>1, <2>2, <2>3, MixedIsGranted
  <1>20. ASSUME NEW deadline \in BOOLEAN, Stop(deadline) PROVE Clean'
    <2>1. /\ Active /\ failing' = "error" /\ UNCHANGED <<broken, last>>
          /\ ledger' = ledger \/ ledger' = Exhausted(ledger)
      BY <1>20 DEF Stop, Running, In
    <2>2. ledger'.budgets = ledger.budgets
      BY <1>0, <2>1 DEF Exhausted, Ledger
    <2>3. QED BY <2>1, <2>2, CleanStep
  <1>21. CASE Stale
    BY <1>0, <1>21, CleanStep DEF Stale, Running, In
  <1>22. QED BY <1>1, <1>2, <1>3, <1>4, <1>5, <1>6, <1>7, <1>8, <1>9, <1>10, <1>11, <1>12,
                <1>13, <1>15, <1>16, <1>17, <1>18, <1>19, <1>20, <1>21 DEF LedgerNext

LEMMA CleanAlways == LedgerSpec => []Clean
  <1>1. LedgerInit => Clean
    BY DEF LedgerInit, Clean, AssertionsHold, SuccessIsClean, NoOutcome, Active
  <1>2. LedgerInv /\ Clean /\ [LedgerNext]_ledgerVars => Clean'
    BY CleanNext
  <1>3. QED BY <1>1, <1>2, Invariance, PTL DEF LedgerSpec

\* Under every budget, the ones ResourceEnvelope derives included:
\* release_request_scratch never releases more than is reserved, and the refusal
\* that mark_topology_edited asserts away comes only from a mixed cache's limit
\* below the limit for everything retained.
THEOREM AssertionsAlwaysHold == LedgerSpec => []AssertionsHold
  <1>1. Clean => AssertionsHold
    BY DEF Clean
  <1>2. QED BY <1>1, CleanAlways, PTL

\* Under every budget that refusal is the only one a successful request can have
\* met: every other one, on whatever path, ends the request with an error.
THEOREM SuccessAlwaysClean == LedgerSpec => []SuccessIsClean
  <1>1. Clean => SuccessIsClean
    BY DEF Clean
  <1>2. QED BY <1>1, CleanAlways, PTL

\* Retained memory is accounted for in every state of every request, whatever
\* is refused, cancelled or retried.
THEOREM RetainedAccountedFor == LedgerSpec => []RetainedOK
<1>1. LedgerTypeOK /\ AccountedIsReserved /\ HeldIsAdmitted /\ RunningWithinBudget => RetainedOK
  BY DEF RetainedOK
<1> QED BY <1>1, LedgerTypeCorrect, AccountsBalance, AdmittedBeforeHeld, WorksWithinBudget, PTL

==============================================================================
