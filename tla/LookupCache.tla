----------------------------- MODULE LookupCache -----------------------------
(***************************************************************************)
(* The lookup index cache (formualizer-eval, engine/lookup_index_cache.rs  *)
(* and Engine::build_lookup_index_impl).  VLOOKUP, MATCH and their kin ask *)
(* for a hash index of the range they search.  The formulas of one layer   *)
(* are evaluated on several threads, so calls for one range arrive         *)
(* together: the first to reach single_flight builds the index, the others *)
(* wait for it.  An index is found under its range and the number of the   *)
(* data snapshot; only an edit takes a new number.                         *)
(*                                                                         *)
(* One action is one section of code under a lock, or one atomic access.   *)
(* What a range holds is an opaque content; evaluation settles it before   *)
(* the lookups that name the range run.  Locks poisoned by a panic and the *)
(* pruning of tables above 4096 keys are left out.                         *)
(***************************************************************************)
EXTENDS Integers, FiniteSets

CONSTANTS
  Threads,        \* the workers of one evaluation
  Ranges,         \* the ranges lookups search
  Volatile,       \* those with a volatile formula in them
  Recomputed,     \* those with formulas that a request evaluates again with no edit
  Contents,       \* what a range can hold
  Faulty,         \* contents with an error value in them: no index
  Bytes,          \* content -> size of its index
  Estimate,       \* estimate_bytes: the size guessed from the length
  MaxBytes,       \* max_bytes
  BuildThreshold, \* LOOKUP_INDEX_BUILD_THRESHOLD: calls that only scan
  Rejected,       \* CAP_REJECTED, in the place of a call count
  None,           \* no index, no flight
  MaxEdits        \* bound: edits in a behaviour

ASSUME RangesAssumption ==
  Volatile \subseteq Ranges /\ Recomputed \subseteq Ranges /\ Faulty \subseteq Contents
ASSUME ThreadsAssumption == IsFiniteSet(Threads)
ASSUME SizeAssumption ==
  /\ Bytes \in [Contents -> Nat]
  /\ Estimate \in Nat /\ MaxBytes \in Nat /\ BuildThreshold \in Nat /\ MaxEdits \in Nat
ASSUME SentinelAssumption ==
  Rejected \notin Nat /\ None \notin Contents /\ None \notin Ranges /\ None \notin Threads

VARIABLES
  snapshot,       \* snapshot_id
  data,           \* range -> content
  evaluating,     \* a request runs; otherwise the client may edit
  inner,          \* the cache: a set of entries
  bytes_in_use,
  call_counts,    \* range -> calls under this snapshot, or Rejected
  volatile_keys,  \* ranges found to be volatile
  in_flight,      \* range -> the flight in the map, or None
  flight,         \* flight -> its OnceLock
  pc,             \* thread -> where its call is
  range,          \* thread -> the range it asks for, or None
  joined,         \* thread -> the flight it holds, or None
  index           \* thread -> the index it built or was given, or None

vars == <<snapshot, data, evaluating, inner, bytes_in_use, call_counts,
          volatile_keys, in_flight, flight, pc, range, joined, index>>

cache == <<inner, bytes_in_use, call_counts, volatile_keys>>
world == <<snapshot, data, evaluating>>

\* A flight is an Arc; one per thread is enough, since only threads hold them.
Flights == Threads

Entry == [range : Ranges, snapshot : Nat, content : Contents]

\* The OnceLock of a flight: empty, its initialiser running, or set.
Cell == [state : {"empty", "running", "set"}, outcome : Contents \cup {None}]
EmptyCell == [state |-> "empty", outcome |-> None]

Building == {"recheck", "volatile", "build", "insert"}
Flying == {"once", "leave"} \cup Building
Labels == {"idle", "cap", "count", "join", "return"} \cup Flying

-------------------------------------------------------------------------------
(* Tables. *)

Found(r) == {e \in inner : e.range = r /\ e.snapshot = snapshot}

\* LookupIndexCache::get and recheck: the index under this key, or None.
Get(r) == IF Found(r) = {} THEN None ELSE (CHOOSE e \in Found(r) : TRUE).content

Held == {joined[t] : t \in Threads} \ {None}

\* Counts above the threshold are not told apart.
Counted(n) == IF n > BuildThreshold THEN n ELSE n + 1

-------------------------------------------------------------------------------
(* One call of build_lookup_index_impl by thread t. *)

\* Go from label to label with an index in hand, everything else unchanged.
Step(t, from, to, i) ==
  /\ pc[t] = from
  /\ pc' = [pc EXCEPT ![t] = to]
  /\ index' = [index EXCEPT ![t] = i]

\* The get at the start of a call.
Call(t, r) ==
  /\ evaluating
  /\ Step(t, "idle", IF Get(r) # None THEN "return" ELSE "cap", Get(r))
  /\ range' = [range EXCEPT ![t] = r]
  /\ UNCHANGED <<world, cache, in_flight, flight, joined>>

\* would_exceed_cap, a hint: nothing is reserved.
CheckCap(t) ==
  /\ Step(t, "cap", IF bytes_in_use + Estimate > MaxBytes THEN "return" ELSE "count", None)
  /\ UNCHANGED <<world, cache, in_flight, flight, range, joined>>

\* should_build: the first calls scan the range instead.
ShouldBuild(t) ==
  LET r == range[t]
      n == IF call_counts[r] = Rejected THEN Rejected ELSE Counted(call_counts[r])
  IN /\ Step(t, "count", IF n # Rejected /\ n > BuildThreshold THEN "join" ELSE "return", None)
     /\ call_counts' = [call_counts EXCEPT ![r] = n]
     /\ UNCHANGED <<world, inner, bytes_in_use, volatile_keys, in_flight, flight, range, joined>>

\* single_flight, first lock of the map: take the flight in it or put a new one.
Join(t) ==
  LET f == IF in_flight[range[t]] # None THEN in_flight[range[t]]
           ELSE CHOOSE g \in Flights : g \notin Held
  IN /\ Step(t, "join", "once", None)
     /\ joined' = [joined EXCEPT ![t] = f]
     /\ in_flight' = [in_flight EXCEPT ![range[t]] = f]
     /\ UNCHANGED <<world, cache, flight, range>>

\* get_or_init: the first to arrive runs the initialiser ...
Initialise(t) ==
  /\ Step(t, "once", "recheck", None)
  /\ flight[joined[t]].state = "empty"
  /\ flight' = [flight EXCEPT ![joined[t]].state = "running"]
  /\ UNCHANGED <<world, cache, in_flight, range, joined>>

\* ... and the others block until it has set the outcome.
Share(t) ==
  /\ Step(t, "once", "leave", flight[joined[t]].outcome)
  /\ flight[joined[t]].state = "set"
  /\ UNCHANGED <<world, cache, in_flight, flight, range, joined>>

\* The initialiser returns i.
SetOutcome(t, i) == flight' = [flight EXCEPT ![joined[t]] = [state |-> "set", outcome |-> i]]

\* recheck: an entry published since the get.
Recheck(t) ==
  LET i == Get(range[t])
  IN /\ Step(t, "recheck", IF i # None THEN "leave" ELSE "volatile", i)
     /\ IF i # None THEN SetOutcome(t, i) ELSE UNCHANGED flight
     /\ UNCHANGED <<world, cache, in_flight, range, joined>>

\* Mutant of CheckVolatile: it leaves the initialiser before the outcome is set.
CheckVolatileUnset(t) ==
  LET v == range[t] \in volatile_keys \cup Volatile
  IN /\ Step(t, "volatile", IF v THEN "leave" ELSE "build", None)
     /\ volatile_keys' = volatile_keys \cup ({range[t]} \cap Volatile)
     /\ UNCHANGED <<world, inner, bytes_in_use, call_counts, in_flight, flight, range, joined>>

\* is_known_volatile, then lookup_view_contains_volatile and note_volatile_key.
CheckVolatile(t) ==
  LET v == range[t] \in volatile_keys \cup Volatile
  IN /\ Step(t, "volatile", IF v THEN "leave" ELSE "build", None)
     /\ volatile_keys' = volatile_keys \cup ({range[t]} \cap Volatile)
     /\ IF v THEN SetOutcome(t, None) ELSE UNCHANGED flight
     /\ UNCHANGED <<world, inner, bytes_in_use, call_counts, in_flight, range, joined>>

\* LookupIndex::build
Build(t) ==
  LET c == data[range[t]]
  IN /\ Step(t, "build", IF c \in Faulty THEN "leave" ELSE "insert",
             IF c \in Faulty THEN None ELSE c)
     /\ IF c \in Faulty THEN SetOutcome(t, None) ELSE UNCHANGED flight
     /\ UNCHANGED <<world, cache, in_flight, range, joined>>

\* Mutant of InsertIfRoom: admission trusts the estimate of CheckCap.
InsertOnHint(t) ==
  LET r == range[t]
      c == index[t]
  IN /\ Step(t, "insert", "leave", c)
     /\ SetOutcome(t, c)
     /\ inner' = inner \cup {[range |-> r, snapshot |-> snapshot, content |-> c]}
     /\ bytes_in_use' = bytes_in_use + Bytes[c]
     /\ UNCHANGED <<world, call_counts, volatile_keys, in_flight, range, joined>>

\* Mutant of InsertIfRoom: an index that does not fit is still handed out.
InsertOrServe(t) ==
  LET r == range[t]
      c == index[t]
      room == Bytes[c] + bytes_in_use <= MaxBytes
  IN /\ Step(t, "insert", "leave", c)
     /\ SetOutcome(t, c)
     /\ inner' = IF room THEN inner \cup {[range |-> r, snapshot |-> snapshot, content |-> c]}
                 ELSE inner
     /\ bytes_in_use' = IF room THEN bytes_in_use + Bytes[c] ELSE bytes_in_use
     /\ UNCHANGED <<world, call_counts, volatile_keys, in_flight, range, joined>>

\* insert_if_room, under the write lock: keep an entry that is there, refuse
\* one that does not fit and remember that, else insert and account for it.
InsertIfRoom(t) ==
  LET r == range[t]
      c == index[t]
      kept == Get(r) # None
      room == Bytes[c] + bytes_in_use <= MaxBytes
      i == IF kept THEN Get(r) ELSE IF room THEN c ELSE None
  IN /\ Step(t, "insert", "leave", i)
     /\ SetOutcome(t, i)
     /\ inner' = IF kept \/ ~room THEN inner
                 ELSE inner \cup {[range |-> r, snapshot |-> snapshot, content |-> c]}
     /\ bytes_in_use' = IF kept \/ ~room THEN bytes_in_use ELSE bytes_in_use + Bytes[c]
     /\ call_counts' = IF kept \/ room THEN call_counts ELSE [call_counts EXCEPT ![r] = Rejected]
     /\ UNCHANGED <<world, volatile_keys, in_flight, range, joined>>

\* Mutant of Leave: whatever flight the map holds for the key is removed.
LeaveAny(t) ==
  /\ Step(t, "leave", "return", index[t])
  /\ in_flight' = [in_flight EXCEPT ![range[t]] = None]
  /\ joined' = [joined EXCEPT ![t] = None]
  /\ flight' = IF \E u \in Threads \ {t} : joined[u] = joined[t] THEN flight
               ELSE [flight EXCEPT ![joined[t]] = EmptyCell]
  /\ UNCHANGED <<world, cache, range>>

\* single_flight, second lock of the map: remove the flight if it is still ours.
\* The last to drop it frees it.
Leave(t) ==
  LET r == range[t]
      f == joined[t]
  IN /\ Step(t, "leave", "return", index[t])
     /\ in_flight' = IF in_flight[r] = f THEN [in_flight EXCEPT ![r] = None] ELSE in_flight
     /\ joined' = [joined EXCEPT ![t] = None]
     /\ flight' = IF \E u \in Threads \ {t} : joined[u] = f THEN flight
                  ELSE [flight EXCEPT ![f] = EmptyCell]
     /\ UNCHANGED <<world, cache, range>>

\* The lookup uses the index, or scans the range.
Return(t) ==
  /\ Step(t, "return", "idle", None)
  /\ range' = [range EXCEPT ![t] = None]
  /\ UNCHANGED <<world, cache, in_flight, flight, joined>>

-------------------------------------------------------------------------------
(* Requests and edits. *)

\* A request evaluates volatile formulas, and what depends on them, again; the
\* ranges that hold such formulas change before the lookups in them run.
BeginRequest ==
  /\ ~evaluating
  /\ evaluating' = TRUE
  /\ \E d \in [Ranges -> Contents] :
       /\ \A r \in Ranges \ (Volatile \cup Recomputed) : d[r] = data[r]
       /\ data' = d
  /\ UNCHANGED <<snapshot, cache, in_flight, flight, pc, range, joined, index>>

\* The workers have joined.
EndRequest ==
  /\ evaluating
  /\ \A t \in Threads : pc[t] = "idle"
  /\ evaluating' = FALSE
  /\ UNCHANGED <<snapshot, data, cache, in_flight, flight, pc, range, joined, index>>

\* Mutant of Edit: an edit path that does not call mark_data_edited.
EditUnnoticed(r, c) ==
  /\ ~evaluating
  /\ snapshot < MaxEdits
  /\ data' = [data EXCEPT ![r] = c]
  /\ UNCHANGED <<snapshot, evaluating, cache, in_flight, flight, pc, range, joined, index>>

\* An edit: mark_data_edited and mark_topology_edited clear the cache, at an
\* exclusive boundary, and take a new snapshot number.
Edit(r, c) ==
  /\ ~evaluating
  /\ snapshot < MaxEdits
  /\ data' = [data EXCEPT ![r] = c]
  /\ snapshot' = snapshot + 1
  /\ inner' = {}
  /\ bytes_in_use' = 0
  /\ call_counts' = [q \in Ranges |-> 0]
  /\ volatile_keys' = {}
  /\ in_flight' = [q \in Ranges |-> None]
  /\ UNCHANGED <<evaluating, flight, pc, range, joined, index>>

-------------------------------------------------------------------------------
Init ==
  /\ snapshot = 0
  /\ data \in [Ranges -> Contents]
  /\ evaluating = FALSE
  /\ inner = {}
  /\ bytes_in_use = 0
  /\ call_counts = [r \in Ranges |-> 0]
  /\ volatile_keys = {}
  /\ in_flight = [r \in Ranges |-> None]
  /\ flight = [f \in Flights |-> EmptyCell]
  /\ pc = [t \in Threads |-> "idle"]
  /\ range = [t \in Threads |-> None]
  /\ joined = [t \in Threads |-> None]
  /\ index = [t \in Threads |-> None]

\* What a thread does once its call has begun.
Work(t) ==
  \/ CheckCap(t)
  \/ ShouldBuild(t)
  \/ Join(t)
  \/ Initialise(t)
  \/ Share(t)
  \/ Recheck(t)
  \/ CheckVolatile(t)
  \/ Build(t)
  \/ InsertIfRoom(t)
  \/ Leave(t)
  \/ Return(t)

Next ==
  \/ \E t \in Threads, r \in Ranges : Call(t, r)
  \/ \E t \in Threads : Work(t)
  \/ BeginRequest
  \/ EndRequest
  \/ \E r \in Ranges, c \in Contents : Edit(r, c)

\* The operating system keeps every thread running; nobody has to call or edit.
Fairness == \A t \in Threads : WF_vars(Work(t))

Spec == Init /\ [][Next]_vars /\ Fairness

-------------------------------------------------------------------------------
(* Properties. *)

\* The variables have their types; in particular bytes_in_use never goes below
\* zero.
TypeOK ==
  /\ snapshot \in 0..MaxEdits
  /\ data \in [Ranges -> Contents]
  /\ evaluating \in BOOLEAN
  /\ inner \subseteq Entry
  /\ bytes_in_use \in Nat
  /\ call_counts \in [Ranges -> Nat \cup {Rejected}]
  /\ volatile_keys \subseteq Ranges
  /\ in_flight \in [Ranges -> Flights \cup {None}]
  /\ flight \in [Flights -> Cell]
  /\ pc \in [Threads -> Labels]
  /\ range \in [Threads -> Ranges \cup {None}]
  /\ joined \in [Threads -> Flights \cup {None}]
  /\ index \in [Threads -> Contents \cup {None}]

\* The bytes of the indexes in the cache, one by one.
CachedBytes == UNION {{e} \X (1..Bytes[e.content]) : e \in inner}

\* bytes_in_use is the size of what the cache holds, whoever inserted it
\* and whatever generation was dropped.
BytesExact == bytes_in_use = Cardinality(CachedBytes)

\* The cap holds although callers only check an estimate before they build.
CapHolds == bytes_in_use <= MaxBytes

\* The accounts of the cache are right: no count underflows, bytes_in_use is
\* what the cache holds, and it stays below the cap.
AccountsOK == TypeOK /\ BytesExact /\ CapHolds

\* Two threads never build an index of the same range at once, and a thread
\* about to insert finds no other index in its place: the flight it holds is
\* in the map until it is set, and a waiter of an older flight does not remove
\* it (single_flight's ptr_eq).
OneBuilder ==
  /\ \A t, u \in Threads :
       pc[t] \in Building /\ pc[u] \in Building /\ range[t] = range[u] => t = u
  /\ \A t \in Threads : pc[t] = "insert" => Found(range[t]) = {}

\* A flight in the map is held by a thread that will still remove it: an
\* outcome is never served to calls that begin after everyone has left.
NoFlightLeaks ==
  \A r \in Ranges : in_flight[r] # None =>
    \E t \in Threads : joined[t] = in_flight[r] /\ range[t] = r /\ pc[t] \in Flying

\* single_flight: one builder per range, and no flight outlives its callers.
SingleFlight == OneBuilder /\ NoFlightLeaks

\* An index handed to a lookup is the one the cache holds for its range: no
\* caller works on a copy that is not accounted for.
IndexIsCached ==
  \A t \in Threads :
    pc[t] \in {"leave", "return"} /\ index[t] # None =>
      \E e \in Found(range[t]) : e.content = index[t]

\* An index says what its range holds, for ranges that only edits change.
EditsInvalidate ==
  \A t \in Threads :
    pc[t] = "return" /\ index[t] # None /\ range[t] \notin Recomputed =>
      index[t] = data[range[t]]

\* The same for every range: a cache never affects values.
NeverStale ==
  \A t \in Threads : pc[t] = "return" /\ index[t] # None => index[t] = data[range[t]]

\* Every call returns: no thread waits for ever on a flight.
CallsReturn == \A t \in Threads : pc[t] # "idle" ~> pc[t] = "idle"
===============================================================================
