--------------------------- MODULE RequestLedger ---------------------------
(***************************************************************************)
(* The resource ledger of one evaluation request: what a request has       *)
(* reserved of its memory and work budgets (resource_ledger.rs), and the   *)
(* protocol by which the engine reserves and releases it on every path of  *)
(* a request, the failing ones included (eval.rs).                         *)
(*                                                                         *)
(* Retained bytes outlive the request: the selection caches of deferred    *)
(* formula packages, which a backend owns and publishes through a token,   *)
(* and the list of blocked spills. The engine keeps in accounted what of   *)
(* the ledger's retained bytes stands for them and from time to time       *)
(* reconciles it with what is really there. Scratch bytes belong to scopes *)
(* of the request and are given back when the scope is left. Bytes count   *)
(* heap memory and stay far from 2^64, so the overflow branches of the     *)
(* ledger are left out.                                                    *)
(***************************************************************************)
EXTENDS Integers, Sequences

CONSTANTS
    Budgets,     \* the budgets a request may run under
    EntryBytes,  \* the size of an entry of blocked_pending_spills
    Sizes,       \* the byte amounts that are asked for
    MaxFrames,   \* bound: scopes open at once
    MaxSpills,   \* bound: entries of blocked_pending_spills
    MaxCaches,   \* bound: bytes in selection caches
    MaxBytes,    \* bound: scratch bytes that are not inside a limit
    MaxWork      \* bound: work units charged by a request

Unlimited == -1

Limit == Nat \cup {Unlimited}

Budget == [retained : Limit, mixed : Limit, scratch : Limit,
           schedule : Limit, source : Limit, work : Limit]

ASSUME BudgetsAssumption == Budgets \subseteq Budget
ASSUME EntryAssumption == EntryBytes \in Nat \ {0}
ASSUME SizesAssumption == Sizes \subseteq Nat
ASSUME BoundsAssumption ==
    /\ MaxFrames \in Nat /\ MaxSpills \in Nat /\ MaxCaches \in Nat
    /\ MaxBytes \in Nat /\ MaxWork \in Nat

VARIABLES
    ledger,     \* active_resource_ledger, meaningful while a scope is open
    accounted,  \* source_cache_accounted
    spills,     \* length and capacity of blocked_pending_spills
    caches,     \* bytes the live tokens of selection caches publish
    frames,     \* the scopes the request is in, the innermost last
    failing,    \* the error that is on its way out
    broken,     \* the assertions of callers of the ledger that failed in this request
    last        \* history: how the last request ended

ledgerVars == <<ledger, accounted, spills, caches, frames, failing, broken, last>>

\* release_request_scratch asserts that its release succeeds, and
\* mark_topology_edited that account_mixed_cache(0) does. They are debug_asserts:
\* a release build goes on with the refusal dropped.
Assertions == {"release", "mixed"}

Ledger == [budgets : Budgets, retained : Nat, scratch : Nat, work : Nat,
           exhausted : BOOLEAN]

\* A scope: a request, scratch held for a piece of work, the preparation of
\* targets, or a selection from a package. bytes is what a scratch scope holds,
\* or what a selection has admitted and not yet published; mark is the scratch
\* in use when the scope was opened.
Frame == [kind : {"request", "scratch", "prepare", "select"},
          bytes : Nat, mark : Nat, tries : Nat, retained : BOOLEAN]

-----------------------------------------------------------------------------
(* The ledger's operations.                                                *)

Within(n, limit) == limit = Unlimited \/ n <= limit

MinimumLimit(a, b) ==
    CASE a = Unlimited -> b
      [] b = Unlimited -> a
      [] OTHER -> IF a <= b THEN a ELSE b

MixedCacheLimit(b) == MinimumLimit(b.retained, b.mixed)
ScheduleDiscoveryLimit(b) == MinimumLimit(b.scratch, b.schedule)
GraphSourceLimit(b) == MinimumLimit(b.scratch, b.source)

NewLedger(b) ==
    [budgets |-> b, retained |-> 0, scratch |-> 0, work |-> 0, exhausted |-> FALSE]

Exhausted(l) == [l EXCEPT !.exhausted = TRUE]

\* An operation gives the ledger after it and says whether it succeeded.
Accepted(l) == [ledger |-> l, ok |-> TRUE]
Refused(l) == [ledger |-> l, ok |-> FALSE]

Admit(l, next, n, limit) == IF Within(n, limit) THEN Accepted(next) ELSE Refused(Exhausted(l))

ReserveRetained(l, n) ==
    Admit(l, [l EXCEPT !.retained = @ + n], l.retained + n, l.budgets.retained)

ReleaseRetained(l, n) ==
    IF n <= l.retained THEN Accepted([l EXCEPT !.retained = @ - n]) ELSE Refused(l)

ReserveGraphSource(l, n) ==
    Admit(l, [l EXCEPT !.scratch = @ + n], l.scratch + n, GraphSourceLimit(l.budgets))

ReserveScheduleDiscovery(l, n) ==
    Admit(l, [l EXCEPT !.scratch = @ + n], l.scratch + n,
          ScheduleDiscoveryLimit(l.budgets))

ReleaseScratch(l, n) ==
    IF n <= l.scratch THEN Accepted([l EXCEPT !.scratch = @ - n]) ELSE Refused(l)

ReleaseScratchTo(l, checkpoint) ==
    IF checkpoint <= l.scratch THEN Accepted([l EXCEPT !.scratch = checkpoint]) ELSE Refused(l)

ChargeWork(l, units) ==
    Admit(l, [l EXCEPT !.work = @ + units], l.work + units, l.budgets.work)

\* account_mixed_cache(0), the only call there is: nothing was accounted to the
\* mixed cache before, and nothing is now.
AccountMixedCache(l) == Admit(l, l, l.retained, MixedCacheLimit(l.budgets))

-----------------------------------------------------------------------------
(* The engine around it.                                                   *)

Active == frames # << >>
Top == frames[Len(frames)]
In(kinds) == Active /\ Top.kind \in kinds
Running(kinds) == In(kinds) /\ failing = "no"

Push(f) == Append(frames, f)
Pop == SubSeq(frames, 1, Len(frames) - 1)

Scope(kind, bytes, scratch, retained) ==
    [kind |-> kind, bytes |-> bytes, mark |-> scratch, tries |-> 0, retained |-> retained]

\* What is really kept when the empty list of spills has been given up.
Trimmed(s) == IF s.len = 0 THEN [len |-> 0, cap |-> 0] ELSE s

Held(s, c) == s.cap * EntryBytes + c

\* reconcile_source_cache_footprints: live ownership is observed first and held
\* against the budget afterwards.
Reconciled(l, acc, held) ==
    LET released == ReleaseRetained(l, acc)
        seen == [released.ledger EXCEPT !.retained = @ + held]
        checked == ReserveRetained(seen, 0)
    IN  IF released.ok THEN [ledger |-> checked.ledger, accounted |-> held,
                             ok |-> checked.ok]
        ELSE [ledger |-> l, accounted |-> acc, ok |-> FALSE]

Reconcile(l, acc) ==
    LET r == Reconciled(l, acc, Held(Trimmed(spills), caches))
    IN  /\ ledger' = r.ledger
        /\ accounted' = r.accounted
        /\ spills' = Trimmed(spills)
        /\ failing' = IF failing = "no" /\ ~r.ok THEN "error" ELSE failing

Fails(result) == IF result.ok THEN "no" ELSE "error"

-----------------------------------------------------------------------------
NoOutcome == [ok |-> TRUE, exhausted |-> FALSE, broken |-> {}]

LedgerInit ==
    /\ \E b \in Budgets : ledger = NewLedger(b)
    /\ accounted = 0
    /\ spills = [len |-> 0, cap |-> 0]
    /\ caches = 0
    /\ frames = << >>
    /\ failing = "no"
    /\ broken = {}
    /\ last = NoOutcome

\* observe_evaluation_resource_request, the outermost one: a new ledger, and the
\* caches that earlier requests left count from its first moment.
BeginRequest(b) ==
    /\ ~Active
    /\ frames' = << Scope("request", 0, 0, FALSE) >>
    /\ Reconcile(NewLedger(b), 0)
    /\ broken' = {}
    /\ UNCHANGED <<caches, last>>

\* A request made inside a request uses the same ledger.
BeginNested ==
    /\ Running({"request"})
    /\ Len(frames) < MaxFrames
    /\ frames' = Push(Scope("request", 0, ledger.scratch, FALSE))
    /\ UNCHANGED <<ledger, accounted, spills, caches, failing, broken, last>>

\* The end of a request. The outermost one reconciles once more, releases all
\* scratch and reports the ledger.
EndRequest ==
    /\ In({"request"})
    /\ frames' = Pop
    /\ UNCHANGED <<caches, broken>>
    /\ IF Len(frames) > 1
       THEN UNCHANGED <<ledger, accounted, spills, failing, last>>
       ELSE LET r == Reconciled(ledger, accounted, Held(Trimmed(spills), caches))
            IN  /\ ledger' = [r.ledger EXCEPT !.scratch = 0]
                /\ accounted' = r.accounted
                /\ spills' = Trimmed(spills)
                /\ failing' = "no"
                /\ last' = [ok |-> failing = "no" /\ r.ok,
                            exhausted |-> r.ledger.exhausted,
                            broken |-> broken]

\* Mutant of OpenScratch: bytes past the limit are not observed.
OpenScratchCapped(n) ==
    /\ Running({"request", "scratch", "prepare"})
    /\ Len(frames) < MaxFrames
    /\ ledger.scratch + n <= MaxBytes
    /\ frames' = Push(Scope("scratch", n, ledger.scratch, FALSE))
    /\ ledger' = ReserveScheduleDiscovery(ledger, n).ledger
    /\ UNCHANGED <<accounted, spills, caches, failing, broken, last>>

\* with_request_scratch, and the pair in build_graph_for_sheet_names_unobserved:
\* observed, held against no limit, released whatever the work inside returns.
OpenScratch(n) ==
    /\ Running({"request", "scratch", "prepare"})
    /\ Len(frames) < MaxFrames
    /\ ledger.scratch + n <= MaxBytes
    /\ frames' = Push(Scope("scratch", n, ledger.scratch, FALSE))
    /\ ledger' = [ledger EXCEPT !.scratch = @ + n]
    /\ UNCHANGED <<accounted, spills, caches, failing, broken, last>>

CloseScratch ==
    LET released == ReleaseScratch(ledger, Top.bytes)
    IN  /\ In({"scratch"})
        /\ frames' = Pop
        /\ ledger' = released.ledger
        /\ broken' = IF released.ok THEN broken ELSE broken \cup {"release"}
        /\ UNCHANGED <<accounted, spills, caches, failing, last>>

\* prepare_graph_for_targets_unobserved notes the scratch in use before the
\* transaction.
BeginPrepare ==
    /\ Running({"request"})
    /\ Len(frames) < MaxFrames
    /\ frames' = Push(Scope("prepare", 0, ledger.scratch, FALSE))
    /\ UNCHANGED <<ledger, accounted, spills, caches, failing, broken, last>>

MaxTransientPreparationRetries == 2

\* Mutant of EndPrepare: an error leaves before the release.
EndPrepareOnSuccess(routed) ==
    LET retry == /\ routed
                 /\ failing = "stale"
                 /\ Top.tries < MaxTransientPreparationRetries
    IN  /\ In({"prepare"})
        /\ ledger' = IF failing = "no" THEN ReleaseScratchTo(ledger, Top.mark).ledger
                     ELSE ledger
        /\ frames' = IF retry THEN [frames EXCEPT ![Len(frames)].tries = @ + 1] ELSE Pop
        /\ failing' = IF retry THEN "no" ELSE failing
        /\ UNCHANGED <<accounted, spills, caches, broken, last>>

\* ... and goes back to it after the transaction, whatever that returned. A
\* routed evaluation prepares again after a transient stale error, at most twice.
EndPrepare(routed) ==
    LET released == ReleaseScratchTo(ledger, Top.mark)
        retry == /\ routed
                 /\ failing = "stale"
                 /\ released.ok
                 /\ Top.tries < MaxTransientPreparationRetries
    IN  /\ In({"prepare"})
        /\ ledger' = released.ledger
        /\ frames' = IF retry THEN [frames EXCEPT ![Len(frames)].tries = @ + 1] ELSE Pop
        /\ failing' = CASE retry -> "no"
                        [] released.ok /\ ~retry -> failing
                        [] OTHER -> "error"
        /\ UNCHANGED <<accounted, spills, caches, broken, last>>

\* Scratch for discovery and for the plan of a preparation.
ReserveSource(n) ==
    LET reserved == ReserveGraphSource(ledger, n)
    IN  /\ Running({"prepare"})
        /\ ledger.scratch + n <= MaxBytes
        /\ ledger' = reserved.ledger
        /\ failing' = Fails(reserved)
        /\ UNCHANGED <<accounted, spills, caches, frames, broken, last>>

\* replay_target_coordinates asks a package for its formulas; retained says
\* whether the package has a token, so that it may keep what it read.
BeginSelect(retained) ==
    /\ Running({"prepare"})
    /\ Len(frames) < MaxFrames
    /\ frames' = Push(Scope("select", 0, ledger.scratch, retained))
    /\ UNCHANGED <<ledger, accounted, spills, caches, failing, broken, last>>

\* The backend's checkpoint: work is charged, retained growth is admitted, then
\* scratch; the first refusal ends it.
SelectCheckpoint(units, n) ==
    LET charged == ChargeWork(ledger, units)
        kept == IF Top.retained THEN ReserveRetained(charged.ledger, n)
                ELSE Accepted(charged.ledger)
        both == ReserveGraphSource(kept.ledger, n)
    IN  /\ Running({"select"})
        /\ ledger.work + units <= MaxWork
        /\ ledger.scratch + n <= MaxBytes
        /\ ledger' = CASE ~charged.ok -> charged.ledger
                       [] charged.ok /\ ~kept.ok -> kept.ledger
                       [] OTHER -> both.ledger
        /\ failing' = IF charged.ok /\ kept.ok /\ both.ok THEN "no" ELSE "error"
        /\ accounted' = IF charged.ok /\ kept.ok /\ Top.retained
                        THEN accounted + n ELSE accounted
        /\ frames' = IF charged.ok /\ kept.ok /\ both.ok /\ Top.retained
                     THEN [frames EXCEPT ![Len(frames)].bytes = @ + n]
                     ELSE frames
        /\ UNCHANGED <<spills, caches, broken, last>>

\* The backend publishes a cache of bytes that were admitted.
Publish(n) ==
    /\ In({"select"})
    /\ n <= Top.bytes
    /\ caches + n <= MaxCaches
    /\ caches' = caches + n
    /\ frames' = [frames EXCEPT ![Len(frames)].bytes = @ - n]
    /\ UNCHANGED <<ledger, accounted, spills, failing, broken, last>>

\* Reconciled on success and on failure; the selection's own error goes first.
EndSelect ==
    /\ In({"select"})
    /\ frames' = Pop
    /\ Reconcile(ledger, accounted)
    /\ UNCHANGED <<caches, broken, last>>

\* Mutant of PlanSchedule: a refused peak is ignored.
PlanScheduleAnyway(n) ==
    LET reserved == ReserveScheduleDiscovery(ledger, n)
        released == ReleaseScratch(reserved.ledger, n)
    IN  /\ Running({"request"})
        /\ ledger' = IF reserved.ok THEN released.ledger ELSE reserved.ledger
        /\ UNCHANGED <<accounted, spills, caches, frames, failing, broken, last>>

\* Every way to a schedule: the planner's peak is held against the limit and
\* released at once.
PlanSchedule(n) ==
    LET reserved == ReserveScheduleDiscovery(ledger, n)
        released == ReleaseScratch(reserved.ledger, n)
    IN  /\ Running({"request"})
        /\ ledger' = IF reserved.ok THEN released.ledger ELSE reserved.ledger
        /\ failing' = IF reserved.ok THEN Fails(released) ELSE "error"
        /\ UNCHANGED <<accounted, spills, caches, frames, broken, last>>

\* resource_checkpoint with work to charge.
Charge(units) ==
    LET charged == ChargeWork(ledger, units)
    IN  /\ Running({"request", "scratch", "prepare", "select"})
        /\ ledger.work + units <= MaxWork
        /\ ledger' = charged.ledger
        /\ failing' = Fails(charged)
        /\ UNCHANGED <<accounted, spills, caches, frames, broken, last>>

\* remember_pending_spill costs a unit of work. A vertex that has an entry keeps
\* it. For a new one a full list doubles, and the whole increment is admitted
\* before it is allocated and given back when the allocation fails.
RememberKnownSpill ==
    LET charged == ChargeWork(ledger, 1)
    IN  /\ Running({"request"})
        /\ spills.len > 0
        /\ ledger.work + 1 <= MaxWork
        /\ ledger' = charged.ledger
        /\ failing' = Fails(charged)
        /\ UNCHANGED <<accounted, spills, caches, frames, broken, last>>

Additional == IF spills.cap = 0 THEN 1 ELSE spills.cap

\* Mutant of RememberSpill: only the new entry is admitted, not the growth.
RememberSpillByOne(allocated) ==
    LET full == spills.len = spills.cap
        n == IF full THEN EntryBytes ELSE 0
        reserved == ReserveRetained(ledger, n)
    IN  /\ Running({"request"})
        /\ spills.len < MaxSpills
        /\ allocated
        /\ ledger' = reserved.ledger
        /\ accounted' = IF reserved.ok THEN accounted + n ELSE accounted
        /\ failing' = Fails(reserved)
        /\ spills' = IF reserved.ok
                     THEN [len |-> spills.len + 1,
                           cap |-> IF full THEN spills.cap + Additional ELSE spills.cap]
                     ELSE spills
        /\ UNCHANGED <<caches, frames, broken, last>>

RememberSpill(allocated) ==
    LET charged == ChargeWork(ledger, 1)
        full == spills.len = spills.cap
        n == IF full THEN Additional * EntryBytes ELSE 0
        reserved == IF full THEN ReserveRetained(charged.ledger, n)
                    ELSE Accepted(charged.ledger)
        returned == ReleaseRetained(reserved.ledger, n)
        admitted == charged.ok /\ reserved.ok
    IN  /\ Running({"request"})
        /\ spills.len < MaxSpills
        /\ ledger.work + 1 <= MaxWork
        /\ full \/ allocated
        /\ ledger' = CASE ~charged.ok -> charged.ledger
                       [] admitted /\ ~allocated -> returned.ledger
                       [] OTHER -> reserved.ledger
        /\ accounted' = IF admitted /\ (allocated \/ ~returned.ok)
                        THEN accounted + n ELSE accounted
        /\ failing' = IF admitted /\ allocated THEN "no" ELSE "error"
        /\ spills' = IF admitted /\ allocated
                     THEN [len |-> spills.len + 1,
                           cap |-> IF full THEN spills.cap + Additional ELSE spills.cap]
                     ELSE spills
        /\ UNCHANGED <<caches, frames, broken, last>>

\* A spill that is no longer blocked, or whose formula is gone, loses its entry;
\* the list keeps its capacity.
ForgetSpill ==
    /\ ~Active \/ Running({"request"})
    /\ spills.len > 0
    /\ spills' = [spills EXCEPT !.len = @ - 1]
    /\ UNCHANGED <<ledger, accounted, caches, frames, failing, broken, last>>

\* mark_topology_edited when a preparation or a build commits formulas. The
\* error is asserted away, not returned.
TopologyEdit ==
    LET released == AccountMixedCache(ledger)
    IN  /\ Running({"prepare", "scratch"})
        /\ ledger' = released.ledger
        /\ broken' = IF released.ok THEN broken ELSE broken \cup {"mixed"}
        /\ UNCHANGED <<accounted, spills, caches, frames, failing, last>>

\* A package is consumed, discarded or evicts its cache; the ledger learns of it
\* at the next reconciliation.
DropCaches(n) ==
    /\ ~Active \/ Running({"prepare", "scratch"})
    /\ n < caches
    /\ caches' = n
    /\ UNCHANGED <<ledger, accounted, spills, frames, failing, broken, last>>

\* A checkpoint finds the request cancelled, or, through the ledger, past its
\* deadline; or a step fails for a reason of its own.
Stop(deadline) ==
    /\ Running({"request", "scratch", "prepare", "select"})
    /\ failing' = "error"
    /\ ledger' = IF deadline THEN Exhausted(ledger) ELSE ledger
    /\ UNCHANGED <<accounted, spills, caches, frames, broken, last>>

\* The preparation finds its assumptions stale (a provider or a function table
\* has changed).
Stale ==
    /\ Running({"prepare"})
    /\ failing' = "stale"
    /\ UNCHANGED <<ledger, accounted, spills, caches, frames, broken, last>>

LedgerNext ==
    \/ \E b \in Budgets : BeginRequest(b)
    \/ BeginNested
    \/ EndRequest
    \/ \E n \in Sizes : OpenScratch(n)
    \/ CloseScratch
    \/ BeginPrepare
    \/ \E routed \in BOOLEAN : EndPrepare(routed)
    \/ \E n \in Sizes : ReserveSource(n)
    \/ \E retained \in BOOLEAN : BeginSelect(retained)
    \/ \E units \in {0, 1}, n \in Sizes : SelectCheckpoint(units, n)
    \/ \E n \in Sizes : Publish(n)
    \/ EndSelect
    \/ \E n \in Sizes : PlanSchedule(n)
    \/ \E units \in {1, 2} : Charge(units)
    \/ RememberKnownSpill
    \/ \E allocated \in BOOLEAN : RememberSpill(allocated)
    \/ ForgetSpill
    \/ TopologyEdit
    \/ \E n \in 0 .. MaxCaches : DropCaches(n)
    \/ \E deadline \in BOOLEAN : Stop(deadline)
    \/ Stale

LedgerSpec == LedgerInit /\ [][LedgerNext]_ledgerVars

-----------------------------------------------------------------------------
\* The variables have their types: no count of the ledger or of the engine goes
\* below zero.
LedgerTypeOK ==
    /\ ledger \in Ledger
    /\ accounted \in Nat
    /\ spills \in [len : Nat, cap : Nat]
    /\ caches \in Nat
    /\ frames \in Seq(Frame)
    /\ failing \in {"no", "stale", "error"}
    /\ broken \in SUBSET Assertions
    /\ last \in [ok : BOOLEAN, exhausted : BOOLEAN, broken : SUBSET Assertions]

\* During a request the retained bytes of the ledger are exactly the ones the
\* engine has accounted, so that the release with which
\* reconcile_source_cache_footprints starts can never underflow.
AccountedIsReserved == Active => ledger.retained = accounted

\* Whatever outlives the request (the list of blocked spills at its capacity,
\* the published caches and what a running selection may still publish) was
\* admitted by the ledger of the running request before it was allocated.
HeldIsAdmitted ==
    Active => Held(spills, caches) + (IF Top.kind = "select" THEN Top.bytes ELSE 0)
                  <= ledger.retained

\* A request works, or prepares again after a transient error, only within its
\* retained budget: one that starts over it, because earlier requests ran under a
\* larger budget, fails before it works.
RunningWithinBudget ==
    Active /\ failing # "error" => Within(ledger.retained, ledger.budgets.retained)

\* Retained memory is accounted for: no count underflows, accounts and ledger
\* agree, what is held was admitted, and work is done within the budget only.
RetainedOK == LedgerTypeOK /\ AccountedIsReserved /\ HeldIsAdmitted /\ RunningWithinBudget

\* When no scope but requests is open no scratch is reserved: every scope gives
\* back what was reserved inside it on every path, errors and retries included,
\* and the schedule limit is held against the planner alone.
ScratchPaired ==
    Active /\ (\A i \in 1 .. Len(frames) : frames[i].kind = "request") => ledger.scratch = 0

\* A budget whose mixed cache's limit lies below the limit for everything retained,
\* as in every budget that ResourceEnvelope derives.
MixedBelow(b) == b.mixed # Unlimited /\ (b.retained = Unlimited \/ b.mixed < b.retained)

\* Where the assertions of the callers hold: release_request_scratch never releases
\* more than is reserved, under no budget; mark_topology_edited's
\* account_mixed_cache(0), which holds everything retained against the smaller
\* limit, is refused only under a budget of MixedBelow.
AssertionsHold ==
    /\ "release" \notin broken
    /\ "mixed" \in broken => MixedBelow(ledger.budgets)

\* The assertion of mark_topology_edited as the code states it, for every budget:
\* debug_assert!(released.is_ok()).  Under a budget of MixedBelow it fails.
ReleaseIsAccepted == "mixed" \notin broken

\* A request that succeeds does not report an exhausted resource: the ledger's
\* refusals all become errors of the request, except the one that
\* mark_topology_edited asserts away.
SuccessIsClean == last.ok /\ last.exhausted => "mixed" \in last.broken
=============================================================================
