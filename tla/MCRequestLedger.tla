-------------------------- MODULE MCRequestLedger --------------------------
(* A request under no limit, under tight limits as ResourceEnvelope derives *)
(* them, with the mixed cache's limit below the limit for everything        *)
(* retained, and under a tight retained budget alone.                       *)
EXTENDS RequestLedger

Loose == [retained |-> Unlimited, mixed |-> Unlimited, scratch |-> Unlimited,
          schedule |-> Unlimited, source |-> Unlimited, work |-> Unlimited]

Tight == [retained |-> 3, mixed |-> 1, scratch |-> 4,
          schedule |-> 1, source |-> 3, work |-> 2]

Kept == [Loose EXCEPT !.retained = 1]

RequestBudgets == {Loose, Tight, Kept}
ByteSizes == 0 .. 2
=============================================================================
