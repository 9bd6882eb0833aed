----------------------------- MODULE MCLookupCache -----------------------------
(***************************************************************************)
(* Sizes for LookupCache: two small indexes fit into the cache together, a *)
(* big one only alone, and the estimate is below the size of both.         *)
(***************************************************************************)
EXTENDS LookupCache

MCBytes == [c \in Contents |-> IF c = "big" THEN 3 ELSE 2]
===============================================================================
