----------------------------- MODULE MCArrowSheet -----------------------------
(* Chunks of two rows, so that five rows have up to three chunks and an    *)
(* edit can fall on, before and behind every boundary.                     *)
EXTENDS ArrowSheet

CONSTANTS user, result, none

TheUserValues == {user}
TheResults == {result}
SmallInserts == {"small_inserts"}
HasColumns == {"has_columns"}
===============================================================================
