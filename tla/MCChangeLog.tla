----------------------------- MODULE MCChangeLog -----------------------------
(* ChangeLog on a small instance. *)
EXTENDS ChangeLog
CONSTANTS e1
MCEvents == {e1}
MCCaps == {NoCap, 0, 2}
==============================================================================
