--------------------------- MODULE MCLazyChangeLog ---------------------------
(* LazyChangeLog on a small instance. *)
EXTENDS LazyChangeLog
CONSTANTS e1
MCEvents == {e1}
MCCaps == {NoCap, 0, 2}
==============================================================================
