------------------------------ MODULE CellStore ------------------------------
(***************************************************************************)
(* Where cell values live: one column chunk of an Arrow sheet              *)
(* (formualizer-eval, arrow_store/mod.rs) with its delta overlay (user     *)
(* edits), computed overlay (results of formulas) and base lanes, and the  *)
(* engine's writes to them (engine/eval.rs) as functions from a store to a *)
(* store.  A store is any record with the fields                           *)
(*   delta, computed   [Cells -> Values or None]; None: no entry           *)
(*   base              [Cells -> Values]                                   *)
(*   limit             the delta entries the chunk may hold before they    *)
(*                     are merged into the base: a fiftieth of its length, *)
(*                     or 1024                                             *)
(* Number formats and the encoding of a value in a lane are left out, and  *)
(* so is compact_all_computed_overlays, which moves results into the base  *)
(* when the computed overlays outgrow `max_overlay_memory_bytes` (None by  *)
(* default: never).                                                        *)
(***************************************************************************)
EXTENDS Naturals, FiniteSets

CONSTANT None   \* no overlay entry

\* get_cell_value: user edits over computed results over the base.
ReadCell(s, c) ==
  CASE s.delta[c] # None -> s.delta[c]
    [] s.delta[c] = None /\ s.computed[c] # None -> s.computed[c]
    [] OTHER -> s.base[c]

\* maybe_compact_chunk: the delta overlay moves into the base lanes; the
\* computed overlay stays.
MaybeCompact(s) ==
  IF Cardinality({c \in DOMAIN s.delta : s.delta[c] # None}) <= s.limit
  THEN s
  ELSE [s EXCEPT !.base = [c \in DOMAIN s.base |->
                             IF s.delta[c] # None THEN s.delta[c] ELSE s.base[c]],
                 !.delta = [c \in DOMAIN s.delta |-> None]]

\* Engine::mirror_value_to_overlay: a user edit also drops the computed
\* entry, which would mask the edit once it is compacted into the base.
MirrorValue(s, c, v) == MaybeCompact([s EXCEPT !.delta[c] = v, !.computed[c] = None])

\* set_delta_overlay_cell_raw (undo and redo of an action journal): v = None
\* removes the entry.
SetDeltaRaw(s, c, v) == [s EXCEPT !.delta[c] = v]

\* clear_delta_overlay_cell: the cell becomes a formula.
ClearDelta(s, c) == [s EXCEPT !.delta[c] = None]

\* mirror_value_to_computed_overlay: a formula was evaluated.
SetComputed(s, c, v) == [s EXCEPT !.computed[c] = v]
===============================================================================
