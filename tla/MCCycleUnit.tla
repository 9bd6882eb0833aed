----------------------------- MODULE MCCycleUnit -----------------------------
(***************************************************************************)
(* Workbooks for CycleUnit: three members, each with one of the formulas   *)
(* below.                                                                  *)
(***************************************************************************)
EXTENDS CycleUnit

Const(c) == [op |-> "const", of |-> c]
Op(o, j) == [op |-> o, of |-> j]
Plain(t) == [test |-> "none", on |-> 1, yes |-> t, no |-> Const(0)]
If(test, c, t, e) == [test |-> test, on |-> c, yes |-> t, no |-> e]

\* 1; MIN(j + 1, Top); 1 - j
Plains == {Plain(Const(1)), Plain(Op("flip", 1))} \cup {Plain(Op("next", j)) : j \in Members}
\* IF(input, j, 1)
Inputs == {If("input", 1, Op("ref", j), Const(1)) : j \in {1, 3}}
\* IF(c > 0, j, 1), IF(c > 0, 1, j)
Guards == {If("positive", c, Op("ref", j), Const(1)) : c, j \in Members}
          \cup {If("positive", c, Const(1), Op("ref", j)) : c, j \in Members}
\* IF(ISERROR(1), j, 0)
Errors == {If("iserror", 1, Op("ref", j), Const(0)) : j \in {2, 3}}
\* IF(c > 0, SEQUENCE(2), 0), and a formula that spilled before
Arrays == {If("positive", c, Op("array", c), Const(0)) : c \in {2, 3}}
Anchors == {Plain(Op("anchor", 1))}

Formulas == Plains \cup Inputs \cup {f \in Guards : f.on \notin {f.yes.of, f.no.of}}
            \cup Errors \cup Arrays \cup Anchors

\* The second member is the one others test.
MCWorkbooks == {w \in [Members -> Formulas] : w[2] \in Plains \cup Inputs}
===============================================================================
