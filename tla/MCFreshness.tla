----------------------------- MODULE MCFreshness -----------------------------
(***************************************************************************)
(* A small workbook for Freshness.                                         *)
(*   a = an array over itself and k when x is 1, else 0                    *)
(*   w = a and p      d = INDIRECT: w when p is 0, a when p is 1           *)
(*   z = d            r = k, a reader of the child           t = r         *)
(* In MixedStatic, t also reads x.                                         *)
(***************************************************************************)
EXTENDS Freshness

Number(s, c) == IF s[c] = Empty THEN 0 ELSE s[c]

MCStatic(v) == CASE v = "a" -> {"x"} [] v = "w" -> {"a", "p"} [] v = "d" -> {"p"}
                 [] v = "z" -> {"d"} [] v = "r" -> {"k"} [] v = "t" -> {"r"}

MixedStatic(v) == IF v = "t" THEN {"r", "x"} ELSE MCStatic(v)

MCTarget(v, s) == IF s["p"] = 0 THEN {"w"} ELSE {"a"}

Scalar(n) == [value |-> n, spill |-> [c \in {} |-> Empty]]

MCResult(v, s) ==
  CASE v = "a" -> IF s["x"] = 1 THEN [value |-> 1, spill |-> [c \in {"k"} |-> 1]]
                  ELSE Scalar(0)
    [] v = "d" -> Scalar(Number(s, CHOOSE c \in Target(v, s) : TRUE))
    [] OTHER -> Scalar(IF \A c \in Static(v) : Number(s, c) = 1 THEN 1 ELSE 0)

MCRuns == {{"w", "r"}}
===============================================================================
