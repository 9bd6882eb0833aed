---------------------------- MODULE LinearHistory ----------------------------
(***************************************************************************)
(* What undo and redo promise: a sheet with one line of history.  An       *)
(* action is a group of edits between Begin and End, or Abort, which takes *)
(* all of them back; Undo takes back the last action whole, Redo brings    *)
(* back the last one undone, and a new action forgets what was undone.     *)
(***************************************************************************)
EXTENDS Sequences, Naturals

CONSTANTS Cells, Contents

VARIABLES
  sheet,    \* the contents of every cell
  past,     \* the sheet before each action done, oldest first
  future,   \* the sheet after each action undone, the next to redo last
  open      \* an action is open

vars == <<sheet, past, future, open>>

Last(s) == s[Len(s)]
Front(s) == SubSeq(s, 1, Len(s) - 1)

Init ==
  /\ sheet \in [Cells -> Contents]
  /\ past = <<>> /\ future = <<>> /\ open = FALSE

Begin ==
  /\ ~open /\ open'
  /\ past' = Append(past, sheet)
  /\ UNCHANGED <<sheet, future>>

Edit(c, x) ==
  /\ open
  /\ sheet' = [sheet EXCEPT ![c] = x]
  /\ UNCHANGED <<past, future, open>>

End ==
  /\ open /\ ~open'
  /\ future' = <<>>
  /\ UNCHANGED <<sheet, past>>

Abort ==
  /\ open /\ ~open'
  /\ sheet' = Last(past)
  /\ past' = Front(past)
  /\ UNCHANGED future

Undo ==
  /\ ~open /\ past # <<>>
  /\ sheet' = Last(past)
  /\ past' = Front(past) /\ future' = Append(future, sheet)
  /\ UNCHANGED open

Redo ==
  /\ ~open /\ future # <<>>
  /\ sheet' = Last(future)
  /\ future' = Front(future) /\ past' = Append(past, sheet)
  /\ UNCHANGED open

Next ==
  \/ Begin
  \/ \E c \in Cells, x \in Contents : Edit(c, x)
  \/ End
  \/ Abort
  \/ Undo
  \/ Redo

Spec == Init /\ [][Next]_vars
===============================================================================
