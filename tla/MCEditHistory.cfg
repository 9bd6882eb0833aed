SPECIFICATION Spec
CONSTANTS
  c1 = c1
  c2 = c2
  f1 = f1
  v1 = v1
  v2 = v2
  Cells <- MCCells
  Formulas <- MCFormulas
  Values <- MCValues
  Empty = Empty
  Result = Result
  None = None
  Limit = 1
  Defers <- BothModes
  Rules <- AllRules
  MaxSeq = 11
  MaxDepth = 2
  MaxEdits = 2
SYMMETRY MCSymmetry
CHECK_DEADLOCK FALSE
INVARIANTS UndoAvailable StepsAreActions
PROPERTIES ImplementsLinearHistory
