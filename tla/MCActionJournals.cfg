SPECIFICATION UnburiedSpec
CONSTANTS
  c1 = c1
  c2 = c2
  f1 = f1
  v1 = v1
  v2 = v2
  Cells <- MCCells
  Formulas <- MCFormulas
  Values <- MCValues
  Empty = Empty
  Result = Result
  None = None
  Limits <- MCLimits
  MaxActions = 2
  MaxEdits = 2
SYMMETRY MCSymmetry
INVARIANT StoreOK
PROPERTY ImplementsLinearHistory
