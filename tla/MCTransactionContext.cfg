SPECIFICATION Spec
CONSTANTS
  a1 = a1
  f1 = f1
  d1 = d1
  d2 = d2
  s1 = s1
  None = None
  Workbook = Workbook
  Cells <- MCCells
  Formulas <- MCFormulas
  Scopes <- MCScopes
  Definitions <- MCDefinitions
  Savepoints <- MCSavepoints
  MaxSize = 2
  MaxChanges = 4
  MaxSavepoints = 2
INVARIANTS RollbackRestores RollbackNeverFails IndexesOK
PROPERTY CommittedHistoryKept
