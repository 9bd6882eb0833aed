SPECIFICATION Spec
CONSTANTS
  e1 = e1
  Events <- MCEvents
  Caps <- MCCaps
  MaxRun = 2
  MaxSeq = 4
  MaxDepth = 2
  MaxGroups = 2
  MaxCapture = 3
INVARIANTS
  LogWellFormed
  GroupsContiguous
  CapHolds
PROPERTIES
  AuditStable
  FailedEditInvisible
  EditIsOneGroup
