SPECIFICATION LazySpec
CONSTANTS
  e1 = e1
  Events <- MCEvents
  Caps <- MCCaps
  MaxRun = 2
  MaxSeq = 3
  MaxDepth = 2
  MaxGroups = 2
  MaxCapture = 2
INVARIANT LazyWellFormed
PROPERTY ImplementsChangeLog
