SPECIFICATION Spec
CONSTANTS
  Inputs = {"p", "x"}
  Formulas = {"a", "w", "d", "z", "r", "t"}
  Children = {"k"}
  Values = {0, 1}
  Empty = Empty
  Volatile = {"d"}
  Dynamic = {"d"}
  Arrays = {"a"}
  Compressed = {"z"}
  Runs <- MCRuns
  Static <- MCStatic
  Target <- MCTarget
  Result <- MCResult
  Targets = {"z", "t"}
  MaxReplan = 5
  Rules = {"settled_spills", "first_pass_failures"}
INVARIANTS CleanIsFresh DirtyClosed PassesOK RequestsDeliver
