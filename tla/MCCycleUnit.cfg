SPECIFICATION Spec
CONSTANTS
  N = 3
  Workbooks <- MCWorkbooks
  Policies = {"error", "iterate"}
  MaxIterations = 3
  MaxChange = 2
  Top = 2
  Empty = Empty
  Circ = Circ
  Array = Array
  MaxEvents = 1
CHECK_DEADLOCK FALSE
INVARIANTS SettledIsExact LoopOK RetainedIsFixed StateSurvives
PROPERTY RequestsEnd
