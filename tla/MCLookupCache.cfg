SPECIFICATION Spec
CONSTANTS
  Threads = {1, 2}
  Ranges = {"in", "vol", "calc"}
  Volatile = {"vol"}
  Recomputed = {"calc"}
  Contents = {"small", "err"}
  Faulty = {"err"}
  Bytes <- MCBytes
  Estimate = 1
  MaxBytes = 3
  BuildThreshold = 1
  Rejected = Rejected
  None = None
  MaxEdits = 2
INVARIANTS AccountsOK SingleFlight IndexIsCached EditsInvalidate
PROPERTY CallsReturn
