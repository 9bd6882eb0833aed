SPECIFICATION Spec
CONSTANTS
  Threads = {1}
  Ranges = {"calc"}
  Volatile = {}
  Recomputed = {"calc"}
  Contents = {"small", "big"}
  Faulty = {}
  Bytes <- MCBytes
  Estimate = 1
  MaxBytes = 4
  BuildThreshold = 3
  Rejected = Rejected
  None = None
  MaxEdits = 1
INVARIANT NeverStale
