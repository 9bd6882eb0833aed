SPECIFICATION LedgerSpec
CONSTANTS
    Budgets <- RequestBudgets
    EntryBytes = 1
    Sizes <- ByteSizes
    MaxFrames = 4
    MaxSpills = 3
    MaxCaches = 3
    MaxBytes = 4
    MaxWork = 3
INVARIANTS
    RetainedOK
    ScratchPaired
    AssertionsHold
    SuccessIsClean
