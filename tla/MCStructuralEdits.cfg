SPECIFICATION Spec
CONSTANTS
    N = 5
    Workbooks <- Books
    x = x
    none = none
    refError = refError
    rowMark = rowMark
    Values <- OneValue
    Empty <- none
    RefError <- refError
    RowMark <- rowMark
    RangeExpansionLimit = 2
    MaxRow = 5
    MaxCount = 2
    MaxFilled = 1
    MaxEdits = 2
INVARIANTS
    RefsFollow
    RunsOK
    CleanIsFresh
