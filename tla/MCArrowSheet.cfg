SPECIFICATION SheetSpec
CONSTANTS
    ChunkRows = 2
    user = user
    result = result
    none = none
    UserValues <- TheUserValues
    Results <- TheResults
    Blank <- none
    MaxRows = 5
    MaxCols = 2
    MaxShown = 1
    MaxBand = 2
    Rules <- AllRules
INVARIANTS
    LayoutOK
    ShowsGrid
