CONSTANTS
    Sizings = {1, 2, 3}
    Saved = {1, 2}
    Page <- PageOf
    Targets = {2}
    New = New
    None = None
    MaxEdits = 1
    MaxOpens = 2
    MaxFetches = 1
    MaxSaves = 1
SPECIFICATION Spec
INVARIANTS
    TypeOK
    RowsKeepTheirInputs
    SilenceMeansSaved
CONSTRAINT AsStudied

