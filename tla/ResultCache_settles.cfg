\* Two sizings that may replicate to each other, the refresh loop alone, one payload
\* reading the catalog.
\* With every sizing deleted there is nothing left to do: no deadlock check.
CONSTANTS
    p1 = p1
    p2 = p2
    k1 = k1
    k2 = k2
    None = None
    Sizings <- TwoSizings
    DrTargets = {}
    Payloads = {p1, p2}
    ReadsCatalog = {p1}
    Settings = {s1, s2}
    Catalogs = {k1}
    Terms = {t1}
    Windows = {}
    Frames = {f1}
    MaxChanges = 2
    MaxFaults = 1
SPECIFICATION RefreshSpec
CHECK_DEADLOCK FALSE
PROPERTIES
    StoringNeverStalesOthers
    
