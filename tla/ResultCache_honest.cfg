\* A source and its DR target, a window and a refresh frame.
\* With every sizing deleted there is nothing left to do: no deadlock check.
CONSTANTS
    p1 = p1
    p2 = p2
    k1 = k1
    k2 = k2
    None = None
    Sizings <- TwoSizings
    DrTargets <- SecondIsDr
    Payloads = {p1, p2}
    ReadsCatalog = {p1, p2}
    Settings = {s1}
    Catalogs = {k1, k2}
    Terms = {t1, t2}
    Windows = {w1}
    Frames = {f1}
    MaxChanges = 3
    MaxFaults = 0
SPECIFICATION Spec
CHECK_DEADLOCK FALSE
SYMMETRY Alike
INVARIANTS
    TypeOK
    HonestUnlessOvertaken
PROPERTIES
    InputChangesReachTheTarget
