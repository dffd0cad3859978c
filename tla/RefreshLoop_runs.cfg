\* Two requests: both for the project with sizings, or one for a project without any.
\* The user stops asking, so everything may come to rest.
CONSTANTS
    p1 = p1
    Sizings = {1, 2, 3}
    Projects = {p1, empty}
    ProjectOf <- OneProject
    RefreshParallel = 2
    None = None
    MaxAsks = 2
SPECIFICATION LoopSpec
CHECK_DEADLOCK FALSE
INVARIANTS
    TypeOK
    CountersBelongToTheRun
    SilentEndIsFresh
    RunsAreAskedFor
PROPERTIES
    RunEndsUnlessOverlapped
