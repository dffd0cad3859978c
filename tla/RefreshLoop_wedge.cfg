\* One project, opened again while a frame of the first run hangs.
\* The user stops asking, so everything may come to rest.
CONSTANTS
    p1 = p1
    Sizings = {1}
    Projects = {p1}
    ProjectOf <- OneProject
    RefreshParallel = 2
    None = None
    MaxAsks = 2
SPECIFICATION LoopSpec
CHECK_DEADLOCK FALSE
PROPERTIES
    RefreshEnds
