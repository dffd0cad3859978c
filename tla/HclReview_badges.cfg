CONSTANTS
    Components = {1, 2}
    Platforms = {11, 12}
    Texts = {"a", "b"}
    None = None
    Sites <- Publications
    MaxRuns = 2
    MaxDetours = 2
SPECIFICATION Spec
CHECK_DEADLOCK FALSE
INVARIANT BadgesFollowTheSite
