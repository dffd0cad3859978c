\* Two files with one VM in common, which has moved between clusters.
CONSTANTS
    Files = {1, 2}
    Content <- TwoFiles
    Cluster <- Moved
    Names = {"A", "B"}
    Skip = Skip
    Both = Both
    None = None
    MaxUploads = 2
    MaxChoices = 3
    MaxEdits = 1
SPECIFICATION Spec
CHECK_DEADLOCK FALSE
INVARIANTS
    TypeOK
    DialogIsCurrent
    SummaryIsOfTheRows
PROPERTIES
    EditsFollowTheVm
