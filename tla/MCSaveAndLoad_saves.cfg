\* Two saves beside a user who talks, reshapes and runs programs; a disk that damages.
CONSTANTS
    Shells = {1}
    Scenarios <- MCScenarios
    MaxTalk = 3
    MaxShape = 2
    MaxRun = 3
    MaxAny = 2
SPECIFICATION Spec
CHECK_DEADLOCK FALSE
INVARIANTS
    TypeOK
    RecordsOneLook
    ScrollbackIsOfItsPane
    DegradedOnlyIfGone
    ReadsBackAsSaved
PROPERTIES
    FailsOnlyIfDisturbed
