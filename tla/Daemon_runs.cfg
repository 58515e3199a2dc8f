\* The daemon goes on; the user and the faults come to an end.
CONSTANTS
    Names = {a, b}
    Scratches = {x, y}
    Nothing = Nothing
    Debounce = 1
    MaxInterval = 2
    MaxServers = 2
    MaxMoves = 4
    MaxFaults = 2
    MaxTrouble = 4
    FlickersIn = {"survey", "save"}
    RestoreMayBeCut = TRUE
    RestartInBoot = FALSE
SPECIFICATION FairSpec
INVARIANTS
    TypeOK
    KeptServersLeftAlone
    OnlyTheUserStopsCalmBoot
PROPERTIES
    NothingForgotten
    BuiltIsSaved
    RestoredInTheEnd
