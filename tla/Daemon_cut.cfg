\* A restore is cut short halfway.
CONSTANTS
    Names = {a, b}
    Scratches = {x, y}
    Nothing = Nothing
    Debounce = 1
    MaxInterval = 2
    MaxServers = 2
    MaxMoves = 2
    MaxFaults = 1
    MaxTrouble = 6
    FlickersIn = {}
    RestoreMayBeCut = TRUE
    RestartInBoot = FALSE
SPECIFICATION Spec
INVARIANTS
    OnlyTheUserStopsBoot
