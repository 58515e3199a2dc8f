\* The server is restarted while the daemon boots.
CONSTANTS
    Names = {a, b}
    Scratches = {x, y}
    Nothing = Nothing
    Debounce = 1
    MaxInterval = 2
    MaxServers = 3
    MaxMoves = 4
    MaxFaults = 2
    MaxTrouble = 6
    FlickersIn = {}
    RestoreMayBeCut = FALSE
    RestartInBoot = TRUE
SPECIFICATION Spec
INVARIANTS
    KeptServersLeftAlone
