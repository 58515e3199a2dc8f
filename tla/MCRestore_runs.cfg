\* Two restorers, cut and begun again, beside a user.
CONSTANTS
    a = a
    b = b
    Scratch = Scratch
    Restorers = {daemon, cli}
    SessionNames <- MCSessionNames
    Snapshots <- MCSnapshots
    BaseIndex = 0
    MaxIndex = 2
    MaxMoves = 1
    MaxCuts = 1
    MaxRuns = 2
SYMMETRY Alike
SPECIFICATION Spec
INVARIANTS
    TypeOK
    StampMeansWhole
PROPERTIES
    LiveIsKept
    RestoredIsComplete
    FinishedPlansNothing
    RefusedOnlyIfDisturbed
    BuiltOnce
CHECK_DEADLOCK FALSE
