\* Calls, notifications, stray blocks, exits, failed reads, aborts and closes.
CONSTANTS
    MaxCommands = 2
    MaxEvents = 2
    MaxStrays = 1
    ReadMayFail = TRUE
SPECIFICATION FairSpec
INVARIANTS
    TypeOK
    OwnReply
    EventsComeAhead
    KilledIsDisposed
    EndingsAgree
PROPERTIES
    CallsReturn
    ClosesReturn
CHECK_DEADLOCK FALSE
