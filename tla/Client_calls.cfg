\* Two commands over two transports; a line of output may look like the end.
CONSTANTS
    MaxCommands = 2
    MaxEvents = 1
    MaxTransports = 2
    MaxOutput = 1
    OutputLooks = {"error", "event"}
    Terminators = {"end", "broken"}
SPECIFICATION FairSpec
CHECK_DEADLOCK FALSE
INVARIANTS
    TypeOK
    HeardRightly
PROPERTIES
    OwnReply
    CallsReturn
