\* A line of output that looks like the end of its block.
CONSTANTS
    MaxCommands = 2
    MaxEvents = 0
    MaxTransports = 1
    MaxOutput = 1
    OutputLooks = {"end"}
    Terminators = {"end"}
SPECIFICATION Spec
CHECK_DEADLOCK FALSE
INVARIANTS
    SettledIsOldest
