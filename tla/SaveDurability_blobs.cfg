\* What a power loss may do to a generation whose save has returned.
CONSTANTS
    LastId = 4
    Blobs = {b1, b2}
    Keep = 1
    Nothing = Nothing
SPECIFICATION Spec
PROPERTIES
    CompleteStaysComplete
