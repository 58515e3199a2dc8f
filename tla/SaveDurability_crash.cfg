\* The process dies, and the machine loses power, between any two system calls.
CONSTANTS
    LastId = 4
    Blobs = {b1, b2}
    Keep = 1
    Nothing = Nothing
SPECIFICATION Spec
INVARIANTS
    TypeOK
    NothingTorn
    NothingDangles
    SavedIsKept
