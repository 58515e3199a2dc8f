\* Two savers contend, fail and die at every step of a save.
CONSTANTS
    LastId = 5
    Ids <- MCIds
    Savers = {s1, s2}
    Readers = {}
    Times = {1, 4}
    Retentions = {1, 2}
    FirstIds = {1, 2, 3}
    Free = Free
    NoAnswer = NoAnswer
SPECIFICATION Spec
INVARIANTS
    TypeOK
    SaveInv
PROPERTIES
    PruneLeavesEnough
SYMMETRY Symmetry
