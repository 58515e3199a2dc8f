\* One reader lists, opens and lists again while saves publish and prune.
CONSTANTS
    LastId = 3
    Ids <- MCIds
    Savers = {s1}
    Readers = {r1}
    Times = {1}
    Retentions = {1}
    FirstIds = {1, 2}
    Free = Free
    NoAnswer = NoAnswer
SPECIFICATION FairSpec
INVARIANTS
    SecondListingSuffices
PROPERTIES
    ReadsAreAtomic
    ReadsReturn
