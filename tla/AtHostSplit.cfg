\* A chunk may end between the two bytes of a line ending.
SPECIFICATION FairSpec
CONSTANTS
    LineMax = 3
    Chunk = 4
    SendLens <- MCSendLens
    SplitsEnding = TRUE
INVARIANT
    PayloadIntact
