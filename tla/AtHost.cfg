\* A line ending arrives whole; restarts at any point.
SPECIFICATION FairSpec
CONSTANTS
    LineMax = 3
    Chunk = 4
    SendLens <- MCSendLens
    SplitsEnding = FALSE
INVARIANTS
    TypeOK
    AtRest
    PayloadIntact
PROPERTY
    Recovers
