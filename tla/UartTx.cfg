\* Safety and liveness; the bounds stop the environment, never the transmitter.
SPECIFICATION FairSpec
CONSTANTS
    CtrlSize = 5
    StreamSize = 2
    TxChunk = 3
    MaxNotify = 3
    MaxLines = 6
    MaxBytes = 3
INVARIANTS
    TypeOK
    NoLostKick
    StreamWithinMarkers
    StreamIsFresh
PROPERTY
    PendingActivates
