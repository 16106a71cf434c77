\* What the README promises of data mode, against what the callbacks do.
SPECIFICATION FairSpec
CONSTANTS
    CtrlSize = 5
    StreamSize = 2
    TxChunk = 3
    MaxNotify = 3
    MaxLines = 6
    MaxBytes = 3
PROPERTY
    DataModeIsBinary
