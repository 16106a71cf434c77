\* Safety, the refinement and liveness, with every outcome of a send.
SPECIFICATION FairSpec
CONSTANTS
    Size = 3
    RxChunk = 2
    PayloadLens = {2, 3}
    SendResults = {"ok", "busy", "error"}
    MaxOffered = 6
INVARIANTS
    NoLostWakeup
    StreamInOrder
    DropBound
    PausedMatchesIrq
    SessionStartsEmpty
PROPERTIES
    ImplementsByteStream
    DeliveredEventually
    ReceptionResumes
