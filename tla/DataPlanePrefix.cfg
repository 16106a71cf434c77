SPECIFICATION Spec
CONSTANTS
    Size = 5
    RxChunk = 2
    PayloadLens = {2, 3}
    SendResults = {"ok", "busy", "error"}
    MaxOffered = 6
INVARIANT PeerGetsPrefix
