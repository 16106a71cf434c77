SPECIFICATION E2eSpec
CONSTANTS
    PeerStreams <- MCPeerStreams
    Byte <- MCBytes
    MaxSessions = 1
    MaxFaults = 2
INVARIANTS
    TypeOK
    StreamExact
    ControlMeansControl
    FramesExact
PROPERTIES
    ComesBack
