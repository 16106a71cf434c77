\* Safety, the order of the host's events and liveness, with scan stops that may fail.
SPECIFICATION FairSpec
CONSTANTS
    Profiles = {p1, p2}
    Mtus = {23, 65}
    LinkMtus = {23, 65, 247}
    StopResults = {"ok", "error"}
    None = None
INVARIANTS
    ConnectionAgrees
    ReadyMeansResolved
    FlagsMatchStack
    PayloadFits
    SilenceIsUnsubscribed
PROPERTIES
    ImplementsLinkSession
    SessionResolves
    ScanEnds
