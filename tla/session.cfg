\* Streams of several kinds, cut in every way, closed and broken at any time.
SPECIFICATION FairSpec
CONSTANTS
    Base = 4
    BufSize = 3
    ServerBytes = 2
    Scripts <- Streams
CHECK_DEADLOCK FALSE
PROPERTIES
    ImplementsPacketSession
    AllHandled
    RelayComplete
