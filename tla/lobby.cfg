\* One client in the lobby, beside the probe of a plain or a Forge server.
SPECIFICATION FairSpec
CONSTANTS
    COMPRESSION_THRESHOLD = 2
    MaxHalves = 2
    Scripts <- Servers
    Thresholds <- MCThresholds
INVARIANTS
    TypeOK
    FramesReadable
PROPERTIES
    ImplementsLobbyVisit
    VisitEnds
