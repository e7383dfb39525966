\* Files with missing, repeated and oddly spelled properties, edited at any time.
SPECIFICATION Spec
CONSTANTS
    NoKey = NoKey
    None = None
    Cut = Cut
    Keys <- MCKeys
    Values <- MCValues
    ServerPorts <- MCServerPorts
    ArgLists <- MCArgLists
    Files <- MCFiles
    Rcon = TRUE
    MaxStarts = 2
CHECK_DEADLOCK FALSE
INVARIANTS
    TypeOK
    MinecraftReachable
    CommandAsMeant
PROPERTIES
    ImplementsPropertyMap
