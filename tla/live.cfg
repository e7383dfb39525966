\* Liveness, with a process that may hang while it boots or shuts down.
SPECIFICATION FairSpec
CONSTANTS
    c1 = c1
    p1 = p1
    p2 = p2
    Clients = {c1}
    Procs = {p1, p2}
    NoPid = NoPid
    RconCooldown = 1
    Configs <- OnUnix
    Faults <- NoFaults
PROPERTIES
    StartEnds
    StopEnds
    IdleSleeps
