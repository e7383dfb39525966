\* A running server misses a status request and answers the ping.
SPECIFICATION Spec
CONSTANTS
    c1 = c1
    p1 = p1
    p2 = p2
    Clients = {c1}
    Procs = {p1, p2}
    NoPid = NoPid
    RconCooldown = 1
    Configs <- OnUnix
    Faults <- Muteness
INVARIANTS
    PingFallback
