\* ctrl-c against the monitor, on a server that restarts after a crash.
SPECIFICATION Spec
CONSTANTS
    p1 = p1
    p2 = p2
    Clients = {}
    Procs = {p1, p2}
    NoPid = NoPid
    RconCooldown = 2
    Configs <- AlsoWake
    Faults <- Operator
SYMMETRY Symmetry
INVARIANTS
    SleepsOnlyWhenIdle
    NotAbandoned
PROPERTIES
    RconSpacing
