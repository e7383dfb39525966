\* The shipped settings, freezing, no deadlines; two clients, nothing fails.
SPECIFICATION Spec
CONSTANTS
    c1 = c1
    c2 = c2
    p1 = p1
    p2 = p2
    Clients = {c1, c2}
    Procs = {p1, p2}
    NoPid = NoPid
    RconCooldown = 1
    Configs <- Most
    Faults <- NoFaults
SYMMETRY Symmetry
INVARIANTS
    SingleProcess
    NoStaleDeadline
    HeldIsWaiting
PROPERTIES
    ImplementsSleepCycle
