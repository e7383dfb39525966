\* Servers that crash, stop by themselves, lag, or cannot be spawned.
SPECIFICATION Spec
CONSTANTS
    c1 = c1
    p1 = p1
    p2 = p2
    Clients = {c1}
    Procs = {p1, p2}
    NoPid = NoPid
    RconCooldown = 1
    Configs <- OnEager
    Faults <- Crashes
SYMMETRY Symmetry
INVARIANTS
    TypeOK
    PidOwned
    NoLostWakeup
