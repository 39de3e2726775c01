SPECIFICATION Spec
CONSTANTS
    Threads = {t1, t2, t3}
    Endpoints = {p1, p2}
    Entitys = {e1, e2}
    MaxLock = 3
    Ports = {1, 2}
    MaxWebsockets = 1
INVARIANT FrozenByOneLocks
INVARIANT SemaphoresHaveHolders
INVARIANT PortInOnePlace
INVARIANT BlockOwnsItsPorts
SYMMETRY Symmetry
CHECK_DEADLOCK FALSE
