SPECIFICATION FairSpec
CONSTANTS
    t1 = t1
    t2 = t2
    t3 = t3
    p1 = p1
    p2 = p2
    a1 = a1
    a2 = a2
    e1 = e1
    e2 = e2
    Threads <- MCTwoThreads
    Processes = {p1, p2}
    Locker <- MCTwoLockers
    Agents = {a1}
    Entitys = {e1}
    Home <- MCOneHome
    Operations = {"all", "agents", "create", "delete"}
    Failures = TRUE
PROPERTY EveryCallReturns
