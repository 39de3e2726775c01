SPECIFICATION Spec
CONSTANTS
    t1 = t1
    t2 = t2
    t3 = t3
    p1 = p1
    p2 = p2
    a1 = a1
    a2 = a2
    e1 = e1
    e2 = e2
    Threads <- MCThreads
    Processes = {p1, p2}
    Locker <- MCLocker
    Agents = {a1, a2}
    Entitys = {e1}
    Home <- MCOneHome
    Operations = {"all", "agents", "create", "delete"}
    Failures = FALSE
INVARIANT WholeLockExclusive
INVARIANT WholeExcludesMembers
INVARIANT KeysHaveHolders
