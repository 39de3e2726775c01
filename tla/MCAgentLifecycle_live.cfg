SPECIFICATION FairSpec
CONSTANTS
    Requests = {r1, r2}
    Entitys = {e1}
    Kinds = {"delete", "create", "drop", "upgrade", "locks"}
    MaxFaults = 2
PROPERTY DeletedAgentStops
PROPERTY EveryRequestEnds
CHECK_DEADLOCK FALSE
