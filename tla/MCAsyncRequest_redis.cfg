SPECIFICATION Spec
CONSTANTS
    Agents = {a1, a2}
    Handlers = {h1, h2}
    Storage = "redis"
    Finishtime = 1
    Deadline = 2
    MaxTime = 4
    CtxtFinishtime = FALSE
    Failures = TRUE
    Expiry = TRUE
    ReservedApi = TRUE
PROPERTY OvertimeNeverReplacesAnswer
SYMMETRY Symmetry
CHECK_DEADLOCK FALSE
