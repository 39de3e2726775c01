SPECIFICATION FairSpec
CONSTANTS
    Agents = {a1, a2}
    Handlers = {h1, h2}
    Storage = "db"
    Finishtime = 1
    Deadline = 2
    MaxTime = 4
    CtxtFinishtime = TRUE
    Failures = TRUE
    Expiry = FALSE
    ReservedApi = FALSE
INVARIANT NeverSentNeverExecuted
INVARIANT SuccessMeansAllAnswered
INVARIANT EverySilentAgentRecorded
PROPERTY KeepsPromise
PROPERTY FinishIsFinal
PROPERTY NoFirstExecutionAfterFinish
PROPERTY CheckedRequestFinishes
CHECK_DEADLOCK FALSE
