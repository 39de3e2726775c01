SPECIFICATION FairSpec
CONSTANTS
    Databases = {d1}
    MaxTries = 2
INVARIANT TypeOK
INVARIANT BackupIsOriginal
INVARIANT ResultsTellTruth
PROPERTY FlowEnds
CHECK_DEADLOCK FALSE
