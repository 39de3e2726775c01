SPECIFICATION Spec
CONSTANTS
    Procs = {p1, p2}
    Days = 2
    Life = 1
    MaxKeys = 5
    MaxDeaths = 2
INVARIANT TypeOK
INVARIANT TokensAreRead
INVARIANT TokenKeysAreKept
CONSTRAINT LastDeathIsEarly
SYMMETRY Symmetry
CHECK_DEADLOCK FALSE
