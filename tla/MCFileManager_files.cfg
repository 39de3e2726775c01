SPECIFICATION Spec
CONSTANTS
    Threads = {t1, t2}
    Files = {f, g}
    MaxDeaths = 1
    Hands = TRUE
INVARIANT TypeOK
INVARIANT KnownFilesAreWhole
INVARIANT RowsAreKnown
INVARIANT EventsAreServed
INVARIANT WritersHaveEvents
SYMMETRY Symmetry
CHECK_DEADLOCK FALSE
