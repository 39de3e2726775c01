SPECIFICATION SocketFairSpec
CONSTANTS
    u1 = u1
    u2 = u2
    file = file
    Uploads = {u1, u2}
    Readers = {r1, r2}
    Target <- MCTarget
    MaxWebsockets = 1
INVARIANT SocketTypeOK
INVARIANT OutcomeIsTrue
PROPERTY EveryCallEnds
CHECK_DEADLOCK FALSE
