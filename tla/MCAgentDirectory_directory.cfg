SPECIFICATION Spec
CONSTANTS
    Threads = {t1, t2}
    Agents = {1, 2}
    Reporters = {1}
    Metadata = {m1, m2}
    Seconds = {s1, s2}
INVARIANT TypeOK
INVARIANT EveryAgentIsListed
INVARIANT ListedAgentsExist
INVARIANT TrustedCopiesAreCurrent
SYMMETRY Symmetry
