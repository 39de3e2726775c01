SPECIFICATION Spec
CONSTANTS
    Requests = {r1, r2, r3}
    Entitys = {e1, e2}
    Kinds = {"delete", "active", "create", "drop", "silent", "upgrade", "locks"}
    MaxFaults = 0
INVARIANT TypeOK
INVARIANT DeletedAgentIsEmpty
INVARIANT EntitysAgree
SYMMETRY Symmetry
CHECK_DEADLOCK FALSE
