SPECIFICATION Spec
CONSTANTS
    u1 = u1
    u2 = u2
    k1 = k1
    k2 = k2
    Users = {u1, u2}
    Conns = {k1, k2}
    Jobs = {"tx"}
    NRows = 2
    Chunk = 2
    NoConn = NoConn
    AnyCommit = TRUE
INVARIANTS
    RollbackLeavesNoChange
CHECK_DEADLOCK FALSE
