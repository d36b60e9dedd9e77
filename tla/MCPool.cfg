SPECIFICATION Spec
CONSTANTS
    u1 = u1
    u2 = u2
    k1 = k1
    k2 = k2
    Users = {u1, u2}
    Conns = {k1, k2}
    Jobs = {"exec", "zone", "tx", "bulk"}
    NRows = 3
    Chunk = 2
    NoConn = NoConn
    AnyCommit = FALSE
SYMMETRY Symmetry
INVARIANTS
    TypeOK
    HandedOutClean
    ZoneInStep
    RolledBackIsUndone
    CommittedIsWhole
    TwiceOnlyIfLost
    SuccessMeansAll
CHECK_DEADLOCK FALSE
