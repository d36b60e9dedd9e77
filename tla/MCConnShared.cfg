\* Two goroutines on one connection, calls and open Rows overlap, OB20 framing.
CONSTANTS
    c1 = c1
    c2 = c2
    Callers = {c1, c2}
    Unlocked = Unlocked
    RowsHold = RowsHold
    Ops = {"query", "exec", "bulk", "reset", "resetStmt", "closeStmt", "close"}
    DcLock = FALSE
    OverRows = TRUE
    Plain = FALSE
    DeprecateEOF = TRUE
    OracleTenant = TRUE
    AssignFails = FALSE
    SingleMore = FALSE
    SeqMod = 4
    MaxDrain = 2
    MaxRows = 1
    MaxDefs = 1
    MaxSets = 0
    Window = 2
    MaxReq = 1
SPECIFICATION FairMutexSpec
INVARIANTS
    WireExclusive
    IdleWireClean
    OwnReply
PROPERTIES
    LockIsPassedOn
\* The bound MaxReq ends every behaviour: calls start until a request is out, so each
\* caller makes one, in either order or while it waits for the other.
CHECK_DEADLOCK FALSE
