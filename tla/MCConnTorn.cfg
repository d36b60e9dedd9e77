\* Writes that fail half way, in calls with and without withDeadline.
CONSTANTS
    c1 = c1
    Callers = {c1}
    Unlocked = Unlocked
    RowsHold = RowsHold
    Ops = {"ping", "closeStmt", "resetStmt"}
    DcLock = TRUE
    OverRows = FALSE
    Plain = FALSE
    DeprecateEOF = FALSE
    OracleTenant = TRUE
    AssignFails = FALSE
    SingleMore = FALSE
    SeqMod = 4
    MaxDrain = 2
    MaxRows = 2
    MaxDefs = 1
    MaxSets = 1
    Window = 2
    MaxReq = 2
SPECIFICATION Spec
INVARIANTS
    NetworkErrorsMark
\* The bound MaxReq ends every behaviour.
CHECK_DEADLOCK FALSE
