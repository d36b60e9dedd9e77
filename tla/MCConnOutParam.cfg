\* An OUT parameter that cannot be assigned.
CONSTANTS
    c1 = c1
    Callers = {c1}
    Unlocked = Unlocked
    RowsHold = RowsHold
    Ops = {"execout"}
    DcLock = TRUE
    OverRows = FALSE
    Plain = TRUE
    DeprecateEOF = FALSE
    OracleTenant = TRUE
    AssignFails = TRUE
    SingleMore = FALSE
    SeqMod = 4
    MaxDrain = 2
    MaxRows = 2
    MaxDefs = 1
    MaxSets = 1
    Window = 2
    MaxReq = 1
SPECIFICATION Spec
INVARIANTS
    IdleWireClean
\* The bound MaxReq ends every behaviour.
CHECK_DEADLOCK FALSE
