\* PrepareContext while a Rows is open.
CONSTANTS
    c1 = c1
    Callers = {c1}
    Unlocked = Unlocked
    RowsHold = RowsHold
    Ops = {"query", "prepare"}
    DcLock = TRUE
    OverRows = TRUE
    Plain = TRUE
    DeprecateEOF = FALSE
    OracleTenant = TRUE
    AssignFails = FALSE
    SingleMore = FALSE
    SeqMod = 4
    MaxDrain = 2
    MaxRows = 2
    MaxDefs = 1
    MaxSets = 1
    Window = 2
    MaxReq = 2
SPECIFICATION Spec
INVARIANTS
    WireExclusive
\* The bound MaxReq ends every behaviour.
CHECK_DEADLOCK FALSE
