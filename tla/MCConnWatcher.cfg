\* A watcher between its test of done and SetDeadline.
CONSTANTS
    c1 = c1
    Callers = {c1}
    Unlocked = Unlocked
    RowsHold = RowsHold
    Ops = {"ping", "close"}
    DcLock = TRUE
    OverRows = FALSE
    Plain = TRUE
    DeprecateEOF = FALSE
    OracleTenant = TRUE
    AssignFails = FALSE
    SingleMore = FALSE
    SeqMod = 4
    MaxDrain = 2
    MaxRows = 2
    MaxDefs = 1
    MaxSets = 1
    Window = 2
    MaxReq = 2
SPECIFICATION Spec
INVARIANTS
    WatcherLeavesSocketAlone
\* The bound MaxReq ends every behaviour.
CHECK_DEADLOCK FALSE
