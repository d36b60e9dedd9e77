\* Calls one at a time (database/sql), every operation, plain framing; a silent server
\* too, with fairness of the driver and of its deadlines only.
CONSTANTS
    c1 = c1
    Callers = {c1}
    Unlocked = Unlocked
    RowsHold = RowsHold
    Ops = {"query", "exec", "execout", "bulk", "ping", "prepare", "reset", "begin", "finish", "closeStmt", "resetStmt", "close"}
    DcLock = TRUE
    OverRows = FALSE
    Plain = TRUE
    DeprecateEOF = FALSE
    OracleTenant = TRUE
    AssignFails = FALSE
    SingleMore = FALSE
    SeqMod = 4
    MaxDrain = 2
    MaxRows = 2
    MaxDefs = 1
    MaxSets = 1
    Window = 1
    MaxReq = 2
SPECIFICATION FairSpec
INVARIANTS
    TypeOK
    IdleWireClean
    SeqInStep
    PlaceInStep
    TornIsRetired
    RetiredIsJustified
PROPERTIES
    TakesTurns
    TimedCallReturns
\* The bound MaxReq ends every behaviour.
CHECK_DEADLOCK FALSE
