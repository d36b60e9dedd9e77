-------------------------------- MODULE Conn --------------------------------
(***************************************************************************)
(* One driver connection (conn.go, conn_stmt.go, stmt.go, tx.go and the    *)
(* reading half of rows.go): the calls made on it, its mutex, the request  *)
(* and reply packets on the wire, the socket deadline with the watcher     *)
(* goroutines of withDeadline, and the server at the other end.            *)
(*                                                                         *)
(* A packet is abstracted to its kind and to the two facts the readers     *)
(* branch on: the SERVER_MORE_RESULTS_EXISTS flag and a count of packets   *)
(* that follow.  Statement texts, arguments and values are left out.       *)
(*                                                                         *)
(* The ghost parts, read by properties only: `req' and `st' of a packet    *)
(* (the request it answers and the place in the reply it was sent from),   *)
(* fault and longest.                                                      *)
(***************************************************************************)
EXTENDS Naturals, Sequences, FiniteSets

CONSTANTS
    Callers,        \* goroutines that use the connection
    Unlocked,       \* mu is free
    RowsHold,       \* mu was handed to an open streaming Rows (r.release)
    Ops,            \* the calls that are made, a subset of AllOps
    DcLock,         \* calls run one at a time (database/sql's driverConn lock)
    OverRows,       \* callers may call while a Rows is open (inside a Tx)
    Plain,          \* plain framing: sequence numbers are checked (packet.go)
    DeprecateEOF,   \* CLIENT_DEPRECATE_EOF was negotiated
    OracleTenant,   \* ResetSession re-applies the session time zone
    AssignFails,    \* assignOutParam may fail
    SingleMore,     \* the OK of a ping, a bulk execution or a statement reset may announce more results
    SeqMod,         \* sequence numbers wrap here (256 in the code: a byte)
    MaxDrain,       \* maxDrainRows
    MaxRows,        \* bound: rows the server puts into one result set
    MaxDefs,        \* bound: column definitions of a result set
    MaxSets,        \* bound: further results announced with MORE_RESULTS
    Window,         \* bound: packets in flight to the client (socket buffers)
    MaxReq          \* bound: requests issued in a behaviour

AllOps == {"query", "exec", "execout", "bulk", "ping", "prepare", "reset",
           "begin", "finish", "closeStmt", "resetStmt", "close"}

ASSUME CallersAssumption ==
    /\ Unlocked \notin Callers
    /\ RowsHold \notin Callers
    /\ Unlocked # RowsHold

ASSUME OpsAssumption == Ops \subseteq AllOps

ASSUME FlagsAssumption ==
    {DcLock, OverRows, Plain, DeprecateEOF, OracleTenant, AssignFails, SingleMore} \subseteq BOOLEAN

ASSUME BoundsAssumption ==
    /\ SeqMod \in Nat /\ SeqMod > 1
    /\ MaxDrain \in Nat \ {0}
    /\ {MaxRows, MaxSets, MaxReq, Window} \subseteq Nat
    /\ MaxDefs \in Nat \ {0}

VARIABLES
    mu,         \* Conn.mu: Unlocked, the caller that holds it, or RowsHold
    closed,     \* Conn.closed
    bad,        \* Conn.bad
    inTx,       \* Conn.inTx
    pc,         \* where each caller is
    op,         \* the call it makes
    ctx,        \* its context: "bg" (no Done channel), "live" or "done"
    watch,      \* its withDeadline watcher: "off" or "wait"
    out,        \* how the call ended, or ends
    rd,         \* what the code reading the reply expects next
    cseq,       \* PacketConn.seq
    nreq,       \* PacketConn.requestID
    deadline,   \* the socket deadline: "none", "armed" or "past"
    pending,    \* watchers past the test of done, before their SetDeadline
    crashed,    \* a watcher dereferenced the nil netConn of a closed Conn
    net,        \* the TCP connection: "up" or "down"
    torn,       \* the commands of which a request was only partly written
    toSrv,      \* requests the server has not started on
    toCli,      \* packets the client has not read
    srv,        \* the server's place in the reply it is sending
    srvAt,      \* request, sequence number, rows and results of that reply
    longest,    \* ghost: most rows put into one result set so far
    fault       \* ghost: network, clock, context or a malformed packet intervened

lockVars == <<mu, closed, bad, inTx>>
callVars == <<pc, op, ctx, watch, out>>
readVars == <<rd, cseq, nreq>>
timeVars == <<deadline, pending, crashed>>
wireVars == <<net, torn, toSrv, toCli>>
srvVars  == <<srv, srvAt, longest>>
vars == <<lockVars, callVars, readVars, timeVars, wireVars, srvVars, fault>>

(***************************************************************************)
(* The replies of the server (external; from what the readers accept and   *)
(* what the tests feed them).  A place in a reply:                         *)
(*   ph    what comes next: "first" packet of a result, "xfirst" (the      *)
(*         same for an execution with OUT parameters), column "defs", the  *)
(*         "orow" of OUT values, "rows", the "single" packet of a simple   *)
(*         command, "prep" and "pdefs" of a prepare, or "idle": nothing;   *)
(*   left  definition packets still to come;                               *)
(*   tail  inside the OUT set: does a result follow it ("more" or "last"). *)
(***************************************************************************)
Phases == {"idle", "first", "xfirst", "defs", "orow", "rows", "single", "prep", "pdefs"}
Tails == {"no", "last", "more"}
Place == [ph : Phases, left : Nat, tail : Tails]

Pl(ph, left, tail) == [ph |-> ph, left |-> left, tail |-> tail]
At(ph) == Pl(ph, 0, "no")
Idle == At("idle")

Kinds == {"OK", "OKOUT", "ERR", "BADERR", "HDR", "DEF", "ROW", "BADROW", "EOF", "POK", "JUNK"}
Body == [kind : Kinds, more : BOOLEAN, n : Nat, m : Nat]
Packet == [req : Nat, seq : Nat, st : Place, body : Body]

\* Packets that metadata of n definitions takes: an EOF closes it unless deprecated.
Metadata(n) == IF DeprecateEOF \/ n = 0 THEN n ELSE n + 1

\* The kinds of packet that may come at place p.
KindsAt(p) ==
    {k \in Kinds :
        \/ p.ph \in {"single", "prep", "xfirst"} /\ k \in {"ERR", "JUNK"}
        \/ p.ph = "single" /\ k = "OK"
        \/ p.ph = "prep" /\ k = "POK"
        \/ p.ph = "first" /\ k \in {"ERR", "HDR"}
        \/ p.ph = "first" /\ p.tail = "no" /\ k \in {"OK", "JUNK"}
        \/ p.ph = "xfirst" /\ k \in {"OK", "OKOUT", "HDR"}
        \/ p.ph \in {"defs", "pdefs"} /\ k = "DEF"
        \/ p.ph = "orow" /\ k \in {"ROW", "BADROW"}
        \/ p.ph = "rows" /\ k = "EOF"
        \/ p.ph = "rows" /\ p.tail = "no" /\ k \in {"ROW", "BADROW", "ERR", "BADERR"}}

\* The packets the server may send at place p.  Another result is announced by an
\* OK or a terminator outside the OUT set; counts come with headers only.
Replies(p) ==
    {b \in [kind : KindsAt(p), more : BOOLEAN, n : 0..MaxDefs, m : 0..MaxDefs] :
        /\ b.more => b.kind \in {"OK", "OKOUT", "EOF"} /\ p.tail = "no" /\ (p.ph = "single" => SingleMore)
        /\ b.kind = "HDR" => b.n > 0
        /\ b.n > 0 => b.kind \in {"HDR", "POK"}
        /\ b.m > 0 => b.kind = "POK"}

\* The place after packet b was sent at place p.
After(p, b) ==
    CASE b.kind \in {"OK", "EOF"} -> IF b.more \/ p.tail = "more" THEN At("first") ELSE Idle
      [] b.kind = "OKOUT" -> Pl("first", 0, IF b.more THEN "more" ELSE "last")
      [] b.kind = "HDR"   -> Pl("defs", Metadata(b.n), p.tail)
      [] b.kind = "POK"   -> IF b.n + b.m = 0 THEN Idle ELSE Pl("pdefs", Metadata(b.n) + Metadata(b.m), "no")
      [] b.kind = "DEF"   -> IF p.left > 1 THEN Pl(p.ph, p.left - 1, p.tail)
                             ELSE IF p.ph = "pdefs" THEN Idle
                             ELSE Pl(IF p.tail = "no" THEN "rows" ELSE "orow", 0, p.tail)
      [] b.kind \in {"ROW", "BADROW"} -> Pl("rows", 0, p.tail)
      [] OTHER            -> Idle

\* Where the reply to a command starts.
ReplyTo(cmd) == CASE cmd \in {"query", "exec", "finish", "reset"} -> At("first")
                  [] cmd = "execout" -> At("xfirst")
                  [] cmd = "prepare" -> At("prep")
                  [] OTHER           -> At("single")

(***************************************************************************)
(* The client's readers.  A reader is the place of the reply the code is   *)
(* at, which loop it runs, and its counters:                               *)
(*   "stream" readQueryResult for a caller's Rows; "out" the same for OUT  *)
(*   parameters; "drain" the draining loops; "next" Rows.nextStreaming;    *)
(*   "one" a single answer or the answer of a prepare.                     *)
(***************************************************************************)
Modes == {"stream", "out", "drain", "next", "one"}
Reader == [at : Place, mode : Modes, cnt : Nat, fail : BOOLEAN]

Rd(at, mode) == [at |-> at, mode |-> mode, cnt |-> 0, fail |-> FALSE]
NotReading == Rd(Idle, "one")
DrainFirst == Rd(At("first"), "drain")

\* fn's outcomes: "bad" a protocol or read error, bad already stored; "net" a raw
\* network error; "late" an error that is marked only after the lock is released;
\* "srv" a ServerError; "ctx" the context's error; "err" any other error; "rows" a
\* streaming Rows; "row" a row.
Outcomes == {"ok", "rows", "row", "srv", "err", "net", "bad", "late", "ctx"}
NextSeqNoWrap(n) == n + 1
\* c.seq++ on a byte.
NextSeq(n) == (n + 1) % SeqMod

WriteSeqNoReset == NextSeq(cseq)
\* The sequence number after ResetSequence and a written request.
WriteSeq == NextSeq(0)

NoMoreResults(b) == FALSE
\* The status flags of an OK or of a terminator announce another result.
MoreResults(b) == b.more

SkipMetadataNoEOF(n) == n
\* Packets read for n definitions: the EOF after them only if it was not deprecated.
SkipMetadata(n) == IF n = 0 THEN 0 ELSE IF DeprecateEOF THEN n ELSE n + 1

\* The reader a request starts with.
ReaderFor(o) == Rd(ReplyTo(o), CASE o = "query" -> "stream"
                                 [] o \in {"ping", "bulk", "resetStmt", "prepare"} -> "one"
                                 [] OTHER -> "drain")

(***************************************************************************)
(* Calls.                                                                  *)
(***************************************************************************)
TimedOps == {"query", "exec", "execout", "bulk", "ping", "prepare", "reset", "finish"}   \* run inside withDeadline
ContextOps == TimedOps \ {"finish"}         \* finish passes context.Background()
CheckedOps == {"query", "exec", "execout", "bulk", "ping", "reset", "finish", "resetStmt"}  \* checkUsableLocked
RowsOps == {"next", "rclose"}

Init ==
    /\ mu = Unlocked /\ closed = FALSE /\ bad = FALSE /\ inTx = FALSE
    /\ pc = [c \in Callers |-> "idle"]
    /\ op = [c \in Callers |-> "none"]
    /\ ctx = [c \in Callers |-> "bg"]
    /\ watch = [c \in Callers |-> "off"]
    /\ out = [c \in Callers |-> "ok"]
    /\ rd = NotReading /\ cseq = 0 /\ nreq = 0
    /\ deadline = "none" /\ pending = 0 /\ crashed = FALSE
    /\ net = "up" /\ torn = {} /\ toSrv = <<>> /\ toCli = <<>>
    /\ srv = Idle /\ srvAt = [req |-> 0, seq |-> 0, nrow |-> 0, nset |-> 0]
    /\ longest = 0 /\ fault = FALSE

\* database/sql holds the driverConn lock around every call into the driver.
Gate(c) == /\ pc[c] = "idle"
           /\ DcLock => \A d \in Callers : pc[d] = "idle"

\* The call returns; its name and its context are forgotten, its outcome is kept.
Return(c, o) == /\ pc' = [pc EXCEPT ![c] = "idle"]
                /\ op' = [op EXCEPT ![c] = "none"]
                /\ ctx' = [ctx EXCEPT ![c] = "bg"]
                /\ out' = [out EXCEPT ![c] = o]

\* A caller calls the driver with some context.  database/sql does not use a
\* connection it has closed, and finishes a transaction only if one is open.
Invoke(c, o) ==
    /\ Gate(c)
    /\ mu = RowsHold => OverRows
    /\ nreq < MaxReq
    /\ o = "prepare" => ~closed
    /\ o = "finish" => inTx
    /\ \E x \in (IF o \in ContextOps THEN {"bg", "live"} ELSE {"bg"}) : ctx' = [ctx EXCEPT ![c] = x]
    /\ op' = [op EXCEPT ![c] = o]
    /\ pc' = [pc EXCEPT ![c] = "lock"]
    /\ UNCHANGED <<lockVars, watch, out, readVars, timeVars, wireVars, srvVars, fault>>

ArmNothing(c) == UNCHANGED <<deadline, watch>>
\* withDeadline: SetDeadline, and a watcher when the context can be cancelled.
Arm(c) == /\ deadline' = "armed"
          /\ watch' = [watch EXCEPT ![c] = IF ctx[c] = "bg" THEN "off" ELSE "wait"]

CanLockAnyway(c) == pc[c] = "lock"
\* c.mu.Lock() returns.
CanLock(c) == pc[c] = "lock" /\ mu = Unlocked

\* checkUsableLocked refuses a closed or retired connection.
Refuse(c) ==
    /\ CanLock(c) /\ op[c] \in CheckedOps
    /\ closed \/ bad
    /\ Return(c, "bad")
    /\ UNCHANGED <<lockVars, watch, readVars, timeVars, wireVars, srvVars, fault>>

\* The lock is taken and the call goes on to write its request.
Start(c) ==
    /\ CanLock(c) /\ op[c] \in CheckedOps
    /\ ~closed /\ ~bad
    /\ op[c] = "reset" => inTx \/ OracleTenant
    /\ mu' = c
    /\ IF op[c] \in TimedOps THEN Arm(c) ELSE UNCHANGED <<deadline, watch>>
    /\ pc' = [pc EXCEPT ![c] = "write"]
    /\ UNCHANGED <<closed, bad, inTx, op, ctx, out, readVars, pending, crashed, wireVars, srvVars, fault>>

\* ResetSession with no transaction and no session time zone, and a bulk execution
\* of no rows, send nothing.
NothingToSend(c) ==
    /\ CanLock(c) /\ op[c] \in {"reset", "bulk"}
    /\ ~closed /\ ~bad
    /\ op[c] = "reset" => ~inTx /\ ~OracleTenant
    /\ Return(c, "ok")
    /\ UNCHANGED <<lockVars, watch, readVars, timeVars, wireVars, srvVars, fault>>

\* PrepareContext takes no lock and checks nothing.
StartPrepare(c) ==
    /\ pc[c] = "lock" /\ op[c] = "prepare"
    /\ Arm(c)
    /\ pc' = [pc EXCEPT ![c] = "write"]
    /\ UNCHANGED <<lockVars, op, ctx, out, readVars, pending, crashed, wireVars, srvVars, fault>>

\* BeginTx reserves the connection; nothing is sent and nothing is checked.
BeginTx(c) ==
    /\ CanLock(c) /\ op[c] = "begin"
    /\ inTx' = TRUE
    /\ Return(c, IF inTx THEN "err" ELSE "ok")
    /\ UNCHANGED <<mu, closed, bad, watch, readVars, timeVars, wireVars, srvVars, fault>>

\* A Write of the socket fails, before the request (WritePacket makes one Write of a
\* plain frame, three of an OB20 frame) or in the middle of it.
CutOff(c) == torn' \in {torn, torn \cup {op[c]}}

\* closeStmt: COM_STMT_CLOSE has no answer, a failed write is returned unmarked.
CloseStmt(c) ==
    /\ CanLock(c) /\ op[c] = "closeStmt"
    /\ \/ /\ closed \/ bad
          /\ Return(c, "ok")
          /\ UNCHANGED <<cseq, nreq, torn>>
       \/ /\ ~closed /\ ~bad
          /\ nreq' = nreq + 1
          /\ \/ deadline # "past" /\ cseq' = WriteSeq /\ Return(c, "ok") /\ UNCHANGED torn
             \/ (deadline = "past" \/ net = "down") /\ cseq' = 0 /\ Return(c, "net") /\ CutOff(c)
    /\ UNCHANGED <<lockVars, watch, rd, timeVars, net, toSrv, toCli, srvVars, fault>>

\* Close: COM_QUIT with its error ignored, then the socket is closed.
Close(c) ==
    /\ CanLock(c) /\ op[c] = "close"
    /\ closed' = TRUE
    /\ Return(c, "ok")
    /\ IF closed
       THEN UNCHANGED <<cseq, nreq, wireVars>>
       ELSE /\ nreq' = nreq + 1 /\ cseq' = WriteSeq
            /\ net' = "down" /\ toSrv' = <<>> /\ toCli' = <<>>
            /\ UNCHANGED torn
    /\ UNCHANGED <<mu, bad, inTx, watch, rd, timeVars, srvVars, fault>>

(***************************************************************************)
(* Writing the request and reading the reply: fn of withDeadline.          *)
(***************************************************************************)
StaysUsable == UNCHANGED bad
\* markProtocolError of anything but a ServerError.
MarkProtocolError == bad' = TRUE

FnReturns(c, o) == /\ pc' = [pc EXCEPT ![c] = "end"]
                   /\ out' = [out EXCEPT ![c] = o]

\* Reading goes on with reader r, ends without an error that retires the
\* connection, or ends with one.
GoOn(r) == rd' = r /\ UNCHANGED <<bad, pc, out>>
Ends(c, o) == rd' = NotReading /\ FnReturns(c, o) /\ UNCHANGED bad
Breaks(c) == rd' = NotReading /\ FnReturns(c, "bad") /\ MarkProtocolError

ReadSingleErrRetires(c, b) ==
    \/ b.kind = "OK" /\ Ends(c, "ok")
    \/ b.kind # "OK" /\ Breaks(c)

\* Ping, resetStmt, stmtBulkExecLocked: one OK or ERR.
ReadSingle(c, b) ==
    \/ b.kind = "OK" /\ Ends(c, "ok")
    \/ b.kind = "ERR" /\ Ends(c, "srv")
    \/ b.kind \notin {"OK", "ERR"} /\ Breaks(c)

\* PrepareContext: the prepare OK, then parameter and column definitions.
ReadPrepared(c, b) ==
    \/ b.kind = "POK" /\ b.n + b.m = 0 /\ Ends(c, "ok")
    \/ /\ b.kind = "POK" /\ b.n + b.m # 0
       /\ GoOn(Rd(Pl("pdefs", SkipMetadata(b.n) + SkipMetadata(b.m), "no"), "one"))
    \/ b.kind = "ERR" /\ Ends(c, "srv")
    \/ b.kind \notin {"POK", "ERR"} /\ Breaks(c)

\* The first packet of a result: OK, ERR or a column count.
ReadFirst(c, b) ==
    \/ b.kind = "OK" /\ MoreResults(b) /\ GoOn(DrainFirst)
    \/ b.kind = "OK" /\ ~MoreResults(b) /\ Ends(c, "ok")
    \/ b.kind = "ERR" /\ Ends(c, "srv")
    \/ b.kind = "HDR" /\ GoOn([rd EXCEPT !.at = Pl("defs", SkipMetadata(b.n), rd.at.tail)])
    \/ b.kind \notin {"OK", "ERR", "HDR"} /\ Breaks(c)

\* stmtExecLocked: the OK that announces OUT parameters (SERVER_PS_OUT_PARAMS).
ReadExecuted(c, b) ==
    \/ b.kind = "OKOUT" /\ GoOn(Rd(Pl("first", 0, IF b.more THEN "more" ELSE "last"), "out"))
    \/ b.kind # "OKOUT" /\ ReadFirst(c, b)

\* Column definitions and the EOF after them; the last one hands over to the rows.
ReadDefs(c) ==
    \/ rd.at.left > 1 /\ GoOn([rd EXCEPT !.at = Pl(rd.at.ph, rd.at.left - 1, rd.at.tail)])
    \/ /\ rd.at.left <= 1
       /\ \/ /\ rd.mode = "stream"
             /\ rd' = Rd(At("rows"), "next") /\ FnReturns(c, "rows") /\ UNCHANGED bad
          \/ rd.mode = "out" /\ GoOn([rd EXCEPT !.at = Pl("orow", 0, rd.at.tail)])
          \/ rd.mode = "drain" /\ GoOn([rd EXCEPT !.at = Pl("rows", 0, rd.at.tail)])
          \/ rd.mode \in {"one", "next"} /\ Ends(c, "ok")

\* readOutParams: the row of OUT values is assigned, then Rows.Close drains.
ReadOutRow(c, b) ==
    \/ /\ b.kind = "ROW"
       /\ \E f \in {FALSE, AssignFails} :
             GoOn([at |-> Pl("rows", 0, rd.at.tail), mode |-> "drain", cnt |-> 0, fail |-> f])
    \/ b.kind # "ROW" /\ Breaks(c)

\* Rows.drain and drainResultSetAfterColumnCount, and what follows a terminator.
DrainRow(c, b) ==
    \/ b.kind = "EOF" /\ MoreResults(b) /\ GoOn(DrainFirst)
    \/ /\ b.kind = "EOF" /\ ~MoreResults(b)
       /\ \/ rd.fail /\ Ends(c, "err")
          \/ ~rd.fail /\ rd.at.tail = "more" /\ GoOn(DrainFirst)
          \/ ~rd.fail /\ rd.at.tail # "more" /\ Ends(c, "ok")
    \/ b.kind = "ERR" /\ Ends(c, "srv")
    \/ b.kind \in {"ROW", "BADROW"} /\ rd.cnt + 1 < MaxDrain /\ GoOn([rd EXCEPT !.cnt = rd.cnt + 1])
    \/ b.kind \in {"ROW", "BADROW"} /\ rd.cnt + 1 >= MaxDrain /\ Breaks(c)
    \/ b.kind \notin {"EOF", "ERR", "ROW", "BADROW"} /\ Breaks(c)

\* Rows.nextStreaming: a row for the caller, or the end of the result set.
NextRow(c, b) ==
    \/ b.kind = "ROW" /\ FnReturns(c, "row") /\ UNCHANGED <<bad, rd>>
    \/ b.kind = "EOF" /\ MoreResults(b) /\ GoOn(DrainFirst)
    \/ b.kind = "EOF" /\ ~MoreResults(b) /\ Ends(c, "ok")
    \/ b.kind = "ERR" /\ Ends(c, "srv")
    \/ b.kind = "BADERR" /\ Ends(c, "late")
    \/ b.kind \notin {"ROW", "EOF", "ERR", "BADERR"} /\ Breaks(c)

\* The code that is reading takes the packet.
TakePacket(c, b) ==
    \/ rd.at.ph = "single" /\ ReadSingle(c, b)
    \/ rd.at.ph = "prep" /\ ReadPrepared(c, b)
    \/ rd.at.ph = "first" /\ ReadFirst(c, b)
    \/ rd.at.ph = "xfirst" /\ ReadExecuted(c, b)
    \/ rd.at.ph \in {"defs", "pdefs"} /\ ReadDefs(c)
    \/ rd.at.ph = "orow" /\ ReadOutRow(c, b)
    \/ rd.at.ph = "rows" /\ rd.mode = "drain" /\ DrainRow(c, b)
    \/ rd.at.ph = "rows" /\ rd.mode # "drain" /\ NextRow(c, b)

\* ResetSequence, NextRequest, WritePacket.
Write(c) ==
    /\ pc[c] = "write"
    /\ deadline # "past"
    /\ cseq' = WriteSeq /\ nreq' = nreq + 1
    /\ rd' = ReaderFor(op[c])
    /\ toSrv' = IF net = "up" THEN Append(toSrv, [cmd |-> op[c], req |-> nreq + 1]) ELSE toSrv
    /\ pc' = [pc EXCEPT ![c] = "read"]
    /\ UNCHANGED <<lockVars, op, ctx, watch, out, timeVars, net, torn, toCli, srvVars, fault>>

\* The write fails.
WriteFails(c) ==
    /\ pc[c] = "write"
    /\ deadline = "past" \/ net = "down"
    /\ cseq' = 0 /\ nreq' = nreq + 1
    /\ CutOff(c)
    /\ FnReturns(c, "net")
    /\ UNCHANGED <<lockVars, op, ctx, watch, rd, timeVars, net, toSrv, toCli, srvVars, fault>>

\* writeExecute, stmtBulkExecLocked: an argument that cannot be encoded is reported before anything is sent.
EncodeFails(c) ==
    /\ pc[c] = "write" /\ op[c] \in {"query", "exec", "execout", "bulk"}
    /\ cseq' = 0 /\ nreq' = nreq + 1
    /\ FnReturns(c, "err")
    /\ UNCHANGED <<lockVars, op, ctx, watch, rd, timeVars, wireVars, srvVars, fault>>

\* ReadPacket and what the reader makes of the packet.  A deadline that has passed
\* fails every socket read; with OB20 framing packets may already be buffered.
Read(c) ==
    /\ pc[c] = "read" /\ toCli # <<>>
    /\ deadline # "past" \/ ~Plain
    /\ toCli' = Tail(toCli)
    /\ IF Plain /\ Head(toCli).seq # cseq
       THEN Breaks(c) /\ UNCHANGED cseq
       ELSE TakePacket(c, Head(toCli).body) /\ cseq' = NextSeq(cseq)
    /\ UNCHANGED <<mu, closed, inTx, op, ctx, watch, nreq, timeVars, net, torn, toSrv, srvVars, fault>>

\* The read times out or meets the end of the stream: markProtocolError.
ReadFails(c) ==
    /\ pc[c] = "read"
    /\ deadline = "past" \/ (net = "down" /\ toCli = <<>>)
    /\ Breaks(c)
    /\ UNCHANGED <<mu, closed, inTx, op, ctx, watch, cseq, nreq, timeVars, wireVars, srvVars, fault>>

\* updateSessionTimeZoneFromQuery cannot follow a change the server has accepted.
TimeZoneSyncError(c) ==
    /\ pc[c] = "end" /\ out[c] \in {"ok", "rows"} /\ op[c] \in {"query", "exec", "execout", "bulk"}
    /\ bad' = TRUE /\ out' = [out EXCEPT ![c] = "bad"]
    /\ fault' = TRUE
    /\ UNCHANGED <<mu, closed, inTx, pc, op, ctx, watch, readVars, timeVars, wireVars, srvVars>>

(***************************************************************************)
(* The end of a call: withDeadline's epilogue, error marking, unlock.      *)
(***************************************************************************)
Failed(c) == out[c] \notin {"ok", "rows", "row"}
CtxErr(c) == Failed(c) /\ ctx[c] = "done"

\* done.Store(true), the deferred close(cancelled) and SetDeadline(zero).
Disarm(c) == /\ deadline' = "none"
             /\ watch' = [watch EXCEPT ![c] = "off"]

NoConnErr(c) == FALSE
\* isBadConnError: a raw network error, for markBadIfConnErr to retire.
ConnErr(c) == out[c] = "net"

Answer(c) == IF CtxErr(c) THEN "ctx" ELSE IF ConnErr(c) THEN "bad" ELSE out[c]

\* ExecContext, Stmt.ExecContext, BulkExecContext, Ping, Tx.finish: marked, then unlocked.
FinishCall(c) ==
    /\ pc[c] = "end" /\ op[c] \in {"exec", "execout", "bulk", "ping", "finish"}
    /\ Disarm(c)
    /\ bad' = (bad \/ CtxErr(c) \/ ConnErr(c))
    /\ inTx' = (inTx /\ ~(op[c] = "finish" /\ out[c] = "ok"))
    /\ mu' = Unlocked
    /\ Return(c, Answer(c))
    /\ UNCHANGED <<closed, readVars, pending, crashed, wireVars, srvVars, fault>>

FinishQueryKeepsLock(c) ==
    /\ pc[c] = "end" /\ op[c] = "query"
    /\ Disarm(c)
    /\ bad' = (bad \/ CtxErr(c))
    /\ mu' = IF out[c] = "rows" THEN RowsHold ELSE IF CtxErr(c) THEN c ELSE Unlocked
    /\ Return(c, Answer(c))
    /\ UNCHANGED <<closed, inTx, readVars, pending, crashed, wireVars, srvVars, fault>>
\* QueryContext, Stmt.QueryContext: the lock goes to the Rows, or is released
\* before markBadIfConnErr.
FinishQuery(c) ==
    /\ pc[c] = "end" /\ op[c] = "query"
    /\ Disarm(c)
    /\ bad' = (bad \/ CtxErr(c))
    /\ mu' = IF out[c] = "rows" THEN RowsHold ELSE Unlocked
    /\ IF ConnErr(c) /\ ~CtxErr(c)
       THEN pc' = [pc EXCEPT ![c] = "mark"] /\ UNCHANGED <<op, ctx, out>>
       ELSE Return(c, Answer(c))
    /\ UNCHANGED <<closed, inTx, readVars, pending, crashed, wireVars, srvVars, fault>>

\* The marking that follows the unlock.
MarkBad(c) ==
    /\ pc[c] = "mark"
    /\ bad' = TRUE
    /\ Return(c, "bad")
    /\ UNCHANGED <<mu, closed, inTx, watch, readVars, timeVars, wireVars, srvVars, fault>>

\* PrepareContext returns; it holds no lock.
FinishPrepare(c) ==
    /\ pc[c] = "end" /\ op[c] = "prepare"
    /\ Disarm(c)
    /\ bad' = (bad \/ CtxErr(c) \/ ConnErr(c))
    /\ Return(c, Answer(c))
    /\ UNCHANGED <<mu, closed, inTx, readVars, pending, crashed, wireVars, srvVars, fault>>

\* ResetSession: any error retires; after the rollback the time zone is set.
FinishReset(c) ==
    /\ pc[c] = "end" /\ op[c] = "reset"
    /\ bad' = (bad \/ Failed(c))
    /\ fault' = (fault \/ Failed(c))
    /\ inTx' = (inTx /\ Failed(c))
    /\ IF ~Failed(c) /\ inTx /\ OracleTenant
       THEN /\ Arm(c)
            /\ pc' = [pc EXCEPT ![c] = "write"]
            /\ UNCHANGED <<mu, op, ctx, out>>
       ELSE /\ Disarm(c)
            /\ mu' = Unlocked
            /\ Return(c, IF Failed(c) THEN "bad" ELSE "ok")
    /\ UNCHANGED <<closed, readVars, pending, crashed, wireVars, srvVars>>

\* resetStmt: no withDeadline, and a failed write is returned unmarked.
FinishResetStmt(c) ==
    /\ pc[c] = "end" /\ op[c] = "resetStmt"
    /\ mu' = Unlocked
    /\ Return(c, out[c])
    /\ UNCHANGED <<closed, bad, inTx, watch, readVars, timeVars, wireVars, srvVars, fault>>

(***************************************************************************)
(* Streaming Rows.  Its methods are not called concurrently.               *)
(***************************************************************************)
RowsCall(c, o) ==
    /\ Gate(c)
    /\ mu = RowsHold
    /\ \A d \in Callers : pc[d] = "idle" \/ op[d] \notin RowsOps
    /\ op' = [op EXCEPT ![c] = o]
    /\ ctx' = [ctx EXCEPT ![c] = "bg"]
    /\ pc' = [pc EXCEPT ![c] = "read"]
    /\ rd' = Rd(At("rows"), IF o = "next" THEN "next" ELSE "drain")
    /\ UNCHANGED <<lockVars, watch, out, cseq, nreq, timeVars, wireVars, srvVars, fault>>

\* Rows.Next and Rows.Close read without a deadline.
NextRows(c) == RowsCall(c, "next")

CloseRowsUndrained(c) ==
    /\ Gate(c) /\ mu = RowsHold /\ mu' = Unlocked
    /\ UNCHANGED <<closed, bad, inTx, callVars, readVars, timeVars, wireVars, srvVars, fault>>
CloseRows(c) == RowsCall(c, "rclose")

\* A row keeps the Rows open; anything else runs finish, which releases the lock.
FinishRows(c) ==
    /\ pc[c] = "end" /\ op[c] \in RowsOps
    /\ mu' = IF out[c] = "row" THEN RowsHold ELSE Unlocked
    /\ IF out[c] = "late"
       THEN pc' = [pc EXCEPT ![c] = "mark"] /\ UNCHANGED <<op, ctx, out>>
       ELSE Return(c, out[c])
    /\ UNCHANGED <<closed, bad, inTx, watch, readVars, timeVars, wireVars, srvVars, fault>>

(***************************************************************************)
(* Contexts, clocks, watchers, the network and the server.                 *)
(***************************************************************************)
Cancel(c) ==
    /\ pc[c] # "idle" /\ ctx[c] = "live"
    /\ ctx' = [ctx EXCEPT ![c] = "done"]
    /\ fault' = TRUE
    /\ UNCHANGED <<lockVars, pc, op, watch, out, readVars, timeVars, wireVars, srvVars>>

\* The watcher sees ctx.Done and reads done = false ...
WatcherWakes(c) ==
    /\ watch[c] = "wait" /\ ctx[c] = "done"
    /\ watch' = [watch EXCEPT ![c] = "off"]
    /\ pending' = pending + 1
    /\ UNCHANGED <<lockVars, pc, op, ctx, out, readVars, deadline, crashed, wireVars, srvVars, fault>>

\* ... and sets the deadline some time later; Close has set netConn to nil.
WatcherFires ==
    /\ pending > 0
    /\ pending' = pending - 1
    /\ IF closed THEN crashed' = TRUE /\ UNCHANGED deadline
                 ELSE deadline' = "past" /\ UNCHANGED crashed
    /\ UNCHANGED <<lockVars, callVars, readVars, wireVars, srvVars, fault>>

Expire ==
    /\ deadline = "armed"
    /\ deadline' = "past"
    /\ fault' = TRUE
    /\ UNCHANGED <<lockVars, callVars, readVars, pending, crashed, wireVars, srvVars>>

\* The TCP connection ends, in order or with a reset that discards what was received.
Drop ==
    /\ net = "up"
    /\ net' = "down" /\ toSrv' = <<>>
    /\ toCli' \in {toCli, <<>>}
    /\ fault' = TRUE
    /\ UNCHANGED <<lockVars, callVars, readVars, timeVars, torn, srvVars>>

\* What follows a request that was cut off is not taken for a request.
ServerStarts ==
    /\ net = "up" /\ torn = {} /\ srv = Idle /\ toSrv # <<>>
    /\ toSrv' = Tail(toSrv)
    /\ srv' = ReplyTo(Head(toSrv).cmd)
    /\ srvAt' = [req |-> Head(toSrv).req, seq |-> 1, nrow |-> 0, nset |-> 0]
    /\ UNCHANGED <<lockVars, callVars, readVars, timeVars, net, torn, toCli, longest, fault>>

ServerSends ==
    /\ net = "up" /\ srv # Idle /\ Len(toCli) < Window
    /\ \E b \in Replies(srv) :
          LET row == b.kind \in {"ROW", "BADROW"}
              n   == srvAt.nrow + 1
          IN  /\ row => n <= MaxRows
              /\ b.more => srvAt.nset < MaxSets
              /\ toCli' = Append(toCli, [req |-> srvAt.req, seq |-> srvAt.seq, st |-> srv, body |-> b])
              /\ srv' = After(srv, b)
              /\ srvAt' = [srvAt EXCEPT !.seq = (srvAt.seq + 1) % SeqMod,
                                        !.nrow = IF row THEN n ELSE 0,
                                        !.nset = IF b.more THEN srvAt.nset + 1 ELSE srvAt.nset]
              /\ longest' = IF row /\ n > longest THEN n ELSE longest
              /\ fault' = (fault \/ b.kind \in {"JUNK", "BADROW", "BADERR"})
    /\ UNCHANGED <<lockVars, callVars, readVars, timeVars, net, torn, toSrv>>

\* c.mu.Lock() and what the call does up to its next step.
TakesLock(c) ==
    \/ Refuse(c) \/ Start(c) \/ NothingToSend(c)
    \/ BeginTx(c) \/ CloseStmt(c) \/ Close(c)

ClientStep(c) ==
    \/ TakesLock(c) \/ StartPrepare(c)
    \/ Write(c) \/ WriteFails(c) \/ EncodeFails(c) \/ Read(c) \/ ReadFails(c) \/ TimeZoneSyncError(c)
    \/ FinishCall(c) \/ FinishQuery(c) \/ MarkBad(c) \/ FinishPrepare(c)
    \/ FinishReset(c) \/ FinishResetStmt(c) \/ FinishRows(c)

CallStep(c) == \/ \E o \in Ops : Invoke(c, o)
               \/ NextRows(c) \/ CloseRows(c) \/ Cancel(c)

Next == \/ \E c \in Callers : ClientStep(c) \/ CallStep(c) \/ WatcherWakes(c)
        \/ WatcherFires \/ Expire \/ Drop \/ ServerStarts \/ ServerSends

Spec == Init /\ [][Next]_vars

(***************************************************************************)
(* Fairness.  A goroutine that can run runs on, and an armed deadline      *)
(* passes; where goroutines compete, sync.Mutex starves nobody (after a    *)
(* millisecond an unlock hands it to the one that has waited longest).     *)
(* Nothing is assumed of the server, the network, the callers' next calls  *)
(* or their contexts.                                                      *)
(***************************************************************************)
FairSpec == Spec /\ WF_vars(Expire) /\ \A c \in Callers : WF_vars(ClientStep(c))
FairMutexSpec == FairSpec /\ \A c \in Callers : SF_vars(TakesLock(c))

(***************************************************************************)
(* Properties.                                                             *)
(***************************************************************************)

\* Every variable holds a value of its kind; the mutex belongs to nobody, to a
\* caller or to the open Rows.
TypeOK ==
    /\ mu \in Callers \cup {Unlocked, RowsHold}
    /\ closed \in BOOLEAN /\ bad \in BOOLEAN /\ inTx \in BOOLEAN
    /\ pc \in [Callers -> {"idle", "lock", "write", "read", "end", "mark"}]
    /\ op \in [Callers -> AllOps \cup RowsOps \cup {"none"}]
    /\ ctx \in [Callers -> {"bg", "live", "done"}]
    /\ watch \in [Callers -> {"off", "wait"}]
    /\ out \in [Callers -> Outcomes]
    /\ rd \in Reader /\ cseq \in 0 .. SeqMod - 1 /\ nreq \in Nat
    /\ deadline \in {"none", "armed", "past"} /\ pending \in Nat /\ crashed \in BOOLEAN
    /\ net \in {"up", "down"} /\ torn \subseteq AllOps
    /\ toSrv \in Seq([cmd : AllOps, req : Nat])
    /\ toCli \in Seq(Packet)
    /\ srv \in Place
    /\ srvAt \in [req : Nat, seq : Nat, nrow : Nat, nset : Nat]
    /\ longest \in Nat /\ fault \in BOOLEAN

\* A caller that writes requests or reads replies.
OnWire(c) == pc[c] \in {"write", "read"}

\* The wire has one user at a time, and while a Rows holds the lock only that Rows
\* reads from it (docs/protocol-notes.md: streaming rows release the connection
\* lock on EOF or Close).
WireExclusive ==
    \A c \in Callers : OnWire(c) =>
        /\ \A d \in Callers : OnWire(d) => d = c
        /\ mu = RowsHold => op[c] \in RowsOps

\* The driver goes on using the connection, and the stream to the server is whole.
Usable == ~closed /\ ~bad /\ torn = {}

\* No call is past the lock: nobody is entitled to a reply.
Quiet == mu = Unlocked /\ \A c \in Callers : op[c] = "prepare" => pc[c] \in {"idle", "lock", "mark"}

\* When the lock of a usable connection is free the whole exchange is over: no
\* unread packet, no request unanswered, so the next call starts on a clean stream.
IdleWireClean ==
    Quiet /\ Usable => toCli = <<>> /\ (net = "up" => toSrv = <<>> /\ srv = Idle)

\* Every packet a usable connection has yet to read answers the latest request.
OwnReply == Usable => \A i \in 1..Len(toCli) : toCli[i].req = nreq

\* The sequence number that is checked next is the one that arrives, across the
\* wrap of the byte and the resets of each request.
SeqInStep == Usable /\ toCli # <<>> => toCli[1].seq = cseq

\* Each packet is read by the loop that stands at the place of the reply it was
\* sent from: a row is never taken for a header, an EOF never for the wrong set.
PlaceInStep == Usable /\ toCli # <<>> => toCli[1].st = rd.at

\* A request that was cut off is the last one, if a call inside withDeadline wrote it:
\* the connection is retired before any other call can start (markBadIfConnErr), and
\* none that checks is on its way to write.
TornIsRetired ==
    torn \cap TimedOps # {} =>
        /\ (\A c \in Callers : pc[c] = "idle") => bad \/ closed
        /\ \A c \in Callers : pc[c] = "write" => op[c] = "prepare"

\* docs/protocol-notes.md:30, `Network/protocol errors mark the connection invalid':
\* when no call is running a connection on which a write failed half way is retired,
\* whichever call it was.
NetworkErrorsMark ==
    torn # {} /\ (\A c \in Callers : pc[c] = "idle") => bad \/ closed

\* A connection is retired only for a cause: the network, a timeout, a cancelled
\* context, a malformed packet, a failed session reset, a time zone change that cannot
\* be followed or a drain at its limit.  Server errors alone never retire it.
RetiredIsJustified == bad => fault \/ longest >= MaxDrain

\* Every call that withDeadline covers ends, whatever the server does: its reads
\* and writes run into the deadline.
TimedCallReturns ==
    \A c \in Callers : (OnWire(c) /\ op[c] \in TimedOps) ~> pc[c] = "idle"

\* The lock is with code that reads without a deadline: an open Rows, or resetStmt.
Untimed == mu = RowsHold \/ \E c \in Callers : mu = c /\ op[c] = "resetStmt"

\* No path leaves the mutex locked: a call waits for it for ever only if from some
\* time on a Rows or a statement reset keeps it (conn.go:169, conn_stmt.go:349), whatever
\* the server and the other calls do.
LockIsPassedOn ==
    \A c \in Callers : <>[](pc[c] = "lock") => <>[]Untimed

\* conn.go:374, `if !done.Load()': the watcher of an operation that is done leaves
\* the socket alone.  It neither times out a later read nor touches a nil netConn.
WatcherLeavesSocketAlone ==
    ~crashed /\ (~bad /\ deadline = "past" => \E c \in Callers : pc[c] \in {"write", "read", "end"} /\ op[c] \in TimedOps)
=============================================================================
