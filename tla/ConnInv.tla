------------------------------ MODULE ConnInv ------------------------------
(***************************************************************************)
(* The invariants from which the properties of module Conn are proved      *)
(* (ConnProof), stated apart so that TLC checks them too.                  *)
(***************************************************************************)
EXTENDS Conn

\* database/sql and the caller keep PrepareContext, which takes no lock, away from
\* every other use of the connection.
PrepareAlone == "prepare" \in Ops => DcLock /\ ~OverRows

\* A call that has passed the lock and has not ended.
Past(c) == pc[c] \in {"write", "read", "end"}

\* Which call stands where.
CallsInPlace ==
    \A c \in Callers :
        /\ op[c] \in Ops \cup RowsOps \cup {"none"}
        /\ pc[c] = "write" => op[c] \in CheckedOps \cup {"prepare"}
        /\ Past(c) => op[c] \in CheckedOps \cup RowsOps \cup {"prepare"}

\* A call holds the lock from checkUsableLocked to its end, a method of Rows works
\* under the lock that its query handed over, and the lock is never left behind.
LockHeld ==
    /\ \A c \in Callers : Past(c) /\ op[c] \in CheckedOps => mu = c
    /\ \A c \in Callers : Past(c) /\ op[c] \in RowsOps => mu = RowsHold
    /\ \A c \in Callers : mu = c => Past(c) /\ op[c] \in CheckedOps
    /\ \A c, d \in Callers : Past(c) /\ Past(d) /\ op[c] \in RowsOps /\ op[d] \in RowsOps => c = d

\* While PrepareContext runs nothing else does.
PrepareIsAlone == PrepareAlone =>
    \A c \in Callers : op[c] = "prepare" /\ pc[c] # "idle" =>
        mu = Unlocked /\ \A d \in Callers : d # c => pc[d] = "idle"

LockInv == CallsInPlace /\ LockHeld /\ PrepareIsAlone

\* Every OUT parameter can be stored (`assignOutParam' fails otherwise, and leaves
\* the result that follows the OUT set unread), and a command with a single answer
\* has no more results (`stmtBulkExecLocked' ignores the flag that announces them).
OutParamsFit == "execout" \in Ops => ~AssignFails
SinglesEnd == ~SingleMore

(***************************************************************************)
(* Reading.                                                                *)
(***************************************************************************)

\* Which loop reads at which place of a reply; rows are counted inside a set only.
Shaped(r) ==
    /\ r.at.ph \in {"single", "prep", "pdefs"} => r.mode = "one" /\ r.at.tail = "no"
    /\ r.at.ph = "xfirst" => r.mode = "drain" /\ r.at.tail = "no"
    /\ r.at.ph \in {"first", "defs"} =>
          r.mode \in {"stream", "drain", "out"} /\ (r.mode = "out" <=> r.at.tail # "no")
    /\ r.at.ph = "orow" => r.mode = "out" /\ r.at.tail # "no"
    /\ r.at.ph = "rows" => r.at.left = 0 /\ (r.mode = "drain" \/ (r.mode = "next" /\ r.at.tail = "no"))
    /\ r.at.ph = "xfirst" \/ r.at.tail # "no" => "execout" \in Ops
    /\ r.cnt # 0 => r.at.ph = "rows"
    /\ ~r.fail

\* No method of the open Rows is running.
RowsAtRest == mu = RowsHold /\ \A c \in Callers : ~(Past(c) /\ op[c] \in RowsOps)

\* How far the reply has been read, by what the calls are doing: a request is
\* written after the last reply was read to its end, only a Rows leaves the rest of
\* a reply for later, and the lock is free only between replies.
ReaderInPlace ==
    /\ Quiet => rd.at = Idle
    /\ RowsAtRest => rd.at = At("rows")
    /\ \A c \in Callers :
          /\ pc[c] = "write" => rd.at = Idle
          /\ pc[c] = "read" /\ rd.mode = "stream" => op[c] = "query"
          /\ pc[c] = "read" /\ rd.mode = "next" => op[c] = "next"
          /\ pc[c] = "end" => rd.at = IF out[c] \in {"rows", "row"} THEN At("rows") ELSE Idle
          /\ pc[c] = "end" /\ out[c] = "rows" => op[c] = "query"
          /\ pc[c] = "end" /\ out[c] = "row" => op[c] = "next"

(***************************************************************************)
(* The wire.                                                               *)
(***************************************************************************)

\* The packets under way are one stretch of the latest reply: it begins where the
\* reader is, each packet follows from the one before, and the server goes on where
\* it ends.
Stretch ==
    /\ \A i \in 1 .. Len(toCli) : toCli[i].req = nreq /\ toCli[i].body \in Replies(toCli[i].st)
    /\ \A i \in 1 .. Len(toCli) - 1 :
          /\ toCli[i + 1].st = After(toCli[i].st, toCli[i].body)
          /\ toCli[i + 1].seq = NextSeq(toCli[i].seq)
    /\ toCli # <<>> => toCli[1].st = rd.at /\ toCli[1].seq = cseq

\* Where the server is, while the network is up.
ServerInPlace ==
    /\ toSrv # <<>> =>
          /\ net = "up" /\ Len(toSrv) = 1 /\ srv = Idle /\ toCli = <<>>
          /\ rd.at = ReplyTo(toSrv[1].cmd) /\ toSrv[1].req = nreq /\ cseq = WriteSeq
    /\ net = "up" /\ toSrv = <<>> /\ toCli = <<>> => srv = rd.at /\ (srv # Idle => srvAt.seq = cseq)
    /\ net = "up" /\ toCli # <<>> =>
          /\ srv = After(toCli[Len(toCli)].st, toCli[Len(toCli)].body)
          /\ srvAt.seq = NextSeq(toCli[Len(toCli)].seq)
    /\ net = "up" /\ srv # Idle => srvAt.req = nreq

RowKinds == {"ROW", "BADROW"}
\* Packets i to j of q are rows.
RowRun(q, i, j) == \A k \in i .. j : q[k].body.kind \in RowKinds

\* No run of rows, on the wire or already counted by the drain, is longer than the
\* longest result set sent.
RowsCounted ==
    /\ \A i \in 1 .. Len(toCli) : \A j \in i .. Len(toCli) : RowRun(toCli, i, j) => j - i + 1 <= longest
    /\ \A j \in 0 .. Len(toCli) : RowRun(toCli, 1, j) => rd.cnt + j <= longest
    /\ net = "up" =>
          /\ \A i \in 1 .. Len(toCli) : RowRun(toCli, i, Len(toCli)) => Len(toCli) - i + 1 <= srvAt.nrow
          /\ RowRun(toCli, 1, Len(toCli)) => rd.cnt + Len(toCli) <= srvAt.nrow

\* While a connection is usable, reader and server are in step.
WireInv == Usable => Shaped(rd) /\ ReaderInPlace /\ Stretch /\ ServerInPlace
CountInv == Usable => RowsCounted

(***************************************************************************)
(* Retirement.                                                             *)
(***************************************************************************)

\* A request that was cut off is known to a call of withDeadline, which retires the
\* connection before it returns.
TornIsKnown ==
    torn \cap TimedOps # {} => bad \/ closed \/ \E c \in Callers : pc[c] \in {"end", "mark"} /\ out[c] = "net" /\ op[c] \in TimedOps

\* Under the lock of database/sql one call runs at a time, and a call that has checked
\* the connection finds it in use until its reply ends.
OneAtATime == DcLock => \A c, d \in Callers : pc[c] # "idle" /\ pc[d] # "idle" => c = d
StaysInUse == DcLock =>
    \A c \in Callers :
        /\ OnWire(c) /\ op[c] \in CheckedOps => ~bad /\ ~closed
        /\ pc[c] = "end" /\ op[c] = "reset" /\ ~Failed(c) => ~bad /\ ~closed

\* Nobody uses a connection after Close.
ClosedIsLeft == closed =>
    mu = Unlocked /\ \A c \in Callers : ~Past(c) /\ (op[c] = "prepare" => pc[c] = "idle")

\* While nothing intervened there is no cause for an error, and no error.
NoCause ==
    /\ deadline # "past" /\ pending = 0 /\ (net = "down" => closed) /\ torn = {}
    /\ \A c \in Callers : /\ ctx[c] # "done" /\ pc[c] # "mark"
                          /\ Past(c) /\ pc[c] = "end" => out[c] \notin {"net", "late"}
    /\ \A i \in 1 .. Len(toCli) : toCli[i].body.kind \notin {"JUNK", "BADROW", "BADERR"}

CauseInv == ~fault => NoCause

(***************************************************************************)
(* The abstract specification that Conn implements.                        *)
(***************************************************************************)
\* The server owes packets, and the requests to which packets are under way.
Busy == net = "up" /\ (toSrv # <<>> \/ srv # Idle)
Coming == {toCli[i].req : i \in DOMAIN toCli}

X == INSTANCE Exchange WITH up <- Usable, asked <- nreq, busy <- Busy, coming <- Coming

\* Requests and replies take turns on a connection that is in use, over all calls, open
\* Rows, further results, server errors, timeouts and lost connections.
TakesTurns == X!Spec
=============================================================================
