-------------------------- MODULE ConnRetireProof --------------------------
(***************************************************************************)
(* Proofs about the retirement of a connection: one that cannot be used    *)
(* any more is retired, and one that is retired could not be used any      *)
(* more.                                                                   *)
(***************************************************************************)
EXTENDS ConnWireProof

(***************************************************************************)
(* A torn request.                                                         *)
(***************************************************************************)

\* How a reader may end a call.
LEMMA TakeEnds ==
    ASSUME NEW c \in Callers, NEW b, TypeOK, TakePacket(c, b)
    PROVE  \/ pc' = pc /\ out' = out
           \/ /\ pc' = [pc EXCEPT ![c] = "end"]
              /\ \E o : out' = [out EXCEPT ![c] = o] /\ o # "net" /\ (o = "late" => b.kind = "BADERR")
BY DEF TakePacket, ReadSingle, ReadPrepared, ReadFirst, ReadExecuted, ReadDefs, ReadOutRow, DrainRow, NextRow,
       GoOn, Ends, Breaks, FnReturns

\* Every step keeps the torn request known.  A caller that knows of it stays
\* where it is until it retires the connection.
LEMMA NextTorn == TypeOK /\ CallsInPlace /\ TornIsKnown /\ [Next]_vars => TornIsKnown'
<1> DEFINE Cut == torn \cap TimedOps # {}
<1> SUFFICES ASSUME TypeOK, CallsInPlace, TornIsKnown, [Next]_vars, Cut', ~bad', ~closed'
             PROVE  \E c \in Callers : pc'[c] \in {"end", "mark"} /\ out'[c] = "net" /\ op'[c] \in TimedOps
  BY DEF TornIsKnown
<1> DEFINE Knows(c) == pc[c] \in {"end", "mark"} /\ out[c] = "net" /\ op[c] \in TimedOps
           Goal == \E c \in Callers : pc'[c] \in {"end", "mark"} /\ out'[c] = "net" /\ op'[c] \in TimedOps
<1> USE DEF lockVars, callVars, readVars, timeVars, wireVars, srvVars
<1>1. Cut /\ ~bad /\ ~closed => \E c \in Callers : Knows(c)
  BY DEF TornIsKnown
<1>2. ASSUME Cut' = Cut, UNCHANGED <<bad, closed, pc, out, op>> PROVE Goal
  BY <1>1, <1>2
<1>3. ASSUME NEW c \in Callers, ~Knows(c), Cut' = Cut, ~bad, ~closed,
             \A d \in Callers : d # c => pc'[d] = pc[d] /\ out'[d] = out[d] /\ op'[d] = op[d]
      PROVE  Goal
  BY <1>1, <1>3
<1>4. ASSUME NEW c \in Callers, NEW o \in Ops, Invoke(c, o) PROVE Goal
  BY <1>3, <1>4 DEF Invoke, Gate, TypeOK
<1>5. ASSUME NEW c \in Callers, Refuse(c) \/ Start(c) \/ NothingToSend(c) \/ StartPrepare(c) \/ BeginTx(c) PROVE Goal
  BY <1>3, <1>5 DEF Refuse, Start, NothingToSend, StartPrepare, BeginTx, CanLock, Return, TypeOK
<1>6. ASSUME NEW c \in Callers, CloseStmt(c) PROVE Goal
  <2>1. \E r : Return(c, r)
    BY <1>6 DEF CloseStmt
  <2>2. \A d \in Callers : d # c => pc'[d] = pc[d] /\ out'[d] = out[d] /\ op'[d] = op[d]
    BY <2>1 DEF Return, TypeOK
  <2>3. Cut' = Cut
    BY <1>6 DEF CloseStmt, CutOff, CanLock, TimedOps
  <2>4. QED BY <1>3, <1>6, <2>2, <2>3 DEF CloseStmt, CanLock
<1>7. ASSUME NEW c \in Callers, Close(c) \/ MarkBad(c) \/ ReadFails(c) \/ TimeZoneSyncError(c) PROVE FALSE
  BY <1>7 DEF Close, MarkBad, ReadFails, TimeZoneSyncError, Breaks, MarkProtocolError
<1>8. ASSUME NEW c \in Callers, Write(c) \/ EncodeFails(c) PROVE Goal
  BY <1>3, <1>8 DEF Write, EncodeFails, FnReturns, TypeOK
<1>9. ASSUME NEW c \in Callers, WriteFails(c) PROVE Goal
  <2>1. pc[c] = "write" /\ pc'[c] = "end" /\ out'[c] = "net" /\ op'[c] = op[c]
    BY <1>9 DEF WriteFails, FnReturns, TypeOK
  <2>2. CASE op[c] \in TimedOps
    BY <2>1, <2>2
  <2>3. CASE op[c] \notin TimedOps
    <3>1. Cut' = Cut
      BY <1>9, <2>3 DEF WriteFails, CutOff
    <3>2. QED BY <1>3, <1>9, <2>1, <3>1 DEF WriteFails, FnReturns, TypeOK
  <2>4. QED BY <2>2, <2>3
<1>10. ASSUME NEW c \in Callers, Read(c) PROVE Goal
  <2>1. ~Breaks(c)
    BY DEF Breaks, MarkProtocolError
  <2>2. TakePacket(c, Head(toCli).body) /\ pc[c] = "read" /\ UNCHANGED <<torn, closed, op>>
    BY <1>10, <2>1 DEF Read
  <2>3. bad' = bad
    BY <2>1, <2>2 DEF TakePacket, ReadSingle, ReadPrepared, ReadFirst, ReadExecuted, ReadDefs, ReadOutRow, DrainRow, NextRow, GoOn, Ends
  <2>4. \A d \in Callers : d # c => pc'[d] = pc[d] /\ out'[d] = out[d]
    <3>1. CASE pc' = pc /\ out' = out
      BY <3>1
    <3>2. CASE pc' = [pc EXCEPT ![c] = "end"] /\ \E o : out' = [out EXCEPT ![c] = o]
      BY <3>2 DEF TypeOK
    <3>3. QED BY <2>2, <3>1, <3>2, TakeEnds
  <2>5. QED BY <1>3, <2>2, <2>3, <2>4
<1>11. ASSUME NEW c \in Callers, FinishCall(c) \/ FinishQuery(c) \/ FinishPrepare(c) PROVE Goal
  <2>1. ~CtxErr(c) /\ ~bad /\ ~closed /\ torn' = torn
    <3>1. bad' = (bad \/ CtxErr(c) \/ ConnErr(c)) \/ bad' = (bad \/ CtxErr(c))
      BY <1>11 DEF FinishCall, FinishQuery, FinishPrepare
    <3>2. ~CtxErr(c) /\ ~bad
      BY <3>1, Zenon
    <3>3. closed' = closed /\ torn' = torn
      BY <1>11 DEF FinishCall, FinishQuery, FinishPrepare
    <3>4. QED BY <3>2, <3>3
  <2>2. CASE ConnErr(c)
    <3>1. FinishQuery(c)
      BY <1>11, <2>2 DEF FinishCall, FinishPrepare
    <3>2. pc' = [pc EXCEPT ![c] = "mark"] /\ UNCHANGED <<op, out>>
      BY <2>1, <2>2, <3>1 DEF FinishQuery
    <3>3. QED BY <2>2, <3>1, <3>2 DEF FinishQuery, ConnErr, TypeOK, TimedOps
  <2>3. CASE ~ConnErr(c)
    BY <1>3, <1>11, <2>1, <2>3 DEF FinishCall, FinishQuery, FinishPrepare, Return, ConnErr, TypeOK
  <2>4. QED BY <2>2, <2>3
<1>12. ASSUME NEW c \in Callers, FinishReset(c) PROVE Goal
  <2>1. ~Failed(c) /\ ~bad /\ ~closed /\ torn' = torn /\ ~Knows(c)
    BY <1>12 DEF FinishReset, Failed
  <2>2. \A d \in Callers : d # c => pc'[d] = pc[d] /\ out'[d] = out[d] /\ op'[d] = op[d]
    BY <1>12 DEF FinishReset, Return, TypeOK
  <2>3. QED BY <1>3, <2>1, <2>2
<1>13. ASSUME NEW c \in Callers, FinishResetStmt(c) \/ FinishRows(c) PROVE Goal
  <2>1. ~Knows(c) /\ ~bad /\ ~closed /\ torn' = torn
    <3>1. op[c] \notin TimedOps
      BY <1>13 DEF FinishResetStmt, FinishRows, TimedOps, RowsOps
    <3>2. UNCHANGED <<bad, closed, torn>>
      BY <1>13 DEF FinishResetStmt, FinishRows
    <3>3. QED BY <3>1, <3>2
  <2>2. \A d \in Callers : d # c => pc'[d] = pc[d] /\ out'[d] = out[d] /\ op'[d] = op[d]
    BY <1>13 DEF FinishResetStmt, FinishRows, Return, TypeOK
  <2>3. QED BY <1>3, <2>1, <2>2
<1>14. ASSUME NEW c \in Callers, NextRows(c) \/ CloseRows(c) PROVE Goal
  BY <1>3, <1>14 DEF NextRows, CloseRows, RowsCall, Gate, TypeOK
<1>15. ASSUME NEW c \in Callers, Cancel(c) \/ WatcherWakes(c) PROVE Goal
  BY <1>2, <1>15 DEF Cancel, WatcherWakes
<1>16. ASSUME WatcherFires \/ Expire \/ Drop \/ ServerStarts \/ ServerSends \/ UNCHANGED vars PROVE Goal
  BY <1>2, <1>16 DEF WatcherFires, Expire, Drop, ServerStarts, ServerSends, vars
<1>17. QED
  BY <1>4, <1>5, <1>6, <1>7, <1>8, <1>9, <1>10, <1>11, <1>12, <1>13, <1>14, <1>15, <1>16 DEF Next, ClientStep, TakesLock, CallStep

\* One call at a time, at every step: a call begins when no other runs.
LEMMA NextOne == TypeOK /\ OneAtATime /\ [Next]_vars => OneAtATime'
<1> SUFFICES ASSUME TypeOK, OneAtATime, [Next]_vars, DcLock PROVE OneAtATime'
  BY DEF OneAtATime
<1> USE DEF lockVars, callVars, readVars, timeVars, wireVars, srvVars
<1>1. ASSUME UNCHANGED pc PROVE OneAtATime'
  BY <1>1 DEF OneAtATime
<1>2. ASSUME NEW c \in Callers, pc[c] # "idle" \/ Gate(c), NEW p, pc' = [pc EXCEPT ![c] = p] PROVE OneAtATime'
  BY <1>2 DEF OneAtATime, Gate, TypeOK
<1>3. ASSUME NEW c \in Callers, NEW o \in Ops, Invoke(c, o) PROVE OneAtATime'
  BY <1>2, <1>3 DEF Invoke
<1>4. ASSUME NEW c \in Callers, NextRows(c) \/ CloseRows(c) PROVE OneAtATime'
  BY <1>2, <1>4 DEF NextRows, CloseRows, RowsCall
<1>5. ASSUME NEW c \in Callers, Refuse(c) \/ Start(c) \/ NothingToSend(c) \/ StartPrepare(c) \/ BeginTx(c) PROVE OneAtATime'
  BY <1>2, <1>5 DEF Refuse, Start, NothingToSend, StartPrepare, BeginTx, CanLock, Return
<1>6. ASSUME NEW c \in Callers, CloseStmt(c) \/ Close(c) PROVE OneAtATime'
  BY <1>2, <1>6 DEF CloseStmt, Close, CanLock, Return
<1>7. ASSUME NEW c \in Callers, Write(c) \/ WriteFails(c) \/ EncodeFails(c) \/ ReadFails(c) PROVE OneAtATime'
  BY <1>2, <1>7 DEF Write, WriteFails, EncodeFails, ReadFails, Breaks, FnReturns
<1>8. ASSUME NEW c \in Callers, Read(c) PROVE OneAtATime'
  <2>1. pc' = pc \/ pc' = [pc EXCEPT ![c] = "end"]
    <3>1. CASE Breaks(c)
      BY <3>1 DEF Breaks, FnReturns
    <3>2. CASE TakePacket(c, Head(toCli).body)
      BY <3>2, TakeEnds
    <3>3. QED BY <1>8, <3>1, <3>2 DEF Read
  <2>2. QED BY <1>1, <1>2, <1>8, <2>1 DEF Read
<1>9. ASSUME NEW c \in Callers, FinishCall(c) \/ FinishQuery(c) \/ MarkBad(c) \/ FinishPrepare(c) PROVE OneAtATime'
  BY <1>2, <1>9 DEF FinishCall, FinishQuery, MarkBad, FinishPrepare, Return
<1>10. ASSUME NEW c \in Callers, FinishReset(c) \/ FinishResetStmt(c) \/ FinishRows(c) PROVE OneAtATime'
  BY <1>2, <1>10 DEF FinishReset, FinishResetStmt, FinishRows, Return
<1>11. ASSUME NEW c \in Callers, TimeZoneSyncError(c) \/ Cancel(c) \/ WatcherWakes(c) PROVE OneAtATime'
  BY <1>1, <1>11 DEF TimeZoneSyncError, Cancel, WatcherWakes
<1>12. ASSUME WatcherFires \/ Expire \/ Drop \/ ServerStarts \/ ServerSends \/ UNCHANGED vars PROVE OneAtATime'
  BY <1>1, <1>12 DEF WatcherFires, Expire, Drop, ServerStarts, ServerSends, vars
<1>13. QED
  BY <1>3, <1>4, <1>5, <1>6, <1>7, <1>8, <1>9, <1>10, <1>11, <1>12 DEF Next, ClientStep, TakesLock, CallStep

\* A call that checked the connection finds it in use, at every step: only the call
\* itself could retire it, and then its reply has ended.
LEMMA NextInUse == TypeOK /\ OneAtATime /\ StaysInUse /\ [Next]_vars => StaysInUse'
<1> DEFINE Fine(c) == /\ OnWire(c) /\ op[c] \in CheckedOps => ~bad /\ ~closed
                      /\ pc[c] = "end" /\ op[c] = "reset" /\ ~Failed(c) => ~bad /\ ~closed
<1> SUFFICES ASSUME TypeOK, OneAtATime, StaysInUse, [Next]_vars, DcLock, NEW c \in Callers PROVE Fine(c)'
  BY DEF StaysInUse
<1> USE DEF lockVars, callVars, readVars, timeVars, wireVars, srvVars
<1>0. Fine(c)
  BY DEF StaysInUse
<1>1. ASSUME UNCHANGED <<bad, closed, pc, op, out>> PROVE Fine(c)'
  BY <1>0, <1>1 DEF OnWire, Failed
<1>2. ASSUME pc'[c] \in {"idle", "lock", "mark"} PROVE Fine(c)'
  BY <1>2 DEF OnWire
<1>3. ASSUME NEW d \in Callers, d # c, pc[d] # "idle" \/ Gate(d), NEW p, pc' = [pc EXCEPT ![d] = p] PROVE Fine(c)'
  <2>1. pc[c] = "idle"
    BY <1>3 DEF OneAtATime, Gate
  <2>2. QED BY <1>2, <1>3, <2>1 DEF TypeOK
<1>4. ASSUME NEW d \in Callers, NEW o \in Ops, Invoke(d, o) PROVE Fine(c)'
  BY <1>2, <1>3, <1>4 DEF Invoke, TypeOK
<1>5. ASSUME NEW d \in Callers, NextRows(d) \/ CloseRows(d) PROVE Fine(c)'
  <2>1. CASE d = c
    BY <1>5, <2>1 DEF NextRows, CloseRows, RowsCall, TypeOK, RowsOps, CheckedOps
  <2>2. QED BY <1>3, <1>5, <2>1 DEF NextRows, CloseRows, RowsCall
<1>6. ASSUME NEW d \in Callers, Refuse(d) \/ NothingToSend(d) \/ BeginTx(d) \/ CloseStmt(d) \/ Close(d) PROVE Fine(c)'
  <2>1. pc[d] = "lock" /\ \E r : Return(d, r)
    BY <1>6 DEF Refuse, NothingToSend, BeginTx, CloseStmt, Close, CanLock
  <2>2. QED BY <1>2, <1>3, <2>1 DEF Return, TypeOK
<1>7. ASSUME NEW d \in Callers, Start(d) \/ StartPrepare(d) PROVE Fine(c)'
  <2>1. CASE d = c /\ Start(d)
    BY <2>1 DEF Start, TypeOK
  <2>2. CASE d = c /\ StartPrepare(d)
    BY <2>2 DEF StartPrepare, TypeOK, CheckedOps
  <2>3. QED BY <1>3, <1>7, <2>1, <2>2 DEF Start, StartPrepare, CanLock
<1>8. ASSUME NEW d \in Callers, Write(d) PROVE Fine(c)'
  <2>1. CASE d = c
    BY <1>0, <1>8, <2>1 DEF Write, TypeOK, OnWire
  <2>2. QED BY <1>3, <1>8, <2>1 DEF Write
<1>9. ASSUME NEW d \in Callers, WriteFails(d) \/ EncodeFails(d) \/ ReadFails(d) PROVE Fine(c)'
  <2>1. pc[d] # "idle" /\ \E o : FnReturns(d, o) /\ o \notin {"ok", "rows", "row"}
    BY <1>9 DEF WriteFails, EncodeFails, ReadFails, Breaks
  <2>2. CASE d = c
    BY <2>1, <2>2 DEF FnReturns, TypeOK, OnWire, Failed
  <2>3. QED BY <1>3, <2>1, <2>2 DEF FnReturns
<1>10. ASSUME NEW d \in Callers, Read(d) PROVE Fine(c)'
  <2>1. pc[d] = "read" /\ UNCHANGED <<op, closed>>
    BY <1>10 DEF Read
  <2>2. CASE d = c /\ Breaks(d)
    BY <2>2 DEF Breaks, FnReturns, TypeOK, OnWire, Failed
  <2>3. CASE d = c /\ ~Breaks(d)
    <3>1. TakePacket(d, Head(toCli).body)
      BY <1>10, <2>3 DEF Read
    <3>2. bad' = bad
      BY <2>3, <3>1 DEF TakePacket, ReadSingle, ReadPrepared, ReadFirst, ReadExecuted, ReadDefs, ReadOutRow, DrainRow, NextRow, GoOn, Ends
    <3>3. op[c] \in CheckedOps => ~bad' /\ ~closed'
      BY <1>0, <2>1, <2>3, <3>2 DEF OnWire
    <3>4. QED BY <2>1, <3>3 DEF CheckedOps
  <2>4. CASE d # c
    <3>1. pc' = pc \/ pc' = [pc EXCEPT ![d] = "end"]
      <4>1. CASE Breaks(d)
        BY <4>1 DEF Breaks, FnReturns
      <4>2. CASE TakePacket(d, Head(toCli).body)
        BY <4>2, TakeEnds
      <4>3. QED BY <1>10, <4>1, <4>2 DEF Read
    <3>2. pc[c] = "idle"
      BY <2>1, <2>4 DEF OneAtATime
    <3>3. QED BY <1>2, <2>4, <3>1, <3>2 DEF TypeOK
  <2>5. QED BY <2>2, <2>3, <2>4
<1>11. ASSUME NEW d \in Callers, TimeZoneSyncError(d) PROVE Fine(c)'
  <2>1. pc[d] = "end" /\ op[d] # "reset" /\ UNCHANGED <<pc, op>>
    BY <1>11 DEF TimeZoneSyncError
  <2>2. d # c => pc[c] = "idle"
    BY <2>1 DEF OneAtATime
  <2>3. QED BY <2>1, <2>2 DEF OnWire
<1>12. ASSUME NEW d \in Callers, FinishCall(d) \/ FinishQuery(d) \/ MarkBad(d) \/ FinishPrepare(d) \/ FinishResetStmt(d) \/ FinishRows(d) PROVE Fine(c)'
  <2>1. pc[d] # "idle" /\ \E p \in {"idle", "mark"} : pc' = [pc EXCEPT ![d] = p]
    BY <1>12 DEF FinishCall, FinishQuery, MarkBad, FinishPrepare, FinishResetStmt, FinishRows, Return
  <2>2. QED BY <1>2, <1>3, <2>1 DEF TypeOK
<1>13. ASSUME NEW d \in Callers, FinishReset(d) PROVE Fine(c)'
  <2>1. pc[d] = "end" /\ \E p : pc' = [pc EXCEPT ![d] = p]
    BY <1>13 DEF FinishReset, Return
  <2>2. CASE d = c /\ Failed(d)
    BY <1>2, <1>13, <2>2 DEF FinishReset, Return, TypeOK
  <2>3. CASE d = c /\ ~Failed(d)
    <3>1. ~bad /\ ~closed
      BY <1>0, <1>13, <2>3 DEF FinishReset
    <3>2. ~bad' /\ ~closed'
      BY <1>13, <2>3, <3>1 DEF FinishReset
    <3>3. QED BY <3>2
  <2>4. QED BY <1>3, <2>1, <2>2, <2>3
<1>14. ASSUME NEW d \in Callers, Cancel(d) \/ WatcherWakes(d) PROVE Fine(c)'
  BY <1>1, <1>14 DEF Cancel, WatcherWakes
<1>15. ASSUME WatcherFires \/ Expire \/ Drop \/ ServerStarts \/ ServerSends \/ UNCHANGED vars PROVE Fine(c)'
  BY <1>1, <1>15 DEF WatcherFires, Expire, Drop, ServerStarts, ServerSends, vars
<1>16. QED
  BY <1>4, <1>5, <1>6, <1>7, <1>8, <1>9, <1>10, <1>11, <1>12, <1>13, <1>14, <1>15 DEF Next, ClientStep, TakesLock, CallStep

\* A request of a call inside withDeadline that was cut off in the middle is the last
\* thing that a call which checks the connection writes: the connection is retired
\* before the next call starts (markBadIfConnErr).  Calls must run one at a time, as
\* under the lock of database/sql: QueryContext unlocks before it marks.
THEOREM TornRequestRetires == ASSUME DcLock PROVE Spec => []TornIsRetired
<1>1. Init => TornIsKnown /\ OneAtATime /\ StaysInUse
  BY DEF Init, TornIsKnown, OneAtATime, StaysInUse, OnWire
<1>2. TypeOK /\ CallsInPlace /\ TornIsKnown /\ OneAtATime /\ StaysInUse => TornIsRetired
  <2> SUFFICES ASSUME TypeOK, CallsInPlace, TornIsKnown, OneAtATime, StaysInUse, torn \cap TimedOps # {} PROVE TornIsRetired
    BY DEF TornIsRetired
  <2>1. bad \/ closed \/ \E d \in Callers : pc[d] \in {"end", "mark"}
    BY DEF TornIsKnown
  <2>2. ASSUME NEW c \in Callers, pc[c] = "write" PROVE op[c] = "prepare"
    <3>1. \A d \in Callers : pc[d] # "idle" => d = c
      BY <2>2 DEF OneAtATime
    <3>2. bad \/ closed
      BY <2>1, <2>2, <3>1
    <3>3. QED BY <2>2, <3>2 DEF StaysInUse, OnWire, CallsInPlace
  <2>3. QED BY <2>1, <2>2 DEF TornIsRetired
<1>3. LockInv => CallsInPlace
  BY DEF LockInv
<1>4. QED
  BY <1>1, <1>2, <1>3, InitType, InitLock, NextType, NextLock, NextTorn, NextOne, NextInUse, PTL DEF Spec

(***************************************************************************)
(* Rows counted by the drain.                                              *)
(***************************************************************************)

\* A longer row count at the reader is all that a step without packets could break.
LEMMA CountKept ==
    ASSUME TypeOK, TypeOK', RowsCounted, rd'.cnt <= rd.cnt, UNCHANGED <<toCli, net, srvAt, longest>>
    PROVE  RowsCounted'
<1>1. rd.cnt \in Nat /\ rd'.cnt \in Nat /\ longest \in Nat /\ srvAt.nrow \in Nat /\ Len(toCli) \in Nat
  BY DEF TypeOK, Reader
<1>2. \A i, j : RowRun(toCli', i, j) <=> RowRun(toCli, i, j)
  BY DEF RowRun, RowKinds
<1>3. /\ \A i \in 1 .. Len(toCli) : \A j \in i .. Len(toCli) : RowRun(toCli', i, j) => j - i + 1 <= longest'
      /\ net' = "up" => \A i \in 1 .. Len(toCli) : RowRun(toCli', i, Len(toCli)) => Len(toCli) - i + 1 <= srvAt'.nrow
  BY <1>2 DEF RowsCounted
<1>4. \A j \in 0 .. Len(toCli) : RowRun(toCli', 1, j) => rd'.cnt + j <= longest'
  BY <1>1, <1>2 DEF RowsCounted
<1>5. net' = "up" /\ RowRun(toCli', 1, Len(toCli)) => rd'.cnt + Len(toCli) <= srvAt'.nrow
  BY <1>1, <1>2 DEF RowsCounted
<1>6. QED BY <1>3, <1>4, <1>5 DEF RowsCounted

\* No run of rows outgrows the longest result set, at any step.
LEMMA NextCount ==
    ASSUME PrepareAlone, OutParamsFit, SinglesEnd, TypeOK, TypeOK', LockInv, WireInv, CountInv, [Next]_vars, Usable'
    PROVE  RowsCounted'
<1> USE DEF lockVars, callVars, readVars, timeVars, wireVars, srvVars
<1>0. Usable /\ Shaped(rd) /\ ReaderInPlace /\ Stretch /\ ServerInPlace /\ RowsCounted
  BY StaysRetired DEF WireInv, CountInv
<1>t. /\ rd.cnt \in Nat /\ rd'.cnt \in Nat /\ longest \in Nat /\ srvAt.nrow \in Nat /\ Len(toCli) \in Nat
      /\ longest' \in Nat /\ srvAt'.nrow \in Nat /\ Len(toCli') \in Nat
  <2>1. rd \in Reader /\ rd' \in Reader /\ toCli \in Seq(Packet) /\ toCli' \in Seq(Packet)
    BY DEF TypeOK
  <2>2. srvAt \in [req : Nat, seq : Nat, nrow : Nat, nset : Nat] /\ srvAt' \in [req : Nat, seq : Nat, nrow : Nat, nset : Nat]
    BY DEF TypeOK
  <2>3. longest \in Nat /\ longest' \in Nat
    BY DEF TypeOK
  <2>4. QED BY <2>1, <2>2, <2>3 DEF Reader
<1>1. ASSUME rd' = rd, UNCHANGED <<toCli, net, srvAt, longest>> PROVE RowsCounted'
  BY <1>0, <1>1, <1>t, CountKept
<1>2. ASSUME rd'.cnt = 0, UNCHANGED <<toCli, net, srvAt, longest>> PROVE RowsCounted'
  BY <1>0, <1>2, <1>t, CountKept
<1>3. ASSUME NEW c \in Callers, NEW o \in Ops, Invoke(c, o) PROVE RowsCounted'
  BY <1>1, <1>3 DEF Invoke
<1>4. ASSUME NEW c \in Callers, \/ Refuse(c) \/ Start(c) \/ NothingToSend(c) \/ StartPrepare(c) \/ BeginTx(c) \/ CloseStmt(c)
                                \/ WriteFails(c) \/ EncodeFails(c)
      PROVE RowsCounted'
  BY <1>1, <1>4 DEF Refuse, Start, NothingToSend, StartPrepare, BeginTx, CloseStmt, WriteFails, EncodeFails
<1>5. ASSUME NEW c \in Callers, Close(c) \/ MarkBad(c) \/ ReadFails(c) \/ TimeZoneSyncError(c) PROVE FALSE
  BY <1>5 DEF Close, MarkBad, ReadFails, TimeZoneSyncError, Breaks, MarkProtocolError, Usable
<1>6. ASSUME NEW c \in Callers, Write(c) PROVE RowsCounted'
  <2>1. op[c] \in Ops /\ op[c] \in CheckedOps \cup {"prepare"}
    BY <1>6 DEF Write, LockInv, CallsInPlace, CheckedOps, RowsOps
  <2>2. rd'.cnt = 0
    BY <1>6, <2>1, ShapedRequest DEF Write
  <2>3. QED BY <1>2, <1>6, <2>2 DEF Write
<1>7. ASSUME NEW c \in Callers, Read(c) PROVE RowsCounted'
  <2> DEFINE n == Len(toCli)
  <2>1. toCli # <<>> /\ pc[c] = "read" /\ Head(toCli) = toCli[1] /\ 1 \in 1 .. Len(toCli) /\ Len(toCli) \in Nat
    BY <1>7 DEF Read, TypeOK
  <2>2. ~Breaks(c) /\ ~bad'
    BY DEF Breaks, MarkProtocolError, Usable
  <2>3. TakePacket(c, toCli[1].body)
    BY <1>7, <2>1, <2>2 DEF Read
  <2>4. toCli[1].body \in Replies(rd.at)
    BY <1>0, <2>1 DEF Stretch
  <2>5. rd'.cnt # 0 => toCli[1].body.kind \in RowKinds /\ rd'.cnt <= rd.cnt + 1
    BY <1>0, <2>1, <2>2, <2>3, <2>4, TakeInStep
  <2>6. UNCHANGED <<net, srvAt, longest>> /\ toCli' = Tail(toCli)
    BY <1>7 DEF Read
  <2>7. Len(toCli') = n - 1 /\ \A i \in 1 .. n - 1 : toCli'[i] = toCli[i + 1]
    BY <2>1, <2>6 DEF TypeOK
  <2>8. ASSUME NEW i \in Nat \ {0}, NEW j \in 0 .. n - 1, RowRun(toCli', i, j) PROVE RowRun(toCli, i + 1, j + 1)
    <3>1. SUFFICES ASSUME NEW k \in i + 1 .. j + 1 PROVE toCli[k].body.kind \in RowKinds
      BY DEF RowRun
    <3>2. k - 1 \in i .. j /\ k - 1 \in 1 .. n - 1 /\ (k - 1) + 1 = k
      BY <2>1
    <3>3. toCli'[k - 1].body.kind \in RowKinds /\ toCli'[k - 1] = toCli[k]
      BY <2>7, <2>8, <3>2 DEF RowRun, RowKinds
    <3>4. QED BY <3>3
  <2>9. ASSUME NEW i \in 1 .. n - 1, NEW j \in i .. n - 1, RowRun(toCli', i, j) PROVE j - i + 1 <= longest
    <3>1. RowRun(toCli, i + 1, j + 1) /\ i + 1 \in 1 .. n /\ j + 1 \in i + 1 .. n
      BY <2>1, <2>8, <2>9
    <3>2. (j + 1) - (i + 1) + 1 <= longest
      BY <1>0, <3>1 DEF RowsCounted
    <3>3. QED BY <2>1, <3>2
  <2>10. ASSUME NEW j \in 0 .. n - 1, RowRun(toCli', 1, j), rd'.cnt = 0 PROVE j <= longest
    <3>1. CASE j = 0
      BY <1>t, <3>1
    <3>2. CASE j # 0
      <4>1. 1 \in 1 .. n - 1 /\ j \in 1 .. n - 1 /\ j - 1 + 1 = j
        BY <2>1, <3>2
      <4>2. QED BY <2>9, <2>10, <4>1
    <3>3. QED BY <3>1, <3>2
  <2>11. ASSUME NEW j \in 0 .. n - 1, RowRun(toCli', 1, j), rd'.cnt # 0
         PROVE  RowRun(toCli, 1, j + 1) /\ j + 1 \in 0 .. n /\ rd'.cnt + j <= rd.cnt + (j + 1)
    <3>1. RowRun(toCli, 1 + 1, j + 1)
      BY <2>8, <2>11
    <3>2. \A k \in 1 .. j + 1 : k = 1 \/ k \in 1 + 1 .. j + 1
      BY <2>11
    <3>3. RowRun(toCli, 1, j + 1)
      BY <2>5, <2>11, <3>1, <3>2 DEF RowRun
    <3>4. QED BY <1>t, <2>1, <2>5, <2>11, <3>3
  <2>12. \A j \in 0 .. n - 1 : RowRun(toCli', 1, j) => rd'.cnt + j <= longest
    <3>1. SUFFICES ASSUME NEW j \in 0 .. n - 1, RowRun(toCli', 1, j) PROVE rd'.cnt + j <= longest
      OBVIOUS
    <3>2. CASE rd'.cnt = 0
      BY <1>t, <2>10, <3>1, <3>2
    <3>3. CASE rd'.cnt # 0
      <4>1. rd.cnt + (j + 1) <= longest /\ rd'.cnt + j <= rd.cnt + (j + 1)
        BY <1>0, <2>11, <3>1, <3>3 DEF RowsCounted
      <4>2. QED BY <1>t, <4>1
    <3>4. QED BY <3>2, <3>3
  <2>13. ASSUME net = "up", NEW i \in 1 .. n - 1, RowRun(toCli', i, n - 1) PROVE (n - 1) - i + 1 <= srvAt.nrow
    <3>1. RowRun(toCli, i + 1, (n - 1) + 1) /\ i + 1 \in 1 .. n /\ (n - 1) + 1 = n
      <4>1. n - 1 \in 0 .. n - 1 /\ i + 1 \in 1 .. n /\ (n - 1) + 1 = n /\ i \in Nat \ {0}
        BY <2>1
      <4>2. QED BY <2>8, <2>13, <4>1
    <3>2. n - (i + 1) + 1 <= srvAt.nrow
      BY <1>0, <2>13, <3>1 DEF RowsCounted
    <3>3. QED BY <1>t, <2>1, <3>2
  <2>14. ASSUME net = "up", RowRun(toCli', 1, n - 1) PROVE rd'.cnt + (n - 1) <= srvAt.nrow
    <3>1. n - 1 \in 0 .. n - 1 /\ (n - 1) + 1 = n
      BY <2>1
    <3>2. CASE rd'.cnt # 0
      <4>1. RowRun(toCli, 1, n) /\ rd'.cnt + (n - 1) <= rd.cnt + n
        BY <2>11, <2>14, <3>1, <3>2
      <4>2. rd.cnt + n <= srvAt.nrow
        BY <1>0, <2>14, <4>1 DEF RowsCounted
      <4>3. QED BY <1>t, <2>1, <4>1, <4>2, SMTT(30)
    <3>3. CASE rd'.cnt = 0 /\ n = 1
      BY <1>t, <3>3
    <3>4. CASE rd'.cnt = 0 /\ n # 1
      <4>1. 1 \in 1 .. n - 1
        <5>1. \A m \in Nat : m >= 1 /\ m # 1 => 1 \in 1 .. m - 1
          OBVIOUS
        <5>2. n \in Nat /\ n >= 1
          BY <2>1
        <5>3. QED BY <3>4, <5>1, <5>2
      <4>2. (n - 1) - 1 + 1 <= srvAt.nrow
        BY <2>13, <2>14, <4>1
      <4>3. QED BY <1>t, <3>4, <4>2
    <3>5. QED BY <3>2, <3>3, <3>4
  <2>15. QED BY <2>6, <2>7, <2>9, <2>12, <2>13, <2>14 DEF RowsCounted
<1>8. ASSUME NEW c \in Callers, \/ FinishCall(c) \/ FinishQuery(c) \/ FinishPrepare(c) \/ FinishReset(c)
                                \/ FinishResetStmt(c) \/ FinishRows(c) \/ Cancel(c) \/ WatcherWakes(c)
      PROVE  RowsCounted'
  BY <1>1, <1>8 DEF FinishCall, FinishQuery, FinishPrepare, FinishReset, FinishResetStmt, FinishRows, Cancel, WatcherWakes
<1>9. ASSUME NEW c \in Callers, NextRows(c) \/ CloseRows(c) PROVE RowsCounted'
  BY <1>2, <1>9 DEF NextRows, CloseRows, RowsCall, Rd
<1>10. ASSUME WatcherFires \/ Expire \/ UNCHANGED vars PROVE RowsCounted'
  BY <1>1, <1>10 DEF WatcherFires, Expire, vars
<1>11. ASSUME Drop PROVE RowsCounted'
  <2>1. net' # "up" /\ rd' = rd /\ longest' = longest
    BY <1>11 DEF Drop
  <2>2. CASE toCli' = toCli
    <3>1. \A i, j : RowRun(toCli', i, j) <=> RowRun(toCli, i, j)
      BY <2>2 DEF RowRun, RowKinds
    <3>2. QED BY <1>0, <2>1, <2>2, <3>1 DEF RowsCounted
  <2>3. CASE toCli' = <<>>
    <3>1. Len(toCli') = 0 /\ 0 \in 0 .. Len(toCli) /\ RowRun(toCli, 1, 0)
      BY <1>t, <2>3 DEF RowRun
    <3>2. rd.cnt + 0 <= longest
      BY <1>0, <3>1 DEF RowsCounted
    <3>3. QED BY <1>t, <2>1, <3>1, <3>2 DEF RowsCounted
  <2>4. QED BY <1>11, <2>2, <2>3 DEF Drop
<1>12. ASSUME ServerStarts PROVE RowsCounted'
  <2>1. toCli' = <<>> /\ toCli = <<>> /\ rd' = rd /\ longest' = longest /\ rd.at = ReplyTo(toSrv[1].cmd)
    BY <1>0, <1>12 DEF ServerStarts, ServerInPlace
  <2>2. rd.cnt = 0
    <3>1. rd.at \in {At("first"), At("xfirst"), At("prep"), At("single")}
      BY <2>1, Zenon DEF ReplyTo
    <3>2. QED BY <1>0, <3>1 DEF Shaped, At, Pl
  <2>3. Len(toCli') = 0
    BY <2>1
  <2>4. QED BY <1>t, <2>1, <2>2, <2>3 DEF RowsCounted
<1>13. ASSUME ServerSends PROVE RowsCounted'
  <2> DEFINE n == Len(toCli)
  <2>1. PICK b \in Replies(srv) :
           /\ toCli' = Append(toCli, [req |-> srvAt.req, seq |-> srvAt.seq, st |-> srv, body |-> b])
           /\ srvAt' = [srvAt EXCEPT !.seq = (srvAt.seq + 1) % SeqMod,
                                     !.nrow = IF b.kind \in {"ROW", "BADROW"} THEN srvAt.nrow + 1 ELSE 0,
                                     !.nset = IF b.more THEN srvAt.nset + 1 ELSE srvAt.nset]
           /\ longest' = IF b.kind \in {"ROW", "BADROW"} /\ srvAt.nrow + 1 > longest THEN srvAt.nrow + 1 ELSE longest
    BY <1>13 DEF ServerSends
  <2>2. net = "up" /\ net' = "up" /\ rd' = rd /\ n \in Nat /\ toCli \in Seq(Packet)
    BY <1>13 DEF ServerSends, TypeOK
  <2>3. /\ Len(toCli') = n + 1 /\ toCli'[n + 1].body = b
        /\ \A i \in 1 .. n : toCli'[i] = toCli[i]
    BY <2>1, <2>2
  <2>4. \A i \in Nat \ {0}, j \in 0 .. n : RowRun(toCli', i, j) <=> RowRun(toCli, i, j)
    <3>1. ASSUME NEW i \in Nat \ {0}, NEW j \in 0 .. n PROVE RowRun(toCli', i, j) <=> RowRun(toCli, i, j)
      <4>1. \A k \in i .. j : toCli'[k] = toCli[k]
        BY <2>2, <2>3
      <4>2. QED BY <4>1 DEF RowRun, RowKinds
    <3>2. QED BY <3>1
  <2>5. longest' >= longest
    BY <1>t, <2>1
  <2>6. CASE b.kind \in RowKinds
    <3>1. srvAt'.nrow = srvAt.nrow + 1 /\ longest' >= srvAt.nrow + 1
      <4>1. srvAt \in [req : Nat, seq : Nat, nrow : Nat, nset : Nat] /\ b.kind \in {"ROW", "BADROW"}
        BY <2>6 DEF TypeOK, RowKinds
      <4>2. srvAt'.nrow = srvAt.nrow + 1
        BY <2>1, <4>1
      <4>3. longest' >= srvAt.nrow + 1
        BY <1>t, <2>1, <4>1
      <4>4. QED BY <4>2, <4>3
    <3>2. ASSUME NEW i \in 1 .. n + 1, RowRun(toCli', i, n + 1) PROVE (n + 1) - i + 1 <= srvAt.nrow + 1
      <4>1. CASE i = n + 1
        BY <1>t, <2>2, <4>1
      <4>2. CASE i # n + 1
        <5>1. i \in 1 .. n
          BY <2>2, <4>2
        <5>2. RowRun(toCli', i, n)
          <6>1. \A k \in i .. n : k \in i .. n + 1
            BY <2>2
          <6>2. QED BY <3>2, <6>1 DEF RowRun
        <5>3. RowRun(toCli, i, n)
          BY <2>2, <2>4, <5>1, <5>2
        <5>4. n - i + 1 <= srvAt.nrow
          BY <1>0, <2>2, <5>1, <5>3 DEF RowsCounted
        <5>5. QED BY <1>t, <2>2, <5>1, <5>4
      <4>3. QED BY <4>1, <4>2
    <3>3. ASSUME RowRun(toCli', 1, n + 1) PROVE rd.cnt + (n + 1) <= srvAt.nrow + 1
      <4>1. RowRun(toCli', 1, n)
        <5>1. \A k \in 1 .. n : k \in 1 .. n + 1
          BY <2>2
        <5>2. QED BY <3>3, <5>1 DEF RowRun
      <4>2. RowRun(toCli, 1, n)
        BY <2>2, <2>4, <4>1
      <4>3. rd.cnt + n <= srvAt.nrow
        BY <1>0, <2>2, <4>2 DEF RowsCounted
      <4>4. QED BY <1>t, <2>2, <4>3
    <3>4. ASSUME NEW i \in 1 .. n + 1, NEW j \in i .. n + 1, RowRun(toCli', i, j) PROVE j - i + 1 <= longest'
      <4>1. CASE j = n + 1
        BY <1>t, <2>2, <3>1, <3>2, <3>4, <4>1
      <4>2. CASE j # n + 1
        <5>1. i \in 1 .. n /\ j \in i .. n /\ j \in 0 .. n /\ i \in Nat \ {0}
          BY <2>2, <4>2
        <5>2. RowRun(toCli, i, j)
          BY <2>4, <3>4, <5>1
        <5>3. j - i + 1 <= longest
          BY <1>0, <5>1, <5>2 DEF RowsCounted
        <5>4. QED BY <1>t, <2>2, <2>5, <5>1, <5>3
      <4>3. QED BY <4>1, <4>2
    <3>5. ASSUME NEW j \in 0 .. n + 1, RowRun(toCli', 1, j) PROVE rd.cnt + j <= longest'
      <4>1. CASE j = n + 1
        BY <1>t, <2>2, <3>1, <3>3, <3>5, <4>1
      <4>2. CASE j # n + 1
        <5>1. j \in 0 .. n
          BY <2>2, <4>2
        <5>2. RowRun(toCli, 1, j)
          BY <2>4, <3>5, <5>1
        <5>3. rd.cnt + j <= longest
          BY <1>0, <5>1, <5>2 DEF RowsCounted
        <5>4. QED BY <1>t, <2>2, <2>5, <5>1, <5>3
      <4>3. QED BY <4>1, <4>2
    <3>6. QED BY <2>2, <2>3, <3>1, <3>2, <3>3, <3>4, <3>5 DEF RowsCounted
  <2>7. CASE b.kind \notin RowKinds
    <3>1. longest' = longest
      BY <2>1, <2>7 DEF RowKinds
    <3>2. ASSUME NEW i \in 1 .. n + 1 PROVE ~RowRun(toCli', i, n + 1)
      <4>1. n + 1 \in i .. n + 1
        BY <2>2
      <4>2. QED BY <2>3, <2>7, <4>1 DEF RowRun, RowKinds
    <3>3. 1 \in 1 .. n + 1
      BY <2>2
    <3>4. ASSUME NEW i \in 1 .. n + 1, NEW j \in i .. n + 1, RowRun(toCli', i, j) PROVE j - i + 1 <= longest'
      <4>1. i \in 1 .. n /\ j \in i .. n /\ j \in 0 .. n /\ i \in Nat \ {0}
        <5>1. j # n + 1
          BY <3>2, <3>4
        <5>2. QED BY <2>2, <5>1
      <4>2. QED BY <1>0, <2>4, <3>1, <3>4, <4>1 DEF RowsCounted
    <3>5. ASSUME NEW j \in 0 .. n + 1, RowRun(toCli', 1, j) PROVE rd.cnt + j <= longest'
      <4>1. j \in 0 .. n
        <5>1. j # n + 1
          BY <3>2, <3>3, <3>5
        <5>2. QED BY <2>2, <5>1
      <4>2. QED BY <1>0, <2>4, <3>1, <3>5, <4>1 DEF RowsCounted
    <3>6. QED BY <2>2, <2>3, <3>2, <3>3, <3>4, <3>5 DEF RowsCounted
  <2>8. QED BY <2>6, <2>7
<1>14. QED
  BY <1>3, <1>4, <1>5, <1>6, <1>7, <1>8, <1>9, <1>10, <1>11, <1>12, <1>13 DEF Next, ClientStep, TakesLock, CallStep

(***************************************************************************)
(* Causes.                                                                 *)
(***************************************************************************)

\* A closed connection is left alone.
LEMMA NextClosed ==
    ASSUME PrepareAlone
    PROVE  TypeOK /\ LockInv /\ ClosedIsLeft /\ [Next]_vars => ClosedIsLeft'
<1> SUFFICES ASSUME TypeOK, LockInv, ClosedIsLeft, [Next]_vars, closed'
             PROVE  mu' = Unlocked /\ \A c \in Callers : ~Past(c)' /\ (op'[c] = "prepare" => pc'[c] = "idle")
  BY DEF ClosedIsLeft
<1> DEFINE Goal == mu' = Unlocked /\ \A c \in Callers : ~Past(c)' /\ (op'[c] = "prepare" => pc'[c] = "idle")
<1> USE DEF lockVars, callVars, readVars, timeVars, wireVars, srvVars
<1>1. closed => mu = Unlocked /\ \A c \in Callers : ~Past(c) /\ (op[c] = "prepare" => pc[c] = "idle")
  BY DEF ClosedIsLeft
<1>2. ASSUME UNCHANGED <<mu, closed, pc, op>> PROVE Goal
  BY <1>1, <1>2 DEF Past
<1>3. ASSUME NEW c \in Callers, NEW o \in Ops, Invoke(c, o) PROVE Goal
  BY <1>1, <1>3 DEF Invoke, TypeOK, Past
<1>4. ASSUME NEW c \in Callers, pc[c] \in {"lock", "mark"}, mu' = mu, closed' = closed, \E r : Return(c, r) PROVE Goal
  BY <1>1, <1>4 DEF Return, TypeOK, Past
<1>5. ASSUME NEW c \in Callers, Refuse(c) \/ NothingToSend(c) \/ BeginTx(c) \/ CloseStmt(c) \/ MarkBad(c) PROVE Goal
  <2>1. pc[c] \in {"lock", "mark"} /\ mu' = mu /\ closed' = closed
    BY <1>5 DEF Refuse, NothingToSend, BeginTx, CloseStmt, MarkBad, CanLock
  <2>2. \E r : Return(c, r)
    BY <1>5 DEF Refuse, NothingToSend, BeginTx, CloseStmt, MarkBad
  <2>3. QED BY <1>4, <2>1, <2>2
<1>6. ASSUME NEW c \in Callers, Start(c) PROVE FALSE
  BY <1>6 DEF Start
<1>7. ASSUME NEW c \in Callers, StartPrepare(c) PROVE FALSE
  BY <1>1, <1>7 DEF StartPrepare
<1>8. ASSUME NEW c \in Callers, Close(c) PROVE Goal
  <2>1. mu = Unlocked /\ pc[c] = "lock" /\ op[c] = "close" /\ mu' = mu
    BY <1>8 DEF Close, CanLock
  <2>2. \A d \in Callers : ~Past(d) /\ (op[d] = "prepare" => pc[d] = "idle")
    BY <2>1, CallersAssumption DEF LockInv, CallsInPlace, LockHeld, PrepareIsAlone, Past
  <2>3. QED BY <1>8, <2>1, <2>2 DEF Close, Return, TypeOK, Past
<1>9. ASSUME NEW c \in Callers, Past(c), closed' = closed PROVE FALSE
  BY <1>1, <1>9
<1>10. ASSUME NEW c \in Callers, \/ Write(c) \/ WriteFails(c) \/ EncodeFails(c) \/ Read(c) \/ ReadFails(c) \/ TimeZoneSyncError(c)
                                 \/ FinishCall(c) \/ FinishQuery(c) \/ FinishPrepare(c) \/ FinishReset(c)
                                 \/ FinishResetStmt(c) \/ FinishRows(c)
       PROVE  FALSE
  BY <1>9, <1>10 DEF Past, Write, WriteFails, EncodeFails, Read, ReadFails, TimeZoneSyncError, FinishCall, FinishQuery,
                     FinishPrepare, FinishReset, FinishResetStmt, FinishRows
<1>11. ASSUME NEW c \in Callers, NextRows(c) \/ CloseRows(c) PROVE FALSE
  BY <1>1, <1>11, CallersAssumption DEF NextRows, CloseRows, RowsCall
<1>12. ASSUME NEW c \in Callers, Cancel(c) \/ WatcherWakes(c) PROVE Goal
  BY <1>2, <1>12 DEF Cancel, WatcherWakes
<1>13. ASSUME WatcherFires \/ Expire \/ Drop \/ ServerStarts \/ ServerSends \/ UNCHANGED vars PROVE Goal
  BY <1>2, <1>13 DEF WatcherFires, Expire, Drop, ServerStarts, ServerSends, vars
<1>14. QED
  BY <1>3, <1>5, <1>6, <1>7, <1>8, <1>10, <1>11, <1>12, <1>13 DEF Next, ClientStep, TakesLock, CallStep

\* What the causes say about the callers: nobody's context is done, nobody has an
\* error of the network.
CallsFine == \A c \in Callers : /\ ctx[c] # "done" /\ pc[c] # "mark"
                                /\ pc[c] = "end" => out[c] \notin {"net", "late"}

\* A fault is not forgotten.
LEMMA FaultStays == [Next]_vars /\ fault => fault'
<1> SUFFICES ASSUME [Next]_vars, fault PROVE fault'
  OBVIOUS
<1> USE DEF lockVars, callVars, readVars, timeVars, wireVars, srvVars
<1>1. ASSUME NEW c \in Callers, ClientStep(c) \/ CallStep(c) \/ WatcherWakes(c) PROVE fault'
  <2>1. CASE TimeZoneSyncError(c) \/ Cancel(c)
    BY <2>1 DEF TimeZoneSyncError, Cancel
  <2>2. CASE FinishReset(c)
    BY <2>2 DEF FinishReset
  <2>3. CASE \/ Refuse(c) \/ Start(c) \/ NothingToSend(c) \/ StartPrepare(c) \/ BeginTx(c) \/ CloseStmt(c) \/ Close(c)
             \/ Write(c) \/ WriteFails(c) \/ EncodeFails(c) \/ Read(c) \/ ReadFails(c)
             \/ FinishCall(c) \/ FinishQuery(c) \/ MarkBad(c) \/ FinishPrepare(c) \/ FinishResetStmt(c) \/ FinishRows(c)
             \/ NextRows(c) \/ CloseRows(c) \/ WatcherWakes(c) \/ \E o \in Ops : Invoke(c, o)
    <3>1. fault' = fault
      BY <2>3 DEF Refuse, Start, NothingToSend, StartPrepare, BeginTx, CloseStmt, Close, Write, WriteFails, EncodeFails, Read,
                  ReadFails, FinishCall, FinishQuery, MarkBad, FinishPrepare, FinishResetStmt, FinishRows, NextRows,
                  CloseRows, RowsCall, WatcherWakes, Invoke
    <3>2. QED BY <3>1
  <2>4. QED BY <1>1, <2>1, <2>2, <2>3 DEF ClientStep, TakesLock, CallStep
<1>2. CASE Expire \/ Drop
  BY <1>2 DEF Expire, Drop
<1>3. CASE ServerSends
  BY <1>3 DEF ServerSends
<1>4. CASE WatcherFires \/ ServerStarts \/ UNCHANGED vars
  BY <1>4 DEF WatcherFires, ServerStarts, vars
<1>5. QED BY <1>1, <1>2, <1>3, <1>4 DEF Next

\* Without a fault there is no cause, at any step.
LEMMA NextCause ==
    ASSUME PrepareAlone
    PROVE  TypeOK /\ LockInv /\ ClosedIsLeft /\ CauseInv /\ [Next]_vars => CauseInv'
<1> SUFFICES ASSUME TypeOK, LockInv, ClosedIsLeft, CauseInv, [Next]_vars, ~fault' PROVE NoCause'
  BY DEF CauseInv
<1> DEFINE TimeFine == deadline # "past" /\ pending = 0
           NetFine == (net = "down" => closed) /\ torn = {}
           WireFine == \A i \in 1 .. Len(toCli) : toCli[i].body.kind \notin {"JUNK", "BADROW", "BADERR"}
<1> USE DEF lockVars, callVars, readVars, timeVars, wireVars, srvVars
<1>1. ~fault
  BY FaultStays
<1>2. TimeFine /\ NetFine /\ CallsFine /\ WireFine
  BY <1>1 DEF CauseInv, NoCause, CallsFine, Past
<1>3. SUFFICES TimeFine' /\ NetFine' /\ CallsFine' /\ WireFine'
  BY DEF NoCause, CallsFine
<1> HIDE DEF TimeFine, NetFine, WireFine
<1>4. ASSUME UNCHANGED <<deadline, pending>> PROVE TimeFine'
  BY <1>2, <1>4 DEF TimeFine
<1>5. ASSUME UNCHANGED <<net, closed, torn>> PROVE NetFine'
  BY <1>2, <1>5 DEF NetFine
<1>6. ASSUME UNCHANGED toCli PROVE WireFine'
  BY <1>2, <1>6 DEF WireFine
<1>7. ASSUME UNCHANGED <<ctx, pc, out>> PROVE CallsFine'
  BY <1>2, <1>7 DEF CallsFine
<1>8. ASSUME NEW c \in Callers, NEW r, Return(c, r) PROVE CallsFine'
  BY <1>2, <1>8 DEF CallsFine, Return, TypeOK
<1>9. ASSUME NEW c \in Callers, ctx' = ctx, out' = out, NEW p \in {"lock", "write", "read"}, pc' = [pc EXCEPT ![c] = p] PROVE CallsFine'
  BY <1>2, <1>9 DEF CallsFine, TypeOK
<1>10. ASSUME NEW c \in Callers, NEW o \in Ops, Invoke(c, o) PROVE TimeFine' /\ NetFine' /\ CallsFine' /\ WireFine'
  <2>1. CallsFine'
    <3>1. PICK x \in {"bg", "live"} : ctx' = [ctx EXCEPT ![c] = x]
      BY <1>10 DEF Invoke
    <3>2. QED BY <1>2, <1>10, <3>1 DEF Invoke, CallsFine, TypeOK
  <2>2. QED BY <1>4, <1>5, <1>6, <1>10, <2>1 DEF Invoke
<1>11. ASSUME NEW c \in Callers, Refuse(c) \/ NothingToSend(c) \/ BeginTx(c) \/ CloseStmt(c) PROVE TimeFine' /\ NetFine' /\ CallsFine' /\ WireFine'
  <2>1. \E r : Return(c, r)
    BY <1>11 DEF Refuse, NothingToSend, BeginTx, CloseStmt
  <2>2. UNCHANGED <<deadline, pending, net, closed, torn, toCli>>
    <3>1. CASE CloseStmt(c)
      <4>1. closed \/ (deadline # "past" /\ net # "down")
        BY <1>2 DEF TimeFine, NetFine
      <4>2. QED BY <3>1, <4>1 DEF CloseStmt
    <3>2. QED BY <1>11, <3>1 DEF Refuse, NothingToSend, BeginTx
  <2>3. QED BY <1>4, <1>5, <1>6, <1>8, <2>1, <2>2
<1>12. ASSUME NEW c \in Callers, Start(c) \/ StartPrepare(c) PROVE TimeFine' /\ NetFine' /\ CallsFine' /\ WireFine'
  <2>1. TimeFine'
    BY <1>2, <1>12 DEF Start, StartPrepare, Arm, TimeFine
  <2>2. CallsFine'
    BY <1>9, <1>12 DEF Start, StartPrepare
  <2>3. UNCHANGED <<net, closed, torn, toCli>>
    BY <1>12 DEF Start, StartPrepare
  <2>4. QED BY <1>5, <1>6, <2>1, <2>2, <2>3
<1>13. ASSUME NEW c \in Callers, Close(c) PROVE TimeFine' /\ NetFine' /\ CallsFine' /\ WireFine'
  <2>1. TimeFine' /\ CallsFine'
    BY <1>4, <1>8, <1>13 DEF Close
  <2>2. NetFine'
    BY <1>2, <1>13 DEF Close, NetFine
  <2>3. CASE closed
    BY <1>6, <1>13, <2>1, <2>2, <2>3 DEF Close
  <2>4. CASE ~closed
    <3>1. toCli' = <<>>
      BY <1>13, <2>4 DEF Close
    <3>2. QED BY <2>1, <2>2, <3>1 DEF WireFine
  <2>5. QED BY <2>3, <2>4
<1>14. ASSUME NEW c \in Callers, Write(c) PROVE TimeFine' /\ NetFine' /\ CallsFine' /\ WireFine'
  BY <1>4, <1>5, <1>6, <1>9, <1>14 DEF Write
<1>15. ASSUME NEW c \in Callers, Past(c) PROVE ~closed /\ net # "down" /\ deadline # "past"
  BY <1>2, <1>15 DEF ClosedIsLeft, NetFine, TimeFine
<1>16. ASSUME NEW c \in Callers, WriteFails(c) PROVE FALSE
  BY <1>15, <1>16 DEF WriteFails, Past
<1>17. ASSUME NEW c \in Callers, NEW o, o \notin {"net", "late"}, FnReturns(c, o), ctx' = ctx PROVE CallsFine'
  BY <1>2, <1>17 DEF FnReturns, CallsFine, TypeOK
<1>18. ASSUME NEW c \in Callers, EncodeFails(c) PROVE TimeFine' /\ NetFine' /\ CallsFine' /\ WireFine'
  BY <1>4, <1>5, <1>6, <1>17, <1>18 DEF EncodeFails
<1>19. ASSUME NEW c \in Callers, Read(c) PROVE TimeFine' /\ NetFine' /\ CallsFine' /\ WireFine'
  <2>1. toCli # <<>> /\ toCli \in Seq(Packet) /\ Head(toCli) = toCli[1] /\ 1 \in 1 .. Len(toCli) /\ Len(toCli) \in Nat
    BY <1>19 DEF Read, TypeOK
  <2>2. TimeFine' /\ NetFine'
    BY <1>4, <1>5, <1>19 DEF Read
  <2>3. WireFine'
    <3>1. /\ toCli' = Tail(toCli) /\ Len(toCli') = Len(toCli) - 1
          /\ \A i \in 1 .. Len(toCli) - 1 : toCli'[i] = toCli[i + 1] /\ i + 1 \in 1 .. Len(toCli)
      BY <1>19, <2>1 DEF Read
    <3>2. QED BY <1>2, <3>1 DEF WireFine
  <2>4. CallsFine'
    <3>1. CASE Breaks(c)
      BY <1>17, <1>19, <3>1 DEF Breaks, Read
    <3>2. CASE TakePacket(c, toCli[1].body)
      <4>1. CASE pc' = pc /\ out' = out
        BY <1>7, <1>19, <4>1 DEF Read
      <4>2. CASE /\ pc' = [pc EXCEPT ![c] = "end"]
                 /\ \E o : out' = [out EXCEPT ![c] = o] /\ o # "net" /\ (o = "late" => toCli[1].body.kind = "BADERR")
        <5>1. toCli[1].body.kind # "BADERR"
          BY <1>2, <2>1 DEF WireFine
        <5>2. PICK o : out' = [out EXCEPT ![c] = o] /\ o \notin {"net", "late"}
          BY <4>2, <5>1
        <5>3. FnReturns(c, o) /\ ctx' = ctx
          BY <1>19, <4>2, <5>2 DEF FnReturns, Read
        <5>4. QED BY <1>17, <5>2, <5>3
      <4>3. QED BY <3>2, <4>1, <4>2, TakeEnds
    <3>3. QED BY <1>19, <2>1, <3>1, <3>2 DEF Read
  <2>5. QED BY <2>2, <2>3, <2>4
<1>20. ASSUME NEW c \in Callers, ReadFails(c) PROVE FALSE
  BY <1>15, <1>20 DEF ReadFails, Past
<1>21. ASSUME NEW c \in Callers, TimeZoneSyncError(c) PROVE FALSE
  BY <1>21 DEF TimeZoneSyncError
<1>22. ASSUME NEW c \in Callers, FinishCall(c) \/ FinishPrepare(c) PROVE TimeFine' /\ NetFine' /\ CallsFine' /\ WireFine'
  <2>1. TimeFine'
    BY <1>2, <1>22 DEF FinishCall, FinishPrepare, Disarm, TimeFine
  <2>2. UNCHANGED <<net, closed, torn, toCli>> /\ Return(c, Answer(c))
    BY <1>22 DEF FinishCall, FinishPrepare
  <2>3. QED BY <1>5, <1>6, <1>8, <2>1, <2>2
<1>23. ASSUME NEW c \in Callers, FinishQuery(c) PROVE TimeFine' /\ NetFine' /\ CallsFine' /\ WireFine'
  <2>1. TimeFine'
    BY <1>2, <1>23 DEF FinishQuery, Disarm, TimeFine
  <2>2. UNCHANGED <<net, closed, torn, toCli>>
    BY <1>23 DEF FinishQuery
  <2>3. ~ConnErr(c)
    BY <1>2, <1>23 DEF FinishQuery, ConnErr, CallsFine
  <2>4. Return(c, Answer(c))
    BY <1>23, <2>3 DEF FinishQuery
  <2>5. QED BY <1>5, <1>6, <1>8, <2>1, <2>2, <2>4
<1>24. ASSUME NEW c \in Callers, MarkBad(c) PROVE FALSE
  BY <1>2, <1>24 DEF MarkBad, CallsFine
<1>25. ASSUME NEW c \in Callers, FinishReset(c) PROVE TimeFine' /\ NetFine' /\ CallsFine' /\ WireFine'
  <2>1. TimeFine'
    BY <1>2, <1>25 DEF FinishReset, Arm, Disarm, TimeFine
  <2>2. UNCHANGED <<net, closed, torn, toCli>>
    BY <1>25 DEF FinishReset
  <2>3. CASE pc' = [pc EXCEPT ![c] = "write"] /\ UNCHANGED <<ctx, out>>
    BY <1>5, <1>6, <1>9, <2>1, <2>2, <2>3
  <2>4. CASE Return(c, IF Failed(c) THEN "bad" ELSE "ok")
    BY <1>5, <1>6, <1>8, <2>1, <2>2, <2>4
  <2>5. QED BY <1>25, <2>3, <2>4 DEF FinishReset
<1>26. ASSUME NEW c \in Callers, FinishResetStmt(c) PROVE TimeFine' /\ NetFine' /\ CallsFine' /\ WireFine'
  BY <1>4, <1>5, <1>6, <1>8, <1>26 DEF FinishResetStmt
<1>27. ASSUME NEW c \in Callers, FinishRows(c) PROVE TimeFine' /\ NetFine' /\ CallsFine' /\ WireFine'
  <2>1. out[c] # "late"
    BY <1>2, <1>27 DEF FinishRows, CallsFine
  <2>2. QED BY <1>4, <1>5, <1>6, <1>8, <1>27, <2>1 DEF FinishRows
<1>28. ASSUME NEW c \in Callers, NextRows(c) \/ CloseRows(c) PROVE TimeFine' /\ NetFine' /\ CallsFine' /\ WireFine'
  <2>1. CallsFine'
    BY <1>2, <1>28 DEF NextRows, CloseRows, RowsCall, CallsFine, TypeOK
  <2>2. QED BY <1>4, <1>5, <1>6, <1>28, <2>1 DEF NextRows, CloseRows, RowsCall
<1>29. ASSUME NEW c \in Callers, Cancel(c) \/ WatcherWakes(c) PROVE FALSE
  BY <1>2, <1>29 DEF Cancel, WatcherWakes, CallsFine
<1>30. ASSUME WatcherFires \/ Expire \/ Drop PROVE FALSE
  BY <1>2, <1>30 DEF WatcherFires, Expire, Drop, TimeFine
<1>31. ASSUME ServerStarts \/ UNCHANGED vars PROVE TimeFine' /\ NetFine' /\ CallsFine' /\ WireFine'
  BY <1>4, <1>5, <1>6, <1>7, <1>31 DEF ServerStarts, vars
<1>32. ASSUME ServerSends PROVE TimeFine' /\ NetFine' /\ CallsFine' /\ WireFine'
  <2>1. PICK b \in Replies(srv) :
           /\ toCli' = Append(toCli, [req |-> srvAt.req, seq |-> srvAt.seq, st |-> srv, body |-> b])
           /\ fault' = (fault \/ b.kind \in {"JUNK", "BADROW", "BADERR"})
    BY <1>32 DEF ServerSends
  <2>2. b.kind \notin {"JUNK", "BADROW", "BADERR"}
    BY <2>1, Zenon
  <2>3. toCli \in Seq(Packet) /\ Len(toCli) \in Nat
    BY DEF TypeOK
  <2>4. /\ Len(toCli') = Len(toCli) + 1 /\ toCli'[Len(toCli) + 1].body = b
        /\ \A i \in 1 .. Len(toCli) : toCli'[i] = toCli[i]
    BY <2>1, <2>3
  <2>5. \A i \in 1 .. Len(toCli') : i \in 1 .. Len(toCli) \/ i = Len(toCli) + 1
    BY <2>3, <2>4
  <2>6. WireFine'
    BY <1>2, <2>2, <2>4, <2>5 DEF WireFine
  <2>7. QED BY <1>4, <1>5, <1>7, <1>32, <2>6 DEF ServerSends
<1>33. QED
  BY <1>10, <1>11, <1>12, <1>13, <1>14, <1>16, <1>18, <1>19, <1>20, <1>21, <1>22, <1>23, <1>24, <1>25, <1>26, <1>27,
     <1>28, <1>29, <1>30, <1>31, <1>32 DEF Next, ClientStep, TakesLock, CallStep

\* A reader retires the connection for a malformed packet or at the limit of a drain.
LEMMA BreakHasCause ==
    ASSUME TypeOK, Shaped(rd), NEW c \in Callers, NEW b \in Replies(rd.at), TakePacket(c, b), bad' # bad
    PROVE  b.kind \in {"JUNK", "BADROW", "BADERR"} \/ (b.kind \in RowKinds /\ rd.cnt + 1 >= MaxDrain)
<1>1. CASE rd.at.ph \in {"single", "prep"}
  BY <1>1, ReplyCases DEF TakePacket, ReadSingle, ReadPrepared, GoOn, Ends
<1>2. CASE rd.at.ph \in {"first", "xfirst"}
  BY <1>2, ReplyCases DEF TakePacket, ReadFirst, ReadExecuted, GoOn, Ends
<1>3. CASE rd.at.ph \in {"defs", "pdefs"}
  BY <1>3 DEF TakePacket, ReadDefs, GoOn, Ends
<1>4. CASE rd.at.ph = "orow"
  BY <1>4, ReplyCases DEF TakePacket, ReadOutRow, GoOn, Ends
<1>5. CASE rd.at.ph = "rows"
  BY <1>5, ReplyCases DEF TakePacket, DrainRow, NextRow, GoOn, Ends, RowKinds
<1>6. rd.at.ph \in Phases /\ rd.at.ph # "idle"
  BY ReplyCases DEF TypeOK, Reader, Place
<1>7. QED BY <1>1, <1>2, <1>3, <1>4, <1>5, <1>6 DEF Phases

\* Every step that retires a connection has a cause.
LEMMA NextJustified ==
    ASSUME PrepareAlone, TypeOK, TypeOK', LockInv, WireInv, CountInv, ClosedIsLeft, CauseInv, RetiredIsJustified, [Next]_vars
    PROVE  RetiredIsJustified'
<1> SUFFICES ASSUME bad', ~fault', longest' < MaxDrain PROVE FALSE
  <2>1. longest' \in Nat /\ MaxDrain \in Nat
    BY BoundsAssumption DEF TypeOK
  <2>2. QED BY <2>1 DEF RetiredIsJustified
<1> USE DEF lockVars, callVars, readVars, timeVars, wireVars, srvVars
<1>1. longest \in Nat /\ longest' \in Nat /\ MaxDrain \in Nat /\ longest <= longest'
  <2>1. longest \in Nat /\ longest' \in Nat /\ MaxDrain \in Nat /\ srvAt.nrow \in Nat
    BY BoundsAssumption DEF TypeOK
  <2>2. CASE ServerSends
    BY <2>1, <2>2 DEF ServerSends
  <2>3. CASE UNCHANGED vars
    BY <2>1, <2>3 DEF vars
  <2>4. CASE WatcherFires \/ Expire \/ Drop \/ ServerStarts
    <3>1. longest' = longest
      BY <2>4 DEF WatcherFires, Expire, Drop, ServerStarts
    <3>2. QED BY <2>1, <3>1
  <2>5. ASSUME NEW c \in Callers, ClientStep(c) \/ CallStep(c) \/ WatcherWakes(c) PROVE longest' = longest
    BY <2>5 DEF ClientStep, TakesLock, CallStep, Invoke, Refuse, Start, NothingToSend, StartPrepare, BeginTx, CloseStmt, Close, Write,
           WriteFails, EncodeFails, Read, ReadFails, TimeZoneSyncError, FinishCall, FinishQuery, MarkBad, FinishPrepare,
           FinishReset, FinishResetStmt, FinishRows, NextRows, CloseRows, RowsCall, Cancel, WatcherWakes
  <2>6. QED BY <2>1, <2>2, <2>3, <2>4, <2>5 DEF Next
<1>2. ~fault /\ ~bad /\ NoCause
  <2>1. ~fault /\ longest < MaxDrain
    BY <1>1, FaultStays
  <2>2. QED BY <1>1, <2>1 DEF RetiredIsJustified, CauseInv
<1>3. ASSUME bad' = bad PROVE FALSE
  BY <1>2, <1>3
<1>4. ASSUME NEW c \in Callers, NEW o \in Ops, Invoke(c, o) PROVE FALSE
  BY <1>3, <1>4 DEF Invoke
<1>5. ASSUME NEW c \in Callers, \/ Refuse(c) \/ Start(c) \/ NothingToSend(c) \/ StartPrepare(c) \/ BeginTx(c) \/ CloseStmt(c)
                                \/ Close(c) \/ Write(c) \/ WriteFails(c) \/ EncodeFails(c) \/ FinishResetStmt(c) \/ FinishRows(c)
                                \/ NextRows(c) \/ CloseRows(c) \/ Cancel(c) \/ WatcherWakes(c)
      PROVE FALSE
  BY <1>3, <1>5 DEF Refuse, Start, NothingToSend, StartPrepare, BeginTx, CloseStmt, Close, Write, WriteFails, EncodeFails,
                    FinishResetStmt, FinishRows, NextRows, CloseRows, RowsCall, Cancel, WatcherWakes
<1>6. ASSUME NEW c \in Callers, Past(c) PROVE ~closed /\ net # "down" /\ deadline # "past" /\ ctx[c] # "done"
  BY <1>2, <1>6 DEF ClosedIsLeft, NoCause
<1>7. ASSUME NEW c \in Callers, Read(c) PROVE FALSE
  <2>1. toCli # <<>> /\ pc[c] = "read" /\ Head(toCli) = toCli[1] /\ 1 \in 1 .. Len(toCli) /\ Len(toCli) \in Nat
    BY <1>7 DEF Read, TypeOK
  <2>2. Shaped(rd) /\ Stretch /\ RowsCounted
    BY <1>2, <1>6, <2>1 DEF Usable, Past, NoCause, WireInv, CountInv
  <2>3. toCli[1].seq = cseq /\ toCli[1].body \in Replies(rd.at)
    BY <2>1, <2>2 DEF Stretch
  <2>4. TakePacket(c, toCli[1].body)
    BY <1>7, <2>1, <2>3 DEF Read
  <2>5. toCli[1].body.kind \notin {"JUNK", "BADROW", "BADERR"}
    BY <1>2, <2>1 DEF NoCause
  <2>6. toCli[1].body.kind \in RowKinds /\ rd.cnt + 1 >= MaxDrain
    BY <1>3, <2>2, <2>3, <2>4, <2>5, BreakHasCause
  <2>7. RowRun(toCli, 1, 1) /\ 1 \in 0 .. Len(toCli)
    BY <2>1, <2>6 DEF RowRun
  <2>8. rd.cnt + 1 <= longest /\ rd.cnt \in Nat
    BY <2>2, <2>7 DEF RowsCounted, TypeOK, Reader
  <2>9. QED BY <1>1, <2>6, <2>8
<1>8. ASSUME NEW c \in Callers, ReadFails(c) PROVE FALSE
  BY <1>6, <1>8 DEF ReadFails, Past
<1>9. ASSUME NEW c \in Callers, TimeZoneSyncError(c) PROVE FALSE
  BY <1>9 DEF TimeZoneSyncError
<1>10. ASSUME NEW c \in Callers, MarkBad(c) PROVE FALSE
  BY <1>2, <1>10 DEF MarkBad, NoCause
<1>11. ASSUME NEW c \in Callers, FinishCall(c) \/ FinishQuery(c) \/ FinishPrepare(c) PROVE FALSE
  <2>1. pc[c] = "end" /\ Past(c)
    BY <1>11 DEF FinishCall, FinishQuery, FinishPrepare, Past
  <2>2. ~CtxErr(c) /\ ~ConnErr(c)
    BY <1>2, <1>6, <2>1 DEF CtxErr, ConnErr, NoCause
  <2>3. bad' = (bad \/ CtxErr(c) \/ ConnErr(c)) \/ bad' = (bad \/ CtxErr(c))
    BY <1>11 DEF FinishCall, FinishQuery, FinishPrepare
  <2>4. QED BY <1>2, <2>2, <2>3, Zenon
<1>12. ASSUME NEW c \in Callers, FinishReset(c) PROVE FALSE
  <2>1. bad' = (bad \/ Failed(c)) /\ fault' = (fault \/ Failed(c))
    BY <1>12 DEF FinishReset
  <2>2. QED BY <1>2, <2>1, Zenon
<1>13. ASSUME WatcherFires \/ Expire \/ Drop \/ ServerStarts \/ ServerSends \/ UNCHANGED vars PROVE FALSE
  BY <1>3, <1>13 DEF WatcherFires, Expire, Drop, ServerStarts, ServerSends, vars
<1>14. QED
  BY <1>4, <1>5, <1>7, <1>8, <1>9, <1>10, <1>11, <1>12, <1>13 DEF Next, ClientStep, TakesLock, CallStep

LEMMA InitRetire == Init => CountInv /\ ClosedIsLeft /\ CauseInv /\ RetiredIsJustified
<1> SUFFICES ASSUME Init PROVE CountInv /\ ClosedIsLeft /\ CauseInv /\ RetiredIsJustified
  OBVIOUS
<1>1. toCli = <<>> /\ Len(toCli) = 0 /\ rd.cnt = 0 /\ longest = 0 /\ srvAt.nrow = 0
  BY DEF Init, NotReading, Rd
<1>2. RowsCounted
  BY <1>1 DEF RowsCounted
<1>3. QED BY <1>1, <1>2 DEF Init, CountInv, ClosedIsLeft, CauseInv, NoCause, RetiredIsJustified, Past

\* A connection is retired only for a cause: over any calls, contexts and replies, as
\* long as network, clock and contexts do not intervene, no packet is malformed and
\* no result set reaches maxDrainRows, the connection stays in use.  Server errors,
\* however many, never cost a connection.
THEOREM RetiredForCause == ASSUME PrepareAlone, OutParamsFit, SinglesEnd PROVE Spec => []RetiredIsJustified
<1> DEFINE Inv == CountInv /\ ClosedIsLeft /\ CauseInv /\ RetiredIsJustified
           Wire == TypeOK /\ LockInv /\ WireInv
<1>1. Wire /\ Wire' /\ Inv /\ [Next]_vars => Inv'
  <2>1. TypeOK /\ TypeOK' /\ LockInv /\ WireInv /\ CountInv /\ [Next]_vars => CountInv'
    BY NextCount DEF CountInv
  <2>2. QED BY <2>1, NextClosed, NextCause, NextJustified
<1>2. Init => Inv
  BY InitRetire
<1>3. Inv => RetiredIsJustified
  OBVIOUS
<1>4. Spec => []Wire
  BY WireInStep
<1> HIDE DEF Inv, Wire
<1>5. QED BY <1>1, <1>2, <1>3, <1>4, PTL DEF Spec
=============================================================================
