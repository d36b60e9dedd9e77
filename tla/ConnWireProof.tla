--------------------------- MODULE ConnWireProof ---------------------------
(***************************************************************************)
(* Proofs that requests and replies of one connection stay in step: from   *)
(* the invariant WireInv of ConnInv follow the properties of module Conn   *)
(* about the wire and the refinement of module Exchange.                   *)
(***************************************************************************)
EXTENDS ConnProof

(***************************************************************************)
(* What the server may send at each place, and what the readers do with    *)
(* it.                                                                     *)
(***************************************************************************)

\* The packets that may come at each place of a reply.
LEMMA ReplyCases ==
    ASSUME NEW p, NEW b \in Replies(p)
    PROVE  /\ b \in Body
           /\ p.ph # "idle"
           /\ p.ph = "single" => b.kind \in {"OK", "ERR", "JUNK"} /\ (b.more => SingleMore)
           /\ p.ph = "prep" => b.kind \in {"POK", "ERR", "JUNK"}
           /\ p.ph = "first" => \/ b.kind \in {"ERR", "HDR"}
                                \/ p.tail = "no" /\ b.kind \in {"OK", "JUNK"}
           /\ p.ph = "xfirst" => b.kind \in {"OK", "OKOUT", "HDR", "ERR", "JUNK"}
           /\ p.ph \in {"defs", "pdefs"} => b.kind = "DEF"
           /\ p.ph = "orow" => b.kind \in {"ROW", "BADROW"}
           /\ p.ph = "rows" => \/ b.kind = "EOF"
                               \/ p.tail = "no" /\ b.kind \in {"ROW", "BADROW", "ERR", "BADERR"}
           /\ b.more => p.tail = "no"
           /\ b.kind = "HDR" => b.n > 0
BY BoundsAssumption DEF Replies, KindsAt, Body

\* The client skips as many metadata packets as the server sends.
LEMMA MetadataSkipped == ASSUME NEW n \in Nat PROVE SkipMetadata(n) = Metadata(n)
BY DEF SkipMetadata, Metadata

\* The readers that code starts with are shaped.
LEMMA ShapedReaders ==
    /\ Shaped(NotReading) /\ NotReading.at = Idle /\ NotReading.cnt = 0
    /\ Shaped(DrainFirst) /\ DrainFirst.at = At("first") /\ DrainFirst.cnt = 0 /\ DrainFirst.mode = "drain"
    /\ \A m \in {"next", "drain"} : /\ Shaped(Rd(At("rows"), m)) /\ Rd(At("rows"), m).at = At("rows")
                                    /\ Rd(At("rows"), m).mode = m /\ Rd(At("rows"), m).cnt = 0
BY DEF Shaped, NotReading, DrainFirst, Rd, Idle, At, Pl

\* The reader of a request reads as the command asks.
LEMMA ShapedRequest ==
    ASSUME NEW o \in Ops, o \in CheckedOps \cup {"prepare"}
    PROVE  /\ Shaped(ReaderFor(o)) /\ ReaderFor(o).cnt = 0 /\ ReaderFor(o).mode # "next"
           /\ ReaderFor(o).mode = "stream" => o = "query"
<1>1. /\ o = "query" => ReaderFor(o) = Rd(At("first"), "stream")
      /\ o \in {"ping", "bulk", "resetStmt"} => ReaderFor(o) = Rd(At("single"), "one")
      /\ o = "prepare" => ReaderFor(o) = Rd(At("prep"), "one")
      /\ o \in {"exec", "finish", "reset"} => ReaderFor(o) = Rd(At("first"), "drain")
      /\ o = "execout" => ReaderFor(o) = Rd(At("xfirst"), "drain")
  <2>1. /\ o = "query" => ReplyTo(o) = At("first")
        /\ o \in {"ping", "bulk", "resetStmt"} => ReplyTo(o) = At("single")
        /\ o = "prepare" => ReplyTo(o) = At("prep")
        /\ o \in {"exec", "finish", "reset"} => ReplyTo(o) = At("first")
        /\ o = "execout" => ReplyTo(o) = At("xfirst")
    BY DEF ReplyTo
  <2>2. QED BY <2>1 DEF ReaderFor
<1>2. QED BY <1>1 DEF CheckedOps, Shaped, Rd, At, Pl

\* Taking a packet that may come at the reader's place takes the reader to the place
\* where the server went after sending it, unless the connection is retired; a call
\* ends with its reply, or with rows for the caller.
LEMMA TakeInStep ==
    ASSUME TypeOK, OutParamsFit, SinglesEnd, NEW c \in Callers, NEW b \in Replies(rd.at),
           Shaped(rd), pc[c] = "read", TakePacket(c, b), ~bad'
    PROVE  /\ rd'.at = After(rd.at, b)
           /\ Shaped(rd')
           /\ rd'.cnt # 0 => b.kind \in RowKinds /\ rd'.cnt <= rd.cnt + 1
           /\ \/ /\ pc' = pc /\ out' = out
                 /\ rd'.mode \in {rd.mode, "drain", "out"}
              \/ /\ pc' = [pc EXCEPT ![c] = "end"]
                 /\ \E o \in Outcomes :
                       /\ out' = [out EXCEPT ![c] = o]
                       /\ o = "rows" => rd.mode = "stream"
                       /\ o = "row" => rd.mode = "next"
                       /\ rd'.at = IF o \in {"rows", "row"} THEN At("rows") ELSE Idle
                       /\ o # "net" /\ (o = "late" => b.kind = "BADERR")
<1> DEFINE Goes == /\ pc' = pc /\ out' = out
                   /\ rd'.mode \in {rd.mode, "drain", "out"}
           Stops == /\ pc' = [pc EXCEPT ![c] = "end"]
                    /\ \E o \in Outcomes :
                          /\ out' = [out EXCEPT ![c] = o]
                          /\ o = "rows" => rd.mode = "stream"
                          /\ o = "row" => rd.mode = "next"
                          /\ rd'.at = IF o \in {"rows", "row"} THEN At("rows") ELSE Idle
                          /\ o # "net" /\ (o = "late" => b.kind = "BADERR")
           Matches == /\ rd'.at = After(rd.at, b)
                      /\ Shaped(rd')
                      /\ rd'.cnt # 0 => b.kind \in RowKinds /\ rd'.cnt <= rd.cnt + 1
                      /\ Goes \/ Stops
<1>1. /\ rd \in Reader /\ rd.at \in Place /\ rd.at.tail \in Tails /\ rd.at.left \in Nat /\ rd.at.ph \in Phases
      /\ rd.cnt \in Nat /\ rd.mode \in Modes /\ b \in Body /\ b.more \in BOOLEAN /\ b.n \in Nat /\ b.m \in Nat
  BY ReplyCases DEF TypeOK, Reader, Place, Body
<1>2. ~Breaks(c)
  BY DEF Breaks, MarkProtocolError
<1>3. ASSUME NEW o \in Outcomes, Ends(c, o), After(rd.at, b) = Idle, o \notin {"rows", "row", "net"}, o = "late" => b.kind = "BADERR"
      PROVE  Matches
  <2>1. rd' = NotReading /\ pc' = [pc EXCEPT ![c] = "end"] /\ out' = [out EXCEPT ![c] = o]
    BY <1>3 DEF Ends, FnReturns
  <2>2. rd'.at = Idle /\ Shaped(rd') /\ rd'.cnt = 0
    <3>1. Shaped(rd') = Shaped(NotReading)
      BY <2>1 DEF Shaped
    <3>2. QED BY <2>1, <3>1, ShapedReaders
  <2>3. Stops
    BY <1>3, <2>1, <2>2
  <2>4. QED BY <1>3, <2>2, <2>3
<1>4. ASSUME GoOn(DrainFirst), After(rd.at, b) = At("first") PROVE Matches
  <2>1. rd' = DrainFirst /\ pc' = pc /\ out' = out
    BY <1>4 DEF GoOn
  <2>2. Shaped(rd') = Shaped(DrainFirst)
    BY <2>1 DEF Shaped
  <2>3. QED BY <1>4, <2>1, <2>2, ShapedReaders
<1>5. {"ok", "srv", "late"} \subseteq Outcomes
  BY DEF Outcomes
<1>6. CASE rd.at.ph = "single"
  <2>1. ReadSingle(c, b) /\ rd.at.tail = "no"
    BY <1>6, <1>1 DEF TakePacket, Shaped
  <2>2. b.kind \in {"OK", "ERR"} /\ ~b.more
    BY <1>2, <1>6, <2>1, ReplyCases DEF ReadSingle, SinglesEnd
  <2>3. After(rd.at, b) = Idle
    BY <2>1, <2>2, AfterCases
  <2>4. QED BY <1>2, <1>3, <1>5, <2>1, <2>2, <2>3 DEF ReadSingle
<1>7. CASE rd.at.ph = "prep"
  <2>1. ReadPrepared(c, b)
    BY <1>7, <1>1 DEF TakePacket
  <2>2. b.kind \in {"POK", "ERR"}
    BY <1>2, <1>7, <2>1, ReplyCases DEF ReadPrepared
  <2>3. CASE b.kind = "ERR"
    BY <1>2, <1>3, <1>5, <2>1, <2>3, AfterCases DEF ReadPrepared
  <2>4. CASE b.kind = "POK" /\ b.n + b.m = 0
    BY <1>2, <1>3, <1>5, <2>1, <2>4, AfterCases DEF ReadPrepared
  <2>5. CASE b.kind = "POK" /\ b.n + b.m # 0
    <3>1. After(rd.at, b) = Pl("pdefs", SkipMetadata(b.n) + SkipMetadata(b.m), "no")
      BY <1>1, <2>5, AfterCases, MetadataSkipped
    <3>2. GoOn(Rd(Pl("pdefs", SkipMetadata(b.n) + SkipMetadata(b.m), "no"), "one"))
      BY <2>1, <2>5 DEF ReadPrepared
    <3>3. rd.mode = "one"
      BY <1>7 DEF Shaped
    <3>4. QED BY <3>1, <3>2, <3>3 DEF GoOn, Rd, Pl, Shaped
  <2>6. QED BY <2>2, <2>3, <2>4, <2>5
<1>8. ASSUME ReadFirst(c, b), rd.at.ph \in {"first", "xfirst"}, b.kind # "OKOUT" PROVE Matches
  <2>1. b.kind \in {"OK", "ERR", "HDR"} /\ (b.kind = "OK" => rd.at.tail = "no")
    BY <1>2, <1>8, ReplyCases DEF ReadFirst, Shaped
  <2>2. CASE b.kind = "OK" /\ b.more
    BY <1>4, <1>8, <2>2, AfterCases DEF ReadFirst, MoreResults
  <2>3. CASE b.kind = "OK" /\ ~b.more
    <3>1. After(rd.at, b) = Idle
      BY <2>1, <2>3, AfterCases
    <3>2. QED BY <1>3, <1>5, <1>8, <2>3, <3>1 DEF ReadFirst, MoreResults
  <2>4. CASE b.kind = "ERR"
    BY <1>3, <1>5, <1>8, <2>4, AfterCases DEF ReadFirst
  <2>5. CASE b.kind = "HDR"
    <3>1. After(rd.at, b) = Pl("defs", SkipMetadata(b.n), rd.at.tail)
      BY <1>1, <2>5, AfterCases, MetadataSkipped
    <3>2. GoOn([rd EXCEPT !.at = Pl("defs", SkipMetadata(b.n), rd.at.tail)])
      BY <1>8, <2>5 DEF ReadFirst
    <3>3. QED BY <1>1, <1>8, <3>1, <3>2 DEF GoOn, Pl, Shaped, Reader
  <2>6. QED BY <2>1, <2>2, <2>3, <2>4, <2>5
<1>9. CASE rd.at.ph = "first"
  <2>1. b.kind # "OKOUT"
    BY <1>9, ReplyCases
  <2>2. QED BY <1>1, <1>8, <1>9, <2>1 DEF TakePacket
<1>10. CASE rd.at.ph = "xfirst"
  <2>1. ReadExecuted(c, b)
    BY <1>10, <1>1 DEF TakePacket
  <2>2. CASE b.kind = "OKOUT"
    <3>1. After(rd.at, b) = Pl("first", 0, IF b.more THEN "more" ELSE "last")
      BY <2>2, AfterCases
    <3>2. GoOn(Rd(Pl("first", 0, IF b.more THEN "more" ELSE "last"), "out"))
      BY <2>1, <2>2 DEF ReadExecuted
    <3>3. "execout" \in Ops
      BY <1>10 DEF Shaped
    <3>4. QED BY <1>1, <3>1, <3>2, <3>3 DEF GoOn, Rd, Pl, Shaped
  <2>3. CASE b.kind # "OKOUT"
    BY <1>8, <1>10, <2>1, <2>3 DEF ReadExecuted
  <2>4. QED BY <2>2, <2>3
<1>11. CASE rd.at.ph \in {"defs", "pdefs"}
  <2>1. ReadDefs(c) /\ b.kind = "DEF"
    BY <1>11, <1>1, ReplyCases DEF TakePacket
  <2>2. After(rd.at, b) = IF rd.at.left > 1 THEN Pl(rd.at.ph, rd.at.left - 1, rd.at.tail)
                          ELSE IF rd.at.ph = "pdefs" THEN Idle
                          ELSE Pl(IF rd.at.tail = "no" THEN "rows" ELSE "orow", 0, rd.at.tail)
    BY <2>1, AfterCases
  <2>3. CASE rd.at.left > 1
    <3>1. GoOn([rd EXCEPT !.at = Pl(rd.at.ph, rd.at.left - 1, rd.at.tail)])
      BY <1>1, <2>1, <2>3 DEF ReadDefs
    <3>2. QED BY <1>1, <1>11, <2>2, <2>3, <3>1 DEF GoOn, Pl, Shaped, Reader
  <2>4. CASE rd.at.left <= 1 /\ rd.at.ph = "pdefs"
    <3>1. rd.mode = "one"
      BY <2>4 DEF Shaped
    <3>2. Ends(c, "ok") /\ After(rd.at, b) = Idle
      BY <1>1, <2>1, <2>2, <2>4, <3>1 DEF ReadDefs
    <3>3. QED BY <1>3, <1>5, <3>2
  <2>5. CASE rd.at.left <= 1 /\ rd.at.ph = "defs" /\ rd.mode = "stream"
    <3>1. rd' = Rd(At("rows"), "next") /\ FnReturns(c, "rows")
      BY <1>1, <2>1, <2>5 DEF ReadDefs
    <3>2. After(rd.at, b) = At("rows")
      BY <1>1, <2>2, <2>5 DEF Shaped, At
    <3>3. rd'.at = At("rows") /\ Shaped(rd') /\ rd'.cnt = 0
      BY <3>1 DEF Shaped, Rd, At, Pl
    <3>4. Stops
      BY <2>5, <3>1, <3>3 DEF FnReturns, Outcomes
    <3>5. QED BY <3>2, <3>3, <3>4
  <2>6. CASE rd.at.left <= 1 /\ rd.at.ph = "defs" /\ rd.mode = "out"
    <3>1. GoOn([rd EXCEPT !.at = Pl("orow", 0, rd.at.tail)])
      BY <1>1, <2>1, <2>6 DEF ReadDefs
    <3>2. After(rd.at, b) = Pl("orow", 0, rd.at.tail)
      BY <1>1, <2>2, <2>6 DEF Shaped
    <3>3. QED BY <1>1, <2>6, <3>1, <3>2 DEF GoOn, Pl, Shaped, Reader
  <2>7. CASE rd.at.left <= 1 /\ rd.at.ph = "defs" /\ rd.mode = "drain"
    <3>1. GoOn([rd EXCEPT !.at = Pl("rows", 0, rd.at.tail)])
      BY <1>1, <2>1, <2>7 DEF ReadDefs
    <3>2. After(rd.at, b) = Pl("rows", 0, rd.at.tail)
      BY <1>1, <2>2, <2>7 DEF Shaped
    <3>3. QED BY <1>1, <2>7, <3>1, <3>2 DEF GoOn, Pl, Shaped, Reader
  <2>8. rd.at.ph = "defs" => rd.mode \in {"stream", "drain", "out"}
    BY DEF Shaped
  <2>9. QED BY <1>1, <1>11, <2>3, <2>4, <2>5, <2>6, <2>7, <2>8
<1>12. CASE rd.at.ph = "orow"
  <2>1. ReadOutRow(c, b) /\ "execout" \in Ops
    BY <1>12, <1>1 DEF TakePacket, Shaped
  <2>2. b.kind = "ROW" /\ ~AssignFails
    BY <1>2, <2>1 DEF ReadOutRow, OutParamsFit
  <2>3. GoOn([at |-> Pl("rows", 0, rd.at.tail), mode |-> "drain", cnt |-> 0, fail |-> FALSE])
    BY <2>1, <2>2, FlagsAssumption DEF ReadOutRow
  <2>4. After(rd.at, b) = Pl("rows", 0, rd.at.tail)
    BY <2>2, AfterCases
  <2>5. QED BY <1>12, <2>1, <2>3, <2>4 DEF GoOn, Pl, Shaped
<1>13. CASE rd.at.ph = "rows"
  <2>1. rd.at = Pl("rows", 0, rd.at.tail) /\ (rd.mode = "drain" \/ (rd.mode = "next" /\ rd.at.tail = "no")) /\ ~rd.fail
    BY <1>1, <1>13 DEF Shaped, Pl, Place
  <2>2. CASE rd.mode = "drain"
    <3>1. DrainRow(c, b)
      BY <1>13, <2>2 DEF TakePacket
    <3>2. CASE b.kind = "EOF" /\ (b.more \/ rd.at.tail = "more")
      <4>1. GoOn(DrainFirst)
        BY <2>1, <3>1, <3>2 DEF DrainRow, MoreResults
      <4>2. QED BY <1>4, <3>2, <4>1, AfterCases
    <3>3. CASE b.kind = "EOF" /\ ~(b.more \/ rd.at.tail = "more")
      <4>1. Ends(c, "ok")
        BY <2>1, <3>1, <3>3 DEF DrainRow, MoreResults
      <4>2. QED BY <1>3, <1>5, <3>3, <4>1, AfterCases
    <3>4. CASE b.kind = "ERR"
      BY <1>3, <1>5, <3>1, <3>4, AfterCases DEF DrainRow
    <3>5. CASE b.kind \in RowKinds
      <4>1. GoOn([rd EXCEPT !.cnt = rd.cnt + 1])
        BY <1>2, <3>1, <3>5 DEF DrainRow, RowKinds
      <4>2. After(rd.at, b) = rd.at
        BY <2>1, <3>5, AfterCases DEF RowKinds
      <4>3. rd' = [rd EXCEPT !.cnt = rd.cnt + 1]
        BY <4>1 DEF GoOn
      <4>4. rd'.at = rd.at /\ rd'.mode = rd.mode /\ rd'.cnt = rd.cnt + 1 /\ rd'.fail = rd.fail
        BY <1>1, <4>3 DEF Reader
      <4>5. Shaped(rd')
        BY <1>13, <4>4 DEF Shaped
      <4>6. QED BY <1>1, <3>5, <4>1, <4>2, <4>4, <4>5 DEF GoOn
    <3>6. b.kind \in {"EOF", "ERR", "ROW", "BADROW"}
      BY <1>2, <3>1 DEF DrainRow
    <3>7. QED BY <3>2, <3>3, <3>4, <3>5, <3>6 DEF RowKinds
  <2>3. CASE rd.mode # "drain"
    <3>1. NextRow(c, b) /\ rd.mode = "next" /\ rd.at = At("rows")
      BY <1>13, <2>1, <2>3 DEF TakePacket, At
    <3>2. CASE b.kind = "ROW"
      <4>1. FnReturns(c, "row") /\ rd' = rd
        BY <3>1, <3>2 DEF NextRow
      <4>2. After(rd.at, b) = rd.at
        BY <2>1, <3>2, AfterCases
      <4>3. Shaped(rd')
        BY <4>1 DEF Shaped
      <4>4. Stops
        BY <3>1, <4>1 DEF FnReturns, Outcomes
      <4>5. rd'.at = After(rd.at, b) /\ (rd'.cnt # 0 => b.kind \in RowKinds /\ rd'.cnt <= rd.cnt + 1)
        BY <1>1, <3>2, <4>1, <4>2 DEF RowKinds
      <4>6. QED BY <4>3, <4>4, <4>5
    <3>3. CASE b.kind = "EOF" /\ b.more
      BY <1>4, <3>1, <3>3, AfterCases DEF NextRow, MoreResults
    <3>4. CASE b.kind = "EOF" /\ ~b.more
      <4>1. After(rd.at, b) = Idle
        BY <2>1, <2>3, <3>4, AfterCases
      <4>2. QED BY <1>3, <1>5, <3>1, <3>4, <4>1 DEF NextRow, MoreResults
    <3>5. CASE b.kind = "ERR"
      BY <1>3, <1>5, <3>1, <3>5, AfterCases DEF NextRow
    <3>6. CASE b.kind = "BADERR"
      BY <1>3, <1>5, <3>1, <3>6, AfterCases DEF NextRow
    <3>7. b.kind \in {"ROW", "EOF", "ERR", "BADERR"}
      BY <1>2, <3>1 DEF NextRow
    <3>8. QED BY <3>2, <3>3, <3>4, <3>5, <3>6, <3>7
  <2>4. QED BY <2>2, <2>3
<1>14. rd.at.ph # "idle"
  BY ReplyCases
<1>15. QED BY <1>1, <1>6, <1>7, <1>9, <1>10, <1>11, <1>12, <1>13, <1>14 DEF Phases

(***************************************************************************)
(* Who is reading.                                                         *)
(***************************************************************************)

\* One call at a time is past the lock.
LEMMA OnePast ==
    ASSUME PrepareAlone, LockInv, NEW c \in Callers, NEW d \in Callers, Past(c), Past(d)
    PROVE  c = d
BY CallersAssumption DEF LockInv, CallsInPlace, LockHeld, PrepareIsAlone, Past

\* A connection that is out of use stays out of use.
LEMMA StaysRetired == TypeOK /\ [Next]_vars /\ Usable' => Usable
<1> SUFFICES ASSUME TypeOK, [Next]_vars, ~Usable PROVE ~Usable'
  OBVIOUS
<1> USE DEF lockVars, callVars, readVars, timeVars, wireVars, srvVars
<1>1. ASSUME closed => closed', bad => bad', torn \subseteq torn' PROVE ~Usable'
  BY <1>1 DEF Usable
<1>2. ASSUME UNCHANGED <<closed, bad, torn>> PROVE ~Usable'
  BY <1>2 DEF Usable
<1>3. ASSUME NEW c \in Callers, NEW o \in Ops, Invoke(c, o) PROVE ~Usable'
  BY <1>2, <1>3 DEF Invoke
<1>4. ASSUME NEW c \in Callers, Refuse(c) \/ Start(c) \/ NothingToSend(c) \/ StartPrepare(c) \/ BeginTx(c)
      PROVE  ~Usable'
  BY <1>2, <1>4 DEF Refuse, Start, NothingToSend, StartPrepare, BeginTx
<1>5. ASSUME NEW c \in Callers, Close(c) PROVE ~Usable'
  BY <1>5 DEF Close, Usable
<1>6. ASSUME NEW c \in Callers, Write(c) \/ EncodeFails(c) PROVE ~Usable'
  BY <1>2, <1>6 DEF Write, EncodeFails
<1>7. ASSUME NEW c \in Callers, CloseStmt(c) \/ WriteFails(c) PROVE ~Usable'
  <2>1. torn \subseteq torn'
    BY <1>7 DEF CloseStmt, WriteFails, CutOff
  <2>2. QED BY <1>1, <1>7, <2>1 DEF CloseStmt, WriteFails
<1>8. ASSUME NEW c \in Callers, Read(c) PROVE ~Usable'
  <2>1. bad' = bad \/ bad' = TRUE
    BY <1>8 DEF Read, Breaks, MarkProtocolError, TakePacket, ReadSingle, ReadPrepared, ReadFirst, ReadExecuted, ReadDefs,
                ReadOutRow, DrainRow, NextRow, GoOn, Ends
  <2>2. QED BY <1>1, <1>8, <2>1 DEF Read
<1>9. ASSUME NEW c \in Callers, ReadFails(c) \/ TimeZoneSyncError(c) \/ MarkBad(c) PROVE ~Usable'
  BY <1>9 DEF ReadFails, TimeZoneSyncError, MarkBad, Breaks, MarkProtocolError, Usable
<1>10. ASSUME NEW c \in Callers, FinishCall(c) \/ FinishQuery(c) \/ FinishPrepare(c) \/ FinishReset(c) PROVE ~Usable'
  BY <1>1, <1>10 DEF FinishCall, FinishQuery, FinishPrepare, FinishReset
<1>11. ASSUME NEW c \in Callers, FinishResetStmt(c) \/ FinishRows(c) \/ NextRows(c) \/ CloseRows(c) \/ Cancel(c) \/ WatcherWakes(c)
       PROVE  ~Usable'
  BY <1>2, <1>11 DEF FinishResetStmt, FinishRows, NextRows, CloseRows, RowsCall, Cancel, WatcherWakes
<1>12. ASSUME WatcherFires \/ Expire \/ Drop \/ ServerStarts \/ ServerSends \/ UNCHANGED vars PROVE ~Usable'
  BY <1>2, <1>12 DEF WatcherFires, Expire, Drop, ServerStarts, ServerSends, vars
<1>13. QED BY <1>3, <1>4, <1>5, <1>6, <1>7, <1>8, <1>9, <1>10, <1>11, <1>12 DEF Next, ClientStep, TakesLock, CallStep

\* Every step of a usable connection leaves the reader where the calls expect it.
\* Steps <1>1 to <1>4 are the ways in which the reader stays where it is.
LEMMA NextReader ==
    ASSUME PrepareAlone, OutParamsFit, SinglesEnd, TypeOK, LockInv, WireInv, [Next]_vars, Usable'
    PROVE  Shaped(rd') /\ ReaderInPlace'
<1> DEFINE Goal == Shaped(rd') /\ ReaderInPlace'
<1> USE DEF lockVars, callVars, readVars, timeVars, wireVars, srvVars
<1>0. Usable /\ Shaped(rd) /\ ReaderInPlace /\ Stretch /\ ServerInPlace
  BY StaysRetired DEF WireInv
<1>1. ASSUME UNCHANGED <<mu, pc, op, out, rd>> PROVE Goal
  BY <1>0, <1>1 DEF Shaped, ReaderInPlace, Quiet, RowsAtRest, Past
<1>2. ASSUME NEW c \in Callers, pc[c] \in {"idle", "lock"}, UNCHANGED <<mu, rd>>,
             NEW o \in Ops \cup {"none"}, NEW p \in {"idle", "lock"}, NEW r,
             pc' = [pc EXCEPT ![c] = p], op' = [op EXCEPT ![c] = o], out' = [out EXCEPT ![c] = r]
      PROVE Goal
  <2>1. \A d \in Callers : d # c => pc'[d] = pc[d] /\ op'[d] = op[d] /\ out'[d] = out[d]
    BY <1>2 DEF TypeOK
  <2>2. pc'[c] \in {"idle", "lock"}
    BY <1>2 DEF TypeOK
  <2>3. Quiet' => Quiet
    BY <1>2, <2>1, <2>2 DEF Quiet
  <2>4. RowsAtRest' => RowsAtRest
    BY <1>2, <2>1, <2>2 DEF RowsAtRest, Past
  <2>5. \A d \in Callers : /\ pc'[d] = "write" => rd.at = Idle
                           /\ pc'[d] = "read" /\ rd.mode = "stream" => op'[d] = "query"
                           /\ pc'[d] = "read" /\ rd.mode = "next" => op'[d] = "next"
                           /\ pc'[d] = "end" => rd.at = IF out'[d] \in {"rows", "row"} THEN At("rows") ELSE Idle
                           /\ pc'[d] = "end" /\ out'[d] = "rows" => op'[d] = "query"
                           /\ pc'[d] = "end" /\ out'[d] = "row" => op'[d] = "next"
    BY <1>0, <2>1, <2>2 DEF ReaderInPlace
  <2>6. Shaped(rd')
    BY <1>0, <1>2 DEF Shaped
  <2>7. QED BY <1>0, <1>2, <2>3, <2>4, <2>5, <2>6 DEF ReaderInPlace
<1>3. ASSUME NEW c \in Callers, pc[c] = "lock", rd.at = Idle, op[c] \in CheckedOps \cup {"prepare"},
             mu' # RowsHold, UNCHANGED <<rd, op, out>>, pc' = [pc EXCEPT ![c] = "write"],
             \A d \in Callers : ~Past(d)
      PROVE  Goal
  <2>1. \A d \in Callers : pc'[d] \notin {"read", "end"}
    BY <1>3 DEF TypeOK, Past
  <2>2. Shaped(rd')
    BY <1>0, <1>3 DEF Shaped
  <2>3. QED BY <1>3, <2>1, <2>2 DEF ReaderInPlace, RowsAtRest
<1>4. ASSUME NEW c \in Callers, pc[c] = "end", UNCHANGED rd, mu' \in {Unlocked, RowsHold},
             mu' = RowsHold => rd.at = At("rows"), mu' = Unlocked => rd.at = Idle,
             pc' \in {[pc EXCEPT ![c] = "idle"], [pc EXCEPT ![c] = "mark"]}
      PROVE  Goal
  <2>1. \A d \in Callers : ~Past(d)'
    <3>1. \A d \in Callers : Past(d) => d = c
      BY <1>4, OnePast DEF Past
    <3>2. QED BY <1>4, <3>1 DEF TypeOK, Past
  <2>2. Shaped(rd')
    BY <1>0, <1>4 DEF Shaped
  <2>3. QED BY <1>4, <2>1, <2>2, CallersAssumption DEF ReaderInPlace, Quiet, RowsAtRest, Past
<1>5. ASSUME NEW c \in Callers, NEW o \in Ops, Invoke(c, o) PROVE Goal
  <2>1. out' = [out EXCEPT ![c] = out[c]]
    BY <1>5 DEF Invoke, TypeOK
  <2>2. QED BY <1>2, <1>5, <2>1 DEF Invoke, Gate
<1>6. ASSUME NEW c \in Callers, Refuse(c) \/ NothingToSend(c) \/ BeginTx(c) \/ CloseStmt(c) PROVE Goal
  <2>1. pc[c] = "lock" /\ UNCHANGED <<mu, rd>> /\ \E r : Return(c, r)
    BY <1>6 DEF Refuse, NothingToSend, BeginTx, CloseStmt, CanLock
  <2>2. QED BY <1>2, <2>1 DEF Return
<1>7. ASSUME NEW c \in Callers, Start(c) PROVE Goal
  <2>1. \A d \in Callers : ~Past(d)
    BY <1>7, CallersAssumption DEF Start, CanLock, LockInv, CallsInPlace, LockHeld, PrepareIsAlone, Past
  <2>2. Quiet
    BY <1>7, <2>1 DEF Start, CanLock, Quiet, Past, TypeOK
  <2>3. QED BY <1>0, <1>3, <1>7, <2>1, <2>2, CallersAssumption DEF ReaderInPlace, Start, CanLock
<1>8. ASSUME NEW c \in Callers, StartPrepare(c) PROVE Goal
  <2>1. mu = Unlocked /\ \A d \in Callers : d # c => pc[d] = "idle"
    BY <1>8 DEF StartPrepare, LockInv, PrepareIsAlone
  <2>2. Quiet /\ \A d \in Callers : ~Past(d)
    BY <1>8, <2>1 DEF StartPrepare, Quiet, Past
  <2>3. QED BY <1>0, <1>3, <1>8, <2>1, <2>2, CallersAssumption DEF ReaderInPlace, StartPrepare
<1>9. ASSUME NEW c \in Callers, Close(c) \/ MarkBad(c) \/ ReadFails(c) \/ TimeZoneSyncError(c) PROVE FALSE
  BY <1>9 DEF Close, MarkBad, ReadFails, TimeZoneSyncError, Breaks, MarkProtocolError, Usable
<1>10. ASSUME NEW c \in Callers, pc[c] \in {"write", "read"}
       PROVE  /\ \A d \in Callers : d # c => ~Past(d)
              /\ ~Quiet /\ ~RowsAtRest
  <2>1. \A d \in Callers : d # c => ~Past(d)
    BY <1>10, OnePast DEF Past
  <2>2. Past(c) /\ op[c] \in CheckedOps \cup RowsOps \cup {"prepare"}
    BY <1>10 DEF LockInv, CallsInPlace, Past
  <2>3. QED BY <1>10, <2>1, <2>2, CallersAssumption DEF LockInv, LockHeld, PrepareIsAlone, Quiet, RowsAtRest, Past
<1>11. ASSUME NEW c \in Callers, pc[c] \in {"write", "read"}, UNCHANGED <<mu, op>>, Shaped(rd'),
              \A d \in Callers : d # c => pc'[d] = pc[d] /\ out'[d] = out[d],
              /\ pc'[c] = "read" /\ rd'.mode = "stream" => op[c] = "query"
              /\ pc'[c] = "read" /\ rd'.mode = "next" => op[c] = "next"
              /\ pc'[c] = "end" => rd'.at = IF out'[c] \in {"rows", "row"} THEN At("rows") ELSE Idle
              /\ pc'[c] = "end" /\ out'[c] = "rows" => op[c] = "query"
              /\ pc'[c] = "end" /\ out'[c] = "row" => op[c] = "next",
              pc'[c] \in {"read", "end"}
       PROVE  Goal
  <2>1. \A d \in Callers : d # c => ~Past(d)'
    BY <1>10, <1>11 DEF Past
  <2>2. Past(c) /\ op[c] \in CheckedOps \cup RowsOps \cup {"prepare"}
    BY <1>11 DEF LockInv, CallsInPlace, Past
  <2>3. ~Quiet' /\ ~RowsAtRest'
    BY <1>11, <2>2, CallersAssumption DEF LockInv, LockHeld, PrepareIsAlone, Quiet, RowsAtRest, Past
  <2>4. QED BY <1>11, <2>1, <2>3 DEF ReaderInPlace, Past
<1>12. ASSUME NEW c \in Callers, Write(c) PROVE Goal
  <2>1. op[c] \in Ops /\ op[c] \in CheckedOps \cup {"prepare"}
    BY <1>12 DEF Write, LockInv, CallsInPlace, CheckedOps, RowsOps
  <2>2. /\ rd' = ReaderFor(op[c])
        /\ Shaped(ReaderFor(op[c])) /\ ReaderFor(op[c]).mode # "next"
        /\ ReaderFor(op[c]).mode = "stream" => op[c] = "query"
    BY <1>12, <2>1, ShapedRequest DEF Write
  <2>3. Shaped(rd')
    BY <2>2 DEF Shaped
  <2>4. QED BY <1>11, <1>12, <2>2, <2>3 DEF Write, TypeOK
<1>13. ASSUME NEW c \in Callers, WriteFails(c) \/ EncodeFails(c) PROVE Goal
  <2>1. rd' = rd /\ rd.at = Idle /\ pc[c] = "write"
    BY <1>0, <1>13 DEF WriteFails, EncodeFails, ReaderInPlace
  <2>2. /\ pc'[c] = "end" /\ out'[c] \in {"net", "err"}
        /\ \A d \in Callers : d # c => pc'[d] = pc[d] /\ out'[d] = out[d]
    BY <1>13 DEF WriteFails, EncodeFails, FnReturns, TypeOK
  <2>3. Shaped(rd')
    BY <1>0, <2>1 DEF Shaped
  <2>4. QED BY <1>11, <1>13, <2>1, <2>2, <2>3 DEF WriteFails, EncodeFails
<1>14. ASSUME NEW c \in Callers, Read(c) PROVE Goal
  <2>1. toCli # <<>> /\ pc[c] = "read" /\ Head(toCli) = toCli[1] /\ 1 \in 1 .. Len(toCli)
    BY <1>14 DEF Read, TypeOK
  <2>2. ~Breaks(c) /\ ~bad'
    BY DEF Breaks, MarkProtocolError, Usable
  <2>3. TakePacket(c, toCli[1].body)
    BY <1>14, <2>1, <2>2 DEF Read
  <2>4. toCli[1].body \in Replies(rd.at)
    BY <1>0, <2>1 DEF Stretch
  <2>5. /\ Shaped(rd')
        /\ \/ /\ pc' = pc /\ out' = out
              /\ rd'.mode \in {rd.mode, "drain", "out"}
           \/ /\ pc' = [pc EXCEPT ![c] = "end"]
              /\ \E o \in Outcomes :
                    /\ out' = [out EXCEPT ![c] = o]
                    /\ o = "rows" => rd.mode = "stream"
                    /\ o = "row" => rd.mode = "next"
                    /\ rd'.at = IF o \in {"rows", "row"} THEN At("rows") ELSE Idle
    BY <1>0, <2>1, <2>2, <2>3, <2>4, TakeInStep
  <2>6. (rd.mode = "stream" => op[c] = "query") /\ (rd.mode = "next" => op[c] = "next") /\ UNCHANGED <<mu, op>>
    BY <1>0, <1>14, <2>1 DEF ReaderInPlace, Read
  <2>7. CASE /\ pc' = pc /\ out' = out
             /\ rd'.mode \in {rd.mode, "drain", "out"}
    BY <1>11, <2>1, <2>5, <2>6, <2>7
  <2>8. CASE /\ pc' = [pc EXCEPT ![c] = "end"]
             /\ \E o \in Outcomes :
                   /\ out' = [out EXCEPT ![c] = o]
                   /\ o = "rows" => rd.mode = "stream"
                   /\ o = "row" => rd.mode = "next"
                   /\ rd'.at = IF o \in {"rows", "row"} THEN At("rows") ELSE Idle
    <3>1. /\ \A d \in Callers : d # c => pc'[d] = pc[d] /\ out'[d] = out[d]
          /\ pc'[c] = "end"
          /\ out'[c] = "rows" => rd.mode = "stream"
          /\ out'[c] = "row" => rd.mode = "next"
          /\ rd'.at = IF out'[c] \in {"rows", "row"} THEN At("rows") ELSE Idle
      BY <2>8 DEF TypeOK
    <3>2. QED BY <1>11, <2>1, <2>5, <2>6, <3>1
  <2>9. QED BY <2>5, <2>7, <2>8
<1>15. ASSUME NEW c \in Callers, FinishCall(c) \/ FinishResetStmt(c) PROVE Goal
  <2>1. rd.at = Idle /\ mu' = Unlocked
    BY <1>0, <1>15 DEF FinishCall, FinishResetStmt, ReaderInPlace
  <2>2. QED BY <1>4, <1>15, <2>1, CallersAssumption DEF FinishCall, FinishResetStmt, Return
<1>16. ASSUME NEW c \in Callers, FinishQuery(c) PROVE Goal
  <2>1. out[c] # "row" /\ rd.at = IF out[c] = "rows" THEN At("rows") ELSE Idle
    BY <1>0, <1>16 DEF FinishQuery, ReaderInPlace
  <2>2. QED BY <1>4, <1>16, <2>1, CallersAssumption DEF FinishQuery, Return
<1>17. ASSUME NEW c \in Callers, FinishPrepare(c) PROVE Goal
  <2>1. rd.at = Idle
    BY <1>0, <1>17 DEF FinishPrepare, ReaderInPlace
  <2>2. mu = Unlocked
    BY <1>17 DEF FinishPrepare, LockInv, PrepareIsAlone
  <2>3. QED BY <1>4, <1>17, <2>1, <2>2, CallersAssumption DEF FinishPrepare, Return
<1>18. ASSUME NEW c \in Callers, FinishReset(c) PROVE Goal
  <2>1. rd.at = Idle /\ pc[c] = "end" /\ op[c] = "reset" /\ rd' = rd
    BY <1>0, <1>18 DEF FinishReset, ReaderInPlace
  <2>2. CASE pc' = [pc EXCEPT ![c] = "write"] /\ UNCHANGED <<mu, op, out>>
    <3>1. \A d \in Callers : d # c => ~Past(d)
      BY <2>1, OnePast DEF Past
    <3>2. \A d \in Callers : pc'[d] \notin {"read", "end"}
      BY <2>1, <2>2, <3>1 DEF TypeOK, Past
    <3>3. mu = c
      BY <2>1 DEF LockInv, LockHeld, Past, CheckedOps
    <3>4. Shaped(rd')
      BY <1>0, <2>1 DEF Shaped
    <3>5. QED BY <2>1, <2>2, <3>2, <3>3, <3>4, CallersAssumption DEF ReaderInPlace, RowsAtRest, Quiet
  <2>3. CASE mu' = Unlocked /\ Return(c, IF Failed(c) THEN "bad" ELSE "ok")
    BY <1>4, <2>1, <2>3, CallersAssumption DEF Return
  <2>4. QED BY <1>18, <2>2, <2>3 DEF FinishReset
<1>19. ASSUME NEW c \in Callers, FinishRows(c) PROVE Goal
  <2>1. out[c] # "rows" /\ rd.at = IF out[c] = "row" THEN At("rows") ELSE Idle
    BY <1>0, <1>19 DEF FinishRows, ReaderInPlace, RowsOps
  <2>2. QED BY <1>4, <1>19, <2>1, CallersAssumption DEF FinishRows, Return
<1>20. ASSUME NEW c \in Callers, NEW o \in RowsOps, RowsCall(c, o) PROVE Goal
  <2>1. \A d \in Callers : ~Past(d)
    BY <1>20, CallersAssumption DEF RowsCall, Gate, LockInv, CallsInPlace, LockHeld, PrepareIsAlone, Past
  <2>2. /\ pc'[c] = "read" /\ op'[c] = o /\ mu' = RowsHold
        /\ \A d \in Callers : d # c => pc'[d] = pc[d] /\ op'[d] = op[d]
    BY <1>20 DEF RowsCall, TypeOK
  <2>3. rd' = Rd(At("rows"), IF o = "next" THEN "next" ELSE "drain")
    BY <1>20 DEF RowsCall
  <2>4. Shaped(rd') /\ rd'.mode # "stream" /\ (rd'.mode = "next" => o = "next")
    BY <2>3 DEF Shaped, Rd, At, Pl
  <2>5. ~Quiet' /\ ~RowsAtRest'
    BY <2>2, <1>20, CallersAssumption DEF Quiet, RowsAtRest, Past
  <2>6. \A d \in Callers : d # c => pc'[d] \notin {"write", "read", "end"}
    BY <2>1, <2>2 DEF Past
  <2>7. QED BY <2>2, <2>4, <2>5, <2>6 DEF ReaderInPlace
<1>21. ASSUME NEW c \in Callers, NextRows(c) \/ CloseRows(c) PROVE Goal
  BY <1>20, <1>21 DEF NextRows, CloseRows, RowsOps
<1>22. ASSUME NEW c \in Callers, Cancel(c) \/ WatcherWakes(c) PROVE Goal
  BY <1>1, <1>22 DEF Cancel, WatcherWakes
<1>23. ASSUME WatcherFires \/ Expire \/ Drop \/ ServerStarts \/ ServerSends \/ UNCHANGED vars PROVE Goal
  BY <1>1, <1>23 DEF WatcherFires, Expire, Drop, ServerStarts, ServerSends, vars
<1>24. QED
  BY <1>5, <1>6, <1>7, <1>8, <1>9, <1>12, <1>13, <1>14, <1>15, <1>16, <1>17, <1>18, <1>19, <1>21, <1>22, <1>23
     DEF Next, ClientStep, TakesLock, CallStep

(***************************************************************************)
(* The wire.                                                               *)
(***************************************************************************)

\* Nothing is under way when nothing is to be read.
LEMMA CleanWire ==
    ASSUME TypeOK, Stretch, ServerInPlace, rd.at = Idle
    PROVE  toCli = <<>> /\ toSrv = <<>> /\ (net = "up" => srv = Idle)
<1>1. toCli = <<>>
  <2>1. SUFFICES ASSUME toCli # <<>> PROVE FALSE
    OBVIOUS
  <2>2. 1 \in 1 .. Len(toCli)
    BY <2>1 DEF TypeOK
  <2>3. toCli[1].body \in Replies(Idle)
    BY <2>1, <2>2 DEF Stretch
  <2>4. Idle.ph # "idle"
    BY <2>3, ReplyCases
  <2>5. QED BY <2>4 DEF Idle, At, Pl
<1>2. toSrv = <<>>
  BY ReplyToType DEF ServerInPlace
<1>3. QED BY <1>1, <1>2 DEF ServerInPlace

\* The rest of a sequence.
LEMMA TailOfSeq ==
    ASSUME NEW S, NEW s \in Seq(S), s # <<>>
    PROVE  /\ Tail(s) \in Seq(S) /\ Len(Tail(s)) = Len(s) - 1
           /\ Tail(s) = <<>> <=> Len(s) = 1
<1>1. Tail(s) \in Seq(S) /\ Len(Tail(s)) = Len(s) - 1 /\ Len(s) \in Nat
  BY HeadTailProperties, LenProperties
<1>2. Tail(s) # <<>> => Len(Tail(s)) # 0
  BY <1>1, EmptySeq
<1>3. Tail(s) = <<>> => Len(Tail(s)) = 0
  BY EmptySeq
<1>4. QED BY <1>1, <1>2, <1>3

\* A request starts the sequence numbers of its reply at one.
LEMMA WriteSeqIsOne == WriteSeq = 1
BY BoundsAssumption DEF WriteSeq, NextSeq

\* Every step of a usable connection leaves the packets under way in step with the
\* reader and the server.
LEMMA NextStream ==
    ASSUME PrepareAlone, OutParamsFit, SinglesEnd, TypeOK, LockInv, WireInv, [Next]_vars, Usable'
    PROVE  Stretch' /\ ServerInPlace'
<1> DEFINE Goal == Stretch' /\ ServerInPlace'
<1> USE DEF lockVars, callVars, readVars, timeVars, wireVars, srvVars
<1>0. Usable /\ Shaped(rd) /\ ReaderInPlace /\ Stretch /\ ServerInPlace
  BY StaysRetired DEF WireInv
<1>1. ASSUME rd'.at = rd.at, UNCHANGED <<cseq, nreq, net, toSrv, toCli, srv, srvAt>> PROVE Goal
  BY <1>0, <1>1 DEF Stretch, ServerInPlace, WriteSeq, NextSeq
<1>2. ASSUME rd.at = Idle, rd' = rd, UNCHANGED <<net, toSrv, toCli, srv, srvAt>> PROVE Goal
  <2>1. toCli = <<>> /\ toSrv = <<>> /\ (net = "up" => srv = Idle)
    BY <1>0, <1>2, CleanWire
  <2>2. QED BY <1>2, <2>1 DEF Stretch, ServerInPlace
<1>3. ASSUME NEW c \in Callers, NEW o \in Ops, Invoke(c, o) PROVE Goal
  BY <1>1, <1>3 DEF Invoke
<1>4. ASSUME NEW c \in Callers, Refuse(c) \/ Start(c) \/ NothingToSend(c) \/ StartPrepare(c) \/ BeginTx(c) PROVE Goal
  BY <1>1, <1>4 DEF Refuse, Start, NothingToSend, StartPrepare, BeginTx
<1>5. ASSUME NEW c \in Callers, CloseStmt(c) PROVE Goal
  <2>1. \A d \in Callers : op[d] = "prepare" => pc[d] = "idle"
    BY <1>5 DEF CloseStmt, CanLock, LockInv, PrepareIsAlone
  <2>2. rd.at = Idle
    BY <1>0, <1>5, <2>1 DEF CloseStmt, CanLock, ReaderInPlace, Quiet
  <2>3. QED BY <1>2, <1>5, <2>2 DEF CloseStmt
<1>6. ASSUME NEW c \in Callers, Close(c) \/ MarkBad(c) \/ ReadFails(c) \/ TimeZoneSyncError(c) PROVE FALSE
  BY <1>6 DEF Close, MarkBad, ReadFails, TimeZoneSyncError, Breaks, MarkProtocolError, Usable
<1>7. ASSUME NEW c \in Callers, WriteFails(c) \/ EncodeFails(c) PROVE Goal
  <2>1. rd.at = Idle
    BY <1>0, <1>7 DEF WriteFails, EncodeFails, ReaderInPlace
  <2>2. QED BY <1>2, <1>7, <2>1 DEF WriteFails, EncodeFails
<1>8. ASSUME NEW c \in Callers, Write(c) PROVE Goal
  <2>1. rd.at = Idle
    BY <1>0, <1>8 DEF Write, ReaderInPlace
  <2>2. toCli = <<>> /\ toSrv = <<>> /\ (net = "up" => srv = Idle)
    BY <1>0, <2>1, CleanWire
  <2>3. /\ rd'.at = ReplyTo(op[c]) /\ cseq' = WriteSeq /\ WriteSeq' = WriteSeq /\ nreq' = nreq + 1
        /\ toCli' = <<>> /\ UNCHANGED <<net, srv, srvAt>>
    BY <1>8, <2>2, ReaderForType DEF Write, WriteSeq, NextSeq
  <2>4. Stretch'
    BY <2>3 DEF Stretch
  <2>5. CASE net = "up"
    <3>1. toSrv' = <<[cmd |-> op[c], req |-> nreq + 1]>>
      BY <1>8, <2>2, <2>5 DEF Write
    <3>2. toSrv' # <<>> /\ Len(toSrv') = 1 /\ toSrv'[1].cmd = op[c] /\ toSrv'[1].req = nreq + 1
      BY <3>1
    <3>3. QED BY <2>2, <2>3, <2>4, <2>5, <3>2 DEF ServerInPlace
  <2>6. CASE net # "up"
    <3>1. toSrv' = <<>>
      BY <1>8, <2>2, <2>6 DEF Write
    <3>2. QED BY <2>3, <2>4, <2>6, <3>1 DEF ServerInPlace
  <2>7. QED BY <2>5, <2>6
<1>9. ASSUME NEW c \in Callers, Read(c) PROVE Goal
  <2>1. toCli # <<>> /\ pc[c] = "read" /\ Head(toCli) = toCli[1] /\ 1 \in 1 .. Len(toCli) /\ Len(toCli) \in Nat
    BY <1>9 DEF Read, TypeOK
  <2>2. ~Breaks(c) /\ ~bad'
    BY DEF Breaks, MarkProtocolError, Usable
  <2>3. TakePacket(c, toCli[1].body) /\ cseq' = NextSeq(cseq)
    BY <1>9, <2>1, <2>2 DEF Read
  <2>4. toCli[1].st = rd.at /\ toCli[1].seq = cseq /\ toCli[1].body \in Replies(rd.at)
    BY <1>0, <2>1 DEF Stretch
  <2>5. rd'.at = After(rd.at, toCli[1].body)
    BY <1>0, <2>1, <2>2, <2>3, <2>4, TakeInStep
  <2>6. UNCHANGED <<nreq, net, toSrv, srv, srvAt>> /\ toSrv = <<>> /\ toCli' = Tail(toCli)
    BY <1>0, <1>9, <2>1 DEF Read, ServerInPlace
  <2>7. /\ Len(toCli') = Len(toCli) - 1
        /\ \A i \in 1 .. Len(toCli) - 1 : toCli'[i] = toCli[i + 1]
    BY <2>1, <2>6 DEF TypeOK
  <2>8. /\ \A i \in 1 .. Len(toCli') : toCli'[i].req = nreq' /\ toCli'[i].body \in Replies(toCli'[i].st)
        /\ \A i \in 1 .. Len(toCli') - 1 : /\ toCli'[i + 1].st = After(toCli'[i].st, toCli'[i].body)
                                           /\ toCli'[i + 1].seq = NextSeq(toCli'[i].seq)
    <3>1. \A i \in 1 .. Len(toCli') : i + 1 \in 1 .. Len(toCli) /\ toCli'[i] = toCli[i + 1]
      BY <2>1, <2>7
    <3>2. \A i \in 1 .. Len(toCli') - 1 : /\ i \in 1 .. Len(toCli') /\ i + 1 \in 1 .. Len(toCli')
                                          /\ i + 1 \in 1 .. Len(toCli) - 1
      BY <2>1, <2>7
    <3>3. \A i \in 1 .. Len(toCli') : toCli'[i].req = nreq' /\ toCli'[i].body \in Replies(toCli'[i].st)
      BY <1>0, <2>6, <3>1 DEF Stretch
    <3>4. ASSUME NEW i \in 1 .. Len(toCli') - 1
          PROVE  /\ toCli'[i + 1].st = After(toCli'[i].st, toCli'[i].body)
                 /\ toCli'[i + 1].seq = NextSeq(toCli'[i].seq)
      <4>1. toCli'[i] = toCli[i + 1] /\ toCli'[i + 1] = toCli[(i + 1) + 1] /\ i + 1 \in 1 .. Len(toCli) - 1
        BY <3>1, <3>2, <3>4
      <4>2. QED BY <1>0, <4>1 DEF Stretch
    <3>5. QED BY <3>3, <3>4
  <2>9. CASE Len(toCli) = 1
    <3>1. toCli' = <<>>
      BY <2>1, <2>6, <2>9 DEF TypeOK
    <3>2. net = "up" => srv = rd'.at /\ srvAt.seq = cseq'
      BY <1>0, <2>1, <2>3, <2>4, <2>5, <2>9 DEF ServerInPlace
    <3>3. net = "up" /\ srv # Idle => srvAt.req = nreq
      BY <1>0 DEF ServerInPlace
    <3>4. QED BY <2>6, <2>8, <3>1, <3>2, <3>3 DEF Stretch, ServerInPlace
  <2>10. CASE Len(toCli) # 1
    <3>1. toCli' # <<>> /\ 1 \in 1 .. Len(toCli) - 1 /\ toCli'[1] = toCli[1 + 1] /\ toCli'[Len(toCli')] = toCli[Len(toCli)]
      <4>1. 1 \in 1 .. Len(toCli) - 1 /\ Len(toCli) - 1 \in 1 .. Len(toCli) - 1 /\ (Len(toCli) - 1) + 1 = Len(toCli)
        <5>1. Len(toCli) \in Nat /\ Len(toCli) >= 1 /\ Len(toCli) # 1
          BY <2>1, <2>10
        <5>2. \A n \in Nat : n >= 1 /\ n # 1 => 1 \in 1 .. n - 1 /\ n - 1 \in 1 .. n - 1 /\ (n - 1) + 1 = n
          OBVIOUS
        <5>3. QED BY <5>1, <5>2, Zenon
      <4>2. toCli' # <<>>
        <5>1. toCli \in Seq(Packet)
          BY DEF TypeOK
        <5>2. QED BY <2>1, <2>6, <2>10, <5>1, TailOfSeq
      <4>3. QED BY <2>7, <4>1, <4>2
    <3>2. toCli'[1].st = rd'.at /\ toCli'[1].seq = cseq'
      BY <1>0, <2>3, <2>4, <2>5, <3>1 DEF Stretch
    <3>3. net = "up" => srv = After(toCli[Len(toCli)].st, toCli[Len(toCli)].body) /\ srvAt.seq = NextSeq(toCli[Len(toCli)].seq)
      BY <1>0, <2>1 DEF ServerInPlace
    <3>4. net = "up" /\ srv # Idle => srvAt.req = nreq
      BY <1>0 DEF ServerInPlace
    <3>5. QED BY <2>6, <2>8, <3>1, <3>2, <3>3, <3>4 DEF Stretch, ServerInPlace
  <2>11. QED BY <2>9, <2>10
<1>10. ASSUME NEW c \in Callers, \/ FinishCall(c) \/ FinishQuery(c) \/ FinishPrepare(c) \/ FinishReset(c)
                                 \/ FinishResetStmt(c) \/ FinishRows(c)
       PROVE  Goal
  BY <1>1, <1>10 DEF FinishCall, FinishQuery, FinishPrepare, FinishReset, FinishResetStmt, FinishRows
<1>11. ASSUME NEW c \in Callers, NextRows(c) \/ CloseRows(c) PROVE Goal
  <2>1. PICK o \in RowsOps : RowsCall(c, o)
    BY <1>11 DEF NextRows, CloseRows, RowsOps
  <2>2. RowsAtRest
    BY <2>1 DEF RowsCall, RowsAtRest, Past
  <2>3. rd.at = At("rows") /\ rd'.at = At("rows")
    BY <1>0, <2>1, <2>2 DEF ReaderInPlace, RowsCall, Rd
  <2>4. QED BY <1>1, <2>1, <2>3 DEF RowsCall
<1>12. ASSUME NEW c \in Callers, Cancel(c) \/ WatcherWakes(c) PROVE Goal
  BY <1>1, <1>12 DEF Cancel, WatcherWakes
<1>13. ASSUME WatcherFires \/ Expire \/ UNCHANGED vars PROVE Goal
  BY <1>1, <1>13 DEF WatcherFires, Expire, vars
<1>14. ASSUME Drop PROVE Goal
  <2>1. net' = "down" /\ toSrv' = <<>> /\ (toCli' = toCli \/ toCli' = <<>>) /\ UNCHANGED <<rd, cseq, nreq>>
    BY <1>14 DEF Drop
  <2>2. QED BY <1>0, <2>1 DEF Stretch, ServerInPlace, NextSeq
<1>15. ASSUME ServerStarts PROVE Goal
  <2>1. /\ toSrv # <<>> /\ Len(toSrv) = 1 /\ net = "up" /\ toCli = <<>> /\ rd.at = ReplyTo(toSrv[1].cmd)
        /\ toSrv[1].req = nreq /\ cseq = WriteSeq /\ Head(toSrv) = toSrv[1]
    BY <1>0, <1>15 DEF ServerStarts, ServerInPlace, TypeOK
  <2>2. toSrv' = <<>> /\ srv' = rd.at /\ srvAt'.req = nreq /\ srvAt'.seq = cseq
    <3>1. Tail(toSrv) = <<>>
      BY <2>1, TailOfSeq DEF TypeOK
    <3>2. QED BY <1>15, <2>1, <3>1, WriteSeqIsOne DEF ServerStarts
  <2>3. UNCHANGED <<rd, cseq, nreq, net, toCli>>
    BY <1>15 DEF ServerStarts
  <2>4. QED BY <2>1, <2>2, <2>3 DEF Stretch, ServerInPlace
<1>16. ASSUME ServerSends PROVE Goal
  <2>1. PICK b \in Replies(srv) :
           /\ toCli' = Append(toCli, [req |-> srvAt.req, seq |-> srvAt.seq, st |-> srv, body |-> b])
           /\ srv' = After(srv, b)
           /\ srvAt' = [srvAt EXCEPT !.seq = (srvAt.seq + 1) % SeqMod,
                                     !.nrow = IF b.kind \in {"ROW", "BADROW"} THEN srvAt.nrow + 1 ELSE 0,
                                     !.nset = IF b.more THEN srvAt.nset + 1 ELSE srvAt.nset]
    BY <1>16 DEF ServerSends
  <2> DEFINE n == Len(toCli)
             k == [req |-> srvAt.req, seq |-> srvAt.seq, st |-> srv, body |-> b]
  <2>2. net = "up" /\ srv # Idle /\ toSrv = <<>> /\ srvAt.req = nreq /\ UNCHANGED <<rd, cseq, nreq, net, toSrv>>
    BY <1>0, <1>16 DEF ServerSends, ServerInPlace
  <2>3. n \in Nat /\ k \in Packet
    <3>1. b \in Body
      BY RepliesType
    <3>2. QED BY <3>1 DEF TypeOK, Packet
  <2>4. /\ Len(toCli') = n + 1 /\ toCli'[n + 1] = k /\ toCli' # <<>>
        /\ \A i \in 1 .. n : toCli'[i] = toCli[i]
    BY <2>1, <2>3 DEF TypeOK
  <2>5. srvAt'.seq = NextSeq(srvAt.seq) /\ srvAt'.req = nreq
    BY <2>1, <2>2 DEF TypeOK, NextSeq
  <2>6. k.req = nreq /\ k.seq = srvAt.seq /\ k.st = srv /\ k.body = b
    BY <2>2
  <2>7. ServerInPlace'
    BY <2>1, <2>2, <2>4, <2>5, <2>6 DEF ServerInPlace, NextSeq
  <2>8. \A i \in 1 .. Len(toCli') : toCli'[i].req = nreq' /\ toCli'[i].body \in Replies(toCli'[i].st)
    <3>1. \A i \in 1 .. Len(toCli') : i \in 1 .. n \/ i = n + 1
      BY <2>3, <2>4
    <3>2. QED BY <1>0, <2>1, <2>2, <2>4, <2>6, <3>1 DEF Stretch
  <2>9. CASE toCli = <<>>
    <3>1. n = 0 /\ toCli'[1] = k
      BY <2>4, <2>9
    <3>2. srv = rd.at /\ srvAt.seq = cseq
      BY <1>0, <2>2, <2>9 DEF ServerInPlace
    <3>3. 1 .. Len(toCli') - 1 = {}
      BY <2>4, <3>1
    <3>4. QED BY <2>2, <2>6, <2>7, <2>8, <3>1, <3>2, <3>3 DEF Stretch
  <2>10. CASE toCli # <<>>
    <3>1. 1 \in 1 .. n /\ n \in 1 .. n /\ toCli'[1] = toCli[1] /\ toCli'[n] = toCli[n]
      BY <2>3, <2>4, <2>10 DEF TypeOK
    <3>2. toCli'[1].st = rd.at /\ toCli'[1].seq = cseq
      BY <1>0, <2>10, <3>1 DEF Stretch
    <3>3. toCli'[n + 1].st = After(toCli'[n].st, toCli'[n].body) /\ toCli'[n + 1].seq = NextSeq(toCli'[n].seq)
      BY <1>0, <2>2, <2>4, <2>6, <2>10, <3>1 DEF ServerInPlace
    <3>4. ASSUME NEW i \in 1 .. Len(toCli') - 1
          PROVE  /\ toCli'[i + 1].st = After(toCli'[i].st, toCli'[i].body)
                 /\ toCli'[i + 1].seq = NextSeq(toCli'[i].seq)
      <4>1. i = n \/ (i \in 1 .. n - 1 /\ i \in 1 .. n /\ i + 1 \in 1 .. n)
        BY <2>3, <2>4, <3>4
      <4>2. CASE i = n
        BY <3>3, <4>2
      <4>3. CASE i \in 1 .. n - 1 /\ i \in 1 .. n /\ i + 1 \in 1 .. n
        BY <1>0, <2>4, <4>3 DEF Stretch
      <4>4. QED BY <4>1, <4>2, <4>3
    <3>5. QED BY <2>2, <2>4, <2>7, <2>8, <3>2, <3>4 DEF Stretch, NextSeq
  <2>11. QED BY <2>9, <2>10
<1>17. QED
  BY <1>3, <1>4, <1>5, <1>6, <1>7, <1>8, <1>9, <1>10, <1>11, <1>12, <1>13, <1>14, <1>15, <1>16
     DEF Next, ClientStep, TakesLock, CallStep

LEMMA InitWire == Init => WireInv
<1>1. SUFFICES ASSUME Init PROVE Shaped(rd) /\ ReaderInPlace /\ Stretch /\ ServerInPlace
  BY DEF WireInv
<1>2. rd = NotReading /\ rd.at = Idle /\ Shaped(rd)
  <2>1. rd = NotReading
    BY <1>1 DEF Init
  <2>2. QED BY <2>1, ShapedReaders DEF Shaped
<1>3. ReaderInPlace
  BY <1>1, <1>2, CallersAssumption DEF Init, ReaderInPlace, RowsAtRest
<1>4. Stretch /\ ServerInPlace
  BY <1>1, <1>2 DEF Init, Stretch, ServerInPlace
<1>5. QED BY <1>2, <1>3, <1>4

LEMMA NextWire ==
    ASSUME PrepareAlone, OutParamsFit, SinglesEnd
    PROVE  TypeOK /\ LockInv /\ WireInv /\ [Next]_vars => WireInv'
BY NextReader, NextStream DEF WireInv

(***************************************************************************)
(* Results.                                                                *)
(***************************************************************************)

\* The invariant from which the other results follow: while a connection is usable,
\* the code that reads, the packets under way and the server are at matching
\* places of the reply to the latest request.
THEOREM WireInStep == ASSUME PrepareAlone, OutParamsFit, SinglesEnd PROVE Spec => [](TypeOK /\ LockInv /\ WireInv)
<1>1. LockInv => CallsInPlace
  BY DEF LockInv
<1>2. QED BY <1>1, InitType, InitLock, InitWire, NextType, NextLock, NextWire, PTL DEF Spec

\* The whole exchange is over whenever the lock of a usable connection is free, for
\* any number of goroutines, replies of any length and any loss, timeout or server
\* error: the next call starts on a clean stream (mu, checkUsableLocked).
THEOREM CleanBetweenCalls == ASSUME PrepareAlone, OutParamsFit, SinglesEnd PROVE Spec => []IdleWireClean
<1>1. TypeOK /\ WireInv => IdleWireClean
  BY CleanWire DEF WireInv, ReaderInPlace, IdleWireClean
<1>2. QED BY <1>1, WireInStep, PTL

\* No call ever reads a packet of an earlier call's reply.
THEOREM RepliesAreOwn == ASSUME PrepareAlone, OutParamsFit, SinglesEnd PROVE Spec => []OwnReply
<1>1. WireInv => OwnReply
  BY DEF WireInv, Stretch, OwnReply
<1>2. QED BY <1>1, WireInStep, PTL

\* PacketConn.seq is the sequence number of the packet that arrives next, over any
\* number of wraps of the byte.
THEOREM SequencesAgree == ASSUME PrepareAlone, OutParamsFit, SinglesEnd PROVE Spec => []SeqInStep
<1>1. WireInv => SeqInStep
  BY DEF WireInv, Stretch, SeqInStep
<1>2. QED BY <1>1, WireInStep, PTL

\* Every packet is read by the loop that stands at the place it was sent from, with
\* and without CLIENT_DEPRECATE_EOF, over results that follow one another and OUT
\* parameter sets.
THEOREM PlacesAgree == ASSUME PrepareAlone, OutParamsFit, SinglesEnd PROVE Spec => []PlaceInStep
<1>1. WireInv => PlaceInStep
  BY DEF WireInv, Stretch, PlaceInStep
<1>2. QED BY <1>1, WireInStep, PTL

(***************************************************************************)
(* Conn implements Exchange.                                               *)
(***************************************************************************)

\* What is under way, by the invariant.
LEMMA ComingIsOwn ==
    ASSUME NEW q \in Seq(Packet), NEW n, \A i \in 1 .. Len(q) : q[i].req = n
    PROVE  /\ {q[i].req : i \in DOMAIN q} \subseteq {n}
           /\ q = <<>> <=> {q[i].req : i \in DOMAIN q} = {}
<1>1. DOMAIN q = 1 .. Len(q)
  OBVIOUS
<1>2. CASE q = <<>>
  BY <1>1, <1>2
<1>3. CASE q # <<>>
  <2>1. 1 \in DOMAIN q
    BY <1>3
  <2>2. q[1].req \in {q[i].req : i \in DOMAIN q}
    BY <2>1
  <2>3. QED BY <1>1, <1>3, <2>2
<1>4. QED BY <1>2, <1>3

\* Every step is a request, a piece of a reply, the end of the connection's use or
\* nothing to the abstract specification.
LEMMA StepsOfExchange ==
    ASSUME PrepareAlone, OutParamsFit, SinglesEnd, TypeOK, TypeOK', LockInv, WireInv, WireInv', [Next]_vars
    PROVE  [X!Next]_<<Usable, nreq, Busy, Coming>>
<1> DEFINE Goal == X!Ask \/ X!Respond \/ X!Retire \/ UNCHANGED <<Usable, nreq, Busy, Coming>>
<1> USE DEF lockVars, callVars, readVars, timeVars, wireVars, srvVars
<1>0. SUFFICES Goal
  BY DEF X!Next
<1>1. ASSUME ~Usable' PROVE Goal
  BY <1>1 DEF X!Retire
<1>2. SUFFICES ASSUME Usable' PROVE Goal
  BY <1>1
<1>3. /\ Usable /\ Shaped(rd) /\ ReaderInPlace /\ Stretch /\ ServerInPlace
      /\ Stretch' /\ ServerInPlace' /\ (Usable = TRUE) /\ (Usable' = TRUE)
  BY <1>2, StaysRetired DEF WireInv
<1>4. Coming' \subseteq {nreq'} /\ (toCli' = <<>> => Coming' = {}) /\ (toCli = <<>> <=> Coming = {}) /\ Busy' \in BOOLEAN
  <2>1. Coming' \subseteq {nreq'} /\ (toCli' = <<>> => Coming' = {})
    <3>1. toCli' \in Seq(Packet) /\ \A i \in 1 .. Len(toCli') : toCli'[i].req = nreq'
      BY <1>3 DEF TypeOK, Stretch
    <3>2. QED BY <3>1, ComingIsOwn DEF Coming
  <2>2. toCli = <<>> <=> Coming = {}
    <3>1. toCli \in Seq(Packet) /\ \A i \in 1 .. Len(toCli) : toCli[i].req = nreq
      BY <1>3 DEF TypeOK, Stretch
    <3>2. QED BY <3>1, ComingIsOwn DEF Coming
  <2>3. QED BY <2>1, <2>2 DEF Busy
<1>5. ASSUME rd.at = Idle, nreq' = nreq + 1, toCli' = toCli PROVE X!Ask
  <2>1. toCli = <<>> /\ toSrv = <<>> /\ (net = "up" => srv = Idle)
    BY <1>3, <1>5, CleanWire
  <2>2. ~Busy /\ Coming = {} /\ Coming' = {}
    BY <1>4, <1>5, <2>1 DEF Busy
  <2>3. QED BY <1>3, <1>4, <1>5, <2>2 DEF X!Ask
<1>6. ASSUME nreq' = nreq, Busy' => Busy, Coming' # {} => Busy \/ Coming # {} PROVE X!Respond
  BY <1>3, <1>4, <1>6 DEF X!Respond
<1>7. ASSUME UNCHANGED <<nreq, net, toSrv, toCli, srv>> PROVE Goal
  BY <1>3, <1>7 DEF Busy, Coming
<1>8. ASSUME NEW c \in Callers, NEW o \in Ops, Invoke(c, o) PROVE Goal
  BY <1>7, <1>8 DEF Invoke
<1>9. ASSUME NEW c \in Callers, Refuse(c) \/ Start(c) \/ NothingToSend(c) \/ StartPrepare(c) \/ BeginTx(c) PROVE Goal
  BY <1>7, <1>9 DEF Refuse, Start, NothingToSend, StartPrepare, BeginTx
<1>10. ASSUME NEW c \in Callers, CloseStmt(c) PROVE Goal
  <2>1. \A d \in Callers : op[d] = "prepare" => pc[d] = "idle"
    BY <1>10 DEF CloseStmt, CanLock, LockInv, PrepareIsAlone
  <2>2. rd.at = Idle
    BY <1>3, <1>10, <2>1 DEF CloseStmt, CanLock, ReaderInPlace, Quiet
  <2>3. nreq' = nreq + 1 /\ toCli' = toCli
    BY <1>3, <1>10 DEF CloseStmt, Usable
  <2>4. QED BY <1>5, <2>2, <2>3
<1>11. ASSUME NEW c \in Callers, Close(c) \/ MarkBad(c) \/ ReadFails(c) \/ TimeZoneSyncError(c) PROVE FALSE
  BY <1>2, <1>11 DEF Close, MarkBad, ReadFails, TimeZoneSyncError, Breaks, MarkProtocolError, Usable
<1>12. ASSUME NEW c \in Callers, Write(c) \/ WriteFails(c) \/ EncodeFails(c) PROVE Goal
  <2>1. rd.at = Idle /\ nreq' = nreq + 1 /\ toCli' = toCli
    BY <1>3, <1>12 DEF Write, WriteFails, EncodeFails, ReaderInPlace
  <2>2. QED BY <1>5, <2>1
<1>13. ASSUME NEW c \in Callers, Read(c) PROVE Goal
  <2>1. toCli # <<>> /\ UNCHANGED <<nreq, net, toSrv, srv>>
    BY <1>13 DEF Read
  <2>2. Coming # {}
    BY <1>4, <2>1
  <2>3. QED BY <1>6, <2>1, <2>2 DEF Busy
<1>14. ASSUME NEW c \in Callers, \/ FinishCall(c) \/ FinishQuery(c) \/ FinishPrepare(c) \/ FinishReset(c)
                                 \/ FinishResetStmt(c) \/ FinishRows(c) \/ NextRows(c) \/ CloseRows(c)
                                 \/ Cancel(c) \/ WatcherWakes(c)
       PROVE  Goal
  BY <1>7, <1>14 DEF FinishCall, FinishQuery, FinishPrepare, FinishReset, FinishResetStmt, FinishRows,
                     NextRows, CloseRows, RowsCall, Cancel, WatcherWakes
<1>15. ASSUME WatcherFires \/ Expire \/ UNCHANGED vars PROVE Goal
  BY <1>7, <1>15 DEF WatcherFires, Expire, vars
<1>16. ASSUME Drop PROVE Goal
  <2>1. nreq' = nreq /\ net' = "down" /\ (toCli' = toCli \/ toCli' = <<>>)
    BY <1>16 DEF Drop
  <2>2. ~Busy' /\ (Coming' = Coming \/ Coming' = {})
    BY <1>4, <2>1 DEF Busy, Coming
  <2>3. QED BY <1>6, <2>1, <2>2
<1>17. ASSUME ServerStarts PROVE Goal
  <2>1. nreq' = nreq /\ Busy /\ Coming' = Coming
    BY <1>17 DEF ServerStarts, Busy, Coming
  <2>2. QED BY <1>6, <2>1
<1>18. ASSUME ServerSends PROVE Goal
  <2>1. nreq' = nreq /\ Busy
    BY <1>18 DEF ServerSends, Busy
  <2>2. QED BY <1>6, <2>1
<1>19. QED
  BY <1>8, <1>9, <1>10, <1>11, <1>12, <1>13, <1>14, <1>15, <1>16, <1>17, <1>18 DEF Next, ClientStep, TakesLock, CallStep

\* A connection implements Exchange: over all calls, open Rows, further results,
\* server errors, timeouts and lost connections, requests and replies take turns
\* for as long as the connection is in use.
THEOREM ConnTakesTurns == ASSUME PrepareAlone, OutParamsFit, SinglesEnd PROVE Spec => TakesTurns
<1>1. Init => X!Init
  BY DEF Init, X!Init, Usable, Busy, Coming
<1>2. TypeOK /\ LockInv /\ WireInv /\ (TypeOK /\ LockInv /\ WireInv)' /\ [Next]_vars => [X!Next]_<<Usable, nreq, Busy, Coming>>
  BY StepsOfExchange
<1>3. QED BY <1>1, <1>2, WireInStep, PTL DEF Spec, TakesTurns, X!Spec
=============================================================================
