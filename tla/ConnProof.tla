----------------------------- MODULE ConnProof -----------------------------
(* Proofs about the connection of module Conn. *)
EXTENDS ConnInv, SequenceTheorems, TLAPS

(***************************************************************************)
(* The definitions by cases, spelled out: what the server may send at each *)
(* place of a reply and where that leads.                                  *)
(***************************************************************************)

\* The place after each kind of packet.
LEMMA AfterCases ==
    ASSUME NEW p, NEW b
    PROVE  /\ b.kind \in {"OK", "EOF"} => After(p, b) = IF b.more \/ p.tail = "more" THEN At("first") ELSE Idle
           /\ b.kind = "OKOUT" => After(p, b) = Pl("first", 0, IF b.more THEN "more" ELSE "last")
           /\ b.kind = "HDR" => After(p, b) = Pl("defs", Metadata(b.n), p.tail)
           /\ b.kind = "POK" => After(p, b) = IF b.n + b.m = 0 THEN Idle ELSE Pl("pdefs", Metadata(b.n) + Metadata(b.m), "no")
           /\ b.kind = "DEF" => After(p, b) = IF p.left > 1 THEN Pl(p.ph, p.left - 1, p.tail)
                                              ELSE IF p.ph = "pdefs" THEN Idle
                                              ELSE Pl(IF p.tail = "no" THEN "rows" ELSE "orow", 0, p.tail)
           /\ b.kind \in {"ROW", "BADROW"} => After(p, b) = Pl("rows", 0, p.tail)
           /\ b.kind \in {"ERR", "BADERR", "JUNK"} => After(p, b) = Idle
<1>1. b.kind \in {"OK", "EOF"} => After(p, b) = IF b.more \/ p.tail = "more" THEN At("first") ELSE Idle
  BY Zenon DEF After
<1>2. b.kind = "OKOUT" => After(p, b) = Pl("first", 0, IF b.more THEN "more" ELSE "last")
  BY Zenon DEF After
<1>3. b.kind = "HDR" => After(p, b) = Pl("defs", Metadata(b.n), p.tail)
  BY Zenon DEF After
<1>4. b.kind = "POK" => After(p, b) = IF b.n + b.m = 0 THEN Idle ELSE Pl("pdefs", Metadata(b.n) + Metadata(b.m), "no")
  BY Zenon DEF After
<1>5. b.kind = "DEF" => After(p, b) = IF p.left > 1 THEN Pl(p.ph, p.left - 1, p.tail)
                                      ELSE IF p.ph = "pdefs" THEN Idle
                                      ELSE Pl(IF p.tail = "no" THEN "rows" ELSE "orow", 0, p.tail)
  BY Zenon DEF After
<1>6. b.kind \in {"ROW", "BADROW"} => After(p, b) = Pl("rows", 0, p.tail)
  BY Zenon DEF After
<1>7. b.kind \in {"ERR", "BADERR", "JUNK"} => After(p, b) = Idle
  BY Zenon DEF After
<1>8. QED BY <1>1, <1>2, <1>3, <1>4, <1>5, <1>6, <1>7, Zenon

\* A reply starts at a place that is not idle.
LEMMA ReplyToType == ASSUME NEW o PROVE ReplyTo(o) \in Place /\ ReplyTo(o) # Idle
<1>1. ReplyTo(o) \in {At("first"), At("xfirst"), At("prep"), At("single")}
  BY Zenon DEF ReplyTo
<1>2. QED BY <1>1 DEF At, Pl, Idle, Place, Phases, Tails

\* The reader of a request starts at the beginning of the reply.
LEMMA ReaderForType == ASSUME NEW o PROVE ReaderFor(o) \in Reader /\ ReaderFor(o).at = ReplyTo(o)
<1>1. \/ ReaderFor(o) = Rd(ReplyTo(o), "stream")
      \/ ReaderFor(o) = Rd(ReplyTo(o), "one")
      \/ ReaderFor(o) = Rd(ReplyTo(o), "drain")
  BY Zenon DEF ReaderFor
<1>2. ReplyTo(o) \in Place
  BY ReplyToType, Zenon
<1>3. \A pl \in Place, m \in Modes : Rd(pl, m) \in Reader /\ Rd(pl, m).at = pl
  BY DEF Rd, Reader
<1>4. {"stream", "one", "drain"} \subseteq Modes
  BY DEF Modes
<1>5. "stream" \in Modes /\ "one" \in Modes /\ "drain" \in Modes
  BY <1>4
<1>6. QED BY <1>1, <1>2, <1>3, <1>5, Zenon

(***************************************************************************)
(* Types of the operators.                                                 *)
(***************************************************************************)

LEMMA PlType == ASSUME NEW ph \in Phases, NEW left \in Nat, NEW tail \in Tails PROVE Pl(ph, left, tail) \in Place
BY DEF Pl, Place

LEMMA AtType == ASSUME NEW ph \in Phases PROVE At(ph) \in Place
BY DEF At, Pl, Place, Tails

LEMMA RdType == ASSUME NEW at \in Place, NEW mode \in Modes PROVE Rd(at, mode) \in Reader
BY DEF Rd, Reader

LEMMA NotReadingType == NotReading \in Reader /\ DrainFirst \in Reader /\ Idle \in Place
BY DEF NotReading, DrainFirst, Idle, Phases, Modes, At, Pl, Place, Tails, Rd, Reader

\* What the server sends are packet bodies.
LEMMA RepliesType == ASSUME NEW p, NEW b \in Replies(p) PROVE b \in Body /\ b.kind \in KindsAt(p)
BY BoundsAssumption DEF Replies, KindsAt, Body

\* The server stays inside the places of a reply.
LEMMA AfterType == ASSUME NEW p \in Place, NEW b \in Body PROVE After(p, b) \in Place
<1>1. Metadata(b.n) \in Nat /\ Metadata(b.m) \in Nat
  BY DEF Metadata, Body
<1>2. At("first") \in Place /\ Idle \in Place
  BY AtType, NotReadingType DEF Phases
<1>3. p.ph \in Phases /\ p.left \in Nat /\ p.tail \in Tails /\ b.kind \in Kinds /\ b.more \in BOOLEAN /\ b.n \in Nat /\ b.m \in Nat
  BY DEF Place, Body
<1>4. CASE b.kind \in {"OK", "EOF"}
  BY <1>2, <1>4, AfterCases
<1>5. CASE b.kind = "OKOUT"
  BY <1>3, <1>5, AfterCases, PlType DEF Phases, Tails
<1>6. CASE b.kind = "HDR"
  BY <1>1, <1>3, <1>6, AfterCases, PlType DEF Phases
<1>7. CASE b.kind = "POK"
  BY <1>1, <1>2, <1>7, AfterCases, PlType DEF Phases, Tails
<1>8. CASE b.kind = "DEF"
  BY <1>2, <1>3, <1>8, AfterCases, PlType DEF Phases
<1>9. CASE b.kind \in {"ROW", "BADROW"}
  BY <1>3, <1>9, AfterCases, PlType DEF Phases
<1>10. CASE b.kind \in {"ERR", "BADERR", "JUNK"}
  BY <1>2, <1>10, AfterCases
<1>11. QED BY <1>3, <1>4, <1>5, <1>6, <1>7, <1>8, <1>9, <1>10 DEF Kinds

\* Taking a packet leaves a reader, an outcome and flags of the right type.
LEMMA TakePacketType ==
    ASSUME TypeOK, NEW c \in Callers, NEW b \in Body, TakePacket(c, b)
    PROVE  /\ rd' \in Reader
           /\ bad' \in BOOLEAN
           /\ pc' \in [Callers -> {"idle", "lock", "write", "read", "end", "mark"}]
           /\ out' \in [Callers -> Outcomes]
<1> DEFINE T == /\ rd' \in Reader /\ bad' \in BOOLEAN
                /\ pc' \in [Callers -> {"idle", "lock", "write", "read", "end", "mark"}]
                /\ out' \in [Callers -> Outcomes]
<1>1. /\ SkipMetadata(b.n) \in Nat /\ SkipMetadata(b.m) \in Nat
      /\ b.kind \in Kinds /\ b.more \in BOOLEAN
  BY DEF SkipMetadata, Body
<1>2. ASSUME NEW o \in Outcomes, FnReturns(c, o), rd' \in Reader, bad' \in BOOLEAN PROVE T
  BY <1>2 DEF TypeOK, FnReturns
<1>3. ASSUME NEW o \in Outcomes, Ends(c, o) PROVE T
  BY <1>2, <1>3, NotReadingType DEF Ends, TypeOK
<1>4. ASSUME Breaks(c) PROVE T
  BY <1>2, <1>4, NotReadingType DEF Breaks, MarkProtocolError, Outcomes
<1>5. ASSUME NEW r \in Reader, GoOn(r) PROVE T
  BY <1>5 DEF GoOn, TypeOK
<1>6. {"ok", "srv", "err", "late", "row", "rows"} \subseteq Outcomes
  BY DEF Outcomes
<1>7. rd \in Reader /\ rd.at \in Place /\ rd.at.tail \in Tails /\ rd.at.left \in Nat /\ rd.at.ph \in Phases
  BY DEF TypeOK, Reader, Place
<1>8. \A pl \in Place : [rd EXCEPT !.at = pl] \in Reader
  BY <1>7 DEF Reader
<1>9. ASSUME ReadSingle(c, b) PROVE T
  BY <1>3, <1>4, <1>6, <1>9 DEF ReadSingle
<1>10. ASSUME ReadPrepared(c, b) PROVE T
  <2>1. Rd(Pl("pdefs", SkipMetadata(b.n) + SkipMetadata(b.m), "no"), "one") \in Reader
    BY <1>1, PlType, RdType DEF Phases, Tails, Modes
  <2>2. QED BY <1>3, <1>4, <1>5, <1>6, <1>10, <2>1 DEF ReadPrepared
<1>11. ASSUME ReadFirst(c, b) PROVE T
  <2>1. [rd EXCEPT !.at = Pl("defs", SkipMetadata(b.n), rd.at.tail)] \in Reader
    BY <1>1, <1>7, <1>8, PlType DEF Phases
  <2>2. QED BY <1>3, <1>4, <1>5, <1>6, <1>11, <2>1, NotReadingType DEF ReadFirst
<1>12. ASSUME ReadExecuted(c, b) PROVE T
  <2>1. Rd(Pl("first", 0, IF b.more THEN "more" ELSE "last"), "out") \in Reader
    BY PlType, RdType DEF Phases, Tails, Modes
  <2>2. QED BY <1>5, <1>11, <1>12, <2>1 DEF ReadExecuted
<1>13. ASSUME ReadDefs(c) PROVE T
  <2>1. rd.at.left > 1 => [rd EXCEPT !.at = Pl(rd.at.ph, rd.at.left - 1, rd.at.tail)] \in Reader
    BY <1>7, <1>8, PlType
  <2>2. /\ [rd EXCEPT !.at = Pl("orow", 0, rd.at.tail)] \in Reader
        /\ [rd EXCEPT !.at = Pl("rows", 0, rd.at.tail)] \in Reader
    BY <1>7, <1>8, PlType DEF Phases
  <2>3. Rd(At("rows"), "next") \in Reader
    BY AtType, RdType DEF Phases, Modes
  <2>4. CASE rd.at.left > 1 /\ GoOn([rd EXCEPT !.at = Pl(rd.at.ph, rd.at.left - 1, rd.at.tail)])
    BY <1>5, <2>1, <2>4
  <2>5. CASE rd' = Rd(At("rows"), "next") /\ FnReturns(c, "rows") /\ UNCHANGED bad
    BY <1>2, <1>6, <2>3, <2>5 DEF TypeOK
  <2>6. CASE \/ GoOn([rd EXCEPT !.at = Pl("orow", 0, rd.at.tail)])
             \/ GoOn([rd EXCEPT !.at = Pl("rows", 0, rd.at.tail)])
             \/ Ends(c, "ok")
    BY <1>3, <1>5, <1>6, <2>2, <2>6
  <2>7. QED BY <1>13, <2>4, <2>5, <2>6 DEF ReadDefs
<1>14. ASSUME ReadOutRow(c, b) PROVE T
  <2>1. \A f \in {FALSE, AssignFails} : [at |-> Pl("rows", 0, rd.at.tail), mode |-> "drain", cnt |-> 0, fail |-> f] \in Reader
    <3>1. Pl("rows", 0, rd.at.tail) \in Place
      BY <1>7, PlType DEF Phases
    <3>2. QED BY <3>1, FlagsAssumption DEF Reader, Modes
  <2>2. QED BY <1>4, <1>5, <1>14, <2>1 DEF ReadOutRow
<1>15. ASSUME DrainRow(c, b) PROVE T
  <2>1. [rd EXCEPT !.cnt = rd.cnt + 1] \in Reader
    BY <1>7 DEF Reader
  <2>2. QED BY <1>3, <1>4, <1>5, <1>6, <1>15, <2>1, NotReadingType DEF DrainRow
<1>16. ASSUME NextRow(c, b) PROVE T
  <2>1. CASE b.kind = "ROW" /\ FnReturns(c, "row") /\ UNCHANGED <<bad, rd>>
    BY <1>2, <1>6, <1>7, <2>1 DEF TypeOK
  <2>2. CASE \/ GoOn(DrainFirst) \/ Ends(c, "ok") \/ Ends(c, "srv") \/ Ends(c, "late") \/ Breaks(c)
    BY <1>3, <1>4, <1>5, <1>6, <2>2, NotReadingType
  <2>3. QED BY <1>16, <2>1, <2>2 DEF NextRow
<1>17. QED
  BY <1>9, <1>10, <1>11, <1>12, <1>13, <1>14, <1>15, <1>16 DEF TakePacket

(***************************************************************************)
(* Type correctness.                                                       *)
(***************************************************************************)

LEMMA InitType == Init => TypeOK
<1>1. SUFFICES ASSUME Init PROVE TypeOK
  OBVIOUS
<1>2. NotReading \in Reader /\ Idle \in Place
  BY NotReadingType
<1>3. <<>> \in Seq(Packet) /\ <<>> \in Seq([cmd : AllOps, req : Nat])
  OBVIOUS
<1>4. 0 \in 0 .. SeqMod - 1
  BY BoundsAssumption
<1>5. QED BY <1>1, <1>2, <1>3, <1>4 DEF Init, TypeOK, Outcomes

\* Sequence numbers stay below the modulus.
LEMMA NextSeqType == ASSUME NEW n \in Nat PROVE NextSeq(n) \in 0 .. SeqMod - 1
BY BoundsAssumption DEF NextSeq

\* Every step keeps the types.
LEMMA NextType == TypeOK /\ CallsInPlace /\ [Next]_vars => TypeOK'
<1> SUFFICES ASSUME TypeOK, CallsInPlace, [Next]_vars PROVE TypeOK'
  OBVIOUS
<1> USE DEF lockVars, callVars, readVars, timeVars, wireVars, srvVars
<1>1. ASSUME NEW c \in Callers, NEW o \in Ops, Invoke(c, o) PROVE TypeOK'
  BY <1>1, OpsAssumption DEF TypeOK, Invoke
<1>2. ASSUME NEW c \in Callers, Refuse(c) PROVE TypeOK'
  BY <1>2 DEF TypeOK, Refuse, Return, Outcomes
<1>3. ASSUME NEW c \in Callers, Start(c) PROVE TypeOK'
  BY <1>3 DEF TypeOK, Start, Arm
<1>4. ASSUME NEW c \in Callers, NothingToSend(c) PROVE TypeOK'
  BY <1>4 DEF TypeOK, NothingToSend, Return, Outcomes
<1>5. ASSUME NEW c \in Callers, StartPrepare(c) PROVE TypeOK'
  BY <1>5 DEF TypeOK, StartPrepare, Arm
<1>6. ASSUME NEW c \in Callers, BeginTx(c) PROVE TypeOK'
  BY <1>6 DEF TypeOK, BeginTx, Return, Outcomes
<1>7. ASSUME NEW c \in Callers, CloseStmt(c) PROVE TypeOK'
  <2>1. WriteSeq \in 0 .. SeqMod - 1 /\ 0 \in 0 .. SeqMod - 1
    BY NextSeqType, BoundsAssumption DEF WriteSeq
  <2>2. cseq' \in 0 .. SeqMod - 1 /\ nreq' \in Nat
    BY <1>7, <2>1 DEF TypeOK, CloseStmt
  <2>3. /\ pc' \in [Callers -> {"idle", "lock", "write", "read", "end", "mark"}]
        /\ op' \in [Callers -> AllOps \cup RowsOps \cup {"none"}]
        /\ ctx' \in [Callers -> {"bg", "live", "done"}]
        /\ out' \in [Callers -> Outcomes]
    BY <1>7 DEF TypeOK, CloseStmt, Return, Outcomes
  <2>4. torn' \subseteq AllOps
    BY <1>7 DEF TypeOK, CloseStmt, CutOff, CanLock, AllOps
  <2>5. QED BY <1>7, <2>2, <2>3, <2>4 DEF TypeOK, CloseStmt
<1>8. ASSUME NEW c \in Callers, Close(c) PROVE TypeOK'
  <2>1. WriteSeq \in 0 .. SeqMod - 1
    BY NextSeqType DEF WriteSeq
  <2>2. cseq' \in 0 .. SeqMod - 1 /\ nreq' \in Nat
    <3>1. cseq \in 0 .. SeqMod - 1 /\ nreq \in Nat
      BY DEF TypeOK
    <3>2. QED BY <1>8, <2>1, <3>1 DEF Close
  <2>3. /\ net' \in {"up", "down"} /\ torn' \subseteq AllOps
        /\ toSrv' \in Seq([cmd : AllOps, req : Nat]) /\ toCli' \in Seq(Packet)
    BY <1>8, EmptySeq DEF TypeOK, Close
  <2>4. /\ pc' \in [Callers -> {"idle", "lock", "write", "read", "end", "mark"}]
        /\ op' \in [Callers -> AllOps \cup RowsOps \cup {"none"}]
        /\ ctx' \in [Callers -> {"bg", "live", "done"}]
        /\ out' \in [Callers -> Outcomes]
    BY <1>8 DEF TypeOK, Close, Return, Outcomes
  <2>5. QED BY <1>8, <2>2, <2>3, <2>4 DEF TypeOK, Close
<1>9. ASSUME NEW c \in Callers, Write(c) PROVE TypeOK'
  <2>1. WriteSeq \in 0 .. SeqMod - 1
    BY NextSeqType DEF WriteSeq
  <2>2. ReaderFor(op[c]) \in Reader
    BY ReaderForType, Zenon
  <2>3. toSrv' \in Seq([cmd : AllOps, req : Nat])
    <3>1. nreq + 1 \in Nat /\ op[c] \in AllOps
      BY <1>9 DEF TypeOK, Write, CallsInPlace, CheckedOps, AllOps
    <3>2. QED BY <1>9, <3>1, AppendProperties DEF TypeOK, Write
  <2>4. QED BY <1>9, <2>1, <2>2, <2>3 DEF TypeOK, Write
<1>10. ASSUME NEW c \in Callers, WriteFails(c) PROVE TypeOK'
  <2>1. 0 \in 0 .. SeqMod - 1
    BY BoundsAssumption
  <2>2. torn' \subseteq AllOps
    <3>1. op[c] \in AllOps
      BY <1>10 DEF WriteFails, CallsInPlace, CheckedOps, AllOps
    <3>2. QED BY <1>10, <3>1 DEF TypeOK, WriteFails, CutOff
  <2>3. pc' \in [Callers -> {"idle", "lock", "write", "read", "end", "mark"}] /\ out' \in [Callers -> Outcomes]
    BY <1>10 DEF TypeOK, WriteFails, FnReturns, Outcomes
  <2>4. QED BY <1>10, <2>1, <2>2, <2>3 DEF TypeOK, WriteFails
<1>11. ASSUME NEW c \in Callers, EncodeFails(c) PROVE TypeOK'
  <2>1. 0 \in 0 .. SeqMod - 1
    BY BoundsAssumption
  <2>2. QED BY <1>11, <2>1 DEF TypeOK, EncodeFails, FnReturns, Outcomes
<1>12. ASSUME NEW c \in Callers, Read(c) PROVE TypeOK'
  <2>1. Head(toCli) \in Packet /\ Tail(toCli) \in Seq(Packet)
    BY <1>12 DEF TypeOK, Read
  <2>2. Head(toCli).body \in Body
    BY <2>1 DEF Packet
  <2>3. NextSeq(cseq) \in 0 .. SeqMod - 1
    <3>1. cseq \in Nat
      BY BoundsAssumption DEF TypeOK
    <3>2. QED BY <3>1, NextSeqType
  <2>4. CASE Breaks(c) /\ UNCHANGED cseq
    BY <1>12, <2>1, <2>4, NotReadingType DEF TypeOK, Read, Breaks, MarkProtocolError, FnReturns, Outcomes
  <2>5. CASE TakePacket(c, Head(toCli).body) /\ cseq' = NextSeq(cseq)
    <3>1. /\ rd' \in Reader
          /\ bad' \in BOOLEAN
          /\ pc' \in [Callers -> {"idle", "lock", "write", "read", "end", "mark"}]
          /\ out' \in [Callers -> Outcomes]
      BY <2>2, <2>5, TakePacketType
    <3>2. QED BY <1>12, <2>1, <2>3, <2>5, <3>1 DEF TypeOK, Read
  <2>6. QED BY <1>12, <2>4, <2>5 DEF Read
<1>13. ASSUME NEW c \in Callers, ReadFails(c) PROVE TypeOK'
  BY <1>13, NotReadingType DEF TypeOK, ReadFails, Breaks, MarkProtocolError, FnReturns, Outcomes
<1>14. ASSUME NEW c \in Callers, TimeZoneSyncError(c) PROVE TypeOK'
  BY <1>14 DEF TypeOK, TimeZoneSyncError, Outcomes
<1>15. ASSUME NEW c \in Callers PROVE Answer(c) \in Outcomes /\ Failed(c) \in BOOLEAN /\ CtxErr(c) \in BOOLEAN /\ ConnErr(c) \in BOOLEAN
  BY DEF TypeOK, Answer, Failed, CtxErr, ConnErr, Outcomes
<1>16. ASSUME NEW c \in Callers, FinishCall(c) PROVE TypeOK'
  BY <1>15, <1>16 DEF TypeOK, FinishCall, Disarm, Return
<1>17. ASSUME NEW c \in Callers, FinishQuery(c) PROVE TypeOK'
  <2>1. /\ mu' \in Callers \cup {Unlocked, RowsHold} /\ bad' \in BOOLEAN /\ deadline' \in {"none", "armed", "past"}
        /\ watch' \in [Callers -> {"off", "wait"}]
    BY <1>15, <1>17 DEF TypeOK, FinishQuery, Disarm
  <2>2. /\ pc' \in [Callers -> {"idle", "lock", "write", "read", "end", "mark"}]
        /\ op' \in [Callers -> AllOps \cup RowsOps \cup {"none"}]
        /\ ctx' \in [Callers -> {"bg", "live", "done"}]
        /\ out' \in [Callers -> Outcomes]
    <3>1. CASE ConnErr(c) /\ ~CtxErr(c)
      BY <1>17, <3>1 DEF TypeOK, FinishQuery
    <3>2. CASE ~(ConnErr(c) /\ ~CtxErr(c))
      BY <1>15, <1>17, <3>2 DEF TypeOK, FinishQuery, Return
    <3>3. QED BY <3>1, <3>2
  <2>3. QED BY <1>17, <2>1, <2>2 DEF TypeOK, FinishQuery
<1>18. ASSUME NEW c \in Callers, MarkBad(c) PROVE TypeOK'
  BY <1>18 DEF TypeOK, MarkBad, Return, Outcomes
<1>19. ASSUME NEW c \in Callers, FinishPrepare(c) PROVE TypeOK'
  BY <1>15, <1>19 DEF TypeOK, FinishPrepare, Disarm, Return
<1>20. ASSUME NEW c \in Callers, FinishReset(c) PROVE TypeOK'
  <2>1. /\ mu' \in Callers \cup {Unlocked, RowsHold} /\ deadline' \in {"none", "armed", "past"}
        /\ watch' \in [Callers -> {"off", "wait"}]
    BY <1>15, <1>20 DEF TypeOK, FinishReset, Arm, Disarm
  <2>2. bad' \in BOOLEAN /\ fault' \in BOOLEAN /\ inTx' \in BOOLEAN
    BY <1>15, <1>20 DEF TypeOK, FinishReset
  <2>3. /\ pc' \in [Callers -> {"idle", "lock", "write", "read", "end", "mark"}]
        /\ op' \in [Callers -> AllOps \cup RowsOps \cup {"none"}]
        /\ ctx' \in [Callers -> {"bg", "live", "done"}]
        /\ out' \in [Callers -> Outcomes]
    BY <1>15, <1>20 DEF TypeOK, FinishReset, Return, Outcomes
  <2>4. QED BY <1>20, <2>1, <2>2, <2>3 DEF TypeOK, FinishReset
<1>21. ASSUME NEW c \in Callers, FinishResetStmt(c) PROVE TypeOK'
  BY <1>21 DEF TypeOK, FinishResetStmt, Return
<1>22. ASSUME NEW c \in Callers, FinishRows(c) PROVE TypeOK'
  <2>1. CASE out[c] = "late"
    BY <1>22, <2>1 DEF TypeOK, FinishRows
  <2>2. CASE out[c] # "late"
    <3>1. Return(c, out[c]) /\ out[c] \in Outcomes
      BY <1>22, <2>2 DEF TypeOK, FinishRows
    <3>2. /\ pc' \in [Callers -> {"idle", "lock", "write", "read", "end", "mark"}]
          /\ op' \in [Callers -> AllOps \cup RowsOps \cup {"none"}]
          /\ ctx' \in [Callers -> {"bg", "live", "done"}]
          /\ out' \in [Callers -> Outcomes]
      BY <3>1 DEF TypeOK, Return
    <3>3. QED BY <1>22, <3>2 DEF TypeOK, FinishRows
  <2>3. QED BY <2>1, <2>2
<1>23. ASSUME NEW c \in Callers, NEW o \in RowsOps, RowsCall(c, o) PROVE TypeOK'
  <2>1. Rd(At("rows"), "next") \in Reader /\ Rd(At("rows"), "drain") \in Reader
    BY AtType, RdType DEF Phases, Modes
  <2>2. QED BY <1>23, <2>1 DEF TypeOK, RowsCall
<1>24. ASSUME NEW c \in Callers, NextRows(c) \/ CloseRows(c) PROVE TypeOK'
  BY <1>23, <1>24 DEF NextRows, CloseRows, RowsOps
<1>25. ASSUME NEW c \in Callers, Cancel(c) PROVE TypeOK'
  BY <1>25 DEF TypeOK, Cancel
<1>26. ASSUME NEW c \in Callers, WatcherWakes(c) PROVE TypeOK'
  BY <1>26 DEF TypeOK, WatcherWakes
<1>27. ASSUME WatcherFires PROVE TypeOK'
  <2>1. pending' \in Nat
    BY <1>27 DEF TypeOK, WatcherFires
  <2>2. deadline' \in {"none", "armed", "past"} /\ crashed' \in BOOLEAN
    BY <1>27 DEF TypeOK, WatcherFires
  <2>3. QED BY <1>27, <2>1, <2>2 DEF TypeOK, WatcherFires
<1>28. ASSUME Expire PROVE TypeOK'
  BY <1>28 DEF TypeOK, Expire
<1>29. ASSUME Drop PROVE TypeOK'
  <2>1. toSrv' \in Seq([cmd : AllOps, req : Nat]) /\ toCli' \in Seq(Packet)
    BY <1>29, EmptySeq DEF TypeOK, Drop
  <2>2. QED BY <1>29, <2>1 DEF TypeOK, Drop
<1>30. ASSUME ServerStarts PROVE TypeOK'
  <2>1. Head(toSrv) \in [cmd : AllOps, req : Nat] /\ Tail(toSrv) \in Seq([cmd : AllOps, req : Nat])
    BY <1>30, HeadTailProperties DEF TypeOK, ServerStarts
  <2>2. ReplyTo(Head(toSrv).cmd) \in Place
    BY ReplyToType, Zenon
  <2>3. QED BY <1>30, <2>1, <2>2 DEF TypeOK, ServerStarts
<1>31. ASSUME ServerSends PROVE TypeOK'
  <2>1. PICK b \in Replies(srv) :
           /\ toCli' = Append(toCli, [req |-> srvAt.req, seq |-> srvAt.seq, st |-> srv, body |-> b])
           /\ srv' = After(srv, b)
           /\ srvAt' = [srvAt EXCEPT !.seq = (srvAt.seq + 1) % SeqMod,
                                     !.nrow = IF b.kind \in {"ROW", "BADROW"} THEN srvAt.nrow + 1 ELSE 0,
                                     !.nset = IF b.more THEN srvAt.nset + 1 ELSE srvAt.nset]
           /\ longest' = IF b.kind \in {"ROW", "BADROW"} /\ srvAt.nrow + 1 > longest THEN srvAt.nrow + 1 ELSE longest
           /\ fault' = (fault \/ b.kind \in {"JUNK", "BADROW", "BADERR"})
    BY <1>31 DEF ServerSends
  <2>2. b \in Body
    BY RepliesType
  <2>3. srv' \in Place
    BY <2>1, <2>2, AfterType DEF TypeOK
  <2>4. toCli' \in Seq(Packet)
    BY <2>1, <2>2 DEF TypeOK, Packet
  <2>5. srvAt' \in [req : Nat, seq : Nat, nrow : Nat, nset : Nat]
    <3>1. (srvAt.seq + 1) % SeqMod \in Nat /\ srvAt.nrow + 1 \in Nat /\ srvAt.nset + 1 \in Nat
      <4>1. \A x \in Nat, y \in Nat \ {0} : x % y \in Nat
        OBVIOUS
      <4>2. srvAt.seq \in Nat /\ srvAt.nrow \in Nat /\ srvAt.nset \in Nat
        BY DEF TypeOK
      <4>3. SeqMod \in Nat \ {0}
        BY BoundsAssumption
      <4>4. QED BY <4>1, <4>2, <4>3
    <3>2. QED BY <2>1, <3>1 DEF TypeOK
  <2>6. QED BY <1>31, <2>1, <2>3, <2>4, <2>5 DEF TypeOK, ServerSends
<1>32. CASE UNCHANGED vars
  BY <1>32 DEF TypeOK, vars
<1>33. QED
  BY <1>1, <1>2, <1>3, <1>4, <1>5, <1>6, <1>7, <1>8, <1>9, <1>10, <1>11, <1>12, <1>13, <1>14,
     <1>16, <1>17, <1>18, <1>19, <1>20, <1>21, <1>22, <1>24, <1>25, <1>26, <1>27, <1>28, <1>29,
     <1>30, <1>31, <1>32 DEF Next, ClientStep, TakesLock, CallStep

(***************************************************************************)
(* The lock.                                                               *)
(***************************************************************************)

\* Reading, and the ends of writing and reading, move pc inside the call only.
LEMMA TakePacketView ==
    ASSUME NEW c \in Callers, NEW b, pc[c] = "read", TypeOK, TakePacket(c, b)
    PROVE  pc' \in {pc, [pc EXCEPT ![c] = "end"]}
BY DEF TypeOK, TakePacket, ReadSingle, ReadPrepared, ReadFirst, ReadExecuted, ReadDefs, ReadOutRow, DrainRow, NextRow,
       GoOn, Ends, Breaks, FnReturns

LEMMA InitLock == Init => LockInv
BY CallersAssumption DEF Init, LockInv, CallsInPlace, LockHeld, PrepareIsAlone, Past

\* Every step keeps the lock invariant.  Steps <1>1 to <1>9 are the ways in which a
\* call may move, the others put each action under one of them.
LEMMA NextLock == TypeOK /\ LockInv /\ [Next]_vars => LockInv'
<1> SUFFICES ASSUME TypeOK, LockInv, [Next]_vars PROVE LockInv'
  OBVIOUS
<1> USE DEF lockVars, callVars, readVars, timeVars, wireVars, srvVars
<1>1. ASSUME UNCHANGED <<mu, pc, op>> PROVE LockInv'
  BY <1>1 DEF LockInv, CallsInPlace, LockHeld, PrepareIsAlone, Past
<1>2. ASSUME NEW c \in Callers, NEW o \in Ops, Gate(c), mu = RowsHold => OverRows, mu' = mu,
             pc' = [pc EXCEPT ![c] = "lock"], op' = [op EXCEPT ![c] = o]
      PROVE  LockInv'
  <2>1. CallsInPlace'
    BY <1>2 DEF TypeOK, LockInv, CallsInPlace, Past
  <2>2. LockHeld'
    BY <1>2 DEF TypeOK, LockInv, LockHeld, Past, Gate
  <2>3. ASSUME NEW d \in Callers, op'[d] = "prepare", pc'[d] # "idle", PrepareAlone
        PROVE  mu' = Unlocked /\ \A e \in Callers : e # d => pc'[e] = "idle"
    <3>1. "prepare" \in Ops
      BY <1>2, <2>3 DEF TypeOK, LockInv, CallsInPlace, RowsOps
    <3>2. DcLock /\ ~OverRows /\ \A e \in Callers : pc[e] = "idle"
      BY <1>2, <2>3, <3>1 DEF PrepareAlone, Gate
    <3>3. d = c
      BY <1>2, <2>3, <3>2 DEF TypeOK
    <3>4. mu = Unlocked
      BY <1>2, <3>2 DEF TypeOK, LockInv, LockHeld, Past
    <3>5. QED BY <1>2, <3>2, <3>3, <3>4 DEF TypeOK
  <2>4. QED BY <2>1, <2>2, <2>3 DEF LockInv, PrepareIsAlone, PrepareAlone
<1>3. ASSUME NEW c \in Callers, pc[c] = "lock", mu = Unlocked, op[c] \in CheckedOps, mu' = c,
             pc' = [pc EXCEPT ![c] = "write"], op' = op
      PROVE  LockInv'
  BY <1>3, CallersAssumption
     DEF TypeOK, LockInv, CallsInPlace, LockHeld, PrepareIsAlone, Past, CheckedOps, RowsOps
<1>4. ASSUME NEW c \in Callers, pc[c] = "lock", op[c] = "prepare", mu' = mu,
             pc' = [pc EXCEPT ![c] = "write"], op' = op
      PROVE  LockInv'
  BY <1>4, CallersAssumption
     DEF TypeOK, LockInv, CallsInPlace, LockHeld, PrepareIsAlone, Past, CheckedOps, RowsOps
<1>5. ASSUME NEW c \in Callers, pc[c] \in {"lock", "mark"} \/ (pc[c] = "end" /\ op[c] = "prepare"), mu' = mu,
             pc' = [pc EXCEPT ![c] = "idle"], op' = [op EXCEPT ![c] = "none"]
      PROVE  LockInv'
  BY <1>5, CallersAssumption
     DEF TypeOK, LockInv, CallsInPlace, LockHeld, PrepareIsAlone, Past, CheckedOps, RowsOps
<1>6. ASSUME NEW c \in Callers, pc[c] \in {"write", "read"}, mu' = mu, op' = op,
             pc' \in {pc, [pc EXCEPT ![c] = "read"], [pc EXCEPT ![c] = "end"]}
      PROVE  LockInv'
  <2>1. CASE pc' = pc
    BY <1>6, <2>1 DEF LockInv, CallsInPlace, LockHeld, PrepareIsAlone, Past
  <2>2. CASE pc' = [pc EXCEPT ![c] = "read"]
    BY <1>6, <2>2 DEF TypeOK, LockInv, CallsInPlace, LockHeld, PrepareIsAlone, Past
  <2>3. CASE pc' = [pc EXCEPT ![c] = "end"]
    BY <1>6, <2>3 DEF TypeOK, LockInv, CallsInPlace, LockHeld, PrepareIsAlone, Past
  <2>4. QED BY <1>6, <2>1, <2>2, <2>3
<1>7. ASSUME NEW c \in Callers, pc[c] = "end", op[c] \in CheckedOps \cup RowsOps, mu' \in {Unlocked, RowsHold},
             \/ pc' = [pc EXCEPT ![c] = "idle"] /\ op' = [op EXCEPT ![c] = "none"]
             \/ pc' = [pc EXCEPT ![c] = "mark"] /\ op' = op
      PROVE  LockInv'
  <2>1. CallsInPlace'
    BY <1>7 DEF TypeOK, LockInv, CallsInPlace, Past
  <2>2. \A d \in Callers : d # c => ~(Past(d) /\ op[d] \in CheckedOps) /\ ~(Past(d) /\ op[d] \in RowsOps)
    BY <1>7, CallersAssumption DEF TypeOK, LockInv, LockHeld, Past
  <2>3. LockHeld'
    <3>1. ~Past(c)' /\ \A d \in Callers : d # c => pc'[d] = pc[d] /\ op'[d] = op[d]
      BY <1>7 DEF TypeOK, Past
    <3>2. \A d \in Callers : ~(Past(d)' /\ op'[d] \in CheckedOps) /\ ~(Past(d)' /\ op'[d] \in RowsOps)
      BY <2>2, <3>1 DEF Past
    <3>3. \A d \in Callers : mu' # d
      BY <1>7, CallersAssumption
    <3>4. QED BY <3>2, <3>3 DEF LockHeld
  <2>4. PrepareIsAlone'
    BY <1>7 DEF TypeOK, LockInv, PrepareIsAlone, PrepareAlone, CheckedOps, RowsOps
  <2>5. QED BY <2>1, <2>3, <2>4 DEF LockInv
<1>8. ASSUME NEW c \in Callers, pc[c] = "end", op[c] = "reset", mu' = mu, pc' = [pc EXCEPT ![c] = "write"], op' = op
      PROVE  LockInv'
  BY <1>8 DEF TypeOK, LockInv, CallsInPlace, LockHeld, PrepareIsAlone, Past, CheckedOps, RowsOps
<1>9. ASSUME NEW c \in Callers, NEW o \in RowsOps, RowsCall(c, o) PROVE LockInv'
  BY <1>9, CallersAssumption
     DEF TypeOK, LockInv, CallsInPlace, LockHeld, PrepareIsAlone, Past, CheckedOps, RowsOps, Gate, RowsCall
<1>10. ASSUME NEW c \in Callers, NEW o \in Ops, Invoke(c, o) PROVE LockInv'
  BY <1>2, <1>10 DEF Invoke
<1>11. ASSUME NEW c \in Callers, Refuse(c) \/ NothingToSend(c) \/ BeginTx(c) \/ Close(c) \/ MarkBad(c) PROVE LockInv'
  BY <1>5, <1>11 DEF Refuse, NothingToSend, BeginTx, Close, MarkBad, CanLock, Return
<1>12. ASSUME NEW c \in Callers, CloseStmt(c) PROVE LockInv'
  BY <1>5, <1>12 DEF CloseStmt, CanLock, Return
<1>13. ASSUME NEW c \in Callers, Start(c) PROVE LockInv'
  BY <1>3, <1>13 DEF Start, CanLock
<1>14. ASSUME NEW c \in Callers, StartPrepare(c) PROVE LockInv'
  BY <1>4, <1>14 DEF StartPrepare
<1>15. ASSUME NEW c \in Callers, Write(c) \/ WriteFails(c) \/ EncodeFails(c) \/ ReadFails(c) PROVE LockInv'
  BY <1>6, <1>15 DEF Write, WriteFails, EncodeFails, ReadFails, Breaks, FnReturns
<1>16. ASSUME NEW c \in Callers, Read(c) PROVE LockInv'
  <2>1. CASE Breaks(c)
    BY <1>6, <1>16, <2>1 DEF Read, Breaks, FnReturns
  <2>2. CASE TakePacket(c, Head(toCli).body)
    BY <1>6, <1>16, <2>2, TakePacketView DEF Read
  <2>3. QED BY <1>16, <2>1, <2>2 DEF Read
<1>17. ASSUME NEW c \in Callers, FinishCall(c) \/ FinishQuery(c) \/ FinishResetStmt(c) \/ FinishRows(c) PROVE LockInv'
  BY <1>7, <1>17 DEF FinishCall, FinishQuery, FinishResetStmt, FinishRows, Return, CheckedOps
<1>18. ASSUME NEW c \in Callers, FinishPrepare(c) PROVE LockInv'
  BY <1>5, <1>18 DEF FinishPrepare, Return
<1>19. ASSUME NEW c \in Callers, FinishReset(c) PROVE LockInv'
  <2>1. CASE pc' = [pc EXCEPT ![c] = "write"] /\ UNCHANGED <<mu, op>>
    BY <1>8, <1>19, <2>1 DEF FinishReset
  <2>2. CASE mu' = Unlocked /\ Return(c, IF Failed(c) THEN "bad" ELSE "ok")
    BY <1>7, <1>19, <2>2 DEF FinishReset, Return, CheckedOps
  <2>3. QED BY <1>19, <2>1, <2>2 DEF FinishReset
<1>20. ASSUME NEW c \in Callers, NextRows(c) \/ CloseRows(c) PROVE LockInv'
  BY <1>9, <1>20 DEF NextRows, CloseRows, RowsOps
<1>21. ASSUME NEW c \in Callers, TimeZoneSyncError(c) \/ Cancel(c) \/ WatcherWakes(c) PROVE LockInv'
  BY <1>1, <1>21 DEF TimeZoneSyncError, Cancel, WatcherWakes
<1>22. ASSUME WatcherFires \/ Expire \/ Drop \/ ServerStarts \/ ServerSends \/ UNCHANGED vars PROVE LockInv'
  BY <1>1, <1>22 DEF WatcherFires, Expire, Drop, ServerStarts, ServerSends, vars
<1>23. QED
  BY <1>10, <1>11, <1>12, <1>13, <1>14, <1>15, <1>16, <1>17, <1>18, <1>19, <1>20, <1>21, <1>22
     DEF Next, ClientStep, TakesLock, CallStep

\* Type correctness: in every behaviour of a connection, for any number of callers
\* and any bounds, every variable keeps its type; the mutex is free, held by a
\* caller or held by the open Rows.
THEOREM TypeCorrect == Spec => []TypeOK
<1>1. LockInv => CallsInPlace
  BY DEF LockInv
<1>2. QED BY <1>1, InitType, InitLock, NextType, NextLock, PTL DEF Spec

\* The wire has one user at a time, for any number of goroutines, and an open Rows
\* has it to itself: the calls that write or read hold the lock, or are methods of
\* the Rows it was handed to.  PrepareContext takes no lock, so it must be kept
\* apart by its callers (PrepareAlone).
THEOREM OneUserOfTheWire == ASSUME PrepareAlone PROVE Spec => []WireExclusive
<1>1. LockInv => CallsInPlace
  BY DEF LockInv
<1>2. LockInv => WireExclusive
  BY CallersAssumption DEF LockInv, CallsInPlace, LockHeld, PrepareIsAlone, PrepareAlone, Past, WireExclusive, OnWire
<1>3. QED BY <1>1, <1>2, InitType, InitLock, NextType, NextLock, PTL DEF Spec
=============================================================================
