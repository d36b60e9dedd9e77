-------------------------------- MODULE Codec --------------------------------
(***************************************************************************)
(* The encodings of the protocol, as sequences of bytes: length-encoded    *)
(* integers and strings (lenenc.go), result-set terminators and text rows  *)
(* (rows.go), binary rows and times (binary.go), the parameters of a       *)
(* statement execution (conn_stmt.go).                                     *)
(*                                                                         *)
(* An error is Fail.  A value is its kind and its bytes or its number;     *)
(* floating point numbers are eight bytes like an integer and left out.    *)
(***************************************************************************)
EXTENDS Integers, SequencesExt

\* Little-endian, k bytes, and back (at most 31 bits are used).
LE(n, k) == LET shift[i \in 0..k] == IF i = 0 THEN n ELSE shift[i - 1] \div 256
            IN [i \in 1..k |-> shift[i - 1] % 256]
UnLE(b) == FoldRight(LAMBDA x, acc : x + 256 * acc, b, 0)
From(b, i) == SubSeq(b, i, Len(b))
\* Two's complement.
Signed(b) == IF Last(b) >= 128 THEN -1 - UnLE([i \in DOMAIN b |-> 255 - b[i]]) ELSE UnLE(b)

Fail == [ok |-> FALSE]
Bit(byte, i) == (byte \div 2 ^ i) % 2 = 1
Null == [kind |-> "null"]

(***************************************************************************)
(* lenenc.go.                                                              *)
(***************************************************************************)
PutLengthEncodedInt(n) ==
    IF n < 251 THEN <<n>>
    ELSE IF n <= 65535 THEN <<252>> \o LE(n, 2)
    ELSE IF n <= 16777215 THEN <<253>> \o LE(n, 3)
    ELSE <<254>> \o LE(n, 8)

Number(n, used) == [ok |-> TRUE, null |-> FALSE, n |-> n, used |-> used]
NullNumber == [ok |-> TRUE, null |-> TRUE, n |-> 0, used |-> 1]

ReadLengthEncodedInt(src) ==
    LET Fixed(k) == IF Len(src) < k + 1 THEN Fail ELSE Number(UnLE(SubSeq(src, 2, k + 1)), k + 1)
    IN IF src = <<>> \/ src[1] = 255 THEN Fail
       ELSE IF src[1] = 251 THEN NullNumber
       ELSE IF src[1] \in 252..254 THEN Fixed(<<2, 3, 8>>[src[1] - 251])
       ELSE Number(src[1], 1)

PutLengthEncodedString(s) == PutLengthEncodedInt(Len(s)) \o s

ReadLengthEncodedString(src) ==
    LET Content(r) ==
            IF ~r.ok THEN Fail
            ELSE IF r.null THEN [ok |-> TRUE, null |-> TRUE, s |-> <<>>, used |-> r.used]
            ELSE IF Len(src) - r.used < r.n THEN Fail
            ELSE [ok |-> TRUE, null |-> FALSE, s |-> SubSeq(src, r.used + 1, r.used + r.n), used |-> r.used + r.n]
    IN Content(ReadLengthEncodedInt(src))

(***************************************************************************)
(* Terminators of result sets.                                             *)
(***************************************************************************)
EOFHeader == 254
MoreResults == 3        \* bit of SERVER_MORE_RESULTS_EXISTS
StateChanged == 14      \* bit of SERVER_SESSION_STATE_CHANGED
Flag(status, bit) == (status \div 2 ^ bit) % 2 = 1

\* packetStatusFlags: the status if the packet is an OK with this header.  pos is the
\* place of the next field.
PacketStatusFlags(packet, header, sessionTrack) ==
    LET End == Len(packet) + 1
        Found(status) == [ok |-> TRUE, status |-> status]
        EndsAt(pos, status) == IF pos = End THEN Found(status) ELSE Fail
        State(pos, status, state) == IF ~state.ok THEN Fail ELSE EndsAt(pos + state.used, status)
        Info(pos, status, info) ==
            IF ~info.ok THEN Fail
            ELSE IF ~Flag(status, StateChanged) THEN EndsAt(pos + info.used, status)
            ELSE State(pos + info.used, status, ReadLengthEncodedString(From(packet, pos + info.used)))
        Status(pos, status) ==
            IF pos = End \/ ~sessionTrack THEN Found(status)
            ELSE Info(pos, status, ReadLengthEncodedString(From(packet, pos)))
        LastID(pos, id) ==
            IF ~id.ok \/ End < pos + id.used + 4 THEN Fail
            ELSE Status(pos + id.used + 4, UnLE(SubSeq(packet, pos + id.used, pos + id.used + 1)))
        Affected(pos, rows) ==
            IF ~rows.ok THEN Fail
            ELSE LastID(pos + rows.used, ReadLengthEncodedInt(From(packet, pos + rows.used)))
    IN IF packet = <<>> \/ packet[1] # header THEN Fail
       ELSE Affected(2, ReadLengthEncodedInt(From(packet, 2)))

IsEOFPacket(packet) == Len(packet) \in {1, 5} /\ packet[1] = EOFHeader
IsResultSetOKPacket(packet, sessionTrack) == PacketStatusFlags(packet, EOFHeader, sessionTrack).ok

TerminatorByHeader(packet, resultSetOK, sessionTrack) == packet # <<>> /\ packet[1] \in {0, EOFHeader}
IsResultSetTerminatorForMode(packet, resultSetOK, sessionTrack) ==
    IF resultSetOK THEN IsResultSetOKPacket(packet, sessionTrack) ELSE IsEOFPacket(packet)

ResultSetTerminatorHasMoreResults(packet, sessionTrack) ==
    IF IsEOFPacket(packet) THEN Len(packet) = 5 /\ Flag(UnLE(SubSeq(packet, 4, 5)), MoreResults)
    ELSE LET r == PacketStatusFlags(packet, EOFHeader, sessionTrack)
         IN r.ok /\ Flag(r.status, MoreResults)

(***************************************************************************)
(* Rows.  A reader takes the values one after the other; what is left must *)
(* be nothing.                                                             *)
(***************************************************************************)
String(s) == [kind |-> "string", s |-> s]
Integer(n) == [kind |-> "int", n |-> n]

\* The row with the next value, which r is the reading of.
WithValue(row, r, v) == IF ~r.ok THEN [row EXCEPT !.ok = FALSE]
                        ELSE [row EXCEPT !.pos = @ + r.used, !.vals = Append(@, v)]
\* The values, if the packet ends with the last one.
Whole(row, packet) == IF row.ok /\ row.pos = Len(packet) + 1 THEN [ok |-> TRUE, vals |-> row.vals] ELSE Fail

\* parseTextRowInLocation; textValue turns the bytes into a number or a time.
ParseTextRow(packet, columnCount) ==
    LET Value(row, r) == WithValue(row, r, IF r.null THEN Null ELSE String(r.s))
        Column(row, i) == IF ~row.ok THEN row ELSE Value(row, ReadLengthEncodedString(From(packet, row.pos)))
    IN Whole(FoldLeft(Column, [ok |-> TRUE, pos |-> 1, vals |-> <<>>], [i \in 1..columnCount |-> i]), packet)

ZeroTime == [kind |-> "time", date |-> <<1, 1, 1>>, clock |-> <<0, 0, 0>>, nsec |-> 0]

AppendBinaryTime(t) ==
    IF t = ZeroTime THEN <<0>>
    ELSE LET day == LE(t.date[1], 2) \o <<t.date[2], t.date[3]>> IN
         IF t.nsec # 0 THEN <<11>> \o day \o t.clock \o LE(t.nsec \div 1000, 4)
         ELSE IF t.clock # <<0, 0, 0>> THEN <<7>> \o day \o t.clock
         ELSE <<4>> \o day

\* ParseBinaryTime, for the lengths a server sends (0, 4, 7, 11).
ParseBinaryTime(data) ==
    IF data = <<>> THEN Fail
    ELSE LET n == data[1] IN
         IF n = 0 THEN [ok |-> TRUE, v |-> ZeroTime, used |-> 1]
         ELSE IF Len(data) < n + 1 THEN Fail
         ELSE [ok |-> TRUE, used |-> n + 1,
               v |-> [kind |-> "time",
                      date |-> <<UnLE(SubSeq(data, 2, 3)), data[4], data[5]>>,
                      clock |-> IF n >= 7 THEN SubSeq(data, 6, 8) ELSE <<0, 0, 0>>,
                      nsec |-> IF n >= 11 THEN UnLE(SubSeq(data, 9, 12)) * 1000 ELSE 0]]

Widths == [tiny |-> 1, short |-> 2, long |-> 4, longlong |-> 8]
\* Types read as a length-encoded string; decimals, blobs, RAW, intervals and the like are
\* read as varstring is.  Floats and the time types of Oracle are left out, others refused.
StringTypes == {"varstring"}
ParseBinaryValue(data, typ) ==
    LET Fixed(w) == IF Len(data) < w THEN Fail
                    ELSE [ok |-> TRUE, v |-> Integer(Signed(SubSeq(data, 1, w))), used |-> w]
        Bytes(r) == IF r.ok THEN [ok |-> TRUE, v |-> String(r.s), used |-> r.used] ELSE Fail
    IN IF typ \in DOMAIN Widths THEN Fixed(Widths[typ])
       ELSE IF typ = "datetime" THEN ParseBinaryTime(data)
       ELSE IF typ \in StringTypes THEN Bytes(ReadLengthEncodedString(data))
       ELSE Fail

RowBitOfParams(i) == i
\* Where the bitmap of a row has column i, counted from 0.
RowBit(i) == i + 2

ParseBinaryRow(packet, types) ==
    LET n == Len(types)
        bitmapLen == (n + 7 + 2) \div 8
        IsNull(bit) == Bit(packet[2 + bit \div 8], bit % 8)
        Value(row, r) == WithValue(row, r, r.v)
        Column(row, i) ==
            IF ~row.ok THEN row
            ELSE IF IsNull(RowBit(i - 1)) THEN [row EXCEPT !.vals = Append(@, Null)]
            ELSE Value(row, ParseBinaryValue(From(packet, row.pos), types[i]))
    IN IF packet = <<>> \/ packet[1] # 0 THEN Fail
       ELSE IF Len(packet) < 1 + bitmapLen THEN Fail
       ELSE Whole(FoldLeft(Column, [ok |-> TRUE, pos |-> 2 + bitmapLen, vals |-> <<>>], [i \in 1..n |-> i]), packet)

(***************************************************************************)
(* Parameters.                                                             *)
(***************************************************************************)
GetBinaryParamType(v) == CASE v.kind = "null"   -> "null"
                           [] v.kind = "int"    -> "longlong"
                           [] v.kind = "bool"   -> "tiny"
                           [] v.kind = "string" -> "varstring"
                           [] v.kind = "time"   -> "datetime"

AppendBinaryParam(v) == CASE v.kind = "null"   -> <<>>
                          [] v.kind = "int"    -> LE(v.n, 8)
                          [] v.kind = "bool"   -> <<IF v.b THEN 1 ELSE 0>>
                          [] v.kind = "string" -> PutLengthEncodedString(v.s)
                          [] v.kind = "time"   -> AppendBinaryTime(v)

BitmapLenShort(n) == n \div 8
BitmapLen(n) == (n + 7) \div 8

\* writeExecute, after the header: [nulls, types, values].
WriteExecute(args) ==
    [nulls  |-> [b \in 1..BitmapLen(Len(args)) |->
                    FoldLeft(LAMBDA acc, i : IF (i - 1) \div 8 = b - 1 /\ args[i] = Null
                                             THEN acc + 2 ^ ((i - 1) % 8) ELSE acc,
                             0, [i \in 1..Len(args) |-> i])],
     types  |-> [i \in DOMAIN args |-> GetBinaryParamType(args[i])],
     values |-> FlattenSeq([i \in DOMAIN args |-> AppendBinaryParam(args[i])])]

\* One value of COM_STMT_BULK_EXECUTE: an indicator, then the value.
BulkValue(v) == IF v = Null THEN <<1>> ELSE <<0>> \o AppendBinaryParam(v)

\* stmtBulkExecLocked, after the header: the types of the first row, then all values.
WriteBulk(rows) ==
    [types  |-> [i \in DOMAIN rows[1] |-> GetBinaryParamType(rows[1][i])],
     values |-> FlattenSeq([r \in DOMAIN rows |->
                    FlattenSeq([i \in DOMAIN rows[r] |-> BulkValue(rows[r][i])])])]
=============================================================================
