------------------------------- MODULE Packet -------------------------------
(***************************************************************************)
(* The packet layer (internal/protocol/packet.go): WritePacket splits a    *)
(* payload into MySQL packets and wraps them in the negotiated framing,    *)
(* ReadPacket unwraps and reassembles.  One end writes, the other reads;   *)
(* the writer is this code or a server that cuts its stream of MySQL       *)
(* packets into OB20 frames wherever it likes.                             *)
(*                                                                         *)
(* A byte is abstracted to what it is part of: <<"h", n, s>> a byte of the *)
(* header of a MySQL packet of length n and number s, <<"d", i, k>> byte k *)
(* of payload i, <<"x", 0, 0>> extra info, <<"z", c, u>> a byte of a       *)
(* compressed header, <<"c", k, b>> byte k of the zlib stream of b.        *)
(* Checksums and zlib itself are taken to be right.                        *)
(***************************************************************************)
EXTENDS Naturals, Sequences

CONSTANTS
    Framings,   \* the framings a connection may have negotiated, of AllFramings
    MaxLen,     \* maxPayloadLen, 2^24 - 1 in the code
    HdrLen,     \* bytes of a MySQL packet header: 4
    FixLen,     \* OB20HeaderLen + OB20TailLen
    ExtraLens,  \* lengths of the extra info put into OB20 frames, its length field included
    Small,      \* packets of at most this many bytes are not compressed: 50
    ZipHdrLen,  \* bytes of a compressed header: 7
    ZLen,       \* bytes zlib makes of a packet that is worth compressing
    SeqMod,     \* a sequence number is a byte: 256
    Lens,       \* bound: payload lengths, for each framing
    MaxMsgs,    \* bound: packets written
    Window      \* bound: frames on the wire (socket buffers)

\* "server": OB20 framing, and the writer is a server that cuts frames freely.
AllFramings == {"plain", "zip", "ob20", "server"}

\* maxOB20Chunk
Chunk == MaxLen - FixLen - HdrLen

ASSUME FramingAssumption == Framings \subseteq AllFramings /\ Lens \in [Framings -> SUBSET Nat]
ASSUME SizesAssumption ==
    /\ {MaxLen, HdrLen, FixLen, ZipHdrLen, ZLen, SeqMod} \subseteq Nat \ {0}
    /\ FixLen + HdrLen < MaxLen
    /\ {Small, MaxMsgs, Window} \subseteq Nat
    /\ ExtraLens \subseteq Nat

VARIABLES
    mode,   \* the framing of this connection
    sent,   \* payloads handed to WritePacket
    wpc,    \* the writer: "idle", "chunk", "empty" or "failed"
    rest,   \* the part of the payload that is not written yet
    wseq,   \* the writer's seq
    cork,   \* bytes a server has not put into a frame yet
    misfit, \* history: compressed mode, and a packet left in a form its reader cannot take
    wire,   \* frames on their way
    rpc,    \* the reader: "idle", "loop", "unzip" or "failed"
    rseq,   \* the reader's seq
    buf,    \* mysqlBuf
    acc,    \* out, the packet that is being put together
    got,    \* packets returned by ReadPacket
    sock,   \* compressed mode: bytes that have arrived and are not consumed
    zhead   \* compressed mode: <<compressLen, uncompressLen>>, or <<>> before a header

wVars == <<sent, wpc, rest, wseq, cork, misfit>>
zVars == <<sock, zhead>>
rVars == <<rpc, rseq, buf, acc, got, zVars>>
vars == <<mode, wVars, wire, rVars>>

\* c.ob20
OB20 == mode \in {"ob20", "server"}

PayloadOf(i, n) == [k \in 1..n |-> <<"d", i, k>>]
Header(n, s) == [k \in 1..HdrLen |-> <<"h", n, s>>]
MySQLPacket(data, s) == Header(Len(data), s) \o data
Extra(n) == [k \in 1..n |-> <<"x", 0, 0>>]

Init == /\ mode \in Framings
        /\ sent = <<>> /\ wpc = "idle" /\ rest = <<>> /\ wseq = 0 /\ cork = <<>>
        /\ misfit = FALSE /\ wire = <<>> /\ sock = <<>> /\ zhead = <<>>
        /\ rpc = "idle" /\ rseq = 0 /\ buf = <<>> /\ acc = <<>> /\ got = <<>>

(***************************************************************************)
(* WritePacket.                                                            *)
(***************************************************************************)
IncSeqNoWrap(s) == s + 1
\* c.seq++ on a byte.
IncSeq(s) == (s + 1) % SeqMod

\* chunkLimit
ChunkLimit == IF mode = "ob20" THEN Chunk ELSE MaxLen

\* An OB20 frame: compressLength is written in three bytes.
OB20Frame(x, bytes) ==
    [kind |-> "ob20", extra |-> x, data |-> Extra(x) \o bytes,
     clen |-> (FixLen + x + Len(bytes)) % (MaxLen + 1)]

\* A frame of the compressed protocol; both lengths are written in three bytes.
ZipHeader(c, u) == [k \in 1..ZipHdrLen |-> <<"z", c, u>>]
ZipFrame(z, p, u) ==
    [kind |-> z, extra |-> 0, clen |-> Len(p),
     data |-> ZipHeader(Len(p) % (MaxLen + 1), u % (MaxLen + 1)) \o p]

\* zlib.Writer.
Deflate(bytes) == [k \in 1..ZLen |-> <<"c", k, bytes>>]

\* What goes onto the wire for one MySQL packet.  A long packet is compressed, or stored
\* when that makes it no shorter; a short one goes out without compressed header.
Wraps(data, s) ==
    LET bytes == MySQLPacket(data, s) IN
    CASE OB20 -> {OB20Frame(x, bytes) : x \in ExtraLens}
      [] mode = "zip" /\ Len(bytes) > Small -> {ZipFrame("raw", bytes, 0)} \cup
             (IF ZLen < Len(bytes) THEN {ZipFrame("zip", Deflate(bytes), Len(bytes))} ELSE {})
      [] OTHER -> {[kind |-> "mysql", extra |-> 0, data |-> bytes, clen |-> Len(bytes)]}

\* Of n payload bytes: the compressed reader takes a packet that is compressed and whose
\* length with the header fits three bytes, and nothing else.
Misfits(f, n) == mode = "zip" /\ ~(f.kind = "zip" /\ HdrLen + n <= MaxLen)

\* A MySQL packet leaves the writer; a server corks the bytes.
Emit(data) ==
    /\ wseq' = IncSeq(wseq)
    /\ IF mode = "server"
       THEN cork' = cork \o MySQLPacket(data, wseq) /\ UNCHANGED <<wire, misfit>>
       ELSE /\ \E f \in Wraps(data, wseq) :
                  wire' = Append(wire, f) /\ misfit' = (misfit \/ Misfits(f, Len(data)))
            /\ UNCHANGED cork

WritePacket ==
    /\ wpc = "idle" /\ Len(sent) < MaxMsgs
    /\ \E n \in Lens[mode] : LET p == PayloadOf(Len(sent) + 1, n) IN sent' = Append(sent, p) /\ rest' = p
    /\ wpc' = "chunk"
    /\ UNCHANGED <<mode, wseq, cork, misfit, wire, rVars>>

\* One turn of the loop: a chunk is written, and what follows depends on its length.
WriteChunk ==
    /\ wpc = "chunk" /\ Len(wire) < Window
    /\ LET n == IF Len(rest) > ChunkLimit THEN ChunkLimit ELSE Len(rest) IN
       /\ Emit(SubSeq(rest, 1, n))
       /\ rest' = SubSeq(rest, n + 1, Len(rest))
       /\ wpc' = IF n < ChunkLimit THEN "idle" ELSE IF Len(rest) = n THEN "empty" ELSE "chunk"
    /\ UNCHANGED <<mode, sent, rVars>>

ContinuationRepeatsSeq(s) == s
\* c.seq++ in writeEmptyContinuation.
ContinuationSeq(s) == IncSeq(s)

\* writeEmptyContinuation: a packet of length 0 ends a payload of full chunks; it is
\* never compressed and carries no extra info.
WriteEmptyContinuation ==
    /\ wpc = "empty" /\ Len(wire) < Window
    /\ wseq' = ContinuationSeq(wseq)
    /\ LET bytes == MySQLPacket(<<>>, wseq) IN
       IF mode = "server"
       THEN cork' = cork \o bytes /\ UNCHANGED wire
       ELSE /\ wire' = Append(wire, IF OB20 THEN OB20Frame(0, bytes)
                                    ELSE [kind |-> "mysql", extra |-> 0, data |-> bytes, clen |-> Len(bytes)])
            /\ UNCHANGED cork
    /\ wpc' = "idle"
    /\ misfit' = (misfit \/ mode = "zip")
    /\ UNCHANGED <<mode, sent, rest, rVars>>

\* A Write of the socket fails; the frame it was part of never arrives.
WriteFails ==
    /\ wpc \in {"chunk", "empty"}
    /\ wpc' = "failed"
    /\ UNCHANGED <<mode, sent, rest, wseq, cork, misfit, wire, rVars>>

\* The server puts any part of its stream into a frame.
ServerFrames ==
    /\ cork # <<>> /\ Len(wire) < Window
    /\ \E n \in 1..Len(cork), x \in ExtraLens :
          /\ wire' = Append(wire, [OB20Frame(x, SubSeq(cork, 1, n)) EXCEPT !.clen = FixLen + x + n])
          /\ cork' = SubSeq(cork, n + 1, Len(cork))
    /\ UNCHANGED <<mode, sent, wpc, rest, wseq, misfit, rVars>>

(***************************************************************************)
(* ReadPacket, one action for each turn of its loop.                       *)
(***************************************************************************)
ReadPacket ==
    /\ rpc = "idle"
    /\ rpc' = "loop" /\ acc' = <<>>
    /\ UNCHANGED <<mode, rseq, buf, got, zVars, wVars, wire>>

\* The length in the header the buffer starts with; other bytes read as some number.
HeadLen(b) == IF b[1][1] = "h" THEN b[1][2] ELSE Len(b)

BufferedAndMore(b) == Len(b) >= HdrLen /\ Len(b) > HdrLen + HeadLen(b)
\* The buffer starts with a whole MySQL packet.
Buffered(b) == Len(b) >= HdrLen /\ Len(b) >= HdrLen + HeadLen(b)

FullChunkEnds(n) == FALSE
\* A packet of the maximal length is continued by the next one.
Continued(n) == n >= MaxLen

\* A part of length n joins the packet; the last part returns it.
Accumulate(data, n) ==
    IF Continued(n)
    THEN acc' = acc \o data /\ UNCHANGED <<rpc, got>>
    ELSE acc' = <<>> /\ rpc' = "idle" /\ got' = Append(got, acc \o data)

\* The OB20 branch serves the buffer before it reads the socket.
TakeBuffered ==
    /\ rpc = "loop" /\ OB20 /\ Buffered(buf)
    /\ LET n == HeadLen(buf) IN
       /\ Accumulate(SubSeq(buf, HdrLen + 1, HdrLen + n), n)
       /\ buf' = SubSeq(buf, HdrLen + n + 1, Len(buf))
    /\ UNCHANGED <<mode, rseq, zVars, wVars, wire>>

KeepExtra(f) == f.data
\* The MySQL bytes of an OB20 frame, after its extra info.
StripExtra(f) == SubSeq(f.data, f.extra + 1, Len(f.data))

ExpectedLenNoExtra(f) == FixLen + Len(f.data) - f.extra
\* expectedCompressLen: the extra info is part of the payload.
ExpectedCompressLen(f) == FixLen + Len(f.data)

ReadOB20 ==
    /\ rpc = "loop" /\ OB20 /\ ~Buffered(buf) /\ wire # <<>>
    /\ wire' = Tail(wire)
    /\ IF Head(wire).clen = ExpectedCompressLen(Head(wire))
       THEN buf' = buf \o StripExtra(Head(wire)) /\ UNCHANGED <<rpc, acc>>
       ELSE rpc' = "failed" /\ acc' = <<>> /\ UNCHANGED buf
    /\ UNCHANGED <<mode, rseq, got, zVars, wVars>>

\* What compressLen and uncompressLen come out as.  A packet without compressed header
\* gives the length of its own header and some uncompressLen; the middle of a packet anything.
ZipLengths(b) ==
    CASE \E c, u \in 0..MaxLen : b = ZipHeader(c, u) -> {<<b[1][2], b[1][3]>>}
      [] \E n \in 0..MaxLen, s \in 0 .. SeqMod - 1 : SubSeq(b, 1, HdrLen) = Header(n, s) ->
             {b[1][2]} \X (0..MaxLen)
      [] OTHER -> (0..MaxLen) \X (0..MaxLen)

\* io.ReadFull: the bytes the compressed branch waits for.
ZipNeeds == IF zhead = <<>> THEN ZipHdrLen ELSE zhead[1]
ZipReads == rpc = "loop" /\ mode = "zip" /\ Len(sock) >= ZipNeeds

ZipArrives ==
    /\ rpc = "loop" /\ mode = "zip" /\ ~ZipReads /\ wire # <<>>
    /\ sock' = sock \o Head(wire).data /\ wire' = Tail(wire)
    /\ UNCHANGED <<mode, rpc, rseq, buf, acc, got, zhead, wVars>>

ReadZipHeader ==
    /\ ZipReads /\ zhead = <<>>
    /\ zhead' \in ZipLengths(SubSeq(sock, 1, ZipHdrLen))
    /\ sock' = SubSeq(sock, ZipHdrLen + 1, Len(sock))
    /\ UNCHANGED <<mode, rpc, rseq, buf, acc, got, wVars, wire>>

\* zlib.NewReader and io.ReadFull: u bytes come out of p.
Inflates(p, u) == /\ Len(p) >= ZLen /\ p[1][1] = "c"
                  /\ SubSeq(p, 1, ZLen) = Deflate(p[1][3]) /\ u <= Len(p[1][3])

\* The payload of a compressed frame: a stored one is returned as it is, header included.
ReadZip ==
    /\ ZipReads /\ zhead # <<>>
    /\ LET p == SubSeq(sock, 1, zhead[1])
           u == zhead[2]
       IN IF u = 0
          THEN rpc' = "idle" /\ got' = Append(got, p) /\ UNCHANGED buf
          ELSE IF Inflates(p, u)
          THEN rpc' = "unzip" /\ buf' = buf \o SubSeq(p[1][3], 1, u) /\ UNCHANGED got
          ELSE rpc' = "failed" /\ UNCHANGED <<buf, got>>
    /\ sock' = SubSeq(sock, zhead[1] + 1, Len(sock)) /\ zhead' = <<>>
    /\ UNCHANGED <<mode, rseq, acc, wVars, wire>>

\* The loop over mysqlBuf: a full chunk is not waited for, what there is of it is returned.
TakeUnzipped ==
    /\ rpc = "unzip" /\ Buffered(buf)
    /\ LET n == HeadLen(buf) IN
       /\ Accumulate(SubSeq(buf, HdrLen + 1, HdrLen + n), n)
       /\ buf' = SubSeq(buf, HdrLen + n + 1, Len(buf))
    /\ rseq' = IncSeq(rseq)
    /\ UNCHANGED <<mode, zVars, wVars, wire>>

UnzippedEnds ==
    /\ rpc = "unzip" /\ ~Buffered(buf)
    /\ IF acc # <<>> THEN rpc' = "idle" /\ got' = Append(got, acc) ELSE rpc' = "loop" /\ UNCHANGED got
    /\ acc' = <<>>
    /\ UNCHANGED <<mode, rseq, buf, zVars, wVars, wire>>

ReadPlain ==
    /\ rpc = "loop" /\ mode = "plain" /\ wire # <<>>
    /\ wire' = Tail(wire)
    /\ LET b == Head(wire).data IN
       IF b[1][3] = rseq
       THEN rseq' = IncSeq(rseq) /\ Accumulate(SubSeq(b, HdrLen + 1, Len(b)), HeadLen(b))
       ELSE rpc' = "failed" /\ acc' = <<>> /\ UNCHANGED <<rseq, got>>
    /\ UNCHANGED <<mode, buf, zVars, wVars>>

\* ReadPacket waits for the socket and nothing is on its way.
Waits == /\ rpc = "loop" /\ ~(OB20 /\ Buffered(buf)) /\ ~ZipReads
         /\ wire = <<>> /\ cork = <<>>

\* The stream ends where the writer failed.
ReadFails ==
    /\ Waits /\ wpc = "failed"
    /\ rpc' = "failed" /\ acc' = <<>>
    /\ UNCHANGED <<mode, rseq, buf, got, zVars, wVars, wire>>

\* ResetSequence at both ends, between two exchanges.
ResetSequence ==
    /\ wpc = "idle" /\ rpc = "idle" /\ wire = <<>> /\ cork = <<>> /\ Len(got) = Len(sent)
    /\ wseq' = 0 /\ rseq' = 0
    /\ UNCHANGED <<mode, sent, wpc, rest, cork, misfit, wire, rpc, buf, acc, got, zVars>>

Next == \/ WritePacket \/ WriteChunk \/ WriteEmptyContinuation \/ WriteFails \/ ServerFrames
        \/ ReadPacket \/ TakeBuffered \/ ReadOB20 \/ ReadPlain \/ ReadFails \/ ResetSequence
        \/ ZipArrives \/ ReadZipHeader \/ ReadZip \/ TakeUnzipped \/ UnzippedEnds

Spec == Init /\ [][Next]_vars

(***************************************************************************)
(* Properties.                                                             *)
(***************************************************************************)

\* Sequence numbers are bytes, and what is written, buffered or returned consists
\* of the bytes of payloads, headers and extra info.
TypeOK ==
    /\ wpc \in {"idle", "chunk", "empty", "failed"} /\ rpc \in {"idle", "loop", "unzip", "failed"}
    /\ wseq \in 0 .. SeqMod - 1 /\ rseq \in 0 .. SeqMod - 1
    /\ mode \in Framings
    /\ \A i \in 1..Len(sent) : Len(sent[i]) \in Lens[mode]
    /\ \A i \in 1..Len(wire) : wire[i].kind \in {"mysql", "ob20", "zip", "raw"}

\* ReadPacket returns the payloads given to WritePacket whole, once and in order,
\* whatever the chunks, continuations and frame boundaries; in compressed mode until a
\* packet leaves that the compressed reader cannot take (misfit).
Channel == INSTANCE PacketChannel
              WITH Payload <- UNION {{PayloadOf(i, n) : i \in 1..MaxMsgs, n \in Lens[f]} : f \in Framings}
DeliversInOrder == Channel!Init /\ [][misfit \/ Channel!Next]_<<sent, got>>

\* ReadPacket fails only where the writer failed, or after a misfit of compressed mode.
FailsOnlyIfCut == rpc = "failed" => wpc = "failed" \/ misfit

\* A reader that waits for the socket while the writer is done has returned everything:
\* no complete packet is kept back in the buffer (a misfit of compressed mode apart).
NothingKeptBack == Waits /\ wpc = "idle" /\ ~misfit => got = sent /\ buf = <<>> /\ acc = <<>>

\* internal/protocol/packet_test.go: what is written with OB20 framing is read back
\* with the same length (TestOB20LargePacket).
ReadsBackWhatWasWritten == \A i \in 1..Len(got) : got[i] = sent[i]
=============================================================================
