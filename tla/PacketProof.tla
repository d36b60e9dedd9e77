---------------------------- MODULE PacketProof ----------------------------
(***************************************************************************)
(* Proofs about the packet layer (module Packet): types, no read fails     *)
(* that the writer did not cause, and what is written is read in order.    *)
(***************************************************************************)
EXTENDS Packet, SequenceTheorems, TLAPS

(***************************************************************************)
(* The inductive invariant, in parts.                                      *)
(***************************************************************************)

\* With OB20 framing this code writes payloads that fit one frame with its extra info;
\* beyond that compressLength overflows and parts are returned as packets of their own.
OB20Fits == "ob20" \in Framings =>
    \A n \in Lens["ob20"] : n < Chunk /\ \A x \in ExtraLens : x + n <= Chunk

\* No connection compresses: of compressed framing the reader cannot take all that is written.
NotCompressed == "zip" \notin Framings

Byte == {"h", "d", "x"} \X Nat \X Nat
Frame == [kind : {"mysql", "ob20"}, extra : Nat, data : Seq(Byte), clen : Nat]

Typed ==
    /\ mode \in Framings /\ mode # "zip"
    /\ wpc \in {"idle", "chunk", "empty", "failed"} /\ rpc \in {"idle", "loop", "failed"}
    /\ wseq \in 0 .. SeqMod - 1 /\ rseq \in 0 .. SeqMod - 1
    /\ sent \in Seq(Seq(Byte)) /\ got \in Seq(Seq(Byte)) /\ wire \in Seq(Frame)
    /\ rest \in Seq(Byte) /\ cork \in Seq(Byte) /\ buf \in Seq(Byte) /\ acc \in Seq(Byte)
    /\ \A i \in 1..Len(sent) : Len(sent[i]) \in Lens[mode]

\* What is left to write fits one frame.
RestFits == mode = "ob20" /\ wpc = "chunk" =>
    Len(rest) < Chunk /\ \A x \in ExtraLens : x + Len(rest) <= Chunk

\* The length field of every OB20 frame on the wire is what the reader expects.
LengthsRight == OB20 => \A j \in 1..Len(wire) : wire[j].clen = ExpectedCompressLen(wire[j])

\* Plain packets on the wire are numbered on from the reader to the writer, modulo SeqMod.
SeqOf(f) == f.data[1][3]
NumbersRight == mode = "plain" =>
    /\ \A j \in 1..Len(wire) : SeqOf(wire[j]) = IF j = 1 THEN rseq ELSE IncSeq(SeqOf(wire[j - 1]))
    /\ wseq = IF wire = <<>> THEN rseq ELSE IncSeq(SeqOf(wire[Len(wire)]))

\* Only a server holds bytes back.
Corked == mode # "server" => cork = <<>>

\* A read fails only where the writer failed.
UncutReads == rpc = "failed" => wpc = "failed"

PacketInv == Typed /\ Corked /\ RestFits /\ LengthsRight /\ NumbersRight /\ UncutReads

(***************************************************************************)
(* Bytes, packets and frames.                                              *)
(***************************************************************************)

\* The sizes as numbers.
LEMMA Sizes ==
    /\ MaxLen \in Nat /\ HdrLen \in Nat /\ FixLen \in Nat /\ SeqMod \in Nat
    /\ MaxLen > 0 /\ HdrLen > 0 /\ FixLen > 0 /\ SeqMod > 0
    /\ Chunk \in Nat /\ Chunk > 0 /\ Chunk + FixLen + HdrLen = MaxLen
    /\ ExtraLens \subseteq Nat
BY SizesAssumption DEF Chunk

\* A byte sequence given by a function.
LEMMA PayloadBytesOf ==
    ASSUME NEW i \in Nat, NEW n \in Nat
    PROVE  PayloadOf(i, n) \in Seq(Byte) /\ Len(PayloadOf(i, n)) = n
<1>1. \A k \in 1..n : <<"d", i, k>> \in Byte
  BY DEF Byte
<1>2. PayloadOf(i, n) \in [1..n -> Byte]
  BY <1>1 DEF PayloadOf
<1>3. QED BY <1>2

LEMMA HeaderBytes ==
    ASSUME NEW n \in Nat, NEW s \in Nat
    PROVE  /\ Header(n, s) \in Seq(Byte) /\ Len(Header(n, s)) = HdrLen
           /\ \A k \in 1..HdrLen : Header(n, s)[k] = <<"h", n, s>>
<1>1. <<"h", n, s>> \in Byte
  BY DEF Byte
<1>2. Header(n, s) \in [1..HdrLen -> Byte]
  BY <1>1 DEF Header
<1>3. HdrLen \in Nat /\ \A k \in 1..HdrLen : Header(n, s)[k] = <<"h", n, s>>
  BY SizesAssumption DEF Header
<1>4. QED BY <1>2, <1>3

LEMMA ExtraBytes ==
    ASSUME NEW n \in Nat
    PROVE  Extra(n) \in Seq(Byte) /\ Len(Extra(n)) = n
<1>1. <<"x", 0, 0>> \in Byte
  BY DEF Byte
<1>2. Extra(n) \in [1..n -> Byte]
  BY <1>1 DEF Extra
<1>3. QED BY <1>2

\* A MySQL packet is its header and its data.
LEMMA PacketBytes ==
    ASSUME NEW data \in Seq(Byte), NEW s \in Nat
    PROVE  LET b == MySQLPacket(data, s) IN
           /\ b \in Seq(Byte) /\ Len(b) = HdrLen + Len(data)
           /\ \A k \in 1..HdrLen : b[k] = <<"h", Len(data), s>>
           /\ \A k \in 1..Len(data) : b[HdrLen + k] = data[k]
<1> DEFINE h == Header(Len(data), s)
<1>1. /\ h \in Seq(Byte) /\ Len(h) = HdrLen /\ HdrLen \in Nat
      /\ \A k \in 1..HdrLen : h[k] = <<"h", Len(data), s>>
  <2>1. Len(data) \in Nat
    OBVIOUS
  <2>2. QED BY <2>1, HeaderBytes, SizesAssumption
<1> HIDE DEF h
<1>2. /\ h \o data \in Seq(Byte) /\ Len(h \o data) = HdrLen + Len(data)
      /\ \A i \in 1 .. HdrLen + Len(data) : (h \o data)[i] = IF i <= HdrLen THEN h[i] ELSE data[i - HdrLen]
  BY <1>1, ConcatProperties
<1>3. \A k \in 1..HdrLen : (h \o data)[k] = <<"h", Len(data), s>>
  BY <1>1, <1>2
<1>4. ASSUME NEW k \in 1..Len(data) PROVE (h \o data)[HdrLen + k] = data[k]
  BY <1>1, <1>2
<1>5. QED BY <1>2, <1>3, <1>4 DEF MySQLPacket, h

\* An OB20 frame around some bytes; its length field is right if it does not overflow.
LEMMA FrameBytes ==
    ASSUME NEW x \in Nat, NEW bytes \in Seq(Byte)
    PROVE  LET f == OB20Frame(x, bytes) IN
           /\ f \in Frame /\ f.kind = "ob20" /\ f.extra = x
           /\ f.data = Extra(x) \o bytes /\ Len(f.data) = x + Len(bytes)
           /\ FixLen + x + Len(bytes) <= MaxLen => f.clen = ExpectedCompressLen(f)
<1>1. Extra(x) \o bytes \in Seq(Byte) /\ Len(Extra(x) \o bytes) = x + Len(bytes)
  BY ExtraBytes, ConcatProperties
<1>2. \A a \in Nat, b \in Nat \ {0} : a % b \in Nat /\ (a < b => a % b = a)
  OBVIOUS
<1>3. FixLen + x + Len(bytes) \in Nat /\ MaxLen + 1 \in Nat \ {0} /\ FixLen \in Nat /\ Len(bytes) \in Nat
  <2>1. FixLen \in Nat /\ MaxLen \in Nat
    BY SizesAssumption
  <2>2. Len(bytes) \in Nat
    BY LenProperties
  <2>3. QED BY <2>1, <2>2
<1>4. (FixLen + x + Len(bytes)) % (MaxLen + 1) \in Nat
  BY <1>2, <1>3
<1>5. OB20Frame(x, bytes) \in Frame
  BY <1>1, <1>4 DEF OB20Frame, Frame
<1>6. ASSUME FixLen + x + Len(bytes) <= MaxLen
      PROVE  (FixLen + x + Len(bytes)) % (MaxLen + 1) = FixLen + (x + Len(bytes))
  <2>1. FixLen + x + Len(bytes) < MaxLen + 1
    BY <1>3, <1>6, SizesAssumption
  <2>2. (FixLen + x + Len(bytes)) % (MaxLen + 1) = FixLen + x + Len(bytes)
    BY <1>2, <1>3, <2>1
  <2>3. QED BY <1>3, <2>2
<1>7. QED BY <1>1, <1>5, <1>6 DEF OB20Frame, ExpectedCompressLen

\* A sequence number stays a byte.
LEMMA IncSeqType == \A s \in 0 .. SeqMod - 1 : IncSeq(s) \in 0 .. SeqMod - 1
<1>1. \A a \in Nat, b \in Nat \ {0} : a % b \in 0 .. b - 1
  OBVIOUS
<1>2. SeqMod \in Nat \ {0} /\ \A s \in 0 .. SeqMod - 1 : s + 1 \in Nat
  BY SizesAssumption
<1>3. QED BY <1>1, <1>2 DEF IncSeq

\* Mode by mode, what wraps a packet.
LEMMA WrapCases ==
    ASSUME Typed, NEW data \in Seq(Byte), NEW f \in Wraps(data, wseq)
    PROVE  LET bytes == MySQLPacket(data, wseq) IN
           /\ OB20 => \E x \in ExtraLens : f = OB20Frame(x, bytes)
           /\ ~OB20 => f \in Frame /\ f.data = bytes /\ f.extra = 0 /\ f.kind = "mysql"
<1> DEFINE bytes == MySQLPacket(data, wseq)
<1>1. bytes \in Seq(Byte) /\ Len(bytes) \in Nat
  <2>1. wseq \in Nat
    BY Sizes DEF Typed
  <2>2. bytes \in Seq(Byte)
    BY <2>1, PacketBytes
  <2>3. QED BY <2>2, LenProperties
<1> HIDE DEF bytes
<1>2. CASE OB20
  <2>1. mode # "zip"
    BY <1>2 DEF OB20
  <2>2. Wraps(data, wseq) = {OB20Frame(x, bytes) : x \in ExtraLens}
    BY <1>2, <2>1, Zenon DEF Wraps, bytes
  <2>3. QED BY <1>2, <2>2 DEF bytes
<1>3. CASE ~OB20
  <2>1. Wraps(data, wseq) = {[kind |-> "mysql", extra |-> 0, data |-> bytes, clen |-> Len(bytes)]}
    BY <1>3 DEF Wraps, bytes, Typed
  <2>2. f = [kind |-> "mysql", extra |-> 0, data |-> bytes, clen |-> Len(bytes)]
    BY <2>1
  <2>3. QED BY <1>1, <1>3, <2>2 DEF bytes, Frame
<1>4. QED BY <1>2, <1>3

(***************************************************************************)
(* The writer.                                                             *)
(***************************************************************************)

\* A frame joins the wire: it has the right length, and in plain mode the next number.
LEMMA FrameJoins ==
    ASSUME PacketInv, NEW f \in Frame, wire' = Append(wire, f), mode' = mode, rseq' = rseq,
           OB20 => f.clen = ExpectedCompressLen(f),
           mode = "plain" => SeqOf(f) = wseq /\ wseq' = IncSeq(wseq)
    PROVE  wire' \in Seq(Frame) /\ LengthsRight' /\ NumbersRight'
<1> DEFINE n == Len(wire)
<1>1. wire \in Seq(Frame) /\ n \in Nat
  BY DEF PacketInv, Typed
<1>2. /\ wire' \in Seq(Frame) /\ wire' # <<>> /\ Len(wire') = n + 1
      /\ \A j \in 1..n : wire'[j] = wire[j]
      /\ wire'[n + 1] = f
  BY <1>1, AppendProperties
<1>3. LengthsRight'
  <2> SUFFICES ASSUME OB20, NEW j \in 1..Len(wire')
               PROVE  wire'[j].clen = ExpectedCompressLen(wire'[j])
    BY DEF LengthsRight, ExpectedCompressLen, OB20
  <2>1. CASE j = n + 1
    BY <1>2, <2>1
  <2>2. CASE j # n + 1
    <3>1. j \in 1..n
      BY <1>1, <1>2, <2>2
    <3>2. QED BY <1>2, <3>1 DEF PacketInv, LengthsRight
  <2>3. QED BY <2>1, <2>2
<1>4. NumbersRight'
  <2> SUFFICES ASSUME mode = "plain"
               PROVE  /\ \A j \in 1..Len(wire') : SeqOf(wire'[j]) = IF j = 1 THEN rseq ELSE IncSeq(SeqOf(wire'[j - 1]))
                      /\ wseq' = IncSeq(SeqOf(wire'[Len(wire')]))
    BY <1>2 DEF NumbersRight, SeqOf, IncSeq
  <2>1. wseq' = IncSeq(SeqOf(wire'[Len(wire')]))
    BY <1>2
  <2>2. ASSUME NEW j \in 1..Len(wire')
        PROVE  SeqOf(wire'[j]) = IF j = 1 THEN rseq ELSE IncSeq(SeqOf(wire'[j - 1]))
    <3>1. CASE j \in 1..n
      <4>1. j # 1 => j - 1 \in 1..n
        BY <1>1, <3>1
      <4>2. QED BY <1>2, <3>1, <4>1 DEF PacketInv, NumbersRight
    <3>2. CASE j = n + 1
      <4>1. wire = <<>> <=> n = 0
        BY <1>1
      <4>2. n # 0 => n \in 1..n /\ j - 1 = n /\ j # 1
        BY <1>1, <3>2
      <4>3. SeqOf(wire'[j]) = wseq
        BY <1>2, <3>2
      <4>4. wseq = IF wire = <<>> THEN rseq ELSE IncSeq(SeqOf(wire[n]))
        BY DEF PacketInv, NumbersRight
      <4>5. QED BY <1>2, <3>2, <4>1, <4>2, <4>3, <4>4
    <3>3. QED BY <1>1, <1>2, <3>1, <3>2
  <2>3. QED BY <2>1, <2>2
<1>5. QED BY <1>2, <1>3, <1>4

\* A plain packet's number.
LEMMA SeqOfPacket ==
    ASSUME NEW data \in Seq(Byte), NEW s \in Nat, NEW f, f.data = MySQLPacket(data, s)
    PROVE  SeqOf(f) = s
<1>1. 1 \in 1..HdrLen
  BY Sizes
<1>2. \A k \in 1..HdrLen : MySQLPacket(data, s)[k] = <<"h", Len(data), s>>
  BY PacketBytes
<1>3. f.data[1] = <<"h", Len(data), s>>
  BY <1>1, <1>2
<1>4. QED BY <1>3 DEF SeqOf

\* A MySQL packet leaves the writer.
LEMMA EmitKeeps ==
    ASSUME PacketInv, NEW data \in Seq(Byte), Emit(data), mode' = mode, rseq' = rseq,
           mode = "ob20" => \A x \in ExtraLens : x + Len(data) <= Chunk
    PROVE  /\ wire' \in Seq(Frame) /\ cork' \in Seq(Byte) /\ wseq' \in 0 .. SeqMod - 1
           /\ Corked' /\ LengthsRight' /\ NumbersRight'
<1> DEFINE bytes == MySQLPacket(data, wseq)
<1>1. wseq \in Nat /\ wseq' = IncSeq(wseq) /\ wseq' \in 0 .. SeqMod - 1
  BY IncSeqType, Sizes DEF PacketInv, Typed, Emit
<1>2. bytes \in Seq(Byte) /\ Len(bytes) = HdrLen + Len(data) /\ Len(data) \in Nat
  BY <1>1, PacketBytes
<1>3. CASE mode = "server"
  <2>1. cork' = cork \o bytes /\ wire' = wire
    BY <1>3 DEF Emit
  <2>2. cork' \in Seq(Byte)
    BY <1>2, <2>1, ConcatProperties DEF PacketInv, Typed
  <2>3. LengthsRight' /\ NumbersRight'
    BY <1>3, <2>1 DEF PacketInv, LengthsRight, NumbersRight, ExpectedCompressLen, OB20
  <2>4. QED BY <1>1, <1>3, <2>1, <2>2, <2>3 DEF PacketInv, Typed, Corked
<1>4. CASE mode # "server"
  <2>1. PICK f \in Wraps(data, wseq) : wire' = Append(wire, f)
    BY <1>4 DEF Emit
  <2>2. cork' \in Seq(Byte) /\ Corked'
    BY <1>4 DEF Emit, PacketInv, Typed, Corked
  <2>3. /\ OB20 => \E x \in ExtraLens : f = OB20Frame(x, bytes)
        /\ ~OB20 => f \in Frame /\ f.data = bytes
    BY <2>1, WrapCases DEF PacketInv
  <2>4. f \in Frame /\ (OB20 => f.clen = ExpectedCompressLen(f))
    <3>1. CASE OB20
      <4>1. PICK x \in ExtraLens : f = OB20Frame(x, bytes)
        BY <2>3, <3>1
      <4>2. x \in Nat /\ x + Len(data) <= Chunk
        BY <1>4, <3>1, Sizes DEF OB20
      <4>3. FixLen + x + Len(bytes) <= MaxLen
        BY <1>2, <4>2, Sizes
      <4>4. QED
        <5> HIDE DEF bytes
        <5>1. QED BY <1>2, <4>1, <4>2, <4>3, FrameBytes
    <3>2. CASE ~OB20
      BY <2>3, <3>2
    <3>3. QED BY <3>1, <3>2
  <2>5. mode = "plain" => SeqOf(f) = wseq
    BY <1>1, <2>3, SeqOfPacket DEF OB20
  <2>6. wire' \in Seq(Frame) /\ LengthsRight' /\ NumbersRight'
    BY <1>1, <2>1, <2>4, <2>5, FrameJoins
  <2>7. QED BY <1>1, <2>2, <2>6
<1>5. QED BY <1>3, <1>4

\* The rest of a sequence after its first n elements.
LEMMA CutSeq ==
    ASSUME NEW s \in Seq(Byte), NEW n \in 0 .. Len(s)
    PROVE  /\ SubSeq(s, 1, n) \in Seq(Byte) /\ Len(SubSeq(s, 1, n)) = n
           /\ SubSeq(s, n + 1, Len(s)) \in Seq(Byte) /\ Len(SubSeq(s, n + 1, Len(s))) = Len(s) - n
<1>1. Len(s) \in Nat /\ n \in Nat /\ \A i \in 1..Len(s) : s[i] \in Byte
  OBVIOUS
<1>2. /\ SubSeq(s, 1, n) \in Seq(Byte) /\ Len(SubSeq(s, 1, n)) = IF 1 <= n THEN n - 1 + 1 ELSE 0
  BY <1>1, SubSeqProperties
<1>3. /\ SubSeq(s, n + 1, Len(s)) \in Seq(Byte)
      /\ Len(SubSeq(s, n + 1, Len(s))) = IF n + 1 <= Len(s) THEN Len(s) - (n + 1) + 1 ELSE 0
  <2>1. \A i \in n + 1 .. Len(s) : s[i] \in Byte
    BY <1>1
  <2>2. QED BY <1>1, <2>1, SubSeqProperties
<1>4. QED BY <1>1, <1>2, <1>3

LEMMA WritePacketKeeps == ASSUME OB20Fits, PacketInv, WritePacket PROVE PacketInv'
<1>1. PICK n \in Lens[mode] : /\ sent' = Append(sent, PayloadOf(Len(sent) + 1, n))
                              /\ rest' = PayloadOf(Len(sent) + 1, n)
  BY DEF WritePacket
<1>2. wpc' = "chunk" /\ UNCHANGED <<mode, wseq, cork, wire, rpc, rseq, buf, acc, got>> /\ wpc = "idle"
  BY DEF WritePacket, rVars
<1>3. n \in Nat /\ Len(sent) \in Nat
  BY FramingAssumption DEF PacketInv, Typed
<1>4. rest' \in Seq(Byte) /\ Len(rest') = n
  BY <1>1, <1>3, PayloadBytesOf
<1>5. sent' \in Seq(Seq(Byte)) /\ \A i \in 1..Len(sent') : Len(sent'[i]) \in Lens[mode]
  <2>1. /\ sent \in Seq(Seq(Byte)) /\ sent' = Append(sent, rest')
        /\ \A i \in 1..Len(sent) : Len(sent[i]) \in Lens[mode]
    BY <1>1 DEF PacketInv, Typed
  <2>2. /\ sent' \in Seq(Seq(Byte)) /\ Len(sent') = Len(sent) + 1
        /\ \A i \in 1..Len(sent) : sent'[i] = sent[i]
        /\ sent'[Len(sent) + 1] = rest'
    BY <1>4, <2>1, AppendProperties
  <2>3. QED BY <1>3, <1>4, <2>1, <2>2
<1>6. Typed'
  BY <1>2, <1>4, <1>5 DEF PacketInv, Typed
<1>7. RestFits'
  BY <1>2, <1>4 DEF PacketInv, Typed, RestFits, OB20Fits
<1>8. LengthsRight' /\ NumbersRight' /\ Corked'
  BY <1>2 DEF PacketInv, LengthsRight, NumbersRight, OB20, ExpectedCompressLen, Corked
<1>9. UncutReads'
  BY <1>2 DEF PacketInv, UncutReads
<1>10. QED BY <1>6, <1>7, <1>8, <1>9 DEF PacketInv

LEMMA WriteChunkKeeps == ASSUME PacketInv, WriteChunk PROVE PacketInv'
<1> DEFINE n == IF Len(rest) > ChunkLimit THEN ChunkLimit ELSE Len(rest)
<1>1. /\ wpc = "chunk" /\ Emit(SubSeq(rest, 1, n)) /\ rest' = SubSeq(rest, n + 1, Len(rest))
      /\ wpc' \in {"idle", "empty", "chunk"}
      /\ UNCHANGED <<mode, sent, rpc, rseq, buf, acc, got>>
  BY DEF WriteChunk, rVars
<1>2. n \in 0 .. Len(rest) /\ rest \in Seq(Byte) /\ Len(rest) \in Nat
  BY Sizes DEF ChunkLimit, PacketInv, Typed
<1> HIDE DEF n
<1>3. /\ SubSeq(rest, 1, n) \in Seq(Byte) /\ Len(SubSeq(rest, 1, n)) = n
      /\ rest' \in Seq(Byte) /\ Len(rest') = Len(rest) - n
  BY <1>1, <1>2, CutSeq
<1>4. mode = "ob20" => \A x \in ExtraLens : x + n <= Chunk
  BY <1>1, <1>2, Sizes DEF PacketInv, RestFits
<1>5. /\ wire' \in Seq(Frame) /\ cork' \in Seq(Byte) /\ wseq' \in 0 .. SeqMod - 1
      /\ Corked' /\ LengthsRight' /\ NumbersRight'
  BY <1>1, <1>3, <1>4, EmitKeeps
<1>6. Typed'
  BY <1>1, <1>3, <1>5 DEF PacketInv, Typed
<1>7. RestFits'
  BY <1>1, <1>2, <1>3, Sizes DEF PacketInv, RestFits
<1>8. UncutReads'
  BY <1>1 DEF PacketInv, UncutReads
<1>9. QED BY <1>5, <1>6, <1>7, <1>8 DEF PacketInv

LEMMA WriteEmptyKeeps == ASSUME PacketInv, WriteEmptyContinuation PROVE PacketInv'
<1> DEFINE bytes == MySQLPacket(<<>>, wseq)
<1>1. /\ wpc = "empty" /\ wpc' = "idle" /\ wseq' = IncSeq(wseq)
      /\ UNCHANGED <<mode, sent, rest, rpc, rseq, buf, acc, got>>
  BY DEF WriteEmptyContinuation, ContinuationSeq, rVars
<1>2. wseq \in Nat /\ wseq' \in 0 .. SeqMod - 1 /\ <<>> \in Seq(Byte) /\ Len(<<>>) = 0
  BY <1>1, IncSeqType, Sizes DEF PacketInv, Typed
<1>3. bytes \in Seq(Byte) /\ Len(bytes) = HdrLen
  <2>1. bytes \in Seq(Byte) /\ Len(bytes) = HdrLen + Len(<<>>)
    BY <1>2, PacketBytes
  <2>2. QED BY <1>2, <2>1, Sizes
<1>4. wire' \in Seq(Frame) /\ cork' \in Seq(Byte) /\ Corked' /\ LengthsRight' /\ NumbersRight'
  <2>1. CASE mode = "server"
    <3>1. cork' = cork \o bytes /\ wire' = wire
      BY <2>1 DEF WriteEmptyContinuation
    <3>2. cork' \in Seq(Byte)
      BY <1>3, <3>1, ConcatProperties DEF PacketInv, Typed
    <3>3. LengthsRight' /\ NumbersRight'
      BY <1>1, <2>1, <3>1 DEF PacketInv, LengthsRight, NumbersRight, ExpectedCompressLen, OB20
    <3>4. QED BY <1>1, <2>1, <3>1, <3>2, <3>3 DEF PacketInv, Typed, Corked
  <2>2. CASE mode # "server"
    <3> DEFINE f == IF OB20 THEN OB20Frame(0, bytes)
                    ELSE [kind |-> "mysql", extra |-> 0, data |-> bytes, clen |-> Len(bytes)]
    <3>1. wire' = Append(wire, f) /\ cork' = cork
      BY <2>2 DEF WriteEmptyContinuation
    <3>2. f \in Frame /\ (OB20 => f.clen = ExpectedCompressLen(f)) /\ (~OB20 => f.data = bytes)
      <4> HIDE DEF bytes
      <4>1. CASE OB20
        <5>1. FixLen + 0 + Len(bytes) <= MaxLen
          BY <1>3, Sizes
        <5>2. QED BY <1>3, <4>1, <5>1, FrameBytes
      <4>2. CASE ~OB20
        BY <1>3, <4>2, Sizes DEF Frame
      <4>3. QED BY <4>1, <4>2
    <3>3. mode = "plain" => SeqOf(f) = wseq
      <4> HIDE DEF f
      <4>1. QED BY <1>2, <3>2, SeqOfPacket DEF OB20
    <3> HIDE DEF f
    <3>4. wire' \in Seq(Frame) /\ LengthsRight' /\ NumbersRight'
      BY <1>1, <3>1, <3>2, <3>3, FrameJoins
    <3>5. QED BY <1>1, <3>1, <3>4 DEF PacketInv, Typed, Corked
  <2>3. QED BY <2>1, <2>2
<1>5. Typed'
  BY <1>1, <1>2, <1>4 DEF PacketInv, Typed
<1>6. RestFits' /\ UncutReads'
  BY <1>1 DEF PacketInv, RestFits, UncutReads
<1>7. QED BY <1>4, <1>5, <1>6 DEF PacketInv

LEMMA ServerFramesKeeps == ASSUME PacketInv, ServerFrames PROVE PacketInv'
<1>1. PICK n \in 1..Len(cork), x \in ExtraLens :
         /\ wire' = Append(wire, [OB20Frame(x, SubSeq(cork, 1, n)) EXCEPT !.clen = FixLen + x + n])
         /\ cork' = SubSeq(cork, n + 1, Len(cork))
  BY DEF ServerFrames
<1>2. mode = "server" /\ UNCHANGED <<mode, sent, wpc, rest, wseq, rpc, rseq, buf, acc, got>>
  BY DEF ServerFrames, rVars, PacketInv, Corked
<1> DEFINE g == OB20Frame(x, SubSeq(cork, 1, n))
<1> DEFINE f == [g EXCEPT !.clen = FixLen + x + n]
<1>3. n \in 0 .. Len(cork) /\ cork \in Seq(Byte) /\ x \in Nat /\ n \in Nat
  BY Sizes DEF PacketInv, Typed
<1>4. /\ SubSeq(cork, 1, n) \in Seq(Byte) /\ Len(SubSeq(cork, 1, n)) = n /\ cork' \in Seq(Byte)
  BY <1>1, <1>3, CutSeq
<1>5. g \in Frame /\ Len(g.data) = x + n
  <2> DEFINE t == SubSeq(cork, 1, n)
  <2>1. t \in Seq(Byte) /\ Len(t) = n
    BY <1>4
  <2> HIDE DEF t
  <2>2. OB20Frame(x, t) \in Frame /\ Len(OB20Frame(x, t).data) = x + Len(t)
    BY <1>3, <2>1, FrameBytes
  <2>3. QED BY <2>1, <2>2 DEF t
<1>6. f \in Frame /\ f.clen = ExpectedCompressLen(f)
  <2> HIDE DEF g
  <2>1. FixLen + x + n \in Nat /\ FixLen + x + n = FixLen + (x + n)
    BY <1>3, Sizes
  <2>2. f \in Frame /\ f.data = g.data /\ f.clen = FixLen + x + n
    BY <1>5, <2>1 DEF Frame
  <2>3. QED BY <1>5, <2>1, <2>2 DEF ExpectedCompressLen
<1>7. wire' = Append(wire, f)
  BY <1>1
<1> HIDE DEF f
<1>8. wire' \in Seq(Frame) /\ LengthsRight' /\ NumbersRight'
  BY <1>2, <1>6, <1>7, FrameJoins
<1>9. Typed'
  BY <1>2, <1>4, <1>8 DEF PacketInv, Typed
<1>10. RestFits' /\ UncutReads' /\ Corked'
  BY <1>2 DEF PacketInv, RestFits, UncutReads, Corked
<1>11. QED BY <1>8, <1>9, <1>10 DEF PacketInv

(***************************************************************************)
(* The reader.                                                             *)
(***************************************************************************)

\* The first frame leaves the wire; in plain mode the reader counts it.
LEMMA FrameTaken ==
    ASSUME PacketInv, wire # <<>>, wire' = Tail(wire), mode' = mode, wseq' = wseq
    PROVE  /\ wire' \in Seq(Frame) /\ LengthsRight'
           /\ Head(wire) \in Frame /\ Head(wire) = wire[1]
           /\ OB20 => Head(wire).clen = ExpectedCompressLen(Head(wire))
           /\ mode = "plain" => SeqOf(Head(wire)) = rseq
           /\ (mode = "plain" => rseq' = IncSeq(rseq)) => NumbersRight'
<1> DEFINE n == Len(wire)
<1>1. wire \in Seq(Frame) /\ n \in Nat /\ n > 0 /\ 1 \in 1..n
  BY DEF PacketInv, Typed
<1>2. /\ wire' \in Seq(Frame) /\ Len(wire') = n - 1
      /\ \A j \in 1 .. n - 1 : wire'[j] = wire[j + 1]
      /\ Head(wire) \in Frame /\ Head(wire) = wire[1]
  BY <1>1, HeadTailProperties
<1>3. \A j \in 1 .. n - 1 : j + 1 \in 1..n /\ j + 1 # 1 /\ (j + 1) - 1 = j /\ j \in 1..n
  BY <1>1
<1>4. LengthsRight'
  BY <1>2, <1>3 DEF PacketInv, LengthsRight, ExpectedCompressLen, OB20
<1>5. OB20 => Head(wire).clen = ExpectedCompressLen(Head(wire))
  BY <1>1, <1>2 DEF PacketInv, LengthsRight
<1>6. mode = "plain" => SeqOf(Head(wire)) = rseq
  BY <1>1, <1>2 DEF PacketInv, NumbersRight
<1>7. ASSUME mode = "plain" => rseq' = IncSeq(rseq) PROVE NumbersRight'
  <2> SUFFICES ASSUME mode = "plain"
               PROVE  /\ \A j \in 1..Len(wire') : SeqOf(wire'[j]) = IF j = 1 THEN rseq' ELSE IncSeq(SeqOf(wire'[j - 1]))
                      /\ wseq' = IF wire' = <<>> THEN rseq' ELSE IncSeq(SeqOf(wire'[Len(wire')]))
    BY DEF NumbersRight, SeqOf, IncSeq
  <2>1. \A j \in 1..n : SeqOf(wire[j]) = IF j = 1 THEN rseq ELSE IncSeq(SeqOf(wire[j - 1]))
    BY DEF PacketInv, NumbersRight
  <2>2. ASSUME NEW j \in 1..Len(wire')
        PROVE  SeqOf(wire'[j]) = IF j = 1 THEN rseq' ELSE IncSeq(SeqOf(wire'[j - 1]))
    <3>1. j \in 1 .. n - 1 /\ wire'[j] = wire[j + 1]
      BY <1>2
    <3>2. SeqOf(wire'[j]) = IncSeq(SeqOf(wire[j]))
      BY <1>3, <2>1, <3>1
    <3>3. CASE j = 1
      BY <1>2, <1>6, <1>7, <3>2, <3>3
    <3>4. CASE j # 1
      <4>1. j - 1 \in 1 .. n - 1 /\ (j - 1) + 1 = j
        BY <1>1, <3>1, <3>4
      <4>2. wire'[j - 1] = wire[j]
        BY <1>2, <4>1
      <4>3. QED BY <3>2, <3>4, <4>2
    <3>5. QED BY <3>3, <3>4
  <2>3. wseq = IncSeq(SeqOf(wire[n]))
    BY DEF PacketInv, NumbersRight
  <2>4. wseq' = IF wire' = <<>> THEN rseq' ELSE IncSeq(SeqOf(wire'[Len(wire')]))
    <3>1. CASE n = 1
      <4>1. wire' = <<>>
        BY <1>2, <3>1
      <4>2. QED BY <1>2, <1>6, <1>7, <2>3, <3>1, <4>1
    <3>2. CASE n # 1
      <4> HIDE DEF n
      <4>1. n - 1 \in 1 .. n - 1 /\ (n - 1) + 1 = n
        BY <1>1, <3>2
      <4>0. wire' # <<>>
        BY <1>2, <4>1
      <4>2. wire'[n - 1] = wire[n]
        BY <1>2, <4>1
      <4>3. QED BY <1>2, <2>3, <4>0, <4>1, <4>2
    <3>3. QED BY <3>1, <3>2
  <2>5. QED BY <2>2, <2>4
<1>8. QED BY <1>2, <1>4, <1>5, <1>6, <1>7

\* A part joins the packet.
LEMMA AccumulateTypes ==
    ASSUME Typed, NEW data \in Seq(Byte), NEW n, Accumulate(data, n), rpc = "loop"
    PROVE  acc' \in Seq(Byte) /\ got' \in Seq(Seq(Byte)) /\ rpc' \in {"idle", "loop"}
<1>1. acc \o data \in Seq(Byte) /\ got \in Seq(Seq(Byte)) /\ <<>> \in Seq(Byte)
  BY ConcatProperties DEF Typed
<1>2. Append(got, acc \o data) \in Seq(Seq(Byte))
  BY <1>1, AppendProperties
<1>3. QED BY <1>1, <1>2 DEF Accumulate, Typed

LEMMA TakeBufferedKeeps == ASSUME PacketInv, TakeBuffered PROVE PacketInv'
<1> DEFINE n == HeadLen(buf)
<1>1. /\ rpc = "loop" /\ OB20 /\ Buffered(buf)
      /\ Accumulate(SubSeq(buf, HdrLen + 1, HdrLen + n), n)
      /\ buf' = SubSeq(buf, HdrLen + n + 1, Len(buf))
      /\ UNCHANGED <<mode, rseq, sent, wpc, rest, wseq, cork, wire>>
  BY DEF TakeBuffered, wVars
<1>2. buf \in Seq(Byte) /\ Len(buf) \in Nat /\ Len(buf) >= HdrLen /\ 1 \in 1..Len(buf)
  BY <1>1, Sizes DEF PacketInv, Typed, Buffered
<1>3. n \in Nat /\ HdrLen + n <= Len(buf)
  <2>1. buf[1] \in Byte
    BY <1>2
  <2>2. n \in Nat
    BY <1>2, <2>1 DEF HeadLen, Byte
  <2>3. QED BY <1>1, <1>2, <2>2, Sizes DEF Buffered
<1> HIDE DEF n
<1>4. SubSeq(buf, HdrLen + 1, HdrLen + n) \in Seq(Byte) /\ buf' \in Seq(Byte)
  <2>1. \A i \in HdrLen + 1 .. HdrLen + n : buf[i] \in Byte
    BY <1>2, <1>3, Sizes
  <2>2. \A i \in HdrLen + n + 1 .. Len(buf) : buf[i] \in Byte
    BY <1>2, <1>3, Sizes
  <2>3. HdrLen + 1 \in Int /\ HdrLen + n \in Int /\ HdrLen + n + 1 \in Int /\ Len(buf) \in Int
    BY <1>2, <1>3, Sizes
  <2>4. SubSeq(buf, HdrLen + 1, HdrLen + n) \in Seq(Byte)
    BY <2>1, <2>3, SubSeqProperties
  <2>5. SubSeq(buf, HdrLen + n + 1, Len(buf)) \in Seq(Byte)
    BY <2>2, <2>3, SubSeqProperties
  <2>6. QED BY <1>1, <2>4, <2>5
<1>5. acc' \in Seq(Byte) /\ got' \in Seq(Seq(Byte)) /\ rpc' \in {"idle", "loop"}
  BY <1>1, <1>4, AccumulateTypes DEF PacketInv
<1>6. Typed'
  BY <1>1, <1>4, <1>5 DEF PacketInv, Typed
<1>7. RestFits' /\ LengthsRight' /\ Corked'
  BY <1>1 DEF PacketInv, RestFits, LengthsRight, ExpectedCompressLen, OB20, Corked
<1>8. NumbersRight' /\ UncutReads'
  BY <1>1, <1>5 DEF PacketInv, NumbersRight, UncutReads, OB20
<1>9. QED BY <1>6, <1>7, <1>8 DEF PacketInv

LEMMA ReadOB20Keeps == ASSUME PacketInv, ReadOB20 PROVE PacketInv'
<1>1. /\ OB20 /\ wire # <<>> /\ wire' = Tail(wire) /\ rpc = "loop"
      /\ UNCHANGED <<mode, rseq, got, sent, wpc, rest, wseq, cork>>
  BY DEF ReadOB20, wVars
<1>2. /\ wire' \in Seq(Frame) /\ LengthsRight' /\ Head(wire) \in Frame
      /\ Head(wire).clen = ExpectedCompressLen(Head(wire)) /\ NumbersRight'
  BY <1>1, FrameTaken DEF OB20
<1>3. buf' = buf \o StripExtra(Head(wire)) /\ UNCHANGED <<rpc, acc>>
  BY <1>2 DEF ReadOB20
<1>4. buf' \in Seq(Byte)
  <2> DEFINE f == Head(wire)
  <2>1. f.data \in Seq(Byte) /\ f.extra \in Nat /\ Len(f.data) \in Nat
    BY <1>2 DEF Frame
  <2> HIDE DEF f
  <2>2. \A i \in f.extra + 1 .. Len(f.data) : f.data[i] \in Byte
    BY <2>1
  <2>3. StripExtra(f) \in Seq(Byte)
    BY <2>1, <2>2, SubSeqProperties DEF StripExtra
  <2>4. QED BY <1>3, <2>3, ConcatProperties DEF PacketInv, Typed, f
<1>5. Typed'
  BY <1>1, <1>2, <1>3, <1>4 DEF PacketInv, Typed
<1>6. RestFits' /\ UncutReads' /\ Corked'
  BY <1>1, <1>3 DEF PacketInv, RestFits, UncutReads, Corked
<1>7. QED BY <1>2, <1>5, <1>6 DEF PacketInv

LEMMA ReadPlainKeeps == ASSUME PacketInv, ReadPlain PROVE PacketInv'
<1> DEFINE b == Head(wire).data
<1>1. /\ mode = "plain" /\ wire # <<>> /\ wire' = Tail(wire) /\ rpc = "loop"
      /\ UNCHANGED <<mode, buf, sent, wpc, rest, wseq, cork>>
  BY DEF ReadPlain, wVars
<1>2. /\ wire' \in Seq(Frame) /\ LengthsRight' /\ Head(wire) \in Frame /\ b[1][3] = rseq
      /\ (rseq' = IncSeq(rseq)) => NumbersRight'
  BY <1>1, FrameTaken DEF SeqOf
<1>3. rseq' = IncSeq(rseq) /\ Accumulate(SubSeq(b, HdrLen + 1, Len(b)), HeadLen(b))
  BY <1>2 DEF ReadPlain
<1>4. b \in Seq(Byte) /\ Len(b) \in Nat
  BY <1>2 DEF Frame
<1> HIDE DEF b
<1>5. SubSeq(b, HdrLen + 1, Len(b)) \in Seq(Byte)
  <2>1. \A i \in HdrLen + 1 .. Len(b) : b[i] \in Byte
    BY <1>4, Sizes
  <2>2. QED BY <1>4, <2>1, SubSeqProperties, Sizes
<1>6. acc' \in Seq(Byte) /\ got' \in Seq(Seq(Byte)) /\ rpc' \in {"idle", "loop"}
  BY <1>1, <1>3, <1>5, AccumulateTypes DEF PacketInv
<1>7. rseq' \in 0 .. SeqMod - 1
  BY <1>3, IncSeqType DEF PacketInv, Typed
<1>8. Typed'
  BY <1>1, <1>2, <1>6, <1>7 DEF PacketInv, Typed
<1>9. RestFits' /\ UncutReads' /\ Corked'
  BY <1>1, <1>6 DEF PacketInv, RestFits, UncutReads, Corked
<1>10. QED BY <1>2, <1>3, <1>8, <1>9 DEF PacketInv

(***************************************************************************)
(* The theorems.                                                           *)
(***************************************************************************)
LEMMA InitPacket == ASSUME NotCompressed PROVE Init => PacketInv
<1> SUFFICES ASSUME Init PROVE PacketInv
  OBVIOUS
<1>1. 0 \in 0 .. SeqMod - 1 /\ <<>> \in Seq(Byte) /\ <<>> \in Seq(Seq(Byte)) /\ <<>> \in Seq(Frame)
      /\ Len(<<>>) = 0
  BY Sizes
<1>2. Typed
  BY <1>1 DEF Init, Typed, NotCompressed
<1>3. Corked /\ LengthsRight /\ NumbersRight /\ UncutReads
  BY DEF Init, Corked, LengthsRight, NumbersRight, UncutReads
<1>4. QED BY <1>2, <1>3 DEF PacketInv, RestFits, Init

\* The steps of the compressed reader are not taken.
LEMMA NotZipped ==
    ASSUME PacketInv PROVE ~(ZipArrives \/ ReadZipHeader \/ ReadZip \/ TakeUnzipped \/ UnzippedEnds)
BY DEF PacketInv, Typed, ZipArrives, ZipReads, ReadZipHeader, ReadZip, TakeUnzipped, UnzippedEnds

LEMMA NextPacketKeeps == ASSUME OB20Fits PROVE PacketInv /\ [Next]_vars => PacketInv'
<1> SUFFICES ASSUME PacketInv, [Next]_vars PROVE PacketInv'
  OBVIOUS
<1>1. CASE WritePacket             BY <1>1, WritePacketKeeps
<1>2. CASE WriteChunk              BY <1>2, WriteChunkKeeps
<1>3. CASE WriteEmptyContinuation  BY <1>3, WriteEmptyKeeps
<1>4. CASE ServerFrames            BY <1>4, ServerFramesKeeps
<1>5. CASE TakeBuffered            BY <1>5, TakeBufferedKeeps
<1>6. CASE ReadOB20                BY <1>6, ReadOB20Keeps
<1>7. CASE ZipArrives \/ ReadZipHeader \/ ReadZip \/ TakeUnzipped \/ UnzippedEnds
  BY <1>7, NotZipped
<1>8. CASE ReadPlain               BY <1>8, ReadPlainKeeps
<1>9. CASE WriteFails
  <2>1. wpc' = "failed" /\ UNCHANGED <<mode, sent, rest, wseq, cork, wire, rpc, rseq, buf, acc, got>>
    BY <1>9 DEF WriteFails, rVars
  <2>2. Typed' /\ Corked' /\ RestFits' /\ UncutReads'
    BY <2>1 DEF PacketInv, Typed, Corked, RestFits, UncutReads
  <2>3. LengthsRight' /\ NumbersRight'
    BY <2>1 DEF PacketInv, LengthsRight, NumbersRight, ExpectedCompressLen, OB20
  <2>4. QED BY <2>2, <2>3 DEF PacketInv
<1>10. CASE ReadPacket
  <2>1. /\ rpc' = "loop" /\ acc' = <<>> /\ <<>> \in Seq(Byte)
        /\ UNCHANGED <<mode, rseq, buf, got, sent, wpc, rest, wseq, cork, wire>>
    BY <1>10 DEF ReadPacket, wVars
  <2>2. Typed' /\ Corked' /\ RestFits' /\ UncutReads'
    BY <2>1 DEF PacketInv, Typed, Corked, RestFits, UncutReads
  <2>3. LengthsRight' /\ NumbersRight'
    BY <2>1 DEF PacketInv, LengthsRight, NumbersRight, ExpectedCompressLen, OB20
  <2>4. QED BY <2>2, <2>3 DEF PacketInv
<1>11. CASE ReadFails
  <2>1. /\ rpc' = "failed" /\ acc' = <<>> /\ <<>> \in Seq(Byte) /\ wpc = "failed"
        /\ UNCHANGED <<mode, rseq, buf, got, sent, wpc, rest, wseq, cork, wire>>
    BY <1>11 DEF ReadFails, wVars
  <2>2. Typed' /\ Corked' /\ RestFits' /\ UncutReads'
    BY <2>1 DEF PacketInv, Typed, Corked, RestFits, UncutReads
  <2>3. LengthsRight' /\ NumbersRight'
    BY <2>1 DEF PacketInv, LengthsRight, NumbersRight, ExpectedCompressLen, OB20
  <2>4. QED BY <2>2, <2>3 DEF PacketInv
<1>12. CASE ResetSequence
  <2>1. /\ wseq' = 0 /\ rseq' = 0 /\ 0 \in 0 .. SeqMod - 1 /\ wire = <<>>
        /\ UNCHANGED <<mode, sent, wpc, rest, cork, wire, rpc, buf, acc, got>>
    BY <1>12, Sizes DEF ResetSequence
  <2>2. Typed' /\ Corked' /\ RestFits' /\ UncutReads'
    BY <2>1 DEF PacketInv, Typed, Corked, RestFits, UncutReads
  <2>3. LengthsRight' /\ NumbersRight'
    BY <2>1 DEF PacketInv, LengthsRight, NumbersRight, ExpectedCompressLen, OB20
  <2>4. QED BY <2>2, <2>3 DEF PacketInv
<1>13. CASE UNCHANGED vars
  <2>1. UNCHANGED <<mode, sent, wpc, rest, wseq, cork, wire, rpc, rseq, buf, acc, got>>
    BY <1>13 DEF vars, wVars, rVars
  <2>2. Typed' /\ Corked' /\ RestFits' /\ UncutReads'
    BY <2>1 DEF PacketInv, Typed, Corked, RestFits, UncutReads
  <2>3. LengthsRight' /\ NumbersRight'
    BY <2>1 DEF PacketInv, LengthsRight, NumbersRight, ExpectedCompressLen, OB20
  <2>4. QED BY <2>2, <2>3 DEF PacketInv
<1>14. QED BY <1>1, <1>2, <1>3, <1>4, <1>5, <1>6, <1>7, <1>8, <1>9, <1>10, <1>11, <1>12, <1>13 DEF Next

LEMMA PacketInvariant == ASSUME OB20Fits, NotCompressed PROVE Spec => []PacketInv
BY InitPacket, NextPacketKeeps, PTL DEF Spec

\* Types, for every length of payload and every sequence number modulus.
THEOREM PacketTypes == ASSUME OB20Fits, NotCompressed PROVE Spec => []TypeOK
<1>1. PacketInv => TypeOK
  <2> SUFFICES ASSUME PacketInv PROVE TypeOK
    OBVIOUS
  <2>1. \A i \in 1..Len(wire) : wire[i] \in Frame
    BY DEF PacketInv, Typed
  <2>2. \A i \in 1..Len(wire) : wire[i].kind \in {"mysql", "ob20", "zip", "raw"}
    BY <2>1 DEF Frame
  <2>3. QED BY <2>2 DEF PacketInv, Typed, TypeOK
<1>2. QED BY <1>1, PacketInvariant, PTL

\* Sequence numbers, which wrap around, and OB20 length fields, which have a width,
\* never make ReadPacket refuse what WritePacket or a server wrote.
THEOREM NoReadFailsUncut == ASSUME OB20Fits, NotCompressed PROVE Spec => []FailsOnlyIfCut
<1>1. PacketInv => FailsOnlyIfCut
  BY DEF PacketInv, UncutReads, FailsOnlyIfCut
<1>2. QED BY <1>1, PacketInvariant, PTL

(***************************************************************************)
(* The packet layer is a FIFO of packets.  What one end has written is a   *)
(* stream of MySQL packets, however it is cut into frames; the packets are *)
(* what the payloads were cut into.                                        *)
(***************************************************************************)

(***************************************************************************)
(* The inductive invariant, in parts.  It is about the stream st of all    *)
(* MySQL bytes written so far and the data p of the packets in it; packet  *)
(* j starts after byte o[j], and is the part of payload m[j] after its     *)
(* byte a[j].  The last elements of o, m and a are those of the packet     *)
(* that would be written next.                                             *)
(***************************************************************************)

\* st is a sequence of MySQL packets.
Whole(st, p, o) ==
    /\ Len(o) = Len(p) + 1 /\ o[Len(p) + 1] = Len(st)
    /\ \A j \in 1 .. Len(p) + 1 : o[j] <= Len(st)
    /\ \A j \in 1..Len(p) : /\ o[j + 1] = o[j] + HdrLen + Len(p[j])
                            /\ st[o[j] + 1][1] = "h" /\ st[o[j] + 1][2] = Len(p[j])
                            /\ \A k \in 1..Len(p[j]) : st[o[j] + HdrLen + k] = p[j][k]

\* A full packet is continued by the next one, and any other ends its payload.
Follows(snt, p, m, a) ==
    /\ Len(m) = Len(p) + 1 /\ Len(a) = Len(p) + 1
    /\ \A j \in 1..Len(p) :
          /\ m[j] \in 1..Len(snt) /\ a[j] + Len(p[j]) <= Len(snt[m[j]])
          /\ \A k \in 1..Len(p[j]) : p[j][k] = snt[m[j]][a[j] + k]
          /\ IF Continued(Len(p[j]))
             THEN m[j + 1] = m[j] /\ a[j + 1] = a[j] + Len(p[j])
             ELSE a[j] + Len(p[j]) = Len(snt[m[j]]) /\ m[j + 1] = m[j] + 1 /\ a[j + 1] = 0

\* From byte r on, st is in the buffer bf, in the frames w, of which frame j starts
\* after byte c[j], and in the hands ck of a server.
Carried(bf, w, ck, st, r, c) ==
    /\ Len(c) = Len(w) + 1 /\ \A j \in 1 .. Len(w) + 1 : c[j] <= Len(st)
    /\ r + Len(bf) = c[1] /\ \A k \in 1..Len(bf) : bf[k] = st[r + k]
    /\ \A j \in 1..Len(w) : /\ c[j + 1] = c[j] + Len(StripExtra(w[j]))
                            /\ \A k \in 1..Len(StripExtra(w[j])) : StripExtra(w[j])[k] = st[c[j] + k]
    /\ c[Len(w) + 1] + Len(ck) = Len(st) /\ \A k \in 1..Len(ck) : ck[k] = st[c[Len(w) + 1] + k]

\* The reader is about to take a packet of payload i, and has its bytes up to b.
ReaderAt(i, b) ==
    /\ i = Len(got) + 1 /\ b = Len(acc)
    /\ acc # <<>> => i <= Len(sent)
    /\ \A k \in 1..Len(acc) : acc[k] = sent[i][k]

\* The writer is about to write the part of payload i after byte b.
WriterAt(i, b) ==
    /\ wpc = "idle" => i = Len(sent) + 1 /\ b = 0
    /\ wpc = "chunk" => /\ i = Len(sent) /\ Len(sent) > 0
                        /\ b + Len(rest) = Len(sent[Len(sent)])
                        /\ \A k \in 1..Len(rest) : rest[k] = sent[Len(sent)][b + k]
    /\ wpc = "empty" => i = Len(sent) /\ Len(sent) > 0 /\ b = Len(sent[Len(sent)])

\* All of it, with q the packet that the reader takes next.
History(st, p, o, m, a, c, q) ==
    /\ Whole(st, p, o) /\ Follows(sent, p, m, a)
    /\ q \in 1 .. Len(p) + 1 /\ Carried(buf, wire, cork, st, o[q], c)
    /\ ReaderAt(m[q], a[q]) /\ WriterAt(m[Len(p) + 1], a[Len(p) + 1])

Written == \E st \in Seq(Byte), p \in Seq(Seq(Byte)), o, m, a, c \in Seq(Nat), q \in Nat :
    History(st, p, o, m, a, c, q)

\* What was returned is what was written first, and nothing is kept between two calls.
Returned ==
    /\ Len(got) <= Len(sent) /\ \A i \in 1..Len(got) : got[i] = sent[i]
    /\ rpc = "idle" => acc = <<>>

\* In plain mode a frame is a packet.
PlainFrame(f) == f.extra = 0 /\ HeadLen(f.data) \in Nat /\ Len(f.data) = HdrLen + HeadLen(f.data)
PlainFrames == mode = "plain" =>
    /\ buf = <<>>
    /\ \A j \in 1..Len(wire) : PlainFrame(wire[j])

StreamInv == PacketInv /\ Returned /\ PlainFrames /\ (rpc # "failed" => Written)

(***************************************************************************)
(* Sequences.                                                              *)
(***************************************************************************)

\* A concatenation, element by element.
LEMMA Joined ==
    ASSUME NEW s \in Seq(Byte), NEW t \in Seq(Byte)
    PROVE  /\ s \o t \in Seq(Byte) /\ Len(s \o t) = Len(s) + Len(t) /\ Len(s) \in Nat /\ Len(t) \in Nat
           /\ \A k \in 1..Len(s) : (s \o t)[k] = s[k]
           /\ \A k \in 1..Len(t) : (s \o t)[Len(s) + k] = t[k]
<1>1. /\ s \o t \in Seq(Byte) /\ Len(s \o t) = Len(s) + Len(t) /\ Len(s) \in Nat /\ Len(t) \in Nat
      /\ \A i \in 1 .. Len(s) + Len(t) : (s \o t)[i] = IF i <= Len(s) THEN s[i] ELSE t[i - Len(s)]
  BY ConcatProperties
<1>2. ASSUME NEW k \in 1..Len(s) PROVE (s \o t)[k] = s[k]
  BY <1>1
<1>3. ASSUME NEW k \in 1..Len(t) PROVE (s \o t)[Len(s) + k] = t[k]
  <2>1. Len(s) + k \in 1 .. Len(s) + Len(t) /\ ~(Len(s) + k <= Len(s)) /\ (Len(s) + k) - Len(s) = k
    BY <1>1
  <2>2. QED BY <1>1, <2>1
<1>4. QED BY <1>1, <1>2, <1>3

\* The end of a sequence after its first n elements.
LEMMA RestOf ==
    ASSUME NEW s \in Seq(Byte), NEW n \in 0 .. Len(s)
    PROVE  LET t == SubSeq(s, n + 1, Len(s)) IN
           t \in Seq(Byte) /\ Len(t) = Len(s) - n /\ \A k \in 1..Len(t) : t[k] = s[n + k]
<1>1. Len(s) \in Nat /\ n \in Nat /\ n + 1 \in Int /\ Len(s) \in Int /\ n <= Len(s)
  OBVIOUS
<1>2. SubSeq(s, n + 1, Len(s)) \in Seq(Byte) /\ Len(SubSeq(s, n + 1, Len(s))) = Len(s) - n
  BY CutSeq
<1>3. ASSUME NEW k \in 1 .. Len(s) - n PROVE SubSeq(s, n + 1, Len(s))[k] = s[n + k]
  <2>1. \A i \in n + 1 .. Len(s) : s[i] \in Byte
    BY <1>1
  <2>2. \A i \in 1 .. Len(s) - (n + 1) + 1 : SubSeq(s, n + 1, Len(s))[i] = s[(n + 1) + i - 1]
    BY <1>1, <2>1, SubSeqProperties
  <2>3. k \in 1 .. Len(s) - (n + 1) + 1 /\ (n + 1) + k - 1 = n + k
    BY <1>1
  <2>4. QED BY <2>2, <2>3
<1>4. QED BY <1>2, <1>3

\* The part of a sequence between two places.
LEMMA PartOf ==
    ASSUME NEW s \in Seq(Byte), NEW i \in Nat, NEW n \in Nat, i + n <= Len(s)
    PROVE  LET t == SubSeq(s, i + 1, i + n) IN
           t \in Seq(Byte) /\ Len(t) = n /\ \A k \in 1..n : t[k] = s[i + k]
<1>1. Len(s) \in Nat /\ i + 1 \in Int /\ i + n \in Int
  OBVIOUS
<1>2. \A k \in i + 1 .. i + n : s[k] \in Byte
  BY <1>1
<1>3. /\ SubSeq(s, i + 1, i + n) \in Seq(Byte)
      /\ Len(SubSeq(s, i + 1, i + n)) = IF i + 1 <= i + n THEN i + n - (i + 1) + 1 ELSE 0
      /\ \A k \in 1 .. i + n - (i + 1) + 1 : SubSeq(s, i + 1, i + n)[k] = s[(i + 1) + k - 1]
  BY <1>1, <1>2, SubSeqProperties
<1>4. ASSUME NEW k \in 1..n PROVE SubSeq(s, i + 1, i + n)[k] = s[i + k]
  <2>1. k \in 1 .. i + n - (i + 1) + 1 /\ (i + 1) + k - 1 = i + k
    OBVIOUS
  <2>2. QED BY <1>3, <2>1
<1>5. QED BY <1>3, <1>4

\* A longer sequence of places.
LEMMA Placed ==
    ASSUME NEW s \in Seq(Nat), NEW v \in Nat, NEW n \in Nat, Len(s) = n + 1
    PROVE  /\ Append(s, v) \in Seq(Nat) /\ Len(Append(s, v)) = (n + 1) + 1
           /\ \A j \in 1 .. n + 1 : Append(s, v)[j] = s[j] /\ s[j] \in Nat
           /\ Append(s, v)[(n + 1) + 1] = v
BY AppendProperties

LEMMA Longer ==
    ASSUME NEW s \in Seq(Nat), NEW v \in Nat
    PROVE  /\ Append(s, v) \in Seq(Nat) /\ Len(Append(s, v)) = Len(s) + 1 /\ Append(s, v)[Len(s) + 1] = v
           /\ \A j \in 1..Len(s) : Append(s, v)[j] = s[j]
BY AppendProperties

LEMMA LastPlace == \A n \in Nat : n + 1 \in 1 .. n + 1
OBVIOUS

\* The MySQL bytes of a frame.
LEMMA StripType == ASSUME NEW f \in Frame PROVE StripExtra(f) \in Seq(Byte) /\ Len(StripExtra(f)) \in Nat
<1>1. f.data \in Seq(Byte) /\ f.extra \in Nat /\ Len(f.data) \in Nat
  BY DEF Frame
<1>2. \A i \in f.extra + 1 .. Len(f.data) : f.data[i] \in Byte
  BY <1>1
<1>3. SubSeq(f.data, f.extra + 1, Len(f.data)) \in Seq(Byte)
  BY <1>1, <1>2, SubSeqProperties
<1>4. QED BY <1>3 DEF StripExtra

LEMMA Stripped ==
    ASSUME NEW f, NEW x \in Nat, NEW bytes \in Seq(Byte), f.extra = x, f.data = Extra(x) \o bytes
    PROVE  StripExtra(f) = bytes
<1> DEFINE s == Extra(x) \o bytes
<1>1. /\ s \in Seq(Byte) /\ Len(s) = x + Len(bytes) /\ Len(bytes) \in Nat
      /\ \A k \in 1..Len(bytes) : s[x + k] = bytes[k]
  <2> DEFINE e == Extra(x)
  <2>1. e \in Seq(Byte) /\ Len(e) = x
    BY ExtraBytes
  <2> HIDE DEF e
  <2>2. /\ e \o bytes \in Seq(Byte) /\ Len(e \o bytes) = Len(e) + Len(bytes) /\ Len(bytes) \in Nat
        /\ \A k \in 1..Len(bytes) : (e \o bytes)[Len(e) + k] = bytes[k]
    BY <2>1, Joined
  <2>3. QED BY <2>1, <2>2 DEF e
<1> HIDE DEF s
<1>2. x \in 0 .. Len(s) /\ Len(s) - x = Len(bytes)
  BY <1>1
<1>3. LET t == SubSeq(s, x + 1, Len(s)) IN
      t \in Seq(Byte) /\ Len(t) = Len(bytes) /\ \A k \in 1..Len(t) : t[k] = s[x + k]
  BY <1>1, <1>2, RestOf
<1>4. SubSeq(s, x + 1, Len(s)) = bytes
  BY <1>1, <1>3, SeqEqual
<1>5. QED BY <1>4 DEF StripExtra, s

LEMMA NothingStripped ==
    ASSUME NEW f, f.extra = 0, f.data \in Seq(Byte) PROVE StripExtra(f) = f.data
<1>1. SubSeq(f.data, 1, Len(f.data)) = f.data
  BY SubSeqFull
<1>2. QED BY <1>1 DEF StripExtra

(***************************************************************************)
(* A packet is written.                                                    *)
(***************************************************************************)

\* A MySQL packet joins the stream.
LEMMA WholeGrows ==
    ASSUME NEW st \in Seq(Byte), NEW p \in Seq(Seq(Byte)), NEW o \in Seq(Nat), Whole(st, p, o),
           NEW d \in Seq(Byte), NEW s \in Nat
    PROVE  Whole(st \o MySQLPacket(d, s), Append(p, d), Append(o, Len(st) + HdrLen + Len(d)))
<1> DEFINE b == MySQLPacket(d, s)
           v == Len(st) + HdrLen + Len(d)
           n == Len(p)
           P == Append(p, d)
           O == Append(o, v)
           S == st \o b
<1>1. /\ b \in Seq(Byte) /\ Len(b) = HdrLen + Len(d) /\ Len(d) \in Nat /\ HdrLen \in Nat /\ HdrLen > 0
      /\ \A k \in 1..HdrLen : b[k] = <<"h", Len(d), s>>
      /\ \A k \in 1..Len(d) : b[HdrLen + k] = d[k]
  <2>1. Len(d) \in Nat
    BY LenProperties
  <2>2. HdrLen \in Nat /\ HdrLen > 0
    BY Sizes
  <2>3. /\ b \in Seq(Byte) /\ Len(b) = HdrLen + Len(d)
        /\ \A k \in 1..HdrLen : b[k] = <<"h", Len(d), s>>
        /\ \A k \in 1..Len(d) : b[HdrLen + k] = d[k]
    BY PacketBytes
  <2>4. QED BY <2>1, <2>2, <2>3
<1> HIDE DEF b
<1>2. /\ S \in Seq(Byte) /\ Len(S) = Len(st) + Len(b) /\ Len(st) \in Nat
      /\ \A k \in 1..Len(st) : S[k] = st[k]
      /\ \A k \in 1..Len(b) : S[Len(st) + k] = b[k]
  BY <1>1, Joined
<1> HIDE DEF S
<1>3. n \in Nat /\ v \in Nat /\ v = Len(S) /\ Len(o) = n + 1
  <2>1. n \in Nat
    BY LenProperties
  <2>2. v \in Nat /\ v = Len(S)
    BY <1>1, <1>2
  <2>3. QED BY <2>1, <2>2 DEF Whole
<1> HIDE DEF v
<1>4. /\ O \in Seq(Nat) /\ Len(O) = (n + 1) + 1
      /\ \A j \in 1 .. n + 1 : O[j] = o[j] /\ o[j] \in Nat
      /\ O[(n + 1) + 1] = v
  <2> HIDE DEF n
  <2>1. QED BY <1>3, Placed
<1>5. /\ P \in Seq(Seq(Byte)) /\ Len(P) = n + 1
      /\ \A j \in 1..n : P[j] = p[j] /\ p[j] \in Seq(Byte)
      /\ P[n + 1] = d
  BY AppendProperties
<1> HIDE DEF O, P
<1>6. /\ o[n + 1] = Len(st) /\ \A j \in 1 .. n + 1 : o[j] <= Len(st)
      /\ \A j \in 1..n : /\ o[j + 1] = o[j] + HdrLen + Len(p[j])
                         /\ st[o[j] + 1][1] = "h" /\ st[o[j] + 1][2] = Len(p[j])
                         /\ \A k \in 1..Len(p[j]) : st[o[j] + HdrLen + k] = p[j][k]
  BY DEF Whole
<1> HIDE DEF n
<1>7. ASSUME NEW j \in 1 .. (n + 1) + 1 PROVE O[j] <= Len(S)
  <2>1. CASE j \in 1 .. n + 1
    <3>1. O[j] = o[j] /\ o[j] \in Nat /\ o[j] <= Len(st)
      BY <1>4, <1>6, <2>1
    <3>2. QED BY <1>1, <1>2, <3>1
  <2>2. CASE j = (n + 1) + 1
    BY <1>3, <1>4, <2>2
  <2>3. QED BY <1>3, <2>1, <2>2
<1>8. ASSUME NEW j \in 1 .. n + 1
      PROVE  /\ O[j + 1] = O[j] + HdrLen + Len(P[j])
             /\ S[O[j] + 1][1] = "h" /\ S[O[j] + 1][2] = Len(P[j])
             /\ \A k \in 1..Len(P[j]) : S[O[j] + HdrLen + k] = P[j][k]
  <2>1. CASE j \in 1..n
    <3>0. j + 1 \in 1 .. n + 1 /\ j \in 1 .. n + 1
      BY <1>3, <2>1
    <3>1. /\ P[j] = p[j] /\ O[j] = o[j] /\ O[j + 1] = o[j + 1]
          /\ o[j] \in Nat /\ o[j + 1] \in Nat /\ Len(p[j]) \in Nat /\ o[j + 1] <= Len(st)
      <4>1. p[j] \in Seq(Byte) /\ P[j] = p[j]
        BY <1>5, <2>1
      <4>2. Len(p[j]) \in Nat
        BY <4>1, LenProperties
      <4>3. QED BY <1>4, <1>6, <3>0, <4>1, <4>2
    <3>2. o[j + 1] = o[j] + HdrLen + Len(p[j])
      BY <1>6, <2>1
    <3>3. o[j] + 1 \in 1..Len(st) /\ \A k \in 1..Len(p[j]) : o[j] + HdrLen + k \in 1..Len(st)
      <4> DEFINE x == o[j]
                 l == Len(p[j])
                 y == Len(st)
      <4>1. x \in Nat /\ l \in Nat /\ y \in Nat /\ HdrLen \in Nat /\ HdrLen > 0 /\ x + HdrLen + l <= y
        BY <1>1, <1>2, <3>1, <3>2
      <4> HIDE DEF x, l, y
      <4>2. x + 1 \in 1..y /\ \A k \in 1..l : x + HdrLen + k \in 1..y
        BY <4>1
      <4>3. QED BY <4>2 DEF x, l, y
    <3>4. S[o[j] + 1] = st[o[j] + 1] /\ \A k \in 1..Len(p[j]) : S[o[j] + HdrLen + k] = st[o[j] + HdrLen + k]
      BY <1>2, <3>3
    <3>5. QED BY <1>6, <2>1, <3>1, <3>4
  <2>2. CASE j = n + 1
    <3>1. P[j] = d /\ O[j] = Len(st) /\ O[j + 1] = v
      BY <1>3, <1>4, <1>5, <1>6, <2>2
    <3>2. 1 \in 1..Len(b) /\ 1 \in 1..HdrLen /\ \A k \in 1..Len(d) : HdrLen + k \in 1..Len(b)
      BY <1>1
    <3>3. S[Len(st) + 1] = <<"h", Len(d), s>>
      BY <1>1, <1>2, <3>2
    <3>4. ASSUME NEW k \in 1..Len(d) PROVE S[Len(st) + HdrLen + k] = d[k]
      <4>1. Len(st) + HdrLen + k = Len(st) + (HdrLen + k)
        BY <1>1, <1>2
      <4>2. QED BY <1>1, <1>2, <3>2, <4>1
    <3>5. QED BY <3>1, <3>3, <3>4 DEF v
  <2>3. j \in 1..n \/ j = n + 1
    BY <1>3
  <2>4. QED BY <2>1, <2>2, <2>3
<1>9. Whole(S, P, O)
  BY <1>3, <1>4, <1>5, <1>7, <1>8 DEF Whole
<1>10. QED BY <1>9 DEF S, P, O, b, v

\* d is the part of payload i after its byte e, and is followed by a part of payload i2
\* after its byte e2.
Part(d, i, e, i2, e2) ==
    /\ i \in 1..Len(sent) /\ e + Len(d) <= Len(sent[i])
    /\ \A k \in 1..Len(d) : d[k] = sent[i][e + k]
    /\ IF Continued(Len(d)) THEN i2 = i /\ e2 = e + Len(d)
                            ELSE e + Len(d) = Len(sent[i]) /\ i2 = i + 1 /\ e2 = 0

\* The packet carries the next part d of payload i, after its byte e.
LEMMA FollowsGrows ==
    ASSUME NEW p \in Seq(Seq(Byte)), NEW m \in Seq(Nat), NEW a \in Seq(Nat), Follows(sent, p, m, a),
           NEW d \in Seq(Byte), NEW i, NEW e \in Nat, m[Len(p) + 1] = i, a[Len(p) + 1] = e,
           Len(sent) \in Nat, NEW i2 \in Nat, NEW e2 \in Nat, Part(d, i, e, i2, e2)
    PROVE  Follows(sent, Append(p, d), Append(m, i2), Append(a, e2))
<1> DEFINE n == Len(p)
           P == Append(p, d)
           M == Append(m, i2)
           A == Append(a, e2)
<1>1. n \in Nat /\ Len(m) = n + 1 /\ Len(a) = n + 1
  BY DEF Follows
<1>2. /\ M \in Seq(Nat) /\ Len(M) = (n + 1) + 1
      /\ \A j \in 1 .. n + 1 : M[j] = m[j] /\ m[j] \in Nat
      /\ M[(n + 1) + 1] = i2
  <2>1. m \in Seq(Nat) /\ i2 \in Nat /\ n \in Nat /\ Len(m) = n + 1
    BY <1>1
  <2> HIDE DEF n
  <2>2. QED BY ONLY <2>1, Placed
<1>3. /\ A \in Seq(Nat) /\ Len(A) = (n + 1) + 1
      /\ \A j \in 1 .. n + 1 : A[j] = a[j] /\ a[j] \in Nat
      /\ A[(n + 1) + 1] = e2
  <2>1. a \in Seq(Nat) /\ e2 \in Nat /\ n \in Nat /\ Len(a) = n + 1
    BY <1>1
  <2> HIDE DEF n
  <2>2. QED BY ONLY <2>1, Placed
<1>4. /\ P \in Seq(Seq(Byte)) /\ Len(P) = n + 1
      /\ \A j \in 1..n : P[j] = p[j] /\ p[j] \in Seq(Byte)
      /\ P[n + 1] = d
  <2>1. \A j \in 1..n : p[j] \in Seq(Byte)
    BY ElementOfSeq
  <2>2. QED BY <2>1, AppendProperties
<1> HIDE DEF M, A, P
<1>5. ASSUME NEW j \in 1 .. n + 1
      PROVE  /\ M[j] \in 1..Len(sent) /\ A[j] + Len(P[j]) <= Len(sent[M[j]])
             /\ \A k \in 1..Len(P[j]) : P[j][k] = sent[M[j]][A[j] + k]
             /\ IF Continued(Len(P[j]))
                THEN M[j + 1] = M[j] /\ A[j + 1] = A[j] + Len(P[j])
                ELSE A[j] + Len(P[j]) = Len(sent[M[j]]) /\ M[j + 1] = M[j] + 1 /\ A[j + 1] = 0
  <2>1. CASE j \in 1..n
    <3>1. j \in 1 .. n + 1 /\ j + 1 \in 1 .. n + 1
      BY <1>1, <2>1
    <3>2. P[j] = p[j] /\ M[j] = m[j] /\ A[j] = a[j] /\ M[j + 1] = m[j + 1] /\ A[j + 1] = a[j + 1]
      BY <1>2, <1>3, <1>4, <2>1, <3>1
    <3>3. /\ m[j] \in 1..Len(sent) /\ a[j] + Len(p[j]) <= Len(sent[m[j]])
          /\ \A k \in 1..Len(p[j]) : p[j][k] = sent[m[j]][a[j] + k]
          /\ IF Continued(Len(p[j]))
             THEN m[j + 1] = m[j] /\ a[j + 1] = a[j] + Len(p[j])
             ELSE a[j] + Len(p[j]) = Len(sent[m[j]]) /\ m[j + 1] = m[j] + 1 /\ a[j + 1] = 0
      BY <2>1 DEF Follows
    <3>4. QED BY <3>2, <3>3
  <2>2. CASE j = n + 1
    <3>1. P[j] = d /\ M[j] = i /\ A[j] = e /\ M[j + 1] = i2 /\ A[j + 1] = e2
      BY <1>1, <1>2, <1>3, <1>4, <2>2
    <3>2. QED BY <3>1 DEF Part
  <2>3. QED BY <1>1, <2>1, <2>2
<1>6. Follows(sent, P, M, A)
  BY <1>2, <1>3, <1>4, <1>5 DEF Follows
<1>7. QED BY <1>6 DEF P, M, A

\* Its bytes join those that a server holds.
LEMMA CarriedGrows ==
    ASSUME NEW bf \in Seq(Byte), NEW w \in Seq(Frame), NEW ck \in Seq(Byte), NEW st \in Seq(Byte),
           NEW r \in Nat, NEW c \in Seq(Nat), Carried(bf, w, ck, st, r, c), NEW b \in Seq(Byte)
    PROVE  Carried(bf, w, ck \o b, st \o b, r, c)
<1> DEFINE n == Len(w)
           S == st \o b
           K == ck \o b
<1>1. /\ S \in Seq(Byte) /\ Len(S) = Len(st) + Len(b) /\ Len(st) \in Nat /\ Len(b) \in Nat
      /\ \A k \in 1..Len(st) : S[k] = st[k]
      /\ \A k \in 1..Len(b) : S[Len(st) + k] = b[k]
  BY Joined
<1>2. /\ K \in Seq(Byte) /\ Len(K) = Len(ck) + Len(b) /\ Len(ck) \in Nat
      /\ \A k \in 1..Len(ck) : K[k] = ck[k]
      /\ \A k \in 1..Len(b) : K[Len(ck) + k] = b[k]
  BY Joined
<1> HIDE DEF S, K
<1>3. n \in Nat /\ Len(c) = n + 1 /\ \A j \in 1 .. n + 1 : c[j] \in Nat /\ c[j] <= Len(st)
  <2>1. n \in Nat /\ Len(c) = n + 1 /\ \A j \in 1 .. n + 1 : c[j] <= Len(st)
    BY LenProperties DEF Carried
  <2>2. \A j \in 1 .. n + 1 : c[j] \in Nat
    BY <2>1, ElementOfSeq
  <2>3. QED BY <2>1, <2>2
<1>4. \A j \in 1 .. n + 1 : c[j] <= Len(S)
  BY <1>1, <1>3
<1>5. r + Len(bf) = c[1] /\ \A k \in 1..Len(bf) : bf[k] = S[r + k]
  <2>1. r + Len(bf) = c[1] /\ Len(bf) \in Nat /\ 1 \in 1 .. n + 1
    BY <1>3 DEF Carried
  <2>2. \A k \in 1..Len(bf) : r + k \in 1..Len(st)
    BY <1>1, <1>3, <2>1
  <2>3. \A k \in 1..Len(bf) : bf[k] = st[r + k]
    BY DEF Carried
  <2>4. QED BY <1>1, <2>1, <2>2, <2>3
<1>6. ASSUME NEW j \in 1..n
      PROVE  /\ c[j + 1] = c[j] + Len(StripExtra(w[j]))
             /\ \A k \in 1..Len(StripExtra(w[j])) : StripExtra(w[j])[k] = S[c[j] + k]
  <2> DEFINE f == StripExtra(w[j])
  <2>1. c[j + 1] = c[j] + Len(f) /\ \A k \in 1..Len(f) : f[k] = st[c[j] + k]
    BY DEF Carried
  <2>2. Len(f) \in Nat
    <3>1. w[j] \in Frame
      BY ElementOfSeq
    <3>2. QED BY <3>1, StripType
  <2> HIDE DEF f
  <2>3. c[j] \in Nat /\ c[j + 1] <= Len(st)
    BY <1>3
  <2>4. \A k \in 1..Len(f) : c[j] + k \in 1..Len(st)
    <3>1. \A x, l, y \in Nat : x + l <= y => \A k \in 1..l : x + k \in 1..y
      OBVIOUS
    <3>2. c[j] + Len(f) <= Len(st)
      BY <2>1, <2>3
    <3>3. QED BY <1>1, <2>2, <2>3, <3>1, <3>2
  <2>5. \A k \in 1..Len(f) : f[k] = S[c[j] + k]
    BY <1>1, <2>1, <2>4
  <2>6. QED BY <2>1, <2>5 DEF f
<1>7. c[n + 1] + Len(ck) = Len(st) /\ c[n + 1] \in Nat /\ \A k \in 1..Len(ck) : ck[k] = st[c[n + 1] + k]
  BY <1>3 DEF Carried
<1>0. PICK x \in Nat, h \in Nat, l \in Nat, y \in Nat : x = c[n + 1] /\ h = Len(ck) /\ l = Len(b) /\ y = Len(st)
  BY <1>1, <1>2, <1>7
<1>70. x + h = y
  BY <1>0, <1>7
<1>71. Len(S) = y + l /\ Len(K) = h + l
  BY <1>0, <1>1, <1>2
<1>8. x + Len(K) = Len(S)
  <2>1. x + (h + l) = y + l
    BY <1>70
  <2>2. QED BY <1>71, <2>1, Zenon
<1>9. ASSUME NEW k \in 1..Len(K) PROVE K[k] = S[x + k]
  <2>1. CASE k \in 1..Len(ck)
    <3>0. k \in 1..h
      BY <1>0, <2>1
    <3>1. x + k \in 1..y
      BY <1>70, <3>0
    <3>2. ck[k] = st[x + k]
      BY <1>0, <1>7, <2>1
    <3>3. QED BY <1>0, <1>1, <1>2, <2>1, <3>1, <3>2
  <2>2. CASE k > Len(ck)
    <3>1. k \in 1 .. h + l /\ k > h
      BY <1>0, <1>71, <2>2
    <3>2. PICK g \in 1..l : k = h + g /\ x + k = y + g
      <4>1. k - h \in 1..l /\ k = h + (k - h) /\ x + k = y + (k - h)
        BY <1>70, <3>1
      <4>2. QED BY <4>1
    <3>3. K[h + g] = b[g] /\ S[y + g] = b[g]
      BY <1>0, <1>1, <1>2, <3>2
    <3>4. QED BY <3>2, <3>3
  <2>3. QED BY <1>1, <1>2, <2>1, <2>2
<1>10. Carried(bf, w, K, S, r, c)
  BY <1>0, <1>3, <1>4, <1>5, <1>6, <1>8, <1>9 DEF Carried
<1>11. QED BY <1>10 DEF S, K

(***************************************************************************)
(* Bytes move on.                                                          *)
(***************************************************************************)

\* Numbers of Carried, which hold for every stream.
LEMMA CarriedNumbers ==
    ASSUME NEW bf \in Seq(Byte), NEW w \in Seq(Frame), NEW ck \in Seq(Byte), NEW st \in Seq(Byte),
           NEW r \in Nat, NEW c \in Seq(Nat), Carried(bf, w, ck, st, r, c)
    PROVE  /\ Len(w) \in Nat /\ Len(c) = Len(w) + 1 /\ Len(st) \in Nat /\ Len(ck) \in Nat /\ Len(bf) \in Nat
           /\ \A j \in 1 .. Len(w) + 1 : c[j] \in Nat /\ c[j] <= Len(st)
           /\ \A j \in 1 .. Len(w) : StripExtra(w[j]) \in Seq(Byte) /\ Len(StripExtra(w[j])) \in Nat
<1>1. Len(w) \in Nat /\ Len(c) = Len(w) + 1 /\ \A j \in 1 .. Len(w) + 1 : c[j] <= Len(st)
  BY LenProperties DEF Carried
<1>2. \A j \in 1 .. Len(w) + 1 : c[j] \in Nat
  BY <1>1, ElementOfSeq
<1>3. Len(st) \in Nat /\ Len(ck) \in Nat /\ Len(bf) \in Nat
  BY LenProperties
<1>4. \A j \in 1 .. Len(w) : w[j] \in Frame
  BY ElementOfSeq
<1>5. QED BY <1>1, <1>2, <1>3, <1>4, StripType

\* The first h bytes that a server holds are put into a frame.
LEMMA CarriedFramed ==
    ASSUME NEW bf \in Seq(Byte), NEW w \in Seq(Frame), NEW ck \in Seq(Byte), NEW st \in Seq(Byte),
           NEW r \in Nat, NEW c \in Seq(Nat), Carried(bf, w, ck, st, r, c),
           NEW f \in Frame, NEW h \in 0 .. Len(ck), NEW rem \in Seq(Byte),
           Len(StripExtra(f)) = h, \A k \in 1..h : StripExtra(f)[k] = ck[k],
           Len(rem) = Len(ck) - h, \A k \in 1..Len(rem) : rem[k] = ck[h + k]
    PROVE  Carried(bf, Append(w, f), rem, st, r, Append(c, c[Len(w) + 1] + h))
<1> DEFINE W == Append(w, f)
           C == Append(c, c[Len(w) + 1] + h)
<1>1. /\ Len(w) \in Nat /\ Len(c) = Len(w) + 1 /\ Len(st) \in Nat /\ Len(ck) \in Nat
      /\ \A j \in 1 .. Len(w) + 1 : c[j] \in Nat /\ c[j] <= Len(st)
  BY CarriedNumbers
<1>2. PICK n \in Nat, x \in Nat, y \in Nat, z \in Nat : n = Len(w) /\ x = c[n + 1] /\ y = Len(st) /\ z = Len(ck)
  BY <1>1
<1>3. h \in Nat /\ h <= z /\ x + z = y /\ x + h \in Nat
  <2>1. h \in 0..z
    BY <1>2
  <2>2. x + z = y
    BY <1>2 DEF Carried
  <2>3. QED BY <2>1, <2>2
<1>4. /\ Len(W) = n + 1 /\ W[n + 1] = f /\ \A j \in 1..n : W[j] = w[j]
  BY <1>2, AppendProperties
<1>5. /\ Len(C) = (n + 1) + 1 /\ C[(n + 1) + 1] = x + h /\ \A j \in 1 .. n + 1 : C[j] = c[j]
  <2>1. c \in Seq(Nat) /\ x + h \in Nat /\ n \in Nat /\ Len(c) = n + 1 /\ C = Append(c, x + h)
    BY <1>1, <1>2, <1>3
  <2>2. /\ Len(Append(c, x + h)) = Len(c) + 1 /\ Append(c, x + h)[Len(c) + 1] = x + h
        /\ \A j \in 1..Len(c) : Append(c, x + h)[j] = c[j]
    BY ONLY <2>1, Longer
  <2> HIDE DEF C
  <2>3. QED BY <2>1, <2>2, Zenon
<1> HIDE DEF W, C
<1>6. ASSUME NEW j \in 1 .. (n + 1) + 1 PROVE C[j] <= y
  <2>1. CASE j \in 1 .. n + 1
    BY <1>1, <1>2, <1>5, <2>1
  <2>2. CASE j = (n + 1) + 1
    BY <1>3, <1>5, <2>2
  <2>3. j \in 1 .. n + 1 \/ j = (n + 1) + 1
    BY <1>2
  <2>4. QED BY <2>1, <2>2, <2>3
<1>7. r + Len(bf) = C[1] /\ \A k \in 1..Len(bf) : bf[k] = st[r + k]
  <2>1. 1 \in 1 .. n + 1
    BY <1>2
  <2>2. r + Len(bf) = c[1] /\ \A k \in 1..Len(bf) : bf[k] = st[r + k]
    BY DEF Carried
  <2>3. QED BY <1>5, <2>1, <2>2
<1>8. \A k \in 1..z : ck[k] = st[x + k]
  BY <1>2 DEF Carried
<1>9. ASSUME NEW j \in 1 .. n + 1
      PROVE  /\ C[j + 1] = C[j] + Len(StripExtra(W[j]))
             /\ \A k \in 1..Len(StripExtra(W[j])) : StripExtra(W[j])[k] = st[C[j] + k]
  <2>1. CASE j \in 1..n
    <3>1. j \in 1 .. n + 1 /\ j + 1 \in 1 .. n + 1
      BY <1>2, <2>1
    <3>2. C[j] = c[j] /\ C[j + 1] = c[j + 1] /\ W[j] = w[j]
      BY <1>4, <1>5, <2>1, <3>1
    <3>3. /\ c[j + 1] = c[j] + Len(StripExtra(w[j]))
          /\ \A k \in 1..Len(StripExtra(w[j])) : StripExtra(w[j])[k] = st[c[j] + k]
      BY <1>2, <2>1 DEF Carried
    <3>4. QED BY <3>2, <3>3
  <2>2. CASE j = n + 1
    <3>1. C[j] = x /\ C[j + 1] = x + h /\ W[j] = f
      BY <1>2, <1>4, <1>5, <2>2
    <3>2. \A k \in 1..h : k \in 1..z
      BY <1>2, <1>3
    <3>3. \A k \in 1..h : StripExtra(f)[k] = st[x + k]
      BY <1>8, <3>2
    <3>4. QED BY <3>1, <3>3
  <2>3. j \in 1..n \/ j = n + 1
    OBVIOUS
  <2>4. QED BY <2>1, <2>2, <2>3
<1>10. C[(n + 1) + 1] + Len(rem) = y /\ \A k \in 1..Len(rem) : rem[k] = st[C[(n + 1) + 1] + k]
  <2>1. PICK l \in Nat : l = Len(rem) /\ h + l = z
    <3>1. z - h \in Nat /\ h + (z - h) = z
      BY <1>3
    <3>2. QED BY <1>2, <3>1
  <2>2. (x + h) + l = y
    <3>1. PICK i \in Nat : i = h
      BY <1>3
    <3>2. x + z = y /\ i + l = z
      BY <1>3, <2>1, <3>1
    <3>3. (x + i) + l = y
      BY <3>2
    <3>4. QED BY <3>1, <3>3
  <2>3. ASSUME NEW k \in 1..l PROVE rem[k] = st[(x + h) + k]
    <3>1. h + k \in 1..z /\ x + (h + k) = (x + h) + k
      BY <1>3, <2>1
    <3>2. rem[k] = ck[h + k]
      BY <2>1
    <3>3. QED BY <1>8, <3>1, <3>2
  <2>4. QED BY <1>5, <2>1, <2>2, <2>3
<1>11. Carried(bf, W, rem, st, r, C)
  <2>1. Len(W) + 1 = (n + 1) + 1 /\ Len(st) = y
    BY <1>2, <1>4
  <2>2. /\ Len(C) = Len(W) + 1 /\ \A j \in 1 .. Len(W) + 1 : C[j] <= Len(st)
        /\ C[Len(W) + 1] + Len(rem) = Len(st) /\ \A k \in 1..Len(rem) : rem[k] = st[C[Len(W) + 1] + k]
    BY <1>5, <1>6, <1>10, <2>1, Zenon
  <2>3. \A j \in 1..Len(W) : /\ C[j + 1] = C[j] + Len(StripExtra(W[j]))
                             /\ \A k \in 1..Len(StripExtra(W[j])) : StripExtra(W[j])[k] = st[C[j] + k]
    BY <1>4, <1>9, Zenon
  <2>4. QED BY <1>7, <2>2, <2>3, Zenon DEF Carried
<1>12. QED BY <1>11 DEF W, C

\* The reader takes the first frame into its buffer.
LEMMA CarriedRead ==
    ASSUME NEW bf \in Seq(Byte), NEW w \in Seq(Frame), NEW ck \in Seq(Byte), NEW st \in Seq(Byte),
           NEW r \in Nat, NEW c \in Seq(Nat), Carried(bf, w, ck, st, r, c), w # <<>>
    PROVE  /\ Tail(c) \in Seq(Nat)
           /\ Carried(bf \o StripExtra(Head(w)), Tail(w), ck, st, r, Tail(c))
<1> DEFINE W == Tail(w)
           C == Tail(c)
           f == StripExtra(w[1])
           B == bf \o f
<1>1. /\ Len(w) \in Nat /\ Len(c) = Len(w) + 1 /\ Len(st) \in Nat
      /\ \A j \in 1 .. Len(w) + 1 : c[j] \in Nat /\ c[j] <= Len(st)
      /\ \A j \in 1 .. Len(w) : StripExtra(w[j]) \in Seq(Byte)
  BY CarriedNumbers
<1>2. PICK n \in Nat : Len(w) = n + 1
  <2>1. Len(w) \in Nat \ {0}
    BY EmptySeq
  <2>2. Len(w) - 1 \in Nat /\ Len(w) = (Len(w) - 1) + 1
    BY <2>1
  <2>3. QED BY <2>2
<1>3. 1 \in 1 .. n + 1 /\ 1 \in 1 .. (n + 1) + 1 /\ 1 + 1 \in 1 .. (n + 1) + 1
  OBVIOUS
<1>4. /\ Head(w) = w[1] /\ Len(W) = n /\ \A j \in 1..n : W[j] = w[j + 1]
  BY <1>2, HeadTailProperties
<1>5. /\ C \in Seq(Nat) /\ Len(C) = n + 1 /\ \A j \in 1 .. n + 1 : C[j] = c[j + 1]
  <2>1. c \in Seq(Nat) /\ Len(c) = (n + 1) + 1 /\ c # <<>>
    BY <1>1, <1>2
  <2>2. /\ C \in Seq(Nat) /\ Len(C) = Len(c) - 1 /\ \A j \in 1 .. Len(C) : C[j] = c[j + 1]
    BY <2>1, HeadTailProperties
  <2>3. ((n + 1) + 1) - 1 = n + 1
    OBVIOUS
  <2>4. QED BY <2>1, <2>2, <2>3
<1>6. f \in Seq(Byte)
  BY <1>1, <1>2, <1>3
<1> HIDE DEF W, C, f
<1>7. /\ B \in Seq(Byte) /\ Len(B) = Len(bf) + Len(f) /\ Len(bf) \in Nat /\ Len(f) \in Nat
      /\ \A k \in 1..Len(bf) : B[k] = bf[k]
      /\ \A k \in 1..Len(f) : B[Len(bf) + k] = f[k]
  BY <1>6, Joined
<1> HIDE DEF B
<1>8. PICK h \in Nat, l \in Nat, x \in Nat, z \in Nat : h = Len(bf) /\ l = Len(f) /\ x = c[1] /\ z = c[1 + 1]
  BY <1>1, <1>2, <1>3, <1>7
<1>9. /\ r + h = x /\ \A k \in 1..h : bf[k] = st[r + k]
      /\ z = x + l /\ \A k \in 1..l : f[k] = st[x + k]
  BY <1>2, <1>3, <1>8 DEF Carried, f
<1>10. r + Len(B) = C[1] /\ \A k \in 1..Len(B) : B[k] = st[r + k]
  <2>1. Len(B) = h + l /\ C[1] = z
    BY <1>3, <1>5, <1>7, <1>8
  <2>2. r + (h + l) = z
    BY <1>9
  <2>3. ASSUME NEW k \in 1 .. h + l PROVE B[k] = st[r + k]
    <3>1. CASE k \in 1..h
      BY <1>7, <1>8, <1>9, <3>1
    <3>2. CASE k \in h + 1 .. h + l
      <4>1. k - h \in 1..l /\ h + (k - h) = k /\ x + (k - h) = r + k
        BY <1>9, <3>2
      <4>2. PICK g \in 1..l : h + g = k /\ x + g = r + k
        BY <4>1
      <4>3. B[h + g] = f[g] /\ f[g] = st[x + g]
        BY <1>7, <1>8, <1>9
      <4>4. QED BY <4>2, <4>3
    <3>3. k \in 1..h \/ k \in h + 1 .. h + l
      OBVIOUS
    <3>4. QED BY <3>1, <3>2, <3>3
  <2>4. QED BY <2>1, <2>2, <2>3
<1>11. ASSUME NEW j \in 1 .. n + 1 PROVE C[j] <= Len(st)
  <2>1. j + 1 \in 1 .. (n + 1) + 1
    OBVIOUS
  <2>2. QED BY <1>1, <1>2, <1>5, <2>1
<1>12. ASSUME NEW j \in 1..n
       PROVE  /\ C[j + 1] = C[j] + Len(StripExtra(W[j]))
              /\ \A k \in 1..Len(StripExtra(W[j])) : StripExtra(W[j])[k] = st[C[j] + k]
  <2>1. j \in 1 .. n + 1 /\ j + 1 \in 1 .. n + 1
    OBVIOUS
  <2>2. /\ c[(j + 1) + 1] = c[j + 1] + Len(StripExtra(w[j + 1]))
        /\ \A k \in 1..Len(StripExtra(w[j + 1])) : StripExtra(w[j + 1])[k] = st[c[j + 1] + k]
    BY <1>2, <2>1 DEF Carried
  <2>3. C[j] = c[j + 1] /\ C[j + 1] = c[(j + 1) + 1] /\ W[j] = w[j + 1]
    BY <1>4, <1>5, <2>1
  <2>4. QED BY <2>2, <2>3
<1>13. C[n + 1] + Len(ck) = Len(st) /\ \A k \in 1..Len(ck) : ck[k] = st[C[n + 1] + k]
  <2>1. C[n + 1] = c[(n + 1) + 1]
    <3>1. n + 1 \in 1 .. n + 1
      OBVIOUS
    <3>2. QED BY <1>5, <3>1
  <2>2. QED BY <1>2, <2>1 DEF Carried
<1>14. Carried(B, W, ck, st, r, C)
  BY <1>4, <1>5, <1>10, <1>11, <1>12, <1>13 DEF Carried
<1>15. QED BY <1>4, <1>5, <1>14 DEF B, W, C, f

\* The first g bytes of the buffer are used up.
LEMMA CarriedTaken ==
    ASSUME NEW bf \in Seq(Byte), NEW w \in Seq(Frame), NEW ck \in Seq(Byte), NEW st \in Seq(Byte),
           NEW r \in Nat, NEW c \in Seq(Nat), Carried(bf, w, ck, st, r, c), NEW g \in 0 .. Len(bf)
    PROVE  Carried(SubSeq(bf, g + 1, Len(bf)), w, ck, st, r + g, c)
<1> DEFINE B == SubSeq(bf, g + 1, Len(bf))
<1>1. B \in Seq(Byte) /\ Len(B) = Len(bf) - g /\ \A k \in 1..Len(B) : B[k] = bf[g + k]
  BY RestOf
<1> HIDE DEF B
<1>2. r + Len(bf) = c[1] /\ \A k \in 1..Len(bf) : bf[k] = st[r + k]
  BY DEF Carried
<1>3. PICK h \in Nat, l \in Nat : h = Len(bf) /\ l = Len(B) /\ h = g + l /\ g \in Nat
  <2>1. Len(bf) \in Nat /\ Len(B) \in Nat
    BY <1>1, LenProperties
  <2>2. PICK h \in Nat, l \in Nat : h = Len(bf) /\ l = Len(B)
    BY <2>1
  <2>3. l = h - g /\ g \in 0..h
    BY <1>1, <2>2
  <2>4. h = g + l /\ g \in Nat
    BY <2>3
  <2>5. QED BY <2>2, <2>4
<1>4. (r + g) + Len(B) = c[1]
  <2>1. (r + g) + l = r + h
    BY <1>3
  <2>2. QED BY <1>2, <1>3, <2>1
<1>5. ASSUME NEW k \in 1..Len(B) PROVE B[k] = st[(r + g) + k]
  <2>0. k \in 1..l
    BY <1>3
  <2>1. g + k \in 1..h /\ r + (g + k) = (r + g) + k
    BY <1>3, <2>0
  <2>2. QED BY <1>1, <1>2, <1>3, <2>1
<1>6. Carried(B, w, ck, st, r + g, c)
  BY <1>4, <1>5 DEF Carried
<1>7. QED BY <1>6 DEF B

(***************************************************************************)
(* The writer.                                                             *)
(***************************************************************************)

\* The bytes b leave the writer: into the hands of a server, or in a frame.
Puts(b) ==
    \/ mode = "server" /\ cork' = cork \o b /\ wire' = wire
    \/ /\ cork = <<>> /\ cork' = <<>>
       /\ \E f \in Frame : /\ wire' = Append(wire, f) /\ StripExtra(f) = b
                           /\ mode = "plain" => f.extra = 0 /\ f.data = b

LEMMA EmitPuts ==
    ASSUME PacketInv, mode # "zip", NEW d \in Seq(Byte), Emit(d) PROVE Puts(MySQLPacket(d, wseq))
<1> DEFINE b == MySQLPacket(d, wseq)
<1>1. wseq \in Nat
  BY Sizes DEF PacketInv, Typed
<1>2. b \in Seq(Byte)
  BY <1>1, PacketBytes
<1>3. CASE mode = "server"
  BY <1>3 DEF Emit, Puts
<1>4. CASE mode # "server"
  <2>1. PICK f \in Wraps(d, wseq) : wire' = Append(wire, f)
    BY <1>4 DEF Emit
  <2>2. cork = <<>> /\ cork' = <<>>
    BY <1>4 DEF Emit, PacketInv, Corked
  <2>3. /\ OB20 => \E x \in ExtraLens : f = OB20Frame(x, b)
        /\ ~OB20 => f \in Frame /\ f.data = b /\ f.extra = 0
    BY <2>1, WrapCases DEF PacketInv
  <2> HIDE DEF b
  <2>4. f \in Frame /\ StripExtra(f) = b /\ (mode = "plain" => f.extra = 0 /\ f.data = b)
    <3>1. CASE OB20
      <4>1. PICK x \in ExtraLens : f = OB20Frame(x, b)
        BY <2>3, <3>1
      <4>2. x \in Nat
        BY Sizes
      <4>3. f \in Frame /\ f.extra = x /\ f.data = Extra(x) \o b
        BY <1>2, <4>1, <4>2, FrameBytes
      <4>4. StripExtra(f) = b
        BY <1>2, <4>2, <4>3, Stripped
      <4>5. QED BY <3>1, <4>3, <4>4 DEF OB20
    <3>2. CASE ~OB20
      BY <1>2, <2>3, <3>2, NothingStripped
    <3>3. QED BY <3>1, <3>2
  <2>5. Puts(b)
    BY <2>1, <2>2, <2>4 DEF Puts
  <2>6. QED BY <2>5 DEF b
<1>5. QED BY <1>3, <1>4

LEMMA EmptyPuts ==
    ASSUME PacketInv, mode # "zip", WriteEmptyContinuation PROVE Puts(MySQLPacket(<<>>, wseq))
<1> DEFINE b == MySQLPacket(<<>>, wseq)
<1>1. wseq \in Nat /\ <<>> \in Seq(Byte)
  BY Sizes DEF PacketInv, Typed
<1>2. b \in Seq(Byte) /\ Len(b) \in Nat
  <2>1. b \in Seq(Byte)
    BY <1>1, PacketBytes
  <2>2. QED BY <2>1, LenProperties
<1>3. CASE mode = "server"
  BY <1>3 DEF WriteEmptyContinuation, Puts
<1>4. CASE mode # "server"
  <2> DEFINE f == IF OB20 THEN OB20Frame(0, b)
                  ELSE [kind |-> "mysql", extra |-> 0, data |-> b, clen |-> Len(b)]
  <2>1. wire' = Append(wire, f)
    BY <1>4 DEF WriteEmptyContinuation
  <2>2. cork = <<>> /\ cork' = <<>>
    BY <1>4 DEF WriteEmptyContinuation, PacketInv, Corked
  <2> HIDE DEF b
  <2>4. f \in Frame /\ StripExtra(f) = b /\ (mode = "plain" => f.extra = 0 /\ f.data = b)
    <3>1. CASE OB20
      <4>1. f = OB20Frame(0, b)
        BY <3>1
      <4>2. f \in Frame /\ f.extra = 0 /\ f.data = Extra(0) \o b
        <5> HIDE DEF f
        <5>1. QED BY <1>2, <4>1, FrameBytes
      <4>3. StripExtra(f) = b
        <5> HIDE DEF f
        <5>1. QED BY <1>2, <4>2, Stripped
      <4>4. QED BY <3>1, <4>2, <4>3 DEF OB20
    <3>2. CASE ~OB20
      <4>1. f = [kind |-> "mysql", extra |-> 0, data |-> b, clen |-> Len(b)]
        BY <3>2
      <4>2. f \in Frame /\ f.extra = 0 /\ f.data = b
        BY <1>2, <4>1 DEF Frame
      <4> HIDE DEF f
      <4>3. QED BY <1>2, <4>2, NothingStripped
    <3>3. QED BY <3>1, <3>2
  <2> HIDE DEF f
  <2>5. Puts(b)
    BY <2>1, <2>2, <2>4 DEF Puts
  <2>6. QED BY <2>5 DEF b
<1>5. QED BY <1>3, <1>4

\* In plain mode frames stay packets.
LEMMA PutsPlain ==
    ASSUME PacketInv, PlainFrames, NEW d \in Seq(Byte), Puts(MySQLPacket(d, wseq)), mode' = mode, buf' = buf
    PROVE  PlainFrames'
<1> DEFINE b == MySQLPacket(d, wseq)
<1> SUFFICES ASSUME mode = "plain"
             PROVE  \A j \in 1..Len(wire') : PlainFrame(wire'[j])
  BY DEF PlainFrames, PlainFrame, HeadLen
<1>1. wseq \in Nat /\ wire \in Seq(Frame)
  BY Sizes DEF PacketInv, Typed
<1>2. b[1] = <<"h", Len(d), wseq>> /\ Len(b) = HdrLen + Len(d)
  <2>1. Len(b) = HdrLen + Len(d) /\ \A k \in 1..HdrLen : b[k] = <<"h", Len(d), wseq>>
    BY <1>1, PacketBytes
  <2>2. 1 \in 1..HdrLen
    BY Sizes
  <2>3. QED BY <2>1, <2>2
<1>3. Len(b) = HdrLen + HeadLen(b) /\ HeadLen(b) \in Nat
  BY <1>2, LenProperties DEF HeadLen
<1> HIDE DEF b
<1>4. PICK f \in Frame : wire' = Append(wire, f) /\ f.extra = 0 /\ f.data = b
  BY DEF Puts, b
<1>5. /\ Len(wire) \in Nat /\ Len(wire') = Len(wire) + 1 /\ wire'[Len(wire) + 1] = f
      /\ \A j \in 1..Len(wire) : wire'[j] = wire[j]
  BY <1>1, <1>4, AppendProperties, LenProperties
<1>6. ASSUME NEW j \in 1..Len(wire')
      PROVE  PlainFrame(wire'[j])
  <2>1. CASE j = Len(wire) + 1
    BY <1>3, <1>4, <1>5, <2>1 DEF PlainFrame
  <2>2. CASE j \in 1..Len(wire)
    BY <1>5, <2>2 DEF PlainFrames
  <2>3. j = Len(wire) + 1 \/ j \in 1..Len(wire)
    BY <1>5
  <2>4. QED BY <2>1, <2>2, <2>3
<1>7. QED BY <1>6

\* The stream grows by the bytes that the writer puts out.
LEMMA CarriedPut ==
    ASSUME PacketInv, NEW b \in Seq(Byte), Puts(b), buf' = buf, NEW st \in Seq(Byte), NEW r \in Nat,
           NEW c \in Seq(Nat), Carried(buf, wire, cork, st, r, c)
    PROVE  \E c2 \in Seq(Nat) : Carried(buf', wire', cork', st \o b, r, c2)
<1>1. buf \in Seq(Byte) /\ wire \in Seq(Frame) /\ cork \in Seq(Byte)
  BY DEF PacketInv, Typed
<1>2. Carried(buf, wire, cork \o b, st \o b, r, c)
  BY <1>1, CarriedGrows
<1>3. CASE mode = "server" /\ cork' = cork \o b /\ wire' = wire
  <2>1. Carried(buf', wire', cork', st \o b, r, c)
    BY <1>2, <1>3
  <2>2. QED BY <2>1
<1>4. CASE ~(mode = "server" /\ cork' = cork \o b /\ wire' = wire)
  <2>1. cork = <<>> /\ cork' = <<>>
    BY <1>4 DEF Puts
  <2>2. PICK f \in Frame : wire' = Append(wire, f) /\ StripExtra(f) = b
    BY <1>4 DEF Puts
  <2>3. Carried(buf, wire, b, st \o b, r, c)
    <3>1. cork \o b = b
      BY <2>1, ConcatEmptySeq
    <3>2. QED BY <1>2, <3>1
  <2> DEFINE S == st \o b
             v == c[Len(wire) + 1] + Len(b)
  <2>4. S \in Seq(Byte) /\ <<>> \in Seq(Byte) /\ Len(<<>>) = 0 /\ Len(b) \in Nat
    BY Joined
  <2> HIDE DEF S
  <2>5. Carried(buf, wire, b, S, r, c)
    BY <2>3 DEF S
  <2>6. Len(b) \in 0 .. Len(b) /\ Len(<<>>) = Len(b) - Len(b)
    BY <2>4
  <2>7. Carried(buf, Append(wire, f), <<>>, S, r, Append(c, v))
    <3>1. \A k \in 1..Len(b) : StripExtra(f)[k] = b[k]
      BY <2>2
    <3>2. \A k \in 1..Len(<<>>) : <<>>[k] = b[Len(b) + k]
      BY <2>4
    <3>3. QED BY <1>1, <2>2, <2>4, <2>5, <2>6, <3>1, <3>2, CarriedFramed
  <2>8. Append(c, v) \in Seq(Nat)
    <3>1. Len(wire) + 1 \in 1 .. Len(wire) + 1 /\ \A j \in 1 .. Len(wire) + 1 : c[j] \in Nat
      <4>1. Len(wire) \in Nat /\ \A j \in 1 .. Len(wire) + 1 : c[j] \in Nat
        BY <1>1, <2>4, <2>5, CarriedNumbers
      <4>2. Len(wire) + 1 \in 1 .. Len(wire) + 1
        BY <4>1, LastPlace, Zenon
      <4>3. QED BY <4>1, <4>2, Zenon
    <3>2. v \in Nat
      BY <2>4, <3>1
    <3> HIDE DEF v
    <3>3. QED BY <3>2, AppendProperties
  <2> HIDE DEF v
  <2>9. Carried(buf', wire', cork', S, r, Append(c, v))
    BY <2>1, <2>2, <2>7
  <2>10. QED BY <2>8, <2>9 DEF S
<1>5. QED BY <1>3, <1>4

\* A packet with the next part of a payload is written.
LEMMA HistoryGrows ==
    ASSUME PacketInv, NEW st \in Seq(Byte), NEW p \in Seq(Seq(Byte)), NEW o \in Seq(Nat), NEW m \in Seq(Nat),
           NEW a \in Seq(Nat), NEW c \in Seq(Nat), NEW q \in Nat, History(st, p, o, m, a, c, q),
           NEW d \in Seq(Byte), Puts(MySQLPacket(d, wseq)), UNCHANGED <<sent, buf, acc, got>>,
           NEW i0, NEW e0 \in Nat, m[Len(p) + 1] = i0, a[Len(p) + 1] = e0,
           NEW i \in Nat, NEW e \in Nat, Part(d, i0, e0, i, e), WriterAt(i, e)'
    PROVE  Written'
<1> DEFINE b == MySQLPacket(d, wseq)
<1>1. /\ Whole(st, p, o) /\ Follows(sent, p, m, a) /\ q \in 1 .. Len(p) + 1
      /\ Carried(buf, wire, cork, st, o[q], c) /\ ReaderAt(m[q], a[q])
  BY DEF History
<1>2. PICK n \in Nat : n = Len(p) /\ Len(o) = n + 1 /\ Len(m) = n + 1 /\ Len(a) = n + 1
  BY <1>1, LenProperties DEF Whole, Follows
<1>3. wseq \in Nat /\ Len(sent) \in Nat
  BY Sizes, LenProperties DEF PacketInv, Typed
<1>4. b \in Seq(Byte)
  BY <1>3, PacketBytes
<1>9. PICK S \in Seq(Byte) : S = st \o b
  BY <1>4, Joined
<1>10. PICK P \in Seq(Seq(Byte)) : P = Append(p, d) /\ Len(P) = n + 1
  <2>1. Append(p, d) \in Seq(Seq(Byte)) /\ Len(Append(p, d)) = n + 1
    BY <1>2, AppendProperties
  <2>2. QED BY <2>1
<1>11. PICK O \in Seq(Nat) : O = Append(o, Len(st) + HdrLen + Len(d)) /\ \A j \in 1 .. n + 1 : O[j] = o[j]
  <2>1. Len(st) + HdrLen + Len(d) \in Nat
    BY Sizes, LenProperties
  <2> DEFINE v == Len(st) + HdrLen + Len(d)
  <2> HIDE DEF v
  <2>2. v \in Nat
    BY <2>1 DEF v
  <2>3. Append(o, v) \in Seq(Nat) /\ \A j \in 1 .. n + 1 : Append(o, v)[j] = o[j]
    BY <1>2, <2>2, Placed
  <2>4. QED BY <2>3 DEF v
<1>12. PICK M \in Seq(Nat) : M = Append(m, i) /\ M[(n + 1) + 1] = i /\ \A j \in 1 .. n + 1 : M[j] = m[j]
  <2>1. /\ Append(m, i) \in Seq(Nat) /\ Append(m, i)[Len(m) + 1] = i
        /\ \A j \in 1..Len(m) : Append(m, i)[j] = m[j]
    BY ONLY m \in Seq(Nat), i \in Nat, Longer
  <2>2. QED BY <1>2, <2>1, Zenon
<1>13. PICK A \in Seq(Nat) : A = Append(a, e) /\ A[(n + 1) + 1] = e /\ \A j \in 1 .. n + 1 : A[j] = a[j]
  <2>1. /\ Append(a, e) \in Seq(Nat) /\ Append(a, e)[Len(a) + 1] = e
        /\ \A j \in 1..Len(a) : Append(a, e)[j] = a[j]
    BY ONLY a \in Seq(Nat), e \in Nat, Longer
  <2>2. QED BY <1>2, <2>1, Zenon
<1>5. Whole(S, P, O)
  BY <1>1, <1>3, <1>9, <1>10, <1>11, WholeGrows
<1>6. Follows(sent, P, M, A)
  <2>1. /\ p \in Seq(Seq(Byte)) /\ m \in Seq(Nat) /\ a \in Seq(Nat) /\ Follows(sent, p, m, a)
        /\ d \in Seq(Byte) /\ e0 \in Nat /\ m[Len(p) + 1] = i0 /\ a[Len(p) + 1] = e0
        /\ Len(sent) \in Nat /\ i \in Nat /\ e \in Nat /\ Part(d, i0, e0, i, e)
    BY <1>1, <1>3
  <2>2. Follows(sent, Append(p, d), Append(m, i), Append(a, e))
    BY ONLY <2>1, FollowsGrows
  <2>3. QED BY <1>10, <1>12, <1>13, <2>2
<1> HIDE DEF b
<1>7. PICK r \in Nat : r = o[q]
  BY <1>1, <1>2, ElementOfSeq
<1>8. PICK c2 \in Seq(Nat) : Carried(buf', wire', cork', S, r, c2)
  BY <1>1, <1>4, <1>7, <1>9, CarriedPut DEF b
<1>14. q \in 1 .. Len(P) + 1 /\ O[q] = r /\ M[q] = m[q] /\ A[q] = a[q]
  <2>1. q \in 1 .. n + 1 /\ q \in 1 .. (n + 1) + 1
    BY <1>1, <1>2
  <2>2. QED BY <1>7, <1>10, <1>11, <1>12, <1>13, <2>1
<1>15. ReaderAt(M[q], A[q])'
  BY <1>1, <1>14 DEF ReaderAt
<1>16. WriterAt(M[Len(P) + 1], A[Len(P) + 1])'
  <2>1. M[Len(P) + 1] = i /\ A[Len(P) + 1] = e
    BY <1>10, <1>12, <1>13
  <2>2. QED BY <2>1 DEF WriterAt
<1>17. Follows(sent', P, M, A) /\ Carried(buf', wire', cork', S, O[q], c2)
  BY <1>6, <1>8, <1>14
<1>18. History(S, P, O, M, A, c2, q)'
  BY <1>5, <1>14, <1>15, <1>16, <1>17 DEF History
<1>19. QED BY <1>8, <1>9, <1>10, <1>11, <1>12, <1>13, <1>18 DEF Written

\* What a History says of the writer.
LEMMA HistoryNumbers ==
    ASSUME NEW st \in Seq(Byte), NEW p \in Seq(Seq(Byte)), NEW o \in Seq(Nat), NEW m \in Seq(Nat),
           NEW a \in Seq(Nat), NEW c \in Seq(Nat), NEW q \in Nat, History(st, p, o, m, a, c, q)
    PROVE  /\ Len(p) \in Nat /\ q \in 1 .. Len(p) + 1
           /\ Len(o) = Len(p) + 1 /\ Len(m) = Len(p) + 1 /\ Len(a) = Len(p) + 1
           /\ \A j \in 1 .. Len(p) + 1 : o[j] \in Nat /\ m[j] \in Nat /\ a[j] \in Nat
           /\ m[Len(p) + 1] \in Nat /\ a[Len(p) + 1] \in Nat
           /\ WriterAt(m[Len(p) + 1], a[Len(p) + 1])
<1>1. /\ Len(p) \in Nat /\ q \in 1 .. Len(p) + 1
      /\ Len(o) = Len(p) + 1 /\ Len(m) = Len(p) + 1 /\ Len(a) = Len(p) + 1
      /\ WriterAt(m[Len(p) + 1], a[Len(p) + 1])
  BY LenProperties DEF History, Whole, Follows
<1>2. \A j \in 1 .. Len(p) + 1 : o[j] \in Nat /\ m[j] \in Nat /\ a[j] \in Nat
  BY <1>1, ElementOfSeq
<1>3. Len(p) + 1 \in 1 .. Len(p) + 1
  BY <1>1, LastPlace
<1>4. QED BY <1>1, <1>2, <1>3

\* A chunk is written.
LEMMA WriteChunkStream ==
    ASSUME StreamInv, mode # "zip", WriteChunk PROVE Returned' /\ PlainFrames' /\ (rpc' # "failed" => Written')
<1>1. PacketInv /\ Returned /\ PlainFrames /\ (rpc # "failed" => Written)
  BY DEF StreamInv
<1>2. PICK n : /\ n = IF Len(rest) > ChunkLimit THEN ChunkLimit ELSE Len(rest)
               /\ wpc = "chunk" /\ Emit(SubSeq(rest, 1, n)) /\ rest' = SubSeq(rest, n + 1, Len(rest))
               /\ wpc' = IF n < ChunkLimit THEN "idle" ELSE IF Len(rest) = n THEN "empty" ELSE "chunk"
               /\ UNCHANGED <<mode, sent, rpc, rseq, buf, acc, got>>
  BY DEF WriteChunk, rVars
<1>3. PICK l \in Nat, z \in Nat : l = Len(rest) /\ z = ChunkLimit
  BY <1>1, Sizes, LenProperties DEF PacketInv, Typed, ChunkLimit
<1>4. rest \in Seq(Byte) /\ n \in 0..l /\ n <= z /\ (n < z => n = l) /\ n \in Nat
  <2>1. n = IF l > z THEN z ELSE l
    BY <1>2, <1>3
  <2>2. QED BY <1>1, <2>1 DEF PacketInv, Typed
<1>5. PICK d \in Seq(Byte) : d = SubSeq(rest, 1, n) /\ Len(d) = n /\ \A k \in 1..n : d[k] = rest[k]
  <2>1. SubSeq(rest, 1, n) \in Seq(Byte) /\ Len(SubSeq(rest, 1, n)) = n
    BY <1>3, <1>4, CutSeq
  <2>2. ASSUME NEW k \in 1..n PROVE SubSeq(rest, 1, n)[k] = rest[k]
    <3>1. 0 + n <= Len(rest) /\ 0 \in Nat /\ 0 + 1 = 1 /\ 0 + n = n /\ 0 + k = k
      BY <1>3, <1>4
    <3>2. SubSeq(rest, 0 + 1, 0 + n)[k] = rest[0 + k]
      BY <1>4, <3>1, PartOf
    <3>3. QED BY <3>1, <3>2
  <2>3. QED BY <2>1, <2>2
<1>6. Puts(MySQLPacket(d, wseq))
  BY <1>1, <1>2, <1>5, EmitPuts
<1>7. PlainFrames'
  BY <1>1, <1>2, <1>5, <1>6, PutsPlain
<1>8. Returned'
  BY <1>1, <1>2 DEF Returned
<1>9. ASSUME rpc' # "failed" PROVE Written'
  <2>1. Written
    BY <1>1, <1>2, <1>9
  <2>2. PICK st \in Seq(Byte), p \in Seq(Seq(Byte)), o \in Seq(Nat), m \in Seq(Nat), a \in Seq(Nat), c \in Seq(Nat), q \in Nat :
           History(st, p, o, m, a, c, q)
    BY <2>1 DEF Written
  <2>3. PICK i \in Nat, e \in Nat : i = m[Len(p) + 1] /\ e = a[Len(p) + 1] /\ WriterAt(i, e)
    <3>1. m[Len(p) + 1] \in Nat /\ a[Len(p) + 1] \in Nat /\ WriterAt(m[Len(p) + 1], a[Len(p) + 1])
      BY <2>2, HistoryNumbers
    <3>2. QED BY <3>1, Zenon
  <2>4. PICK y \in Nat : /\ y = Len(sent[i]) /\ i = Len(sent) /\ i \in 1..Len(sent) /\ e + l = y
                         /\ \A k \in 1..l : rest[k] = sent[i][e + k]
    <3>1. i = Len(sent) /\ Len(sent) > 0 /\ e + l = Len(sent[i]) /\ \A k \in 1..l : rest[k] = sent[i][e + k]
      BY <1>2, <1>3, <2>3 DEF WriterAt
    <3>2. i \in 1..Len(sent)
      BY <3>1
    <3>3. e + l \in Nat
      OBVIOUS
    <3>4. QED BY <3>1, <3>2, <3>3
  <2>5. \A k \in 1..n : d[k] = sent[i][e + k]
    <3>1. \A k \in 1..n : k \in 1..l
      BY <1>4
    <3>2. QED BY <1>5, <2>4, <3>1
  <2>6. e + n <= y
    BY <1>4, <2>4
  <2>7. CASE n < z
    <3>1. n = l /\ wpc' = "idle"
      BY <1>2, <1>3, <1>4, <2>7
    <3>2. ~Continued(n)
      <4>1. z <= MaxLen /\ MaxLen \in Nat
        BY <1>3, Sizes DEF ChunkLimit
      <4>2. QED BY <1>4, <2>7, <4>1 DEF Continued
    <3>3. WriterAt(i + 1, 0)'
      BY <1>2, <2>4, <3>1 DEF WriterAt
    <3>4. i + 1 \in Nat /\ 0 \in Nat /\ e + n = Len(sent[i])
      BY <2>4, <3>1
    <3>5. QED
      <4>1. Part(d, i, e, i + 1, 0)
        BY <1>5, <2>4, <2>5, <2>6, <3>2, <3>4 DEF Part
      <4>2. QED BY <1>1, <1>2, <1>6, <2>2, <2>3, <3>3, <3>4, <4>1, HistoryGrows
  <2>8. CASE ~(n < z)
    <3>1. n = z
      BY <1>4, <2>8
    <3>2. mode # "ob20" /\ z = MaxLen
      <4>1. ASSUME mode = "ob20" PROVE FALSE
        <5>1. l < Chunk /\ z = Chunk /\ Chunk \in Nat
          BY <1>1, <1>2, <1>3, <4>1, Sizes DEF PacketInv, RestFits, ChunkLimit
        <5>2. QED BY <1>4, <3>1, <5>1
      <4>2. QED BY <1>3, <4>1 DEF ChunkLimit
    <3>3. Continued(n)
      BY <3>1, <3>2 DEF Continued
    <3>4. rest' \in Seq(Byte) /\ Len(rest') = l - n /\ \A k \in 1..Len(rest') : rest'[k] = rest[n + k]
      BY <1>2, <1>3, <1>4, RestOf
    <3>5. PICK g \in Nat : g = Len(rest') /\ n + g = l /\ (e + n) + g = y
      <4>1. e + l = y /\ n \in Nat /\ n <= l
        BY <1>4, <2>4
      <4>2. PICK g \in Nat : g = l - n /\ n + g = l
        BY <4>1
      <4>3. (e + n) + g = y
        BY <4>1, <4>2
      <4>4. QED BY <3>4, <4>2, <4>3
    <3>6. \A k \in 1..g : rest'[k] = sent[i][(e + n) + k]
      <4>1. \A k \in 1..g : n + k \in 1..l /\ e + (n + k) = (e + n) + k
        BY <1>4, <3>5
      <4>2. ASSUME NEW k \in 1..g PROVE rest'[k] = sent[i][(e + n) + k]
        <5>1. k \in 1..Len(rest') /\ n + k \in 1..l /\ e + (n + k) = (e + n) + k
          BY ONLY <3>5, <4>1
        <5>2. rest'[k] = rest[n + k]
          BY ONLY <3>4, <5>1
        <5>3. rest[n + k] = sent[i][e + (n + k)]
          BY ONLY <2>4, <5>1
        <5>4. QED BY ONLY <5>1, <5>2, <5>3
      <4>3. QED BY ONLY <4>2
    <3>7. wpc' \in {"empty", "chunk"} /\ (wpc' = "empty" => l = n)
      BY <1>2, <1>3, <2>8
    <3>8. l = n => e + n = y
      BY <2>4
    <3>9. WriterAt(i, e + n)'
      <4>1. sent' = sent /\ i = Len(sent) /\ Len(sent) > 0
        BY <1>2, <2>4
      <4>2. QED BY <2>4, <3>5, <3>6, <3>7, <3>8, <4>1 DEF WriterAt
    <3>10. e + n \in Nat
      BY <1>4
    <3>11. QED
      <4>1. Part(d, i, e, i, e + n)
        BY <1>5, <2>4, <2>5, <2>6, <3>3 DEF Part
      <4>2. QED BY <1>1, <1>2, <1>6, <2>2, <2>3, <3>9, <3>10, <4>1, HistoryGrows
  <2>9. QED BY <2>7, <2>8
<1>10. QED BY <1>7, <1>8, <1>9

\* The empty continuation is written.
LEMMA WriteEmptyStream ==
    ASSUME StreamInv, mode # "zip", WriteEmptyContinuation
    PROVE  Returned' /\ PlainFrames' /\ (rpc' # "failed" => Written')
<1>1. PacketInv /\ Returned /\ PlainFrames /\ (rpc # "failed" => Written)
  BY DEF StreamInv
<1>2. wpc = "empty" /\ wpc' = "idle" /\ UNCHANGED <<mode, sent, rest, rpc, rseq, buf, acc, got>>
  BY DEF WriteEmptyContinuation, rVars
<1>3. <<>> \in Seq(Byte) /\ Len(<<>>) = 0
  OBVIOUS
<1>4. Puts(MySQLPacket(<<>>, wseq))
  BY <1>1, EmptyPuts
<1>5. PlainFrames'
  BY <1>1, <1>2, <1>3, <1>4, PutsPlain
<1>6. Returned'
  BY <1>1, <1>2 DEF Returned
<1>7. ASSUME rpc' # "failed" PROVE Written'
  <2>1. Written
    BY <1>1, <1>2, <1>7
  <2>2. PICK st \in Seq(Byte), p \in Seq(Seq(Byte)), o \in Seq(Nat), m \in Seq(Nat), a \in Seq(Nat), c \in Seq(Nat), q \in Nat :
           History(st, p, o, m, a, c, q)
    BY <2>1 DEF Written
  <2>3. PICK i \in Nat, e \in Nat : i = m[Len(p) + 1] /\ e = a[Len(p) + 1] /\ WriterAt(i, e)
    <3>1. m[Len(p) + 1] \in Nat /\ a[Len(p) + 1] \in Nat /\ WriterAt(m[Len(p) + 1], a[Len(p) + 1])
      BY <2>2, HistoryNumbers
    <3>2. QED BY <3>1, Zenon
  <2>4. i = Len(sent) /\ Len(sent) > 0 /\ e = Len(sent[i])
    BY <1>2, <2>3 DEF WriterAt
  <2>5. ~Continued(0)
    BY Sizes DEF Continued
  <2>6. Part(<<>>, i, e, i + 1, 0)
    <3>1. i \in 1..Len(sent) /\ e + 0 = Len(sent[i]) /\ e + 0 <= Len(sent[i])
      BY <2>4
    <3>2. QED BY <1>3, <2>5, <3>1 DEF Part
  <2>7. WriterAt(i + 1, 0)' /\ i + 1 \in Nat /\ 0 \in Nat
    BY <1>2, <2>4 DEF WriterAt
  <2>8. PICK d \in Seq(Byte) : d = <<>>
    BY <1>3
  <2>9. Part(d, i, e, i + 1, 0) /\ Puts(MySQLPacket(d, wseq))
    BY <1>4, <2>6, <2>8, Zenon
  <2>10. QED BY <1>1, <1>2, <2>2, <2>3, <2>7, <2>9, HistoryGrows
<1>8. QED BY <1>5, <1>6, <1>7

\* A payload is handed over.
LEMMA WritePacketStream ==
    ASSUME StreamInv, WritePacket
    PROVE  Returned' /\ PlainFrames' /\ (rpc' # "failed" => Written')
<1>1. PacketInv /\ Returned /\ PlainFrames /\ (rpc # "failed" => Written)
  BY DEF StreamInv
<1>2. PICK n \in Lens[mode] : /\ sent' = Append(sent, PayloadOf(Len(sent) + 1, n))
                              /\ rest' = PayloadOf(Len(sent) + 1, n)
  BY DEF WritePacket
<1>3. wpc' = "chunk" /\ UNCHANGED <<mode, wseq, cork, wire, rpc, rseq, buf, acc, got>> /\ wpc = "idle"
  BY DEF WritePacket, rVars
<1>4. n \in Nat /\ sent \in Seq(Seq(Byte)) /\ Len(sent) \in Nat
  BY <1>1, FramingAssumption DEF PacketInv, Typed
<1>5. rest' \in Seq(Byte)
  BY <1>2, <1>4, PayloadBytesOf
<1>6. PICK l \in Nat : l = Len(sent) /\ Len(sent') = l + 1 /\ sent'[l + 1] = rest' /\ \A i \in 1..l : sent'[i] = sent[i]
  <2>1. sent' = Append(sent, rest')
    BY <1>2
  <2>2. QED BY <1>4, <1>5, <2>1, AppendProperties
<1>7. Returned'
  <2>1. PICK g \in Nat : g = Len(got)
    BY <1>1, LenProperties DEF PacketInv, Typed
  <2>2. g <= l /\ \A i \in 1..g : got[i] = sent[i]
    BY <1>1, <1>6, <2>1 DEF Returned
  <2>3. g <= l + 1 /\ \A i \in 1..g : i \in 1..l
    BY <2>2
  <2>4. \A i \in 1..g : got[i] = sent'[i]
    BY <1>6, <2>2, <2>3
  <2>5. rpc = "idle" => acc = <<>>
    BY <1>1 DEF Returned
  <2>6. QED BY <1>3, <1>6, <2>1, <2>3, <2>4, <2>5 DEF Returned
<1>8. PlainFrames'
  BY <1>1, <1>3 DEF PlainFrames, PlainFrame, HeadLen
<1>9. ASSUME rpc' # "failed" PROVE Written'
  <2>1. Written
    BY <1>1, <1>3, <1>9
  <2>2. PICK st \in Seq(Byte), p \in Seq(Seq(Byte)), o \in Seq(Nat), m \in Seq(Nat), a \in Seq(Nat), c \in Seq(Nat), q \in Nat :
           History(st, p, o, m, a, c, q)
    BY <2>1 DEF Written
  <2>3. Follows(sent', p, m, a)
    <3>1. Follows(sent, p, m, a)
      BY <2>2 DEF History
    <3>2. \A i \in 1..l : i \in 1 .. l + 1
      OBVIOUS
    <3>3. \A j \in 1..Len(p) : m[j] \in 1..l /\ sent'[m[j]] = sent[m[j]] /\ m[j] \in 1..Len(sent')
      BY <1>6, <3>1, <3>2 DEF Follows
    <3>4. QED BY <3>1, <3>3 DEF Follows
  <2>4. ReaderAt(m[q], a[q])'
    <3>1. ReaderAt(m[q], a[q])
      BY <2>2 DEF History
    <3>2. m[q] = Len(got) + 1 /\ Len(got) \in Nat
      BY <1>1, <3>1, LenProperties DEF ReaderAt, PacketInv, Typed
    <3>3. acc # <<>> => m[q] \in 1..l /\ m[q] <= l + 1
      <4>1. PICK i \in Nat : i = m[q] /\ i > 0
        <5>1. PICK g \in Nat : g = Len(got)
          BY <3>2
        <5>2. g + 1 \in Nat /\ g + 1 > 0
          OBVIOUS
        <5>3. QED BY <3>2, <5>1, <5>2
      <4>2. acc # <<>> => i <= l
        BY <1>6, <3>1, <4>1 DEF ReaderAt
      <4>3. i <= l => i \in 1..l /\ i <= l + 1
        BY <4>1
      <4>4. QED BY <4>1, <4>2, <4>3, Zenon
    <3>4. acc # <<>> => sent'[m[q]] = sent[m[q]]
      BY <1>6, <3>3
    <3>5. acc = <<>> => Len(acc) = 0 /\ \A k \in 1..Len(acc) : FALSE
      OBVIOUS
    <3>6. acc # <<>> => m[q] <= Len(sent')
      BY <1>6, <3>3
    <3>7. m[q] = Len(got') + 1 /\ a[q] = Len(acc') /\ acc' = acc
      BY <1>3, <3>1 DEF ReaderAt
    <3>8. \A k \in 1..Len(acc) : acc[k] = sent'[m[q]][k]
      BY <3>1, <3>4, <3>5 DEF ReaderAt
    <3>9. QED BY <3>6, <3>7, <3>8 DEF ReaderAt
  <2>5. WriterAt(m[Len(p) + 1], a[Len(p) + 1])'
    <3>1. m[Len(p) + 1] = l + 1 /\ a[Len(p) + 1] = 0
      BY <1>3, <1>6, <2>2 DEF History, WriterAt
    <3>2. PICK y \in Nat : y = Len(rest') /\ 0 + y = y /\ \A k \in 1..y : 0 + k = k
      <4>1. Len(rest') \in Nat
        BY <1>5, LenProperties
      <4>2. QED BY <4>1
    <3>3. l + 1 > 0
      OBVIOUS
    <3>4. QED BY <1>3, <1>6, <3>1, <3>2, <3>3 DEF WriterAt
  <2>6. History(st, p, o, m, a, c, q)'
    <3>1. Whole(st, p, o) /\ q \in 1 .. Len(p) + 1 /\ Carried(buf, wire, cork, st, o[q], c)
      BY <2>2 DEF History
    <3>2. Carried(buf', wire', cork', st, o[q], c)
      BY <1>3, <3>1
    <3>3. QED BY <2>3, <2>4, <2>5, <3>1, <3>2 DEF History
  <2>7. QED BY <2>2, <2>6 DEF Written
<1>10. QED BY <1>7, <1>8, <1>9

\* A server puts bytes into a frame.
LEMMA ServerFramesStream ==
    ASSUME StreamInv, ServerFrames
    PROVE  Returned' /\ PlainFrames' /\ (rpc' # "failed" => Written')
<1>1. PacketInv /\ Returned /\ PlainFrames /\ (rpc # "failed" => Written)
  BY DEF StreamInv
<1>2. PICK n \in 1..Len(cork), x \in ExtraLens :
         /\ wire' = Append(wire, [OB20Frame(x, SubSeq(cork, 1, n)) EXCEPT !.clen = FixLen + x + n])
         /\ cork' = SubSeq(cork, n + 1, Len(cork))
  BY DEF ServerFrames
<1>3. cork # <<>> /\ UNCHANGED <<mode, sent, wpc, rest, wseq, rpc, rseq, buf, acc, got>>
  BY DEF ServerFrames, rVars
<1>4. mode = "server" /\ x \in Nat /\ cork \in Seq(Byte) /\ wire \in Seq(Frame) /\ buf \in Seq(Byte)
  BY <1>1, <1>3, Sizes DEF PacketInv, Typed, Corked
<1>5. PICK h \in Nat : h = n /\ h \in 0 .. Len(cork)
  BY <1>4, LenProperties
<1>6. PICK t \in Seq(Byte) : t = SubSeq(cork, 1, h) /\ Len(t) = h /\ \A k \in 1..h : t[k] = cork[k]
  <2>1. SubSeq(cork, 1, h) \in Seq(Byte) /\ Len(SubSeq(cork, 1, h)) = h
    BY <1>4, <1>5, CutSeq
  <2>2. ASSUME NEW k \in 1..h PROVE SubSeq(cork, 1, h)[k] = cork[k]
    <3>1. 0 + h <= Len(cork) /\ 0 \in Nat /\ 0 + 1 = 1 /\ 0 + h = h /\ 0 + k = k
      BY <1>4, <1>5
    <3>2. SubSeq(cork, 0 + 1, 0 + h)[k] = cork[0 + k]
      BY <1>4, <3>1, PartOf
    <3>3. QED BY <3>1, <3>2
  <2>3. QED BY <2>1, <2>2
<1>7. cork' \in Seq(Byte) /\ Len(cork') = Len(cork) - h /\ \A k \in 1..Len(cork') : cork'[k] = cork[h + k]
  BY <1>2, <1>4, <1>5, RestOf
<1>8. PICK f \in Frame : wire' = Append(wire, f) /\ StripExtra(f) = t
  <2> DEFINE g == OB20Frame(x, t)
             f == [g EXCEPT !.clen = FixLen + x + n]
  <2>1. g \in Frame /\ g.extra = x /\ g.data = Extra(x) \o t
    BY <1>4, FrameBytes
  <2>2. wire' = Append(wire, f)
    BY <1>2, <1>5, <1>6
  <2> HIDE DEF g
  <2>3. FixLen + x + n \in Nat
    BY <1>4, <1>5, Sizes
  <2>4. f \in Frame /\ f.extra = x /\ f.data = Extra(x) \o t
    BY <2>1, <2>3 DEF Frame
  <2> HIDE DEF f
  <2>5. StripExtra(f) = t
    BY <1>4, <2>4, Stripped
  <2>6. QED BY <2>2, <2>4, <2>5
<1>9. Returned'
  BY <1>1, <1>3 DEF Returned
<1>10. PlainFrames'
  BY <1>3, <1>4 DEF PlainFrames
<1>11. ASSUME rpc' # "failed" PROVE Written'
  <2>1. Written
    BY <1>1, <1>3, <1>11
  <2>2. PICK st \in Seq(Byte), p \in Seq(Seq(Byte)), o \in Seq(Nat), m \in Seq(Nat), a \in Seq(Nat), c \in Seq(Nat), q \in Nat :
           History(st, p, o, m, a, c, q)
    BY <2>1 DEF Written
  <2>3. PICK r \in Nat : r = o[q] /\ Carried(buf, wire, cork, st, r, c)
    <3>1. o[q] \in Nat
      BY <2>2, HistoryNumbers
    <3>2. Carried(buf, wire, cork, st, o[q], c)
      BY <2>2 DEF History
    <3>3. QED BY <3>1, <3>2, Zenon
  <2>4. PICK v \in Nat : v = c[Len(wire) + 1] + h
    <3>1. Len(wire) \in Nat /\ \A j \in 1 .. Len(wire) + 1 : c[j] \in Nat
      BY <1>4, <2>3, CarriedNumbers
    <3>2. Len(wire) + 1 \in 1 .. Len(wire) + 1
      BY <3>1, LastPlace
    <3>3. c[Len(wire) + 1] \in Nat
      BY <3>1, <3>2, Zenon
    <3>4. PICK u \in Nat : u = c[Len(wire) + 1]
      BY <3>3, Zenon
    <3>5. PICK v \in Nat : v = u + h
      OBVIOUS
    <3>6. QED BY <3>4, <3>5, Zenon
  <2>5. PICK c2 \in Seq(Nat) : c2 = Append(c, v)
    BY AppendProperties
  <2>6. Carried(buf, wire', cork', st, r, c2)
    <3>1. Len(StripExtra(f)) = h /\ \A k \in 1..h : StripExtra(f)[k] = cork[k]
      BY <1>6, <1>8
    <3>2. Carried(buf, Append(wire, f), cork', st, r, Append(c, c[Len(wire) + 1] + h))
      BY ONLY <1>4, <1>5, <1>7, <2>2, <2>3, <3>1, f \in Frame, CarriedFramed
    <3>3. QED BY <1>8, <2>4, <2>5, <3>2
  <2>7. Carried(buf', wire', cork', st, o[q], c2)
    BY <1>3, <2>3, <2>6
  <2>8. /\ Whole(st, p, o) /\ q \in 1 .. Len(p) + 1 /\ Follows(sent', p, m, a)
        /\ ReaderAt(m[q], a[q])' /\ WriterAt(m[Len(p) + 1], a[Len(p) + 1])'
    BY <1>3, <2>2 DEF History, ReaderAt, WriterAt
  <2>9. History(st, p, o, m, a, c2, q)'
    BY <2>7, <2>8 DEF History
  <2>10. QED BY <2>2, <2>5, <2>9 DEF Written
<1>12. QED BY <1>9, <1>10, <1>11

(***************************************************************************)
(* The reader.                                                             *)
(***************************************************************************)

\* The buffer starts with packet q of the stream.
StartsWith(bf, w, ck, st, p, o, c, q) ==
    /\ q \in 1..Len(p) /\ p[q] \in Seq(Byte) /\ Len(p[q]) \in Nat
    /\ HeadLen(bf) = Len(p[q]) /\ HdrLen + Len(p[q]) <= Len(bf)
    /\ SubSeq(bf, HdrLen + 1, HdrLen + Len(p[q])) = p[q]
    /\ o[q + 1] \in Nat
    /\ Carried(SubSeq(bf, HdrLen + Len(p[q]) + 1, Len(bf)), w, ck, st, o[q + 1], c)

\* What the buffer starts with is the next packet of the stream.
LEMMA FirstPacket ==
    ASSUME NEW st \in Seq(Byte), NEW p \in Seq(Seq(Byte)), NEW o \in Seq(Nat), Whole(st, p, o),
           NEW q, q \in 1 .. Len(p) + 1, NEW bf \in Seq(Byte), NEW w \in Seq(Frame), NEW ck \in Seq(Byte),
           NEW c \in Seq(Nat), NEW r \in Nat, o[q] = r, Carried(bf, w, ck, st, r, c), Buffered(bf)
    PROVE  StartsWith(bf, w, ck, st, p, o, c, q)
<1>1. /\ Len(w) \in Nat /\ Len(st) \in Nat /\ Len(bf) \in Nat
      /\ \A j \in 1 .. Len(w) + 1 : c[j] \in Nat /\ c[j] <= Len(st)
  BY CarriedNumbers
<1>2. PICK n \in Nat, y \in Nat, l \in Nat, h \in Nat : n = Len(p) /\ y = Len(st) /\ l = Len(bf) /\ h = HdrLen /\ h > 0
  BY <1>1, Sizes, LenProperties
<1>3. l >= h
  BY <1>2 DEF Buffered
<1>4. r + l = c[1] /\ \A k \in 1..l : bf[k] = st[r + k]
  BY <1>2 DEF Carried
<1>5. r + l <= y
  <2>1. 1 \in 1 .. Len(w) + 1
    BY <1>1
  <2>2. QED BY <1>1, <1>2, <1>4, <2>1
<1>6. q \in 1..n
  <2>1. q # n + 1
    <3>1. o[n + 1] = y
      BY <1>2 DEF Whole
    <3>2. r < y
      BY <1>2, <1>3, <1>5
    <3>3. QED BY <3>1, <3>2
  <2>2. q \in 1 .. n + 1
    BY <1>2
  <2>3. QED BY ONLY <2>1, <2>2, n \in Nat
<1>7. PICK d \in Seq(Byte) : d = p[q]
  <2>1. p[q] \in Seq(Byte)
    BY <1>2, <1>6, ElementOfSeq
  <2>2. QED BY <2>1
<1>8. PICK s \in Nat : s = Len(d)
  BY LenProperties
<1>9. /\ o[q + 1] = r + h + s /\ st[r + 1][1] = "h" /\ st[r + 1][2] = s
      /\ \A k \in 1..s : st[r + h + k] = d[k]
  BY <1>2, <1>6, <1>7, <1>8 DEF Whole
<1>10. HeadLen(bf) = s
  <2>1. 1 \in 1..l
    BY <1>2, <1>3
  <2>2. bf[1] = st[r + 1]
    BY <1>4, <2>1
  <2>3. QED BY <1>9, <2>2 DEF HeadLen
<1>11. h + s <= l
  BY <1>2, <1>10 DEF Buffered
<1>12. SubSeq(bf, h + 1, h + s) = d
  <2>1. PICK t \in Seq(Byte) : t = SubSeq(bf, h + 1, h + s) /\ Len(t) = s /\ \A k \in 1..s : t[k] = bf[h + k]
    <3>1. LET t == SubSeq(bf, h + 1, h + s) IN t \in Seq(Byte) /\ Len(t) = s /\ \A k \in 1..s : t[k] = bf[h + k]
      BY <1>2, <1>11, PartOf
    <3>2. QED BY <3>1, Zenon
  <2>2. ASSUME NEW k \in 1..s PROVE t[k] = d[k]
    <3>1. h + k \in 1..l /\ r + (h + k) = r + h + k
      BY <1>11
    <3>2. t[k] = st[r + (h + k)]
      BY <1>4, <2>1, <3>1
    <3>3. QED BY <1>9, <3>1, <3>2
  <2>3. t = d
    BY <1>8, <2>1, <2>2, SeqEqual
  <2>4. QED BY <2>1, <2>3
<1>13. PICK g \in Nat : g = h + s /\ r + g = r + h + s /\ g \in 0..l
  <2>1. h + s \in Nat /\ r + (h + s) = r + h + s /\ h + s \in 0..l
    BY <1>11
  <2>2. QED BY <2>1
<1>14. Carried(SubSeq(bf, g + 1, l), w, ck, st, r + g, c)
  BY <1>2, <1>13, CarriedTaken
<1>15. o[q + 1] = r + g /\ o[q + 1] \in Nat
  <2>1. r + g \in Nat
    OBVIOUS
  <2>2. o[q + 1] = r + g
    BY <1>9, <1>13, Zenon
  <2>3. QED BY <2>1, <2>2, Zenon
<1>16. Carried(SubSeq(bf, g + 1, l), w, ck, st, o[q + 1], c)
  BY <1>14, <1>15
<1>17. QED BY <1>2, <1>6, <1>7, <1>8, <1>10, <1>11, <1>12, <1>13, <1>15, <1>16 DEF StartsWith

\* ReadPacket goes on, or returns the payload that is next.
ReturnsNext == \/ got' = got
               \/ Len(got) < Len(sent) /\ got' = Append(got, sent[Len(got) + 1])

\* The next packet joins what the reader has of its payload, or completes it.
LEMMA TakesPacket ==
    ASSUME Typed, Returned, NEW p \in Seq(Seq(Byte)), NEW m \in Seq(Nat), NEW a \in Seq(Nat),
           Follows(sent, p, m, a), NEW q \in 1..Len(p), ReaderAt(m[q], a[q]),
           NEW d \in Seq(Byte), d = p[q], Accumulate(d, Len(d)), rpc = "loop", sent' = sent
    PROVE  Returned' /\ ReaderAt(m[q + 1], a[q + 1])' /\ ReturnsNext
<1>1. PICK g \in Nat, b \in Nat, n \in Nat, z \in Nat : g = Len(got) /\ b = Len(acc) /\ n = Len(d) /\ z = Len(sent)
  BY LenProperties DEF Typed
<1>2. PICK i \in Nat : i = m[q] /\ i = g + 1 /\ a[q] = b
  BY <1>1 DEF ReaderAt
<1>3. acc \in Seq(Byte) /\ got \in Seq(Seq(Byte)) /\ sent \in Seq(Seq(Byte))
  BY DEF Typed
<1>4. /\ i \in 1..z /\ b + n <= Len(sent[i]) /\ \A k \in 1..n : d[k] = sent[i][b + k]
      /\ IF Continued(n) THEN m[q + 1] = i /\ a[q + 1] = b + n
                         ELSE b + n = Len(sent[i]) /\ m[q + 1] = i + 1 /\ a[q + 1] = 0
  BY <1>1, <1>2 DEF Follows
<1>5. PICK A \in Seq(Byte) : /\ A = acc \o d /\ Len(A) = b + n
                             /\ \A k \in 1..b : A[k] = acc[k]
                             /\ \A k \in 1..n : A[b + k] = d[k]
  <2>1. /\ acc \o d \in Seq(Byte) /\ Len(acc \o d) = b + n
        /\ \A k \in 1..b : (acc \o d)[k] = acc[k]
        /\ \A k \in 1..n : (acc \o d)[b + k] = d[k]
    BY <1>1, <1>3, Joined
  <2>2. QED BY <2>1
<1>6. ASSUME NEW k \in 1 .. b + n PROVE A[k] = sent[i][k]
  <2>1. CASE k \in 1..b
    BY <1>1, <1>2, <1>5, <2>1 DEF ReaderAt
  <2>2. CASE k \in b + 1 .. b + n
    <3>1. PICK j \in 1..n : k = b + j
      <4>1. k - b \in 1..n /\ k = b + (k - b)
        BY <2>2
      <4>2. QED BY <4>1
    <3>2. A[b + j] = d[j]
      BY <1>5, Zenon
    <3>3. d[j] = sent[i][b + j]
      BY <1>4, Zenon
    <3>4. QED BY <3>1, <3>2, <3>3
  <2>3. k \in 1..b \/ k \in b + 1 .. b + n
    OBVIOUS
  <2>4. QED BY <2>1, <2>2, <2>3
<1>7. CASE Continued(n)
  <2>1. acc' = A /\ rpc' = rpc /\ got' = got
    BY <1>1, <1>5, <1>7 DEF Accumulate
  <2>2. m[q + 1] = i /\ a[q + 1] = b + n
    BY <1>4, <1>7
  <2>3. i <= z
    BY <1>4
  <2>4. ReaderAt(m[q + 1], a[q + 1])'
    BY <1>1, <1>2, <1>5, <1>6, <2>1, <2>2, <2>3 DEF ReaderAt
  <2>5. Returned'
    BY <2>1 DEF Returned
  <2>6. ReturnsNext
    BY <2>1, Zenon DEF ReturnsNext
  <2>7. QED BY <2>4, <2>5, <2>6, Zenon
<1>8. CASE ~Continued(n)
  <2>1. acc' = <<>> /\ rpc' = "idle" /\ got' = Append(got, A)
    BY <1>1, <1>5, <1>8 DEF Accumulate
  <2>2. b + n = Len(sent[i]) /\ m[q + 1] = i + 1 /\ a[q + 1] = 0
    BY <1>4, <1>8
  <2>3. A = sent[i]
    <3>1. sent[i] \in Seq(Byte)
      BY <1>1, <1>3, <1>4, ElementOfSeq
    <3>2. PICK t \in Seq(Byte) : t = sent[i]
      BY <3>1
    <3>3. Len(t) = Len(A) /\ \A k \in 1..Len(A) : A[k] = t[k]
      BY <1>5, <1>6, <2>2, <3>2
    <3>4. A = t
      BY <3>3, SeqEqual
    <3>5. QED BY <3>2, <3>4
  <2>4. Len(got') = g + 1 /\ got'[g + 1] = A /\ \A k \in 1..g : got'[k] = got[k]
    BY <1>1, <1>3, <2>1, AppendProperties
  <2>5. g < z /\ g + 1 <= z
    BY <1>2, <1>4
  <2>6. ReturnsNext
    BY <1>1, <1>2, <2>1, <2>3, <2>5 DEF ReturnsNext
  <2>7. ReaderAt(m[q + 1], a[q + 1])'
    <3>1. Len(acc') = 0 /\ acc' = <<>> /\ \A k \in 1..Len(acc') : FALSE
      BY <2>1
    <3>2. m[q + 1] = Len(got') + 1
      BY <1>2, <2>2, <2>4
    <3>3. QED BY <2>2, <3>1, <3>2 DEF ReaderAt
  <2>8. Returned'
    <3>1. ASSUME NEW k \in 1 .. g + 1 PROVE got'[k] = sent[k]
      <4>1. CASE k \in 1..g
        BY <1>1, <2>4, <4>1 DEF Returned
      <4>2. CASE k = g + 1
        BY <1>2, <2>3, <2>4, <4>2
      <4>3. k \in 1..g \/ k = g + 1
        OBVIOUS
      <4>4. QED BY <4>1, <4>2, <4>3
    <3>2. QED BY <1>1, <2>1, <2>4, <2>5, <3>1 DEF Returned
  <2>9. QED BY <2>6, <2>7, <2>8
<1>9. QED BY <1>7, <1>8

\* The reader moves on by a packet.
LEMMA HistoryTaken ==
    ASSUME PacketInv, Returned, NEW st \in Seq(Byte), NEW p \in Seq(Seq(Byte)), NEW o \in Seq(Nat),
           NEW m \in Seq(Nat), NEW a \in Seq(Nat), NEW c \in Seq(Nat), NEW q \in Nat,
           History(st, p, o, m, a, c, q), q \in 1..Len(p), NEW d \in Seq(Byte), d = p[q],
           Accumulate(d, Len(d)), rpc = "loop", UNCHANGED <<sent, wpc, rest>>,
           NEW c2 \in Seq(Nat), Carried(buf', wire', cork', st, o[q + 1], c2)
    PROVE  Returned' /\ Written' /\ ReturnsNext
<1>1. /\ Whole(st, p, o) /\ Follows(sent, p, m, a) /\ ReaderAt(m[q], a[q])
      /\ WriterAt(m[Len(p) + 1], a[Len(p) + 1])
  BY DEF History
<1>2. Returned' /\ ReaderAt(m[q + 1], a[q + 1])' /\ ReturnsNext
  BY <1>1, TakesPacket DEF PacketInv
<1>3. PICK q2 \in Nat : q2 = q + 1
  OBVIOUS
<1>4. q2 \in 1 .. Len(p) + 1
  <2>1. PICK n \in Nat : n = Len(p)
    BY LenProperties
  <2>2. q \in 1..n
    BY <2>1
  <2>3. q + 1 \in 1 .. n + 1
    BY <2>2
  <2>4. QED BY <1>3, <2>1, <2>3
<1>5. Follows(sent', p, m, a) /\ WriterAt(m[Len(p) + 1], a[Len(p) + 1])'
  BY <1>1 DEF WriterAt
<1>6. ReaderAt(m[q2], a[q2])' /\ Carried(buf', wire', cork', st, o[q2], c2)
  BY <1>2, <1>3
<1>7. History(st, p, o, m, a, c2, q2)'
  BY <1>1, <1>4, <1>5, <1>6 DEF History
<1>8. Written'
  BY <1>7 DEF Written
<1>9. QED BY <1>2, <1>8

\* A packet is taken from the buffer.
LEMMA TakeBufferedStream ==
    ASSUME StreamInv, TakeBuffered
    PROVE  Returned' /\ PlainFrames' /\ (rpc' # "failed" => Written') /\ ReturnsNext
<1>1. PacketInv /\ Returned /\ PlainFrames /\ (rpc # "failed" => Written)
  BY DEF StreamInv
<1>2. /\ rpc = "loop" /\ OB20 /\ Buffered(buf)
      /\ Accumulate(SubSeq(buf, HdrLen + 1, HdrLen + HeadLen(buf)), HeadLen(buf))
      /\ buf' = SubSeq(buf, HdrLen + HeadLen(buf) + 1, Len(buf))
      /\ UNCHANGED <<mode, rseq, sent, wpc, rest, wseq, cork, wire>>
  BY DEF TakeBuffered, wVars
<1>3. PICK st \in Seq(Byte), p \in Seq(Seq(Byte)), o \in Seq(Nat), m \in Seq(Nat), a \in Seq(Nat), c \in Seq(Nat), q \in Nat :
         History(st, p, o, m, a, c, q)
  BY <1>1, <1>2 DEF Written
<1>4. Whole(st, p, o) /\ q \in 1 .. Len(p) + 1 /\ Carried(buf, wire, cork, st, o[q], c)
  BY <1>3 DEF History
<1>5. PICK r \in Nat : r = o[q]
  <2>1. o[q] \in Nat
    BY <1>3, HistoryNumbers
  <2>2. QED BY <2>1, Zenon
<1>6. buf \in Seq(Byte) /\ wire \in Seq(Frame) /\ cork \in Seq(Byte)
  BY <1>1 DEF PacketInv, Typed
<1>7. /\ q \in 1..Len(p) /\ p[q] \in Seq(Byte) /\ HeadLen(buf) = Len(p[q])
      /\ SubSeq(buf, HdrLen + 1, HdrLen + Len(p[q])) = p[q]
      /\ Carried(SubSeq(buf, HdrLen + Len(p[q]) + 1, Len(buf)), wire, cork, st, o[q + 1], c)
  <2>1. /\ st \in Seq(Byte) /\ p \in Seq(Seq(Byte)) /\ o \in Seq(Nat) /\ c \in Seq(Nat) /\ r \in Nat
        /\ Whole(st, p, o) /\ q \in 1 .. Len(p) + 1 /\ o[q] = r
    BY <1>4, <1>5
  <2>2. Carried(buf, wire, cork, st, r, c) /\ Buffered(buf)
    BY <1>2, <1>4, <1>5
  <2>3. StartsWith(buf, wire, cork, st, p, o, c, q)
    BY ONLY <1>6, <2>1, <2>2, FirstPacket
  <2>4. QED BY <2>3 DEF StartsWith
<1>8. PICK d \in Seq(Byte) : d = p[q]
  BY <1>7
<1>9. Accumulate(d, Len(d)) /\ Carried(buf', wire', cork', st, o[q + 1], c)
  <2>1. Accumulate(p[q], Len(p[q]))
    BY <1>2, <1>7, Zenon
  <2>2. Carried(buf', wire', cork', st, o[q + 1], c)
    BY <1>2, <1>7
  <2>3. QED BY <1>8, <2>1, <2>2, Zenon
<1>10. Returned' /\ Written' /\ ReturnsNext
  BY <1>1, <1>2, <1>3, <1>7, <1>8, <1>9, HistoryTaken
<1>11. PlainFrames'
  BY <1>2 DEF PlainFrames, OB20
<1>12. QED BY <1>10, <1>11

\* An OB20 frame is read into the buffer.
LEMMA ReadOB20Stream ==
    ASSUME StreamInv, ReadOB20
    PROVE  Returned' /\ PlainFrames' /\ (rpc' # "failed" => Written') /\ got' = got
<1>1. PacketInv /\ Returned /\ PlainFrames /\ (rpc # "failed" => Written)
  BY DEF StreamInv
<1>2. /\ rpc = "loop" /\ OB20 /\ wire # <<>> /\ wire' = Tail(wire)
      /\ UNCHANGED <<mode, rseq, got, sent, wpc, rest, wseq, cork>>
  BY DEF ReadOB20, wVars
<1>3. Head(wire).clen = ExpectedCompressLen(Head(wire))
  BY <1>1, <1>2, FrameTaken
<1>4. buf' = buf \o StripExtra(Head(wire)) /\ UNCHANGED <<rpc, acc>>
  BY <1>3 DEF ReadOB20
<1>5. PICK st \in Seq(Byte), p \in Seq(Seq(Byte)), o \in Seq(Nat), m \in Seq(Nat), a \in Seq(Nat), c \in Seq(Nat), q \in Nat :
         History(st, p, o, m, a, c, q)
  BY <1>1, <1>2 DEF Written
<1>6. /\ Whole(st, p, o) /\ Follows(sent, p, m, a) /\ q \in 1 .. Len(p) + 1
      /\ Carried(buf, wire, cork, st, o[q], c) /\ ReaderAt(m[q], a[q]) /\ WriterAt(m[Len(p) + 1], a[Len(p) + 1])
  BY <1>5 DEF History
<1>7. PICK r \in Nat : r = o[q]
  <2>1. o[q] \in Nat
    BY <1>5, HistoryNumbers
  <2>2. QED BY <2>1, Zenon
<1>8. buf \in Seq(Byte) /\ wire \in Seq(Frame) /\ cork \in Seq(Byte)
  BY <1>1 DEF PacketInv, Typed
<1>9. PICK c2 \in Seq(Nat) : Carried(buf', wire', cork', st, r, c2)
  <2>1. Tail(c) \in Seq(Nat) /\ Carried(buf \o StripExtra(Head(wire)), Tail(wire), cork, st, r, Tail(c))
    BY <1>2, <1>6, <1>7, <1>8, CarriedRead
  <2>2. QED BY <1>2, <1>4, <2>1
<1>10. Follows(sent', p, m, a) /\ ReaderAt(m[q], a[q])' /\ WriterAt(m[Len(p) + 1], a[Len(p) + 1])'
  BY <1>2, <1>4, <1>6 DEF ReaderAt, WriterAt
<1>11. History(st, p, o, m, a, c2, q)'
  BY <1>6, <1>7, <1>9, <1>10 DEF History
<1>12. Written'
  BY <1>11 DEF Written
<1>13. Returned' /\ PlainFrames'
  BY <1>1, <1>2, <1>4 DEF Returned, PlainFrames, OB20
<1>14. QED BY <1>2, <1>12, <1>13

\* A plain packet is read.
LEMMA ReadPlainStream ==
    ASSUME StreamInv, ReadPlain
    PROVE  Returned' /\ PlainFrames' /\ (rpc' # "failed" => Written') /\ ReturnsNext
<1>1. PacketInv /\ Returned /\ PlainFrames /\ (rpc # "failed" => Written)
  BY DEF StreamInv
<1>2. /\ rpc = "loop" /\ mode = "plain" /\ wire # <<>> /\ wire' = Tail(wire)
      /\ UNCHANGED <<mode, buf, sent, wpc, rest, wseq, cork>>
  BY DEF ReadPlain, wVars
<1>3. buf \in Seq(Byte) /\ wire \in Seq(Frame) /\ cork \in Seq(Byte) /\ buf = <<>>
  BY <1>1, <1>2 DEF PacketInv, Typed, PlainFrames
<1>4. PICK f \in Frame : f = Head(wire) /\ f = wire[1] /\ 1 \in 1..Len(wire) /\ f.data[1][3] = rseq
  <2>1. Head(wire) \in Frame /\ Head(wire) = wire[1] /\ Head(wire).data[1][3] = rseq
    BY <1>1, <1>2, FrameTaken DEF SeqOf
  <2>2. 1 \in 1..Len(wire)
    BY <1>2, <1>3
  <2>3. QED BY <2>1, <2>2
<1>5. PICK b \in Seq(Byte) : b = f.data
  BY DEF Frame
<1>6. f.extra = 0 /\ Len(b) = HdrLen + HeadLen(b) /\ HeadLen(b) \in Nat
  BY <1>1, <1>2, <1>4, <1>5 DEF PlainFrames, PlainFrame
<1>7. Accumulate(SubSeq(b, HdrLen + 1, Len(b)), HeadLen(b))
  BY <1>4, <1>5 DEF ReadPlain
<1>8. StripExtra(f) = b
  BY <1>5, <1>6, NothingStripped
<1>9. Buffered(b)
  <2>1. PICK h \in Nat, g \in Nat : h = HdrLen /\ g = HeadLen(b)
    BY <1>6, Sizes
  <2>2. h + g >= h /\ h + g >= h + g
    OBVIOUS
  <2>3. QED BY <1>6, <2>1, <2>2 DEF Buffered
<1>10. PICK st \in Seq(Byte), p \in Seq(Seq(Byte)), o \in Seq(Nat), m \in Seq(Nat), a \in Seq(Nat), c \in Seq(Nat), q \in Nat :
         History(st, p, o, m, a, c, q)
  BY <1>1, <1>2 DEF Written
<1>11. Whole(st, p, o) /\ q \in 1 .. Len(p) + 1 /\ Carried(buf, wire, cork, st, o[q], c)
  BY <1>10 DEF History
<1>12. PICK r \in Nat : r = o[q]
  <2>1. o[q] \in Nat
    BY <1>10, HistoryNumbers
  <2>2. QED BY <2>1, Zenon
<1>13. PICK c2 \in Seq(Nat) : Carried(b, wire', cork, st, r, c2)
  <2>1. Tail(c) \in Seq(Nat) /\ Carried(buf \o StripExtra(Head(wire)), Tail(wire), cork, st, r, Tail(c))
    BY <1>2, <1>3, <1>11, <1>12, CarriedRead
  <2>2. buf \o StripExtra(Head(wire)) = b
    BY <1>3, <1>4, <1>8, ConcatEmptySeq
  <2>3. QED BY <1>2, <2>1, <2>2
<1>14. PICK w \in Seq(Frame) : w = wire'
  BY <1>2, <1>3, HeadTailProperties
<1>15. /\ q \in 1..Len(p) /\ p[q] \in Seq(Byte) /\ HeadLen(b) = Len(p[q]) /\ Len(p[q]) \in Nat
       /\ SubSeq(b, HdrLen + 1, HdrLen + Len(p[q])) = p[q]
       /\ Carried(SubSeq(b, HdrLen + Len(p[q]) + 1, Len(b)), wire', cork, st, o[q + 1], c2)
  <2>0. /\ st \in Seq(Byte) /\ p \in Seq(Seq(Byte)) /\ o \in Seq(Nat) /\ c2 \in Seq(Nat) /\ r \in Nat
        /\ Whole(st, p, o) /\ q \in 1 .. Len(p) + 1 /\ o[q] = r
    BY <1>11, <1>12
  <2>1. /\ b \in Seq(Byte) /\ w \in Seq(Frame) /\ cork \in Seq(Byte)
        /\ Carried(b, w, cork, st, r, c2) /\ Buffered(b)
    BY <1>3, <1>9, <1>13, <1>14
  <2>2. StartsWith(b, w, cork, st, p, o, c2, q)
    BY ONLY <2>0, <2>1, FirstPacket
  <2>3. QED BY <1>14, <2>2 DEF StartsWith
<1>16. PICK d \in Seq(Byte) : d = p[q]
  BY <1>15
<1>17. Accumulate(d, Len(d))
  BY <1>6, <1>7, <1>15, <1>16
<1>18. Carried(buf', wire', cork', st, o[q + 1], c2)
  <2>1. PICK l \in Nat : l = Len(b) /\ HdrLen + Len(p[q]) = l
    BY <1>6, <1>15, LenProperties
  <2>2. l \in 0 .. Len(b) /\ Len(b) - l = 0
    BY <2>1
  <2>3. SubSeq(b, l + 1, Len(b)) = <<>>
    <3>1. SubSeq(b, l + 1, Len(b)) \in Seq(Byte) /\ Len(SubSeq(b, l + 1, Len(b))) = 0
      BY <2>2, CutSeq
    <3>2. QED BY <3>1, EmptySeq
  <2>4. SubSeq(b, HdrLen + Len(p[q]) + 1, Len(b)) = <<>>
    BY <2>1, <2>3, Zenon
  <2>5. QED BY <1>2, <1>3, <1>15, <2>4
<1>19. Returned' /\ Written' /\ ReturnsNext
  BY <1>1, <1>2, <1>10, <1>15, <1>16, <1>17, <1>18, HistoryTaken
<1>20. PlainFrames'
  <2>1. PICK n \in Nat : Len(wire) = n + 1 /\ Len(wire') = n
    <3>1. Len(wire) \in Nat \ {0} /\ Len(wire') = Len(wire) - 1
      BY <1>2, <1>3, EmptySeq, HeadTailProperties
    <3>2. Len(wire) - 1 \in Nat /\ Len(wire) = (Len(wire) - 1) + 1
      BY <3>1
    <3>3. QED BY <3>1, <3>2
  <2>2. ASSUME NEW j \in 1..n
        PROVE  PlainFrame(wire'[j])
    <3>1. wire'[j] = wire[j + 1]
      BY <1>2, <1>3, <2>1, HeadTailProperties
    <3>2. j + 1 \in 1..Len(wire)
      BY <2>1
    <3>3. QED BY <1>1, <1>2, <3>1, <3>2 DEF PlainFrames
  <2>3. QED BY <1>2, <1>3, <2>1, <2>2 DEF PlainFrames, PlainFrame, HeadLen
<1>21. QED BY <1>19, <1>20

\* Steps that move no byte of the stream.
LEMMA HistoryKept ==
    ASSUME Written, UNCHANGED <<sent, rest, cork, wire, buf, acc, got>>, wpc' = wpc \/ wpc' = "failed"
    PROVE  Written'
<1>1. PICK st \in Seq(Byte), p \in Seq(Seq(Byte)), o \in Seq(Nat), m \in Seq(Nat), a \in Seq(Nat), c \in Seq(Nat), q \in Nat :
         History(st, p, o, m, a, c, q)
  BY DEF Written
<1>2. /\ Whole(st, p, o) /\ Follows(sent, p, m, a) /\ q \in 1 .. Len(p) + 1
      /\ Carried(buf, wire, cork, st, o[q], c) /\ ReaderAt(m[q], a[q]) /\ WriterAt(m[Len(p) + 1], a[Len(p) + 1])
  BY <1>1 DEF History
<1>3. Follows(sent', p, m, a) /\ Carried(buf', wire', cork', st, o[q], c)
  BY <1>2
<1>4. ReaderAt(m[q], a[q])' /\ WriterAt(m[Len(p) + 1], a[Len(p) + 1])'
  BY <1>2 DEF ReaderAt, WriterAt
<1>5. History(st, p, o, m, a, c, q)'
  BY <1>2, <1>3, <1>4 DEF History
<1>6. QED BY <1>5 DEF Written

(***************************************************************************)
(* The theorems.                                                           *)
(***************************************************************************)
LEMMA InitStream == ASSUME NotCompressed PROVE Init => StreamInv
<1> SUFFICES ASSUME Init PROVE StreamInv
  OBVIOUS
<1>1. PacketInv
  BY InitPacket
<1>2. /\ sent = <<>> /\ wpc = "idle" /\ cork = <<>> /\ wire = <<>> /\ rpc = "idle"
      /\ buf = <<>> /\ acc = <<>> /\ got = <<>>
  BY DEF Init
<1>3. Returned /\ PlainFrames
  BY <1>2 DEF Returned, PlainFrames
<1>4. PICK st \in Seq(Byte) : st = <<>> /\ Len(st) = 0
  <2>1. <<>> \in Seq(Byte) /\ Len(<<>>) = 0
    OBVIOUS
  <2>2. QED BY <2>1, Zenon
<1>5. PICK p \in Seq(Seq(Byte)) : p = <<>> /\ Len(p) = 0
  <2>1. <<>> \in Seq(Seq(Byte)) /\ Len(<<>>) = 0
    OBVIOUS
  <2>2. QED BY <2>1, Zenon
<1>6. PICK z \in Seq(Nat) : Len(z) = 1 /\ z[1] = 0
  <2>1. <<0>> \in Seq(Nat) /\ Len(<<0>>) = 1 /\ <<0>>[1] = 0
    OBVIOUS
  <2>2. QED BY <2>1, Zenon
<1>7. PICK m \in Seq(Nat) : Len(m) = 1 /\ m[1] = 1
  <2>1. <<1>> \in Seq(Nat) /\ Len(<<1>>) = 1 /\ <<1>>[1] = 1
    OBVIOUS
  <2>2. QED BY <2>1, Zenon
<1>8. Whole(st, p, z)
  BY <1>4, <1>5, <1>6 DEF Whole
<1>9. Follows(sent, p, m, z)
  BY <1>5, <1>6, <1>7 DEF Follows
<1>10. Carried(buf, wire, cork, st, z[1], z)
  <2>1. Len(buf) = 0 /\ Len(wire) = 0 /\ Len(cork) = 0
    BY <1>2
  <2>2. QED BY <1>4, <1>6, <2>1 DEF Carried
<1>11. ReaderAt(m[1], z[1]) /\ WriterAt(m[1], z[1])
  BY <1>2, <1>6, <1>7 DEF ReaderAt, WriterAt
<1>12. History(st, p, z, m, z, z, 1)
  BY <1>5, <1>8, <1>9, <1>10, <1>11 DEF History
<1>13. Written
  BY <1>12 DEF Written
<1>14. QED BY <1>1, <1>3, <1>13 DEF StreamInv

\* No step of the reader or the writer loses, repeats or reorders a byte.
LEMMA NextStreamKeeps ==
    ASSUME OB20Fits, StreamInv, [Next]_vars
    PROVE  StreamInv' /\ (~WritePacket => sent' = sent /\ ReturnsNext)
<1>1. PacketInv /\ Returned /\ PlainFrames /\ (rpc # "failed" => Written)
  BY DEF StreamInv
<1>2. mode # "zip"
  BY DEF StreamInv, PacketInv, Typed
<1>3. PacketInv'
  BY <1>1, NextPacketKeeps
<1> DEFINE Kept == Returned' /\ PlainFrames' /\ (rpc' # "failed" => Written')
<1>4. CASE WritePacket
  <2>1. Kept
    BY <1>4, WritePacketStream
  <2>2. QED BY <1>3, <1>4, <2>1 DEF StreamInv
<1>5. CASE WriteChunk
  <2>1. Kept
    BY <1>2, <1>5, WriteChunkStream
  <2>2. sent' = sent /\ ReturnsNext
    BY <1>5 DEF WriteChunk, rVars, ReturnsNext
  <2>3. QED BY <1>3, <2>1, <2>2 DEF StreamInv
<1>6. CASE WriteEmptyContinuation
  <2>1. Kept
    BY <1>2, <1>6, WriteEmptyStream
  <2>2. sent' = sent /\ ReturnsNext
    BY <1>6 DEF WriteEmptyContinuation, rVars, ReturnsNext
  <2>3. QED BY <1>3, <2>1, <2>2 DEF StreamInv
<1>7. CASE ServerFrames
  <2>1. Kept
    BY <1>7, ServerFramesStream
  <2>2. sent' = sent /\ ReturnsNext
    BY <1>7 DEF ServerFrames, rVars, ReturnsNext
  <2>3. QED BY <1>3, <2>1, <2>2 DEF StreamInv
<1>8. CASE TakeBuffered
  <2>1. Kept /\ ReturnsNext
    BY <1>8, TakeBufferedStream
  <2>2. sent' = sent
    BY <1>8 DEF TakeBuffered, wVars
  <2>3. QED BY <1>3, <2>1, <2>2 DEF StreamInv
<1>9. CASE ReadOB20
  <2>1. Kept /\ got' = got
    BY <1>9, ReadOB20Stream
  <2>2. sent' = sent
    BY <1>9 DEF ReadOB20, wVars
  <2>3. QED BY <1>3, <2>1, <2>2 DEF StreamInv, ReturnsNext
<1>10. CASE ZipArrives \/ ReadZipHeader \/ ReadZip \/ TakeUnzipped \/ UnzippedEnds
  BY <1>1, <1>10, NotZipped
<1>11. CASE ReadPlain
  <2>1. Kept /\ ReturnsNext
    BY <1>11, ReadPlainStream
  <2>2. sent' = sent
    BY <1>11 DEF ReadPlain, wVars
  <2>3. QED BY <1>3, <2>1, <2>2 DEF StreamInv
<1>12. CASE WriteFails
  <2>1. wpc' = "failed" /\ UNCHANGED <<mode, sent, rest, wseq, cork, wire, rpc, rseq, buf, acc, got>>
    BY <1>12 DEF WriteFails, rVars
  <2>2. Returned' /\ PlainFrames'
    BY <1>1, <2>1 DEF Returned, PlainFrames, PlainFrame, HeadLen
  <2>3. rpc' # "failed" => Written'
    BY <1>1, <2>1, HistoryKept
  <2>4. QED BY <1>3, <2>1, <2>2, <2>3 DEF StreamInv, ReturnsNext
<1>13. CASE ReadPacket
  <2>1. /\ rpc = "idle" /\ rpc' = "loop" /\ acc' = <<>>
        /\ UNCHANGED <<mode, rseq, buf, got, sent, wpc, rest, wseq, cork, wire>>
    BY <1>13 DEF ReadPacket, wVars
  <2>2. acc' = acc
    BY <1>1, <2>1 DEF Returned
  <2>3. Returned' /\ PlainFrames'
    BY <1>1, <2>1 DEF Returned, PlainFrames, PlainFrame, HeadLen
  <2>4. Written'
    BY <1>1, <2>1, <2>2, HistoryKept
  <2>5. QED BY <1>3, <2>1, <2>3, <2>4 DEF StreamInv, ReturnsNext
<1>14. CASE ReadFails
  <2>1. /\ rpc' = "failed" /\ UNCHANGED <<mode, rseq, buf, got, sent, wpc, rest, wseq, cork, wire>>
    BY <1>14 DEF ReadFails, wVars
  <2>2. Returned' /\ PlainFrames'
    BY <1>1, <2>1 DEF Returned, PlainFrames, PlainFrame, HeadLen
  <2>3. QED BY <1>3, <2>1, <2>2 DEF StreamInv, ReturnsNext
<1>15. CASE ResetSequence \/ UNCHANGED vars
  <2>1. UNCHANGED <<mode, sent, wpc, rest, cork, wire, rpc, buf, acc, got>>
    BY <1>15 DEF ResetSequence, vars, wVars, rVars
  <2>2. Returned' /\ PlainFrames'
    BY <1>1, <2>1 DEF Returned, PlainFrames, PlainFrame, HeadLen
  <2>3. rpc' # "failed" => Written'
    BY <1>1, <2>1, HistoryKept
  <2>4. QED BY <1>3, <2>1, <2>2, <2>3 DEF StreamInv, ReturnsNext
<1>16. QED
  BY <1>4, <1>5, <1>6, <1>7, <1>8, <1>9, <1>10, <1>11, <1>12, <1>13, <1>14, <1>15 DEF Next

LEMMA StreamInvariant == ASSUME OB20Fits, NotCompressed PROVE Spec => []StreamInv
<1>1. StreamInv /\ [Next]_vars => StreamInv'
  BY NextStreamKeeps
<1>2. QED BY <1>1, InitStream, PTL DEF Spec

\* Whatever the chunks, continuations, frame boundaries and wrapped sequence numbers, a
\* reader that waits while the writer is done has returned all that was written.
THEOREM NoPacketKeptBack == ASSUME OB20Fits, NotCompressed PROVE Spec => []NothingKeptBack
<1>1. ASSUME StreamInv PROVE NothingKeptBack
  <2> SUFFICES ASSUME rpc = "loop", wire = <<>>, cork = <<>>, wpc = "idle", ~(OB20 /\ Buffered(buf))
               PROVE  got = sent /\ buf = <<>> /\ acc = <<>>
    BY DEF NothingKeptBack, Waits
  <2>1. PacketInv /\ Returned /\ PlainFrames /\ Written
    BY <1>1 DEF StreamInv
  <2>2. /\ buf \in Seq(Byte) /\ wire \in Seq(Frame) /\ cork \in Seq(Byte) /\ acc \in Seq(Byte)
        /\ got \in Seq(Seq(Byte)) /\ sent \in Seq(Seq(Byte)) /\ mode \in Framings
    BY <2>1 DEF PacketInv, Typed
  <2>3. PICK st \in Seq(Byte), p \in Seq(Seq(Byte)), o \in Seq(Nat), m \in Seq(Nat), a \in Seq(Nat), c \in Seq(Nat), q \in Nat :
           History(st, p, o, m, a, c, q)
    BY <2>1 DEF Written
  <2>4. /\ Whole(st, p, o) /\ q \in 1 .. Len(p) + 1 /\ Carried(buf, wire, cork, st, o[q], c)
        /\ ReaderAt(m[q], a[q]) /\ WriterAt(m[Len(p) + 1], a[Len(p) + 1])
    BY <2>3 DEF History
  <2>5. PICK r \in Nat, n \in Nat, y \in Nat, l \in Nat, h \in Nat :
           r = o[q] /\ n = Len(p) /\ y = Len(st) /\ l = Len(buf) /\ h = HdrLen /\ h > 0
    <3>1. o[q] \in Nat /\ Len(p) \in Nat
      BY <2>3, HistoryNumbers
    <3>2. Len(st) \in Nat /\ Len(buf) \in Nat
      BY <2>2, LenProperties
    <3>3. QED BY <3>1, <3>2, Sizes
  <2>6. r + l = y /\ \A k \in 1..l : buf[k] = st[r + k]
    <3>1. r + l = c[1] /\ \A k \in 1..l : buf[k] = st[r + k]
      BY <2>4, <2>5 DEF Carried
    <3>2. Len(wire) = 0 /\ Len(cork) = 0
      OBVIOUS
    <3>3. c[0 + 1] + 0 = y
      BY <2>4, <2>5, <3>2 DEF Carried
    <3>4. PICK x \in Nat : x = r + l
      OBVIOUS
    <3>5. x + 0 = y /\ x + 0 = x
      BY <3>1, <3>3, <3>4
    <3>6. QED BY <3>1, <3>4, <3>5
  <2>7. q = n + 1
    <3> SUFFICES ASSUME q # n + 1 PROVE FALSE
      OBVIOUS
    <3>1. q \in 1..n
      BY <2>4, <2>5
    <3>2. PICK s \in Nat : s = Len(p[q])
      <4>1. p[q] \in Seq(Byte)
        BY <2>5, <3>1, ElementOfSeq
      <4>2. QED BY <4>1, LenProperties
    <3>3. /\ o[q + 1] = r + h + s /\ st[r + 1][1] = "h" /\ st[r + 1][2] = s /\ o[q + 1] <= y
      <4>1. q + 1 \in 1 .. n + 1
        BY <3>1
      <4>2. QED BY <2>4, <2>5, <3>1, <3>2, <4>1 DEF Whole
    <3>4. h + s <= l
      BY ONLY <2>6, <3>3, h \in Nat, l \in Nat, r \in Nat, s \in Nat, y \in Nat
    <3>5. HeadLen(buf) = s
      <4>1. 1 \in 1..l
        BY <2>5, <3>4
      <4>2. buf[1] = st[r + 1]
        BY <2>6, <4>1
      <4>3. QED BY <3>3, <4>2 DEF HeadLen
    <3>6. Buffered(buf)
      <4>1. l >= h /\ l >= h + s
        BY <3>4
      <4>2. QED BY <2>5, <3>5, <4>1 DEF Buffered
    <3>7. mode = "plain"
      <4>1. mode # "zip"
        BY <2>1 DEF PacketInv, Typed
      <4>2. QED BY <2>2, <3>6, <4>1, FramingAssumption DEF OB20, AllFramings
    <3>8. l = 0
      BY <2>1, <2>5, <3>7 DEF PlainFrames
    <3>9. QED BY <2>5, <3>4, <3>8
  <2>8. buf = <<>>
    <3>1. o[n + 1] = y
      BY <2>4, <2>5 DEF Whole
    <3>2. l = 0
      BY <2>5, <2>6, <2>7, <3>1
    <3>3. QED BY <2>2, <2>5, <3>2, EmptySeq
  <2>9. acc = <<>> /\ Len(got) = Len(sent)
    <3>1. m[q] = Len(sent) + 1 /\ a[q] = 0
      BY <2>4, <2>5, <2>7 DEF WriterAt
    <3>2. m[q] = Len(got) + 1 /\ a[q] = Len(acc)
      BY <2>4 DEF ReaderAt
    <3>3. Len(got) \in Nat /\ Len(sent) \in Nat
      BY <2>2, LenProperties
    <3>4. Len(got) = Len(sent)
      BY <3>1, <3>2, <3>3
    <3>5. acc = <<>>
      BY <2>2, <3>1, <3>2, EmptySeq
    <3>6. QED BY <3>4, <3>5
  <2>10. got = sent
    <3>1. \A i \in 1..Len(got) : got[i] = sent[i]
      BY <2>1 DEF Returned
    <3>2. QED BY <2>2, <2>9, <3>1, SeqEqual
  <2>11. QED BY <2>8, <2>9, <2>10
<1>2. QED BY <1>1, StreamInvariant, PTL

\* The packet layer implements the channel: ReadPacket returns the payloads given to
\* WritePacket whole, once and in order.
THEOREM PacketsInOrder == ASSUME OB20Fits, NotCompressed PROVE Spec => DeliversInOrder
<1>1. Init => Channel!Init
  BY DEF Init, Channel!Init
<1>2. ASSUME StreamInv, [Next]_vars PROVE [misfit \/ Channel!Next]_<<sent, got>>
  <2>2. CASE WritePacket
    <3>1. PICK n \in Lens[mode] : sent' = Append(sent, PayloadOf(Len(sent) + 1, n))
      BY <2>2 DEF WritePacket
    <3>2. mode \in Framings /\ Len(sent) + 1 \in 1..MaxMsgs /\ got' = got
      BY <1>2, <2>2, LenProperties, SizesAssumption DEF WritePacket, rVars, StreamInv, PacketInv, Typed
    <3>3. PayloadOf(Len(sent) + 1, n) \in UNION {{PayloadOf(i, k) : i \in 1..MaxMsgs, k \in Lens[f]} : f \in Framings}
      BY <3>2
    <3>4. QED BY <3>1, <3>2, <3>3 DEF Channel!Next, Channel!Send
  <2>3. CASE ~WritePacket
    <3>1. sent' = sent /\ ReturnsNext
      BY <1>2, <2>3, NextStreamKeeps
    <3>2. QED BY <3>1 DEF ReturnsNext, Channel!Next, Channel!Deliver
  <2>4. QED BY <2>2, <2>3
<1>3. QED BY <1>1, <1>2, StreamInvariant, PTL DEF Spec, DeliversInOrder
=============================================================================
