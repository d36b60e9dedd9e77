------------------------------ MODULE MCPacket ------------------------------
(* An instance of Packet for TLC: every framing. *)
EXTENDS Packet

\* Around multiples of maxPayloadLen (5), except where this code cannot write them: below
\* maxOB20Chunk (2) in OB20 frames.  Compressed, 2 and 3 bytes make packets that are long
\* enough to compress and short enough for their length field.
MCLens == [plain |-> {0, 1, 4, 5, 6, 10, 11}, server |-> {0, 1, 5, 6},
           ob20 |-> {0, 1}, zip |-> 1..6]

\* Payloads of maxOB20Chunk bytes and more.
ChunkLens == [ob20 |-> {1, 2, 3}]
=============================================================================
