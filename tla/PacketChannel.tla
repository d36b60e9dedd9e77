--------------------------- MODULE PacketChannel ---------------------------
(***************************************************************************)
(* What the packet layer promises to the code above it: packets come out   *)
(* of ReadPacket whole and in the order in which WritePacket took them.    *)
(***************************************************************************)
EXTENDS Naturals, Sequences

CONSTANT Payload    \* what a packet can carry

VARIABLES
    sent,   \* packets handed to WritePacket
    got     \* packets returned by ReadPacket

Init == sent = <<>> /\ got = <<>>

Send(p) == /\ sent' = Append(sent, p)
           /\ UNCHANGED got

Deliver == /\ Len(got) < Len(sent)
           /\ got' = Append(got, sent[Len(got) + 1])
           /\ UNCHANGED sent

Next == (\E p \in Payload : Send(p)) \/ Deliver

Spec == Init /\ [][Next]_<<sent, got>>
=============================================================================
