------------------------------- MODULE MCConn -------------------------------
(* Instances of Conn for TLC. *)
EXTENDS ConnInv
=============================================================================
