------------------------------ MODULE Exchange ------------------------------
(***************************************************************************)
(* What a connection promises to whoever calls it: requests and replies    *)
(* take turns.  A request goes out only after the reply to the one before  *)
(* has been read to its end, nothing but the reply to the latest request   *)
(* is ever under way, and a connection that was retired stays retired.     *)
(***************************************************************************)
EXTENDS Naturals

VARIABLES
    up,     \* the connection is in use
    asked,  \* requests so far
    busy,   \* the server still owes packets of a reply
    coming  \* the requests to which packets are under way

Init == up = TRUE /\ asked = 0 /\ busy = FALSE /\ coming = {}

\* A request: one that is answered, one that is not, or one that did not get out.
Ask == /\ up /\ up' /\ ~busy /\ coming = {}
       /\ asked' = asked + 1
       /\ busy' \in BOOLEAN
       /\ coming' = {}

\* A packet of the reply is sent or read; the reply ends, or the server goes away.
Respond == /\ up /\ up'
           /\ asked' = asked
           /\ busy' \in BOOLEAN /\ (busy' => busy)
           /\ coming' \subseteq {asked} /\ (coming' # {} => busy \/ coming # {})

\* The connection is retired, and what is on the wire does not matter any more.
Retire == ~up'

Next == Ask \/ Respond \/ Retire

Spec == Init /\ [][Next]_<<up, asked, busy, coming>>
=============================================================================
