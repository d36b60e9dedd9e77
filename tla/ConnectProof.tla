---------------------------- MODULE ConnectProof ----------------------------
(* Proofs about opening a connection (module Connect). *)
EXTENDS Connect, FiniteSetTheorems, TLAPS

(***************************************************************************)
(* The inductive invariant, in parts.                                      *)
(***************************************************************************)

\* Stages at which the client has sent its response, and those after the OK.
Responded == {"auth", "switch", "reply", "full", "init", "ok"}
Opened == {"init", "ok"}

\* Both ends go by what the response asked for; the framing is switched with the
\* OK; the zone is moved on both ends together.
ViewsAgree ==
    /\ pc \in Responded => cli.deof = srv.deof /\ srv.zip = AskCompression(caps)
    /\ pc \in Opened => cli.ob20 = srv.ob20 /\ cli.zip = srv.zip
    /\ cli.zone = srv.zone /\ (~cfg.oracle => srv.zone = "utc")

\* TLS is up before the response, so no password was sent without it.
Encrypted ==
    /\ ~clear
    /\ cfg.tls /\ pc \in Responded \cup {"response"} => tls

\* Init queries start after the last failover.
InitHere == initAt \subseteq {addr} /\ (initAt # {} => pc \in {"init", "ok", "error"})

\* The address that is tried, and only it, has an open socket.
SocketHere == \A a \in 1..NAddr : sock[a] = "open" <=> pc \notin {"dial", "error"} /\ a = addr

ConnectInv == TypeOK /\ ViewsAgree /\ Encrypted /\ InitHere /\ SocketHere

LEMMA InitConnect == Init => ConnectInv
<1> SUFFICES ASSUME Init PROVE ConnectInv
  OBVIOUS
<1>1. TypeOK
  <2>1. NoView \in View
    BY DEF NoView, View
  <2>2. 1 \in 1..NAddr /\ 0 \in 0..NAddr /\ 0 \in 0..MaxAuthRounds /\ 0 \in 0..NInit
    BY ConnectAssumption
  <2>3. caps \in Caps
    BY DEF Init, Caps
  <2>4. sock \in [1..NAddr -> {"none", "open", "closed"}]
    BY DEF Init
  <2>5. cfg \in Config /\ pc \in {"dial", "init", "ok", "error"} \cup Handshaking
    BY DEF Init
  <2>6. tls \in BOOLEAN /\ clear \in BOOLEAN /\ cli \in View /\ srv \in View
    BY <2>1 DEF Init
  <2>7. addr \in 1..NAddr /\ name \in 0..1 /\ round \in 0..MaxAuthRounds /\ nq \in 0..NInit
    BY <2>2 DEF Init
  <2>8. QED BY <2>3, <2>4, <2>5, <2>6, <2>7 DEF Init, TypeOK
<1>2. ViewsAgree /\ Encrypted /\ InitHere
  BY DEF Init, ViewsAgree, Encrypted, InitHere, Responded, Opened, NoView
<1>3. SocketHere
  BY DEF Init, SocketHere
<1>4. QED BY <1>1, <1>2, <1>3 DEF ConnectInv

\* Every step keeps every part.
LEMMA NextConnect == ConnectInv /\ [Next]_vars => ConnectInv'
<1> SUFFICES ASSUME ConnectInv, [Next]_vars PROVE ConnectInv'
  OBVIOUS
<1> USE ConnectAssumption DEF ConnectInv
<1>1. CASE DialFails
  <2>1. TypeOK'
    BY <1>1 DEF DialFails, NextAddr, TypeOK
  <2>2. ViewsAgree' /\ Encrypted'
    BY <1>1 DEF DialFails, NextAddr, ViewsAgree, Encrypted, Responded, Opened, AskCompression
  <2>3. InitHere' /\ SocketHere'
    BY <1>1 DEF DialFails, NextAddr, InitHere, SocketHere
  <2>4. QED BY <2>1, <2>2, <2>3
<1>2. CASE Dial
  <2>1. TypeOK'
    <3>1. NoView \in View
      BY DEF NoView, View
    <3>2. 0 \in 0..NAddr /\ 0 \in 0..MaxAuthRounds
      OBVIOUS
    <3>3. sock' \in [1..NAddr -> {"none", "open", "closed"}]
      BY <1>2 DEF Dial, TypeOK
    <3>4. tls' \in BOOLEAN /\ cli' \in View /\ srv' \in View
      BY <1>2, <3>1 DEF Dial
    <3>5. name' \in 0..1 /\ round' \in 0..MaxAuthRounds
      BY <1>2, <3>2 DEF Dial
    <3>6. pc' \in {"dial", "init", "ok", "error"} \cup Handshaking
      BY <1>2 DEF Dial, Handshaking
    <3>7. QED BY <1>2, <3>3, <3>4, <3>5, <3>6 DEF Dial, TypeOK
  <2>2. ViewsAgree' /\ Encrypted'
    BY <1>2 DEF Dial, ViewsAgree, Encrypted, Responded, Opened, NoView
  <2>3. InitHere' /\ SocketHere'
    BY <1>2 DEF Dial, InitHere, SocketHere, TypeOK
  <2>4. QED BY <2>1, <2>2, <2>3
<1>3. CASE HandshakeFails
  <2>1. TypeOK'
    BY <1>3 DEF HandshakeFails, NextAddr, TypeOK
  <2>2. ViewsAgree' /\ Encrypted'
    BY <1>3 DEF HandshakeFails, NextAddr, ViewsAgree, Encrypted, Responded, Opened, AskCompression
  <2>3. InitHere' /\ SocketHere'
    BY <1>3 DEF HandshakeFails, NextAddr, InitHere, SocketHere, TypeOK, Handshaking
  <2>4. QED BY <2>1, <2>2, <2>3
<1>4. CASE Greeting
  <2>1. TypeOK'
    BY <1>4 DEF Greeting, TypeOK, Handshaking
  <2>2. ViewsAgree' /\ Encrypted'
    BY <1>4 DEF Greeting, WantsTLS, ViewsAgree, Encrypted, Responded, Opened
  <2>3. InitHere' /\ SocketHere'
    BY <1>4 DEF Greeting, InitHere, SocketHere
  <2>4. QED BY <2>1, <2>2, <2>3
<1>5. CASE SendSSLRequest
  BY <1>5 DEF SendSSLRequest, TypeOK, Handshaking, ViewsAgree, Encrypted, InitHere, SocketHere, Responded, Opened
<1>6. CASE TLSHandshake
  BY <1>6 DEF TLSHandshake, TypeOK, Handshaking, ViewsAgree, Encrypted, InitHere, SocketHere, Responded, Opened
<1>7. CASE SendResponse
  <2>1. TypeOK'
    <3>1. AskDeprecateEOF(caps) \in BOOLEAN /\ AskCompression(caps) \in BOOLEAN /\ caps.deof \in BOOLEAN
      BY DEF TypeOK, Caps, Config, AskDeprecateEOF, AskCompression
    <3>2. cli' \in View /\ srv' \in View
      BY <1>7, <3>1 DEF SendResponse, TypeOK, View
    <3>3. QED BY <1>7, <3>2 DEF SendResponse, TypeOK, Handshaking
  <2>2. ViewsAgree' /\ Encrypted'
    BY <1>7 DEF SendResponse, TypeOK, View, Caps, AskDeprecateEOF, AskCompression, ViewsAgree, Encrypted, Responded, Opened
  <2>3. InitHere' /\ SocketHere'
    BY <1>7 DEF SendResponse, InitHere, SocketHere
  <2>4. QED BY <2>1, <2>2, <2>3
<1>8. CASE AuthOK
  <2>1. PICK confirm \in Confirmations :
           /\ cli' = [cli EXCEPT !.ob20 = cfg.protocolV2 /\ confirm, !.zip = AskCompression(caps)]
           /\ srv' = [srv EXCEPT !.ob20 = confirm]
    BY <1>8 DEF AuthOK
  <2>2. confirm \in BOOLEAN /\ (confirm => cfg.protocolV2) /\ AskCompression(caps) \in BOOLEAN /\ cfg.protocolV2 \in BOOLEAN
    BY <2>1 DEF Confirmations, AskOB20, AskCompression, TypeOK, Config, Caps
  <2>3. TypeOK'
    BY <1>8, <2>1, <2>2 DEF AuthOK, TypeOK, View
  <2>4. ViewsAgree' /\ Encrypted'
    BY <1>8, <2>1, <2>2 DEF AuthOK, TypeOK, View, AskCompression, ViewsAgree, Encrypted, Responded, Opened
  <2>5. InitHere' /\ SocketHere'
    BY <1>8 DEF AuthOK, InitHere, SocketHere
  <2>6. QED BY <2>3, <2>4, <2>5
<1>9. CASE AuthSwitch
  <2>1. TypeOK'
    BY <1>9 DEF AuthSwitch, TypeOK, Handshaking, RoundsLeft, NextRound
  <2>2. QED BY <1>9, <2>1 DEF AuthSwitch, ViewsAgree, Encrypted, InitHere, SocketHere, Responded, Opened, AskCompression
<1>10. CASE ReadAuthSwitchData \/ WriteAuthResponse
  BY <1>10 DEF ReadAuthSwitchData, WriteAuthResponse, TypeOK, Handshaking, ViewsAgree, Encrypted, InitHere, SocketHere, Responded, Opened, AskCompression
<1>11. CASE FullAuth
  <2>1. TypeOK'
    BY <1>11 DEF FullAuth, TypeOK, RoundsLeft, NextRound
  <2>2. Encrypted'
    BY <1>11 DEF FullAuth, Encrypted, Responded
  <2>3. QED BY <1>11, <2>1, <2>2 DEF FullAuth, ViewsAgree, InitHere, SocketHere, AskCompression
<1>12. CASE InitQuery
  <2>1. PICK z \in (IF cfg.oracle THEN {"utc", "other"} ELSE {"utc"}) :
           cli' = [cli EXCEPT !.zone = z] /\ srv' = [srv EXCEPT !.zone = z]
    BY <1>12 DEF InitQuery
  <2>2. TypeOK'
    BY <1>12, <2>1 DEF InitQuery, TypeOK, View
  <2>3. ViewsAgree' /\ Encrypted'
    BY <1>12, <2>1 DEF InitQuery, TypeOK, View, ViewsAgree, Encrypted, Responded, Opened, AskCompression
  <2>4. InitHere' /\ SocketHere'
    BY <1>12 DEF InitQuery, InitHere, SocketHere
  <2>5. QED BY <2>2, <2>3, <2>4
<1>13. CASE InitQueryFails
  <2>1. TypeOK'
    BY <1>13 DEF InitQueryFails, TypeOK
  <2>2. ViewsAgree' /\ Encrypted'
    BY <1>13 DEF InitQueryFails, ViewsAgree, Encrypted, Responded, Opened
  <2>3. InitHere' /\ SocketHere'
    BY <1>13 DEF InitQueryFails, InitHere, SocketHere, TypeOK
  <2>4. QED BY <2>1, <2>2, <2>3
<1>14. CASE ConfigureSessionTimeZone
  <2>1. TypeOK'
    BY <1>14 DEF ConfigureSessionTimeZone, TypeOK, View
  <2>2. ViewsAgree' /\ Encrypted'
    BY <1>14 DEF ConfigureSessionTimeZone, TypeOK, View, ViewsAgree, Encrypted, Responded, Opened, AskCompression
  <2>3. InitHere' /\ SocketHere'
    BY <1>14 DEF ConfigureSessionTimeZone, InitHere, SocketHere
  <2>4. QED BY <2>1, <2>2, <2>3
<1>15. CASE TimeZoneFails
  <2>1. TypeOK' /\ ViewsAgree' /\ Encrypted'
    BY <1>15 DEF TimeZoneFails, TypeOK, ViewsAgree, Encrypted, Responded, Opened
  <2>2. InitHere' /\ SocketHere'
    BY <1>15 DEF TimeZoneFails, InitHere, SocketHere, TypeOK
  <2>3. QED BY <2>1, <2>2
<1>16. CASE UNCHANGED vars
  BY <1>16 DEF vars, TypeOK, ViewsAgree, Encrypted, InitHere, SocketHere, AskCompression
<1>17. QED
  BY <1>1, <1>2, <1>3, <1>4, <1>5, <1>6, <1>7, <1>8, <1>9, <1>10, <1>11, <1>12, <1>13, <1>14, <1>15, <1>16
     DEF Next, Step, Done

LEMMA ConnectInvariant == Spec => []ConnectInv
BY InitConnect, NextConnect, PTL DEF Spec

(***************************************************************************)
(* Results.                                                                *)
(***************************************************************************)

\* Opening a connection keeps its types, for any number of addresses, rounds and
\* init queries; in particular the authentication rounds never exceed maxAuthRounds.
THEOREM ConnectTypes == Spec => []TypeOK
<1>1. ConnectInv => TypeOK
  BY DEF ConnectInv
<1>2. QED BY <1>1, ConnectInvariant, PTL

\* No path through any number of addresses leaks a socket or closes the one that is
\* returned.
THEOREM NoSocketLeaks == Spec => []SocketsOwned
<1>1. ConnectInv => SocketsOwned
  BY DEF ConnectInv, SocketHere, SocketsOwned, TypeOK
<1>2. QED BY <1>1, ConnectInvariant, PTL

\* Whatever a server offers, confirms or declines, and whatever its predecessors in
\* the list of addresses did, an opened connection and its server agree on EOF
\* packets, framing, compression and session time zone.
THEOREM OpenedEndsAgree == Spec => []EndsAgree
<1>1. ConnectInv => EndsAgree
  BY DEF ConnectInv, ViewsAgree, EndsAgree, Responded, Opened
<1>2. QED BY <1>1, ConnectInvariant, PTL

\* With TLS configured no response and no password leaves on a plain stream.
THEOREM SecretsStayEncrypted == Spec => []SecretsEncrypted
<1>1. ConnectInv => SecretsEncrypted
  BY DEF ConnectInv, Encrypted, SecretsEncrypted, Responded
<1>2. QED BY <1>1, ConnectInvariant, PTL

\* Init queries reach one server at most, however many addresses were tried.
THEOREM InitRunsOnce == Spec => []InitOnOneServer
<1>1. ConnectInv => InitOnOneServer
  <2>1. SUFFICES ASSUME ConnectInv PROVE Cardinality(initAt) <= 1
    BY DEF InitOnOneServer
  <2>2. initAt = {} \/ initAt = {addr}
    BY <2>1 DEF ConnectInv, InitHere
  <2>3. Cardinality({}) = 0 /\ Cardinality({addr}) = 1
    BY FS_EmptySet, FS_Singleton
  <2>4. QED BY <2>2, <2>3
<1>2. QED BY <1>1, ConnectInvariant, PTL
=============================================================================
