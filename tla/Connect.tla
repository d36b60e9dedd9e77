------------------------------ MODULE Connect ------------------------------
(***************************************************************************)
(* Opening a connection (conn_handshake.go, dialAndHandshake): the         *)
(* addresses are tried in turn, each with a handshake (TLS, capabilities,  *)
(* authentication, the choice of framing); the init queries and the        *)
(* session time zone follow on the first address that authenticates.       *)
(*                                                                         *)
(* A capability is abstracted to the flags on which the two ends must      *)
(* agree later.  The server is external; each read or write may fail, by   *)
(* the network or by the deadline that withDeadline sets around every      *)
(* exchange.                                                               *)
(***************************************************************************)
EXTENDS Naturals, FiniteSets

CONSTANTS
    NAddr,          \* cfg.Addrs are 1 .. NAddr; cfg.Addr is the first (Config.normalize)
    MaxAuthRounds,  \* maxAuthRounds, 10 in the code
    NInit           \* number of cfg.InitSQL queries

ASSUME ConnectAssumption ==
    /\ {NAddr, MaxAuthRounds} \subseteq Nat \ {0}
    /\ NInit \in Nat

VARIABLES
    cfg,        \* the options of Config
    pc,         \* where dialAndHandshake is
    addr,       \* the address it tries
    sock,       \* the socket of each address: "none", "open" or "closed"
    caps,       \* server capabilities of the greeting
    tls,        \* the stream is encrypted
    name,       \* tlsConfig.ServerName: the address whose host it is, 0 before TLS
    cli,        \* what the client goes by: deprecateEOF, compressed, OB20, time zone
    srv,        \* what the server goes by
    round,      \* authentication rounds
    clear,      \* a password was sent in the clear
    nq,         \* init queries done
    initAt      \* ghost: addresses that were sent an init query

vars == <<cfg, pc, addr, sock, caps, tls, name, cli, srv, round, clear, nq, initAt>>

\* tls: TLSConfig is set, its ServerName is empty; compression: UseCompression, and the
\* environment allows it; oracle: an Oracle tenant, whose session time zone is set.
Config == [tls : BOOLEAN, protocolV2 : BOOLEAN, compression : BOOLEAN, oracle : BOOLEAN]

\* A capability view: deprecated EOFs, compression, OB20 framing, session time zone.
View == [deof : BOOLEAN, zip : BOOLEAN, ob20 : BOOLEAN, zone : {"utc", "cfg", "other"}]
NoView == [deof |-> FALSE, zip |-> FALSE, ob20 |-> FALSE, zone |-> "utc"]
Caps == [ssl : BOOLEAN, deof : BOOLEAN, zip : BOOLEAN]

Init ==
    /\ cfg \in Config
    /\ pc = "dial" /\ addr = 1 /\ sock = [a \in 1..NAddr |-> "none"]
    /\ caps = [ssl |-> FALSE, deof |-> FALSE, zip |-> FALSE]
    /\ tls = FALSE /\ name = 0 /\ cli = NoView /\ srv = NoView
    /\ round = 0 /\ clear = FALSE /\ nq = 0 /\ initAt = {}

\* The stages of the handshake, which run inside withDeadline.
Handshaking == {"greet", "ssl", "tls", "response", "auth", "switch", "reply", "full"}

(***************************************************************************)
(* Dialling and failing over.                                              *)
(***************************************************************************)
\* continue: the next address, or lastErr is returned.
NextAddr == IF addr < NAddr THEN pc' = "dial" /\ addr' = addr + 1
                            ELSE pc' = "error" /\ UNCHANGED addr

DialFails ==
    /\ pc = "dial"
    /\ NextAddr
    /\ UNCHANGED <<cfg, sock, caps, tls, name, cli, srv, round, clear, nq, initAt>>

\* A new Conn on a new socket.
Dial ==
    /\ pc = "dial"
    /\ sock' = [sock EXCEPT ![addr] = "open"]
    /\ tls' = FALSE /\ name' = 0 /\ cli' = NoView /\ srv' = NoView /\ round' = 0
    /\ pc' = "greet"
    /\ UNCHANGED <<cfg, addr, caps, clear, nq, initAt>>

HandshakeFailsOpen == /\ pc \in Handshaking /\ NextAddr
                      /\ UNCHANGED <<cfg, sock, caps, tls, name, cli, srv, round, clear, nq, initAt>>
\* The handshake returns an error: a failed read or write, an ERR packet, a packet
\* that cannot be parsed, an unknown plugin.  The socket is closed.
HandshakeFails ==
    /\ pc \in Handshaking
    /\ sock' = [sock EXCEPT ![addr] = "closed"]
    /\ NextAddr
    /\ UNCHANGED <<cfg, caps, tls, name, cli, srv, round, clear, nq, initAt>>

(***************************************************************************)
(* The handshake.                                                          *)
(***************************************************************************)
TLSIfOffered(k) == cfg.tls /\ k.ssl
\* A configured TLS is never skipped.
WantsTLS(k) == cfg.tls

\* parseHandshake, the mode of the tenant, and the branch to TLS.
Greeting ==
    /\ pc = "greet"
    /\ \E k \in Caps : caps' = k /\ pc' = IF WantsTLS(k) THEN "ssl" ELSE "response"
    /\ UNCHANGED <<cfg, addr, sock, tls, name, cli, srv, round, clear, nq, initAt>>

\* sendSSLRequest; without CLIENT_SSL only HandshakeFails is left.
SendSSLRequest ==
    /\ pc = "ssl" /\ caps.ssl
    /\ name' = 1
    /\ pc' = "tls"
    /\ UNCHANGED <<cfg, addr, sock, caps, tls, cli, srv, round, clear, nq, initAt>>

\* tlsConn.Handshake accepts a certificate for the ServerName.
TLSHandshake ==
    /\ pc = "tls"
    /\ tls' = TRUE
    /\ pc' = "response"
    /\ UNCHANGED <<cfg, addr, sock, caps, name, cli, srv, round, clear, nq, initAt>>

\* Response flags: the client asks for what it wants of what the server offers.
AskDeprecateEOFAlways(k) == TRUE
AskDeprecateEOF(k) == k.deof
\* NegotiateCompression
AskCompression(k) == cfg.compression /\ k.zip

SendResponse ==
    /\ pc = "response"
    /\ cli' = [cli EXCEPT !.deof = AskDeprecateEOF(caps)]
    /\ srv' = [srv EXCEPT !.deof = AskDeprecateEOF(caps) /\ caps.deof, !.zip = AskCompression(caps)]
    /\ pc' = "auth"
    /\ UNCHANGED <<cfg, addr, sock, caps, tls, name, round, clear, nq, initAt>>

(***************************************************************************)
(* handleAuthResult: at most MaxAuthRounds answers are read.               *)
(***************************************************************************)
RoundsUnlimited == TRUE
RoundsLeft == round < MaxAuthRounds

NoRoundNumber(n) == n
NextRound(n) == n + 1

\* connectionAttributes: does the client tell the server that it speaks OB20?
AskOB20Always == TRUE
AskOB20 == cfg.protocolV2

\* handleStateChange: what the session state in the OK can say of OB20.  A server
\* confirms it only to a client that asked for it, or declines.
Confirmations == {FALSE, AskOB20}

\* OK: the client switches the framing.
AuthOK ==
    /\ pc = "auth" /\ RoundsLeft
    /\ \E confirm \in Confirmations :
          /\ cli' = [cli EXCEPT !.ob20 = cfg.protocolV2 /\ confirm, !.zip = AskCompression(caps)]
          /\ srv' = [srv EXCEPT !.ob20 = confirm]
    /\ pc' = "init"
    /\ UNCHANGED <<cfg, addr, sock, caps, tls, name, round, clear, nq, initAt>>

\* An auth switch (0x01 0x03 or 0xFE): plugin and seed come in a packet of their own.
AuthSwitch ==
    /\ pc = "auth" /\ RoundsLeft
    /\ round' = NextRound(round)
    /\ pc' = "switch"
    /\ UNCHANGED <<cfg, addr, sock, caps, tls, name, cli, srv, clear, nq, initAt>>

ReadAuthSwitchData ==
    /\ pc = "switch"
    /\ pc' = "reply"
    /\ UNCHANGED <<cfg, addr, sock, caps, tls, name, cli, srv, round, clear, nq, initAt>>

WriteAuthResponse ==
    /\ pc = "reply"
    /\ pc' = "auth"
    /\ UNCHANGED <<cfg, addr, sock, caps, tls, name, cli, srv, round, clear, nq, initAt>>

\* 0x01 0x04, full authentication: the password itself, if TLS is configured.
FullAuth ==
    /\ pc = "auth" /\ RoundsLeft /\ cfg.tls
    /\ round' = NextRound(round)
    /\ clear' = (clear \/ ~tls)
    /\ UNCHANGED <<cfg, pc, addr, sock, caps, tls, name, cli, srv, nq, initAt>>

(***************************************************************************)
(* After the handshake: no failover any more.                              *)
(***************************************************************************)
InitQuery ==
    /\ pc = "init" /\ nq < NInit
    /\ nq' = nq + 1 /\ initAt' = initAt \cup {addr}
    /\ \E z \in (IF cfg.oracle THEN {"utc", "other"} ELSE {"utc"}) :
          cli' = [cli EXCEPT !.zone = z] /\ srv' = [srv EXCEPT !.zone = z]
    /\ UNCHANGED <<cfg, pc, addr, sock, caps, tls, name, round, clear>>

InitFailsOver ==
    /\ pc = "init" /\ nq < NInit
    /\ sock' = [sock EXCEPT ![addr] = "closed"]
    /\ initAt' = initAt \cup {addr}
    /\ NextAddr
    /\ UNCHANGED <<cfg, caps, tls, name, cli, srv, round, clear, nq>>
InitQueryFails ==
    /\ pc = "init" /\ nq < NInit
    /\ sock' = [sock EXCEPT ![addr] = "closed"]
    /\ initAt' = initAt \cup {addr}
    /\ pc' = "error"
    /\ UNCHANGED <<cfg, addr, caps, tls, name, cli, srv, round, clear, nq>>

\* configureSessionTimeZone: the server first, then the client's location.
ConfigureSessionTimeZone ==
    /\ pc = "init" /\ nq = NInit
    /\ IF cfg.oracle
       THEN cli' = [cli EXCEPT !.zone = "cfg"] /\ srv' = [srv EXCEPT !.zone = "cfg"]
       ELSE cli' = [cli EXCEPT !.zone = "utc"] /\ UNCHANGED srv
    /\ pc' = "ok"
    /\ UNCHANGED <<cfg, addr, sock, caps, tls, name, round, clear, nq, initAt>>

TimeZoneFails ==
    /\ pc = "init" /\ nq = NInit /\ cfg.oracle
    /\ sock' = [sock EXCEPT ![addr] = "closed"]
    /\ pc' = "error"
    /\ UNCHANGED <<cfg, addr, caps, tls, name, cli, srv, round, clear, nq, initAt>>

Done == pc \in {"ok", "error"} /\ UNCHANGED vars

Step ==
    \/ DialFails \/ Dial \/ HandshakeFails \/ Greeting \/ SendSSLRequest \/ TLSHandshake \/ SendResponse
    \/ AuthOK \/ AuthSwitch \/ ReadAuthSwitchData \/ WriteAuthResponse \/ FullAuth
    \/ InitQuery \/ InitQueryFails \/ ConfigureSessionTimeZone \/ TimeZoneFails

Next == Step \/ Done

Spec == Init /\ [][Next]_vars

\* The dialler's timeout and the deadlines of withDeadline end every wait.
FairSpec == Spec /\ WF_vars(Step)

(***************************************************************************)
(* Properties.                                                             *)
(***************************************************************************)

\* Types; an address is one of the configured ones and rounds are counted.
TypeOK ==
    /\ cfg \in Config
    /\ pc \in {"dial", "init", "ok", "error"} \cup Handshaking
    /\ addr \in 1..NAddr /\ sock \in [1..NAddr -> {"none", "open", "closed"}]
    /\ caps \in Caps /\ tls \in BOOLEAN /\ name \in 0..1
    /\ cli \in View /\ srv \in View
    /\ round \in 0..MaxAuthRounds /\ clear \in BOOLEAN
    /\ nq \in 0..NInit /\ initAt \subseteq 1..NAddr

\* Sockets are not leaked: at most the address that is tried has an open one, a
\* returned connection owns exactly one, an error leaves none.
SocketsOwned ==
    {a \in 1..NAddr : sock[a] = "open"} = IF pc \in {"dial", "error"} THEN {} ELSE {addr}

\* An opened connection and its server agree on the shape of replies (EOF packets),
\* on the framing and on the session time zone.
EndsAgree ==
    pc = "ok" => /\ cli.deof = srv.deof
                 /\ cli.ob20 = srv.ob20
                 /\ cli.zip = srv.zip
                 /\ cli.zone = srv.zone

\* With TLS configured nothing after the greeting, and no password, goes over an
\* unencrypted stream.
SecretsEncrypted == ~clear /\ (cfg.tls /\ pc \in {"response", "auth", "switch", "reply", "init", "ok"} => tls)

\* Init queries run against one server only: after the handshake there is no
\* failover that would repeat them elsewhere.
InitOnOneServer == Cardinality(initAt) <= 1

\* Connect returns, whatever the servers do: a peer cannot keep the authentication
\* going for ever.
ConnectReturns == <>(pc \in {"ok", "error"})
=============================================================================
