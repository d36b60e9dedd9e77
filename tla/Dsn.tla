-------------------------------- MODULE Dsn --------------------------------
(***************************************************************************)
(* From a data source name to a configuration: config.go, driver.go.       *)
(*                                                                         *)
(* A DSN is [text, query]: symbols up to the question mark, an escaped     *)
(* character being one symbol, and the options after it as a function from *)
(* keys to the values given, in order (url.ParseQuery).  timeout, preset,  *)
(* oracleMode, tls and tls.ca stand for the options: the others are read   *)
(* in the same way into a field of their own.                              *)
(***************************************************************************)
EXTENDS Integers, SequencesExt

NotOk == [ok |-> FALSE]
Good(s) == [ok |-> TRUE, s |-> s]

\* strings.Cut, and the cut at the last place (net/url, for user information).
CutAt(s, i, n) == [ok |-> TRUE, before |-> SubSeq(s, 1, i - 1), after |-> SubSeq(s, i + n, Len(s))]
Places(s, sep) == {i \in DOMAIN s : IsPrefix(sep, SubSeq(s, i, Len(s)))}
Cut(s, sep) ==
    LET p == Places(s, sep) IN
    IF p = {} THEN [ok |-> FALSE, before |-> s, after |-> <<>>] ELSE CutAt(s, Min(p), Len(sep))
CutLast(s, sep) ==
    LET p == Places(s, sep) IN
    IF p = {} THEN [ok |-> FALSE, before |-> <<>>, after |-> s] ELSE CutAt(s, Max(p), Len(sep))
SplitAt(s, c) ==
    FoldLeft(LAMBDA ws, x : IF x = c THEN Append(ws, <<>>) ELSE [ws EXCEPT ![Len(ws)] = Append(@, x)], <<<<>>>>, s)

\* url.PathUnescape, and url.QueryUnescape, to which a plus is a space.
Escapes == "%40" :> "@" @@ "%3A" :> ":" @@ "%2F" :> "/" @@ "%2B" :> "+" @@ "%20" :> " " @@ "%25" :> "%"
Plain(c) == IF c \in DOMAIN Escapes THEN Escapes[c] ELSE c
PathUnescape(s) == IF Contains(s, "%") THEN NotOk ELSE Good([i \in DOMAIN s |-> Plain(s[i])])
QueryUnescape(s) ==
    IF Contains(s, "%") THEN NotOk ELSE Good([i \in DOMAIN s |-> IF s[i] = "+" THEN " " ELSE Plain(s[i])])

(***************************************************************************)
(* Normalisation.                                                          *)
(***************************************************************************)
DefaultAddr == <<"127.0.0.1", ":", "2881">>
DefaultTimeout == 10
Ports == {"1", "2881"}

\* net.SplitHostPort: one colon outside brackets; brackets around the whole host.
SplitHostPort(addr) ==
    LET i == SelectLastInSeq(addr, LAMBDA c : c = ":")
        host == SubSeq(addr, 1, i - 1)
        bracketed == host # <<>> /\ host[1] = "[" /\ Last(host) = "]"
    IN IF i = 0 THEN NotOk
       ELSE IF ~bracketed /\ (Contains(host, ":") \/ Contains(host, "[") \/ Contains(host, "]")) THEN NotOk
       ELSE [ok |-> TRUE, port |-> SubSeq(addr, i + 1, Len(addr)),
             host |-> IF bracketed THEN SubSeq(host, 2, Len(host) - 1) ELSE host]

JoinPlain(host, port) == host \o <<":">> \o port
\* net.JoinHostPort.
JoinHostPort(host, port) ==
    (IF Contains(host, ":") THEN <<"[">> \o host \o <<"]">> ELSE host) \o <<":">> \o port

NormalizeAddr(addr) ==
    LET Join(host, port) ==
            IF ~(Len(port) = 1 /\ port[1] \in Ports) THEN NotOk
            ELSE Good(JoinHostPort(IF host = <<>> THEN <<"127.0.0.1">> ELSE host, port))
        Checked(split) == IF split.ok THEN Join(split.host, split.port)
                          ELSE IF Contains(addr, ":") THEN NotOk
                          ELSE Join(addr, <<"2881">>)
    IN Checked(SplitHostPort(addr))

\* parseTimeout: durations, or seconds.
Timeouts == "5s" :> 5 @@ "5" :> 5 @@ "0s" :> 0 @@ "-1s" :> -1
OracleModes == "" :> "auto" @@ "auto" :> "auto" @@ "true" :> "true" @@ "oracle" :> "true"
               @@ "false" :> "false" @@ "mysql" :> "false"

\* Config.normalize; env is the variable OB_TIMEOUT.
Normalize(c, env) ==
    LET addrs == IF c.addrs # <<>> THEN c.addrs
                 ELSE IF c.addr # <<>> THEN <<c.addr>> ELSE <<DefaultAddr>>
        fromEnv == IF c.timeout = 0 /\ env \in DOMAIN Timeouts THEN Timeouts[env] ELSE c.timeout
        Checked(good) ==
            IF \E i \in DOMAIN good : ~good[i].ok THEN NotOk
            ELSE IF c.user = <<>> THEN NotOk
            ELSE IF c.mode \notin DOMAIN OracleModes THEN NotOk
            ELSE [ok |-> TRUE,
                  c |-> [c EXCEPT !.addrs = [i \in DOMAIN good |-> good[i].s], !.addr = good[1].s,
                                  !.timeout = IF fromEnv = 0 THEN DefaultTimeout ELSE fromEnv,
                                  !.preset = IF @ = "" THEN "default" ELSE @,
                                  !.mode = OracleModes[@]]]
    IN Checked([i \in DOMAIN addrs |-> NormalizeAddr(addrs[i])])

(***************************************************************************)
(* Options.                                                                *)
(***************************************************************************)
\* strings.EqualFold, on the keys considered.
Fold(key) == CASE key \in {"timeout", "TIMEOUT", "Timeout"}        -> "timeout"
               [] key \in {"connect timeout", "CONNECT TIMEOUT"}   -> "connect timeout"
               [] key \in {"oracleMode", "ORACLEMODE"}             -> "oraclemode"
               [] OTHER                                            -> key

\* getQueryValue: the values it may return; among keys that differ in case only, the
\* iteration over the map decides.
GetQueryValue(values, names) ==
    LET Hits(name) == {Last(values[k]) : k \in IF name \in DOMAIN values THEN {name}
                                               ELSE {key \in DOMAIN values : Fold(key) = Fold(name)}}
        first == SelectInSeq(names, LAMBDA name : Hits(name) # {})
    IN IF first = 0 THEN {""} ELSE Hits(names[first])

TLSOf == "true" :> "verify" @@ "skip-verify" :> "skip" @@ "false" :> "off"

\* applyQuery: the configurations it may give, or NotOk.
ApplyQuery(c, values) ==
    LET Apply(timeout, preset, mode, tls, ca) ==
            IF \/ timeout \notin {""} \cup DOMAIN Timeouts
               \/ mode \notin DOMAIN OracleModes
               \/ tls \notin {""} \cup DOMAIN TLSOf
            THEN NotOk
            ELSE LET t == IF tls = "" THEN c.tls ELSE TLSOf[tls] IN
                 [ok |-> TRUE,
                  c |-> [c EXCEPT !.timeout = IF timeout = "" THEN @ ELSE Timeouts[timeout],
                                  !.preset = IF preset = "" THEN @ ELSE preset,
                                  !.mode = IF mode = "" THEN @ ELSE OracleModes[mode],
                                  !.tls = IF ca # "" /\ t = "off" THEN "verify" ELSE t,
                                  !.ca = ca]]
    IN {Apply(timeout, preset, mode, tls, ca) :
            timeout \in GetQueryValue(values, <<"timeout", "TIMEOUT", "CONNECT TIMEOUT", "connect timeout">>),
            preset \in GetQueryValue(values, <<"preset">>),
            mode \in GetQueryValue(values, <<"oracleMode", "oracle_mode">>),
            tls \in GetQueryValue(values, <<"tls">>),
            ca \in GetQueryValue(values, <<"tls.ca", "tls_ca">>)}

(***************************************************************************)
(* The three forms.                                                        *)
(***************************************************************************)
Empty == [addrs |-> <<>>, addr |-> <<>>, user |-> <<>>, password |-> <<>>, database |-> <<>>,
          timeout |-> 0, preset |-> "", mode |-> "", tls |-> "off", ca |-> ""]
Schemes == {"oceanbase", "oboracle"}

\* The fields, the options, the preset of the scheme over the option, normalisation.
Configure(scheme, user, password, addr, database, values, env) ==
    LET c == [Empty EXCEPT !.addr = addr, !.user = user, !.password = password, !.database = database,
                           !.addrs = IF Contains(addr, ",") THEN SplitAt(addr, ",") ELSE <<>>]
    IN {IF ~r.ok THEN r
        ELSE Normalize(IF scheme = "oboracle" THEN [r.c EXCEPT !.preset = scheme] ELSE r.c, env) :
            r \in ApplyQuery(c, values)}

ParseURLDSN(dsn, env) ==
    LET scheme == Cut(dsn.text, <<":">>)
        hier == IsPrefix(<<"/", "/">>, scheme.after)
        rest == Cut(IF hier THEN SubSeq(scheme.after, 3, Len(scheme.after)) ELSE <<>>, <<"/">>)
        info == CutLast(rest.before, <<"@">>)
        names == Cut(info.before, <<":">>)
        user == PathUnescape(names.before)
        password == PathUnescape(names.after)
        database == PathUnescape(rest.after)
    IN IF scheme.before \notin {<<s>> : s \in Schemes} THEN {NotOk}
       ELSE IF ~(user.ok /\ password.ok /\ database.ok) THEN {NotOk}
       ELSE Configure(scheme.before[1], user.s, password.s, info.after, database.s, dsn.query, env)

OpaqueUnescapesFirst(dsn, env) ==
    LET scheme == Cut(dsn.text, <<":">>)
        text == QueryUnescape(scheme.after)
        main == Cut(text.s, <<"@">>)
        names == Cut(main.before, <<":">>)
        rest == Cut(main.after, <<"/">>)
    IN IF ~text.ok THEN {NotOk} ELSE IF ~main.ok \/ ~names.ok THEN {NotOk}
       ELSE Configure(scheme.before[1], names.before, names.after, rest.before, rest.after, dsn.query, env)
ParseOpaqueDSN(dsn, env) ==
    LET scheme == Cut(dsn.text, <<":">>)
        main == Cut(scheme.after, <<"@">>)
        names == Cut(main.before, <<":">>)
        rest == Cut(main.after, <<"/">>)
        user == QueryUnescape(names.before)
        password == QueryUnescape(names.after)
        database == QueryUnescape(rest.after)
    IN IF ~main.ok \/ ~names.ok THEN {NotOk}
       ELSE IF ~(user.ok /\ password.ok /\ database.ok) THEN {NotOk}
       ELSE Configure(scheme.before[1], user.s, password.s, rest.before, database.s, dsn.query, env)

\* An escape that is not one is taken as it stands; the database is not unescaped.
ParseLegacyDSN(dsn, env) ==
    LET OrRaw(s) == IF QueryUnescape(s).ok THEN QueryUnescape(s).s ELSE s
        main == Cut(dsn.text, <<"@", "tcp", "(">>)
        names == Cut(main.before, <<":">>)
        rest == Cut(main.after, <<")">>)
        path == IsPrefix(<<"/">>, rest.after)
    IN IF ~main.ok \/ ~rest.ok THEN {NotOk}
       ELSE Configure("tcp", OrRaw(names.before), OrRaw(names.after), rest.before,
                   IF path THEN Tail(rest.after) ELSE <<>>, IF path THEN dsn.query ELSE <<>>, env)

ParseDSN(dsn, env) ==
    IF Places(dsn.text, <<":", "/", "/">>) # {} THEN ParseURLDSN(dsn, env)
    ELSE IF \E s \in Schemes : IsPrefix(<<s, ":">>, dsn.text) THEN ParseOpaqueDSN(dsn, env)
    ELSE ParseLegacyDSN(dsn, env)
=============================================================================
