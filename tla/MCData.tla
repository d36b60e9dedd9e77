------------------------------- MODULE MCData -------------------------------
(***************************************************************************)
(* Text, Codec, OracleTime and Dsn on bounded inputs: probe is the input,  *)
(* and each property compares what the code computes for it with a         *)
(* reference.                                                              *)
(***************************************************************************)
EXTENDS Text, OracleTime, Dsn

CONSTANTS
    MaxText,    \* symbols of a statement text
    MaxBound    \* symbols of a text to which arguments are bound

VARIABLE probe

Start == [kind |-> "text", q |-> <<>>]
Init == probe = Start

(***************************************************************************)
(* Inputs.                                                                 *)
(***************************************************************************)
Symbols == {"'", "\"", Backtick, "/", "*", "-", "#", "\n", " ", "X", "?"}

Type == /\ probe.kind = "text" /\ Len(probe.q) < MaxText
        /\ \E c \in Symbols : probe' = [probe EXCEPT !.q = Append(@, c)]

Args == [kind : {"string"}, text : {<<>>, <<"'">>, <<"?">>, <<"'", "?">>, <<"-", "-">>}]
        \cup [kind : {"word", "negative", "bytes", "time"}, text : {<<>>}]

Bind == /\ probe.kind = "text" /\ Len(probe.q) <= MaxBound
        /\ LET n == CountPlaceholders(probe.q) IN
           /\ n \in 1..2
           /\ \/ \E args \in [1..n -> Args] : probe' = [kind |-> "bound", q |-> probe.q, args |-> args]
              \/ \E k \in {n - 1, n + 1} : \E arg \in Args :
                    probe' = [kind |-> "bound", q |-> probe.q, args |-> [i \in 1..k |-> arg]]

NamePieces == {"X", "1", "_", "\"", "'", "?", "-", Backtick}
Names == UNION {[1..n -> NamePieces] : n \in 0..3}

PickInsert ==
    /\ probe = Start
    /\ \E table \in Names, column \in {<<"X">>, <<"\"", "?">>}, columns \in 1..2, rows \in 1..2 :
          probe' = [kind |-> "insert", table |-> table, rows |-> rows,
                    columns |-> [i \in 1..columns |-> IF i = 1 THEN column ELSE <<"Y">>]]

Heads == {<<"ALTER", "SESSION", "SET", "TIME_ZONE">>, <<"SET", "TIME_ZONE">>,
          <<"SET", "@@SESSION.TIME_ZONE">>, <<"ALTER", "SESSION", "SET", "NLS">>, <<"SET", "TIME_ZONE_X">>}
Gaps == {<<" ">>, <<"/", "*", "=", "*", "/">>, <<" ", "-", "-", " ", "'", "\n">>, <<"#", "X", "\n">>}
\* Right-hand sides, and the zone the server sets with them if the driver can decode it.
Rights == {[text |-> <<"'", "+01:00", "'">>, zone |-> "+01:00"], [text |-> <<"\"", "UTC", "\"">>, zone |-> "UTC"],
           [text |-> <<"'", " ", "-12:59", "'">>, zone |-> "-12:59"], [text |-> <<"'", "EST", "'">>, zone |-> "none"],
           [text |-> <<"LOCAL">>, zone |-> "none"], [text |-> <<"'", "-", "-", " ", "'">>, zone |-> "none"],
           [text |-> <<"?">>, zone |-> "argument"]}
\* What follows, and whether it is part of the statement.
Tails == {[text |-> <<>>, same |-> TRUE], [text |-> <<";">>, same |-> TRUE], [text |-> <<" ", ";", " ">>, same |-> TRUE],
          [text |-> <<"-", "-", " ", ";">>, same |-> TRUE], [text |-> <<";", " ", "SELECT">>, same |-> FALSE]}
ZoneArgs == {<<>>, <<[string |-> TRUE, text |-> <<"+01:00">>]>>, <<[string |-> FALSE, text |-> <<"+01:00">>]>>}

PickZone ==
    /\ probe = Start
    /\ \E h \in Heads, g \in Gaps, b \in Gaps \cup {<<>>}, a \in Gaps \cup {<<>>}, r \in Rights, t \in Tails :
       \E args \in IF r.zone = "argument" THEN ZoneArgs ELSE {<<>>} :
          probe' = [kind |-> "zone", head |-> h, right |-> r, tail |-> t, args |-> args,
                    q |-> FlattenSeq([i \in DOMAIN h |-> IF i = 1 THEN <<h[i]>> ELSE g \o <<h[i]>>])
                          \o b \o <<"=">> \o a \o r.text \o t.text]

PickOffset ==
    /\ probe = Start
    /\ \E sign \in {-1, 1}, hour \in 0..20 \cup {99}, minute \in 0..99 :
          probe' = [kind |-> "offset", sign |-> sign, hour |-> hour, minute |-> minute]

Lengths == {0, 1, 250, 251, 252, 255, 256, 65535, 65536, 16777215, 16777216, 2147483647}
Rests == {<<>>, <<0>>, <<251>>, <<254, 1>>}

PickInt ==
    /\ probe = Start
    /\ \E n \in Lengths, rest \in Rests :
          probe' = [kind |-> "int", n |-> n, rest |-> rest]

\* A value of each type, and rows that go through the types; some columns are NULL.
Sample == [tiny |-> Integer(-1), short |-> Integer(-300), long |-> Integer(70000), longlong |-> Integer(-2),
           varstring |-> String(<<251, 254>>),
           datetime |-> [kind |-> "time", date |-> <<2024, 2, 29>>, clock |-> <<0, 0, 1>>, nsec |-> 0]]
TypeOrder == <<"varstring", "tiny", "datetime", "long", "short", "longlong">>
TypesOf(n, shift) == [i \in 1..n |-> TypeOrder[1 + ((i + shift) % Len(TypeOrder))]]
FewOf(n) == {S \in SUBSET (1..n) : Cardinality(S) <= 2}

PickRow ==
    /\ probe = Start
    /\ \E n \in {1, 5, 6, 7, 8, 13, 14, 15}, shift \in 0..5 : \E nulls \in FewOf(n) :
          LET types == TypesOf(n, shift) IN
          probe' = [kind |-> "row", types |-> types,
                    vals |-> [i \in 1..n |-> IF i \in nulls THEN Null ELSE Sample[types[i]]]]

PickTextRow ==
    /\ probe = Start
    /\ \E n \in 1..3 : \E vals \in [1..n -> {Null, String(<<>>), String(<<254>>), String([i \in 1..251 |-> 254])}] :
          probe' = [kind |-> "textrow", vals |-> vals]

AffectedRows == {0, 250, 251, 65536}
Infos == {<<>>, <<1>>, <<254, 9, 9>>}

PickTerminator ==
    /\ probe = Start
    /\ \E ok, track, more, changed \in BOOLEAN, affected \in AffectedRows, info \in Infos :
          /\ ~track => ~changed
          /\ probe' = [kind |-> "terminator", ok |-> ok, track |-> track, more |-> more, changed |-> changed,
                       affected |-> affected, info |-> info]

TimeYears == {1, 255, 256, 2024}
WallClocks == {<<0, 0, 0>>, <<0, 0, 1>>, <<0, 1, 0>>, <<23, 59, 59>>}
Nanoseconds == {0, 1, 999, 1000, 65536000, 999999999}

PickTime ==
    /\ probe = Start
    /\ \E y \in TimeYears, clock \in WallClocks, nsec \in Nanoseconds :
          probe' = [kind |-> "time", t |-> [kind |-> "time", date |-> <<y, 1, 1>>, clock |-> clock, nsec |-> nsec]]

Params == <<[kind |-> "bool", b |-> TRUE], String(<<7>>), Integer(-5), Sample.datetime, String(<<>>)>>
ParamsOf(n, shift) == [i \in 1..n |-> Params[1 + ((i + shift) % Len(Params))]]

PickExecute ==
    /\ probe = Start
    /\ \E n \in {1, 7, 8, 9, 16, 17}, shift \in 0..4 : \E nulls \in FewOf(n) :
          probe' = [kind |-> "execute",
                    args |-> [i \in 1..n |-> IF i \in nulls THEN Null ELSE ParamsOf(n, shift)[i]]]

\* Rows of a bulk execution: one type in each column, and no NULL in the first row.
PickBulk ==
    /\ probe = Start
    /\ \E rows \in 1..3, shift \in 0..4 : \E nulls \in SUBSET ((2..rows) \X (1..2)) :
          probe' = [kind |-> "bulk",
                    rows |-> [r \in 1..rows |-> [i \in 1..2 |-> IF <<r, i>> \in nulls THEN Null
                                                                ELSE ParamsOf(2, shift)[i]]]]

StampYears == {0, 1, 99, 100, 1900, 2000, 2023, 2024, 9999}
StampOffsets == {-780, -779, -60, -59, -1, 0, 1, 330, 840, 841}

PickStamp ==
    /\ probe = Start
    /\ \E y \in StampYears, m \in {0, 2, 4, 12, 13}, d \in {0, 1, 28, 29, 30, 31, 32},
          typ \in {"nano", "tz"}, off \in StampOffsets, name \in {0, 2} :
          /\ typ # "tz" => off = 0 /\ name = 0
          /\ probe' = [kind |-> "stamp", date |-> <<y, m, d>>, typ |-> typ, off |-> off, name |-> name]

Zones == [cuts : {<<a, b>> : a \in 1..4, b \in 3..8}, offs : [1..3 -> {-2, -1, 0, 2, 4, 5}]]

PickWall ==
    /\ probe = Start
    /\ \E zone \in Zones, wall \in -3..11 : /\ zone.cuts[1] < zone.cuts[2]
                                            /\ probe' = [kind |-> "wall", zone |-> zone, wall |-> wall]

Hosts == {<<>>, <<"h">>, <<"h", ":", "1">>, <<":", "1">>, <<"[", ":", ":", "x", "]", ":", "1">>,
          <<"h", ",", "g", ":", "1">>, <<"h", ":", "p">>}
\* The options, as written and as meant.
Options ==
    {[query |-> <<>>, timeout |-> 0, preset |-> "", tls |-> "off"],
     [query |-> "CONNECT TIMEOUT" :> <<"0s">> @@ "Timeout" :> <<"0s", "5">>, timeout |-> 5, preset |-> "", tls |-> "off"],
     [query |-> "timeout" :> <<"-1s">> @@ "TIMEOUT" :> <<"5s">>, timeout |-> -1, preset |-> "", tls |-> "off"],
     [query |-> "preset" :> <<"obclient">> @@ "tls" :> <<"skip-verify">> @@ "tls_ca" :> <<"f">>,
      timeout |-> 0, preset |-> "obclient", tls |-> "skip"],
     [query |-> "tls.ca" :> <<"f">>, timeout |-> 0, preset |-> "", tls |-> "verify"]}

PickDsn ==
    /\ probe = Start
    /\ \E form \in {"url", "opaque", "legacy"}, scheme \in Schemes,
          user \in {<<"u">>, <<"u", "@", "t">>}, database \in {<<>>, <<"d">>, <<"d", "/", "+">>},
          password \in {<<>>, <<"p">>, <<"p", "@", ":">>, <<":", "/", "/">>, <<" ", "%", "+">>},
          host \in Hosts, options \in Options, env \in {"", "5s", "0s", "x"} :
          /\ form = "legacy" => scheme = "oceanbase" /\ Len(database) < 2
          /\ probe' = [kind |-> "dsn", form |-> form, scheme |-> scheme, user |-> user, password |-> password,
                       database |-> database, host |-> host, options |-> options, env |-> env]

Next == \/ Type \/ Bind \/ PickInsert \/ PickDsn \/ PickZone \/ PickOffset \/ PickInt \/ PickRow \/ PickTextRow \/ PickTerminator
        \/ PickTime \/ PickExecute \/ PickBulk \/ PickStamp \/ PickWall

Spec == Init /\ [][Next]_probe

(***************************************************************************)
(* Properties of Text.                                                     *)
(***************************************************************************)
\* The comments of a text by the scanner of params.go: each becomes a space, the newline
\* after a line comment stays.
WithoutComments(q) ==
    LET f == Scan(q)
        First(i) == IF f[i].second THEN i - 1 ELSE i
        InComment(i) == LET j == First(i) IN
            /\ {f[j].st, f[j + 1].st} \cap {"line", "block"} # {}
            /\ ~(f[i].st = "line" /\ q[i] = "\n")
        Opens(i) == ~f[i].second /\ f[i].st = "normal"
    IN FlattenSeq([i \in DOMAIN q |-> IF ~InComment(i) THEN <<q[i]>>
                                      ELSE IF Opens(i) THEN <<" ">> ELSE <<>>])

\* Texts that both scanners are meant for: no backticks, two dashes only before a space
\* or the end, no block comment left open.
Comparable(q) ==
    LET f == Scan(q) IN
    /\ ~Contains(q, Backtick)
    /\ f[Len(q) + 1].st # "block"
    /\ \A i \in DOMAIN q : f[i].st = "normal" /\ ~f[i].second /\ q[i] = "-" /\ At(q, i + 1) = "-"
                           => At(q, i + 2) \in Space \cup {NoSym}

\* The two scanners of the driver agree on what is a comment: stripSQLComments, which
\* finds time zone statements, and interpolateParams, which finds placeholders.
ScannersAgree ==
    probe.kind = "text" /\ Comparable(probe.q) => StripSQLComments(probe.q) = WithoutComments(probe.q)

\* A placeholder whose literal runs into its neighbours: quotes merge, minus signs make
\* a comment.
Glued(q, i, arg) ==
    \/ {At(q, i - 1), At(q, i + 1)} \cap {"'", "?"} # {}
    \/ arg.kind = "negative" /\ At(q, i - 1) = "-"

\* The text around the arguments is scanned as it was before, no placeholder is left or
\* made, and a string reads back as it was given.  Without an argument for each placeholder,
\* and only those, there is no text.
StaysWhole(q, args) ==
    LET f == Scan(q)
        n == Counts(q)
        holes == {i \in DOMAIN q : PlaceholderAt(q, f, i)}
        pieces == Pieces(q, args)
        t == InterpolateParams(q, args)
        g == Scan(t)
        New(i) == Len(FlattenSeq(SubSeq(pieces, 1, i - 1))) + 1
    IN IF CountPlaceholders(q) # Len(args) THEN t = Refused
       ELSE (\A i \in holes : ~Glued(q, i, args[n[i]])) =>
            /\ \A i \in DOMAIN q : g[New(i)] = f[i]
            /\ CountPlaceholders(t) = 0
            /\ \A i \in holes : args[n[i]].kind = "string" =>
                  /\ Closing(pieces[i]) = Len(pieces[i])
                  /\ Undouble(SubSeq(pieces[i], 2, Len(pieces[i]) - 1), "'") = args[n[i]].text

\* Interpolated arguments stay whole, for every query that is typed and every choice of
\* arguments that interpolateParams is given for it.
ArgumentsStayWhole == probe.kind = "bound" => StaysWhole(probe.q, probe.args)

\* The scanner finds exactly one placeholder for each value, and a name reads back.
StayNames(table, columns, rows) ==
    LET t == InsertText(table, columns, rows)
        name == QuoteIdent(table)
    IN /\ CountPlaceholders(t) = Len(columns) * rows
       /\ Scan(t)[Len(t) + 1].st = "normal"
       /\ name # table => /\ Closing(name) = Len(name)
                          /\ Undouble(SubSeq(name, 2, Len(name) - 1), "\"") = table

\* Names cannot add to or hide the placeholders of BulkInsert, whatever the table and the
\* columns are called.
NamesStayNames == probe.kind = "insert" => StayNames(probe.table, probe.columns, probe.rows)

\* A change of the session time zone that the server accepted is never overlooked,
\* however it is laid out: the driver takes over the zone, or retires the connection if it
\* cannot tell.  Other statements are left alone.  Offsets are taken over exactly in the
\* range of the server, -12:59 to +13:00.
ZoneChangeIsSeen ==
    /\ probe.kind = "zone" =>
          LET arg == probe.args
              zone == IF probe.right.zone # "argument" THEN probe.right.zone
                      ELSE IF arg # <<>> /\ arg[1].string THEN arg[1].text[1] ELSE "none"
          IN UpdateSessionTimeZone(probe.q, arg) =
               IF Words(probe.head) \notin ZoneTargets THEN Ignored
               ELSE IF probe.tail.same /\ zone # "none" THEN <<zone>> ELSE Retired
    /\ probe.kind = "offset" =>
          LET minutes == probe.sign * (60 * probe.hour + probe.minute) IN
          ParseOffset(probe.sign, probe.hour, probe.minute) =
              IF probe.minute < 60 /\ minutes \in -779..780 THEN <<60 * minutes>> ELSE <<>>

(***************************************************************************)
(* Properties of Codec.                                                    *)
(***************************************************************************)
\* The server's side of a binary row: header, bitmap from bit 2 on, values.
Bitmap(vals, first) ==
    [b \in 1..(Len(vals) + first + 7) \div 8 |->
        FoldLeft(LAMBDA acc, i : IF vals[i] = Null /\ (i - 1 + first) \div 8 = b - 1
                                 THEN acc + 2 ^ ((i - 1 + first) % 8) ELSE acc, 0, [i \in DOMAIN vals |-> i])]
ServerValue(v, typ) ==
    IF v = Null THEN <<>>
    ELSE IF v.kind = "int" THEN LE(v.n, Widths[typ])
    ELSE IF v.kind = "string" THEN PutLengthEncodedString(v.s)
    ELSE <<7>> \o LE(v.date[1], 2) \o Tail(v.date) \o v.clock
ServerRow(vals, types) ==
    <<0>> \o Bitmap(vals, 2) \o FlattenSeq([i \in DOMAIN vals |-> ServerValue(vals[i], types[i])])

\* The server's text rows and terminators.
ServerTextRow(vals) ==
    FlattenSeq([i \in DOMAIN vals |-> IF vals[i] = Null THEN <<251>> ELSE PutLengthEncodedString(vals[i].s)])
ServerTrailer(p) ==
    IF ~p.track THEN p.info
    ELSE IF p.changed THEN PutLengthEncodedString(p.info) \o PutLengthEncodedString(<<0, 1, 9>>)
    ELSE IF p.info = <<>> THEN <<>> ELSE PutLengthEncodedString(p.info)
ServerTerminator(p) ==
    LET status == (IF p.more THEN 8 ELSE 0) + (IF p.changed THEN 16384 ELSE 0) + 2 IN
    IF ~p.ok THEN <<254, 0, 0>> \o LE(status, 2)
    ELSE <<254>> \o PutLengthEncodedInt(p.affected) \o <<0>> \o LE(status, 2) \o <<0, 0>> \o ServerTrailer(p)

\* What the server sends in a result set is what the application gets.  A length reads
\* back whatever follows it, is refused when cut short, and never starts like a NULL or an
\* error; text and binary rows with NULLs anywhere are read column for column, and a
\* binary row is refused when a byte is missing or left over.
RowsReadBack ==
    /\ probe.kind = "int" =>
          LET b == PutLengthEncodedInt(probe.n) IN
          /\ \A k \in 0..Len(b) :
                ReadLengthEncodedInt(IF k = Len(b) THEN b \o probe.rest ELSE SubSeq(b, 1, k))
                = IF k = Len(b) THEN Number(probe.n, Len(b)) ELSE Fail
          /\ b[1] \notin {251, 255}
    /\ probe.kind = "textrow" =>
          ParseTextRow(ServerTextRow(probe.vals), Len(probe.vals)) = [ok |-> TRUE, vals |-> probe.vals]
    /\ probe.kind = "row" =>
          LET b == ServerRow(probe.vals, probe.types) IN
          \A k \in 0..Len(b) + 1 :
              ParseBinaryRow(SubSeq(Append(b, 0), 1, k), probe.types)
              = IF k = Len(b) THEN [ok |-> TRUE, vals |-> probe.vals] ELSE Fail

\* Rows and the end of the rows are told apart: the terminator is recognised in both
\* modes, with its MORE_RESULTS flag, and no row of less than 16 MB is taken for one.
TerminatorsToldApart ==
    /\ probe.kind = "terminator" =>
         LET b == ServerTerminator(probe) IN
         /\ IsResultSetTerminatorForMode(b, probe.ok, probe.track)
         /\ ResultSetTerminatorHasMoreResults(b, probe.track) = probe.more
    /\ probe.kind = "row" => \A ok, track \in BOOLEAN :
         ~IsResultSetTerminatorForMode(ServerRow(probe.vals, probe.types), ok, track)
    /\ probe.kind = "textrow" => \A ok, track \in BOOLEAN :
         ~IsResultSetTerminatorForMode(ServerTextRow(probe.vals), ok, track)

\* How a server takes values one by one, each by its type.
Take(acc, typ, isNull) ==
    IF isNull THEN [acc EXCEPT !.vals = Append(@, Null)]
    ELSE LET r == ParseBinaryValue(acc.rest, typ) IN
         IF r.ok THEN [rest |-> From(acc.rest, r.used + 1), vals |-> Append(acc.vals, r.v)] ELSE acc
AsRead(v) == IF v.kind = "bool" THEN Integer(IF v.b THEN 1 ELSE 0)
             ELSE IF v.kind = "time" THEN [v EXCEPT !.nsec = (@ \div 1000) * 1000] ELSE v

\* An execution: NULLs by the bitmap, the others in order by their types.
ServerExecute(w, n) ==
    LET Param(acc, i) == Take(acc, w.types[i], Bit(w.nulls[1 + (i - 1) \div 8], (i - 1) % 8))
    IN FoldLeftDomain(Param, [rest |-> w.values, vals |-> <<>>], [i \in 1..n |-> i])
\* A bulk execution: a byte says NULL or not, columns by the types of the first row.
ServerBulk(w, n) ==
    LET Param(acc, i) == IF acc.rest = <<>> THEN acc
                         ELSE Take([acc EXCEPT !.rest = Tail(@)], w.types[1 + ((i - 1) % Len(w.types))], acc.rest[1] = 1)
    IN FoldLeftDomain(Param, [rest |-> w.values, vals |-> <<>>], [i \in 1..n |-> i])
Exactly(args) == [rest |-> <<>>, vals |-> [i \in DOMAIN args |-> AsRead(args[i])]]

\* What the server reads of an execution is what was given, and nothing is left over.
ExecuteArrives(args) ==
    LET w == WriteExecute(args) IN
    /\ Len(w.nulls) = (Len(args) + 7) \div 8
    /\ ServerExecute(w, Len(args)) = Exactly(args)
BulkArrives(rows) ==
    LET flat == FlattenSeq(rows) IN
    ServerBulk(WriteBulk(rows), Len(flat)) = Exactly(flat)

\* The arguments of an execution (WriteExecute), and of a bulk execution whose columns have one
\* type each and no NULL in the first row, arrive as they were given, and nothing is left over; a
\* time keeps its date and its clock, to the microsecond (AppendBinaryTime).
ParametersArrive ==
    /\ probe.kind = "execute" => ExecuteArrives(probe.args)
    /\ probe.kind = "bulk" => BulkArrives(probe.rows)
    /\ probe.kind = "time" =>
          LET b == AppendBinaryTime(probe.t) IN
          ParseBinaryTime(b) = [ok |-> TRUE, used |-> Len(b), v |-> AsRead(probe.t)]

(***************************************************************************)
(* Properties of OracleTime.                                               *)
(***************************************************************************)
\* The server's time stamp: signed hour and minute, two strings with their lengths.
Truncated(n, d) == IF n < 0 THEN -((-n) \div d) ELSE n \div d
ServerStamp(p) ==
    <<p.date[1] \div 100, p.date[1] % 100, p.date[2], p.date[3], 23, 0, 59>> \o LE(999999999, 4) \o <<9>> \o
    (IF p.typ # "tz" THEN <<>>
     ELSE LET h == Truncated(p.off, 60) IN
          LE(h, 1) \o LE(p.off - 60 * h, 1) \o <<p.name>> \o [i \in 1..p.name |-> 65] \o <<1, 66>>)

\* A time stamp of the server is decoded to its date, clock and offset, also between -00:59
\* and -00:01 and on leap days; impossible dates, offsets out of range, and payloads that
\* are cut short or too long are refused.
StampReadsBack ==
    probe.kind = "stamp" =>
        LET b == ServerStamp(probe)
            possible == /\ probe.date[1] >= 1 /\ probe.date[2] \in 1..12
                        /\ probe.date[3] \in 1..DaysInMonth(probe.date[1], probe.date[2])
                        /\ probe.off \in -779..840
        IN /\ ParseOracleTime(b, probe.typ) =
                IF possible THEN [ok |-> TRUE, date |-> probe.date, clock |-> <<23, 0, 59>>,
                                  nsec |-> 999999999, offset |-> probe.off] ELSE Fail
           /\ ParseOracleTime(Front(b), probe.typ) = Fail
           /\ ParseOracleTime(Append(b, 0), probe.typ) = Fail

\* A zone that keeps each offset at least as long as its offsets are and as they differ: time.Date
\* corrects its first guess only once, and ZoneBounds is asked for the intervals beside it only.
Steady(zone) ==
    \A i \in DOMAIN zone.cuts : i + 1 \in DOMAIN zone.cuts =>
        \A j, k \in DOMAIN zone.offs :
            /\ Abs(zone.offs[j]) <= zone.cuts[i + 1] - zone.cuts[i]
            /\ zone.offs[j] - zone.offs[k] <= zone.cuts[i + 1] - zone.cuts[i]

\* A local wall clock is decoded only if it names one instant: one that the zone skips or
\* repeats is refused, in zones that are steady.
LocalTimeUnambiguous ==
    probe.kind = "wall" =>
        LET zone == probe.zone
            instants == {t \in -8..20 : Wall(zone, t) = probe.wall}
        IN Steady(zone) => OracleTimeInLocation(zone, probe.wall) =
                        IF Cardinality(instants) = 1 THEN [ok |-> TRUE, t |-> CHOOSE t \in instants : TRUE] ELSE Fail

(***************************************************************************)
(* Properties of Dsn.                                                      *)
(***************************************************************************)
\* How a user writes a DSN in each form, with every field escaped.
Escape(s) == [i \in DOMAIN s |-> IF \E e \in DOMAIN Escapes : Escapes[e] = s[i]
                                 THEN CHOOSE e \in DOMAIN Escapes : Escapes[e] = s[i] ELSE s[i]]
Written(p) ==
    LET names == Escape(p.user) \o <<":">> \o Escape(p.password) IN
    [query |-> p.options.query,
     text |-> IF p.form = "legacy"
              THEN names \o <<"@", "tcp", "(">> \o p.host \o <<")", "/">> \o p.database
              ELSE <<p.scheme, ":">> \o (IF p.form = "url" THEN <<"/", "/">> ELSE <<>>)
                   \o names \o <<"@">> \o p.host \o <<"/">> \o Escape(p.database)]

\* The addresses that are meant, with the defaults.
Meant(host) == CASE host = <<>>                     -> <<DefaultAddr>>
                 [] host = <<"h">>                  -> <<<<"h", ":", "2881">>>>
                 [] host = <<":", "1">>             -> <<<<"127.0.0.1", ":", "1">>>>
                 [] host = <<"h", ",", "g", ":", "1">> -> <<<<"h", ":", "2881">>, <<"g", ":", "1">>>>
                 [] OTHER                           -> <<host>>

\* A DSN means the same in each of its three forms: special characters in names and
\* passwords, addresses and their defaults, options by alias and case arrive as they were
\* meant, and there is one way to read it.
DsnReadsBack ==
    probe.kind = "dsn" =>
        ParseDSN(Written(probe), probe.env) =
            IF Contains(probe.host, "p") THEN {NotOk}
            ELSE {[ok |-> TRUE,
                   c |-> [addrs |-> Meant(probe.host), addr |-> Meant(probe.host)[1], user |-> probe.user,
                          password |-> probe.password, database |-> probe.database,
                          timeout |-> IF probe.options.timeout # 0 THEN probe.options.timeout
                                      ELSE IF probe.env = "5s" THEN 5 ELSE DefaultTimeout,
                          preset |-> IF probe.form # "legacy" /\ probe.scheme = "oboracle" THEN "oboracle"
                                     ELSE IF probe.options.preset = "" THEN "default" ELSE probe.options.preset,
                          mode |-> "auto", tls |-> probe.options.tls,
                          ca |-> IF probe.options.tls = "off" THEN "" ELSE "f"]]}

\* Connector.Connect normalises the shared configuration again for each connection, while
\* others dial with it: that changes nothing.
NormalizeIsStable ==
    probe.kind = "dsn" =>
        \A r \in ParseDSN(Written(probe), probe.env) : r.ok =>
            \A env \in {"", "5s", "0s", "x"} : Normalize(r.c, env) = r
=============================================================================
