-------------------------------- MODULE Text --------------------------------
(***************************************************************************)
(* What the driver reads in the text of a statement: placeholders          *)
(* (params.go) and changes of the session time zone (session_timezone.go). *)
(*                                                                         *)
(* A text is a sequence of symbols: the characters the scanners tell apart *)
(* are symbols of their own, a word or a number is one symbol.  Upper and  *)
(* lower case are not told apart.                                          *)
(***************************************************************************)
EXTENDS Integers, SequencesExt

NoSym == ""
Backtick == "backtick"
At(q, i) == IF i \in DOMAIN q THEN q[i] ELSE NoSym
Space == {" ", "\n"}
IsSpace(c) == c \in Space

(***************************************************************************)
(* params.go: the scanner of interpolateParams and countPlaceholders.      *)
(***************************************************************************)
One(st) == [st |-> st, second |-> FALSE]
Two(st) == [st |-> st, second |-> TRUE]

\* One iteration in state st on symbol c with d after it: the next state, and
\* whether d is consumed too.
Step(st, c, d) ==
    IF st = "normal"
    THEN IF c = "'" THEN One("single")
         ELSE IF c = "\"" THEN One("double")
         ELSE IF c = Backtick THEN One("backtick")
         ELSE IF c = "#" THEN One("line")
         ELSE IF c = "-" /\ d = "-" THEN Two("line")
         ELSE IF c = "/" /\ d = "*" THEN Two("block")
         ELSE One("normal")
    ELSE IF st = "single" THEN IF c # "'" THEN One(st) ELSE IF d = "'" THEN Two(st) ELSE One("normal")
    ELSE IF st = "double" THEN IF c = "\"" THEN One("normal") ELSE One(st)
    ELSE IF st = "backtick" THEN IF c = Backtick THEN One("normal") ELSE One(st)
    ELSE IF st = "line" THEN IF c = "\n" THEN One("normal") ELSE One(st)
    ELSE IF c = "*" /\ d = "/" THEN Two("normal") ELSE One(st)

Advance(p, c, d) == IF p.second THEN One(p.st) ELSE Step(p.st, c, d)

\* The state before each symbol and after the last; second: consumed with the one before.
Scan(q) ==
    LET f[i \in 1..Len(q) + 1] == IF i = 1 THEN One("normal") ELSE Advance(f[i - 1], q[i - 1], At(q, i))
    IN f

PlaceholderAt(q, f, i) == q[i] = "?" /\ f[i] = One("normal")
\* The placeholders among the first i symbols, as argPos and count have them.
Counts(q) ==
    LET f == Scan(q)
        n[i \in 0..Len(q)] == IF i = 0 THEN 0 ELSE IF PlaceholderAt(q, f, i) THEN n[i - 1] + 1 ELSE n[i - 1]
    IN n
CountPlaceholders(q) == Counts(q)[Len(q)]

\* A text between quotes, with the quotes in it doubled.
Quoted(s, quote) ==
    <<quote>> \o FlattenSeq([i \in DOMAIN s |-> IF s[i] = quote THEN <<quote, quote>> ELSE <<s[i]>>]) \o <<quote>>

QuoteStringPlain(s) == <<"'">> \o s \o <<"'">>
QuoteString(s) == Quoted(s, "'")

\* literal: [kind, text]; digits, hexadecimal digits and keywords are the symbol X.
Literal(arg) ==
    IF arg.kind = "word" THEN <<"X">>                \* NULL, numbers, true and false
    ELSE IF arg.kind = "negative" THEN <<"-", "X">>
    ELSE IF arg.kind = "bytes" THEN <<"X", "(", "'", "X", "'", ")">>
    ELSE IF arg.kind = "string" THEN QuoteString(arg.text)
    ELSE <<"X", " ">> \o QuoteString(<<"X">>)        \* a time

\* The piece of the result that each symbol of the query becomes.
Pieces(q, args) ==
    LET f == Scan(q)
        n == Counts(q)
    IN [i \in DOMAIN q |-> IF PlaceholderAt(q, f, i) THEN Literal(args[n[i]]) ELSE <<q[i]>>]

\* interpolateParams: the text, or Refused if there are too few or too many arguments.
Refused == <<"refused">>
InterpolateParams(q, args) ==
    IF Len(args) # CountPlaceholders(q) THEN Refused ELSE FlattenSeq(Pieces(q, args))

(***************************************************************************)
(* bulk.go: the text of an INSERT.                                         *)
(***************************************************************************)
Alpha == {"X", "Y"}
Digit == {"1"}
\* isSimpleIdent, on the letters and digits of Alpha and Digit.
IsSimpleIdent(name) ==
    /\ name # <<>> /\ name[1] \in Alpha
    /\ \A i \in DOMAIN name : name[i] \in Alpha \cup Digit \cup {"_"}

QuoteIdentPlain(name) == IF IsSimpleIdent(name) THEN name ELSE <<"\"">> \o name \o <<"\"">>
QuoteIdent(name) == IF IsSimpleIdent(name) THEN name ELSE Quoted(name, "\"")

Listed(items) == FlattenSeq([i \in DOMAIN items |-> IF i = 1 THEN items[i] ELSE <<",", " ">> \o items[i]])

\* bulkInsertRewrite, and with one row tryNativeBulkInsert: the text for n rows.
InsertText(table, columns, n) ==
    LET row == <<"(">> \o Listed([i \in DOMAIN columns |-> <<"?">>]) \o <<")">> IN
    <<"INSERT", " ", "INTO", " ">> \o QuoteIdent(table) \o <<" ", "(">>
    \o Listed([i \in DOMAIN columns |-> QuoteIdent(columns[i])]) \o <<")", " ", "VALUES", " ">>
    \o Listed([r \in 1..n |-> row])

(***************************************************************************)
(* session_timezone.go.                                                    *)
(***************************************************************************)
\* stripSQLComments, outside and inside of what it tells apart; e follows d.
StripStep(st, c, d, e) ==
    CASE st = "normal" /\ c = "'"                         -> One("single")
      [] st = "normal" /\ c = "\""                        -> One("double")
      [] st = "normal" /\ c = "/" /\ d = "*"              -> Two("block")
      [] st = "normal" /\ c = "-" /\ d = "-" /\ e \in Space \cup {NoSym} -> Two("line")
      [] st = "normal" /\ c = "#"                         -> One("line")
      [] st = "single" /\ c = "'"                         -> IF d = c THEN Two(st) ELSE One("normal")
      [] st = "double" /\ c = "\""                        -> IF d = c THEN Two(st) ELSE One("normal")
      [] st = "block" /\ c = "*" /\ d = "/"               -> Two("normal")
      [] OTHER                                            -> One(st)

ResumesInBlock(st, c, d) == st = "block" /\ d = NoSym
\* The newline after a line comment is text again; so is the last symbol of a block
\* comment that does not end.
Resumes(st, c, d) == (st = "line" /\ c = "\n") \/ (st = "block" /\ d = NoSym)

StripSQLComments(q) ==
    LET Comment == {"line", "block"}
        Iterate(a, i) ==
            LET st == IF Resumes(a.st, q[i], At(q, i + 1)) THEN "normal" ELSE a.st
                n == StripStep(st, q[i], At(q, i + 1), At(q, i + 2))
            IN IF a.second THEN [a EXCEPT !.second = FALSE]
               ELSE [st |-> n.st, second |-> n.second,
                     out |-> a.out \o (IF n.st \in Comment THEN (IF st = "normal" THEN <<" ">> ELSE <<>>)
                                       ELSE IF st \in Comment THEN <<>>
                                       ELSE SubSeq(q, i, IF n.second THEN i + 1 ELSE i))]
    IN FoldLeftDomain(Iterate, [st |-> "normal", second |-> FALSE, out |-> <<>>], q).out

\* strings.TrimSpace, TrimSuffix(q, ";") and Fields.
TrimSpace(q) ==
    LET text == SelectInSeq(q, LAMBDA c : ~IsSpace(c)) IN
    IF text = 0 THEN <<>> ELSE SubSeq(q, text, SelectLastInSeq(q, LAMBDA c : ~IsSpace(c)))
TrimSemicolon(q) == IF IsSuffix(<<";">>, q) THEN Front(q) ELSE q
Fields(q) ==
    SelectSeq(FoldLeft(LAMBDA ws, c : IF IsSpace(c) THEN Append(ws, <<>>)
                                      ELSE [ws EXCEPT ![Len(ws)] = Append(@, c)], <<<<>>>>, q),
              LAMBDA w : w # <<>>)

Words(ws) == [i \in DOMAIN ws |-> <<ws[i]>>]
\* What may be assigned to.
ZoneTargets ==
    {Words(ws) : ws \in {<<"ALTER", "SESSION", "SET", "TIME_ZONE">>,
                         <<"ALTER", "SYSTEM", "SESSION", "SET", "TIME_ZONE">>,
                         <<"SET", "TIME_ZONE">>, <<"SET", "SESSION", "TIME_ZONE">>,
                         <<"SET", "@@TIME_ZONE">>, <<"SET", "@@SESSION.TIME_ZONE">>}}

\* The closing quote of a text that opens with one, or 0.
Closing(rest) ==
    LET q == rest[1]
        close[i \in 2..Len(rest) + 2] ==
            IF i > Len(rest) THEN 0
            ELSE IF rest[i] # q THEN close[i + 1]
            ELSE IF At(rest, i + 1) = q THEN close[i + 2]
            ELSE i
    IN close[2]

Undouble(s, q) ==
    LET from[i \in 1..Len(s) + 2] ==
            IF i > Len(s) THEN <<>>
            ELSE IF s[i] = q /\ At(s, i + 1) = q THEN <<q>> \o from[i + 2]
            ELSE <<s[i]>> \o from[i + 1]
    IN from[1]

NoZone == [ok |-> FALSE, parameter |-> FALSE, value |-> <<>>]
ZoneValue(v) == [ok |-> TRUE, parameter |-> FALSE, value |-> v]

\* sessionTimeZoneAssignmentFromQuery, right of the equals sign.
RightHandSide(rest) ==
    IF rest = <<"?">> THEN [ok |-> TRUE, parameter |-> TRUE, value |-> rest]
    ELSE IF Len(rest) >= 2 /\ rest[1] \in {"'", "\""}
    THEN LET i == Closing(rest) IN
         IF i = 0 \/ TrimSpace(SubSeq(rest, i + 1, Len(rest))) # <<>> THEN NoZone
         ELSE ZoneValue(Undouble(SubSeq(rest, 2, i - 1), rest[1]))
    ELSE IF rest = <<>> \/ \E i \in DOMAIN rest : IsSpace(rest[i]) THEN NoZone
    ELSE ZoneValue(rest)

SessionTimeZoneAssignment(query) ==
    LET q == TrimSpace(TrimSemicolon(TrimSpace(StripSQLComments(query))))
        equal == SelectInSeq(q, LAMBDA c : c = "=")
    IN IF equal > 1 /\ Fields(SubSeq(q, 1, equal - 1)) \in ZoneTargets
       THEN RightHandSide(TrimSpace(SubSeq(q, equal + 1, Len(q))))
       ELSE NoZone

Joined(ws) == FlattenSeq([i \in DOMAIN ws |-> IF i = 1 THEN ws[i] ELSE <<" ">> \o ws[i]])

MutationWithSpaceOnly(query) ==
    LET n == Joined(Fields(StripSQLComments(query))) IN
    \E t \in ZoneTargets : n = Joined(t) \/ IsPrefix(Joined(t) \o <<" ">>, n)
IsSessionTimeZoneMutation(query) ==
    LET n == Joined(Fields(StripSQLComments(query))) IN
    \E t \in ZoneTargets : \/ n = Joined(t)
                           \/ IsPrefix(Joined(t) \o <<" ">>, n)
                           \/ IsPrefix(Joined(t) \o <<"=">>, n)

\* parseSessionTimeZone: UTC and Z, or an offset in range; here on symbols, below on
\* the digits of an offset.
Decodable == {"UTC", "+01:00", "-12:59"}
Retired == <<"retired">>
Ignored == <<"ignored">>

\* updateSessionTimeZoneFromQuery, on an Oracle tenant, after the server accepted the
\* statement with these arguments [string, text]: the new location, or what happens.
UpdateSessionTimeZone(query, args) ==
    LET a == SessionTimeZoneAssignment(query)
        value == TrimSpace(IF a.parameter /\ args # <<>> THEN args[1].text ELSE a.value)
    IN IF ~a.ok THEN (IF IsSessionTimeZoneMutation(query) THEN Retired ELSE Ignored)
       ELSE IF a.parameter /\ ~(Len(args) = 1 /\ args[1].string) THEN Retired
       ELSE IF Len(value) = 1 /\ value[1] \in Decodable THEN value
       ELSE Retired

\* parseSessionTimeZone on sign, two digits, colon, two digits: <<>> or the offset.
ParseOffset(sign, hour, minute) ==
    IF \/ minute > 59
       \/ sign > 0 /\ (hour > 13 \/ (hour = 13 /\ minute # 0))
       \/ sign < 0 /\ hour > 12
    THEN <<>> ELSE <<sign * (hour * 3600 + minute * 60)>>
=============================================================================
