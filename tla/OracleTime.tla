----------------------------- MODULE OracleTime -----------------------------
(***************************************************************************)
(* Oracle time stamps (internal/protocol/oracle_time.go): a payload of     *)
(* bytes to a wall clock and an offset, and a wall clock to an instant in  *)
(* a zone that changes its offset.                                         *)
(***************************************************************************)
EXTENDS Codec, FiniteSets

PayloadLength == 12

\* daysInMonth (time.Date normalises day 0 of the next month).
Leap(y) == y % 4 = 0 /\ (y % 100 # 0 \/ y % 400 = 0)
DaysInMonth(y, m) == IF m = 2 THEN (IF Leap(y) THEN 29 ELSE 28)
                     ELSE IF m \in {4, 6, 9, 11} THEN 30 ELSE 31

Abs(n) == IF n < 0 THEN -n ELSE n
Int8(byte) == Signed(<<byte>>)

\* oracleTimestampYear.
OracleTimestampYear(centuryByte, yearByte) ==
    LET century == Int8(centuryByte)
        year == Int8(yearByte)
        size == Abs(century) * 100 + Abs(year)
    IN IF century < 0 \/ year < 0 THEN -size ELSE size

OffsetSignOfHour(hour, minute) ==
    IF hour < 0 THEN -(Abs(hour) * 60 + Abs(minute)) ELSE Abs(hour) * 60 + Abs(minute)
\* Minutes east of UTC; the sign is in both bytes, or in the one that is not 0.
OffsetMinutes(hour, minute) ==
    IF hour < 0 \/ minute < 0 THEN -(Abs(hour) * 60 + Abs(minute))
    ELSE Abs(hour) * 60 + Abs(minute)

\* parseOracleTimeZone.
ParseOracleTimeZone(data) ==
    LET hour == Int8(data[13])
        minute == Int8(data[14])
        offset == OffsetMinutes(hour, minute)
        nameEnd == 16 + data[15]                \* place of the abbreviation's length
        payloadEnd == nameEnd + data[nameEnd]   \* last byte
    IN IF Len(data) < 14 THEN Fail
       ELSE IF minute \notin -59..59 THEN Fail
       ELSE IF hour # 0 /\ minute # 0 /\ (hour < 0) # (minute < 0) THEN Fail
       ELSE IF offset \notin -(12 * 60 + 59) .. 14 * 60 THEN Fail
       ELSE IF Len(data) < 15 THEN Fail
       ELSE IF Len(data) < nameEnd THEN Fail
       ELSE IF Len(data) # payloadEnd THEN Fail
       ELSE [ok |-> TRUE, offset |-> offset]

\* ParseOracleTime up to the location: the wall clock, and the offset of a TZ value.
\* Whether a stamp with local time zone has a session location to be read in (and is
\* refused if not) is a matter of the session: Pool!Follow.
ParseOracleTime(data, typ) ==
    LET date == <<OracleTimestampYear(data[1], data[2]), data[3], data[4]>>
        clock == SubSeq(data, 5, 7)
        nsec == UnLE(SubSeq(data, 8, 11))
        zone == IF typ = "tz" THEN ParseOracleTimeZone(data) ELSE [ok |-> TRUE, offset |-> 0]
    IN IF Len(data) < PayloadLength THEN Fail
       ELSE IF typ # "tz" /\ Len(data) # PayloadLength THEN Fail
       ELSE IF date[1] \notin 1..9999 \/ date[2] \notin 1..12 THEN Fail
       ELSE IF date[3] \notin 1..DaysInMonth(date[1], date[2]) THEN Fail
       ELSE IF clock[1] > 23 \/ clock[2] > 59 \/ clock[3] > 59 THEN Fail
       ELSE IF nsec >= 1000000000 \/ data[12] > 9 THEN Fail
       ELSE IF ~zone.ok THEN Fail
       ELSE [ok |-> TRUE, date |-> date, clock |-> clock, nsec |-> nsec, offset |-> zone.offset]

(***************************************************************************)
(* Zones: offset offs[1] before cuts[1], offs[i + 1] from cuts[i] on.      *)
(* Instants and offsets are counted in the same unit.                      *)
(***************************************************************************)
Interval(zone, t) == 1 + Cardinality({i \in DOMAIN zone.cuts : zone.cuts[i] <= t})
OffsetAt(zone, t) == zone.offs[Interval(zone, t)]
Wall(zone, t) == t + OffsetAt(zone, t)

\* time.Date (external): the offset at the wall clock read as UTC, corrected once.
GoDate(zone, wall) ==
    LET i == Interval(zone, wall)
        utc == wall - zone.offs[i]
    IN IF Interval(zone, utc) = i THEN utc ELSE wall - OffsetAt(zone, utc)

NeighbourBefore(zone, i) == {i - 1, i} \cap DOMAIN zone.offs
\* The intervals at zonePoints: the one of the candidate and those beside it (ZoneBounds).
Neighbours(zone, i) == {i - 1, i, i + 1} \cap DOMAIN zone.offs

\* oracleTimeInLocation: the instant, or Fail if there is none or more than one.
OracleTimeInLocation(zone, wall) ==
    LET candidate == GoDate(zone, wall)
        offsets == {zone.offs[i] : i \in Neighbours(zone, Interval(zone, candidate))}
        matches == {t \in {wall - o : o \in offsets} : Wall(zone, t) = wall}
    IN IF Wall(zone, candidate) # wall THEN Fail
       ELSE IF Cardinality(matches) # 1 THEN Fail
       ELSE [ok |-> TRUE, t |-> CHOOSE t \in matches : TRUE]
=============================================================================
