------------------------------- MODULE Values -------------------------------
(***************************************************************************)
(* One value on its way through the driver: an Arrow value is bound        *)
(* (bindForArray) into a column that bulk ingest created for its type      *)
(* (oracleTypeForArrow), stored, described (arrowTypeFor) and appended to  *)
(* an Arrow array again (makeAppender).  Two shorter ways start from a     *)
(* value the server has: a column that was there before, and an OUT bind   *)
(* of PL/SQL (outBindColumns).                                             *)
(*                                                                         *)
(* Integers keep a width, scaled down with everything that is measured by  *)
(* it: an int64 has Width bits and counts at most a few days of ticks, a   *)
(* tick being the nanosecond.  A number is an integer count of hundredths. *)
(* Text is its length.  NULL is <<>>, a month-day-nano interval is         *)
(* <<months, days, ticks>>, any other value is <<n>>.                      *)
(***************************************************************************)
EXTENDS Integers, Sequences, FiniteSetsExt

CONSTANTS
  Width,           \* bits of an int64: 64
  Mantissa53,      \* bits of a float64's mantissa: 53
  IntDigits,       \* digits of a NUMBER fetched as int64: 18
  MaxPrecision,    \* digits of a decimal128: 38
  SmallParts,      \* ms in a second, us in a ms, ns in a us: 1000
  ClockParts,      \* hours in a day, minutes in an hour, seconds in a minute
  YearDays,        \* days in a century, the first byte of a DATE
  MinDay, MaxDay,  \* the days an Oracle DATE can be: years -4712 to 9999
  MaxString,       \* conn.MaxStringSize
  Journeys         \* what is sent on its way: see ValuesInit

ASSUME ValuesAssumption ==
  /\ {Width, Mantissa53, IntDigits, MaxPrecision, SmallParts, ClockParts, YearDays, MaxString} \subseteq Nat \ {0}
  /\ MinDay \in Int /\ MaxDay \in Int
  /\ Mantissa53 < Width - 1 /\ IntDigits < MaxPrecision
  /\ \A p \in 1 .. IntDigits : 10^p <= 2^(Width - 1)
  /\ 10^(IntDigits + 1) > 2^(Width - 1)
  \* What fits a byte, as Byte is scaled.
  /\ ClockParts <= 4
  /\ -5 * YearDays < MinDay /\ MaxDay < 4 * YearDays

VARIABLES
  journey,  \* the Arrow type, or the column, and the options
  given,    \* the value that set out
  column,   \* the Oracle column: type, precision or length, scale
  bytes,    \* the value on the wire: see Bytes
  result,   \* the Arrow value that came back
  back,     \* its Arrow type
  stage     \* "start", "created", "bound", "stored", "described", and the ends

valuesVars == <<journey, given, column, bytes, result, back, stage>>

---------------------------------------------------------------------------
(* 64-bit arithmetic, and the division of Go, which rounds towards zero.   *)

Half == 2^(Width - 1)
Wrap(n) == ((n + Half) % (2 * Half)) - Half
Fits(n) == Wrap(n) = n
Quo(a, b) == IF a >= 0 THEN a \div b ELSE -((-a) \div b)
Rem(a, b) == a - b * Quo(a, b)
Byte(n) == n % 8    \* uint8, scaled: eight centuries, eight hours
Hundredths(n) == 100 * n
Abs(n) == IF n < 0 THEN -n ELSE n

\* A float64 has Mantissa53 bits of a large number.
Float(v) ==
  LET lost == Min({k \in 0 .. Width : Abs(v) < Hundredths(2^(Mantissa53 + k)) \/ k = Width})
      step == Hundredths(2^lost)
  IN  IF lost = 0 THEN v ELSE ((v + step \div 2) \div step) * step

Second == SmallParts * SmallParts * SmallParts
Minute == ClockParts * Second
Hour == ClockParts * Minute
Day == ClockParts * Hour

\* Ticks of a time unit; units are named by their fractional digits, 0 for
\* seconds to 3 for nanoseconds, three digits of Oracle's scale each.
Ticks(unit) == CASE unit = 0 -> Second [] unit = 1 -> SmallParts * SmallParts [] unit = 2 -> SmallParts [] unit = 3 -> 1

---------------------------------------------------------------------------
(* Types.  An Arrow type is a kind with two numbers: digits and scale, or  *)
(* unit and "has a time zone", or a width in bits.                         *)

Arrow(kind, p, s) == [kind |-> kind, p |-> p, s |-> s]
Oracle(type, p, s) == [type |-> type, p |-> p, s |-> s]

\* NUMBER with neither precision nor scale is described as scale -127.
NoPrecision == Oracle("NUMBER", 0, -127)

\* oracleTypeForArrow.  An integer type comes with its bits and digits.
oracleTypeForArrow(t, o) ==
  CASE t.kind \in {"int", "uint"} -> Oracle("NUMBER", t.s, 0)
    [] t.kind = "bool" -> IF o.boolean THEN Oracle("BOOLEAN", 0, 0) ELSE Oracle("NUMBER", 1, 0)
    [] t.kind = "decimal" -> IF t.p > MaxPrecision THEN NoPrecision ELSE Oracle("NUMBER", t.p, t.s)
    [] t.kind = "double" -> Oracle("DOUBLE", 0, 0)
    [] t.kind \in {"date32", "date64"} -> Oracle("DATE", 0, 0)
    [] t.kind = "timestamp" -> Oracle(IF t.s = 1 THEN "TIMESTAMP_TZ" ELSE "TIMESTAMP", 0, t.p)
    [] t.kind \in {"duration", "monthdaynano"} -> Oracle("INTERVAL_DS", 0, 3)
    [] t.kind = "text" -> IF o.lob THEN Oracle("CLOB", 0, 0) ELSE Oracle("VARCHAR2", o.length, 0)
    [] t.kind = "bytes" -> IF o.lob THEN Oracle("BLOB", 0, 0) ELSE Oracle("RAW", o.length, 0)

FitsInt64(c) == c.p > 0 /\ c.s = 0 /\ c.p <= IntDigits

\* numberArrowType.
numberArrowType(c, mode) ==
  LET exact == c.p > 0 /\ c.p <= MaxPrecision /\ c.s >= 0 /\ c.s <= c.p
  IN  CASE mode = "string" -> Arrow("text", 0, 0)
        [] mode = "double" -> Arrow("double", 0, 0)
        [] mode = "decimal" /\ exact -> Arrow("decimal", c.p, c.s)
        [] mode = "decimal" /\ ~exact /\ c.p = 0 /\ c.s = 0 -> Arrow("decimal", MaxPrecision, 0)
        [] mode = "decimal" /\ ~exact /\ ~(c.p = 0 /\ c.s = 0) -> Arrow("decimal", MaxPrecision, 1)
        [] mode = "auto" /\ FitsInt64(c) -> Arrow("int", Width, IntDigits)
        [] mode = "auto" /\ exact /\ ~FitsInt64(c) -> Arrow("decimal", c.p, c.s)
        [] OTHER -> Arrow("double", 0, 0)

\* timestampUnit: the digits the column has, none for a negative scale.
timestampUnit(scale) == IF scale < 0 THEN 0 ELSE scale

\* arrowTypeFor.
arrowTypeFor(c, o) ==
  CASE c.type = "NUMBER" -> numberArrowType(c, o.number)
    [] c.type = "DOUBLE" -> Arrow("double", 0, 0)
    [] c.type \in {"VARCHAR2", "CLOB"} -> Arrow("text", 0, 0)
    [] c.type \in {"RAW", "BLOB"} -> Arrow("bytes", 0, 0)
    [] c.type = "DATE" -> IF o.date = "date32" THEN Arrow("date32", 0, 0) ELSE Arrow("timestamp", 0, 0)
    [] c.type = "TIMESTAMP" -> Arrow("timestamp", timestampUnit(c.s), 0)
    [] c.type = "TIMESTAMP_TZ" -> Arrow("timestamp", timestampUnit(c.s), 1)
    [] c.type = "INTERVAL_DS" ->
         (CASE o.interval = "duration" -> Arrow("duration", timestampUnit(c.s), 0)
            [] o.interval = "string" -> Arrow("text", 0, 0)
            [] OTHER -> Arrow("monthdaynano", 0, 0))
    [] c.type = "BOOLEAN" -> Arrow("bool", 0, 0)

---------------------------------------------------------------------------
(* Bytes.  A number is itself (NumberCodec has its encoding), text its     *)
(* length; a date is a century byte, the day in it, the second of the day  *)
(* and the ticks; an interval is days, hours, minutes, seconds and ticks.  *)

\* EncodeDate of the instant t, in ticks: both year bytes are biased uint8.
EncodeDate(t) ==
  LET day == t \div Day
  IN  <<Byte(Quo(day, YearDays) + 4), Rem(day, YearDays), (t % Day) \div Second>>

\* Always the seven bytes of a DATE.
FaultyEncodeTimestamp(t) == EncodeDate(t)

\* EncodeTimestamp, EncodeTimestampTZ.
EncodeTimestamp(t) == Append(EncodeDate(t), t % Second)

\* DecodeDate, as the day and the second and tick of it.
DecodedDay(b) == (b[1] - 4) * YearDays + b[2]

\* Date.Unix: seconds, always exact.  Date.UnixNanos: an int64 of ticks.
Unix(b) == (DecodedDay(b) * Day) \div Second + b[3]
Instant(b) == Unix(b) * Second + IF Len(b) = 4 THEN b[4] ELSE 0
UnixNanos(b) == Wrap(Instant(b))

\* EncodeIntervalDS: bytes with a bias, except the days and the ticks.
EncodeIntervalDS(days, h, m, s, n) == <<days, Byte(h + 3), Byte(m + 3), Byte(s + 3), n>>
DecodeIntervalDS(b) == <<b[1], b[2] - 3, b[3] - 3, b[4] - 3, b[5]>>
IntervalTicks(b) ==
  LET d == DecodeIntervalDS(b) IN d[2] * Hour + d[3] * Minute + d[4] * Second + d[5]

\* Hours, minutes, seconds and ticks of n, each rounded towards zero.
SplitInterval(days, n) ==
  LET x == Rem(n, Hour)
      y == Rem(x, Minute)
  IN  EncodeIntervalDS(days, Quo(n, Hour), Quo(x, Minute), Quo(y, Second), Rem(y, Second))

\* bindForArray, a value that is not NULL.  An empty text is sent as NULL, and
\* a date64 as arrow-go's ToTime has it: its day, rounded towards zero.
bindForArray(t, v) ==
  CASE t.kind \in {"int", "uint", "bool"} -> <<Hundredths(v[1])>>
    [] t.kind \in {"decimal", "double"} -> v
    [] t.kind \in {"text", "bytes"} -> IF v[1] = 0 THEN <<>> ELSE v
    [] t.kind = "date32" -> EncodeDate(v[1] * Day)
    [] t.kind = "date64" -> EncodeDate(Quo(v[1] * Ticks(1), Day) * Day)
    [] t.kind = "timestamp" -> EncodeTimestamp(v[1] * Ticks(t.p))
    [] t.kind = "duration" ->
         LET d == Wrap(v[1] * Ticks(t.p)) IN SplitInterval(Quo(d, Day), Rem(d, Day))
    [] t.kind = "monthdaynano" -> SplitInterval(v[2], v[3])

\* A month is no part of an INTERVAL DAY TO SECOND.
BindRefused(t, v) == v # <<>> /\ t.kind = "monthdaynano" /\ v[1] # 0

\* Text longer than a VARCHAR2 can be is bound as LONG, other text as it is.
BoundAsLong(t, v) == t.kind \in {"text", "bytes"} /\ v # <<>> /\ v[1] > MaxString

---------------------------------------------------------------------------
(* The server: it refuses what does not fit the column, and rounds to its  *)
(* scale.                                                                  *)

HasScale(v, s) == v % 10^(2 - s) = 0

Holds(c, long, b) ==
  CASE c.type = "NUMBER" ->
         c.p > 0 /\ c.s \in -1 .. 2 => HasScale(b[1], c.s) /\ Abs(b[1] \div 10^(2 - c.s)) < 10^c.p
    [] c.type \in {"VARCHAR2", "RAW"} -> ~long /\ b[1] <= c.p
    [] c.type \in {"DATE", "TIMESTAMP", "TIMESTAMP_TZ"} -> DecodedDay(b) \in MinDay .. MaxDay
    [] c.type = "INTERVAL_DS" ->
         LET d == DecodeIntervalDS(b)
         IN  /\ \A i \in 2 .. 4 : Abs(d[i]) < ClockParts
             /\ (\A i \in 1 .. 5 : d[i] >= 0) \/ (\A i \in 1 .. 5 : d[i] <= 0)
    [] OTHER -> TRUE

---------------------------------------------------------------------------
(* makeAppender: the Arrow values that may come of the bytes, none if the  *)
(* appender fails.                                                         *)

\* ParseInt, or else ParseFloat for what is whole and in range; the largest
\* float that passes the test is one more than the largest int64, and what
\* that converts to is up to the processor.
AppendInt64(v) ==
  LET n == v \div 100
      f == Float(v)
      limit == Hundredths(Half)
  IN  CASE v % 100 = 0 /\ Fits(n) -> {<<n>>}
        [] ~(v % 100 = 0 /\ Fits(n)) /\ (f % 100 # 0 \/ Abs(f) > limit) -> {}
        [] OTHER -> IF f = limit THEN {<<-Half>>, <<Half - 1>>} ELSE {<<f \div 100>>}

\* decimal128.FromString rounds to the scale.
AppendDecimal(v, t) ==
  LET unit == IF t.s \in 0 .. 2 THEN 10^(2 - t.s) ELSE 1
      r == ((v + unit \div 2) \div unit) * unit
  IN  IF Abs(r \div unit) < 10^(t.p) THEN {<<r>>} ELSE {}

\* Seconds have a range of their own, finer units come from the nanoseconds.
AppendTimestamp(b, unit) ==
  IF unit = 0 THEN <<Unix(b)>> ELSE <<Quo(UnixNanos(b), Ticks(unit))>>

Appended(c, t, b) ==
  CASE c.type = "NUMBER" ->
         (CASE t.kind = "int" -> AppendInt64(b[1])
            [] t.kind = "double" -> {<<Float(b[1])>>}
            [] t.kind = "decimal" -> AppendDecimal(b[1], t)
            [] t.kind = "text" -> {b})
    [] c.type = "DOUBLE" -> {<<Float(b[1])>>}
    [] c.type = "BOOLEAN" -> {<<b[1] \div 100>>}
    [] c.type \in {"VARCHAR2", "CLOB", "RAW", "BLOB"} -> {b}
    [] c.type \in {"DATE", "TIMESTAMP", "TIMESTAMP_TZ"} ->
         IF t.kind = "date32" THEN {<<Quo(Unix(b), Day \div Second)>>} ELSE {AppendTimestamp(b, t.p)}
    [] c.type = "INTERVAL_DS" ->
         CASE t.kind = "duration" -> {<<Quo(Wrap(DecodeIntervalDS(b)[1] * Day + IntervalTicks(b)), Ticks(t.p))>>}
           [] t.kind = "monthdaynano" -> {<<0, DecodeIntervalDS(b)[1], IntervalTicks(b)>>}
           [] t.kind = "text" -> {<<0, DecodeIntervalDS(b)[1], IntervalTicks(b)>>}

\* outBindColumns: the column that stands for an OUT bind of Arrow type t.
outBindColumns(t, o) ==
  CASE t.kind \in {"int", "uint"} \/ (t.kind = "bool" /\ ~o.boolean) -> Oracle("NUMBER", IntDigits, 0)
    [] t.kind = "decimal" ->
         IF t.p <= MaxPrecision THEN Oracle("NUMBER", t.p, t.s) ELSE Oracle("NUMBER", 0, 0)
    [] t.kind = "timestamp" -> Oracle(IF t.s = 1 THEN "TIMESTAMP_TZ" ELSE "TIMESTAMP", 0, 3)
    [] t.kind \in {"duration", "monthdaynano"} -> Oracle("INTERVAL_DS", 0, 0)
    [] OTHER -> oracleTypeForArrow(t, o)

---------------------------------------------------------------------------
(* A journey has a way ("ingest", "column" or "out"), the Arrow type or    *)
(* the column it starts from, the options and the values it may carry.     *)

At(s) == stage = s

\* prepareIngestTarget writes the column's type into CREATE TABLE.
CreateColumn ==
  /\ At("start") /\ journey.way = "ingest"
  /\ column' = oracleTypeForArrow(journey.type, journey.options)
  /\ stage' = "created"
  /\ UNCHANGED <<journey, given, bytes, result, back>>

RefuseBind ==
  /\ At("created") /\ BindRefused(journey.type, given)
  /\ stage' = "refused"
  /\ UNCHANGED <<journey, given, column, bytes, result, back>>

BindValue ==
  /\ At("created") /\ ~BindRefused(journey.type, given)
  /\ bytes' = IF given = <<>> THEN <<>> ELSE bindForArray(journey.type, given)
  /\ stage' = "bound"
  /\ UNCHANGED <<journey, given, column, result, back>>

\* The row is stored, or its INSERT fails.
StoreValue ==
  /\ At("bound")
  /\ stage' = IF bytes = <<>> \/ Holds(column, BoundAsLong(journey.type, given), bytes) THEN "stored" ELSE "refused"
  /\ UNCHANGED <<journey, given, column, bytes, result, back>>

\* A column of the database, and a value of it.
SelectColumn ==
  /\ At("start") /\ journey.way = "column"
  /\ given # <<>> => Holds(journey.type, FALSE, given)
  /\ column' = journey.type
  /\ bytes' = given
  /\ stage' = "stored"
  /\ UNCHANGED <<journey, given, result, back>>

\* PL/SQL has set an OUT bind; no column was described for it.
ReturnBind ==
  /\ At("start") /\ journey.way = "out"
  /\ column' = outBindColumns(journey.type, journey.options)
  /\ bytes' = given
  /\ stage' = "stored"
  /\ UNCHANGED <<journey, given, result, back>>

\* arrowSink.ensure, recordFromOutBinds: the builder's type.
Describe ==
  /\ At("stored")
  /\ back' = arrowTypeFor(column, journey.options)
  /\ stage' = "described"
  /\ UNCHANGED <<journey, given, column, bytes, result>>

\* AppendNull, AppendValue.
Fetch ==
  /\ At("described")
  /\ IF bytes = <<>> THEN result' = <<>> ELSE result' \in Appended(column, back, bytes)
  /\ stage' = "fetched"
  /\ UNCHANGED <<journey, given, column, bytes, back>>

FetchFails ==
  /\ At("described") /\ bytes # <<>> /\ Appended(column, back, bytes) = {}
  /\ stage' = "failed"
  /\ UNCHANGED <<journey, given, column, bytes, result, back>>

\* Arrow types and values of theirs; a decimal has at most two decimal places here.
IsSent(t, v) ==
  CASE t.kind \in {"int", "uint"} -> t.s \in 1 .. MaxPrecision /\ v \in [1 .. 1 -> Int]
    [] t.kind = "bool" -> v \in {<<0>>, <<1>>}
    [] t.kind = "decimal" -> t.p \in Nat \ {0} /\ t.s \in -1 .. 2 /\ v \in [1 .. 1 -> Int]
    [] t.kind \in {"text", "bytes"} -> v \in [1 .. 1 -> Nat]
    [] t.kind = "timestamp" -> t.p \in 0 .. 3 /\ t.s \in {0, 1} /\ v \in [1 .. 1 -> Int]
    [] t.kind = "duration" -> t.p \in 0 .. 3 /\ v \in [1 .. 1 -> Int]
    [] t.kind = "monthdaynano" -> v \in [1 .. 3 -> Int]
    [] OTHER -> t.kind \in {"double", "date32", "date64"} /\ v \in [1 .. 1 -> Int]

\* Columns, and what the server sends of them.
IsStored(c, b) ==
  CASE c.type = "NUMBER" -> c.p \in 0 .. MaxPrecision /\ c.s \in {-127} \cup -1 .. 2 /\ b \in [1 .. 1 -> Int]
    [] c.type = "BOOLEAN" -> b \in {<<0>>, <<100>>}
    [] c.type = "DATE" -> b \in [1 .. 3 -> Int]
    [] c.type \in {"TIMESTAMP", "TIMESTAMP_TZ"} ->
         c.s \in 0 .. 3 /\ b \in [1 .. 4 -> Int] /\ b[4] \in 0 .. Second - 1 /\ b[4] % Ticks(c.s) = 0
    [] c.type = "INTERVAL_DS" -> c.s \in 0 .. 3 /\ b \in [1 .. 5 -> Int]
    [] OTHER -> c.type \in {"DOUBLE", "VARCHAR2", "CLOB", "RAW", "BLOB"} /\ b \in [1 .. 1 -> Int]

\* The column and the bytes a journey starts from may not yet be those it has.
ASSUME JourneysAssumption ==
  \A j \in Journeys :
    /\ j.way \in {"ingest", "column", "out"} /\ j.options.boolean \in BOOLEAN
    /\ \A v \in j.values :
         CASE j.way = "ingest" -> IsSent(j.type, v)
           [] j.way = "column" -> IsStored(j.type, v)
           [] j.way = "out" -> IsStored(outBindColumns(j.type, j.options), v)

ValuesInit ==
  /\ \E j \in Journeys :
       /\ journey = [way |-> j.way, type |-> j.type, options |-> j.options]
       /\ given \in j.values \cup {<<>>}
  /\ column = NoPrecision /\ bytes = <<>> /\ result = <<>> /\ back = Arrow("none", 0, 0)
  /\ stage = "start"

ValuesNext ==
  \/ CreateColumn \/ RefuseBind \/ BindValue \/ StoreValue \/ SelectColumn \/ ReturnBind
  \/ Describe \/ Fetch \/ FetchFails

ValuesSpec == ValuesInit /\ [][ValuesNext]_valuesVars

---------------------------------------------------------------------------
(* Properties.                                                             *)

\* What an Arrow value is worth: hundredths, a length, an instant or a time
\* span in ticks.
ArrowWorth(t, v) ==
  CASE t.kind \in {"int", "uint", "bool"} -> Hundredths(v[1])
    [] t.kind \in {"decimal", "double", "text", "bytes"} /\ Len(v) = 1 -> v[1]
    [] t.kind = "date32" -> v[1] * Day
    [] t.kind = "date64" -> v[1] * Ticks(1)
    [] t.kind \in {"timestamp", "duration"} -> v[1] * Ticks(t.p)
    [] OTHER -> v[2] * Day + v[3]

\* The same of a value that is on the server.
WireWorth(c, b) ==
  CASE c.type \in {"DATE", "TIMESTAMP", "TIMESTAMP_TZ"} -> Instant(b)
    [] c.type = "INTERVAL_DS" -> DecodeIntervalDS(b)[1] * Day + IntervalTicks(b)
    [] c.type = "BOOLEAN" -> b[1]
    [] OTHER -> b[1]

Worth == IF journey.way = "ingest" THEN ArrowWorth(journey.type, given) ELSE WireWorth(column, bytes)

\* What the value should come back as: in date32 mode, its day.
Expected == IF back.kind = "date32" THEN (Worth \div Day) * Day ELSE Worth

IsInstant == column.type \in {"DATE", "TIMESTAMP", "TIMESTAMP_TZ"}

\* Where the code does change a value.  A year the two date bytes cannot hold;
\* an instant that is no int64 of nanoseconds, though its unit is coarser; a
\* day rounded up before 1970; a date64 that is not the whole days Arrow asks
\* for; a time span that overflows, or has hours the
\* interval has no byte for; one returned by PL/SQL, cut down to seconds; a
\* number in a float64, or rounded for want of a precision.
YearWraps == IsInstant /\ journey.way = "ingest" /\ (Worth \div Day) \notin MinDay .. MaxDay
NanosWrap == IsInstant /\ back.kind = "timestamp" /\ back.p > 0 /\ ~Fits(Worth)
DayRoundsUp == back.kind = "date32" /\ Worth < 0 /\ Worth % Day # 0
PartOfDay == journey.way = "ingest" /\ journey.type.kind = "date64" /\ Worth % Day # 0
SentAs == IF journey.way = "ingest" THEN {journey.type.kind} ELSE {}
SpanOverflows ==
  /\ column.type = "INTERVAL_DS"
  /\ \/ ~Fits(Worth) /\ "duration" \in {back.kind} \cup SentAs
     \/ "monthdaynano" \in SentAs /\ Abs(given[3]) >= Day
SpanCut == column.type = "INTERVAL_DS" /\ back.kind = "duration" /\ Worth % Ticks(back.p) # 0
FloatRounds == back.kind = "double" /\ Abs(Worth) >= Hundredths(2^Mantissa53)
ScaleRounds == back.kind = "decimal" /\ (column.p = 0 \/ column.s # back.s \/ journey.way = "out")
IntRounds == back.kind = "int" /\ journey.way = "out" /\ (~Fits(Worth \div 100) \/ Worth % 100 # 0)
Changed ==
  \/ YearWraps \/ NanosWrap \/ DayRoundsUp \/ PartOfDay \/ SpanOverflows \/ SpanCut
  \/ FloatRounds \/ ScaleRounds \/ IntRounds

\* arrow_conv.go: a value that is fetched is the value that was bound, stored
\* or returned, in whatever type it comes back, the cases of Changed apart;
\* NULL and the empty text, and nothing else, come back as NULL.  The type
\* numberArrowType chooses can hold every value the server lets into a column:
\* a fetch fails only on a number whose column has no precision, or no scale a
\* decimal can have, in decimal mode.
SameValueBack ==
  /\ stage = "fetched" =>
       IF given = <<>> \/ bytes = <<>> THEN result = <<>> /\ (given = <<>> \/ given = <<0>>)
       ELSE result # <<>> /\ (Changed \/ ArrowWorth(back, result) = Expected)
  /\ stage = "failed" =>
       journey.way = "out" \/ (back.kind = "decimal" /\ (column.p = 0 \/ column.s \notin 0 .. column.p))

(* What README.md says and the code does not do.                           *)

\* README.md, type mapping: TIMESTAMP(n) is fetched as the timestamp of its
\* precision, so an instant such a timestamp can count comes back as it was.
TimestampsSurvive ==
  stage = "fetched" /\ IsInstant /\ given # <<>> /\ back.kind = "timestamp" /\ ~YearWraps
    /\ Fits(Worth \div Ticks(back.p)) => ArrowWorth(back, result) = Worth

=============================================================================
