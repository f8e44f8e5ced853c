----------------------------- MODULE Conversions -----------------------------
(***************************************************************************)
(* Converting the values of a result into the buffers an application bound *)
(* (application_data_buffer.cpp, reached from iotsitewise_column.cpp), row  *)
(* by row of a rowset, and reading such a buffer back.                     *)
(*                                                                         *)
(* A number is kept in halves, so that 3 is 1.5; a moment is a day, a      *)
(* second of the day and a nanosecond (gmtime and timegm are external); a  *)
(* text is its number of characters and the number it spells, 0 if none.   *)
(* A byte has ByteBits bits, which scales the widths of the integers, as    *)
(* FloatBits and Precision scale what a float and a stream keep of a        *)
(* number.  Of the memory behind a binding the model keeps which row wrote *)
(* each byte last, and for each row what was written.                      *)
(***************************************************************************)
EXTENDS GetData, Integers, FiniteSets

CONSTANTS
  ByteBits,   \* bits of a byte, for the widths of the integers
  FloatBits,  \* bits of the significand of SQLREAL, 24
  Precision,  \* digits a stream writes of a floating number, 6
  SizeOfLong, \* sizeof(long): 4 on Windows, 8 on 64-bit Linux and macOS
  WcharSize,  \* sizeof(SQLWCHAR)
  Bindings,   \* the bindings the application makes
  Columns,    \* the columns: each the values its rows may have
  ElementBuffer,  \* BUFFER_SIZE, for the elements of an array or a row
  RowsetSize  \* rows of a rowset

VARIABLES
  column,     \* the column that is read
  binding,    \* the ApplicationDataBuffer: its type, buflen (len), and whether
              \* it has a buffer (data) and a reslen (ind)
  writer,     \* for each byte of the application's array, the row that wrote it
  cell,       \* for each row of the rowset, what its element holds
  indicator,  \* for each row, what its element of the indicator array holds
  outcome,    \* for each row, the value put and the ConversionResult
  elementOffset   \* rows put so far in this rowset

bufferVars ==
  <<column, binding, writer, cell, indicator, outcome, elementOffset>>

NoTotal == -4   \* SQL_NO_TOTAL
NullData == -1  \* SQL_NULL_DATA
Unset == -1000  \* the indicator has not been written
Nothing == [k |-> "nothing"]

\* ApplicationDataBuffer(): no column is bound.
Unbound == [type |-> "UNSUPPORTED", len |-> 0, data |-> FALSE, ind |-> FALSE]

-----------------------------------------------------------------------------
(* The types of a buffer *)

Signed == {"SIGNED_TINYINT", "SIGNED_SHORT", "SIGNED_LONG", "SIGNED_BIGINT"}
Unsigned == {"BIT", "UNSIGNED_TINYINT", "UNSIGNED_SHORT", "UNSIGNED_LONG",
             "UNSIGNED_BIGINT"}
IntTypes == Signed \cup Unsigned
LongTypes == {"SIGNED_LONG", "UNSIGNED_LONG"}
FloatTypes == {"FLOAT", "DOUBLE"}

\* The fields of SQL_INTERVAL_STRUCT that SetIntervalBufferValue fills.
IntervalFields ==
  [YEAR |-> {"year"}, MONTH |-> {"month"}, YEAR_TO_MONTH |-> {"year", "month"},
   DAY |-> {"day"}, HOUR |-> {"hour"}, MINUTE |-> {"minute"},
   SECOND |-> {"second"}, DAY_TO_HOUR |-> {"day", "hour"},
   DAY_TO_MINUTE |-> {"day", "hour", "minute"},
   HOUR_TO_MINUTE |-> {"hour", "minute"},
   HOUR_TO_SECOND |-> {"hour", "minute", "second"},
   MINUTE_TO_SECOND |-> {"minute", "second"},
   DAY_TO_SECOND |-> {"day", "hour", "minute", "second"}]
IntervalTypes == DOMAIN IntervalFields

BufferTypes ==
  IntTypes \cup FloatTypes \cup IntervalTypes
    \cup {"CHAR", "WCHAR", "BINARY", "DEFAULT", "TDATE", "TTIME", "TTIMESTAMP",
          "NUMERIC"}

\* Bytes a conversion to a type of fixed size writes.
SizeOf(type) ==
  CASE type \in {"BIT", "SIGNED_TINYINT", "UNSIGNED_TINYINT"} -> 1
    [] type \in {"SIGNED_SHORT", "UNSIGNED_SHORT"} -> 2
    [] type \in {"SIGNED_LONG", "UNSIGNED_LONG", "FLOAT"} -> 4
    [] type \in {"SIGNED_BIGINT", "UNSIGNED_BIGINT", "DOUBLE"} -> 8
    [] type \in {"TDATE", "TTIME"} -> 6
    [] type = "TTIMESTAMP" -> 16
    [] type = "NUMERIC" -> 19
    [] type \in IntervalTypes -> 28

\* Faulty: a timestamp is taken for a date.
GetElementSizeDate(b) ==
  IF b.type \in {"CHAR", "WCHAR", "BINARY"} THEN b.len
  ELSE IF b.type \in IntervalTypes \cup {"DEFAULT", "UNSUPPORTED"} THEN 0
  ELSE IF b.type = "TTIMESTAMP" THEN SizeOf("TDATE")
  ELSE SizeOf(b.type)

\* The distance from one row's element to the next.
GetElementSize(b) ==
  IF b.type \in {"CHAR", "WCHAR", "BINARY"} THEN b.len
  ELSE IF b.type \in IntervalTypes \cup {"DEFAULT", "UNSUPPORTED"} THEN 0
  ELSE SizeOf(b.type)

\* Where the element of a row begins (byteOffset is 0).
ApplyOffset(b, row) == GetElementSize(b) * row

-----------------------------------------------------------------------------
(* Numbers: C++ conversions between the integer types. *)

Quot(a, n) == IF a >= 0 THEN a \div n ELSE -((-a) \div n)
Abs(a) == IF a >= 0 THEN a ELSE -a

Modulus(type) == 2 ^ (ByteBits * SizeOf(type))
Lowest(type) == IF type \in Signed THEN -(Modulus(type) \div 2) ELSE 0
Highest(type) == Lowest(type) + Modulus(type) - 1
InRange(type, n) == Lowest(type) <= n /\ n <= Highest(type)

\* static_cast from an integer: the value modulo the width of the type.
Wrap(type, n) == ((n - Lowest(type)) % Modulus(type)) + Lowest(type)

\* static_cast of h halves to an integer type.  From a floating number that
\* does not fit the result is undefined.
Cast(type, h, floating) ==
  IF floating /\ ~InRange(type, Quot(h, 2))
    THEN Lowest(type) .. Highest(type)
    ELSE {Wrap(type, Quot(h, 2))}

\* Rounding to a multiple of unit, a tie to the even one.
RoundTo(unit, h) ==
  LET q == h \div unit
      r == h % unit
  IN  unit * (IF 2 * r > unit \/ (2 * r = unit /\ q % 2 = 1) THEN q + 1 ELSE q)

\* The distance of neighbouring floats at h halves (of up to 31 bits more
\* than a float keeps).
FloatUnit(h) ==
  2 ^ (CHOOSE e \in 0 .. 31 : /\ Abs(h) < 2 ^ (FloatBits + e)
                              /\ e = 0 \/ Abs(h) >= 2 ^ (FloatBits + e - 1))

\* static_cast of h halves to a numeric type, in halves.
StaticCast(type, h, floating) ==
  CASE type \in IntTypes -> {2 * n : n \in Cast(type, h, floating)}
    [] type = "FLOAT" -> {RoundTo(FloatUnit(h), h)}
    [] type = "DOUBLE" -> {h}

\* bits::DigitLength
DigitLength(n) ==
  CHOOSE d \in 1 .. 10 : (d = 1 \/ n >= 10 ^ (d - 1)) /\ (d = 10 \/ n < 10 ^ d)
WholeDigits(h) == DigitLength(Abs(h) \div 2)

\* What a stream writes of a number: an integer as it is, a floating number
\* rounded to Precision digits.
Streamed(h, floating) ==
  LET d == WholeDigits(h)
  IN  IF ~floating \/ d < Precision THEN h
      ELSE RoundTo(2 * 10 ^ (d - Precision), h)

\* Characters of a number in full: sign, digits and ".5".
NumberLength(h) ==
  (IF h < 0 THEN 1 ELSE 0) + WholeDigits(h) + (IF h % 2 = 1 THEN 2 ELSE 0)

\* Digits of the significand without the zeros at its end.
SignificantDigits(h) ==
  1 + Cardinality({i \in 1 .. Precision - 1 :
                     Abs(h) % (2 * 10 ^ (WholeDigits(h) - i)) # 0})

\* Characters of what a stream writes: a floating number with more than
\* Precision digits has an exponent ("1.2e+06").
StreamLength(h, floating) ==
  LET digits == SignificantDigits(h)
  IN  IF ~floating \/ WholeDigits(h) <= Precision THEN NumberLength(h)
      ELSE (IF h < 0 THEN 1 ELSE 0) + digits + (IF digits > 1 THEN 1 ELSE 0) + 4

\* The C++ type in which a value of a kind reaches PutNum.
KindType ==
  [boolean |-> "SIGNED_TINYINT", int |-> "SIGNED_LONG", double |-> "DOUBLE"]

\* A value of a row, by its kind.
IsValue(v) ==
  CASE v.k = "text" -> v.chars \in Nat /\ v.spells \in Int
    [] v.k \in {"double", "decimal"} -> v.h \in Int
    [] v.k \in {"boolean", "int"} ->
         /\ v.h \in Int /\ v.h % 2 = 0
         /\ InRange(KindType[v.k], v.h \div 2)
    [] v.k \in {"timestamp", "date", "time"} ->
         v.t \in [day : Int, tod : Int, ns : Int]
    [] v.k \in {"yearmonth", "daysecond"} -> v.chars \in Nat
    [] v.k \in {"array", "row"} -> v.elements \in Seq(Nat)
    [] OTHER -> v.k \in {"null", "untyped", "unset", "norow"}

ASSUME UnitsAssumption ==
  /\ ByteBits \in Nat \ {0} /\ WcharSize \in Nat \ {0}
  /\ FloatBits \in Nat \ {0} /\ Precision \in Nat \ {0, 1}
  /\ SizeOfLong \in {4, 8}
  /\ ElementBuffer \in Nat /\ RowsetSize \in Nat
\* The wide copy asserts that a length is a multiple of sizeof(SQLWCHAR).
ASSUME BindingsAssumption ==
  /\ Bindings \subseteq [type : BufferTypes, len : Nat, data : BOOLEAN,
                         ind : BOOLEAN]
  /\ \A b \in Bindings : b.type = "WCHAR" => b.len % WcharSize = 0
ASSUME ColumnsAssumption == \A c \in Columns : \A v \in c : IsValue(v)

-----------------------------------------------------------------------------
(* What a conversion does: its result, what it leaves in the indicator (or *)
(* Unset when it does not touch it), the content it writes and to which     *)
(* bytes, counted from the start of the element.                            *)

Did(res, ind, content, bytes) ==
  [res |-> res, ind |-> ind, content |-> content, bytes |-> bytes]

Unsupported == Did("UNSUPPORTED_CONVERSION", Unset, Nothing, {})

\* The first n bytes, when there is a buffer at all.
FirstBytes(b, n) == IF b.data THEN 0 .. n - 1 ELSE {}

\* A value of fixed size, whatever the buffer's length.
Fixed(b, res, content) ==
  Did(res, SizeOf(b.type), content, FirstBytes(b, SizeOf(b.type)))

\* A struct is filled without a look at the pointer.
Struct(b, res, content) ==
  IF b.data THEN Fixed(b, res, content) ELSE Did("CRASH", Unset, Nothing, {})

PutNull(b) ==
  IF b.ind THEN Did("SUCCESS", NullData, Nothing, {})
           ELSE Did("INDICATOR_NEEDED", Unset, Nothing, {})

\* PutStrToStrBuffer from the first character of a text: the indicator is
\* the length of what is left, or of everything when nothing is.  Without room
\* for a character nothing is written, not even the terminator.
PutStrToStrBuffer(b, wide, chars, of) ==
  LET size == IF wide THEN WcharSize ELSE 1
      copy == IF wide THEN Wide(chars, b.len \div size) ELSE Narrow(chars, b.len)
      kept == IF copy.put THEN copy.chars ELSE 0
  IN  IF ~b.data THEN Did("SUCCESS", chars * size, Nothing, {})
      ELSE IF chars = 0 THEN Did("NO_DATA", NoTotal, Nothing, {})
      ELSE Did(IF copy.truncated THEN "VARLEN_DATA_TRUNCATED" ELSE "SUCCESS",
               (IF copy.chars < chars THEN chars - copy.chars ELSE chars) * size,
               [k |-> "text", of |-> of, chars |-> kept],
               IF kept = 0 THEN {} ELSE 0 .. (kept + 1) * size - 1)

\* Faulty: a text as long as the buffer fits.
PutFormattedTight(b, n, of) ==
  IF ~b.data THEN Did("SUCCESS", n, Nothing, {})
  ELSE IF b.type = "CHAR"
    THEN Did(IF n > b.len THEN "VARLEN_DATA_TRUNCATED" ELSE "SUCCESS", n,
             [k |-> "text", of |-> of,
              chars |-> Least(n, IF b.len = 0 THEN 0 ELSE b.len - 1)],
             0 .. Least(n, b.len - 1) \cup {Least(n, b.len - 1)})
    ELSE LET copy == Wide(n, b.len \div WcharSize)
             kept == IF copy.put THEN copy.chars ELSE 0
         IN  Did(IF copy.truncated THEN "VARLEN_DATA_TRUNCATED" ELSE "SUCCESS",
                 n, [k |-> "text", of |-> of, chars |-> kept],
                 IF b.len < WcharSize \/ ~copy.put THEN {}
                   ELSE 0 .. (kept + 1) * WcharSize - 1)

\* A date, time or interval as text of n characters: the indicator counts
\* characters, also of a wide text, and tells the whole length.  The byte
\* before the end of a narrow buffer that is too short is set to 0, which is
\* the byte before the buffer when it has no length.
PutFormatted(b, n, of) ==
  IF ~b.data THEN Did("SUCCESS", n, Nothing, {})
  ELSE IF b.type = "CHAR"
    THEN Did(IF n + 1 > b.len THEN "VARLEN_DATA_TRUNCATED" ELSE "SUCCESS", n,
             [k |-> "text", of |-> of,
              chars |-> Least(n, IF b.len = 0 THEN 0 ELSE b.len - 1)],
             0 .. Least(n, b.len - 1) \cup {Least(n, b.len - 1)})
    ELSE LET copy == Wide(n, b.len \div WcharSize)
             kept == IF copy.put THEN copy.chars ELSE 0
         IN  Did(IF copy.truncated THEN "VARLEN_DATA_TRUNCATED" ELSE "SUCCESS",
                 n, [k |-> "text", of |-> of, chars |-> kept],
                 IF b.len < WcharSize \/ ~copy.put THEN {}
                   ELSE 0 .. (kept + 1) * WcharSize - 1)

-----------------------------------------------------------------------------
(* Moments *)

\* Timestamp(ms) and Time(ms), each with its own factor, and the day and
\* second of the day gmtime gives.
Moment(ms, factor) ==
  LET s == Quot(ms, 1000)
  IN  [day |-> s \div 86400, tod |-> s % 86400,
       ns |-> (ms - 1000 * s) * factor]

DateOf(t) == [k |-> "date", day |-> t.day]
TimeOf(t) == [k |-> "time", tod |-> t.tod]
MomentOf(t, ns) == [k |-> "moment", day |-> t.day, tod |-> t.tod, ns |-> ns]

PutDate(b, t) ==
  CASE b.type = "CHAR" -> PutFormatted(b, 10, DateOf(t))
    [] b.type = "WCHAR" ->
         [PutFormatted(b, 10, DateOf(t)) EXCEPT
            !.res = IF 11 > b.len THEN "VARLEN_DATA_TRUNCATED" ELSE "SUCCESS"]
    [] b.type = "TDATE" -> Struct(b, "SUCCESS", DateOf(t))
    [] b.type = "TTIMESTAMP" -> Struct(b, "SUCCESS", MomentOf(t, 0))
    [] OTHER -> Unsupported

\* Faulty: the fraction is left out without a word.
PutTimestampWhole(b, t) ==
  CASE b.type \in {"CHAR", "WCHAR"} -> PutFormatted(b, 29, MomentOf(t, t.ns))
    [] b.type = "TDATE" -> Struct(b, "FRACTIONAL_TRUNCATED", DateOf(t))
    [] b.type = "TTIME" -> Struct(b, "FRACTIONAL_TRUNCATED", TimeOf(t))
    [] b.type = "TTIMESTAMP" -> Struct(b, "SUCCESS", MomentOf(t, 0))
    [] OTHER -> Unsupported

PutTimestamp(b, t) ==
  CASE b.type \in {"CHAR", "WCHAR"} -> PutFormatted(b, 29, MomentOf(t, t.ns))
    [] b.type = "TDATE" -> Struct(b, "FRACTIONAL_TRUNCATED", DateOf(t))
    [] b.type = "TTIME" -> Struct(b, "FRACTIONAL_TRUNCATED", TimeOf(t))
    [] b.type = "TTIMESTAMP" -> Struct(b, "SUCCESS", MomentOf(t, t.ns))
    [] OTHER -> Unsupported

\* A time into a time struct is reported as a truncation, always.
PutTime(b, t) ==
  CASE b.type \in {"CHAR", "WCHAR"} -> PutFormatted(b, 18, MomentOf(t, t.ns))
    [] b.type = "TTIME" -> Struct(b, "VARLEN_DATA_TRUNCATED", TimeOf(t))
    [] b.type = "TTIMESTAMP" -> Struct(b, "SUCCESS", MomentOf(t, t.ns))
    [] OTHER -> Unsupported

\* SetIntervalBufferValue: the fields of the struct's type, 0 for those the
\* interval does not have; what the struct's type has no field for is dropped.
IntervalStruct(type, v) ==
  [k |-> "interval", type |-> type, sign |-> v.sign,
   parts |-> [f \in IntervalFields[type] |->
                IF f \in DOMAIN v.parts THEN v.parts[f] ELSE 0]]

PutIntervalYearMonth(b, v) ==
  CASE b.type \in {"CHAR", "WCHAR"} -> PutFormatted(b, v.chars, v)
    [] b.type \in IntervalTypes ->
         Struct(b, "SUCCESS", IntervalStruct(b.type, v))
    [] OTHER -> Unsupported

PutIntervalDaySecond(b, v) == PutIntervalYearMonth(b, v)

-----------------------------------------------------------------------------
(* Numbers, texts and decimals.  The set of what the build can do. *)

Num(h) == [k |-> "number", h |-> h]

\* PutNum for a value of the given size, h halves.
PutNum(b, h, size, floating) ==
  CASE b.type \in IntTypes \cup FloatTypes ->
         {Fixed(b, "SUCCESS", Num(n)) : n \in StaticCast(b.type, h, floating)}
    [] b.type = "NUMERIC" -> {Fixed(b, "SUCCESS", Num(2 * Quot(h, 2)))}
    [] b.type \in {"CHAR", "WCHAR"} ->
         LET n == Streamed(h, floating)
         IN  {PutStrToStrBuffer(b, b.type = "WCHAR", StreamLength(n, floating),
                                Num(n))}
    [] b.type \in {"BINARY", "DEFAULT"} ->
         {Did(IF b.len < size THEN "VARLEN_DATA_TRUNCATED" ELSE "SUCCESS",
              size, [k |-> "raw", of |-> Num(h), bytes |-> Least(size, b.len)],
              FirstBytes(b, Least(size, b.len)))}
    [] b.type = "TDATE" -> {PutDate(b, Moment(Quot(h, 2), 1000000))}
    [] b.type = "TTIMESTAMP" -> {PutTimestamp(b, Moment(Quot(h, 2), 1000000))}
    [] b.type = "TTIME" -> {PutTime(b, Moment(Quot(h, 2), 100000))}
    [] OTHER -> {Unsupported}

\* An uninitialized variable: any number, of which two stand for all.
Uninitialized == {0, 99}

\* The number read from a text: 0 when it does not begin with one, and what
\* the variable held when there is nothing to read.  (A text of blanks, for
\* which the same holds, is not among the values.)
Extracted(v) == IF v.chars = 0 THEN Uninitialized ELSE {v.spells}

\* A text for a number is read as a 64-bit integer or a double.
PutString(b, v) ==
  CASE b.type \in IntTypes \cup {"NUMERIC"} ->
         UNION {PutNum(b, 2 * Quot(h, 2), 8, FALSE) : h \in Extracted(v)}
    [] b.type \in FloatTypes ->
         UNION {PutNum(b, h, 8, TRUE) : h \in Extracted(v)}
    [] b.type \in {"CHAR", "BINARY", "DEFAULT"} ->
         {PutStrToStrBuffer(b, FALSE, v.chars, v)}
    [] b.type = "WCHAR" -> {PutStrToStrBuffer(b, TRUE, v.chars, v)}
    [] OTHER -> {Unsupported}

\* Decimals always report a truncation when the target is a number.  Into a
\* numeric struct goes the value scaled to 0, which SetScale leaves at zero
\* when the scale is 0 already.
PutDecimal(b, v) ==
  CASE b.type \in IntTypes ->
         {[o EXCEPT !.res = "FRACTIONAL_TRUNCATED"] :
            o \in PutNum(b, 2 * Quot(v.h, 2), 8, FALSE)}
    [] b.type \in FloatTypes ->
         {[o EXCEPT !.res = "FRACTIONAL_TRUNCATED"] :
            o \in PutNum(b, v.h, 8, TRUE)}
    [] b.type \in {"CHAR", "WCHAR"} ->
         {PutStrToStrBuffer(b, b.type = "WCHAR", NumberLength(v.h), Num(v.h))}
    [] b.type = "NUMERIC" ->
         {Struct(b, "SUCCESS",
                 Num(IF v.scale = 0 THEN 0 ELSE 2 * Quot(v.h, 2)))}
    [] OTHER -> {Unsupported}

-----------------------------------------------------------------------------
(* The value of a row, by the type of its column *)

PutInt8(b, h) == PutNum(b, h, 1, FALSE)
PutInt32(b, h) == PutNum(b, h, 4, FALSE)
PutDouble(b, h) == PutNum(b, h, 8, TRUE)

\* The fraction of a timestamp whose text has none is an uninitialized
\* variable.
Absent == -1

ParseScalarType(b, v) ==
  CASE v.k = "text" -> PutString(b, v)
    [] v.k = "double" -> PutDouble(b, v.h)
    [] v.k = "boolean" -> PutInt8(b, v.h)
    [] v.k = "int" -> PutInt32(b, v.h)
    [] v.k = "untyped" -> {PutNull(b)}
    [] v.k = "timestamp" ->
         {PutTimestamp(b, [v.t EXCEPT !.ns = n]) :
            n \in IF v.t.ns = Absent THEN Uninitialized ELSE {v.t.ns}}

\* The characters of elements of the given lengths joined: a bracket, and a
\* comma or the closing bracket after every element.
Length(elements) ==
  LET length[n \in 0 .. Len(elements)] ==
        IF n = 0 THEN 1 ELSE length[n - 1] + elements[n] + 1
  IN  length[Len(elements)]

\* Each element goes through a narrow buffer of its own; the result of that
\* conversion is dropped.
Joined(v) ==
  Length([i \in 1 .. Len(v.elements) |->
            Narrow(v.elements[i], ElementBuffer).chars])

ParseArrayType(b, v) ==
  PutString(b, [k |-> "text", spells |-> 0,
                chars |-> IF v.elements = <<>> THEN 0 ELSE Joined(v)])

\* A row without data is answered with AI_NO_DATA, the buffer untouched.
ParseRowType(b, v) ==
  IF v.k = "norow" THEN {Did("NO_DATA", Unset, Nothing, {})}
  ELSE PutString(b, [k |-> "text", spells |-> 0,
                     chars |-> IF v.elements = <<>> THEN 2 ELSE Joined(v)])

\* The result of PutNull is dropped.  A datum without a value, or in a column
\* without a type, is AI_FAILURE.
ParseDatum(b, v) ==
  CASE v.k = "null" -> {[PutNull(b) EXCEPT !.res = "SUCCESS"]}
    [] v.k = "array" -> ParseArrayType(b, v)
    [] v.k \in {"row", "norow"} -> ParseRowType(b, v)
    [] v.k = "unset" -> {Did("FAILURE", Unset, Nothing, {})}
    [] OTHER -> ParseScalarType(b, v)

\* The kinds a result has go through ReadToBuffer; the others are conversions
\* the class offers besides.
ReadToBuffer(b, v) ==
  CASE v.k = "date" -> {PutDate(b, v.t)}
    [] v.k = "time" -> {PutTime(b, v.t)}
    [] v.k = "yearmonth" -> {PutIntervalYearMonth(b, v)}
    [] v.k = "daysecond" -> {PutIntervalDaySecond(b, v)}
    [] v.k = "decimal" -> PutDecimal(b, v)
    [] OTHER -> ParseDatum(b, v)

\* The bytes the model watches: the application's array and some on both
\* sides of it.
Array(b) == -1 .. GetElementSize(b) * RowsetSize + 40

BufferInit ==
  /\ column \in Columns
  /\ binding \in Bindings
  /\ writer = [a \in Array(binding) |-> RowsetSize]
  /\ cell = [r \in 0 .. RowsetSize - 1 |-> Nothing]
  /\ indicator = [r \in 0 .. RowsetSize - 1 |-> Unset]
  /\ outcome = [r \in 0 .. RowsetSize - 1 |-> Nothing]
  /\ elementOffset = 0

\* The next row of the rowset: SetElementOffset and the conversion.
PutRow(v) ==
  /\ elementOffset < RowsetSize
  /\ \E o \in ReadToBuffer(binding, v) :
       /\ writer' = [a \in DOMAIN writer |->
                       IF a - ApplyOffset(binding, elementOffset)
                            \in o.bytes
                         THEN elementOffset ELSE writer[a]]
       /\ cell' = IF o.bytes = {} THEN cell
                  ELSE [cell EXCEPT ![elementOffset] = o.content]
       /\ indicator' = IF o.ind = Unset \/ ~binding.ind THEN indicator
                       ELSE [indicator EXCEPT ![elementOffset] = o.ind]
       /\ outcome' = [outcome EXCEPT ![elementOffset] =
                        [v |-> v, res |-> o.res, bytes |-> o.bytes]]
  /\ elementOffset' = elementOffset + 1
  /\ UNCHANGED <<column, binding>>

\* The next fetch fills the same arrays again.
FetchAgain ==
  /\ elementOffset = RowsetSize
  /\ elementOffset' = 0
  /\ outcome' = [r \in 0 .. RowsetSize - 1 |-> Nothing]
  /\ UNCHANGED <<column, binding, writer, cell, indicator>>

BufferNext == (\E v \in column : PutRow(v)) \/ FetchAgain

BufferSpec == BufferInit /\ [][BufferNext]_bufferVars

-----------------------------------------------------------------------------
(* Reading a buffer back *)

\* What the application or an earlier conversion left in the indicator is
\* taken for the length of the input, or announces it for later.
IsDataAtExec(b, ind) == b.ind /\ (ind <= -100 \/ ind = -2)

GetDataAtExecSize(b, ind) ==
  CASE b.type \in {"CHAR", "WCHAR", "BINARY"} ->
         (IF ind <= -100 THEN -100 - ind ELSE 0)
           * (IF b.type = "WCHAR" THEN 2 ELSE 1)
    [] b.type \in {"SIGNED_LONG", "UNSIGNED_LONG"} -> 8
    [] b.type \in IntervalTypes \cup {"DEFAULT", "UNSUPPORTED"} -> 0
    [] OTHER -> SizeOf(b.type)

GetInputSize(b, ind) ==
  IF IsDataAtExec(b, ind) THEN GetDataAtExecSize(b, ind)
  ELSE IF b.ind THEN ind ELSE -3

\* GetString of a text buffer: as many bytes as the indicator counts, or
\* everything up to the terminator (SQL_NTS).
GetString(b, c, ind) ==
  LET size == GetInputSize(b, ind)
      wanted == IF b.type = "WCHAR" THEN size \div WcharSize ELSE size
  IN  [of |-> c.of, chars |-> IF size = -3 THEN c.chars
                              ELSE IF size <= 0 THEN 0
                              ELSE Least(wanted, c.chars)]

\* The number a text spells, if the whole of it is there; what its first
\* characters spell is some other number, which is left open (no number).
Spelled(b, c, ind, floating) ==
  LET text == GetString(b, c, ind)
  IN  IF text.chars = StreamLength(text.of.h, floating) THEN {text.of.h} ELSE {}

\* The long types are written with four bytes and read as a long.  When that
\* has eight, the other four are those behind the element, and so any: three
\* numbers stand for all.  A cast to a type of up to four bytes drops them.
BytesBehind(b, T) ==
  IF SizeOfLong > SizeOf(b.type) /\ SizeOf(T) > SizeOf(b.type)
    THEN {-1, 0, 1} ELSE {0}

\* GetNum into the type T: the numbers it can be.
GetNum(b, c, ind, T) ==
  CASE b.type \in LongTypes ->
         UNION {StaticCast(T, c.h + 2 * Modulus(b.type) * n, FALSE) :
                  n \in BytesBehind(b, T)}
    [] b.type \in (IntTypes \ LongTypes) \cup {"NUMERIC"} ->
         StaticCast(T, c.h, FALSE)
    [] b.type \in FloatTypes -> StaticCast(T, c.h, TRUE)
    [] b.type \in {"CHAR", "WCHAR"} -> Spelled(b, c, ind, T = "DOUBLE")
    [] OTHER -> {0}

\* GetDecimal: through the widest number of the kind, a text digit by digit.
GetDecimal(b, c, ind) ==
  CASE b.type \in {"CHAR", "WCHAR"} -> Spelled(b, c, ind, FALSE)
    [] b.type \in Signed \cup {"BIT"} -> GetNum(b, c, ind, "SIGNED_BIGINT")
    [] b.type \in Unsigned \ {"BIT"} -> GetNum(b, c, ind, "UNSIGNED_BIGINT")
    [] OTHER -> GetNum(b, c, ind, "DOUBLE")

\* GetTimestamp.  Of a text the fraction is not read, and the second of the
\* day only if all 19 characters up to it are there.
GetTimestamp(b, c, ind) ==
  CASE b.type = "TDATE" -> [day |-> c.day, tod |-> 0, ns |-> 0]
    [] b.type = "TTIME" -> [day |-> 0, tod |-> c.tod, ns |-> 0]
    [] b.type = "TTIMESTAMP" -> [day |-> c.day, tod |-> c.tod, ns |-> c.ns]
    [] b.type \in {"CHAR", "WCHAR"} ->
         LET text == GetString(b, c, ind)
         IN  [day |-> IF text.chars >= 10 THEN text.of.day ELSE NullData,
              tod |-> IF text.chars >= 19 THEN text.of.tod
                      ELSE IF text.chars = 10 THEN 0 ELSE NullData,
              ns |-> 0]

\* GetDate and GetTime keep the seconds, and the second of the day.
GetDate(b, c, ind) == [GetTimestamp(b, c, ind) EXCEPT !.ns = 0]
GetTime(b, c, ind) == [GetTimestamp(b, c, ind) EXCEPT !.day = 0, !.ns = 0]

-----------------------------------------------------------------------------
Put(r) == outcome[r] # Nothing

\* The rows of a rowset do not overwrite one another, nor anything else: every
\* byte a row wrote lies in its own element and is still its own when the
\* later rows are there.  Interval structs and SQL_C_DEFAULT have no element
\* size (application_data_buffer.cpp:1938), so their rows all go to the first
\* element, and a narrow buffer of no length has none; they are left out.
RowsKeepTheirBytes ==
  \A r \in DOMAIN outcome :
    Put(r) /\ binding.type \notin IntervalTypes \cup {"DEFAULT"}
    /\ (binding.type = "CHAR" => binding.len > 0) =>
      \A i \in outcome[r].bytes :
        /\ i \in 0 .. GetElementSize(binding) - 1
        /\ writer[ApplyOffset(binding, r) + i] = r

\* A buffer with room for a character and the terminator.
Roomy(b) ==
  CASE b.type = "CHAR" -> b.len > 0
    [] b.type = "WCHAR" -> b.len >= 2 * WcharSize
    [] OTHER -> TRUE

\* The characters of a value written as text.
WholeLength(v) ==
  CASE v.k = "text" -> v.chars
    [] v.k = "double" -> StreamLength(Streamed(v.h, TRUE), TRUE)
    [] v.k \in {"boolean", "int", "decimal"} -> NumberLength(v.h)
    [] v.k = "timestamp" -> 29
    [] v.k = "date" -> 10
    [] v.k = "time" -> 18
    [] v.k \in {"yearmonth", "daysecond"} -> v.chars
    [] v.k \in {"array", "row"} ->
         IF v.elements = <<>> THEN 2 ELSE Length(v.elements)
    [] OTHER -> 0

\* The two cuts nobody is told of.  An element as long as its own buffer is
\* cut there and the result of that conversion dropped
\* (iotsitewise_column.cpp:159, 193); and the length of a wide date is
\* compared with the bytes of the buffer instead of its characters
\* (application_data_buffer.cpp:718).
SilentCut(b, v) ==
  \/ /\ v.k \in {"array", "row"}
     /\ \E i \in 1 .. Len(v.elements) : v.elements[i] >= ElementBuffer
  \/ /\ v.k = "date" /\ b.type = "WCHAR"
     /\ 11 <= b.len /\ b.len < 11 * WcharSize

\* A text that was cut is reported, and one that was not never is: of a
\* value put as text with plain success every character is there, elements of
\* arrays and rows included, with VARLEN_DATA_TRUNCATED fewer.  The exceptions
\* are those of SilentCut and no others.
CutTextsAreReported ==
  \A r \in DOMAIN outcome :
    LET v == outcome[r].v
    IN  Put(r) /\ binding.type \in {"CHAR", "WCHAR"}
        /\ Roomy(binding) /\ outcome[r].bytes # {} =>
          /\ outcome[r].res = "SUCCESS" /\ ~SilentCut(binding, v)
               => cell[r].chars = WholeLength(v)
          /\ outcome[r].res = "VARLEN_DATA_TRUNCATED"
               => cell[r].chars < WholeLength(v)

\* The type of the buffer can hold the number v.  Nothing warns of one that it
\* cannot: an integer is wrapped (InRange), a float is rounded to the nearest
\* one, a double as text to the digits of a stream, and where a long has eight
\* bytes, a double put as one of the long types is read back with the bytes
\* behind it.
CanHold(b, v) ==
  CASE b.type \in IntTypes ->
         /\ v.h % 2 = 0 /\ InRange(b.type, v.h \div 2)
         /\ b.type \in LongTypes /\ v.k = "double" => SizeOfLong = 4
    [] b.type = "NUMERIC" -> v.h % 2 = 0
    [] b.type \in FloatTypes -> StaticCast(b.type, v.h, TRUE) = {v.h}
    [] b.type \in {"CHAR", "WCHAR"} -> Streamed(v.h, v.k = "double") = v.h
    [] OTHER -> FALSE

\* The value v is what is read from an element that holds c with the
\* indicator ind, as far as the type can hold it.  Of a moment in a narrow
\* text the fraction is not read; in a wide text it is not read back at all,
\* because its indicator counts characters and the reader counts bytes.
ReadsBack(b, v, c, ind) ==
  /\ v.k \in {"boolean", "int", "double"} /\ CanHold(b, v) =>
       GetNum(b, c, ind, KindType[v.k]) = {v.h}
  /\ v.k = "decimal" /\ b.type \in {"CHAR", "WCHAR"} =>
       GetDecimal(b, c, ind) = {v.h}
  /\ v.k = "text" /\ b.type \in {"CHAR", "WCHAR"} =>
       GetString(b, c, ind) = [of |-> v, chars |-> v.chars]
  /\ v.k = "timestamp" /\ v.t.ns # Absent /\ b.type = "TTIMESTAMP" =>
       GetTimestamp(b, c, ind) = v.t
  /\ v.k = "timestamp" /\ b.type = "CHAR" =>
       GetTimestamp(b, c, ind) = [v.t EXCEPT !.ns = 0]
  /\ v.k = "date" /\ b.type \in {"TDATE", "TTIMESTAMP"} =>
       GetDate(b, c, ind).day = v.t.day
  /\ v.k = "time" /\ b.type = "TTIMESTAMP" =>
       GetTime(b, c, ind).tod = v.t.tod

\* A value put with plain success into a type that can hold it is read back
\* as it was, whatever the row's element held before.
SuccessReadsBack ==
  \A r \in DOMAIN outcome :
    Put(r) /\ outcome[r].res = "SUCCESS" /\ binding.data
    /\ Roomy(binding) =>
      ReadsBack(binding, outcome[r].v, cell[r], indicator[r])

=============================================================================
