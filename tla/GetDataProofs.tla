---------------------------- MODULE GetDataProofs ----------------------------
(***************************************************************************)
(* Theorems about GetData and Conversions, for any values and buffers.     *)
(*                                                                         *)
(* GetData: with texts of one-byte characters and buffers with room for a  *)
(* character, the parts of a column are its text.                          *)
(*                                                                         *)
(* Conversions: rows keep to their elements, cuts are reported and values  *)
(* put with success are read back.  Each conversion is shown to do so by   *)
(* itself (ConversionInElement, ConversionTellsCut, ConversionReadable);    *)
(* the invariant BufferInv carries it through the rows of the rowsets.     *)
(***************************************************************************)
EXTENDS Conversions, FiniteSetTheorems, NaturalsInduction, WellFoundedInduction,
        TLAPS

\* A one-byte text is cut at any byte: what lies before byte off is off
\* characters.
LEMMA OneByteCut ==
  ASSUME OneByteCharacters, NEW t \in Texts, NEW off \in Nat, off < Bytes(t)
  PROVE  /\ Bytes(t) = t.chars /\ t.chars \in Nat
         /\ Boundary(t, off)
         /\ CharsBefore(t, off) = off
  <1>1. t.chars \in Nat
    BY TextsAssumption DEF IsText
  <1>2. Bytes(t) = t.chars
    BY <1>1 DEF Bytes, OneByteCharacters
  <1>3. off \in 0 .. t.chars /\ t.at[off] = off
    BY <1>1, <1>2 DEF OneByteCharacters
  <1>4. \A k \in 0 .. t.chars : t.at[k] = off => k = off
    BY DEF OneByteCharacters
  <1>5. Boundary(t, off)
    BY <1>3 DEF Boundary
  <1>6. CharsBefore(t, off) = off
    BY <1>3, <1>4 DEF CharsBefore
  <1> QED
    BY <1>1, <1>2, <1>5, <1>6

\* A part is what fits of what is left, and a part that is not truncated is
\* all of it.
LEMMA OneBytePart ==
  ASSUME OneByteCharacters, RoomForACharacter,
         NEW t \in Texts, NEW off \in Nat, off < Bytes(t), NEW b \in Buffers
  PROVE  LET copy == Copy(t, off, b)
         IN  /\ copy.chars \in 0 .. (t.chars - off)
             /\ ~copy.truncated => copy.chars = t.chars - off
             /\ Delivered(t, off, copy) = [i \in 1 .. copy.chars |-> off + i]
  <1> DEFINE left == t.chars - off
  <1>1. /\ Boundary(t, off) /\ CharsBefore(t, off) = off
        /\ t.chars \in Nat /\ Bytes(t) = t.chars
    BY OneByteCut
  <1>2. left \in Nat \ {0}
    BY <1>1
  <1>3. b.len \in Nat /\ b.wide \in BOOLEAN
    BY BuffersAssumption
  <1>4. CASE b.wide
    <2>1. b.len > 1
      BY <1>4 DEF RoomForACharacter
    <2>2. Copy(t, off, b) = [chars |-> Least(left, b.len - 1), put |-> TRUE,
                             truncated |-> left > b.len - 1]
      BY <1>1, <1>3, <1>4, <2>1 DEF Copy, Wide
    <2>3. /\ Copy(t, off, b).chars = Least(left, b.len - 1)
          /\ Copy(t, off, b).put = TRUE
          /\ Copy(t, off, b).truncated = (left > b.len - 1)
      BY <2>2
    <2>4. /\ Least(left, b.len - 1) \in 0 .. left
          /\ ~(left > b.len - 1) => Least(left, b.len - 1) = left
      BY <1>2, <1>3, <2>1 DEF Least
    <2>5. Delivered(t, off, Copy(t, off, b))
            = [i \in 1 .. Copy(t, off, b).chars |-> off + i]
      BY <1>1, <2>3 DEF Delivered
    <2> QED
      BY <2>3, <2>4, <2>5
  <1>5. CASE ~b.wide
    <2> DEFINE room == IF b.len = 0 THEN 0 ELSE b.len - 1
    <2>1. Copy(t, off, b) = [chars |-> Least(left, room), put |-> TRUE,
                             truncated |-> left > 0 /\ left >= b.len]
      BY <1>1, <1>5 DEF Copy, Narrow
    <2>2. /\ Copy(t, off, b).chars = Least(left, room)
          /\ Copy(t, off, b).put = TRUE
          /\ Copy(t, off, b).truncated = (left > 0 /\ left >= b.len)
      BY <2>1
    <2>3. /\ Least(left, room) \in 0 .. left
          /\ ~(left > 0 /\ left >= b.len) => Least(left, room) = left
      BY <1>2, <1>3 DEF Least
    <2>4. Delivered(t, off, Copy(t, off, b))
            = [i \in 1 .. Copy(t, off, b).chars |-> off + i]
      BY <1>1, <2>2 DEF Delivered
    <2> QED
      BY <2>2, <2>3, <2>4
  <1> QED
    BY <1>3, <1>4, <1>5

-----------------------------------------------------------------------------
\* The characters received end at the statement's offset.
Consecutive ==
  /\ Len(got) <= cellOffset
  /\ got = [i \in 1 .. Len(got) |-> (cellOffset - Len(got)) + i]

\* On a row reached with SQLFetch they also begin at the first character, the
\* offset never passes the end of the text under the cursor, and a call that says
\* there is no more leaves the offset there.
FromTheFirst ==
  /\ Len(got) = cellOffset
  /\ currentColNum = 0 => cellOffset = 0
  /\ HasData(curPos) /\ currentColNum # 0
       => cellOffset <= value[RowAt(curPos)][currentColNum].chars
  /\ ret \in {"SUCCESS", "NO_DATA"} =>
       /\ HasData(curPos) /\ currentColNum # 0
       /\ cellOffset = value[RowAt(curPos)][currentColNum].chars

PartsInv == TypeOK /\ Consecutive /\ (~extended => FromTheFirst)

\* The text a call reads.
LEMMA CurrentText ==
  ASSUME TypeOK, HasData(curPos), NEW c \in Cols
  PROVE  /\ RowAt(curPos) \in 1 .. Rows
         /\ value[RowAt(curPos)][c] \in Texts
         /\ value[RowAt(curPos)][c].chars \in Nat
  <1>1. RowAt(curPos) \in 1 .. Rows
    BY SizesAssumption DEF TypeOK, RowAt, HasData
  <1>2. value[RowAt(curPos)][c] \in Texts
    BY <1>1 DEF TypeOK
  <1> QED
    BY <1>1, <1>2, TextsAssumption DEF IsText

\* The offset and the characters a call starts from are consecutive too.
LEMMA StartConsecutive ==
  ASSUME TypeOK, Consecutive, NEW c \in Cols
  PROVE  /\ StartOffset(c) \in Nat
         /\ GotBefore(c) \in Seq(Nat \ {0})
         /\ Len(GotBefore(c)) \in Nat /\ Len(GotBefore(c)) <= StartOffset(c)
         /\ GotBefore(c) = [i \in 1 .. Len(GotBefore(c)) |->
                              (StartOffset(c) - Len(GotBefore(c))) + i]
  BY SMTT(30) DEF TypeOK, Consecutive, StartOffset, GotBefore

\* Appending the next part keeps the characters consecutive.
LEMMA AppendPart ==
  ASSUME NEW s \in Seq(Nat \ {0}), NEW off \in Nat, Len(s) <= off,
         s = [i \in 1 .. Len(s) |-> (off - Len(s)) + i], NEW n \in Nat
  PROVE  LET r == s \o [i \in 1 .. n |-> off + i]
         IN  /\ r \in Seq(Nat \ {0}) /\ Len(r) = Len(s) + n
             /\ r = [i \in 1 .. Len(r) |-> (off + n - Len(r)) + i]
  <1> DEFINE p == [i \in 1 .. n |-> off + i]
  <1>1. p \in Seq(Nat \ {0}) /\ Len(p) = n
    OBVIOUS
  <1>2. s \o p \in Seq(Nat \ {0}) /\ Len(s \o p) = Len(s) + n
    BY <1>1
  <1>3. ASSUME NEW i \in 1 .. Len(s) + n
        PROVE  (s \o p)[i] = (off - Len(s)) + i
    <2>1. CASE i <= Len(s)
      BY <1>1, <2>1
    <2>2. CASE i > Len(s)
      BY <1>1, <2>2
    <2> QED
      BY <2>1, <2>2
  <1> QED
    BY <1>2, <1>3

\* Every step keeps the parts consecutive.
LEMMA NextPartsInv ==
  ASSUME OneByteCharacters, RoomForACharacter, PartsInv, [Next]_vars
  PROVE  PartsInv'
  <1> USE DEF PartsInv
  <1>1. ASSUME NEW c \in Cols, GetDataNoData(c) PROVE PartsInv'
    <2>1. TypeOK' /\ Consecutive'
      BY <1>1, StartConsecutive
      DEF GetDataNoData, TypeOK, RetSet, Consecutive
    <2>2. ASSUME ~extended' PROVE FromTheFirst'
      <3>1. Bytes(value[RowAt(curPos)][c]) = value[RowAt(curPos)][c].chars
        BY <1>1, CurrentText
        DEF GetDataNoData, Bytes, OneByteCharacters
      <3>2. c # 0
        BY SizesAssumption
      <3> QED
        BY <1>1, <2>2, <3>1, <3>2, CurrentText
        DEF GetDataNoData, FromTheFirst, TypeOK, StartOffset, GotBefore
    <2> QED
      BY <2>1, <2>2
  <1>2. ASSUME NEW c \in Cols, NEW b \in Buffers, GetDataPart(c, b)
        PROVE  PartsInv'
    <2> DEFINE t == value[RowAt(curPos)][c]
               off == StartOffset(c)
               n == Copy(t, off, b).chars
    <2>1. t \in Texts /\ t.chars \in Nat
      BY <1>2, CurrentText DEF GetDataPart
    <2>2. off \in Nat /\ off < Bytes(t)
      BY <1>2, StartConsecutive DEF GetDataPart
    <2>3. /\ n \in 0 .. (t.chars - off)
          /\ ~Copy(t, off, b).truncated => n = t.chars - off
          /\ Delivered(t, off, Copy(t, off, b)) = [i \in 1 .. n |-> off + i]
      BY <2>1, <2>2, OneBytePart
    <2>4. Boundary(t, off) /\ off < t.chars
      BY <2>1, <2>2, OneByteCut
    <2>5. /\ currentColNum' = c /\ cellOffset' = off + n
          /\ got' = GotBefore(c) \o [i \in 1 .. n |-> off + i]
          /\ value' = value /\ curPos' = curPos /\ HasData(curPos)
          /\ extended' = extended
          /\ ret' = IF Copy(t, off, b).truncated THEN "SUCCESS_WITH_INFO"
                                                ELSE "SUCCESS"
      BY <1>2, <2>3, <2>4 DEF GetDataPart
    <2>6. /\ GotBefore(c) \in Seq(Nat \ {0})
          /\ Len(GotBefore(c)) \in Nat /\ Len(GotBefore(c)) <= off
          /\ GotBefore(c) = [i \in 1 .. Len(GotBefore(c)) |->
                               (off - Len(GotBefore(c))) + i]
      BY StartConsecutive
    <2>7. n \in Nat /\ off + n <= t.chars
      BY <2>1, <2>2, <2>3, <2>4
    <2> HIDE DEF t, off, n
    <2>8. /\ got' \in Seq(Nat \ {0})
           /\ Len(got') = Len(GotBefore(c)) + n
           /\ got' = [i \in 1 .. Len(got') |-> (off + n - Len(got')) + i]
      BY <2>2, <2>5, <2>6, <2>7, AppendPart
    <2>9. TypeOK'
      BY <2>2, <2>5, <2>7, <2>8 DEF TypeOK, RetSet
    <2>10. Consecutive'
      <3>1. Len(got') <= cellOffset'
        BY <2>2, <2>5, <2>6, <2>7, <2>8
      <3>2. cellOffset' = off + n
        BY <2>5
      <3>3. \A i \in 1 .. Len(got') : off + n - Len(got') + i
                                       = (cellOffset' - Len(got')) + i
        BY <2>2, <2>6, <2>7, <2>8, <3>2
      <3>4. got' = [i \in 1 .. Len(got') |-> (cellOffset' - Len(got')) + i]
        BY <2>8, <3>3
      <3> QED
        BY <3>1, <3>4, Zenon DEF Consecutive
    <2>11. ASSUME ~extended' PROVE FromTheFirst'
      <3>1. Len(GotBefore(c)) = off
        BY <2>5, <2>11 DEF FromTheFirst, GotBefore, StartOffset, off
      <3>2. Len(got') = cellOffset' /\ cellOffset' <= t.chars /\ c # 0
        BY <2>5, <2>7, <2>8, <3>1, SizesAssumption
      <3>3. ret' = "SUCCESS" => cellOffset' = t.chars
        BY <2>1, <2>2, <2>3, <2>5
      <3>4. ret' # "NO_DATA"
        BY <2>5
      <3> QED
        BY <2>5, <3>2, <3>3, <3>4 DEF FromTheFirst, t
    <2> QED
      BY <2>9, <2>10, <2>11
  <1>3. ASSUME NEW c \in Cols, GetDataLength(c) PROVE PartsInv'
    <2>1. TypeOK' /\ Consecutive'
      BY <1>3, StartConsecutive
      DEF GetDataLength, TypeOK, RetSet, Consecutive
    <2>2. ASSUME ~extended' PROVE FromTheFirst'
      BY <1>3, <2>2, CurrentText, SizesAssumption
      DEF GetDataLength, FromTheFirst, TypeOK, StartOffset, GotBefore
    <2> QED
      BY <2>1, <2>2
  <1>4. ASSUME NEW c \in Cols, GetDataAtEnd(c) PROVE PartsInv'
    <2>1. TypeOK' /\ Consecutive'
      BY <1>4, StartConsecutive
      DEF GetDataAtEnd, TypeOK, RetSet, Consecutive
    <2>2. ASSUME ~extended' PROVE FromTheFirst'
      BY <1>4, <2>2, SizesAssumption
      DEF GetDataAtEnd, FromTheFirst, TypeOK, StartOffset, GotBefore
    <2> QED
      BY <2>1, <2>2
  <1>5. ASSUME NEW n \in 1 .. MaxRowset, Fetch(n) PROVE PartsInv'
    <2>1. curPos' \in 0 .. Rows + 1
      BY <1>5, SizesAssumption DEF Fetch, Advance, Least, TypeOK
    <2>2. extended' \in BOOLEAN
      BY <1>5 DEF Fetch
    <2>3. TypeOK' /\ Consecutive'
      BY <1>5, <2>1, <2>2 DEF Fetch, TypeOK, RetSet, Consecutive
    <2>4. ASSUME ~extended' PROVE FromTheFirst'
      <3>1. ASSUME HasData(curPos'), currentColNum # 0
            PROVE  value[RowAt(curPos')][currentColNum].chars \in Nat
        <4>1. RowAt(curPos') \in 1 .. Rows /\ currentColNum \in Cols
          BY <2>1, <3>1, SizesAssumption DEF RowAt, HasData, TypeOK
        <4> QED
          BY <4>1, TextsAssumption DEF TypeOK, IsText
      <3> QED
        BY <1>5, <3>1 DEF Fetch, FromTheFirst
    <2> QED
      BY <2>3, <2>4
  <1>6. ASSUME NEW n \in 1 .. MaxRowset, ExtendedFetch(n) PROVE PartsInv'
    <2>1. curPos' \in 0 .. Rows + 1
      BY <1>6, SizesAssumption DEF ExtendedFetch, Advance, Least, TypeOK
    <2>2. extended' \in BOOLEAN
      BY <1>6 DEF ExtendedFetch
    <2>3. TypeOK' /\ Consecutive'
      BY <1>6, <2>1, <2>2 DEF ExtendedFetch, TypeOK, RetSet, Consecutive
    <2> QED
      BY <1>6, <2>3 DEF ExtendedFetch
  <1>7. CASE UNCHANGED vars
    BY <1>7
    DEF vars, TypeOK, Consecutive, FromTheFirst
  <1> QED
    BY <1>1, <1>2, <1>3, <1>4, <1>5, <1>6, <1>7 DEF Next

\* At first nothing has been received.
LEMMA InitPartsInv == Init => PartsInv
  <1> SUFFICES ASSUME Init PROVE PartsInv
    OBVIOUS
  <1>1. extended \in BOOLEAN
    BY DEF Init
  <1> QED
    BY <1>1, SizesAssumption
    DEF Init, PartsInv, TypeOK, RetSet, Consecutive, FromTheFirst

\* What the invariant says of the parts.
LEMMA PartsInvImplies ==
  ASSUME PartsInv
  PROVE  /\ PartsContiguous
         /\ PartsStartAtFirst /\ EndAfterWholeText
  <1> USE DEF PartsInv
  <1>1. PartsContiguous
    BY DEF PartsContiguous, Consecutive, TypeOK
  <1>2. PartsStartAtFirst
    BY DEF PartsStartAtFirst, Consecutive, FromTheFirst, TypeOK
  <1>3. EndAfterWholeText
    BY DEF EndAfterWholeText, FromTheFirst
  <1> QED
    BY <1>1, <1>2, <1>3

\* With one-byte texts and room for a character, the parts of a column follow
\* one another without gap or repetition, SQLExtendedFetch included.
THEOREM PartsAreContiguous ==
  OneByteCharacters /\ RoomForACharacter => (Spec => []PartsContiguous)
  <1> SUFFICES ASSUME OneByteCharacters, RoomForACharacter
               PROVE  Spec => []PartsContiguous
    OBVIOUS
  <1>1. PartsInv /\ [Next]_vars => PartsInv'
    BY NextPartsInv
  <1>2. PartsInv => PartsContiguous
    BY PartsInvImplies
  <1> QED
    BY <1>1, <1>2, InitPartsInv, PTL DEF Spec

\* On every row reached with SQLFetch the parts of a column begin at its first
\* character.
THEOREM PartsBeginAtFirst ==
  OneByteCharacters /\ RoomForACharacter
    => (Spec => []PartsStartAtFirst)
  <1> SUFFICES ASSUME OneByteCharacters, RoomForACharacter
               PROVE  Spec => []PartsStartAtFirst
    OBVIOUS
  <1>1. PartsInv /\ [Next]_vars => PartsInv'
    BY NextPartsInv
  <1>2. PartsInv => PartsStartAtFirst
    BY PartsInvImplies
  <1> QED
    BY <1>1, <1>2, InitPartsInv, PTL DEF Spec

\* Under the same conditions the end of a text is reported only when all of
\* it has been received.
THEOREM EndReportedAfterWhole ==
  OneByteCharacters /\ RoomForACharacter
    => (Spec => []EndAfterWholeText)
  <1> SUFFICES ASSUME OneByteCharacters, RoomForACharacter
               PROVE  Spec => []EndAfterWholeText
    OBVIOUS
  <1>1. PartsInv /\ [Next]_vars => PartsInv'
    BY NextPartsInv
  <1>2. PartsInv => EndAfterWholeText
    BY PartsInvImplies
  <1> QED
    BY <1>1, <1>2, InitPartsInv, PTL DEF Spec

-----------------------------------------------------------------------------
(* Conversions: types, sizes and lengths *)

\* The interval types by name.
LEMMA IntervalTypesAre ==
  IntervalTypes =
    {"YEAR", "MONTH", "YEAR_TO_MONTH", "DAY", "HOUR", "MINUTE", "SECOND",
     "DAY_TO_HOUR", "DAY_TO_MINUTE", "HOUR_TO_MINUTE", "HOUR_TO_SECOND",
     "MINUTE_TO_SECOND", "DAY_TO_SECOND"}
  BY DEF IntervalTypes, IntervalFields

IsBinding(b) ==
  b \in [type : BufferTypes, len : Nat, data : BOOLEAN, ind : BOOLEAN]

LEMMA ProductGrows ==
  ASSUME NEW a \in Nat, NEW b \in Nat, NEW c \in Nat, a <= b
  PROVE  a * c <= b * c
  OBVIOUS

\* Whole characters of a buffer, and the bytes they take.
LEMMA WholeUnits ==
  ASSUME NEW n \in Nat, NEW u \in Nat \ {0}
  PROVE  n \div u \in Nat /\ (n \div u) * u <= n
  OBVIOUS

LEMMA UnitsBack ==
  ASSUME NEW n \in Nat, NEW u \in Nat \ {0}
  PROVE  (n * u) \div u = n
  OBVIOUS

LEMMA AtLeastTwo ==
  ASSUME NEW n \in Nat, NEW u \in Nat \ {0}, n >= 2 * u
  PROVE  n \div u >= 2
  OBVIOUS

\* Elements of different rows do not overlap.
LEMMA ElementsApart ==
  ASSUME NEW e \in Nat, NEW r \in Nat, NEW q \in Nat, NEW i \in 0 .. e - 1,
         r # q
  PROVE  (e * r + i) - e * q \notin 0 .. e - 1
  OBVIOUS

\* The bytes of a row lie in the application's array.
LEMMA InArray ==
  ASSUME NEW e \in Nat, NEW r \in Nat, NEW n \in Nat, NEW i \in 0 .. e - 1,
         r < n
  PROVE  e * r + i \in -1 .. e * n + 40
  OBVIOUS

LEMMA DigitLengthIsPositive ==
  ASSUME NEW n \in Nat
  PROVE  DigitLength(n) \in 1 .. 10
  <1>1. \E d \in 1 .. 10 :
          (d = 1 \/ n >= 10 ^ (d - 1)) /\ (d = 10 \/ n < 10 ^ d)
    OBVIOUS
  <1> QED
    BY <1>1 DEF DigitLength

\* A value in the range of a type is not changed by the cast to it.
LEMMA WrapInRange ==
  ASSUME NEW type \in IntTypes, NEW n \in Int, InRange(type, n)
  PROVE  Wrap(type, n) = n
  <1>1. ByteBits * SizeOf(type) \in Nat
    BY UnitsAssumption DEF SizeOf, IntTypes, Signed, Unsigned
  <1>2. Modulus(type) \in Int
    BY <1>1 DEF Modulus
  <1>3. Lowest(type) \in Int
    BY <1>2 DEF Lowest
  <1>4. 0 <= n - Lowest(type) /\ n - Lowest(type) < Modulus(type)
    BY <1>2, <1>3 DEF InRange, Highest
  <1>5. (n - Lowest(type)) % Modulus(type) = n - Lowest(type)
    BY <1>2, <1>3, <1>4
  <1> QED
    BY <1>3, <1>5 DEF Wrap

LEMMA NumberLengthIsPositive ==
  ASSUME NEW h \in Int
  PROVE  NumberLength(h) \in Nat \ {0} /\ WholeDigits(h) \in 1 .. 10
  <1>1. Abs(h) \div 2 \in Nat
    BY DEF Abs
  <1>2. WholeDigits(h) \in 1 .. 10
    BY <1>1, DigitLengthIsPositive DEF WholeDigits
  <1> QED
    BY <1>2 DEF NumberLength

\* Rounding gives a number.
LEMMA RoundedIsInt ==
  ASSUME NEW unit \in Nat \ {0}, NEW h \in Int
  PROVE  RoundTo(unit, h) \in Int
  <1> DEFINE up == 2 * (h % unit) > unit
                   \/ (2 * (h % unit) = unit /\ (h \div unit) % 2 = 1)
             q == IF up THEN h \div unit + 1 ELSE h \div unit
  <1>1. h \div unit \in Int
    OBVIOUS
  <1> HIDE DEF up
  <1>2. q \in Int
    BY <1>1
  <1> HIDE DEF q
  <1>3. RoundTo(unit, h) = unit * q
    BY Zenon DEF RoundTo, q, up
  <1> QED
    BY <1>2, <1>3

LEMMA StreamedIsInt ==
  ASSUME NEW h \in Int, NEW floating \in BOOLEAN
  PROVE  Streamed(h, floating) \in Int
  <1> DEFINE d == WholeDigits(h)
  <1>1. CASE ~floating \/ d < Precision
    <2>1. Streamed(h, floating) = h
      BY <1>1, Zenon DEF Streamed
    <2> QED
      BY <2>1
  <1>2. CASE ~(~floating \/ d < Precision)
    <2>1. d \in 1 .. 10 /\ Precision \in Nat \ {0, 1}
      BY NumberLengthIsPositive, UnitsAssumption
    <2> HIDE DEF d
    <2>2. d - Precision \in 0 .. 8
      BY <1>2, <2>1
    <2>3. 2 * 10 ^ (d - Precision) \in Nat \ {0}
      <3>1. \A e \in 0 .. 8 : 10 ^ e \in Nat \ {0}
        <4> TAKE e \in 0 .. 8
        <4>1. CASE e = 0
          BY <4>1, 10 ^ 0 = 1, SMT
        <4>2. CASE e = 1
          BY <4>2, 10 ^ 1 = 10, SMT
        <4>3. CASE e = 2
          BY <4>3, 10 ^ 2 = 100, SMT
        <4>4. CASE e = 3
          BY <4>4, 10 ^ 3 = 1000, SMT
        <4>5. CASE e = 4
          BY <4>5, 10 ^ 4 = 10000, SMT
        <4>6. CASE e = 5
          BY <4>6, 10 ^ 5 = 100000, SMT
        <4>7. CASE e = 6
          BY <4>7, 10 ^ 6 = 1000000, SMT
        <4>8. CASE e = 7
          BY <4>8, 10 ^ 7 = 10000000, SMT
        <4>9. CASE e = 8
          BY <4>9, 10 ^ 8 = 100000000, SMT
        <4> QED
          BY <4>1, <4>2, <4>3, <4>4, <4>5, <4>6, <4>7, <4>8, <4>9, SMT
      <3>2. 10 ^ (d - Precision) \in Nat \ {0}
        BY <2>2, <3>1, Zenon
      <3> QED
        BY <3>2, SMT
    <2>4. Streamed(h, floating) = RoundTo(2 * 10 ^ (d - Precision), h)
      BY <1>2, Zenon DEF Streamed, d
    <2> QED
      BY <2>3, <2>4, RoundedIsInt
  <1> QED
    BY <1>1, <1>2

\* What a stream writes has a length.
LEMMA StreamLengthIsPositive ==
  ASSUME NEW h \in Int, NEW floating \in BOOLEAN
  PROVE  StreamLength(h, floating) \in Nat \ {0}
  <1> DEFINE digits == SignificantDigits(h)
             exact == ~floating \/ WholeDigits(h) <= Precision
  <1>1. digits \in Nat \ {0}
    <2> DEFINE S == {i \in 1 .. Precision - 1 :
                       Abs(h) % (2 * 10 ^ (WholeDigits(h) - i)) # 0}
    <2>1. S \subseteq 1 .. Precision - 1
      OBVIOUS
    <2>2. Precision - 1 \in Int /\ 1 \in Int
      BY UnitsAssumption
    <2>3. IsFiniteSet(1 .. Precision - 1)
      BY <2>2, FS_Interval
    <2> HIDE DEF S
    <2>4. IsFiniteSet(S)
      BY <2>1, <2>3, FS_Subset
    <2>5. Cardinality(S) \in Nat
      BY <2>4, FS_CardinalityType
    <2>6. digits = 1 + Cardinality(S)
      BY Zenon DEF SignificantDigits, S
    <2> HIDE DEF digits
    <2> QED
      BY <2>5, <2>6
  <1>2. NumberLength(h) \in Nat \ {0}
    BY NumberLengthIsPositive
  <1> HIDE DEF digits, exact
  <1>3. StreamLength(h, floating) =
          IF exact THEN NumberLength(h)
          ELSE (IF h < 0 THEN 1 ELSE 0) + digits + (IF digits > 1 THEN 1 ELSE 0) + 4
    BY Zenon DEF StreamLength, digits, exact
  <1> QED
    BY <1>1, <1>2, <1>3

LEMMA StreamedIntegers ==
  ASSUME NEW h
  PROVE  Streamed(h, FALSE) = h /\ StreamLength(h, FALSE) = NumberLength(h)
  BY DEF Streamed, StreamLength

-----------------------------------------------------------------------------
\* Room for a character and the terminator.
Room(b) == IF b.type = "WCHAR" THEN b.len >= 2 * WcharSize ELSE b.len > 0

\* What a conversion to text does, o, with a text of n characters: it stays
\* in its element, tells the cut, and puts everything when it says so.
\* The wide copy stays in the buffer.
LEMMA WideStays ==
  ASSUME NEW n \in Nat, NEW len \in Nat, len >= WcharSize,
         Wide(n, len \div WcharSize).put
  PROVE  LET copy == Wide(n, len \div WcharSize)
         IN  /\ copy.chars \in 0 .. n
             /\ (copy.chars + 1) * WcharSize \in 0 .. len
             /\ len >= 2 * WcharSize => copy.truncated <=> copy.chars < n
  <1> DEFINE q == len \div WcharSize
             copy == Wide(n, q)
  <1>1. WcharSize \in Nat \ {0}
    BY UnitsAssumption
  <1>2. q \in Nat /\ q * WcharSize <= len
    BY <1>1, WholeUnits
  <1>3. q >= 1
    BY <1>1
  <1> HIDE DEF q
  <1>4. q # 1
    BY DEF Wide, q
  <1>5. copy.chars = Least(n, q - 1) /\ (copy.truncated <=> n > q - 1)
    <2>1. copy = [chars |-> Least(n, q - 1), put |-> TRUE,
                  truncated |-> n > q - 1]
      BY <1>2, <1>3, <1>4 DEF Wide
    <2>2. copy.chars = Least(n, q - 1)
      BY <2>1
    <2> HIDE DEF copy
    <2>3. copy.truncated = (n > q - 1)
      BY <2>1, Zenon
    <2> QED
      BY <2>2, <2>3
  <1>6. copy.chars \in 0 .. n /\ copy.chars + 1 <= q
    BY <1>2, <1>3, <1>5 DEF Least
  <1>9. copy.truncated <=> copy.chars < n
    BY <1>2, <1>3, <1>5 DEF Least
  <1> HIDE DEF copy
  <1>7. (copy.chars + 1) * WcharSize <= q * WcharSize
    BY <1>1, <1>2, <1>6, ProductGrows
  <1>8. (copy.chars + 1) * WcharSize \in 0 .. len
    BY <1>1, <1>2, <1>6, <1>7
  <1> QED
    BY <1>6, <1>8, <1>9 DEF copy, q

\* What a conversion to text makes, o, of a text of n characters.
TextPut(b, n, of, o) ==
  /\ (b.type = "CHAR" => b.len > 0) => o.bytes \subseteq 0 .. b.len - 1
  /\ o.bytes # {} => o.content.of = of
  /\ o.bytes # {} /\ Room(b) =>
       /\ o.res = "SUCCESS" => o.content.chars = n
       /\ o.res = "VARLEN_DATA_TRUNCATED"
            => o.content.chars \in Nat /\ o.content.chars < n
  /\ b.data /\ Room(b) /\ o.res = "SUCCESS" => o.bytes # {}

\* PutStrToStrBuffer into a narrow buffer.
LEMMA NarrowTextPut ==
  ASSUME NEW b, IsBinding(b), b.type # "WCHAR", NEW n \in Nat, NEW of
  PROVE  LET o == PutStrToStrBuffer(b, FALSE, n, of)
         IN  /\ TextPut(b, n, of, o)
             /\ b.data /\ Room(b) /\ o.res = "SUCCESS" => n > 0 /\ o.ind = n
  <1> DEFINE o == PutStrToStrBuffer(b, FALSE, n, of)
             kept == Least(n, IF b.len = 0 THEN 0 ELSE b.len - 1)
             Goal == /\ TextPut(b, n, of, o)
                     /\ b.data /\ Room(b) /\ o.res = "SUCCESS"
                          => n > 0 /\ o.ind = n
  <1> SUFFICES Goal
    OBVIOUS
  <1>1. b.len \in Nat
    BY DEF IsBinding
  <1>2. CASE ~b.data
    <2>1. o.bytes = {}
      BY <1>2 DEF PutStrToStrBuffer, Did
    <2> QED
      BY <1>2, <2>1 DEF TextPut
  <1>3. CASE b.data /\ n = 0
    <2>1. o.bytes = {} /\ o.res = "NO_DATA"
      BY <1>3 DEF PutStrToStrBuffer, Did
    <2> QED
      BY <2>1 DEF TextPut
  <1>4. CASE b.data /\ n # 0
    <2> DEFINE copy == Narrow(n, b.len)
    <2>1. /\ copy = [chars |-> kept, put |-> TRUE,
                     truncated |-> n > 0 /\ n >= b.len]
          /\ copy.put /\ copy.chars = kept
      BY DEF Narrow
    <2>2. /\ o.content = [k |-> "text", of |-> of, chars |-> kept]
          /\ o.bytes = IF kept = 0 THEN {} ELSE 0 .. (kept + 1) * 1 - 1
          /\ o.ind = (IF kept < n THEN n - kept ELSE n) * 1
          /\ o.res = IF copy.truncated
                       THEN "VARLEN_DATA_TRUNCATED" ELSE "SUCCESS"
      BY <1>4, <2>1 DEF PutStrToStrBuffer, Did
    <2>3. /\ kept \in 0 .. n
          /\ b.len > 0 => kept + 1 <= b.len
          /\ n < b.len => kept = n
          /\ n >= b.len => kept < n
          /\ b.len = 0 => kept = 0
      BY <1>1, <1>4 DEF Least
    <2> HIDE DEF o, kept, copy
    <2>4. copy.truncated <=> n >= b.len
      <3>1. copy.truncated = (n > 0 /\ n >= b.len)
        BY <2>1, Zenon
      <3>2. (n > 0 /\ n >= b.len) <=> n >= b.len
        BY <1>4
      <3> QED
        BY <3>1, <3>2, Zenon
    <2>5. o.bytes \subseteq 0 .. b.len - 1 /\ (n < b.len => o.bytes # {})
      <3>1. CASE kept = 0
        BY <1>1, <1>4, <2>2, <2>3, <3>1
      <3>2. CASE kept # 0
        <4>1. kept \in Nat /\ b.len > 0
          BY <1>1, <1>4, <2>3, <3>2
        <4>2. o.bytes = 0 .. kept
          <5>1. o.bytes = 0 .. (kept + 1) * 1 - 1
            BY <2>2, <3>2, Zenon
          <5> QED
            BY <4>1, <5>1
        <4>3. kept <= b.len - 1 /\ 0 \in 0 .. kept
          BY <1>1, <2>3, <4>1
        <4> QED
          BY <1>1, <4>1, <4>2, <4>3
      <3> QED
        BY <3>1, <3>2
    <2>6. /\ o.res = "SUCCESS" => n < b.len
          /\ o.res = "VARLEN_DATA_TRUNCATED" => n >= b.len
      BY <1>1, <1>4, <2>2, <2>4
    <2>7. TextPut(b, n, of, o)
      BY <1>1, <2>2, <2>3, <2>5, <2>6 DEF TextPut, Room
    <2> QED
      BY <1>1, <1>4, <2>2, <2>3, <2>6, <2>7
  <1> HIDE DEF Goal
  <1> QED
    BY <1>2, <1>3, <1>4

\* A wide copy, made by either of the conversions to text.
LEMMA WideCopied ==
  ASSUME NEW b, IsBinding(b), b.type = "WCHAR", b.data, NEW n \in Nat, NEW of,
         NEW copy, copy = Wide(n, b.len \div WcharSize),
         NEW kept, kept = IF copy.put THEN copy.chars ELSE 0,
         NEW o,
         o.content = [k |-> "text", of |-> of, chars |-> kept],
         o.bytes = IF b.len < WcharSize \/ ~copy.put THEN {}
                   ELSE 0 .. (kept + 1) * WcharSize - 1,
         o.res = IF copy.truncated THEN "VARLEN_DATA_TRUNCATED" ELSE "SUCCESS"
  PROVE  /\ TextPut(b, n, of, o)
         /\ Room(b) /\ o.res = "SUCCESS" => copy.chars = n
  <1>1. b.len \in Nat /\ WcharSize \in Nat \ {0}
    BY UnitsAssumption DEF IsBinding
  <1>2. Room(b) => copy.put /\ b.len >= WcharSize
    <2>1. Room(b) => b.len >= 2 * WcharSize
      BY DEF Room
    <2>2. Room(b) => b.len \div WcharSize >= 2
      BY <1>1, <2>1, AtLeastTwo
    <2>3. b.len \div WcharSize \in Nat
      BY <1>1, WholeUnits
    <2> QED
      BY <1>1, <2>1, <2>2, <2>3 DEF Wide
  <1>3. CASE b.len < WcharSize \/ ~copy.put
    <2>1. o.bytes = {} /\ ~Room(b)
      BY <1>1, <1>2, <1>3
    <2> QED
      BY <2>1 DEF TextPut
  <1>4. CASE b.len >= WcharSize /\ copy.put
    <2>1. /\ copy.chars \in 0 .. n
          /\ (copy.chars + 1) * WcharSize \in 0 .. b.len
          /\ b.len >= 2 * WcharSize => (copy.truncated <=> copy.chars < n)
      BY <1>1, <1>4, WideStays
    <2>2. kept = copy.chars
      BY <1>4
    <2>3. o.bytes = 0 .. (copy.chars + 1) * WcharSize - 1
      BY <1>1, <1>4
    <2>4. (copy.chars + 1) * WcharSize > 0
      BY <1>1, <2>1
    <2>5. o.bytes \subseteq 0 .. b.len - 1 /\ o.bytes # {}
      <3> DEFINE m == (copy.chars + 1) * WcharSize
      <3>1. m \in 0 .. b.len /\ m > 0 /\ o.bytes = 0 .. m - 1
        BY <2>1, <2>3, <2>4
      <3> HIDE DEF m
      <3>2. 0 .. m - 1 \subseteq 0 .. b.len - 1 /\ 0 \in 0 .. m - 1
        BY <3>1, <1>1
      <3> QED
        BY <3>1, <3>2
    <2>6. Room(b) => (copy.truncated <=> copy.chars < n)
      BY <2>1 DEF Room
    <2>7. Room(b) /\ o.res = "SUCCESS" => copy.chars = n
      BY <2>1, <2>6
    <2>8. Room(b) /\ o.res = "VARLEN_DATA_TRUNCATED" => copy.chars < n
      BY <2>1, <2>6
    <2>9. o.content.of = of /\ o.content.chars = copy.chars
      BY <2>2
    <2> QED
      BY <2>1, <2>5, <2>7, <2>8, <2>9 DEF TextPut
  <1> QED
    BY <1>1, <1>3, <1>4

\* The wide copy of a text keeps nothing when there is no room for a
\* character and the terminator.
LEMMA WideKeeps ==
  ASSUME NEW n \in Nat \ {0}, NEW len \in Nat,
         NEW copy, copy = Wide(n, len \div WcharSize)
  PROVE  (IF copy.put THEN copy.chars ELSE 0) = 0
           <=> len < WcharSize \/ ~copy.put
  <1> DEFINE q == len \div WcharSize
  <1>1. WcharSize \in Nat \ {0}
    BY UnitsAssumption
  <1>2. q \in Nat /\ (q = 0 <=> len < WcharSize)
    BY <1>1
  <1>3. copy = Wide(n, q)
    OBVIOUS
  <1> HIDE DEF q
  <1>4. CASE q = 0
    <2>1. copy.put /\ copy.chars = 0
      BY <1>3, <1>4 DEF Wide
    <2> QED
      BY <1>2, <1>4, <2>1
  <1>5. CASE q = 1
    <2>1. ~copy.put
      BY <1>3, <1>5 DEF Wide
    <2> QED
      BY <2>1
  <1>6. CASE q > 1
    <2>1. copy.put /\ copy.chars = Least(n, q - 1)
      BY <1>2, <1>3, <1>6 DEF Wide
    <2>2. Least(n, q - 1) > 0
      BY <1>2, <1>6 DEF Least
    <2> QED
      BY <1>2, <1>6, <2>1, <2>2
  <1> QED
    BY <1>2, <1>4, <1>5, <1>6

\* PutStrToStrBuffer into a wide buffer.
LEMMA WideTextPut ==
  ASSUME NEW b, IsBinding(b), b.type = "WCHAR", NEW n \in Nat, NEW of
  PROVE  LET o == PutStrToStrBuffer(b, TRUE, n, of)
         IN  /\ TextPut(b, n, of, o)
             /\ b.data /\ Room(b) /\ o.res = "SUCCESS"
                  => n > 0 /\ o.ind = n * WcharSize
  <1> DEFINE o == PutStrToStrBuffer(b, TRUE, n, of)
             copy == Wide(n, b.len \div WcharSize)
             kept == IF copy.put THEN copy.chars ELSE 0
             Goal == /\ TextPut(b, n, of, o)
                     /\ b.data /\ Room(b) /\ o.res = "SUCCESS"
                          => n > 0 /\ o.ind = n * WcharSize
  <1> SUFFICES Goal
    OBVIOUS
  <1>1. CASE ~b.data
    <2>1. o.bytes = {}
      BY <1>1 DEF PutStrToStrBuffer, Did
    <2> QED
      BY <1>1, <2>1 DEF TextPut
  <1>2. CASE b.data /\ n = 0
    <2>1. o.bytes = {} /\ o.res = "NO_DATA"
      BY <1>2 DEF PutStrToStrBuffer, Did
    <2> QED
      BY <2>1 DEF TextPut
  <1>3. CASE b.data /\ n # 0
    <2>1. /\ o.content = [k |-> "text", of |-> of, chars |-> kept]
          /\ o.bytes = IF kept = 0 THEN {} ELSE 0 .. (kept + 1) * WcharSize - 1
          /\ o.ind = (IF copy.chars < n THEN n - copy.chars ELSE n) * WcharSize
          /\ o.res = IF copy.truncated
                       THEN "VARLEN_DATA_TRUNCATED" ELSE "SUCCESS"
      BY <1>3 DEF PutStrToStrBuffer, Did
    <2> HIDE DEF o
    <2>3. kept = 0 <=> b.len < WcharSize \/ ~copy.put
      BY <1>3, WideKeeps DEF IsBinding
    <2>4. o.bytes = IF b.len < WcharSize \/ ~copy.put THEN {}
                    ELSE 0 .. (kept + 1) * WcharSize - 1
      <3> HIDE DEF kept, copy
      <3> QED
        BY <2>1, <2>3
    <2>2. /\ TextPut(b, n, of, o)
          /\ Room(b) /\ o.res = "SUCCESS" => copy.chars = n
      BY <1>3, <2>1, <2>4, WideCopied
    <2> HIDE DEF copy
    <2> QED
      BY <1>3, <2>1, <2>2
  <1> HIDE DEF Goal
  <1> QED
    BY <1>1, <1>2, <1>3

\* Dates, times and intervals as text.
LEMMA FormattedPut ==
  ASSUME NEW b, IsBinding(b), b.type \in {"CHAR", "WCHAR"}, NEW n \in Nat, NEW of
  PROVE  LET o == PutFormatted(b, n, of)
         IN  TextPut(b, n, of, o) /\ o.ind = n
  <1> DEFINE o == PutFormatted(b, n, of)
             copy == Wide(n, b.len \div WcharSize)
             kept == IF copy.put THEN copy.chars ELSE 0
  <1> SUFFICES TextPut(b, n, of, o) /\ o.ind = n
    OBVIOUS
  <1>1. b.len \in Nat
    BY DEF IsBinding
  <1>2. CASE ~b.data
    <2>1. o.bytes = {} /\ o.ind = n
      BY <1>2 DEF PutFormatted, Did
    <2> QED
      BY <1>2, <2>1 DEF TextPut
  <1>3. CASE b.data /\ b.type = "CHAR"
    <2> DEFINE cut == Least(n, IF b.len = 0 THEN 0 ELSE b.len - 1)
    <2>1. /\ o.content = [k |-> "text", of |-> of, chars |-> cut]
          /\ o.bytes = 0 .. Least(n, b.len - 1) \cup {Least(n, b.len - 1)}
          /\ o.ind = n
          /\ o.res = IF n + 1 > b.len
                       THEN "VARLEN_DATA_TRUNCATED" ELSE "SUCCESS"
      BY <1>3 DEF PutFormatted, Did
    <2>2. b.len > 0 => Least(n, b.len - 1) \in 0 .. b.len - 1
      BY <1>1 DEF Least
    <2>3. (b.len > 0 => o.bytes \subseteq 0 .. b.len - 1) /\ o.bytes # {}
      BY <1>1, <2>1, <2>2
    <2>4. b.len > 0 => /\ cut \in Nat
                       /\ n + 1 > b.len => cut < n
                       /\ n + 1 <= b.len => cut = n
      BY <1>1 DEF Least
    <2> HIDE DEF o, cut
    <2> QED
      BY <1>1, <1>3, <2>1, <2>3, <2>4 DEF TextPut, Room
  <1>4. CASE b.data /\ b.type = "WCHAR"
    <2>1. /\ o.content = [k |-> "text", of |-> of, chars |-> kept]
          /\ o.bytes = IF b.len < WcharSize \/ ~copy.put THEN {}
                       ELSE 0 .. (kept + 1) * WcharSize - 1
          /\ o.ind = n
          /\ o.res = IF copy.truncated
                       THEN "VARLEN_DATA_TRUNCATED" ELSE "SUCCESS"
      BY <1>4 DEF PutFormatted, Did
    <2> HIDE DEF o
    <2> QED
      BY <1>4, <2>1, WideCopied
  <1> HIDE DEF o
  <1> QED
    BY <1>2, <1>3, <1>4 DEF IsBinding

\* A number or another text whose width is that of the buffer.
LEMMA NumberTextPut ==
  ASSUME NEW b, IsBinding(b), b.type \in {"CHAR", "WCHAR"}, NEW n \in Nat, NEW of
  PROVE  LET o == PutStrToStrBuffer(b, b.type = "WCHAR", n, of)
         IN  /\ TextPut(b, n, of, o)
             /\ b.data /\ Room(b) /\ o.res = "SUCCESS"
                  => /\ n > 0
                     /\ o.ind = IF b.type = "WCHAR" THEN n * WcharSize ELSE n
  <1>1. CASE b.type = "WCHAR"
    <2>1. (b.type = "WCHAR") = TRUE
      BY <1>1
    <2>2. (IF b.type = "WCHAR" THEN n * WcharSize ELSE n) = n * WcharSize
      BY <1>1
    <2>3. LET o == PutStrToStrBuffer(b, TRUE, n, of)
          IN  /\ TextPut(b, n, of, o)
              /\ b.data /\ Room(b) /\ o.res = "SUCCESS"
                   => n > 0 /\ o.ind = n * WcharSize
      BY <1>1, WideTextPut
    <2> QED
      BY <2>1, <2>2, <2>3, Zenon
  <1>2. CASE b.type = "CHAR"
    <2>1. (b.type = "WCHAR") = FALSE /\ b.type # "WCHAR"
      BY <1>2
    <2> QED
      BY <1>2, <2>1, NarrowTextPut, Zenon
  <1> QED
    BY <1>1, <1>2

\* A text put with success is read back.
LEMMA TextReadsBack ==
  ASSUME NEW b, IsBinding(b), b.type \in {"CHAR", "WCHAR"}, NEW n \in Nat \ {0},
         NEW of, NEW c, c.of = of, c.chars = n, NEW ind,
         b.ind => ind = IF b.type = "WCHAR" THEN n * WcharSize ELSE n
  PROVE  GetString(b, c, ind) = [of |-> of, chars |-> n]
  <1>1. WcharSize \in Nat \ {0}
    BY UnitsAssumption
  <1>2. CASE b.ind /\ b.type = "WCHAR"
    <2>1. ind = n * WcharSize /\ ind \in Nat \ {0} /\ ind \div WcharSize = n
      BY <1>1, <1>2, UnitsBack
    <2>2. ~IsDataAtExec(b, ind)
      BY <2>1 DEF IsDataAtExec
    <2>3. GetInputSize(b, ind) = ind
      BY <1>2, <2>2 DEF GetInputSize
    <2> QED
      BY <1>2, <2>1, <2>3 DEF GetString, Least
  <1>3. CASE b.ind /\ b.type = "CHAR"
    <2>1. ind = n
      BY <1>3
    <2>2. ~IsDataAtExec(b, ind)
      BY <2>1 DEF IsDataAtExec
    <2>3. GetInputSize(b, ind) = ind
      BY <1>3, <2>2 DEF GetInputSize
    <2> QED
      BY <1>3, <2>1, <2>3 DEF GetString, Least
  <1>4. CASE ~b.ind
    <2>1. GetInputSize(b, ind) = -3
      BY <1>4 DEF GetInputSize, IsDataAtExec
    <2> QED
      BY <2>1 DEF GetString
  <1> QED
    BY <1>2, <1>3, <1>4

-----------------------------------------------------------------------------
(* The length of an array or a row written as text. *)

\* Induction over the natural numbers for a set of numbers.
LEMMA SetInduction ==
  ASSUME NEW T, T \subseteq Nat, 0 \in T, \A n \in T : n + 1 \in T
  PROVE  T = Nat
<1> SUFFICES ASSUME Nat \ T # {} PROVE FALSE
  OBVIOUS
<1>1. IsWellFoundedOn(OpToRel(<, Nat), Nat)
  BY NatLessThanWellFounded
<1>2. Nat \ T \subseteq Nat
  OBVIOUS
<1>3. \E n \in Nat \ T : \A k \in Nat \ T : <<k, n>> \notin OpToRel(<, Nat)
  <2> DEFINE R == OpToRel(<, Nat)
             U == Nat \ T
  <2>1. IsWellFoundedOn(R, Nat) /\ U \subseteq Nat /\ U # {}
    BY <1>1, <1>2
  <2> HIDE DEF R, U
  <2>2. \E n \in U : \A k \in U : <<k, n>> \notin R
    BY <2>1, WFMin
  <2> QED  BY <2>2 DEF R, U
<1>4. PICK n \in Nat \ T : \A k \in Nat \ T : <<k, n>> \notin OpToRel(<, Nat)
  BY <1>3
<1>5. n # 0 /\ n \in Nat /\ n - 1 \in Nat /\ n - 1 < n /\ (n - 1) + 1 = n
  <2>1. n # 0 /\ n \in Nat
    OBVIOUS
  <2> QED  BY <2>1
<1>6. <<n - 1, n>> \in OpToRel(<, Nat)
  BY <1>5 DEF OpToRel
<1>7. n - 1 \in T
  BY <1>4, <1>5, <1>6
<1> QED  BY <1>4, <1>5, <1>7

\* f[i] is the length of the first i elements, for i up to n.
IsLength(f, elements, n) ==
  f = [i \in 0 .. n |-> IF i = 0 THEN 1 ELSE f[i - 1] + elements[i] + 1]

\* What an element's own buffer leaves of it.
LEMMA ElementLength ==
  ASSUME NEW e \in Nat
  PROVE  /\ Narrow(e, ElementBuffer).chars \in 0 .. e
         /\ e < ElementBuffer => Narrow(e, ElementBuffer).chars = e
  <1>1. ElementBuffer \in Nat
    BY UnitsAssumption
  <1> QED
    BY <1>1 DEF Narrow, Least

LEMMA LongerLength ==
  ASSUME NEW elements \in Seq(Nat), NEW n \in Nat, n + 1 <= Len(elements),
         NEW f \in [0 .. n -> Nat], IsLength(f, elements, n)
  PROVE  \E g \in [0 .. n + 1 -> Nat] : IsLength(g, elements, n + 1)
  <1> DEFINE more(i) == elements[i]
             g == [i \in 0 .. n + 1 |->
                     IF i = n + 1 THEN f[n] + more(n + 1) + 1 ELSE f[i]]
  <1>1. \A i \in 0 .. n : f[i] = IF i = 0 THEN 1 ELSE f[i - 1] + more(i) + 1
    BY Zenon DEF IsLength
  <1>2. more(n + 1) \in Nat
    OBVIOUS
  <1> HIDE DEF more
  <1>3. g \in [0 .. n + 1 -> Nat]
    BY <1>2
  <1>4. \A i \in 0 .. n + 1 : g[i] = IF i = 0 THEN 1 ELSE g[i - 1] + more(i) + 1
    BY <1>1
  <1>5. g = [i \in 0 .. n + 1 |-> g[i]]
    OBVIOUS
  <1> HIDE DEF g
  <1>6. g = [i \in 0 .. n + 1 |-> IF i = 0 THEN 1 ELSE g[i - 1] + more(i) + 1]
    BY <1>4, <1>5, Zenon
  <1>7. IsLength(g, elements, n + 1)
    BY <1>6, Zenon DEF IsLength, more
  <1> QED
    BY <1>3, <1>7

LEMMA LengthExists ==
  ASSUME NEW elements \in Seq(Nat)
  PROVE  \E f \in [0 .. Len(elements) -> Nat] :
           IsLength(f, elements, Len(elements))
  <1> DEFINE Has(n) == \E f \in [0 .. n -> Nat] : IsLength(f, elements, n)
             T == {n \in Nat : n <= Len(elements) => Has(n)}
  <1>1. Len(elements) \in Nat
    OBVIOUS
  <1>2. Has(0)
    <2> DEFINE f == [i \in 0 .. 0 |-> 1]
    <2>1. f = [i \in 0 .. 0 |->
                 IF i = 0 THEN 1 ELSE f[i - 1] + elements[i] + 1]
      OBVIOUS
    <2>2. f \in [0 .. 0 -> Nat]
      OBVIOUS
    <2> HIDE DEF f
    <2>3. IsLength(f, elements, 0)
      BY <2>1, Zenon DEF IsLength
    <2> QED
      BY <2>2, <2>3
  <1>3. \A n \in Nat : Has(n) /\ n + 1 <= Len(elements) => Has(n + 1)
    BY LongerLength
  <1> HIDE DEF Has
  <1>4. T \subseteq Nat /\ 0 \in T /\ \A n \in T : n + 1 \in T
    BY <1>1, <1>2, <1>3
  <1>5. Has(Len(elements))
    <2> HIDE DEF T
    <2>1. Len(elements) \in T
      BY <1>1, <1>4, SetInduction
    <2> QED
      BY <2>1 DEF T
  <1> QED
    BY <1>5 DEF Has

LEMMA LengthsAgree ==
  ASSUME NEW elements \in Seq(Nat), NEW f \in [0 .. Len(elements) -> Nat],
         IsLength(f, elements, Len(elements)),
         NEW g, IsLength(g, elements, Len(elements))
  PROVE  \A n \in 0 .. Len(elements) : f[n] = g[n]
  <1> DEFINE N == Len(elements)
             more(i) == elements[i]
             T == {n \in Nat : n <= N => f[n] = g[n]}
  <1>1. \A i \in 0 .. N : f[i] = IF i = 0 THEN 1 ELSE f[i - 1] + more(i) + 1
    BY Zenon DEF IsLength
  <1>2. \A i \in 0 .. N : g[i] = IF i = 0 THEN 1 ELSE g[i - 1] + more(i) + 1
    BY Zenon DEF IsLength
  <1>3. N \in Nat
    OBVIOUS
  <1> HIDE DEF more, N
  <1>4. 0 \in T
    BY <1>1, <1>2, <1>3
  <1>5. \A n \in T : n + 1 \in T
    <2> TAKE n \in T
    <2> SUFFICES ASSUME n + 1 <= N PROVE f[n + 1] = g[n + 1]
      OBVIOUS
    <2>1. f[n] = g[n] /\ n + 1 \in 0 .. N /\ (n + 1) - 1 = n /\ n + 1 # 0
      BY <1>3
    <2>2. /\ f[n + 1] = f[(n + 1) - 1] + more(n + 1) + 1
          /\ g[n + 1] = g[(n + 1) - 1] + more(n + 1) + 1
      BY <1>1, <1>2, <2>1
    <2> QED
      BY <2>1, <2>2
  <1>6. T \subseteq Nat
    OBVIOUS
  <1>7. T = Nat
    <2> HIDE DEF T
    <2> QED  BY <1>4, <1>5, <1>6, SetInduction
  <1> QED
    BY <1>3, <1>7 DEF N

\* The length of joined elements is the one the recursion defines.
LEMMA LengthIs ==
  ASSUME NEW elements \in Seq(Nat),
         NEW f \in [0 .. Len(elements) -> Nat],
         IsLength(f, elements, Len(elements))
  PROVE  Length(elements) = f[Len(elements)]
  <1> DEFINE N == Len(elements)
             g == CHOOSE g : IsLength(g, elements, N)
  <1>2. IsLength(g, elements, N)
    BY Zenon
  <1>3. Length(elements) = g[N]
    BY DEF Length, IsLength
  <1> HIDE DEF g
  <1>4. \A n \in 0 .. N : f[n] = g[n]
    BY <1>2, LengthsAgree
  <1>5. N \in 0 .. N
    OBVIOUS
  <1> QED
    BY <1>3, <1>4, <1>5

\* Shorter elements make a shorter text.
LEMMA LengthsOrdered ==
  ASSUME NEW d \in Seq(Nat), NEW e \in Seq(Nat), Len(d) = Len(e),
         \A i \in 1 .. Len(e) : d[i] <= e[i]
  PROVE  Length(d) \in Nat /\ Length(e) \in Nat /\ Length(d) <= Length(e)
  <1> DEFINE N == Len(e)
  <1>1. PICK f \in [0 .. N -> Nat] : IsLength(f, d, N)
    BY LengthExists
  <1>2. PICK g \in [0 .. N -> Nat] : IsLength(g, e, N)
    BY LengthExists
  <1> DEFINE T == {n \in Nat : n <= N => f[n] <= g[n]}
  <1>3. \A i \in 0 .. N : f[i] = IF i = 0 THEN 1 ELSE f[i - 1] + d[i] + 1
    BY <1>1, Zenon DEF IsLength
  <1>4. \A i \in 0 .. N : g[i] = IF i = 0 THEN 1 ELSE g[i - 1] + e[i] + 1
    BY <1>2, Zenon DEF IsLength
  <1>5. N \in Nat
    OBVIOUS
  <1>6. Length(d) = f[N] /\ Length(e) = g[N]
    BY <1>1, <1>2, LengthIs
  <1>7. \A i \in 1 .. N : d[i] \in Nat /\ e[i] \in Nat /\ d[i] <= e[i]
    OBVIOUS
  <1> HIDE DEF N
  <1>8. 0 \in T
    BY <1>3, <1>4, <1>5
  <1>9. \A n \in T : n + 1 \in T
    <2> TAKE n \in T
    <2> SUFFICES ASSUME n + 1 <= N PROVE f[n + 1] <= g[n + 1]
      <3>1. n + 1 \in Nat
        OBVIOUS
      <3> QED
        BY <3>1
    <2>1. /\ f[n] <= g[n] /\ n + 1 \in 0 .. N /\ (n + 1) - 1 = n /\ n + 1 # 0
          /\ n \in 0 .. N /\ n + 1 \in 1 .. N
      BY <1>5
    <2>2. /\ f[n + 1] = f[n] + d[n + 1] + 1
          /\ g[n + 1] = g[n] + e[n + 1] + 1
      BY <1>3, <1>4, <2>1
    <2>3. /\ d[n + 1] \in Nat /\ e[n + 1] \in Nat /\ d[n + 1] <= e[n + 1]
          /\ f[n] \in Nat /\ g[n] \in Nat
      BY <1>1, <1>2, <1>7, <2>1
    <2> DEFINE fn == f[n]  gn == g[n]  dn == d[n + 1]  en == e[n + 1]
    <2>4. fn + dn + 1 <= gn + en + 1
      <3>1. fn \in Nat /\ gn \in Nat /\ dn \in Nat /\ en \in Nat
        BY <2>3
      <3>2. fn <= gn /\ dn <= en
        BY <2>1, <2>3
      <3> HIDE DEF fn, gn, dn, en
      <3> QED
        BY <3>1, <3>2
    <2> QED
      BY <2>2, <2>4
  <1>10. T \subseteq Nat
    OBVIOUS
  <1>11. T = Nat
    <2> HIDE DEF T
    <2> QED  BY <1>8, <1>9, <1>10, SetInduction
  <1>12. f[N] <= g[N] /\ f[N] \in Nat /\ g[N] \in Nat
    <2>1. N \in T
      <3> HIDE DEF T
      <3> QED
        BY <1>5, <1>11, Zenon
    <2>2. N \in 0 .. N /\ N <= N
      BY <1>5
    <2> QED
      BY <1>1, <1>2, <2>1, <2>2
  <1> QED
    BY <1>6, <1>12

\* The text of an array or a row is at most as long as its elements make it,
\* and that long when each of them fits its buffer.
LEMMA JoinedIsLength ==
  ASSUME NEW v, v.elements \in Seq(Nat)
  PROVE  /\ Joined(v) \in Nat /\ Length(v.elements) \in Nat
         /\ Joined(v) <= Length(v.elements)
         /\ (\A i \in 1 .. Len(v.elements) : v.elements[i] < ElementBuffer)
              => Joined(v) = Length(v.elements)
  <1> DEFINE e == v.elements
             N == Len(e)
             cut(i) == Narrow(e[i], ElementBuffer).chars
             d == [i \in 1 .. N |-> cut(i)]
  <1>1. N \in Nat /\ \A i \in 1 .. N : e[i] \in Nat
    OBVIOUS
  <1>2. \A i \in 1 .. N : /\ cut(i) \in Nat /\ cut(i) <= e[i]
                          /\ e[i] < ElementBuffer => cut(i) = e[i]
    BY <1>1, ElementLength
  <1>3. Joined(v) = Length(d)
    BY Zenon DEF Joined
  <1> HIDE DEF cut
  <1>4. d \in Seq(Nat) /\ Len(d) = N /\ \A i \in 1 .. N : d[i] = cut(i)
    BY <1>1, <1>2
  <1>5. e = [i \in 1 .. N |-> e[i]]
    OBVIOUS
  <1>6. ASSUME \A i \in 1 .. N : e[i] < ElementBuffer PROVE d = e
    BY <1>2, <1>5, <1>6
  <1> HIDE DEF d
  <1>7. \A i \in 1 .. Len(e) : d[i] <= e[i]
    BY <1>2, <1>4
  <1>8. Length(d) \in Nat /\ Length(e) \in Nat /\ Length(d) <= Length(e)
    BY <1>4, <1>7, LengthsOrdered
  <1> QED
    BY <1>3, <1>6, <1>8

-----------------------------------------------------------------------------
(* What every conversion does *)

\* The bytes o writes lie in the element of its row.
InElement(b, o) ==
  b.type \notin IntervalTypes \cup {"DEFAULT"}
  /\ (b.type = "CHAR" => b.len > 0)
    => o.bytes \subseteq 0 .. GetElementSize(b) - 1

\* A cut is told, and nothing else is told as a cut.
TellsCut(b, v, o) ==
  b.type \in {"CHAR", "WCHAR"} /\ Roomy(b) /\ o.bytes # {} =>
    /\ o.res = "SUCCESS" /\ ~SilentCut(b, v)
         => o.content.chars = WholeLength(v)
    /\ o.res = "VARLEN_DATA_TRUNCATED" => o.content.chars < WholeLength(v)

\* What is in an element after o.
Holds(b, o, c, ind) ==
  /\ o.bytes # {} => c = o.content
  /\ b.ind /\ o.ind # Unset => ind = o.ind

\* With success the value can be read back.
Readable(b, v, o) ==
  o.res = "SUCCESS" /\ b.data /\ Roomy(b) =>
    \A c, ind : Holds(b, o, c, ind) => ReadsBack(b, v, c, ind)

\* A text lies in its element.
LEMMA TextInElement ==
  ASSUME NEW b, b.type \in {"CHAR", "WCHAR", "BINARY"}, NEW n, NEW of, NEW o,
         TextPut(b, n, of, o)
  PROVE  InElement(b, o)
  BY DEF TextPut, InElement, GetElementSize

\* A value of fixed size lies in its element.
LEMMA FixedInElement ==
  ASSUME NEW b, IsBinding(b), b.type \notin {"CHAR", "WCHAR", "BINARY"},
         NEW res, NEW content
  PROVE  InElement(b, Fixed(b, res, content)) /\ InElement(b, Struct(b, res, content))
  <1>1. CASE b.type \in IntervalTypes \cup {"DEFAULT"}
    BY <1>1 DEF InElement
  <1>2. CASE b.type \notin IntervalTypes \cup {"DEFAULT"}
    <2>1. b.type # "UNSUPPORTED"
      BY IntervalTypesAre
      DEF IsBinding, BufferTypes, IntTypes, Signed, Unsigned, FloatTypes
    <2>2. GetElementSize(b) = SizeOf(b.type)
      BY <1>2, <2>1 DEF GetElementSize
    <2>3. Fixed(b, res, content).bytes \subseteq 0 .. SizeOf(b.type) - 1
      BY DEF Fixed, Did, FirstBytes
    <2>4. Struct(b, res, content).bytes \subseteq 0 .. SizeOf(b.type) - 1
      BY <2>3 DEF Struct, Did
    <2> QED
      BY <2>2, <2>3, <2>4 DEF InElement
  <1> QED
    BY <1>1, <1>2

LEMMA UnsupportedInElement ==
  ASSUME NEW b
  PROVE  InElement(b, Unsupported)
  BY DEF InElement, Unsupported, Did

\* The result of a conversion has nothing to do with its bytes.
LEMMA OtherResult ==
  ASSUME NEW b, NEW o, InElement(b, o), NEW res,
         o = [res |-> o.res, ind |-> o.ind, content |-> o.content,
              bytes |-> o.bytes]
  PROVE  InElement(b, [o EXCEPT !.res = res])
  BY DEF InElement

\* The conversions of moments keep to the element.
LEMMA MomentInElement ==
  ASSUME NEW b, IsBinding(b), NEW t
  PROVE  /\ InElement(b, PutDate(b, t)) /\ InElement(b, PutTimestamp(b, t))
         /\ InElement(b, PutTime(b, t))
  <1>1. CASE b.type = "CHAR"
    <2>1. \A n \in Nat : \A of : InElement(b, PutFormatted(b, n, of))
      BY <1>1, FormattedPut, TextInElement
    <2> QED
      BY <1>1, <2>1 DEF PutDate, PutTimestamp, PutTime
  <1>2. CASE b.type = "WCHAR"
    <2>1. \A n \in Nat : \A of : InElement(b, PutFormatted(b, n, of))
      BY <1>2, FormattedPut, TextInElement
    <2>2. InElement(b, PutTimestamp(b, t)) /\ InElement(b, PutTime(b, t))
      BY <1>2, <2>1 DEF PutTimestamp, PutTime
    <2>3. PutDate(b, t).bytes = PutFormatted(b, 10, DateOf(t)).bytes
      BY <1>2 DEF PutDate, PutFormatted, Did
    <2> QED
      BY <2>1, <2>2, <2>3 DEF InElement
  <1>3. CASE b.type \notin {"CHAR", "WCHAR"}
    <2>1. InElement(b, Unsupported)
      BY UnsupportedInElement
    <2>2. CASE b.type \in {"TDATE", "TTIME", "TTIMESTAMP"}
      <3>1. \A res, content : InElement(b, Struct(b, res, content))
        BY <2>2, FixedInElement
      <3> QED
        BY <2>1, <2>2, <3>1 DEF PutDate, PutTimestamp, PutTime
    <2>3. CASE b.type \notin {"TDATE", "TTIME", "TTIMESTAMP"}
      BY <1>3, <2>1, <2>3 DEF PutDate, PutTimestamp, PutTime
    <2> QED
      BY <2>2, <2>3
  <1> QED
    BY <1>1, <1>2, <1>3

\* PutNum keeps to the element.
LEMMA NumberInElement ==
  ASSUME NEW b, IsBinding(b), NEW h \in Int, NEW size \in Nat,
         NEW floating \in BOOLEAN, NEW o \in PutNum(b, h, size, floating)
  PROVE  InElement(b, o)
  <1>1. CASE b.type \in IntTypes \cup FloatTypes \cup {"NUMERIC"}
    <2>1. b.type \notin {"CHAR", "WCHAR", "BINARY"}
      BY <1>1 DEF IntTypes, Signed, Unsigned, FloatTypes
    <2>2. \A res, content : InElement(b, Fixed(b, res, content))
      BY <2>1, FixedInElement
    <2>3. \E res, content : o = Fixed(b, res, content)
      <3>1. CASE b.type \in IntTypes \cup FloatTypes
        BY <3>1, SMT DEF PutNum, IntTypes, Signed, Unsigned, FloatTypes
      <3>2. CASE b.type = "NUMERIC"
        BY <3>2, SMT DEF PutNum, IntTypes, Signed, Unsigned, FloatTypes
      <3> QED
        BY <1>1, <3>1, <3>2
    <2> QED
      BY <2>2, <2>3
  <1>2. CASE b.type \in {"CHAR", "WCHAR"}
    <2> DEFINE n == Streamed(h, floating)
               len == StreamLength(n, floating)
    <2>1. o = PutStrToStrBuffer(b, b.type = "WCHAR", len, Num(n))
      BY <1>2, SMT DEF PutNum, IntTypes, Signed, Unsigned, FloatTypes
    <2>2. len \in Nat
      BY StreamedIsInt, StreamLengthIsPositive
    <2> HIDE DEF n, len
    <2>3. TextPut(b, len, Num(n), o)
      BY <1>2, <2>1, <2>2, NumberTextPut
    <2> QED
      BY <1>2, <2>3, TextInElement
  <1>3. CASE b.type = "BINARY"
    <2>1. o.bytes = FirstBytes(b, Least(size, b.len))
      BY <1>3, SMT DEF PutNum, Did, IntTypes, Signed, Unsigned, FloatTypes
    <2>2. b.len \in Nat /\ GetElementSize(b) = b.len
      BY <1>3 DEF IsBinding, GetElementSize
    <2> QED
      BY <2>1, <2>2 DEF InElement, FirstBytes, Least
  <1>4. CASE b.type \in {"TDATE", "TTIME", "TTIMESTAMP"}
    <2>1. \E t : o \in {PutDate(b, t), PutTimestamp(b, t), PutTime(b, t)}
      BY <1>4, SMT DEF PutNum, IntTypes, Signed, Unsigned, FloatTypes
    <2> QED
      BY <2>1, MomentInElement
  <1>5. CASE b.type \in IntervalTypes \cup {"DEFAULT"}
    BY <1>5 DEF InElement
  <1> QED
    BY <1>1, <1>2, <1>3, <1>4, <1>5 DEF IsBinding, BufferTypes

\* What PutNum makes has the fields of an outcome.
LEMMA NumberFields ==
  ASSUME NEW b, b.type \in IntTypes \cup FloatTypes, NEW h, NEW size,
         NEW floating, NEW o \in PutNum(b, h, size, floating)
  PROVE  o = [res |-> o.res, ind |-> o.ind, content |-> o.content,
              bytes |-> o.bytes]
  BY SMT DEF PutNum, Fixed, Did, IntTypes, Signed, Unsigned, FloatTypes

\* PutString keeps to the element.
LEMMA StringInElement ==
  ASSUME NEW b, IsBinding(b), NEW v, v.chars \in Nat, v.spells \in Int,
         NEW o \in PutString(b, v)
  PROVE  InElement(b, o)
  <1>7. \A h \in Extracted(v) : h \in Int /\ 2 * Quot(h, 2) \in Int
    BY DEF Extracted, Uninitialized, Quot
  <1>1. CASE b.type \in IntTypes \cup {"NUMERIC"}
    <2>1. \E h \in Extracted(v) : o \in PutNum(b, 2 * Quot(h, 2), 8, FALSE)
      BY <1>1 DEF PutString, IntTypes, Signed, Unsigned, FloatTypes
    <2>2. PICK h \in Extracted(v) : o \in PutNum(b, 2 * Quot(h, 2), 8, FALSE)
      BY <2>1
    <2> QED
      BY <1>7, <2>2, NumberInElement
  <1>2. CASE b.type \in FloatTypes
    <2>1. \E h \in Extracted(v) : o \in PutNum(b, h, 8, TRUE)
      BY <1>2 DEF PutString, IntTypes, Signed, Unsigned, FloatTypes
    <2>2. PICK h \in Extracted(v) : o \in PutNum(b, h, 8, TRUE)
      BY <2>1
    <2> QED
      BY <1>7, <2>2, NumberInElement
  <1>3. CASE b.type \in {"CHAR", "BINARY"}
    <2>1. o = PutStrToStrBuffer(b, FALSE, v.chars, v)
      BY <1>3 DEF PutString, IntTypes, Signed, Unsigned, FloatTypes
    <2>2. TextPut(b, v.chars, v, o)
      BY <1>3, <2>1, NarrowTextPut
    <2> QED
      BY <1>3, <2>2, TextInElement
  <1>4. CASE b.type = "WCHAR"
    <2>1. o = PutStrToStrBuffer(b, TRUE, v.chars, v)
      BY <1>4 DEF PutString, IntTypes, Signed, Unsigned, FloatTypes
    <2>2. TextPut(b, v.chars, v, o)
      BY <1>4, <2>1, WideTextPut
    <2> QED
      BY <1>4, <2>2, TextInElement
  <1>5. CASE b.type \in {"TDATE", "TTIME", "TTIMESTAMP"}
    <2>1. o = Unsupported
      BY <1>5 DEF PutString, IntTypes, Signed, Unsigned, FloatTypes
    <2> QED
      BY <2>1, UnsupportedInElement
  <1>6. CASE b.type \in IntervalTypes \cup {"DEFAULT"}
    BY <1>6 DEF InElement
  <1> QED
    BY <1>1, <1>2, <1>3, <1>4, <1>5, <1>6 DEF IsBinding, BufferTypes

\* PutDecimal keeps to the element.
LEMMA DecimalInElement ==
  ASSUME NEW b, IsBinding(b), NEW v, v.h \in Int, NEW o \in PutDecimal(b, v)
  PROVE  InElement(b, o)
  <1>1. CASE b.type \in IntTypes \cup FloatTypes
    <2>1. 2 * Quot(v.h, 2) \in Int
      BY DEF Quot
    <2>2. \E p \in PutNum(b, 2 * Quot(v.h, 2), 8, FALSE)
                     \cup PutNum(b, v.h, 8, TRUE) :
            o = [p EXCEPT !.res = "FRACTIONAL_TRUNCATED"]
      <3>1. CASE b.type \in IntTypes
        BY <3>1 DEF PutDecimal, IntTypes, Signed, Unsigned, FloatTypes
      <3>2. CASE b.type \in FloatTypes
        BY <3>2 DEF PutDecimal, IntTypes, Signed, Unsigned, FloatTypes
      <3> QED
        BY <1>1, <3>1, <3>2
    <2>3. PICK p \in PutNum(b, 2 * Quot(v.h, 2), 8, FALSE)
                       \cup PutNum(b, v.h, 8, TRUE) :
            o = [p EXCEPT !.res = "FRACTIONAL_TRUNCATED"]
      BY <2>2
    <2>4. InElement(b, p)
      BY <2>1, NumberInElement
    <2>5. p = [res |-> p.res, ind |-> p.ind, content |-> p.content,
               bytes |-> p.bytes]
      BY <1>1, NumberFields
    <2> QED
      BY <2>3, <2>4, <2>5, OtherResult
  <1>2. CASE b.type \in {"CHAR", "WCHAR"}
    <2>1. o = PutStrToStrBuffer(b, b.type = "WCHAR", NumberLength(v.h), Num(v.h))
      BY <1>2 DEF PutDecimal, IntTypes, Signed, Unsigned, FloatTypes
    <2>2. NumberLength(v.h) \in Nat
      BY NumberLengthIsPositive
    <2>3. TextPut(b, NumberLength(v.h), Num(v.h), o)
      BY <1>2, <2>1, <2>2, NumberTextPut
    <2> QED
      BY <1>2, <2>3, TextInElement
  <1>3. CASE b.type = "NUMERIC"
    <2>1. \E res, content : o = Struct(b, res, content)
      BY <1>3 DEF PutDecimal, IntTypes, Signed, Unsigned, FloatTypes
    <2> QED
      BY <1>3, <2>1, FixedInElement
  <1>4. CASE b.type \in {"BINARY", "TDATE", "TTIME", "TTIMESTAMP"}
    <2>1. o = Unsupported
      BY <1>4 DEF PutDecimal, IntTypes, Signed, Unsigned, FloatTypes
    <2> QED
      BY <2>1, UnsupportedInElement
  <1>5. CASE b.type \in IntervalTypes \cup {"DEFAULT"}
    BY <1>5 DEF InElement
  <1> QED
    BY <1>1, <1>2, <1>3, <1>4, <1>5 DEF IsBinding, BufferTypes

\* The conversions of intervals keep to the element.
LEMMA IntervalInElement ==
  ASSUME NEW b, IsBinding(b), NEW v, v.chars \in Nat
  PROVE  InElement(b, PutIntervalYearMonth(b, v))
  <1>1. CASE b.type \in {"CHAR", "WCHAR"}
    <2>1. PutIntervalYearMonth(b, v) = PutFormatted(b, v.chars, v)
      BY <1>1, IntervalTypesAre DEF PutIntervalYearMonth
    <2> QED
      BY <1>1, <2>1, FormattedPut, TextInElement
  <1>2. CASE b.type \in IntervalTypes
    BY <1>2 DEF InElement
  <1>3. CASE b.type \notin IntervalTypes \cup {"CHAR", "WCHAR"}
    <2>1. PutIntervalYearMonth(b, v) = Unsupported
      BY <1>3 DEF PutIntervalYearMonth
    <2> QED
      BY <2>1, UnsupportedInElement
  <1> QED
    BY <1>1, <1>2, <1>3

\* Without a value nothing is written.
LEMMA NothingPut ==
  ASSUME NEW b, NEW v, v.k \in {"null", "untyped", "unset", "norow"},
         NEW o \in ReadToBuffer(b, v)
  PROVE  o.bytes = {}
  <1>1. \/ o \in {PutNull(b), [PutNull(b) EXCEPT !.res = "SUCCESS"]}
        \/ \E res : o = Did(res, Unset, Nothing, {})
    BY DEF ReadToBuffer, ParseDatum, ParseScalarType, ParseRowType
  <1> QED
    BY <1>1 DEF PutNull, Did

\* Every conversion stays in its element.
LEMMA ConversionInElement ==
  ASSUME NEW b, IsBinding(b), NEW v, IsValue(v), NEW o \in ReadToBuffer(b, v)
  PROVE  InElement(b, o)
  <1>1. CASE v.k \in {"date", "time"}
    <2>1. \E t : o \in {PutDate(b, t), PutTime(b, t)}
      BY <1>1 DEF ReadToBuffer
    <2> QED
      BY <2>1, MomentInElement
  <1>2. CASE v.k \in {"yearmonth", "daysecond"}
    <2>1. o = PutIntervalYearMonth(b, v) /\ v.chars \in Nat
      BY <1>2 DEF ReadToBuffer, IsValue, PutIntervalDaySecond
    <2> QED
      BY <2>1, IntervalInElement
  <1>3. CASE v.k = "decimal"
    <2>1. o \in PutDecimal(b, v) /\ v.h \in Int
      BY <1>3 DEF ReadToBuffer, IsValue
    <2> QED
      BY <2>1, DecimalInElement
  <1>4. CASE v.k \in {"null", "untyped", "unset", "norow"}
    <2>1. o.bytes = {}
      BY <1>4, NothingPut
    <2> QED
      BY <2>1 DEF InElement
  <1>5. CASE v.k \in {"array", "row"}
    <2>1. Joined(v) \in Nat
      BY <1>5, JoinedIsLength DEF IsValue
    <2>2. \E n \in Nat : o \in PutString(b, [k |-> "text", spells |-> 0,
                                             chars |-> n])
      BY <1>5, <2>1 DEF ReadToBuffer, ParseDatum, ParseArrayType, ParseRowType
    <2>3. PICK n \in Nat : o \in PutString(b, [k |-> "text", spells |-> 0,
                                               chars |-> n])
      BY <2>2
    <2> QED
      BY <2>3, StringInElement
  <1>6. CASE v.k = "text"
    <2>1. o \in PutString(b, v) /\ v.chars \in Nat /\ v.spells \in Int
      BY <1>6 DEF ReadToBuffer, ParseDatum, ParseScalarType, IsValue
    <2> QED
      BY <2>1, StringInElement
  <1>7. CASE v.k \in {"boolean", "int", "double"}
    <2>1. v.h \in Int
      BY <1>7 DEF IsValue
    <2>2. \E size \in Nat : \E floating \in BOOLEAN :
            o \in PutNum(b, v.h, size, floating)
      BY <1>7 DEF ReadToBuffer, ParseDatum, ParseScalarType, PutInt8, PutInt32,
              PutDouble
    <2> QED
      BY <2>1, <2>2, NumberInElement
  <1>8. CASE v.k = "timestamp"
    <2>1. \E t : o = PutTimestamp(b, t)
      BY <1>8 DEF ReadToBuffer, ParseDatum, ParseScalarType
    <2> QED
      BY <2>1, MomentInElement
  <1> QED
    BY <1>1, <1>2, <1>3, <1>4, <1>5, <1>6, <1>7, <1>8 DEF IsValue

-----------------------------------------------------------------------------
(* Texts *)

\* A copy of the whole text tells of a cut.
LEMMA TextTellsCut ==
  ASSUME NEW b, NEW v, NEW of, NEW o, b.type \in {"CHAR", "WCHAR"},
         TextPut(b, WholeLength(v), of, o)
  PROVE  TellsCut(b, v, o)
  <1>1. Roomy(b) => Room(b)
    BY DEF Roomy, Room
  <1> QED
    BY <1>1 DEF TextPut, TellsCut

\* So does the copy of a text of which something was lost before, silently.
LEMMA LessTellsCut ==
  ASSUME NEW b, NEW v, NEW of, NEW o, b.type \in {"CHAR", "WCHAR"},
         SilentCut(b, v), NEW n \in Nat, TextPut(b, n, of, o),
         WholeLength(v) \in Nat, n <= WholeLength(v)
  PROVE  TellsCut(b, v, o)
  <1>1. Roomy(b) => Room(b)
    BY DEF Roomy, Room
  <1> QED
    BY <1>1 DEF TextPut, TellsCut

LEMMA NoBytesNoCut ==
  ASSUME NEW b, NEW v, NEW o, o.bytes = {}
  PROVE  TellsCut(b, v, o)
  BY DEF TellsCut

LEMMA EmptyTextPut ==
  ASSUME NEW b, NEW wide, NEW of
  PROVE  PutStrToStrBuffer(b, wide, 0, of).bytes = {}
  BY DEF PutStrToStrBuffer, Did

\* PutString into a text buffer copies the text.
LEMMA StringAsText ==
  ASSUME NEW b, IsBinding(b), b.type \in {"CHAR", "WCHAR"}, NEW v, v.chars \in Nat,
         NEW o \in PutString(b, v)
  PROVE  /\ TextPut(b, v.chars, v, o)
         /\ v.chars = 0 => o.bytes = {}
         /\ b.data /\ Room(b) /\ o.res = "SUCCESS"
              => /\ v.chars > 0
                 /\ o.ind = IF b.type = "WCHAR" THEN v.chars * WcharSize
                                                ELSE v.chars
  <1>1. CASE b.type = "CHAR"
    <2>1. o = PutStrToStrBuffer(b, FALSE, v.chars, v)
      BY <1>1 DEF PutString, IntTypes, Signed, Unsigned, FloatTypes
    <2> QED
      BY <1>1, <2>1, NarrowTextPut, EmptyTextPut
  <1>2. CASE b.type = "WCHAR"
    <2>1. o = PutStrToStrBuffer(b, TRUE, v.chars, v)
      BY <1>2 DEF PutString, IntTypes, Signed, Unsigned, FloatTypes
    <2>2. /\ TextPut(b, v.chars, v, o)
          /\ b.data /\ Room(b) /\ o.res = "SUCCESS"
               => v.chars > 0 /\ o.ind = v.chars * WcharSize
      BY <1>2, <2>1, WideTextPut
    <2>3. v.chars = 0 => o.bytes = {}
      BY <2>1, EmptyTextPut
    <2> QED
      BY <1>2, <2>2, <2>3
  <1> QED
    BY <1>1, <1>2

\* PutNum into a text buffer copies what a stream writes.
LEMMA NumberAsText ==
  ASSUME NEW b, IsBinding(b), b.type \in {"CHAR", "WCHAR"}, NEW h \in Int,
         NEW size, NEW floating \in BOOLEAN,
         NEW o \in PutNum(b, h, size, floating),
         NEW n, n = Streamed(h, floating),
         NEW len, len = StreamLength(n, floating)
  PROVE  /\ len \in Nat \ {0}
         /\ TextPut(b, len, Num(n), o)
         /\ b.data /\ Room(b) /\ o.res = "SUCCESS"
              => o.ind = IF b.type = "WCHAR" THEN len * WcharSize ELSE len
  <1>1. o = PutStrToStrBuffer(b, b.type = "WCHAR", len, Num(n))
    BY SMT DEF PutNum, IntTypes, Signed, Unsigned, FloatTypes
  <1>2. len \in Nat \ {0}
    BY StreamedIsInt, StreamLengthIsPositive
  <1> QED
    BY <1>1, <1>2, NumberTextPut

\* PutDecimal into a text buffer copies the digits.
LEMMA DecimalAsText ==
  ASSUME NEW b, IsBinding(b), b.type \in {"CHAR", "WCHAR"}, NEW v, v.h \in Int,
         NEW o \in PutDecimal(b, v)
  PROVE  /\ TextPut(b, NumberLength(v.h), Num(v.h), o)
         /\ b.data /\ Room(b) /\ o.res = "SUCCESS"
              => o.ind = IF b.type = "WCHAR" THEN NumberLength(v.h) * WcharSize
                                             ELSE NumberLength(v.h)
  <1>1. o = PutStrToStrBuffer(b, b.type = "WCHAR", NumberLength(v.h), Num(v.h))
    BY DEF PutDecimal, IntTypes, Signed, Unsigned, FloatTypes
  <1>2. NumberLength(v.h) \in Nat
    BY NumberLengthIsPositive
  <1> QED
    BY <1>1, <1>2, NumberTextPut

\* Which of the numbers are floating.
LEMMA NumberKinds ==
  ASSUME NEW b, NEW v, v.k \in {"boolean", "int", "double"},
         NEW o \in ReadToBuffer(b, v)
  PROVE  \E size : o \in PutNum(b, v.h, size, v.k = "double")
  <1>1. CASE v.k = "double"
    <2>1. o \in PutNum(b, v.h, 8, TRUE) /\ (v.k = "double") = TRUE
      BY <1>1 DEF ReadToBuffer, ParseDatum, ParseScalarType, PutDouble
    <2> QED
      BY <2>1, Zenon
  <1>2. CASE v.k # "double"
    <2>1. /\ \E size : o \in PutNum(b, v.h, size, FALSE)
          /\ (v.k = "double") = FALSE
      BY <1>2 DEF ReadToBuffer, ParseDatum, ParseScalarType, PutInt8, PutInt32
    <2> QED
      BY <2>1, Zenon
  <1> QED
    BY <1>1, <1>2

\* A wide date tells of its cut, except between 11 bytes and 11 characters.
LEMMA WideDateTellsCut ==
  ASSUME NEW b, IsBinding(b), b.type = "WCHAR", NEW v, v.k = "date",
         NEW o, o = PutDate(b, v.t)
  PROVE  TellsCut(b, v, o)
  <1> DEFINE p == PutFormatted(b, 10, DateOf(v.t))
  <1>1. /\ o.bytes = p.bytes /\ o.content = p.content
        /\ o.res = IF 11 > b.len THEN "VARLEN_DATA_TRUNCATED" ELSE "SUCCESS"
    BY DEF PutDate, PutFormatted, Did
  <1>2. CASE ~b.data
    <2>1. p.bytes = {}
      BY <1>2 DEF PutFormatted, Did
    <2> QED
      BY <1>1, <2>1, NoBytesNoCut
  <1>3. CASE b.data
    <2> SUFFICES ASSUME Roomy(b)
                 PROVE  /\ o.res = "SUCCESS" /\ ~SilentCut(b, v)
                             => o.content.chars = 10
                        /\ o.res = "VARLEN_DATA_TRUNCATED"
                             => o.content.chars < 10
      BY DEF TellsCut, WholeLength
    <2> DEFINE q == b.len \div WcharSize
    <2>1. b.len \in Nat /\ WcharSize \in Nat \ {0} /\ b.len >= 2 * WcharSize
      BY UnitsAssumption DEF IsBinding, Roomy
    <2>2. /\ q \in Nat /\ q >= 2 /\ q <= b.len
          /\ b.len >= 11 * WcharSize => q >= 11
      <3>1. q \in Nat /\ q >= 2
        BY <2>1, WholeUnits, AtLeastTwo
      <3>2. q <= b.len
        BY <2>1
      <3>3. b.len >= 11 * WcharSize => q >= 11
        BY <2>1
      <3> QED
        BY <3>1, <3>2, <3>3
    <2>3. p.content.chars = Least(10, q - 1)
      <3>1. p.content.chars = IF Wide(10, q).put THEN Wide(10, q).chars ELSE 0
        BY <1>3 DEF PutFormatted, Did
      <3> HIDE DEF p, q
      <3>2. Wide(10, q).put /\ Wide(10, q).chars = Least(10, q - 1)
        BY <2>2 DEF Wide
      <3> QED
        BY <3>1, <3>2
    <2> HIDE DEF q, p
    <2>4. ~SilentCut(b, v) => b.len < 11 \/ b.len >= 11 * WcharSize
      <3>1. ~(11 <= b.len /\ b.len < 11 * WcharSize)
              => b.len < 11 \/ b.len >= 11 * WcharSize
        BY <2>1
      <3> QED
        BY <3>1 DEF SilentCut
    <2> QED
      BY <1>1, <2>1, <2>2, <2>3, <2>4 DEF Least
  <1> QED
    BY <1>2, <1>3 DEF IsBinding

\* Every conversion to text tells of a cut.
LEMMA ConversionTellsCut ==
  ASSUME NEW b, IsBinding(b), NEW v, IsValue(v), NEW o \in ReadToBuffer(b, v)
  PROVE  TellsCut(b, v, o)
  <1> SUFFICES ASSUME b.type \in {"CHAR", "WCHAR"} PROVE TellsCut(b, v, o)
    BY DEF TellsCut
  <1>1. CASE v.k = "date"
    <2>1. CASE b.type = "WCHAR"
      BY <1>1, <2>1, WideDateTellsCut DEF ReadToBuffer
    <2>2. CASE b.type = "CHAR"
      <3>1. o = PutFormatted(b, 10, DateOf(v.t)) /\ WholeLength(v) = 10
        BY <1>1, <2>2 DEF ReadToBuffer, PutDate, WholeLength
      <3> QED
        BY <3>1, FormattedPut, TextTellsCut
    <2> QED
      BY <2>1, <2>2
  <1>2. CASE v.k = "time"
    <2>1. o = PutFormatted(b, 18, MomentOf(v.t, v.t.ns)) /\ WholeLength(v) = 18
      BY <1>2 DEF ReadToBuffer, PutTime, WholeLength
    <2> QED
      BY <2>1, FormattedPut, TextTellsCut
  <1>3. CASE v.k \in {"yearmonth", "daysecond"}
    <2>1. /\ o = PutFormatted(b, v.chars, v) /\ WholeLength(v) = v.chars
          /\ v.chars \in Nat
      BY <1>3, IntervalTypesAre
      DEF ReadToBuffer, IsValue, PutIntervalDaySecond, PutIntervalYearMonth,
          WholeLength
    <2> QED
      BY <2>1, FormattedPut, TextTellsCut
  <1>4. CASE v.k = "decimal"
    <2>1. o \in PutDecimal(b, v) /\ v.h \in Int /\ WholeLength(v) = NumberLength(v.h)
      BY <1>4 DEF ReadToBuffer, IsValue, WholeLength
    <2> QED
      BY <2>1, DecimalAsText, TextTellsCut
  <1>5. CASE v.k \in {"null", "untyped", "unset", "norow"}
    BY <1>5, NothingPut, NoBytesNoCut
  <1>6. CASE v.k \in {"array", "row"}
    <2>1. /\ Joined(v) \in Nat /\ WholeLength(v) \in Nat
          /\ v.elements = <<>> => WholeLength(v) = 2
          /\ v.elements # <<>> => /\ Joined(v) <= WholeLength(v)
                                  /\ ~SilentCut(b, v) => Joined(v) = WholeLength(v)
      <3>1. v.elements \in Seq(Nat) /\ ElementBuffer \in Nat
        BY <1>6, UnitsAssumption DEF IsValue
      <3>2. ~SilentCut(b, v) =>
              \A i \in 1 .. Len(v.elements) : v.elements[i] < ElementBuffer
        BY <1>6, <3>1 DEF SilentCut
      <3>3. WholeLength(v) = IF v.elements = <<>> THEN 2 ELSE Length(v.elements)
        BY <1>6 DEF WholeLength
      <3> QED
        BY <3>1, <3>2, <3>3, JoinedIsLength
    <2> DEFINE Lengths == IF v.elements = <<>> THEN {0, 2} ELSE {Joined(v)}
    <2>2. \E n \in Lengths :
            o \in PutString(b, [k |-> "text", spells |-> 0, chars |-> n])
      BY <1>6 DEF ReadToBuffer, ParseDatum, ParseArrayType, ParseRowType
    <2>3. PICK n \in Lengths :
            o \in PutString(b, [k |-> "text", spells |-> 0, chars |-> n])
      BY <2>2
    <2>4. /\ n \in Nat
          /\ n = 0 \/ (n <= WholeLength(v)
                       /\ (~SilentCut(b, v) => n = WholeLength(v)))
      BY <2>1, <2>3
    <2> DEFINE w == [k |-> "text", spells |-> 0, chars |-> n]
    <2>5. w.chars = n /\ w.chars \in Nat
      BY <2>4
    <2> HIDE DEF w, Lengths
    <2>6. TextPut(b, n, w, o) /\ (n = 0 => o.bytes = {})
      BY <2>3, <2>5, StringAsText DEF w
    <2>7. CASE n = 0
      BY <2>6, <2>7, NoBytesNoCut
    <2>8. CASE ~SilentCut(b, v) /\ n # 0
      BY <2>4, <2>6, <2>8, TextTellsCut
    <2>9. CASE SilentCut(b, v) /\ n # 0
      BY <2>1, <2>4, <2>6, <2>9, LessTellsCut
    <2> QED
      BY <2>7, <2>8, <2>9
  <1>7. CASE v.k = "text"
    <2>1. o \in PutString(b, v) /\ v.chars \in Nat /\ WholeLength(v) = v.chars
      BY <1>7 DEF ReadToBuffer, ParseDatum, ParseScalarType, IsValue, WholeLength
    <2> QED
      BY <2>1, StringAsText, TextTellsCut
  <1>8. CASE v.k \in {"boolean", "int", "double"}
    <2> DEFINE floating == v.k = "double"
               n == Streamed(v.h, floating)
    <2>1. v.h \in Int
      BY <1>8 DEF IsValue
    <2>2. WholeLength(v) = StreamLength(n, floating)
      <3>1. CASE floating
        <4>1. floating = TRUE
          BY <3>1
        <4> QED
          BY <3>1, <4>1 DEF WholeLength
      <3>2. CASE ~floating
        <4>1. floating = FALSE
          BY <3>2
        <4>2. WholeLength(v) = NumberLength(v.h)
          BY <1>8, <3>2 DEF WholeLength
        <4> HIDE DEF floating
        <4> QED
          BY <4>1, <4>2, StreamedIntegers
      <3> QED
        BY <3>1, <3>2
    <2>3. \E size : o \in PutNum(b, v.h, size, floating)
      BY <1>8, NumberKinds
    <2>4. floating \in BOOLEAN
      OBVIOUS
    <2> HIDE DEF floating, n
    <2>5. TextPut(b, WholeLength(v), Num(n), o)
      BY <2>1, <2>2, <2>3, <2>4, NumberAsText DEF n
    <2> QED
      BY <2>5, TextTellsCut
  <1>9. CASE v.k = "timestamp"
    <2>1. \E t : o = PutTimestamp(b, t)
      BY <1>9 DEF ReadToBuffer, ParseDatum, ParseScalarType
    <2>2. PICK t : o = PutTimestamp(b, t)
      BY <2>1
    <2>3. o = PutFormatted(b, 29, MomentOf(t, t.ns)) /\ WholeLength(v) = 29
      BY <1>9, <2>2 DEF PutTimestamp, WholeLength
    <2> QED
      BY <2>3, FormattedPut, TextTellsCut
  <1> QED
    BY <1>1, <1>2, <1>3, <1>4, <1>5, <1>6, <1>7, <1>8, <1>9 DEF IsValue

-----------------------------------------------------------------------------
(* Reading back *)

\* A text put whole is read back whole.
LEMMA HeldText ==
  ASSUME NEW b, IsBinding(b), b.type \in {"CHAR", "WCHAR"}, b.data, Room(b),
         NEW n \in Nat \ {0}, NEW of, NEW o, TextPut(b, n, of, o),
         o.res = "SUCCESS",
         o.ind = IF b.type = "WCHAR" THEN n * WcharSize ELSE n,
         NEW c, NEW ind, Holds(b, o, c, ind)
  PROVE  GetString(b, c, ind) = [of |-> of, chars |-> n]
  <1>1. o.bytes # {} /\ o.content.of = of /\ o.content.chars = n
    BY DEF TextPut
  <1>2. c.of = of /\ c.chars = n
    BY <1>1 DEF Holds
  <1>3. o.ind \in Nat
    BY UnitsAssumption
  <1>4. b.ind => ind = o.ind
    BY <1>3 DEF Holds, Unset
  <1> QED
    BY <1>2, <1>4, TextReadsBack

\* A value of fixed size is what the element then holds.
LEMMA HeldFixed ==
  ASSUME NEW b, b.data, NEW res, NEW content, NEW o,
         b.type \in IntTypes \cup FloatTypes
                      \cup {"NUMERIC", "TDATE", "TTIME", "TTIMESTAMP"},
         o \in {Fixed(b, res, content), Struct(b, res, content)},
         NEW c, NEW ind, Holds(b, o, c, ind)
  PROVE  c = content
  <1>1. o = Fixed(b, res, content)
    BY DEF Struct
  <1>2. SizeOf(b.type) \in Nat \ {0}
    BY DEF SizeOf, IntTypes, Signed, Unsigned, FloatTypes
  <1>3. o.content = content /\ o.bytes = 0 .. SizeOf(b.type) - 1
    BY <1>1 DEF Fixed, Did, FirstBytes
  <1>4. \A n \in Nat \ {0} : 0 \in 0 .. n - 1
    OBVIOUS
  <1>5. 0 \in o.bytes
    BY <1>2, <1>3, <1>4
  <1> QED
    BY <1>3, <1>5 DEF Holds

\* A number in the range of a type is not changed by the cast to it.
LEMMA CastInRange ==
  ASSUME NEW T \in IntTypes, NEW h \in Int, h % 2 = 0, InRange(T, h \div 2),
         NEW floating
  PROVE  StaticCast(T, h, floating) = {h}
  <1>1. Quot(h, 2) = h \div 2 /\ h \div 2 \in Int /\ 2 * (h \div 2) = h
    BY DEF Quot
  <1>2. Wrap(T, h \div 2) = h \div 2
    BY <1>1, WrapInRange
  <1>3. Cast(T, h, floating) = {h \div 2}
    BY <1>1, <1>2 DEF Cast
  <1>4. StaticCast(T, h, floating) = {2 * n : n \in Cast(T, h, floating)}
    BY DEF StaticCast, IntTypes, Signed, Unsigned
  <1> QED
    BY <1>1, <1>3, <1>4

\* A number comes back in the type it came from.
LEMMA CastBack ==
  ASSUME NEW v, v.k \in {"boolean", "int", "double"}, IsValue(v), NEW floating
  PROVE  StaticCast(KindType[v.k], v.h, floating) = {v.h} /\ v.h \in Int
  <1>1. CASE v.k = "double"
    <2>1. KindType[v.k] = "DOUBLE" /\ v.h \in Int
      BY <1>1 DEF KindType, IsValue
    <2> QED
      BY <2>1 DEF StaticCast, IntTypes, Signed, Unsigned
  <1>2. CASE v.k \in {"boolean", "int"}
    <2>1. /\ KindType[v.k] \in IntTypes /\ v.h \in Int /\ v.h % 2 = 0
          /\ InRange(KindType[v.k], v.h \div 2)
      BY <1>2 DEF KindType, IsValue, IntTypes, Signed
    <2> QED
      BY <2>1, CastInRange
  <1> QED
    BY <1>1, <1>2

\* PutNum can be read back by GetNum.
LEMMA NumberReadable ==
  ASSUME NEW b, IsBinding(b), NEW v, v.k \in {"boolean", "int", "double"},
         IsValue(v), NEW o \in ReadToBuffer(b, v)
  PROVE  Readable(b, v, o)
  <1> DEFINE T == KindType[v.k]
             floating == v.k = "double"
  <1> SUFFICES ASSUME o.res = "SUCCESS", b.data, Roomy(b),
                      NEW c, NEW ind, Holds(b, o, c, ind), CanHold(b, v)
               PROVE  GetNum(b, c, ind, T) = {v.h}
    BY DEF Readable, ReadsBack
  <1>1. PICK size : o \in PutNum(b, v.h, size, floating)
    BY NumberKinds
  <1>2. v.h \in Int /\ \A f : StaticCast(T, v.h, f) = {v.h}
    BY CastBack
  <1>3. /\ floating \in BOOLEAN /\ (floating <=> v.k = "double")
        /\ T = "DOUBLE" <=> v.k = "double"
        /\ T \in {"SIGNED_TINYINT", "SIGNED_LONG", "DOUBLE"}
    BY DEF KindType
  <1>4. floating = (T = "DOUBLE")
    BY <1>3
  <1> HIDE DEF T, floating
  <1> USE DEF IntTypes, LongTypes, Signed, Unsigned, FloatTypes
  <1>5. CASE b.type \in IntTypes
    <2>1. /\ v.h % 2 = 0 /\ InRange(b.type, v.h \div 2)
          /\ b.type \in LongTypes /\ v.k = "double" => SizeOfLong = 4
      BY <1>5 DEF CanHold
    <2>2. StaticCast(b.type, v.h, floating) = {v.h}
      BY <1>2, <1>5, <2>1, CastInRange
    <2>3. o = Fixed(b, "SUCCESS", Num(v.h))
      BY <1>1, <1>5, <2>2, SMT DEF PutNum
    <2>4. c = Num(v.h)
      BY <1>5, <2>3, HeldFixed
    <2>5. CASE b.type \in LongTypes
      <3>1. BytesBehind(b, T) = {0}
        <4>1. SizeOf(b.type) = 4
          BY <2>5 DEF SizeOf, IntervalTypes, IntervalFields
        <4>2. CASE T = "DOUBLE"
          <5>1. SizeOfLong = 4
            BY <1>3, <2>1, <2>5, <4>2, Zenon
          <5> QED
            BY <4>1, <5>1 DEF BytesBehind
        <4>3. CASE T \in {"SIGNED_TINYINT", "SIGNED_LONG"}
          <5>1. SizeOf(T) \in {1, 4}
            BY <4>3 DEF SizeOf, IntervalTypes, IntervalFields
          <5> QED
            BY <4>1, <5>1 DEF BytesBehind
        <4> QED
          BY <1>3, <4>2, <4>3
      <3>2. Modulus(b.type) \in Int
        <4>1. ByteBits * SizeOf(b.type) \in Nat
          BY <2>5, UnitsAssumption DEF SizeOf
        <4> QED
          BY <4>1 DEF Modulus
      <3>3. c.h + 2 * Modulus(b.type) * 0 = v.h
        BY <1>2, <2>4, <3>2 DEF Num
      <3> DEFINE Cast0(n) == StaticCast(T, c.h + 2 * Modulus(b.type) * n, FALSE)
      <3>4. GetNum(b, c, ind, T) = UNION {Cast0(n) : n \in BytesBehind(b, T)}
        BY <2>5 DEF GetNum
      <3>5. GetNum(b, c, ind, T) = Cast0(0)
        <4> HIDE DEF Cast0
        <4> QED
          BY <3>1, <3>4, SMT
      <3> QED
        BY <1>2, <3>3, <3>5
    <2>6. CASE b.type \notin LongTypes
      <3>1. GetNum(b, c, ind, T) = StaticCast(T, c.h, FALSE)
        BY <1>5, <2>6 DEF GetNum
      <3> QED
        BY <1>2, <2>4, <3>1 DEF Num
    <2> QED
      BY <2>5, <2>6
  <1>6. CASE b.type \in FloatTypes
    <2>1. StaticCast(b.type, v.h, floating) = {v.h}
      <3>1. StaticCast(b.type, v.h, TRUE) = {v.h}
        BY <1>6 DEF CanHold
      <3>2. StaticCast(b.type, v.h, floating) = StaticCast(b.type, v.h, TRUE)
        BY <1>6 DEF StaticCast
      <3> QED
        BY <3>1, <3>2
    <2>2. o = Fixed(b, "SUCCESS", Num(v.h))
      BY <1>1, <1>6, <2>1, SMT DEF PutNum
    <2>3. c = Num(v.h)
      BY <1>6, <2>2, HeldFixed
    <2>4. GetNum(b, c, ind, T) = StaticCast(T, c.h, TRUE)
      BY <1>6 DEF GetNum
    <2> QED
      BY <1>2, <2>3, <2>4 DEF Num
  <1>7. CASE b.type = "NUMERIC"
    <2>1. 2 * Quot(v.h, 2) = v.h
      BY <1>2, <1>7 DEF Quot, CanHold
    <2>2. o = Fixed(b, "SUCCESS", Num(v.h))
      BY <1>1, <1>7, <2>1, SMT DEF PutNum
    <2>3. c = Num(v.h)
      BY <1>7, <2>2, HeldFixed
    <2>4. GetNum(b, c, ind, T) = StaticCast(T, c.h, FALSE)
      BY <1>7 DEF GetNum
    <2> QED
      BY <1>2, <2>3, <2>4 DEF Num
  <1>8. CASE b.type \in {"CHAR", "WCHAR"}
    <2> DEFINE n == Streamed(v.h, floating)
               len == StreamLength(n, floating)
    <2>1. Room(b)
      BY <1>8 DEF Roomy, Room
    <2>2. n = v.h
      BY <1>8 DEF CanHold, floating
    <2>3. /\ len \in Nat \ {0} /\ TextPut(b, len, Num(n), o)
          /\ o.ind = IF b.type = "WCHAR" THEN len * WcharSize ELSE len
      BY <1>1, <1>2, <1>3, <1>8, <2>1, NumberAsText
    <2> HIDE DEF len, n
    <2>4. GetString(b, c, ind) = [of |-> Num(n), chars |-> len]
      BY <1>8, <2>1, <2>3, HeldText
    <2>5. Spelled(b, c, ind, floating) = {v.h}
      BY <2>2, <2>4 DEF Spelled, Num, len
    <2>6. GetNum(b, c, ind, T) = Spelled(b, c, ind, T = "DOUBLE")
      BY <1>8 DEF GetNum
    <2> QED
      BY <1>4, <2>5, <2>6, Zenon
  <1> QED
    BY <1>5, <1>6, <1>7, <1>8 DEF CanHold

\* PutDecimal can be read back by GetDecimal.
LEMMA DecimalReadable ==
  ASSUME NEW b, IsBinding(b), NEW v, v.k = "decimal", v.h \in Int,
         NEW o \in PutDecimal(b, v)
  PROVE  Readable(b, v, o)
  <1> SUFFICES ASSUME o.res = "SUCCESS", b.data, Roomy(b),
                      NEW c, NEW ind, Holds(b, o, c, ind),
                      b.type \in {"CHAR", "WCHAR"}
               PROVE  GetDecimal(b, c, ind) = {v.h}
    BY DEF Readable, ReadsBack
  <1>1. Room(b)
    BY DEF Roomy, Room
  <1>2. NumberLength(v.h) \in Nat \ {0}
    BY NumberLengthIsPositive
  <1>3. GetString(b, c, ind) = [of |-> Num(v.h), chars |-> NumberLength(v.h)]
    BY <1>1, <1>2, DecimalAsText, HeldText
  <1>4. StreamLength(v.h, FALSE) = NumberLength(v.h)
    BY StreamedIntegers
  <1>5. Spelled(b, c, ind, FALSE) = {v.h}
    <2>1. /\ GetString(b, c, ind).chars = NumberLength(v.h)
          /\ GetString(b, c, ind).of.h = v.h
      BY <1>3 DEF Num
    <2> QED
      BY <1>4, <2>1, Zenon DEF Spelled
  <1> QED
    BY <1>5 DEF GetDecimal, Signed, Unsigned

\* PutString can be read back by GetString.
LEMMA StringReadable ==
  ASSUME NEW b, IsBinding(b), NEW v, v.k = "text", v.chars \in Nat,
         NEW o \in PutString(b, v)
  PROVE  Readable(b, v, o)
  <1> SUFFICES ASSUME o.res = "SUCCESS", b.data, Roomy(b),
                      NEW c, NEW ind, Holds(b, o, c, ind),
                      b.type \in {"CHAR", "WCHAR"}
               PROVE  GetString(b, c, ind) = [of |-> v, chars |-> v.chars]
    BY DEF Readable, ReadsBack
  <1>1. Room(b)
    BY DEF Roomy, Room
  <1>2. v.chars \in Nat \ {0}
    BY <1>1, StringAsText
  <1> QED
    BY <1>1, <1>2, StringAsText, HeldText

\* PutTimestamp can be read back by GetTimestamp.
LEMMA TimestampReadable ==
  ASSUME NEW b, IsBinding(b), NEW v, v.k = "timestamp",
         v.t \in [day : Int, tod : Int, ns : Int],
         NEW n, v.t.ns # Absent => n = v.t.ns,
         NEW o, o = PutTimestamp(b, [v.t EXCEPT !.ns = n])
  PROVE  Readable(b, v, o)
  <1> SUFFICES ASSUME o.res = "SUCCESS", b.data, Roomy(b),
                      NEW c, NEW ind, Holds(b, o, c, ind)
               PROVE  ReadsBack(b, v, c, ind)
    BY DEF Readable
  <1> DEFINE t == [v.t EXCEPT !.ns = n]
  <1>1. t.day = v.t.day /\ t.tod = v.t.tod /\ t.ns = n
    OBVIOUS
  <1> HIDE DEF t
  <1>2. CASE b.type = "TTIMESTAMP"
    <2>1. o = Struct(b, "SUCCESS", MomentOf(t, t.ns))
      BY <1>2 DEF PutTimestamp, t
    <2>2. c = MomentOf(t, t.ns)
      BY <1>2, <2>1, HeldFixed
    <2>3. GetTimestamp(b, c, ind) = [day |-> v.t.day, tod |-> v.t.tod, ns |-> n]
      BY <1>1, <1>2, <2>2 DEF GetTimestamp, MomentOf
    <2>4. v.t = [day |-> v.t.day, tod |-> v.t.tod, ns |-> v.t.ns]
      OBVIOUS
    <2>5. v.t.ns # Absent => GetTimestamp(b, c, ind) = v.t
      BY <2>3, <2>4
    <2> QED
      BY <1>2, <2>5 DEF ReadsBack
  <1>3. CASE b.type = "CHAR"
    <2>1. o = PutFormatted(b, 29, MomentOf(t, t.ns))
      BY <1>3 DEF PutTimestamp, t
    <2>2. TextPut(b, 29, MomentOf(t, t.ns), o) /\ o.ind = 29
      BY <1>3, <2>1, FormattedPut
    <2>3. Room(b)
      BY <1>3 DEF Roomy, Room
    <2>4. GetString(b, c, ind) = [of |-> MomentOf(t, t.ns), chars |-> 29]
      BY <1>3, <2>2, <2>3, HeldText
    <2>5. GetTimestamp(b, c, ind) = [day |-> v.t.day, tod |-> v.t.tod, ns |-> 0]
      BY <1>1, <1>3, <2>4 DEF GetTimestamp, MomentOf
    <2>6. [v.t EXCEPT !.ns = 0] = [day |-> v.t.day, tod |-> v.t.tod, ns |-> 0]
      OBVIOUS
    <2>7. GetTimestamp(b, c, ind) = [v.t EXCEPT !.ns = 0]
      BY <2>5, <2>6
    <2> QED
      BY <1>3, <2>7 DEF ReadsBack
  <1>4. CASE b.type \notin {"CHAR", "TTIMESTAMP"}
    BY <1>4 DEF ReadsBack
  <1> QED
    BY <1>2, <1>3, <1>4

\* PutDate can be read back by GetDate.
LEMMA DateReadable ==
  ASSUME NEW b, IsBinding(b), NEW v, v.k = "date"
  PROVE  Readable(b, v, PutDate(b, v.t))
  <1> DEFINE o == PutDate(b, v.t)
  <1> SUFFICES ASSUME o.res = "SUCCESS", b.data, NEW c, NEW ind,
                      Holds(b, o, c, ind), b.type \in {"TDATE", "TTIMESTAMP"}
               PROVE  GetDate(b, c, ind).day = v.t.day
    BY DEF Readable, ReadsBack
  <1>1. CASE b.type = "TDATE"
    <2>1. o = Struct(b, "SUCCESS", DateOf(v.t))
      BY <1>1 DEF PutDate
    <2> HIDE DEF o
    <2>2. c = DateOf(v.t)
      BY <1>1, <2>1, HeldFixed
    <2> QED
      BY <1>1, <2>2 DEF GetDate, GetTimestamp, DateOf
  <1>2. CASE b.type = "TTIMESTAMP"
    <2>1. o = Struct(b, "SUCCESS", MomentOf(v.t, 0))
      BY <1>2 DEF PutDate
    <2> HIDE DEF o
    <2>2. c = MomentOf(v.t, 0)
      BY <1>2, <2>1, HeldFixed
    <2> QED
      BY <1>2, <2>2 DEF GetDate, GetTimestamp, MomentOf
  <1> QED
    BY <1>1, <1>2

\* PutTime can be read back by GetTime.
LEMMA TimeReadable ==
  ASSUME NEW b, IsBinding(b), NEW v, v.k = "time"
  PROVE  Readable(b, v, PutTime(b, v.t))
  <1> DEFINE o == PutTime(b, v.t)
  <1> SUFFICES ASSUME o.res = "SUCCESS", b.data, NEW c, NEW ind,
                      Holds(b, o, c, ind), b.type = "TTIMESTAMP"
               PROVE  GetTime(b, c, ind).tod = v.t.tod
    BY DEF Readable, ReadsBack
  <1>1. o = Struct(b, "SUCCESS", MomentOf(v.t, v.t.ns))
    BY DEF PutTime
  <1> HIDE DEF o
  <1>2. c = MomentOf(v.t, v.t.ns)
    BY <1>1, HeldFixed
  <1> QED
    BY <1>2 DEF GetTime, GetTimestamp, MomentOf

\* Every value put with success can be read back.
LEMMA ConversionReadable ==
  ASSUME NEW b, IsBinding(b), NEW v, IsValue(v), NEW o \in ReadToBuffer(b, v)
  PROVE  Readable(b, v, o)
  <1>1. CASE v.k = "date"
    <2>1. o = PutDate(b, v.t)
      BY <1>1 DEF ReadToBuffer
    <2> QED
      BY <1>1, <2>1, DateReadable
  <1>2. CASE v.k = "time"
    <2>1. o = PutTime(b, v.t)
      BY <1>2 DEF ReadToBuffer
    <2> QED
      BY <1>2, <2>1, TimeReadable
  <1>3. CASE v.k \in {"yearmonth", "daysecond", "null", "untyped", "array", "row",
                       "unset", "norow"}
    BY <1>3 DEF Readable, ReadsBack
  <1>4. CASE v.k = "decimal"
    <2>1. o \in PutDecimal(b, v) /\ v.h \in Int
      BY <1>4 DEF ReadToBuffer, IsValue
    <2> QED
      BY <1>4, <2>1, DecimalReadable
  <1>5. CASE v.k = "text"
    <2>1. o \in PutString(b, v) /\ v.chars \in Nat
      BY <1>5 DEF ReadToBuffer, ParseDatum, ParseScalarType, IsValue
    <2> QED
      BY <1>5, <2>1, StringReadable
  <1>6. CASE v.k \in {"boolean", "int", "double"}
    BY <1>6, NumberReadable
  <1>7. CASE v.k = "timestamp"
    <2>1. v.t \in [day : Int, tod : Int, ns : Int]
      BY <1>7 DEF IsValue
    <2>2. \E n : /\ v.t.ns # Absent => n = v.t.ns
                 /\ o = PutTimestamp(b, [v.t EXCEPT !.ns = n])
      BY <1>7 DEF ReadToBuffer, ParseDatum, ParseScalarType
    <2> QED
      BY <1>7, <2>1, <2>2, TimestampReadable
  <1> QED
    BY <1>1, <1>2, <1>3, <1>4, <1>5, <1>6, <1>7 DEF IsValue

-----------------------------------------------------------------------------
(* The rowset *)

LEMMA ElementSizeType ==
  ASSUME NEW b, IsBinding(b)
  PROVE  GetElementSize(b) \in Nat
  <1>1. b.len \in Nat /\ b.type \in BufferTypes
    BY DEF IsBinding
  <1>2. b.type \in IntTypes \cup FloatTypes
                     \cup {"TDATE", "TTIME", "TTIMESTAMP", "NUMERIC"}
          => SizeOf(b.type) \in Nat
    BY DEF SizeOf, IntTypes, Signed, Unsigned, FloatTypes
  <1> QED
    BY <1>1, <1>2 DEF GetElementSize, BufferTypes

BufferTypeOK ==
  /\ column \in Columns /\ binding \in Bindings
  /\ DOMAIN writer = Array(binding)
  /\ outcome = [r \in 0 .. RowsetSize - 1 |-> outcome[r]]
  /\ cell = [r \in 0 .. RowsetSize - 1 |-> cell[r]]
  /\ indicator = [r \in 0 .. RowsetSize - 1 |-> indicator[r]]
  /\ elementOffset \in 0 .. RowsetSize

\* The three properties are inductive together with the types.
BufferInv ==
  /\ BufferTypeOK
  /\ RowsKeepTheirBytes /\ CutTextsAreReported /\ SuccessReadsBack

LEMMA InitBufferInv == BufferInit => BufferInv
  <1> SUFFICES ASSUME BufferInit PROVE BufferInv
    OBVIOUS
  <1>1. BufferTypeOK
    BY UnitsAssumption DEF BufferInit, BufferTypeOK
  <1>2. \A r \in DOMAIN outcome : ~Put(r)
    BY DEF BufferInit, Put
  <1> QED
    BY <1>1, <1>2 DEF BufferInv, RowsKeepTheirBytes, CutTextsAreReported,
       SuccessReadsBack

\* The row that is put changes its own element and nothing of the others'.
LEMMA PutRowBufferInv ==
  ASSUME BufferInv, NEW v \in column, PutRow(v)
  PROVE  BufferInv'
  <1> DEFINE q == elementOffset
             e == GetElementSize(binding)
  <1>1. IsBinding(binding) /\ IsValue(v) /\ q \in 0 .. RowsetSize - 1
        /\ RowsetSize \in Nat
    BY BindingsAssumption, ColumnsAssumption, UnitsAssumption
       DEF BufferInv, BufferTypeOK, IsBinding, PutRow
  <1>2. e \in Nat
    BY <1>1, ElementSizeType
  <1>3. PICK o \in ReadToBuffer(binding, v) :
          /\ writer' = [a \in DOMAIN writer |->
                          IF a - ApplyOffset(binding, elementOffset) \in o.bytes
                            THEN elementOffset ELSE writer[a]]
          /\ cell' = IF o.bytes = {} THEN cell
                     ELSE [cell EXCEPT ![elementOffset] = o.content]
          /\ indicator' = IF o.ind = Unset \/ ~binding.ind THEN indicator
                          ELSE [indicator EXCEPT ![elementOffset] = o.ind]
          /\ outcome' = [outcome EXCEPT ![elementOffset] =
                           [v |-> v, res |-> o.res, bytes |-> o.bytes]]
    BY DEF PutRow
  <1>4. InElement(binding, o) /\ TellsCut(binding, v, o)
        /\ Readable(binding, v, o)
    BY <1>1, ConversionInElement, ConversionTellsCut, ConversionReadable
  <1>5. UNCHANGED <<column, binding>> /\ elementOffset' = elementOffset + 1
    BY DEF PutRow
  <1>6. DOMAIN outcome = 0 .. RowsetSize - 1 /\ DOMAIN cell = 0 .. RowsetSize - 1
        /\ DOMAIN indicator = 0 .. RowsetSize - 1
        /\ DOMAIN writer = -1 .. e * RowsetSize + 40
    BY DEF BufferInv, BufferTypeOK, Array
  <1>7. DOMAIN outcome' = 0 .. RowsetSize - 1
    BY <1>3, <1>6
  <1>8. BufferTypeOK'
    <2>1. outcome' = [r \in 0 .. RowsetSize - 1 |-> outcome'[r]]
      BY <1>3, <1>6
    <2>2. cell' = [r \in 0 .. RowsetSize - 1 |-> cell'[r]]
      BY <1>3 DEF BufferInv, BufferTypeOK
    <2>3. indicator' = [r \in 0 .. RowsetSize - 1 |-> indicator'[r]]
      BY <1>3 DEF BufferInv, BufferTypeOK
    <2>4. DOMAIN writer' = Array(binding)
      BY <1>3 DEF BufferInv, BufferTypeOK
    <2>5. elementOffset' \in 0 .. RowsetSize
      BY <1>1, <1>5
    <2> QED
      BY <1>5, <2>1, <2>2, <2>3, <2>4, <2>5 DEF BufferInv, BufferTypeOK
  <1>9. outcome'[q] = [v |-> v, res |-> o.res, bytes |-> o.bytes]
    BY <1>1, <1>3, <1>6
  <1>10. \A r \in 0 .. RowsetSize - 1 : r # q =>
           outcome'[r] = outcome[r] /\ cell'[r] = cell[r]
           /\ indicator'[r] = indicator[r]
    BY <1>3, <1>6
  <1>11. Holds(binding, o, cell'[q], indicator'[q])
    BY <1>1, <1>3, <1>6 DEF Holds
  <1>12. RowsKeepTheirBytes'
    <2> SUFFICES ASSUME NEW r \in 0 .. RowsetSize - 1, Put(r)',
                        binding.type \notin IntervalTypes \cup {"DEFAULT"},
                        binding.type = "CHAR" => binding.len > 0,
                        NEW i \in outcome'[r].bytes
                 PROVE  /\ i \in 0 .. e - 1
                        /\ writer'[ApplyOffset(binding, r) + i] = r
      BY <1>5, <1>7 DEF RowsKeepTheirBytes
    <2>1. o.bytes \subseteq 0 .. e - 1
      BY <1>4 DEF InElement
    <2>2. ApplyOffset(binding, r) = e * r /\ ApplyOffset(binding, q) = e * q
      BY DEF ApplyOffset
    <2>3. CASE r = q
      <3>1. i \in o.bytes
        BY <1>9, <2>3
      <3>2. e * q + i \in -1 .. e * RowsetSize + 40
        BY <1>1, <1>2, <2>1, <3>1, InArray
      <3>3. e * q \in Int /\ i \in Int
        BY <1>1, <1>2, <2>1, <3>1
      <3>4. (e * q + i) - e * q = i
        BY <3>3
      <3> QED
        BY <1>3, <1>6, <2>1, <2>2, <2>3, <3>1, <3>2, <3>4
    <2>4. CASE r # q
      <3>1. Put(r) /\ i \in outcome[r].bytes
        BY <1>10, <2>4 DEF Put
      <3>2. i \in 0 .. e - 1 /\ writer[e * r + i] = r
        BY <1>6, <2>2, <3>1 DEF BufferInv, RowsKeepTheirBytes
      <3>3. e * r + i \in -1 .. e * RowsetSize + 40
        BY <1>1, <1>2, <3>2, InArray
      <3>4. (e * r + i) - e * q \notin 0 .. e - 1
        BY <1>1, <1>2, <2>4, <3>2, ElementsApart
      <3> QED
        BY <1>3, <1>6, <2>1, <2>2, <3>2, <3>3, <3>4
    <2> QED
      BY <2>3, <2>4
  <1>13. CutTextsAreReported'
    <2> SUFFICES ASSUME NEW r \in 0 .. RowsetSize - 1, Put(r)',
                        binding.type \in {"CHAR", "WCHAR"},
                        Roomy(binding), outcome'[r].bytes # {}
                 PROVE  /\ (/\ outcome'[r].res = "SUCCESS"
                            /\ ~SilentCut(binding, outcome'[r].v))
                             => cell'[r].chars = WholeLength(outcome'[r].v)
                        /\ outcome'[r].res = "VARLEN_DATA_TRUNCATED"
                             => cell'[r].chars < WholeLength(outcome'[r].v)
      BY <1>5, <1>7 DEF CutTextsAreReported
    <2>1. CASE r = q
      BY <1>4, <1>9, <1>11, <2>1 DEF TellsCut, Holds
    <2>2. CASE r # q
      BY <1>6, <1>10, <2>2 DEF BufferInv, CutTextsAreReported, Put
    <2> QED
      BY <2>1, <2>2
  <1>14. SuccessReadsBack'
    <2> SUFFICES ASSUME NEW r \in 0 .. RowsetSize - 1, Put(r)',
                        outcome'[r].res = "SUCCESS", binding.data,
                        Roomy(binding)
                 PROVE  ReadsBack(binding, outcome'[r].v, cell'[r], indicator'[r])
      BY <1>5, <1>7 DEF SuccessReadsBack
    <2>1. CASE r = q
      BY <1>4, <1>9, <1>11, <2>1 DEF Readable
    <2>2. CASE r # q
      BY <1>6, <1>10, <2>2 DEF BufferInv, SuccessReadsBack, Put
    <2> QED
      BY <2>1, <2>2
  <1> QED
    BY <1>8, <1>12, <1>13, <1>14 DEF BufferInv

LEMMA FetchAgainBufferInv ==
  ASSUME BufferInv, FetchAgain
  PROVE  BufferInv'
  <1>1. BufferTypeOK'
    <2>1. outcome' = [r \in 0 .. RowsetSize - 1 |-> outcome'[r]]
      BY DEF FetchAgain
    <2>2. elementOffset' \in 0 .. RowsetSize
      BY UnitsAssumption DEF FetchAgain
    <2> QED
      BY <2>1, <2>2 DEF BufferInv, BufferTypeOK, FetchAgain
  <1>2. \A r \in DOMAIN outcome' : ~Put(r)'
    BY DEF FetchAgain, Put
  <1> QED
    BY <1>1, <1>2 DEF BufferInv, RowsKeepTheirBytes, CutTextsAreReported,
       SuccessReadsBack

LEMMA NextBufferInv ==
  ASSUME BufferInv, [BufferNext]_bufferVars
  PROVE  BufferInv'
  <1>1. CASE \E v \in column : PutRow(v)
    BY <1>1, PutRowBufferInv
  <1>2. CASE FetchAgain
    BY <1>2, FetchAgainBufferInv
  <1>3. CASE UNCHANGED bufferVars
    BY <1>3 DEF bufferVars, BufferInv, BufferTypeOK, RowsKeepTheirBytes,
       CutTextsAreReported, SuccessReadsBack, Put
  <1> QED
    BY <1>1, <1>2, <1>3 DEF BufferNext

LEMMA BufferInvHolds == BufferSpec => []BufferInv
  BY InitBufferInv, NextBufferInv, PTL DEF BufferSpec

\* Whatever the columns, the bindings and the size of the rowset, no row of a
\* rowset writes outside its own element of the application's array
\* (ApplicationDataBuffer::SetElementOffset, GetElementSize), and what it
\* wrote is still its own when the later rows are there.
THEOREM RowsKeepTheirBytesHolds == BufferSpec => []RowsKeepTheirBytes
  <1>1. BufferInv => RowsKeepTheirBytes
    BY DEF BufferInv
  <1> QED
    BY <1>1, BufferInvHolds, PTL

\* Whatever the values and the buffers with room for a character, a text that
\* PutNum, PutString, PutDecimal or a conversion of a moment or an interval
\* cut is reported as cut, and no other.
THEOREM CutTextsAreReportedHolds == BufferSpec => []CutTextsAreReported
  <1>1. BufferInv => CutTextsAreReported
    BY DEF BufferInv
  <1> QED
    BY <1>1, BufferInvHolds, PTL

\* Whatever the values, a value put with plain success into a type that can
\* hold it is read back (GetNum, GetString, GetTimestamp) as it was, in every
\* row of every rowset, whatever the element held before.
THEOREM SuccessReadsBackHolds == BufferSpec => []SuccessReadsBack
  <1>1. BufferInv => SuccessReadsBack
    BY DEF BufferInv
  <1> QED
    BY <1>1, BufferInvHolds, PTL

=============================================================================
