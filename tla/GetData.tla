------------------------------- MODULE GetData -------------------------------
(***************************************************************************)
(* Reading a text column in parts: SQLGetData (odbc.cpp), the cell offset  *)
(* the statement keeps between calls (statement.cpp) and the copy into the *)
(* application's buffer (PutStrToStrBuffer in application_data_buffer.cpp, *)
(* the two Utf8 copies in utility.cpp), against the fetches that move the  *)
(* cursor.                                                                 *)
(*                                                                         *)
(* A text is abstracted to its number of characters and the byte at which  *)
(* each one ends in its UTF-8 form; a buffer to its width and its length   *)
(* in characters, the terminator included.  The build's default, with      *)
(* ANSI_STRING_ONLY unset, is modelled.  Values that are not text go to    *)
(* conversions that neither use nor change the offset.                     *)
(***************************************************************************)
EXTENDS Naturals, Sequences

CONSTANTS
  Texts,      \* the values of the columns
  Rows,       \* number of rows of the result
  Cols,       \* column numbers, from 1
  Buffers,    \* the buffers the application offers
  MaxRowset   \* largest number of rows of one fetch

\* at[k] is the number of bytes of the first k characters.
IsText(t) ==
  /\ t.chars \in Nat
  /\ t.at \in [0 .. t.chars -> Nat]
  /\ t.at[0] = 0
  /\ \A k \in 1 .. t.chars : t.at[k - 1] < t.at[k]

ASSUME TextsAssumption == \A t \in Texts : IsText(t)
ASSUME SizesAssumption ==
  /\ Rows \in Nat \ {0} /\ MaxRowset \in Nat \ {0}
  /\ Cols \subseteq Nat \ {0}
ASSUME BuffersAssumption == Buffers \subseteq [wide : BOOLEAN, len : Nat]

VARIABLES
  value,          \* the text in each row and column
  curPos,         \* the cursor: 0 before the first fetch, Rows + 1 at the end
  currentColNum,  \* Statement::currentColNum
  cellOffset,     \* Statement::cellOffset, in bytes of the UTF-8 form
  got,            \* history: the characters the application received from the
                  \* calls on the current column since it was chosen or fetched
  ret,            \* what the last call returned
  extended        \* history: SQLExtendedFetch moved the cursor last

vars == <<value, curPos, currentColNum, cellOffset, got, ret, extended>>

Bytes(t) == t.at[t.chars]

\* IoTSiteWiseCursor: the row under the iterator, which stands on the first
\* row before the first fetch too, and HasData, which is true there.
RowAt(p) == IF p = 0 THEN 1 ELSE p
HasData(p) == p <= Rows

Init ==
  /\ value \in [1 .. Rows -> [Cols -> Texts]]
  /\ curPos = 0 /\ currentColNum = 0 /\ cellOffset = 0
  /\ got = <<>> /\ ret = "FETCHED"
  /\ extended = FALSE

-----------------------------------------------------------------------------
(* The copy into the buffer.  Each operator returns the characters it counts *)
(* as written, whether they reached the buffer, and whether some are left.   *)

Least(a, b) == IF a <= b THEN a ELSE b

\* Faulty: a text as long as the buffer leaves room for the terminator.
NarrowFitsExactly(left, len) ==
  [chars |-> Least(left, IF len = 0 THEN 0 ELSE len - 1), put |-> TRUE,
   truncated |-> left > len]

\* CopyUtf8StringToSqlCharString
Narrow(left, len) ==
  [chars |-> Least(left, IF len = 0 THEN 0 ELSE len - 1), put |-> TRUE,
   truncated |-> left > 0 /\ left >= len]

\* CopyUtf8StringToWcharString: no room at all is nothing written and nothing
\* truncated; room for the terminator only is a conversion of everything that
\* is left into a buffer the function throws away.
Wide(left, len) ==
  IF len = 0 THEN [chars |-> 0, put |-> TRUE, truncated |-> FALSE]
  ELSE IF len = 1 THEN [chars |-> left, put |-> FALSE, truncated |-> FALSE]
  ELSE [chars |-> Least(left, len - 1), put |-> TRUE,
        truncated |-> left > len - 1]

\* In the middle of a character the wide copy converts nothing and reports
\* a truncation (codecvt error); the narrow one throws a range error.
InsideCharacter(b) ==
  IF b.wide THEN [chars |-> 0, put |-> TRUE, truncated |-> b.len # 0]
            ELSE [chars |-> 0, put |-> FALSE, truncated |-> FALSE]

Boundary(t, off) == \E k \in 0 .. t.chars : t.at[k] = off
CharsBefore(t, off) == CHOOSE k \in 0 .. t.chars : t.at[k] = off

Copy(t, off, b) ==
  IF ~Boundary(t, off) THEN InsideCharacter(b)
  ELSE LET left == t.chars - CharsBefore(t, off)
       IN  IF b.wide THEN Wide(left, b.len) ELSE Narrow(left, b.len)

\* The characters that reached the application.
Delivered(t, off, c) ==
  IF c.put /\ Boundary(t, off)
    THEN [i \in 1 .. c.chars |-> CharsBefore(t, off) + i]
    ELSE <<>>

-----------------------------------------------------------------------------
(* SQLGetData *)

\* The offset a call starts from: the statement's, or 0 for another column.
StartOffset(c) == IF c = currentColNum THEN cellOffset ELSE 0
GotBefore(c) == IF c = currentColNum THEN got ELSE <<>>

\* PutStrToStrBuffer past the last byte.
GetDataNoData(c) ==
  /\ ret # "EXCEPTION" /\ HasData(curPos)
  /\ StartOffset(c) >= Bytes(value[RowAt(curPos)][c])
  /\ currentColNum' = c /\ cellOffset' = StartOffset(c)
  /\ got' = GotBefore(c) /\ ret' = "NO_DATA"
  /\ UNCHANGED <<value, curPos, extended>>

\* Faulty: the terminator is counted as written.
GetDataCountsTerminator(c, b) ==
  LET t == value[RowAt(curPos)][c]
      off == StartOffset(c)
      copy == Copy(t, off, b)
  IN  /\ ret # "EXCEPTION" /\ HasData(curPos) /\ off < Bytes(t)
      /\ currentColNum' = c
      /\ cellOffset' = off + copy.chars + 1
      /\ got' = GotBefore(c) \o Delivered(t, off, copy)
      /\ ret' = IF copy.truncated THEN "SUCCESS_WITH_INFO" ELSE "SUCCESS"
      /\ UNCHANGED <<value, curPos, extended>>

\* PutStrToStrBuffer: the offset, in bytes, moves by the number of characters
\* written.
GetDataPart(c, b) ==
  LET t == value[RowAt(curPos)][c]
      off == StartOffset(c)
      copy == Copy(t, off, b)
  IN  /\ ret # "EXCEPTION" /\ HasData(curPos) /\ off < Bytes(t)
      /\ currentColNum' = c
      /\ cellOffset' = off + copy.chars
      /\ got' = GotBefore(c) \o Delivered(t, off, copy)
      /\ ret' = IF ~Boundary(t, off) /\ ~b.wide THEN "EXCEPTION"
                ELSE IF copy.truncated THEN "SUCCESS_WITH_INFO"
                ELSE "SUCCESS"
      /\ UNCHANGED <<value, curPos, extended>>

\* A null data pointer asks for the length only.
GetDataLength(c) ==
  /\ ret # "EXCEPTION" /\ HasData(curPos)
  /\ currentColNum' = c /\ cellOffset' = StartOffset(c)
  /\ got' = GotBefore(c) /\ ret' = "LENGTH"
  /\ UNCHANGED <<value, curPos, extended>>

\* After the last row the call fails, but it has chosen the column.
GetDataAtEnd(c) ==
  /\ ret # "EXCEPTION" /\ ~HasData(curPos)
  /\ currentColNum' = c /\ cellOffset' = StartOffset(c)
  /\ got' = GotBefore(c) /\ ret' = "ERROR"
  /\ UNCHANGED <<value, curPos, extended>>

-----------------------------------------------------------------------------
(* The fetches *)

\* n calls of FetchNextRow leave the cursor on the last row they reached.
Advance(n) == curPos' = Least(curPos + n, Rows + 1)

\* Faulty: the offset of the previous row is kept.
FetchKeepsOffset(n) ==
  /\ ret # "EXCEPTION"
  /\ Advance(n)
  /\ got' = <<>> /\ ret' = "FETCHED" /\ extended' = FALSE
  /\ UNCHANGED <<value, currentColNum, cellOffset>>

\* SQLFetch and SQLFetchScroll
Fetch(n) ==
  /\ ret # "EXCEPTION"
  /\ Advance(n)
  /\ cellOffset' = 0
  /\ got' = <<>> /\ ret' = "FETCHED" /\ extended' = FALSE
  /\ UNCHANGED <<value, currentColNum>>

\* SQLExtendedFetch does not touch the offset.
ExtendedFetch(n) ==
  /\ ret # "EXCEPTION"
  /\ Advance(n)
  /\ got' = <<>> /\ ret' = "FETCHED" /\ extended' = TRUE
  /\ UNCHANGED <<value, currentColNum, cellOffset>>

Next ==
  \/ \E c \in Cols :
       \/ GetDataNoData(c)
       \/ \E b \in Buffers : GetDataPart(c, b)
       \/ GetDataLength(c)
       \/ GetDataAtEnd(c)
  \/ \E n \in 1 .. MaxRowset : Fetch(n) \/ ExtendedFetch(n)

Spec == Init /\ [][Next]_vars

-----------------------------------------------------------------------------
RetSet == {"FETCHED", "LENGTH", "SUCCESS", "SUCCESS_WITH_INFO", "NO_DATA",
           "ERROR", "EXCEPTION"}

TypeOK ==
  /\ value \in [1 .. Rows -> [Cols -> Texts]]
  /\ curPos \in 0 .. Rows + 1
  /\ currentColNum \in Cols \cup {0}
  /\ cellOffset \in Nat
  /\ got \in Seq(Nat \ {0})
  /\ ret \in RetSet
  /\ extended \in BOOLEAN

\* Every character takes one byte.
OneByteCharacters ==
  \A t \in Texts : \A k \in 0 .. t.chars : t.at[k] = k

\* A wide buffer has room for a character besides the terminator.
RoomForACharacter == \A b \in Buffers : b.wide => b.len > 1

\* The parts of a column follow one another without a gap or a repetition,
\* whatever buffers the application uses ("Cell offsets are used between
\* SQLGetData calls to return variable-length data in parts", odbc.cpp:1203).
PartsContiguous ==
  \A i \in 1 .. Len(got) - 1 : got[i + 1] = got[i] + 1

\* On a row reached with SQLFetch the first part of a column starts at its
\* first character ("We're fetching a new row, ensure cellOffset is reset.",
\* statement.cpp:1168); after SQLExtendedFetch the old offset is in force.
PartsStartAtFirst == ~extended /\ got # <<>> => got[1] = 1

\* On such a row a call that says there is no more ("SUCCESS" without a
\* truncation, or "NO_DATA") says so only when the application has received
\* the whole text.
EndAfterWholeText ==
  ~extended /\ ret \in {"SUCCESS", "NO_DATA"} =>
    Len(got) = value[RowAt(curPos)][currentColNum].chars
=============================================================================
