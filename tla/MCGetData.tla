------------------------------ MODULE MCGetData ------------------------------
(***************************************************************************)
(* Instances of GetData and Conversions: a behaviour either reads texts in *)
(* parts or fills the rows of a bound column; the two share no state of     *)
(* the driver.                                                             *)
(***************************************************************************)
EXTENDS Conversions

\* Texts of up to three one-byte characters, the empty one included.
AsciiTexts == {[chars |-> n, at |-> [k \in 0 .. n |-> k]] : n \in 0 .. 3}

\* Texts that begin with a two-byte character.
MultibyteTexts ==
  {[chars |-> n, at |-> [k \in 0 .. n |-> IF k = 0 THEN 0 ELSE k + 1]]
     : n \in 1 .. 3}

\* Buffers with room for at least one character, or of no length for the
\* narrow copy, which reports the truncation.
RoomyBuffers ==
  [wide : BOOLEAN, len : 2 .. 4] \cup [wide : {FALSE}, len : 0 .. 1]

\* Every type, the texts with buffers from no length to room for everything;
\* no indicator for one type of each group; no buffer where a type allows it.
AllBindings ==
  LET Sized == [type : {"CHAR"}, len : {0, 1, 4, 30}]
               \cup [type : {"WCHAR"}, len : {0, 2, 4, 6, 12, 60}]
               \cup [type : {"BINARY", "DEFAULT"}, len : {3, 8}]
      Others == [type : (IntTypes \cup FloatTypes \cup IntervalTypes
                           \cup {"TDATE", "TTIME", "TTIMESTAMP", "NUMERIC"}),
                 len : {0}]
      With(b, data, ind) ==
        [type |-> b.type, len |-> b.len, data |-> data, ind |-> ind]
  IN  {With(b, TRUE, TRUE) : b \in Sized \cup Others}
      \cup {With([type |-> t, len |-> 6], TRUE, FALSE) :
              t \in {"CHAR", "WCHAR", "SIGNED_LONG", "TTIMESTAMP"}}
      \cup {With([type |-> t, len |-> 0], FALSE, TRUE) :
              t \in {"CHAR", "WCHAR", "BINARY", "SIGNED_LONG", "DOUBLE"}}

\* Columns of each type, with a null; numbers at the edges of the scaled
\* widths, doubles that have too many bits for a float and too many digits for
\* a stream, texts with and without a number, moments, intervals, decimals,
\* arrays whose elements fit their buffers and one whose second does not.
AllColumns ==
  {{[k |-> "null"]} \cup c : c \in
     {{[k |-> "boolean", h |-> 0], [k |-> "boolean", h |-> 2]},
      {[k |-> "int", h |-> 2 * n] : n \in {-1, 7, 8, 127}},
      {[k |-> "double", h |-> h] : h \in {3, 20, 25, 254}},
      {[k |-> "text", chars |-> 0, spells |-> 0],
       [k |-> "text", chars |-> 2, spells |-> 24],
       [k |-> "text", chars |-> 5, spells |-> 0]},
      {[k |-> "timestamp", t |-> [day |-> 1, tod |-> 3601, ns |-> 5]],
       [k |-> "timestamp", t |-> [day |-> 1, tod |-> 3601, ns |-> Absent]]},
      {[k |-> "date", t |-> [day |-> 2, tod |-> 60, ns |-> 0]]},
      {[k |-> "time", t |-> [day |-> 0, tod |-> 61, ns |-> 7]]},
      {[k |-> "array", elements |-> <<>>], [k |-> "array", elements |-> <<2, 4>>],
       [k |-> "array", elements |-> <<2, 7>>], [k |-> "row", elements |-> <<>>],
       [k |-> "row", elements |-> <<0>>], [k |-> "norow"]},
      {[k |-> "yearmonth", sign |-> FALSE, chars |-> 4,
        parts |-> [year |-> 2, month |-> 3]],
       [k |-> "daysecond", sign |-> TRUE, chars |-> 20,
        parts |-> [day |-> 1, hour |-> 2, minute |-> 3, second |-> 4]]},
      {[k |-> "decimal", h |-> 5, scale |-> 1],
       [k |-> "decimal", h |-> 4, scale |-> 0]},
      {[k |-> "untyped"], [k |-> "unset"]}}}

\* No column is bound while texts are read in parts, and nothing is read in
\* parts while a bound column is filled.
PartsInit ==
  /\ Init
  /\ column = {} /\ binding = Unbound /\ elementOffset = 0
  /\ writer = <<>> /\ cell = <<>> /\ indicator = <<>> /\ outcome = <<>>

RowsInit ==
  /\ BufferInit
  /\ value = [r \in 1 .. Rows |-> [c \in Cols |-> CHOOSE t \in Texts : TRUE]]
  /\ curPos = 0 /\ currentColNum = 0 /\ cellOffset = 0
  /\ got = <<>> /\ ret = "FETCHED" /\ extended = FALSE

BothNext ==
  \/ binding = Unbound /\ Next /\ UNCHANGED bufferVars
  \/ binding # Unbound /\ BufferNext /\ UNCHANGED vars

BothSpec == (PartsInit \/ RowsInit) /\ [][BothNext]_<<vars, bufferVars>>
=============================================================================
