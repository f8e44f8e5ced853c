-------------------------- MODULE DescriptorRecords --------------------------
(***************************************************************************)
(* The records of the row descriptors of a statement (descriptor.cpp), and *)
(* the column bindings a fetch fills (statement.cpp).  SQLBindCol writes   *)
(* both; SQLSetDescField, SQLCopyDesc and SQL_ATTR_APP_ROW_DESC change the *)
(* descriptors alone, but that a null SQL_DESC_DATA_PTR unbinds.           *)
(*                                                                         *)
(* There is one statement with its implicit descriptors and one descriptor *)
(* of the application; who owns which descriptor when several statements   *)
(* share them is the module Descriptors.                                   *)
(***************************************************************************)
EXTENDS TypeTraits, FiniteSets

CONSTANTS
  Columns,        \* record numbers
  FieldColumns,   \* those whose fields are set and read one by one
  Buffers,        \* addresses of the application
  CTypes,         \* types of buffers it binds
  FieldTypes,     \* types it stores in records
  MaxCalls        \* bound: calls that change something

ASSUME ColumnsAssumption == Columns \subseteq Nat \ {0} /\ FieldColumns \subseteq Columns
ASSUME MaxCallsAssumption == MaxCalls \in Nat

VARIABLES
  rows,           \* the descriptors: head, owner and records
  activeArd,      \* Statement::ard
  columnBindings, \* Statement::columnBindings
  calls,          \* number of calls that changed something
  redirected,     \* history: the active ARD was changed other than by SQLBindCol
  readable,       \* history: the field last set in each descriptor, its value
  answer          \* what the last SQLGetDescField returned

recordVars == <<rows, activeArd, columnBindings, calls, redirected, readable,
                answer>>

RowDescs == {"ardi", "irdi", "app"}
NoPointer == "null"
Unbound == [data |-> NoPointer, len |-> 0, type |-> "none"]
NoAnswer == [of |-> "none", ret |-> "SUCCESS"]
NothingSet == [column |-> 0, field |-> "none", value |-> "none"]

\* A record made by records_[n] is all zero.
ZeroRecord ==
  [type |-> "ZERO", conciseType |-> "ZERO", code |-> "ZERO", precision |-> 0,
   intervalPrecision |-> 0, scale |-> 0, length |-> 0, octetLength |-> 0, dataPtr |-> NoPointer,
   indicatorPtr |-> NoPointer, octetLengthPtr |-> NoPointer]

\* InitAppHead and InitImpHead: the number of records, and who allocated it.
AppHead(implicit) == [count |-> 0, alloc |-> IF implicit THEN "AUTO" ELSE "USER"]
ImpHead == [count |-> 0, alloc |-> "AUTO"]

NewDesc(head, type, ownConn, ownStmt) ==
  [head |-> head, type |-> type, conn |-> ownConn, stmt |-> ownStmt,
   records |-> [c \in Columns |-> ZeroRecord]]

RecordsInit ==
  /\ rows = [ardi |-> NewDesc(AppHead(TRUE), "ARD", FALSE, TRUE),
             irdi |-> NewDesc(ImpHead, "IRD", FALSE, TRUE),
             app  |-> NewDesc(AppHead(FALSE), "UNKNOWN", TRUE, FALSE)]
  /\ activeArd = "ardi"
  /\ columnBindings = [c \in Columns |-> Unbound]
  /\ calls = 0 /\ redirected = FALSE
  /\ readable = [d \in RowDescs |-> NothingSet]
  /\ answer = NoAnswer

Counted == calls < MaxCalls /\ calls' = calls + 1 /\ answer' = NoAnswer

-----------------------------------------------------------------------------
(* Types in a record *)

DateTypes == {"TYPE_DATE", "TYPE_TIME", "TYPE_TIMESTAMP"}
IntervalTypes == {"INTERVAL_YEAR_TO_MONTH", "INTERVAL_DAY_TO_SECOND"}

PlainTypes == TextTypes \cup ExactTypes \cup IntegerTypes \cup ApproximateTypes
              \cup {"BIT"}

IsValidConciseType(t) == t \in PlainTypes \cup DateTypes \cup IntervalTypes
IsValidType(t) == t \in PlainTypes \cup {"DATETIME", "INTERVAL"}

CodeOf(t) ==
  CASE t = "TYPE_DATE" -> "DATE" [] t = "TYPE_TIME" -> "TIME"
    [] t = "TYPE_TIMESTAMP" -> "TIMESTAMP"
    [] t = "INTERVAL_YEAR_TO_MONTH" -> "YEAR_TO_MONTH"
    [] t = "INTERVAL_DAY_TO_SECOND" -> "DAY_TO_SECOND"
    [] OTHER -> "ZERO"

VerboseOf(t) ==
  IF t \in DateTypes THEN "DATETIME"
  ELSE IF t \in IntervalTypes THEN "INTERVAL" ELSE t

IsValidIntervalCode(record, code) ==
  \/ record.type = "DATETIME" /\ code \in {"DATE", "TIME", "TIMESTAMP"}
  \/ record.type = "INTERVAL" /\ code \in {"YEAR_TO_MONTH", "DAY_TO_SECOND"}

SetConciseType(record, t) ==
  [record EXCEPT !.conciseType = t, !.type = VerboseOf(t), !.code = CodeOf(t)]

\* Setting DATETIME or INTERVAL leaves the concise type and the code as they
\* were.
SetDescType(record, t) ==
  LET plain == t \notin {"DATETIME", "INTERVAL"}
      code  == IF plain THEN "ZERO" ELSE record.code
  IN  [record EXCEPT
        !.type = t, !.code = code,
        !.conciseType = IF plain THEN t ELSE @,
        !.length = IF t \in {"CHAR", "VARCHAR"} THEN 1 ELSE @,
        !.scale = IF t \in ExactTypes THEN 0 ELSE @,
        !.precision =
          CASE t \in {"CHAR", "VARCHAR"} -> 0
            [] t \in ExactTypes -> 15
            [] t = "FLOAT" -> 6
            [] t = "DATETIME" /\ code \in {"DATE", "TIME"} -> 0
            [] t = "DATETIME" /\ code = "TIMESTAMP" -> 6
            [] t = "INTERVAL" /\ code = "YEAR_TO_MONTH" -> 2
            [] t = "INTERVAL" /\ code = "DAY_TO_SECOND" -> 6
            [] OTHER -> @]

-----------------------------------------------------------------------------
(* SQLBindCol *)

\* Statement::SetDescriptorFields; a plain type leaves the code as it was.
Described(record, t, data, len, ind) ==
  [record EXCEPT
    !.type = VerboseOf(t), !.conciseType = t,
    !.code = IF t \in DateTypes \cup IntervalTypes THEN CodeOf(t) ELSE @,
    !.length = IF t \in TextTypes THEN len ELSE SqlTypeTransferLength(t),
    !.precision = SqlTypePrecision(t), !.scale = SqlTypeScale(t),
    !.octetLength = len, !.dataPtr = data,
    !.indicatorPtr = ind, !.octetLengthPtr = ind]

\* Faulty: the count is that of the last column bound.
SetDescriptorFieldsCountLast(d, c, t, data, len, ind) ==
  [rows EXCEPT ![d].head.count = c,
               ![d].records[c] = Described(@, t, data, len, ind)]

SetDescriptorFields(d, c, t, data, len, ind) ==
  [rows EXCEPT ![d].head.count = IF @ < c THEN c ELSE @,
               ![d].records[c] = Described(@, t, data, len, ind)]

Refuses(t, len) ==
  \/ ToDriverType(t) = "UNSUPPORTED"
  \/ len < 0
  \/ len = 0 /\ ToDriverType(t) \in {"CHAR", "WCHAR"}

\* A call that is refused changes nothing.
BindColumn(c, t, data, len, ind) ==
  /\ ~Refuses(t, len)
  /\ Counted
  /\ IF data # NoPointer \/ ind # NoPointer
       THEN /\ columnBindings' = [columnBindings EXCEPT ![c] =
                                    [data |-> data, len |-> len, type |-> t]]
            /\ rows' = SetDescriptorFields(activeArd, c, t, data, len, ind)
            /\ readable' = [readable EXCEPT ![activeArd] = NothingSet]
       ELSE /\ columnBindings' = [columnBindings EXCEPT ![c] = Unbound]
            /\ UNCHANGED <<rows, readable>>
  /\ UNCHANGED <<activeArd, redirected>>

\* SQLFreeStmt with SQL_UNBIND.
UnbindAll ==
  /\ Counted
  /\ columnBindings' = [c \in Columns |-> Unbound]
  /\ UNCHANGED <<rows, activeArd, redirected, readable>>

-----------------------------------------------------------------------------
(* SQLSetDescField *)

Stores(d, c, field, value, record) ==
  /\ rows' = [rows EXCEPT ![d].records[c] = record]
  /\ readable' = [readable EXCEPT ![d] =
                    [column |-> c, field |-> field, value |-> value]]
  /\ UNCHANGED activeArd

\* The fields of the types of a record.
SetTypeField(d, c, field, value) ==
  LET record == rows[d].records[c]
  IN  /\ Counted
      /\ \/ /\ field = "CONCISE_TYPE" /\ IsValidConciseType(value)
            /\ Stores(d, c, field, value, SetConciseType(record, value))
         \/ /\ field = "TYPE" /\ IsValidType(value)
            /\ Stores(d, c, field, value, SetDescType(record, value))
         \/ /\ field = "DATETIME_INTERVAL_CODE"
            /\ IsValidIntervalCode(record, value)
            /\ Stores(d, c, field, value, [record EXCEPT !.code = value])
         \/ /\ field = "DATETIME_INTERVAL_PRECISION" /\ record.type = "INTERVAL"
            /\ Stores(d, c, field, value,
                      [record EXCEPT !.intervalPrecision = value])
      /\ UNCHANGED <<columnBindings, redirected>>

\* The fields of the buffers of a record.
SetPointerField(d, c, field, value) ==
  LET record == rows[d].records[c]
  IN  /\ Counted
      /\ \/ /\ field = "INDICATOR_PTR"
            /\ Stores(d, c, field, value, [record EXCEPT !.indicatorPtr = value])
         \/ /\ field = "OCTET_LENGTH_PTR"
            /\ Stores(d, c, field, value, [record EXCEPT !.octetLengthPtr = value])
      /\ redirected' = (redirected \/ d = activeArd)
      /\ UNCHANGED columnBindings

WithLength(record, len) == [record EXCEPT !.length = len, !.octetLength = len]

\* SQL_DESC_LENGTH and SQL_DESC_OCTET_LENGTH set both, for texts only.
SetLengthField(d, c, field, len) ==
  LET record == rows[d].records[c]
  IN  /\ Counted
      /\ record.conciseType \in TextTypes
      /\ Stores(d, c, field, len, WithLength(record, len))
      /\ redirected' = (redirected \/ d = activeArd)
      /\ UNCHANGED columnBindings

\* SQL_DESC_DATA_PTR: a buffer is only noted in the record; a null pointer
\* unbinds the column of the statement the descriptor points at, active or not,
\* and leaves the pointer of the record.  On a descriptor that was never made
\* an ARD it is a call through a null pointer, which ends the program.
SetDataPtr(d, c, data, len) ==
  LET record == rows[d].records[c]
  IN  /\ Counted
      /\ IF data = NoPointer
           THEN /\ rows[d].stmt
                /\ columnBindings' = [columnBindings EXCEPT ![c] = Unbound]
                /\ rows' = [rows EXCEPT ![d].records[c] = WithLength(record, 0)]
                /\ readable' = [readable EXCEPT ![d] = NothingSet]
                /\ UNCHANGED activeArd
           ELSE /\ Stores(d, c, "DATA_PTR", data,
                          WithLength([record EXCEPT !.dataPtr = data], len))
                /\ UNCHANGED columnBindings
      /\ redirected' = (redirected \/ d = activeArd)

-----------------------------------------------------------------------------
(* SQLGetDescField *)

\* The types of descriptors a field can be read of.
AllowedDescTypes(field) ==
  CASE field \in {"ARRAY_SIZE", "BIND_OFFSET_PTR", "BIND_TYPE", "DATA_PTR",
                  "INDICATOR_PTR", "OCTET_LENGTH_PTR"} -> {"ARD", "APD"}
    [] field \in {"ROWS_PROCESSED_PTR", "CASE_SENSITIVE", "FIXED_PREC_SCALE",
                  "LOCAL_TYPE_NAME", "NAME", "NULLABLE", "ROWVER", "TYPE_NAME",
                  "UNNAMED", "UNSIGNED"} -> {"IRD", "IPD"}
    [] field \in {"AUTO_UNIQUE_VALUE", "BASE_COLUMN_NAME", "BASE_TABLE_NAME",
                  "CATALOG_NAME", "DISPLAY_SIZE", "LABEL", "LITERAL_PREFIX",
                  "LITERAL_SUFFIX", "SCHEMA_NAME", "SEARCHABLE", "TABLE_NAME",
                  "UPDATABLE"} -> {"IRD"}
    [] field = "PARAMETER_TYPE" -> {"IPD"}
    [] OTHER -> {"ARD", "APD", "IRD", "IPD", "UNKNOWN"}

\* The fields of a record that calls can change; all others are zero.
GetField(record, field) ==
  CASE field = "CONCISE_TYPE" -> record.conciseType
    [] field = "TYPE" -> record.type
    [] field = "DATETIME_INTERVAL_CODE" -> record.code
    [] field = "DATETIME_INTERVAL_PRECISION" -> record.intervalPrecision
    [] field = "LENGTH" -> record.length
    [] field = "OCTET_LENGTH" -> record.octetLength
    [] field = "DATA_PTR" -> record.dataPtr
    [] field = "INDICATOR_PTR" -> record.indicatorPtr
    [] field = "OCTET_LENGTH_PTR" -> record.octetLengthPtr

\* InternalGetField, of a field that was set or one only an IRD has.
GetDescField(d, c, field) ==
  /\ answer' = IF rows[d].type \in AllowedDescTypes(field)
                 THEN [of |-> d, ret |-> "SUCCESS", field |-> field,
                       value |-> IF field = "LABEL" THEN NoPointer
                                 ELSE GetField(rows[d].records[c], field)]
                 ELSE [of |-> d, ret |-> "ERROR"]
  /\ UNCHANGED <<rows, activeArd, columnBindings, calls, redirected, readable>>

-----------------------------------------------------------------------------
(* SQLCopyDesc and SQL_ATTR_APP_ROW_DESC *)

\* Faulty: the records of the destination are kept where there are some.
CopiedRecordsMerged(src, dst) ==
  [c \in Columns |-> IF rows[dst].records[c] = ZeroRecord
                       THEN rows[src].records[c] ELSE rows[dst].records[c]]

\* The destination is cleared first: a descriptor copied to itself is empty.
CopiedRecords(src, dst) ==
  IF src = dst THEN [c \in Columns |-> ZeroRecord] ELSE rows[src].records

\* InternalCopyDesc: the copy counts no records and is an implicit one.
CopyRecords(src, dst) ==
  /\ rows[dst].type # "IRD"
  /\ Counted
  /\ rows' = [rows EXCEPT ![dst] =
                [rows[src] EXCEPT !.head = IF rows[src].type \in {"ARD", "APD"}
                                             THEN AppHead(TRUE) ELSE ImpHead,
                                  !.records = CopiedRecords(src, dst)]]
  /\ readable' = [readable EXCEPT ![dst] = IF src = dst THEN NothingSet
                                                        ELSE readable[src]]
  /\ redirected' = (redirected \/ dst = activeArd)
  /\ UNCHANGED <<activeArd, columnBindings>>

\* Descriptors of no connection are refused; the bindings are not told.
SetArd(d) ==
  /\ Counted
  /\ \/ /\ d = NoPointer /\ activeArd' = "ardi"
        /\ rows' = rows
     \/ /\ d # NoPointer /\ rows[d].conn
        /\ activeArd' = d
        /\ rows' = [rows EXCEPT ![d].type = "ARD", ![d].stmt = TRUE]
  /\ redirected' = TRUE
  /\ UNCHANGED <<columnBindings, readable>>

-----------------------------------------------------------------------------
\* What a program passes: the buffer and the indicator of a binding, lengths,
\* and codes of dates and intervals.
Bindings == {<<NoPointer, NoPointer>>} \cup (Buffers \cup {NoPointer}) \X Buffers
BufferLengths == {0, 4}
Codes == {"DATE", "YEAR_TO_MONTH"}

SetDescField(d, c) ==
  \/ \E t \in FieldTypes, field \in {"CONCISE_TYPE", "TYPE"} : SetTypeField(d, c, field, t)
  \/ \E code \in Codes : SetTypeField(d, c, "DATETIME_INTERVAL_CODE", code)
  \/ SetTypeField(d, c, "DATETIME_INTERVAL_PRECISION", 2)
  \/ \E p \in Buffers, field \in {"INDICATOR_PTR", "OCTET_LENGTH_PTR"} :
       SetPointerField(d, c, field, p)
  \/ \E field \in {"LENGTH", "OCTET_LENGTH"} : SetLengthField(d, c, field, 2)
  \/ \E p \in Buffers \cup {NoPointer} : SetDataPtr(d, c, p, 2)

RecordsNext ==
  \/ \E c \in Columns, t \in CTypes, b \in Bindings, len \in BufferLengths :
       BindColumn(c, t, b[1], len, b[2])
  \/ UnbindAll
  \/ \E d \in RowDescs, c \in FieldColumns : SetDescField(d, c)
  \/ \E d \in RowDescs :
       \/ readable[d] # NothingSet /\ GetDescField(d, readable[d].column, readable[d].field)
       \/ \E c \in FieldColumns : GetDescField(d, c, "LABEL")
  \/ \E src, dst \in RowDescs : CopyRecords(src, dst)
  \/ \E d \in RowDescs \cup {NoPointer} : SetArd(d)

RecordsSpec == RecordsInit /\ [][RecordsNext]_recordVars

-----------------------------------------------------------------------------
(* Properties *)

\* A column that a fetch fills is described by the active ARD, as long as that
\* was changed by SQLBindCol alone: same buffer and length, and counted.  A
\* program may read its bindings back from the ARD.  SQL_DESC_DATA_PTR,
\* SQLCopyDesc and another ARD change what is read and not what is filled.
BoundIsDescribed ==
  ~redirected =>
    \A c \in Columns : columnBindings[c] # Unbound =>
      LET record == rows[activeArd].records[c]
      IN  /\ record.dataPtr = columnBindings[c].data
          /\ record.octetLength = columnBindings[c].len
          /\ rows[activeArd].head.count >= c

\* A field that SQLSetDescField accepted reads back as it was set, in the
\* descriptor and in one it was copied to, where the type of the descriptor
\* lets it be read.  A descriptor copied to itself is the exception.
FieldsReadBack ==
  answer.of # "none" /\ answer.ret = "SUCCESS" /\ answer.field # "LABEL" =>
    answer.value = readable[answer.of].value
=============================================================================
