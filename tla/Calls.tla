-------------------------------- MODULE Calls --------------------------------
(***************************************************************************)
(* The entry points of the driver (odbc.cpp, entry_points.cpp) and the     *)
(* diagnostic records of the handles they are called with: what each call  *)
(* returns, which records it leaves, and which query is then the current   *)
(* one of the statement.                                                   *)
(*                                                                         *)
(* There is one handle of each type.  The driver manager passes none that  *)
(* is null or freed, and frees a handle after those made from it.  A query *)
(* is what the results of the calls depend on: its class, whether it has a *)
(* row ("rows"), is past the last one ("end"), has no rows ("none"), is not *)
(* executed or closed ("closed") or waits for a page that never comes      *)
(* ("starved", see the module DataQuery), and for a DataQuery whether its  *)
(* columns are known.  The properties are about the records of one handle  *)
(* at a time, so a behaviour follows those of one handle, any of the four. *)
(***************************************************************************)
EXTENDS Naturals, Sequences, FiniteSets

CONSTANTS
  MaxRecords,      \* bound: records a handle may pile up
  MessageLength    \* characters of the text of a record

ASSUME MaxRecordsAssumption == MaxRecords \in Nat \ {0}
ASSUME MessageLengthAssumption == MessageLength \in Nat \ {0}

VARIABLES
  watched,      \* the handle whose records are followed
  held,         \* the handles that exist
  odbcVersion,  \* Environment::odbcVersion
  storage,      \* diagnosticRecords of the handle watched
  current,      \* Statement::currentQuery
  told,         \* the last call and what it returned; the calls no property
                \* tells apart are "other"
  given         \* what the last SQLDescribeCol, SQLGetDiagRec or
                \* SQLGetDiagField handed out

callVars == <<watched, held, odbcVersion, storage, current, told, given>>

Handles == {"ENV", "DBC", "STMT", "DESC"}

\* The handles that are made from one.
MadeFrom(h) ==
  CASE h = "ENV" -> {"DBC"} [] h = "DBC" -> {"STMT", "DESC"} [] OTHER -> {}

NoQuery == [kind |-> "NONE", at |-> "closed", meta |-> FALSE]
Query(kind, at) == [kind |-> kind, at |-> at, meta |-> TRUE]
DataQuery(at, meta) == [kind |-> "DATA", at |-> at, meta |-> meta]

NothingGiven == [of |-> "nothing"]

-----------------------------------------------------------------------------
(* Diagnostic records *)

NewStorage == [result |-> "SUCCESS", records |-> <<>>]

\* A record made by the last call of its handle.  The calls name the SQLSTATEs
\* of their records; no property tells them apart.
Added == [fresh |-> TRUE, retrieved |-> FALSE]

Older(records) ==
  [i \in DOMAIN records |-> [records[i] EXCEPT !.fresh = FALSE]]

\* IGNITE_ODBC_API_CALL: the records are cleared, the call is made, and its
\* result becomes that of the header.
Stored(ret, states) ==
  [result |-> ret, records |-> [i \in DOMAIN states |-> Added]]

\* AddStatusRecord without IGNITE_ODBC_API_CALL.
StoredToo ==
  [storage EXCEPT !.records = Append(Older(@), Added)]

\* Faulty: every call asks for the version.
AnsweredByAll(h, call, ret, states, q) ==
  /\ h \in held
  /\ storage' = CASE watched = h     -> Stored(ret, states)
                  [] watched = "ENV" -> Stored("SUCCESS", <<>>)
                  [] OTHER           -> storage
  /\ told' = [h |-> h, call |-> call, ret |-> ret, resets |-> TRUE]
  /\ current' = q
  /\ given' = NothingGiven
  /\ UNCHANGED <<watched, held, odbcVersion>>

\* A call of handle h that resets its records; q is then the current query.
Answered(h, call, ret, states, q) ==
  /\ h \in held
  /\ storage' = IF h = watched THEN Stored(ret, states) ELSE storage
  /\ told' = [h |-> h, call |-> call, ret |-> ret, resets |-> TRUE]
  /\ current' = q
  /\ given' = NothingGiven
  /\ UNCHANGED <<watched, held, odbcVersion>>

\* One that on its way makes a successful call of another handle, which
\* resets the records of that one too.
AnsweredThrough(other, h, call, ret, states, q) ==
  /\ h \in held
  /\ storage' = IF watched = h THEN Stored(ret, states)
                ELSE IF watched = other THEN Stored("SUCCESS", <<>>)
                ELSE storage
  /\ told' = [h |-> h, call |-> call, ret |-> ret, resets |-> TRUE]
  /\ current' = q
  /\ given' = NothingGiven
  /\ UNCHANGED <<watched, held, odbcVersion>>

\* One that asks for the ODBC version: Connection::GetEnvODBCVer calls
\* Environment::GetAttribute.
AnsweredWithVersion(h, call, ret, states, q) ==
  AnsweredThrough("ENV", h, call, ret, states, q)

\* One that only adds a record.
AnsweredToo(h, call, ret, state) ==
  /\ h \in held
  /\ h = watched => Len(storage.records) < MaxRecords
  /\ storage' = IF h = watched THEN StoredToo ELSE storage
  /\ told' = [h |-> h, call |-> call, ret |-> ret, resets |-> FALSE]
  /\ given' = NothingGiven
  /\ UNCHANGED <<watched, held, odbcVersion, current>>

\* An outcome of a call of the statement.
Outcome(ret, states, q) == [ret |-> ret, states |-> states, q |-> q]

StatementCall(call, outcomes) ==
  \E o \in outcomes : Answered("STMT", call, o.ret, o.states, o.q)

OtherCall(outcomes) == StatementCall("other", outcomes)

Refused(state) == {Outcome("ERROR", <<state>>, current)}
Succeeds == {Outcome("SUCCESS", <<>>, current)}

-----------------------------------------------------------------------------
(* Handles *)

Allocated(h, parent) ==
  /\ h \notin held /\ parent \in held
  /\ held' = held \cup {h}
  /\ storage' = CASE watched = h      -> NewStorage
                  [] watched = parent -> Stored("SUCCESS", <<>>)
                  [] OTHER            -> storage
  /\ told' = [h |-> parent, call |-> "other", ret |-> "SUCCESS",
              resets |-> TRUE]
  /\ current' = IF h = "STMT" THEN NoQuery ELSE current
  /\ given' = NothingGiven
  /\ UNCHANGED <<watched, odbcVersion>>

SQLAllocConnect == Allocated("DBC", "ENV")
SQLAllocStmt    == Allocated("STMT", "DBC")
SQLAllocDesc    == Allocated("DESC", "DBC")

\* A new environment is an ODBC 3 one.
SQLAllocEnv ==
  /\ "ENV" \notin held
  /\ held' = {"ENV"}
  /\ odbcVersion' = 3
  /\ storage' = IF watched = "ENV" THEN NewStorage ELSE storage
  /\ told' = [h |-> "ENV", call |-> "other", ret |-> "SUCCESS",
              resets |-> TRUE]
  /\ given' = NothingGiven
  /\ UNCHANGED <<watched, current>>

SQLFreeHandle(h) ==
  /\ h \in held /\ MadeFrom(h) \cap held = {}
  /\ held' = held \ {h}
  /\ storage' = IF h = watched THEN NewStorage ELSE storage
  /\ current' = IF h = "STMT" THEN NoQuery ELSE current
  /\ told' = [h |-> h, call |-> "other", ret |-> "SUCCESS",
              resets |-> TRUE]
  /\ given' = NothingGiven
  /\ UNCHANGED <<watched, odbcVersion>>

-----------------------------------------------------------------------------
(* The environment *)

EnvironmentCall(ret, states) ==
  Answered("ENV", "other", ret, states, current)

\* Another version is refused with a warning and the one set before stays;
\* OUTPUT_NTS can only be TRUE.
SQLSetEnvAttr ==
  \/ /\ "ENV" \in held
     /\ odbcVersion' \in {2, 3}
     /\ storage' = IF watched = "ENV" THEN Stored("SUCCESS", <<>>) ELSE storage
     /\ told' = [h |-> "ENV", call |-> "other", ret |-> "SUCCESS",
                 resets |-> TRUE]
     /\ given' = NothingGiven
     /\ UNCHANGED <<watched, held, current>>
  \/ EnvironmentCall("SUCCESS_WITH_INFO", <<"01S02">>)
  \/ EnvironmentCall("ERROR", <<"HYC00">>)

SQLGetEnvAttr ==
  \/ EnvironmentCall("SUCCESS", <<>>)
  \/ EnvironmentCall("ERROR", <<"HYC00">>)

-----------------------------------------------------------------------------
(* Calls of the connection.  Those that connect, and its attributes, are in *)
(* the module Connection; SQLGetInfo and SQLGetFunctions in Information.    *)

SQLNativeSql ==
  \/ Answered("DBC", "other", "SUCCESS", <<>>, current)
  \/ Answered("DBC", "other", "SUCCESS_WITH_INFO", <<"01004">>, current)
  \/ \E state \in {"HY009", "HY090"} :
       Answered("DBC", "other", "ERROR", <<state>>, current)

-----------------------------------------------------------------------------
(* Functions that are not supported *)

NotSupported(h) ==
  CASE h = "STMT" -> {"SQLSetStmtOption", "SQLSetPos", "SQLSetScrollOptions",
                      "SQLBulkOperations", "SQLBindParameter",
                      "SQLDescribeParam", "SQLParamData", "SQLParamOptions",
                      "SQLNumParams", "SQLPutData"}
    [] h = "DBC"  -> {"SQLBrowseConnect", "SQLEndTran"}
    [] h = "ENV"  -> {"SQLEndTran"}
    [] h = "DESC" -> {"SQLGetDescRec", "SQLSetDescRec"}

\* A record is added to those that are there; the header keeps the result of
\* the call before.
UnsupportedFunction(h) ==
  NotSupported(h) # {} /\ AnsweredToo(h, "other", "ERROR", "HYC00")

-----------------------------------------------------------------------------
(* Calls that make a query *)

SQLPrepare ==
  StatementCall("SQLPrepare",
    {Outcome("SUCCESS", <<>>, DataQuery("closed", FALSE))})

\* DataQuery::Execute; meta tells whether the columns are known already.
DataExecuted(meta) ==
  {Outcome("ERROR", <<"HY000">>, DataQuery("closed", meta)),
   Outcome("NO_DATA", <<>>, DataQuery("closed", meta)),
   Outcome("SUCCESS", <<>>, DataQuery("rows", TRUE))}

\* InternalExecuteSqlQuery: a result without rows is a warning.
Executed(outcomes) ==
  {IF o.ret = "NO_DATA"
     THEN Outcome("SUCCESS_WITH_INFO", Append(o.states, "01000"), o.q) ELSE o
     : o \in outcomes}

SQLExecDirect == StatementCall("SQLExecDirect", Executed(DataExecuted(FALSE)))

\* Without a table the record 01000 comes with SUCCESS or SUCCESS_WITH_INFO; a
\* page of the inner query that is lost leaves its record.
TablesExecuted ==
  {Outcome("SUCCESS", states, Query("TABLES", "rows"))
     : states \in {<<>>, <<"24000">>}}
  \cup {Outcome(ret, <<"01000">>, Query("TABLES", "none"))
          : ret \in {"SUCCESS", "SUCCESS_WITH_INFO"}}
  \cup {Outcome("ERROR", <<state>>, Query("TABLES", "closed"))
          : state \in {"HY000", "HY009"}}

SQLTables ==
  \E o \in TablesExecuted :
    AnsweredWithVersion("STMT", "SQLTables", o.ret, o.states, o.q)

\* The query is executed only when all its parts succeed.
ColumnsExecuted ==
  {Outcome("SUCCESS", states, Query("COLUMNS", "rows"))
     : states \in {<<>>, <<"24000">>}}
  \cup {Outcome("SUCCESS_WITH_INFO", states, Query("COLUMNS", "closed"))
          : states \in {<<"01000">>, <<"01000", "01000">>,
                        <<"HY000", "01000">>}}
  \cup {Outcome("NO_DATA", states, Query("COLUMNS", "closed"))
          : states \in {<<>>, <<"HY000">>}}
  \cup {Outcome("ERROR", <<"HY009">>, Query("COLUMNS", "closed"))}

\* Faulty: the result set asked for before is taken for the new one.
SQLColumnsUnasked ==
  \/ AnsweredToo("STMT", "SQLColumns", "SUCCESS_WITH_INFO", "01000")
  \/ \E o \in ColumnsExecuted :
       AnsweredWithVersion("STMT", "SQLColumns", o.ret, o.states,
                           IF o.ret = "SUCCESS_WITH_INFO" THEN current ELSE o.q)

\* Two empty strings for catalog and schema add a warning, nothing else: the
\* query of the call before stays the current one.
SQLColumns ==
  \/ AnsweredToo("STMT", "SQLColumns", "SUCCESS_WITH_INFO", "01000")
  \/ \E o \in ColumnsExecuted :
       AnsweredWithVersion("STMT", "SQLColumns", o.ret, o.states, o.q)

TypesExecuted == {Outcome("SUCCESS", <<>>, Query("TYPES", "rows"))}

SQLGetTypeInfo ==
  StatementCall("SQLGetTypeInfo", TypesExecuted \cup Refused("HYC00"))

\* Faulty: the warning is not recorded.
EmptyExecutedSilently ==
  {Outcome("SUCCESS_WITH_INFO", <<>>, Query("EMPTY", "none"))}

\* The catalog functions that have nothing to report.
EmptyExecuted ==
  {Outcome("SUCCESS_WITH_INFO", <<"01000">>, Query("EMPTY", "none"))}

SQLColumnPrivileges == StatementCall("emptyCatalog", EmptyExecuted)
SQLTablePrivileges  == StatementCall("emptyCatalog", EmptyExecuted)
SQLForeignKeys      == StatementCall("emptyCatalog", EmptyExecuted)
SQLPrimaryKeys      == StatementCall("emptyCatalog", EmptyExecuted)
SQLSpecialColumns   == StatementCall("emptyCatalog", EmptyExecuted)
SQLProcedureColumns == StatementCall("emptyCatalog", EmptyExecuted)
SQLProcedures       == StatementCall("emptyCatalog", EmptyExecuted)

SQLStatistics ==
  \E o \in EmptyExecuted :
    AnsweredWithVersion("STMT", "SQLStatistics", o.ret, o.states, o.q)

-----------------------------------------------------------------------------
(* Calls about the current query *)

\* Query::Execute of the current query, which may be any.
QueryExecuted ==
  CASE current.kind = "DATA"    -> DataExecuted(current.meta)
    [] current.kind = "TABLES"  -> TablesExecuted
    [] current.kind = "COLUMNS" -> ColumnsExecuted
    [] current.kind = "TYPES"   -> TypesExecuted
    [] current.kind = "EMPTY"   -> EmptyExecuted

SQLExecute ==
  OtherCall(IF current.kind = "NONE" THEN Refused("HY010")
            ELSE Executed(QueryExecuted))

At(where) == [current EXCEPT !.at = where]

\* A row with a value that was cut, needs an indicator or cannot be converted
\* succeeds, with a record.
DataFetched ==
  CASE current.at = "rows" ->
         {Outcome("SUCCESS", states, current)
            : states \in {<<>>, <<"01004">>, <<"01S07">>, <<"22002">>,
                          <<"HYC00">>}}
         \cup {Outcome("ERROR", <<"01S01">>, current),
               Outcome("NO_DATA", <<>>, At("end")),
               Outcome("NO_DATA", <<"24000">>, At("starved")),
               Outcome("ERROR", <<"24000">>, At("closed"))}
    [] current.at = "end"     -> {Outcome("NO_DATA", <<>>, current)}
    [] current.at = "closed"  -> {Outcome("NO_DATA", <<"01000">>, current)}
    [] current.at = "starved" -> {}

CatalogFetched ==
  CASE current.at = "rows" -> Succeeds
                              \cup {Outcome("NO_DATA", <<>>, At("end"))}
    [] current.at \in {"end", "none"} -> {Outcome("NO_DATA", <<>>, current)}
    [] current.at = "closed" -> Refused("HY010")

\* InternalFetchRow, for one row; rowsets are in the module Statement.
Fetched ==
  CASE current.kind = "NONE"  -> Refused("24000")
    [] current.kind = "DATA"  -> DataFetched
    [] current.kind = "EMPTY" -> {Outcome("NO_DATA", <<"01000">>, current)}
    [] OTHER                  -> CatalogFetched

SQLFetch         == OtherCall(Fetched)
SQLFetchScroll   == OtherCall(Fetched \cup Refused("HYC00"))
SQLExtendedFetch == OtherCall(Fetched \cup Refused("HYC00"))

\* GetColumn.  A DataQuery at the end of its rows and one that was closed
\* answer differently.
SQLGetData ==
  OtherCall(CASE current.kind = "NONE" -> Refused("24000")
      [] current.kind = "EMPTY" \/ (current.kind = "DATA"
                                      /\ current.at = "closed") ->
           {Outcome("NO_DATA", <<"01000">>, current)}
      [] current.at = "none" -> {Outcome("NO_DATA", <<>>, current)}
      [] current.at = "closed" /\ current.kind # "DATA" -> Refused("HY010")
      [] current.at \in {"end", "starved"} -> Refused("24000")
      [] current.at = "rows" ->
           Succeeds
           \cup (IF current.kind = "DATA"
                   THEN {Outcome("NO_DATA", <<>>, current),
                         Outcome("ERROR", <<"01S01">>, current)}
                        \cup {Outcome("SUCCESS_WITH_INFO", <<state>>, current)
                                : state \in {"01004", "01S07", "22002",
                                             "HYC00"}}
                   ELSE {})
           \cup (IF current.kind = "COLUMNS" THEN Refused("07009") ELSE {}))

Closed == IF current.kind = "EMPTY" THEN current ELSE At("closed")

\* A DataQuery that is closed and had a fetch thread refuses.
SQLCancel ==
  OtherCall(IF current.kind = "NONE"
      THEN Refused("HY010")
      ELSE {Outcome("SUCCESS", <<>>, Closed)}
           \cup (IF current.kind = "DATA" /\ current.at = "closed"
                   THEN Refused("HY000") ELSE {}))

DataAvailable ==
  \/ current.kind = "DATA" /\ current.at \in {"rows", "end", "starved"}
  \/ current.kind \in {"TABLES", "COLUMNS", "TYPES"} /\ current.at = "rows"

\* Statement::InternalClose: without an open cursor the record is added even
\* where the error is ignored.
Closes(ignoreErrors) ==
  CASE current.kind = "NONE" -> Succeeds
    [] current.kind # "NONE" /\ ~DataAvailable ->
         {Outcome(IF ignoreErrors THEN "SUCCESS" ELSE "ERROR", <<"24000">>,
                  current)}
    [] DataAvailable -> {Outcome("SUCCESS", <<>>, Closed)}

SQLCloseCursor == OtherCall(Closes(FALSE))

\* SQL_CLOSE, SQL_UNBIND and an option that is unknown.
SQLFreeStmt ==
  OtherCall(Closes(TRUE) \cup Succeeds \cup Refused("HY092"))

NeedsQuery(outcomes) ==
  IF current.kind = "NONE" THEN Refused("HY010") ELSE outcomes

SQLMoreResults ==
  OtherCall(NeedsQuery({Outcome("NO_DATA", <<>>, current)}))

SQLRowCount == OtherCall(NeedsQuery(Succeeds))
-----------------------------------------------------------------------------
(* The columns of the current query *)

WithMeta == [current EXCEPT !.meta = TRUE]

\* What asking for the columns fails with.  An answer of the service that has
\* no column leaves no record.
MetaFailures == {<<"HY000">>, <<>>}

\* Calls that read the columns, where reading them gives these outcomes.
ReadsColumns(outcomes) ==
  NeedsQuery(IF current.meta
               THEN outcomes
               ELSE {Outcome("ERROR", states, current) : states \in MetaFailures}
                    \cup {[o EXCEPT !.q = WithMeta] : o \in outcomes})

SQLNumResultCols == StatementCall("SQLNumResultCols", ReadsColumns(Succeeds))

\* InternalGetColumnAttribute: a name that is cut adds no record.
ColumnAttribute ==
  Succeeds \cup {Outcome("SUCCESS_WITH_INFO", <<>>, current)}
           \cup Refused("HY000") \cup Refused("HYC00")

SQLColAttribute ==
  StatementCall("SQLColAttribute", ReadsColumns(ColumnAttribute))

SQLColAttributes ==
  \E o \in ReadsColumns(ColumnAttribute) :
    AnsweredWithVersion("STMT", "SQLColAttributes", o.ret, o.states, o.q)

\* Name, type, precision, scale and nullability.
Described == 1 .. 5

\* Faulty: only the code of the last call counts.
WorstOfLast(codes) == codes[5]

\* An error before a warning before success.
Worst(codes) ==
  IF \E i \in Described : codes[i] = "ERROR" THEN "ERROR"
  ELSE IF \E i \in Described : codes[i] = "SUCCESS_WITH_INFO"
         THEN "SUCCESS_WITH_INFO" ELSE "SUCCESS"

\* How many requests for the columns may fail before one succeeds.
FailedRequests == IF current.meta THEN {0} ELSE 0 .. 5

\* Each value is asked for with a call of its own that clears the records of
\* the one before, so that only those of the last are left.  A value whose call
\* failed is not initialized.
SQLDescribeCol ==
  \/ /\ current.kind = "NONE"
     /\ Answered("STMT", "SQLDescribeCol", "ERROR", <<"HY010">>, current)
  \/ /\ "STMT" \in held /\ current.kind # "NONE"
     /\ \E failed \in FailedRequests, failure \in MetaFailures,
           inRange \in BOOLEAN, cut \in BOOLEAN :
          LET codes == [i \in Described |->
                          IF i <= failed \/ ~inRange THEN "ERROR"
                          ELSE IF i = 1 /\ cut THEN "SUCCESS_WITH_INFO"
                          ELSE "SUCCESS"]
              last == IF failed = 5 THEN failure
                      ELSE IF inRange THEN <<>> ELSE <<"HY000">>
          IN  /\ storage' = IF watched = "STMT" THEN Stored(codes[5], last)
                                                ELSE storage
              /\ told' = [h |-> "STMT", call |-> "SQLDescribeCol",
                          ret |-> Worst(codes), resets |-> TRUE]
              /\ given' = [of |-> "SQLDescribeCol",
                           whole |-> \A i \in Described : codes[i] # "ERROR"]
              /\ current' = IF failed < 5 THEN WithMeta ELSE current
     /\ UNCHANGED <<watched, held, odbcVersion>>

-----------------------------------------------------------------------------
(* Attributes of the statement, its bindings and its cursor name *)

SQLBindCol ==
  OtherCall(Succeeds \cup Refused("HY003") \cup Refused("HY090"))

\* InternalGetAttribute.  The row number is 0, with a record and a success,
\* where the cursor is on no row.
AttributeRead ==
  Succeeds \cup Refused("HY000") \cup Refused("HYC00")
  \cup (IF current.kind = "NONE"
          THEN {Outcome("SUCCESS", <<"24000">>, current)} ELSE {})
  \cup (IF current.kind # "NONE" /\ current.at # "rows"
          THEN {Outcome("SUCCESS", <<"01000">>, current)} ELSE {})

SQLGetStmtAttr   == OtherCall(AttributeRead)
SQLGetStmtOption == OtherCall(AttributeRead)

\* SQL_ATTR_METADATA_ID is set with Connection::SetAttribute.
SQLSetStmtAttr ==
  \/ OtherCall(Succeeds
               \cup UNION {Refused(state) : state \in {"HYC00", "HY024", "HY000"}})
  \/ AnsweredThrough("DBC", "STMT", "setMetadataId", "SUCCESS", <<>>, current)

SQLGetCursorName ==
  OtherCall(Succeeds \cup {Outcome("SUCCESS_WITH_INFO", <<"01000">>, current)})

SQLSetCursorName ==
  OtherCall(Succeeds \cup Refused("3C000") \cup Refused("34000"))

-----------------------------------------------------------------------------
(* Calls of a descriptor *)

DescriptorCall(states) ==
  \/ Answered("DESC", "other", "SUCCESS", <<>>, current)
  \/ \E state \in states : Answered("DESC", "other", "ERROR", <<state>>, current)

SQLSetDescField == DescriptorCall({"HY000", "HY091"})
SQLGetDescField == DescriptorCall({"HY000"})
SQLCopyDesc     == DescriptorCall({"HY016"})

-----------------------------------------------------------------------------
(* Reading the records.  None of these calls changes one, but that SQLError *)
(* marks the record it returns.                                             *)

Handed(call, ret, text, length) ==
  /\ told' = [h |-> watched, call |-> call, ret |-> ret, resets |-> FALSE]
  /\ given' = [of |-> call, text |-> text, length |-> length]
  /\ UNCHANGED <<watched, held, odbcVersion, current>>

Handed0(call, ret) == Handed(call, ret, 0, 0)

\* Characters CopyStringToBuffer says it copied: without a buffer, and into one
\* that holds the terminator alone, the text is converted elsewhere to measure
\* it and the buffer is left as it was.
Copied(null, len) ==
  IF null \/ len = 1 THEN MessageLength
  ELSE IF len = 0 THEN 0
  ELSE IF len - 1 < MessageLength THEN len - 1 ELSE MessageLength

TextFits(len) == len >= MessageLength + 1

\* Longest buffer asked for.
Lengths == 0 .. MessageLength + 1

\* Number 0, a record and the number after the last; all texts have the same
\* length.
RecordNumbers == {0, 1, Len(storage.records) + 1}

\* The call fails for a text that does not fit when it cannot tell the length.
SQLGetDiagRec ==
  /\ watched \in held
  /\ \E n \in RecordNumbers :
       \/ n < 1 /\ Handed0("SQLGetDiagRec", "ERROR")
       \/ n > Len(storage.records) /\ Handed0("SQLGetDiagRec", "NO_DATA")
       \/ /\ n \in DOMAIN storage.records
          /\ \E len \in Lengths, null \in BOOLEAN :
               LET cut     == null \/ ~TextFits(len)
                   written == IF null \/ len = 1 THEN 0 ELSE Copied(null, len)
               IN  \/ cut /\ Handed0("SQLGetDiagRec", "ERROR")
                   \/ Handed("SQLGetDiagRec",
                             IF cut THEN "SUCCESS_WITH_INFO" ELSE "SUCCESS",
                             written, Copied(null, len))
  /\ UNCHANGED storage

\* GetField: the header fields come first, for any record number; a field that
\* is not known is refused only where the record exists; descriptors have no
\* fields.
SQLGetDiagField ==
  /\ watched \in held
  /\ \E n \in RecordNumbers, field \in {"header", "status", "unknown"} :
       Handed0("SQLGetDiagField",
               CASE watched = "DESC" -> "NO_DATA"
                 [] watched # "DESC" /\ field = "header" -> "SUCCESS"
                 [] watched # "DESC" /\ field # "header" ->
                      IF n \notin DOMAIN storage.records THEN "NO_DATA"
                      ELSE IF field = "unknown" THEN "ERROR" ELSE "SUCCESS")
  /\ UNCHANGED storage

\* GetLastNonRetrieved: the first record that was not returned yet.
LastNonRetrieved(records) ==
  CHOOSE i \in DOMAIN records :
    /\ ~records[i].retrieved
    /\ \A j \in DOMAIN records : j < i => records[j].retrieved

\* A text that does not fit is cut without a word.
SQLError ==
  /\ watched \in held \ {"DESC"}
  /\ IF \A i \in DOMAIN storage.records : storage.records[i].retrieved
       THEN Handed0("SQLError", "NO_DATA") /\ UNCHANGED storage
       ELSE LET n == LastNonRetrieved(storage.records)
            IN  /\ storage' = [storage EXCEPT !.records[n].retrieved = TRUE]
                /\ \E len \in Lengths :
                     Handed("SQLError", "SUCCESS", 0, Copied(FALSE, len))

-----------------------------------------------------------------------------
CallsInit ==
  /\ held = {} /\ odbcVersion = 3
  /\ watched \in Handles
  /\ storage = NewStorage
  /\ current = NoQuery
  /\ told = [h |-> "ENV", call |-> "other", ret |-> "SUCCESS",
             resets |-> TRUE]
  /\ given = NothingGiven

HandleCalls ==
  \/ SQLAllocEnv \/ SQLAllocConnect \/ SQLAllocStmt \/ SQLAllocDesc
  \/ \E h \in Handles : SQLFreeHandle(h) \/ UnsupportedFunction(h)
  \/ SQLSetEnvAttr \/ SQLGetEnvAttr \/ SQLNativeSql
  \/ SQLSetDescField \/ SQLGetDescField \/ SQLCopyDesc

QueryCalls ==
  \/ SQLPrepare \/ SQLExecDirect \/ SQLTables \/ SQLColumns \/ SQLGetTypeInfo
  \/ SQLColumnPrivileges \/ SQLTablePrivileges \/ SQLForeignKeys
  \/ SQLPrimaryKeys \/ SQLSpecialColumns \/ SQLProcedureColumns
  \/ SQLProcedures \/ SQLStatistics
  \/ SQLExecute \/ SQLFetch \/ SQLFetchScroll \/ SQLExtendedFetch
  \/ SQLGetData \/ SQLCancel \/ SQLCloseCursor \/ SQLFreeStmt
  \/ SQLMoreResults \/ SQLRowCount \/ SQLNumResultCols \/ SQLColAttribute
  \/ SQLColAttributes \/ SQLDescribeCol \/ SQLBindCol \/ SQLGetStmtAttr
  \/ SQLGetStmtOption \/ SQLSetStmtAttr \/ SQLGetCursorName
  \/ SQLSetCursorName

DiagnosticCalls == SQLGetDiagRec \/ SQLGetDiagField \/ SQLError

CallsNext == HandleCalls \/ QueryCalls \/ DiagnosticCalls

CallsSpec == CallsInit /\ [][CallsNext]_callVars

-----------------------------------------------------------------------------
(* Properties *)

ColumnCalls == {"SQLNumResultCols", "SQLColAttribute", "SQLColAttributes",
                "SQLDescribeCol"}
RecordCalls == {"SQLGetDiagRec", "SQLGetDiagField", "SQLError"}

\* A call that fails or warns leaves a record that explains it, except where
\* the columns of a query are read: a service answer without columns, a name
\* that is cut and SQLDescribeCol, whose later calls clear the record, leave
\* none.
ErrorsAreExplained ==
  /\ told.ret \in {"ERROR", "SUCCESS_WITH_INFO"}
  /\ told.h = watched /\ told.call \notin ColumnCalls \cup RecordCalls
  => \E i \in DOMAIN storage.records : storage.records[i].fresh

Opens(call) ==
  CASE call \in {"SQLPrepare", "SQLExecDirect"} -> "DATA"
    [] call = "SQLTables"      -> "TABLES"
    [] call = "SQLColumns"     -> "COLUMNS"
    [] call = "SQLGetTypeInfo" -> "TYPES"
    [] call \in {"emptyCatalog", "SQLStatistics"} -> "EMPTY"
    [] OTHER -> "none"

\* After a call that asks for a result set and does not fail, the rows fetched
\* are those of that result set and not of the one before; SQLColumns with two
\* empty names is the exception.
ResultSetOfLastSuccess ==
  /\ told.resets /\ told.ret \in {"SUCCESS", "SUCCESS_WITH_INFO"}
  /\ Opens(told.call) # "none"
  => current.kind = Opens(told.call)

AsksVersion == {"SQLTables", "SQLColumns", "SQLStatistics", "SQLColAttributes"}

\* The handles whose records a call of the statement resets besides its own.
Disturbs(call) ==
  IF call \in AsksVersion THEN {"ENV"}
  ELSE IF call = "setMetadataId" THEN {"DBC"}
  ELSE {}

\* The records of a handle stay until the next call with that handle, however
\* many calls with others come between.  There are two exceptions: the
\* environment loses its own to the statement calls that ask for the ODBC
\* version, and the connection to SQLSetStmtAttr(SQL_ATTR_METADATA_ID).
RecordsOfOthersKept ==
  [][(watched \in held \cap held' /\ storage' # storage) =>
       watched \in {told'.h} \cup Disturbs(told'.call)]_callVars

\* Success means whole: SQLDescribeCol succeeds only when all five values it
\* returns were read (the four it keeps in local variables are not
\* initialized, odbc.cpp:830), and SQLGetDiagRec only when the buffer has the
\* whole text of the record (odbc.cpp:1150).
SuccessIsWhole ==
  /\ given.of = "SQLDescribeCol" /\ told.ret # "ERROR" => given.whole
  /\ told.call = "SQLGetDiagRec" /\ told.ret = "SUCCESS" =>
       given.text = MessageLength
=============================================================================
