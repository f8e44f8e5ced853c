------------------------------ MODULE Statement ------------------------------
(***************************************************************************)
(* A statement handle and its current query (statement.cpp, query/*.cpp):   *)
(* any order of preparing, executing, catalog functions, fetches of one or *)
(* several rows, cancel, close and the attributes that change them.        *)
(*                                                                         *)
(* The query is what the calls of the statement can tell apart: its class, *)
(* whether it is open (executed, or for a DataQuery a cursor exists), its  *)
(* rows and the place of its cursor, 0 before the first fetch.  A row of a *)
(* DataQuery carries what its fetch does: "ok", "noted" (a value is cut or *)
(* its conversion is not supported, which leaves a record and does not     *)
(* change the result), "bad" (a value cannot be converted) or "lost" (the  *)
(* page it begins cannot be fetched).  How a DataQuery gets its pages is   *)
(* the module DataQuery.                                                   *)
(***************************************************************************)
EXTENDS Catalog

CONSTANTS
  MaxRows,    \* bound: rows of a DataQuery and of a TypeInfoQuery
  MaxRowset   \* bound: rows asked for by one fetch

ASSUME BoundsAssumption == MaxRows \in Nat /\ MaxRowset \in Nat

VARIABLES
  query,         \* currentQuery
  metadataID,    \* Connection::metadataID_
  rowArraySize,  \* rows of one SQLFetch
  rowsetSize,    \* rows of one SQLExtendedFetch
  last,          \* the last call, what it returned, the row statuses
  told,          \* history: a fetch reported a problem since the execution
  ended,         \* history: a fetch reported the end since the execution
  live,          \* history: executed, and not closed since
  cut,           \* history: an inner query of the execution lost rows
  wanted         \* history: the rows the catalog function asked for

attrs   == <<metadataID, rowArraySize, rowsetSize>>
history == <<told, ended, live, cut, wanted>>
vars    == <<query, metadataID, rowArraySize, rowsetSize, last, told, ended,
             live, cut, wanted>>

\* A new query of a class: not executed.
New(kind) == [kind |-> kind, open |-> FALSE, rows |-> <<>>, pos |-> 0]

Called(call, ret) ==
  [call |-> call, ret |-> ret, statuses |-> <<>>]

Init ==
  /\ query = New("NONE")
  /\ metadataID \in BOOLEAN       \* what the connection has
  /\ rowArraySize = 1 /\ rowsetSize \in 0 .. MaxRowset
  /\ last = Called("other", "SUCCESS")
  /\ told = FALSE /\ ended = FALSE /\ live = FALSE /\ cut = FALSE
  /\ wanted = {}

-----------------------------------------------------------------------------
(* The queries *)

AtEnd(q) == q.pos > Len(q.rows)

\* Faulty: a type-info query that was closed can still be read.
CloseQueryNotTypes(q) ==
  CASE q.kind \in {"DATA", "COLUMNS", "TABLES"} -> New(q.kind)
    [] OTHER -> q

\* Close of the query.  A TypeInfoQuery keeps its types; the queries that are
\* always empty have nothing to close.
CloseQuery(q) ==
  CASE q.kind \in {"DATA", "COLUMNS", "TABLES"} -> New(q.kind)
    [] q.kind = "TYPEINFO" ->
         [q EXCEPT !.open = FALSE, !.pos = Len(q.rows) + 1]
    [] OTHER -> q

DataAvailable(q) ==
  CASE q.kind = "DATA" -> q.open
    [] q.kind \in {"COLUMNS", "TABLES", "TYPEINFO"} ->
         q.open /\ q.rows # <<>> /\ ~AtEnd(q)
    [] OTHER -> FALSE

Advance(q) == IF AtEnd(q) THEN q ELSE [q EXCEPT !.pos = @ + 1]

\* FetchNextRow of a DataQuery, after which the query is q and the row's
\* result r.  A page that cannot be fetched resets the cursor.
FetchData(q) ==
  LET n    == Advance(q)
      conv == n.rows[n.pos].conv
  IN  CASE ~q.open  -> [q |-> q, r |-> "NO_DATA"]
        [] q.open /\ AtEnd(n) -> [q |-> n, r |-> "NO_DATA"]
        [] OTHER -> [q |-> [n EXCEPT !.open = conv # "lost"],
                     r |-> IF conv \in {"bad", "lost"} THEN "ERROR"
                                                       ELSE "SUCCESS"]

\* FetchNextRow of the catalog queries that have rows.
FetchCatalog(q) ==
  IF ~q.open
    THEN [q |-> q, r |-> "ERROR"]
    ELSE LET n == Advance(q)
         IN  [q |-> n, r |-> IF AtEnd(n) THEN "NO_DATA" ELSE "SUCCESS"]

FetchNextRow(q) ==
  CASE q.kind = "DATA"  -> FetchData(q)
    [] q.kind = "EMPTY" -> [q |-> q, r |-> "NO_DATA"]
    [] OTHER            -> FetchCatalog(q)

-----------------------------------------------------------------------------
(* Executing *)

\* The statement's query after an execution that answered ret, its inner
\* queries having lost rows or not, when the rows asked for are those of want.
Executed(q, ret, lost, want) ==
  /\ query' = q
  /\ last' = Called("execute", ret)
  /\ told' = FALSE /\ ended' = FALSE
  /\ live' = q.open /\ cut' = lost /\ wanted' = want
  /\ UNCHANGED attrs

\* The n rows of a DataQuery: what becomes of their values, and the last one
\* may begin a page that cannot be fetched.
DataRows(n, values, lost) ==
  [i \in 1 .. n |-> [table |-> NoName, column |-> NoName, nr |-> i,
                    conv |-> IF lost /\ i = n THEN "lost" ELSE values[i]]]

\* DataQuery::Execute, as InternalExecuteSqlQuery reports it.  The first page
\* with rows has been fetched when it succeeds.
ExecuteData ==
  \/ Executed(New("DATA"), "ERROR", FALSE, {})
  \/ Executed(New("DATA"), "SUCCESS_WITH_INFO", FALSE, {})
  \/ \E n \in 1 .. MaxRows, lost \in BOOLEAN :
       /\ lost => n > 1
       /\ \E values \in [1 .. n -> {"ok", "noted", "bad"}] :
            Executed([kind |-> "DATA", open |-> TRUE, pos |-> 0,
                      rows |-> DataRows(n, values, lost)], "SUCCESS", FALSE, {})

TableRow(t) == Row(t, NoName, 0)

\* The arguments ask for the table types, or for a type that is not TABLE.
ExecuteTableTypes ==
  \/ Executed([New("TABLES") EXCEPT !.open = TRUE,
                                    !.rows = <<TableRow(NoName)>>],
              "SUCCESS", FALSE, {TableRow(NoName)})
  \/ Executed([New("TABLES") EXCEPT !.open = TRUE], "SUCCESS_WITH_INFO", FALSE,
              {})

\* TableMetadataQuery::Execute for the tables with a name.
ExecuteTableNames ==
  \E asked \in Tables \cup {NoName}, null \in BOOLEAN :
    LET n == Len(Answer(metadataID, asked))
    IN  \E inner \in InnerQuery(n) :
          LET g == GetTables(inner, metadataID, asked, null)
          IN  Executed([kind |-> "TABLES", open |-> g.ret # "ERROR", pos |-> 0,
                        rows |-> [i \in DOMAIN g.tables |->
                                    TableRow(g.tables[i])]],
                       g.ret, Cut(inner, n),
                       {TableRow(t) : t \in TablesAskedFor(metadataID, asked)})

\* The queries for the columns of the tables.
ColumnQueries(tables) ==
  LET all == UNION {InnerQuery(Len(ColumnsOf[t])) : t \in tables}
  IN  {f \in [tables -> all] :
         \A t \in tables : f[t] \in InnerQuery(Len(ColumnsOf[t]))}

\* The answer when there are no columns is noData: SQLColumns says NO_DATA, and
\* SQLExecute turns it into SUCCESS_WITH_INFO (InternalExecuteSqlQuery).
ExecutedColumns(c, lost, want, noData) ==
  Executed([kind |-> "COLUMNS", open |-> c.ret = "SUCCESS", pos |-> 0,
            rows |-> c.rows],
           IF c.ret = "NO_DATA" THEN noData ELSE c.ret, lost, want)

\* A catalog is named (or, under SQL_ATTR_METADATA_ID, the table name is empty
\* or an argument is null): nothing is asked of the service.
ExecuteColumnsRefused ==
  \/ Executed(New("COLUMNS"), "SUCCESS_WITH_INFO", FALSE, {})
  \/ metadataID /\ Executed(New("COLUMNS"), "ERROR", FALSE, {})

\* The table argument is a pattern: its tables first, then their columns.
ExecuteColumnsPattern(noData) ==
  /\ ~metadataID
  /\ \E asked \in Tables \cup {NoName}, column \in ColumnNames \cup {NoName} :
       LET n == Len(Answer(FALSE, asked))
       IN  \E inner \in InnerQuery(n) :
             LET g == GetTables(inner, FALSE, asked, FALSE)
             IN  IF g.ret # "SUCCESS"
                   THEN Executed(New("COLUMNS"), "SUCCESS_WITH_INFO", FALSE,
                                 {})
                   ELSE \E inners \in ColumnQueries(ToSet(g.tables)) :
                          ExecutedColumns(
                            GetColumns(g.tables, inners, column),
                            Cut(inner, n) \/ LosesColumns(g.tables, inners),
                            ColumnsAskedFor(TablesAskedFor(FALSE, asked),
                                            column), noData)

\* The table argument is an identifier, of a table that exists or not.
ExecuteColumnsIdentifier(noData) ==
  /\ metadataID
  /\ \/ Executed(New("COLUMNS"), noData, FALSE, {})
     \/ \E asked \in Tables, column \in ColumnNames \cup {NoName} :
          \E inners \in ColumnQueries({asked}) :
            ExecutedColumns(GetColumns(<<asked>>, inners, column),
                            LosesColumns(<<asked>>, inners),
                            ColumnsAskedFor({asked}, column), noData)

ExecuteTypes(rows) ==
  Executed([kind |-> "TYPEINFO", open |-> TRUE, pos |-> 0, rows |-> rows],
           "SUCCESS", FALSE, {})

ExecuteEmpty == Executed(New("EMPTY"), "SUCCESS_WITH_INFO", FALSE, {})

-----------------------------------------------------------------------------
(* The calls *)

\* A call that fails or answers without touching the query.
Answers(ret) ==
  /\ last' = Called("other", ret)
  /\ UNCHANGED <<query, attrs, history>>

\* The call leaves the query as q, nothing of the execution being left.
Ends(q, ret) ==
  /\ query' = q
  /\ last' = Called("other", ret)
  /\ told' = FALSE /\ ended' = FALSE /\ live' = FALSE
  /\ UNCHANGED <<attrs, cut, wanted>>

\* InternalPrepareSqlQuery closes and replaces the query.
Prepare == Ends(New("DATA"), "SUCCESS")

\* SQLExecDirect: prepares and executes.
ExecuteDirect == ExecuteData

\* SQLExecute executes the current query, whatever its class.
Execute ==
  \/ query.kind = "NONE" /\ Answers("ERROR")
  \/ query.kind = "DATA" /\ ExecuteData
  \/ query.kind = "TABLES" /\ (ExecuteTableTypes \/ ExecuteTableNames)
  \/ query.kind = "COLUMNS" /\ (\/ ExecuteColumnsRefused
                               \/ ExecuteColumnsPattern("SUCCESS_WITH_INFO")
                               \/ ExecuteColumnsIdentifier("SUCCESS_WITH_INFO"))
  \/ query.kind = "TYPEINFO" /\ ExecuteTypes(query.rows)
  \/ query.kind = "EMPTY" /\ ExecuteEmpty

ExecuteGetTablesMetaQuery  == ExecuteTableTypes \/ ExecuteTableNames
ExecuteGetColumnsMetaQuery ==
  \/ ExecuteColumnsRefused
  \/ ExecuteColumnsPattern("NO_DATA") \/ ExecuteColumnsIdentifier("NO_DATA")

\* SQLPrimaryKeys, SQLForeignKeys, SQLStatistics and the others that are not
\* supported: a query that has no rows.
ExecuteUnsupportedQuery == ExecuteEmpty

\* An unsupported type leaves the current query alone.
ExecuteGetTypeInfoQuery ==
  \/ Answers("ERROR")
  \/ \E n \in {1, MaxRows} :
       ExecuteTypes([i \in 1 .. n |-> Row(NoName, NoName, i)])

\* A DataQuery with a fetch thread and no result refuses to be cancelled; that
\* is one that is closed already.
Cancel ==
  \/ query.kind = "NONE" /\ Answers("ERROR")
  \/ query.kind = "DATA" /\ ~query.open /\ Answers("ERROR")
  \/ query.kind # "NONE" /\ Ends(CloseQuery(query), "SUCCESS")

\* SQLFreeStmt(SQL_CLOSE) ignores the errors, SQLCloseCursor does not.
InternalClose(ignoreErrors) ==
  \/ query.kind = "NONE" /\ Answers("SUCCESS")
  \/ /\ query.kind # "NONE" /\ ~DataAvailable(query)
     /\ Answers(IF ignoreErrors THEN "SUCCESS" ELSE "ERROR")
  \/ DataAvailable(query) /\ Ends(CloseQuery(query), "SUCCESS")

\* SQLNumResultCols and the other calls that need the columns: a DataQuery
\* without them asks the service; it is closed when that fails, and has none
\* when the service sends none.
GetMeta ==
  \/ query.kind = "NONE" /\ Answers("ERROR")
  \/ query.kind # "NONE" /\ Answers("SUCCESS")
  \/ query.kind = "DATA" /\ Answers("ERROR")
  \/ query.kind = "DATA" /\ Ends(CloseQuery(query), "ERROR")

MoreResults == Answers(IF query.kind = "NONE" THEN "ERROR" ELSE "NO_DATA")

\* Faulty: a fetch after the end starts over.
RowsetRestarts(q, n) ==
  LET rows[i \in 0 .. n] ==
        IF i = 0
          THEN [q |-> IF AtEnd(q) THEN [q EXCEPT !.pos = 0] ELSE q,
                statuses |-> <<>>]
          ELSE LET f == FetchNextRow(rows[i - 1].q)
               IN  [q |-> f.q, statuses |-> Append(rows[i - 1].statuses, f.r)]
  IN  rows[n]

\* Fetches n rows one after the other; statuses are the results of each.
Rowset(q, n) ==
  LET rows[i \in 0 .. n] ==
        IF i = 0
          THEN [q |-> q, statuses |-> <<>>]
          ELSE LET f == FetchNextRow(rows[i - 1].q)
               IN  [q |-> f.q, statuses |-> Append(rows[i - 1].statuses, f.r)]
  IN  rows[n]

\* Faulty: a rowset with a row in it is a success.
FetchResultIgnoresErrors(statuses) ==
  CASE Contains(statuses, "SUCCESS") -> "SUCCESS"
    [] ~Contains(statuses, "SUCCESS") /\ Contains(statuses, "ERROR") -> "ERROR"
    [] OTHER -> "NO_DATA"

\* What a fetch returns for the results of its rows.
FetchResult(statuses) ==
  LET fetched == Contains(statuses, "SUCCESS")
      errors  == Contains(statuses, "ERROR")
  IN  CASE fetched /\ ~errors  -> "SUCCESS"
        [] fetched /\ errors   -> "SUCCESS_WITH_INFO"
        [] ~fetched /\ ~errors -> "NO_DATA"
        [] ~fetched /\ errors  -> "ERROR"

\* InternalFetchRow and InternalExtendedFetch, for n rows.
FetchRows(n) ==
  \/ query.kind = "NONE" /\ Answers("ERROR")
  \/ /\ query.kind # "NONE"
     /\ LET set == Rowset(query, n)
            ret == FetchResult(set.statuses)
        IN  /\ query' = set.q
            /\ last' = [call |-> "fetch", ret |-> ret,
                        statuses |-> set.statuses]
            /\ told' = (told \/ ret \in {"ERROR", "SUCCESS_WITH_INFO"})
            /\ ended' = (ended \/ (ret = "NO_DATA" /\ n > 0))
     /\ UNCHANGED <<attrs, live, cut, wanted>>

\* Only SQL_FETCH_NEXT is supported.
FetchScroll   == Answers("ERROR") \/ FetchRows(rowArraySize)
ExtendedFetch == Answers("ERROR") \/ FetchRows(rowsetSize)

\* The sizes are taken as they come, 0 included; SQL_ATTR_METADATA_ID sets it
\* for the whole connection.
SetSize ==
  /\ \E n \in 0 .. MaxRowset :
       \/ rowArraySize' = n /\ UNCHANGED rowsetSize
       \/ rowsetSize' = n /\ UNCHANGED rowArraySize
  /\ last' = Called("other", "SUCCESS")
  /\ UNCHANGED <<query, metadataID, history>>

SetMetadataID ==
  /\ metadataID' \in BOOLEAN
  /\ last' = Called("other", "SUCCESS")
  /\ UNCHANGED <<query, rowArraySize, rowsetSize, history>>

\* The other attributes select a buffer, or are accepted or refused.
SetAttribute ==
  SetSize \/ SetMetadataID \/ Answers("SUCCESS") \/ Answers("ERROR")

Next ==
  \/ Prepare \/ ExecuteDirect \/ Execute
  \/ ExecuteGetTablesMetaQuery \/ ExecuteGetColumnsMetaQuery
  \/ ExecuteUnsupportedQuery \/ ExecuteGetTypeInfoQuery
  \/ Cancel \/ InternalClose(TRUE) \/ InternalClose(FALSE)
  \/ GetMeta \/ MoreResults \/ FetchScroll \/ ExtendedFetch \/ SetAttribute

Spec == Init /\ [][Next]_vars

-----------------------------------------------------------------------------
(* Properties *)

\* The end is reported once and for all: when a fetch has answered NO_DATA, no
\* fetch with either function delivers a row or an error until the query is
\* closed, replaced or executed again, whatever happens to the sizes.
EndIsFinal == ended /\ last.call = "fetch" => last.ret = "NO_DATA"

\* A row of a DataQuery that was passed over, because a value could not be
\* converted or its page could not be fetched, has been reported: some fetch
\* since the execution answered ERROR or SUCCESS_WITH_INFO.  A value whose
\* conversion is not supported is left out: its row counts as delivered, and
\* only a record (HYC00, data_query.cpp:503) tells of it.
LossIsReported ==
  query.kind = "DATA"
    /\ (\E i \in DOMAIN query.rows :
          i <= query.pos /\ query.rows[i].conv \in {"bad", "lost"})
    => told

\* A query that was closed, cancelled, replaced or never executed gives no row
\* and its cursor counts as closed (SQLGetData, SQLCloseCursor).
NothingFromClosedQuery ==
  ~live => ~DataAvailable(query) /\ "SUCCESS" \notin ToSet(last.statuses)

\* SQLTables and SQLColumns never offer a part of what they were asked for:
\* when the result can be fetched it has every table (every matching column of
\* every table, with its ordinal) exactly once.  An inner query that loses
\* rows does so silently; cut excludes it.
CatalogComplete ==
  query.kind \in {"TABLES", "COLUMNS"} /\ query.open /\ ~cut
    => ToSet(query.rows) = wanted /\ Len(query.rows) = Cardinality(wanted)

=============================================================================
