----------------------------- MODULE Information -----------------------------
(***************************************************************************)
(* What a connection tells an application about the driver: SQLGetInfo     *)
(* (config/connection_info.cpp) and SQLGetFunctions (connection.cpp).      *)
(*                                                                         *)
(* The three maps of ConnectionInfo are functions from the names of the    *)
(* information types.  A bit mask is the set of its flags, 0 the empty     *)
(* set; the prefix SQL_ is left out throughout.  Texts are strings, whose  *)
(* lengths are counted in characters and reported in bytes.                *)
(***************************************************************************)
EXTENDS Integers, Sequences

CONSTANTS InfoWchar,     \* sizeof(SQLWCHAR)
          InfoUsers, InfoDsns, \* user names and data sources of the connections made
          NoDsn,         \* no data source
          AskedInfo      \* the information types the application asks for

ASSUME InfoWcharAssumption == InfoWchar \in {2, 4}
ASSUME NoDsnAssumption == NoDsn \notin InfoDsns

VARIABLES
  asSchema,      \* DATABASE_AS_SCHEMA when the connection was allocated
  strParams,     \* ConnectionInfo::strParams
  configDsn,     \* Configuration::dsn of Connection::config_, NoDsn when not set
  connectedAs,   \* history: how the last connection was made
  answer,        \* the last call of SQLGetInfo or SQLGetFunctions, its outcome
  learned,       \* the length last told for a null buffer, and its type
  functions      \* the functions told of by each array of SQLGetFunctions

infoVars ==
  <<asSchema, strParams, configDsn, connectedAs, answer, learned, functions>>

\* Information types that are answered 0: nothing of the kind is supported.
Unsupported(types) == [t \in types |-> {}]

\* The map whose entries are those of some maps that have no key in common.
Joined(maps) ==
  [t \in UNION {DOMAIN m : m \in maps} |->
     (CHOOSE m \in maps : t \in DOMAIN m)[t]]

-----------------------------------------------------------------------------
(* ConnectionInfo::ConnectionInfo, text by text.  schema is the value of    *)
(* DATABASE_AS_SCHEMA.                                                      *)

ProductTexts ==
  [DRIVER_NAME |-> "libiotsitewise-odbc.so", DBMS_NAME |-> "AWS IoT SiteWise",
   DRIVER_ODBC_VER |-> "03.00", DRIVER_VER |-> "01.00.0000", DBMS_VER |-> "",
   COLUMN_ALIAS |-> "Y", IDENTIFIER_QUOTE_CHAR |-> "\"",
   CATALOG_NAME_SEPARATOR |-> ".", SPECIAL_CHARACTERS |-> "_"]

NamespaceTexts(schema) ==
  [CATALOG_TERM |-> IF schema THEN "" ELSE "database", TABLE_TERM |-> "table",
   SCHEMA_TERM |-> IF schema THEN "schema" ELSE "",
   NEED_LONG_DATA_LEN |-> "N", ACCESSIBLE_PROCEDURES |-> "N",
   ACCESSIBLE_TABLES |-> "N", CATALOG_NAME |-> IF schema THEN "N" ELSE "Y"]

SourceTexts ==
  [COLLATION_SEQ |-> "", DATA_SOURCE_NAME |-> "", DATA_SOURCE_READ_ONLY |-> "Y",
   DATABASE_NAME |-> "", DESCRIBE_PARAMETER |-> "N",
   EXPRESSIONS_IN_ORDERBY |-> "Y", INTEGRITY |-> "N", KEYWORDS |-> ""]

StatementTexts ==
  [LIKE_ESCAPE_CLAUSE |-> "Y", MAX_ROW_SIZE_INCLUDES_LONG |-> "Y",
   MULT_RESULT_SETS |-> "N", MULTIPLE_ACTIVE_TXN |-> "Y",
   ORDER_BY_COLUMNS_IN_SELECT |-> "Y", PROCEDURE_TERM |-> "", PROCEDURES |-> "N",
   ROW_UPDATES |-> "N", SEARCH_PATTERN_ESCAPE |-> "",
   SERVER_NAME |-> "AWS IoT SiteWise", USER_NAME |-> ""]

ManagerTexts == [DM_VER |-> "", XOPEN_CLI_YEAR |-> ""]

StrParams(schema) ==
  Joined({ProductTexts, NamespaceTexts(schema), SourceTexts, StatementTexts,
          ManagerTexts})

-----------------------------------------------------------------------------
(* ConnectionInfo::ConnectionInfo, the bit masks and numbers of four bytes. *)

AsyncAndBatchInfo ==
  Joined(
    {[ASYNC_DBC_FUNCTIONS |-> {"ASYNC_DBC_NOT_CAPABLE"},
      ASYNC_MODE |-> {"AM_NONE"},
      ASYNC_NOTIFICATION |-> {"ASYNC_NOTIFICATION_NOT_CAPABLE"}],
     Unsupported({"BATCH_ROW_COUNT", "BATCH_SUPPORT", "BOOKMARK_PERSISTENCE"})})

CatalogUsage(schema) == IF schema THEN {} ELSE {"CU_DML_STATEMENTS"}

NamespaceInfo(schema) ==
  [CATALOG_LOCATION |-> IF schema THEN {} ELSE {"CL_START"},
   GETDATA_EXTENSIONS |-> {"GD_ANY_COLUMN", "GD_ANY_ORDER", "GD_BOUND", "GD_BLOCK"},
   ODBC_INTERFACE_CONFORMANCE |-> {"OIC_CORE"},
   SQL_CONFORMANCE |-> {"SC_SQL92_ENTRY"},
   CATALOG_USAGE |-> CatalogUsage(schema),
   SCHEMA_USAGE |-> IF schema
     THEN {"SU_DML_STATEMENTS", "SU_TABLE_DEFINITION", "SU_PRIVILEGE_DEFINITION",
           "SU_INDEX_DEFINITION"}
     ELSE {}]

Intervals == {"TSI_FRAC_SECOND", "TSI_SECOND", "TSI_MINUTE", "TSI_HOUR", "TSI_DAY",
              "TSI_WEEK", "TSI_MONTH", "TSI_QUARTER", "TSI_YEAR"}

ScalarFunctionInfo ==
  [AGGREGATE_FUNCTIONS |-> {"AF_ALL"},
   NUMERIC_FUNCTIONS |->
     {"ABS", "ATAN", "ATAN2", "COS", "COT", "DEGREES", "FLOOR", "LOG", "LOG10",
      "PI", "POWER", "RADIANS", "ROUND", "SIGN", "SIN", "SQRT", "TAN"},
   STRING_FUNCTIONS |->
     {"ASCII", "LENGTH", "LTRIM", "REPLACE", "RTRIM", "SUBSTRING"},
   TIMEDATE_FUNCTIONS |->
     {"CURDATE", "DAYOFMONTH", "MONTH", "MONTHNAME", "NOW", "YEAR"},
   TIMEDATE_ADD_INTERVALS |-> Intervals, TIMEDATE_DIFF_INTERVALS |-> Intervals,
   DATETIME_LITERALS |-> {}, SYSTEM_FUNCTIONS |-> {"IFNULL"},
   CONVERT_FUNCTIONS |-> {"CVT_CAST"}]

QueryInfo ==
  [OJ_CAPABILITIES |-> {"OJ_LEFT", "OJ_RIGHT", "OJ_NOT_ORDERED",
                        "OJ_ALL_COMPARISON_OPS"},
   POS_OPERATIONS |-> {}, SQL92_NUMERIC_VALUE_FUNCTIONS |-> {},
   SQL92_STRING_FUNCTIONS |->
     {"SSF_CONVERT", "SSF_LOWER", "SSF_UPPER", "SSF_SUBSTRING", "SSF_TRANSLATE",
      "SSF_TRIM_BOTH", "SSF_TRIM_LEADING", "SSF_TRIM_TRAILING"},
   SQL92_DATETIME_FUNCTIONS |->
     {"SDF_CURRENT_DATE", "SDF_CURRENT_TIME", "SDF_CURRENT_TIMESTAMP"},
   SQL92_VALUE_EXPRESSIONS |-> {"SVE_CASE", "SVE_CAST"},
   SQL92_PREDICATES |->
     {"SP_BETWEEN", "SP_COMPARISON", "SP_IN", "SP_ISNULL", "SP_LIKE"},
   SQL92_RELATIONAL_JOIN_OPERATORS |->
     {"SRJO_CROSS_JOIN", "SRJO_INNER_JOIN", "SRJO_LEFT_OUTER_JOIN",
      "SRJO_RIGHT_OUTER_JOIN"}]

StaticCursorInfo ==
  [STATIC_CURSOR_ATTRIBUTES1 |->
     {"CA1_NEXT", "CA1_ABSOLUTE", "CA1_RELATIVE", "CA1_BOOKMARK",
      "CA1_LOCK_NO_CHANGE", "CA1_POS_POSITION", "CA1_POS_REFRESH"},
   STATIC_CURSOR_ATTRIBUTES2 |-> {"CA2_READ_ONLY_CONCURRENCY", "CA2_CRC_EXACT"}]

\* Which types CONVERT takes to which: CONVERT_<source> is the set of targets.
ConvertInfo ==
  Joined({
   [CONVERT_BIGINT |-> {"BIGINT", "DOUBLE"}, CONVERT_VARCHAR |-> {"VARCHAR"},
    CONVERT_DATE |-> {"DATE"}, CONVERT_DOUBLE |-> {"INTEGER", "BIGINT", "DOUBLE"},
    CONVERT_INTEGER |-> {"INTEGER", "BIGINT", "DOUBLE"}, CONVERT_TIME |-> {"TIME"},
    CONVERT_TIMESTAMP |-> {"TIMESTAMP"}],
   Unsupported({"CONVERT_BINARY", "CONVERT_BIT", "CONVERT_CHAR", "CONVERT_LONGVARCHAR",
           "CONVERT_WCHAR", "CONVERT_WVARCHAR", "CONVERT_WLONGVARCHAR",
           "CONVERT_GUID", "CONVERT_DECIMAL", "CONVERT_FLOAT", "CONVERT_REAL",
           "CONVERT_NUMERIC", "CONVERT_SMALLINT", "CONVERT_TINYINT",
           "CONVERT_INTERVAL_DAY_TIME", "CONVERT_INTERVAL_YEAR_MONTH",
           "CONVERT_VARBINARY", "CONVERT_LONGVARBINARY"})})

ScrollInfo ==
  [PARAM_ARRAY_ROW_COUNTS |-> {"PARC_BATCH"}, PARAM_ARRAY_SELECTS |-> {"PAS_NO_BATCH"},
   SCROLL_OPTIONS |-> {"FORWARD_ONLY", "STATIC"}]

AlterAndCreateInfo ==
  Unsupported({"ALTER_DOMAIN", "ALTER_TABLE", "CREATE_ASSERTION", "CREATE_CHARACTER_SET",
        "CREATE_COLLATION", "CREATE_DOMAIN"})

CreateInfo == Unsupported({"CREATE_SCHEMA", "CREATE_TABLE", "CREATE_TRANSLATION",
                    "CREATE_VIEW"})

TransactionInfo ==
  [CURSOR_COMMIT_BEHAVIOR |-> {"CB_CLOSE"},
   CURSOR_ROLLBACK_BEHAVIOR |-> {"CB_PRESERVE"},
   CURSOR_SENSITIVITY |-> {"INSENSITIVE"},
   DDL_INDEX |-> {"DI_CREATE_INDEX", "DI_DROP_INDEX"},
   DEFAULT_TXN_ISOLATION |-> {}]

DropInfo ==
  Unsupported({"DROP_ASSERTION", "DROP_CHARACTER_SET", "DROP_COLLATION", "DROP_DOMAIN",
        "DROP_SCHEMA", "DROP_TABLE", "DROP_TRANSLATION", "DROP_VIEW"})

DynamicCursorInfo1 == Unsupported({"DYNAMIC_CURSOR_ATTRIBUTES1"})
DynamicCursorInfo2 == Unsupported({"DYNAMIC_CURSOR_ATTRIBUTES2"})

ForwardCursorInfo ==
  [FORWARD_ONLY_CURSOR_ATTRIBUTES1 |-> {"CA1_NEXT"},
   FORWARD_ONLY_CURSOR_ATTRIBUTES2 |-> {"CA2_READ_ONLY_CONCURRENCY",
                                        "CA2_CRC_EXACT"},
   INDEX_KEYWORDS |-> {"IK_NONE"}]

SchemaViewInfo == Unsupported({"INFO_SCHEMA_VIEWS", "INSERT_STATEMENT"})

KeysetCursorInfo == Unsupported({"KEYSET_CURSOR_ATTRIBUTES1", "KEYSET_CURSOR_ATTRIBUTES2"})

LimitInfo ==
  Unsupported({"MAX_ASYNC_CONCURRENT_STATEMENTS", "MAX_BINARY_LITERAL_LEN",
        "MAX_CATALOG_NAME_LEN", "MAX_CHAR_LITERAL_LEN", "MAX_INDEX_SIZE",
        "MAX_ROW_SIZE", "MAX_STATEMENT_LEN"})

PrivilegeInfo ==
  Unsupported({"SQL92_FOREIGN_KEY_DELETE_RULE", "SQL92_FOREIGN_KEY_UPDATE_RULE",
        "SQL92_GRANT", "SQL92_REVOKE"})

SubqueryInfo ==
  Joined(
    {[SQL92_ROW_VALUE_CONSTRUCTOR |-> {"SRVC_VALUE_EXPRESSION", "SRVC_NULL"},
      STANDARD_CLI_CONFORMANCE |-> {},
      SUBQUERIES |-> {"SQ_QUANTIFIED", "SQ_IN", "SQ_EXISTS", "SQ_COMPARISON"},
      TXN_ISOLATION_OPTION |-> {}],
     [t \in {"UNION"} |-> {"U_UNION", "U_UNION_ALL"}]})

Odbc2Info ==
  [FETCH_DIRECTION |-> {"NEXT", "FIRST", "LAST", "PRIOR", "ABSOLUTE", "RELATIVE",
                        "BOOKMARK"},
   LOCK_TYPES |-> {"LCK_NO_CHANGE"}, ODBC_API_CONFORMANCE |-> {"OAC_LEVEL1"},
   ODBC_SQL_CONFORMANCE |-> {"OSC_CORE"}, POSITIONED_STATEMENTS |-> {},
   SCROLL_CONCURRENCY |-> {"SCCO_READ_ONLY"}, STATIC_SENSITIVITY |-> {}]

IntParams(schema) ==
  Joined({AsyncAndBatchInfo, NamespaceInfo(schema), ScalarFunctionInfo, QueryInfo,
          StaticCursorInfo, ConvertInfo, ScrollInfo, AlterAndCreateInfo, CreateInfo,
          TransactionInfo, DropInfo, DynamicCursorInfo1, DynamicCursorInfo2,
          ForwardCursorInfo, SchemaViewInfo, KeysetCursorInfo, LimitInfo,
          PrivilegeInfo, SubqueryInfo, Odbc2Info})

\* ConnectionInfo::intParams, which does not change once it was built.
IntParamsBuilt == [schema \in BOOLEAN |-> IntParams(schema)]
intParams == IntParamsBuilt[asSchema]

-----------------------------------------------------------------------------
(* ConnectionInfo::ConnectionInfo, the numbers of two bytes. *)

BehaviourShorts ==
  [MAX_CONCURRENT_ACTIVITIES |-> {}, TXN_CAPABLE |-> {"TC_NONE"},
   QUOTED_IDENTIFIER_CASE |-> {"IC_SENSITIVE"}, ACTIVE_ENVIRONMENTS |-> {},
   CONCAT_NULL_BEHAVIOR |-> {"CB_NULL"}, CORRELATION_NAME |-> {"CN_ANY"},
   FILE_USAGE |-> {"FILE_NOT_SUPPORTED"},
   GROUP_BY |-> {"GB_GROUP_BY_CONTAINS_SELECT"}, IDENTIFIER_CASE |-> {"IC_SENSITIVE"}]

LengthShorts ==
  Joined({
   [MAX_COLUMN_NAME_LEN |-> {"NAMEDATALEN"}, MAX_CURSOR_NAME_LEN |-> {"MAX_CURSOR_LEN"},
    MAX_IDENTIFIER_LEN |-> {"NAMEDATALEN"}, MAX_SCHEMA_NAME_LEN |-> {"NAMEDATALEN"},
    MAX_TABLE_NAME_LEN |-> {"NAMEDATALEN"}],
   Unsupported({"MAX_COLUMNS_IN_GROUP_BY", "MAX_COLUMNS_IN_INDEX",
           "MAX_COLUMNS_IN_ORDER_BY", "MAX_COLUMNS_IN_SELECT",
           "MAX_COLUMNS_IN_TABLE", "MAX_DRIVER_CONNECTIONS",
           "MAX_PROCEDURE_NAME_LEN", "MAX_TABLES_IN_SELECT", "MAX_USER_NAME_LEN"})})

NullShorts == [NON_NULLABLE_COLUMNS |-> {"NNC_NON_NULL"}, NULL_COLLATION |-> {"NC_HIGH"}]

shortParams == Joined({BehaviourShorts, LengthShorts, NullShorts})

\* The types InfoTypeToString has a name for.  One of them has no answer.
NamedInfo == DOMAIN StrParams(TRUE) \cup DOMAIN IntParams(TRUE)
             \cup DOMAIN shortParams \cup {"DTC_TRANSITION_COST"}

ASSUME AskedInfoAssumption == AskedInfo \subseteq NamedInfo \ {"none"}

\* A string is the sequence of its characters: what the lengths and parts of
\* the texts below rest on.
TextsOf(params) == {params[t] : t \in DOMAIN params}
DefaultDsn == "IoT SiteWise DSN"
InfoTexts ==
  TextsOf(StrParams(TRUE)) \cup TextsOf(StrParams(FALSE))
  \cup InfoUsers \cup InfoDsns \cup {DefaultDsn}

ASSUME InfoTextsAssumption ==
  \A text \in InfoTexts : /\ Len(text) \in Nat
                          /\ SubSeq(text, 1, Len(text)) = text
                          /\ Len(text) = 0 => text = ""

-----------------------------------------------------------------------------
(* ConnectionInfo::GetInfo.  A buffer is NoBuffer or its size in bytes; what *)
(* it holds is Untouched, a text, or a number of four or two bytes.          *)

NoBuffer == -1
Untouched == [kind |-> "untouched"]

Failed == [result |-> "ERROR", reslen |-> "untouched", holds |-> Untouched]

\* How many characters CopyUtf8StringToWcharString copies.  Without a buffer, or
\* with room for the terminator alone, it converts the whole text into a proxy.
Fits(text, room) ==
  IF room <= InfoWchar \/ room \div InfoWchar - 1 > Len(text)
  THEN Len(text) ELSE room \div InfoWchar - 1

\* Faulty: lengths are told in characters.
LengthToldChars(n) == n

\* CopyStringToBuffer, called with lengths in bytes.
LengthTold(n) == n * InfoWchar

CopyStringToBuffer(text, room) ==
  LET n == Fits(text, room)
  IN [result |-> "SUCCESS", reslen |-> LengthTold(n),
      holds |-> IF room <= InfoWchar THEN Untouched
                ELSE [kind |-> "text", text |-> SubSeq(text, 1, n)]]

Number(bytes, value) == [kind |-> "number", bytes |-> bytes, value |-> value]

GetInfo(type, room) ==
  IF type \in DOMAIN strParams
  THEN IF room = 0 THEN Failed ELSE CopyStringToBuffer(strParams[type], room)
  ELSE IF room = NoBuffer THEN Failed
  ELSE IF type \in DOMAIN intParams
  THEN [Failed EXCEPT !.result = "SUCCESS", !.holds = Number(4, intParams[type])]
  ELSE IF type \in DOMAIN shortParams
  THEN [Failed EXCEPT !.result = "SUCCESS", !.holds = Number(2, shortParams[type])]
  ELSE Failed

\* ConnectionInfo::SetInfo: only a text that has a value can be replaced.
SetInfo(params, type, value) ==
  IF type \in DOMAIN params THEN [params EXCEPT ![type] = value] ELSE params

\* Configuration::GetDsn
GetDsn(dsn) == IF dsn = NoDsn THEN DefaultDsn ELSE dsn

\* The user name and the dsn are those of the configuration.
UpdateConnectionRuntimeInfo(params, user, dsn) ==
  SetInfo(SetInfo(params, "USER_NAME", user), "DATA_SOURCE_NAME", GetDsn(dsn))

-----------------------------------------------------------------------------
(* Connection::InternalGetFunctions, built for macOS only. *)

\* Connection::SetODBC3FunctionsValue
ODBC3Functions ==
  {"ALLOCHANDLE", "GETDESCFIELD", "BINDCOL", "GETDESCREC", "CANCEL", "GETDIAGFIELD",
   "CLOSECURSOR", "GETDIAGREC", "COLATTRIBUTE", "GETENVATTR", "CONNECT",
   "GETFUNCTIONS", "COPYDESC", "GETINFO", "DATASOURCES", "GETSTMTATTR",
   "DESCRIBECOL", "GETTYPEINFO", "DISCONNECT", "NUMRESULTCOLS", "DRIVERS",
   "PARAMDATA", "ENDTRAN", "PREPARE", "EXECDIRECT", "PUTDATA", "EXECUTE",
   "ROWCOUNT", "FETCH", "SETCONNECTATTR", "FETCHSCROLL", "SETCURSORNAME",
   "FREEHANDLE", "SETDESCFIELD", "FREESTMT", "SETDESCREC", "GETCONNECTATTR",
   "SETENVATTR", "GETCURSORNAME", "SETSTMTATTR", "GETDATA", "COLUMNS",
   "STATISTICS", "SPECIALCOLUMNS", "TABLES", "BINDPARAMETER", "NATIVESQL",
   "BROWSECONNECT", "NUMPARAMS", "BULKOPERATIONS", "PRIMARYKEYS",
   "COLUMNPRIVILEGES", "PROCEDURECOLUMNS", "DESCRIBEPARAM", "PROCEDURES",
   "DRIVERCONNECT", "SETPOS", "FOREIGNKEYS", "TABLEPRIVILEGES", "MORERESULTS"}

\* Connection::SetODBC2FunctionsValue; COLATTRIBUTES has the number of
\* COLATTRIBUTE.
ODBC2Functions ==
  {"ALLOCCONNECT", "ALLOCENV", "ALLOCSTMT", "BINDCOL", "BINDPARAMETER",
   "BROWSECONNECT", "CANCEL", "COLATTRIBUTE", "COLUMNPRIVILEGES", "COLUMNS",
   "CONNECT", "DATASOURCES", "DESCRIBECOL", "DESCRIBEPARAM", "DISCONNECT",
   "DRIVERCONNECT", "DRIVERS", "ERROR", "EXECDIRECT", "EXECUTE", "EXTENDEDFETCH",
   "FETCH", "FOREIGNKEYS", "FREECONNECT", "FREEENV", "FREESTMT",
   "GETCONNECTOPTION", "GETCURSORNAME", "GETDATA", "GETFUNCTIONS", "GETINFO",
   "GETSTMTOPTION", "GETTYPEINFO", "MORERESULTS", "NATIVESQL", "NUMPARAMS",
   "NUMRESULTCOLS", "PARAMDATA", "PARAMOPTIONS", "PREPARE", "PRIMARYKEYS",
   "PROCEDURECOLUMNS", "PROCEDURES", "PUTDATA", "ROWCOUNT", "SETCONNECTOPTION",
   "SETCURSORNAME", "SETPARAM", "SETPOS", "SETSCROLLOPTIONS", "SETSTMTOPTION",
   "SPECIALCOLUMNS", "STATISTICS", "TABLEPRIVILEGES", "TABLES", "TRANSACT"}

\* The functions InternalGetFunctions has a case for, in the order of the cases.
OneByOneFirst ==
  {"ALLOCHANDLE", "GETDESCFIELD", "BINDCOL", "GETDESCREC", "CANCEL", "GETDIAGFIELD",
   "CLOSECURSOR", "GETDIAGREC", "COLATTRIBUTE", "GETENVATTR", "CONNECT",
   "GETFUNCTIONS", "COPYDESC", "GETINFO", "DATASOURCES", "GETSTMTATTR",
   "DESCRIBECOL", "GETTYPEINFO", "DISCONNECT", "NUMRESULTCOLS", "DRIVERS",
   "PARAMDATA", "ENDTRAN", "PREPARE", "EXECDIRECT", "PUTDATA", "EXECUTE",
   "ROWCOUNT", "FETCH", "SETCONNECTATTR"}

OneByOneNext ==
  {"FETCHSCROLL", "SETCURSORNAME", "FREEHANDLE", "SETDESCFIELD", "FREESTMT",
   "SETDESCREC", "GETCONNECTATTR", "SETENVATTR", "GETCURSORNAME", "SETSTMTATTR",
   "GETDATA", "COLUMNS", "STATISTICS", "SPECIALCOLUMNS", "TABLES", "NATIVESQL",
   "BROWSECONNECT", "NUMPARAMS", "BULKOPERATIONS", "PRIMARYKEYS",
   "COLUMNPRIVILEGES", "PROCEDURECOLUMNS", "DESCRIBEPARAM", "PROCEDURES",
   "DRIVERCONNECT", "SETPOS", "FOREIGNKEYS", "TABLEPRIVILEGES", "MORERESULTS"}

\* Faulty: the functions of ODBC 2 are not answered one by one.
OneByOneOdbc2Missing == {}

OneByOneOdbc2 ==
  {"ALLOCCONNECT", "ALLOCENV", "ALLOCSTMT", "BINDPARAMETER", "ERROR",
   "EXTENDEDFETCH", "FREECONNECT", "FREEENV", "GETCONNECTOPTION", "GETSTMTOPTION",
   "PARAMOPTIONS", "SETCONNECTOPTION", "SETPARAM", "SETSCROLLOPTIONS",
   "SETSTMTOPTION", "TRANSACT"}

OneByOne == OneByOneFirst \cup OneByOneNext \cup OneByOneOdbc2

\* A function identifier no case is about.
UnknownFunction == "UNKNOWN"

-----------------------------------------------------------------------------
NoAnswer == [call |-> "none", type |-> "none", room |-> NoBuffer,
             outcome |-> Failed]
NotLearned == [type |-> "none", length |-> 0]

\* Connection::Connection
InfoInit ==
  /\ asSchema \in BOOLEAN
  /\ strParams = StrParams(asSchema)
  /\ configDsn = NoDsn
  /\ connectedAs = [call |-> "none", user |-> "", dsn |-> NoDsn, kept |-> NoDsn]
  /\ answer = NoAnswer /\ learned = NotLearned
  /\ functions = [odbc3 |-> {}, odbc2 |-> {}]

\* Connection::InternalEstablish takes over a configuration, for an attempt to
\* connect that gets through or not.  That of SQLConnect has no dsn, whatever
\* data source it is read from; a string without one leaves the dsn that an
\* earlier string has set.
InfoEstablish(call, user, dsn) ==
  LET named == IF call = "SQLConnect" THEN NoDsn
               ELSE IF dsn = NoDsn THEN configDsn ELSE dsn
  IN /\ configDsn' = named
     /\ \/ /\ strParams' = UpdateConnectionRuntimeInfo(strParams, user, named)
           /\ connectedAs' =
                [call |-> call, user |-> user,
                 dsn |-> IF call = "SQLConnect" THEN NoDsn ELSE dsn,
                 kept |-> IF named = dsn THEN NoDsn ELSE named]
           /\ learned' = NotLearned
        \/ UNCHANGED <<strParams, connectedAs, learned>>
     /\ answer' = NoAnswer
     /\ UNCHANGED <<asSchema, functions>>

\* Connection::InternalGetInfo.  A failure adds one record, state HYC00.
SQLGetInfo(type, room) ==
  LET outcome == GetInfo(type, room)
  IN /\ answer' = [call |-> "GetInfo", type |-> type, room |-> room,
                   outcome |-> outcome]
     /\ learned' = IF room = NoBuffer /\ outcome.result = "SUCCESS"
                   THEN [type |-> type, length |-> outcome.reslen] ELSE learned
     /\ UNCHANGED <<asSchema, strParams, configDsn, connectedAs, functions>>

\* Connection::InternalGetFunctions: an identifier without a case leaves the
\* value as it was and the call succeeds.
SQLGetFunctions(f) ==
  /\ answer' = [call |-> "GetFunctions", type |-> f, room |-> 2,
                outcome |-> [result |-> "SUCCESS", reslen |-> "untouched",
                             holds |-> IF f \in OneByOne THEN Number(2, {"TRUE"})
                                       ELSE Untouched]]
  /\ UNCHANGED <<asSchema, strParams, configDsn, connectedAs, learned, functions>>

SQLGetAllFunctions(version) ==
  /\ functions' = [functions EXCEPT ![version] =
                     IF version = "odbc3" THEN ODBC3Functions ELSE ODBC2Functions]
  /\ answer' = NoAnswer
  /\ UNCHANGED <<asSchema, strParams, configDsn, connectedAs, learned>>

\* The sizes an application may pass: none, one too small for a character, some
\* characters, and the length it was told plus a terminator.
Rooms(type) ==
  {NoBuffer, 0, InfoWchar, 3 * InfoWchar}
  \cup (IF learned.type = type THEN {learned.length + InfoWchar} ELSE {})

InfoNext ==
  \/ \E user \in InfoUsers, dsn \in InfoDsns : InfoEstablish("SQLConnect", user, dsn)
  \/ \E user \in InfoUsers, dsn \in InfoDsns \cup {NoDsn} :
       InfoEstablish("SQLDriverConnect", user, dsn)
  \/ \E type \in AskedInfo : \E room \in Rooms(type) : SQLGetInfo(type, room)
  \/ \E f \in OneByOne \cup ODBC3Functions \cup {UnknownFunction} : SQLGetFunctions(f)
  \/ \E version \in {"odbc3", "odbc2"} : SQLGetAllFunctions(version)

InfoSpec == InfoInit /\ [][InfoNext]_infoVars

-----------------------------------------------------------------------------
(* Properties *)

\* An application that asks for the length of a text with a null buffer, and
\* then passes a buffer of that length and a terminator, gets the whole text
\* when no connection was made in between.  The empty text is the exception:
\* its buffer has room for the terminator alone and is left unwritten
\* (CopyUtf8StringToWcharString copies into a proxy).
LengthThenValue ==
  answer.call = "GetInfo" /\ answer.type = learned.type
  /\ answer.room = learned.length + InfoWchar =>
    LET text == strParams[answer.type]
    IN /\ answer.outcome.result = "SUCCESS"
       /\ answer.outcome.reslen = learned.length
       /\ text # "" => answer.outcome.holds = [kind |-> "text", text |-> text]

\* The user and the data source told are those of the last connection made,
\* both of the same one, whatever attempts fail after it: the data source is
\* the one its string names, or else one that an earlier string has left in the
\* configuration, or else the default.  For SQLConnect it is always the default,
\* where the comment at connection_info.cpp:735 says the argument of SQLConnect
\* (and the empty text for a string that names none).
NamesOfLastConnection ==
  /\ strParams["USER_NAME"] = connectedAs.user
  /\ LET told == strParams["DATA_SOURCE_NAME"]
     IN /\ connectedAs.call = "none" => told = ""
        /\ connectedAs.call = "SQLConnect" => told = DefaultDsn
        /\ connectedAs.call = "SQLDriverConnect" =>
             told = IF connectedAs.dsn # NoDsn THEN connectedAs.dsn
                    ELSE GetDsn(connectedAs.kept)

\* Catalogs or schemas, never both and never neither: the six information types
\* about them agree, however DATABASE_AS_SCHEMA was set.
NamespacesAgree ==
  LET catalogs == strParams["CATALOG_NAME"] = "Y"
  IN /\ catalogs <=> strParams["CATALOG_TERM"] # ""
     /\ catalogs <=> intParams["CATALOG_USAGE"] # {}
     /\ catalogs <=> intParams["CATALOG_LOCATION"] # {}
     /\ ~catalogs <=> strParams["SCHEMA_TERM"] # ""
     /\ ~catalogs <=> intParams["SCHEMA_USAGE"] # {}

\* The kinds of cursors, by the names of their attributes.
CursorKind(option, first, second) == [option |-> option, first |-> first, second |-> second]

CursorKinds ==
  {CursorKind("FORWARD_ONLY", "FORWARD_ONLY_CURSOR_ATTRIBUTES1",
              "FORWARD_ONLY_CURSOR_ATTRIBUTES2"),
   CursorKind("STATIC", "STATIC_CURSOR_ATTRIBUTES1", "STATIC_CURSOR_ATTRIBUTES2"),
   CursorKind("KEYSET", "KEYSET_CURSOR_ATTRIBUTES1", "KEYSET_CURSOR_ATTRIBUTES2"),
   CursorKind("DYNAMIC", "DYNAMIC_CURSOR_ATTRIBUTES1", "DYNAMIC_CURSOR_ATTRIBUTES2")}

\* A kind of cursor is among SCROLL_OPTIONS exactly when its attributes
\* are not empty, and every kind that is announced is read-only, as
\* SCROLL_CONCURRENCY says.
CursorClaimsAgree ==
  \A kind \in CursorKinds :
    /\ kind.option \in intParams["SCROLL_OPTIONS"] <=> intParams[kind.first] # {}
    /\ intParams[kind.first] # {} =>
         (intParams["SCROLL_CONCURRENCY"] = {"SCCO_READ_ONLY"}
          <=> "CA2_READ_ONLY_CONCURRENCY" \in intParams[kind.second])

\* What SQLGetFunctions says of one function and what its arrays say agree, once
\* both arrays were read: the answer is true exactly for the functions that are
\* in one of them.
FunctionAnswersAgree ==
  answer.call = "GetFunctions" /\ functions.odbc3 # {} /\ functions.odbc2 # {} =>
    (answer.outcome.holds = Number(2, {"TRUE"})
     <=> answer.type \in functions.odbc3 \cup functions.odbc2)

\* What a connection tells of itself is true of the connection made last and
\* does not contradict itself: not the names (UpdateConnectionRuntimeInfo), the
\* information about catalogs and schemas, that about cursors, nor the two ways
\* to ask for a function (connection.cpp:850-1371).
ClaimsAgree ==
  /\ NamesOfLastConnection
  /\ NamespacesAgree
  /\ CursorClaimsAgree
  /\ FunctionAnswersAgree

=============================================================================
