# TLA+ models of the AWS IoT SiteWise ODBC driver

The driver is an ODBC 3 library: an application loads it, allocates handles and calls the functions of
the ODBC API, and the driver turns them into requests to the IoT SiteWise service. This directory holds
TLA+ models of the parts of the driver that keep state between calls, the TLC configurations that check
them on small instances, and theorems about them that TLAPS checks for every value of the constants.

`PROJECT.json` lists the components, the runs, the faulty variants each property is tried against, the
source lines every definition stands for, the known disagreements between code and documentation, the
hazards and the theorems. Paths in it, and line numbers in the modules, refer to the repository
(`src/src/odbc/src` holds the `.cpp` files, `src/src/odbc/include` the headers).

## 1. The system

| Component | State it keeps | Operations | Talks to | What makes it correct |
|---|---|---|---|---|
| Data query (`query/data_query.cpp`, `iotsitewise_cursor.cpp`) | request with the next token, current page, cursor, queue of fetched pages, fetch threads, flags | execute, fetch next row, cancel, close, destroy, get metadata | the service; its own fetch thread through a mutex and a condition variable | rows in order, each once; end only at the end; calls return; threads joined |
| Statement (`statement.cpp`) | the current query, rowset sizes, active descriptors, cell offset | prepare, execute, fetch, extended fetch, catalog functions, cancel, close, attributes | query, descriptors, connection | the end is final; lost rows are reported; a closed query gives nothing |
| Catalog queries (`query/*_query.cpp`) | collected rows, position | execute, fetch, close | data queries of their own, one after the other | complete or refused, never a part |
| Connections and the AWS SDK (`connection.cpp`) | process-wide: SDK flag, mutex, reference count | constructor, destructor | the SDK | the SDK is up while a connection lives |
| Cursor names (`connection.cpp`, `statement.cpp`) | set of names, map from statements to names | set name, free statement | statements of one connection, in several threads | names unique, none left behind |
| Descriptors (`descriptor.cpp`) | pointers descriptor → statement, statement → descriptor, connection | allocate, associate, copy, free | statements, connections | no dangling, shared or foreign ARD |
| Reading in parts (`odbc.cpp` SQLGetData, `app/application_data_buffer.cpp`, `utility.cpp`) | column and offset of the last call | SQLGetData, fetches | cursor, application buffer | parts follow one another from the first character to the last |
| Connection (`connection.cpp`, `config/*.cpp`, `dsn_config.cpp`, `authentication/*.cpp`) | settings, client, credentials provider | SQLDriverConnect, SQLConnect, SQLDisconnect, attributes | data sources, identity provider, token service, service | nothing left of a failed attempt; a client is never replaced; it has the settings asked for |
| Diagnostic records (`diagnostic/*.cpp`) | result and records of the last call | reset, add, SQLError | every handle | each result explained; records in order |
| Entry points and environment (`odbc.cpp`, `entry_points.cpp`, `environment.cpp`) | handles, ODBC version, records of each handle | every function of the API | everything below | a result is explained by records of this call; records of other handles stay |
| Value conversions (`app/application_data_buffer.cpp`, `iotsitewise_column.cpp`) | the application's array of buffers and indicators | put a value of any type, read a buffer back | result rows, bindings | a row writes its own element; a value put with success is the value; cut texts and nulls are told |
| Connection information (`config/connection_info.cpp`, `connection.cpp`) | table of information types, two texts of the connection | SQLGetInfo, SQLGetFunctions | application buffers | lengths and texts agree; answers do not contradict one another |
| Metadata records (`meta/column_meta.cpp`, `type_traits.cpp`, `query/type_info_query.cpp`) | description of a column | SQLColumns, SQLColAttribute, SQLGetTypeInfo | catalog of the service | three views of one type agree |
| Descriptor records and bindings (`descriptor.cpp`, `statement.cpp`) | records of the descriptors, column bindings | SQLBindCol, SQLSetDescField, SQLGetDescField, SQLCopyDesc | statements | the records describe the bindings; fields read back as set |
| Logger (`log.cpp`, `log.h`) | process-wide: level, directory, file, stream | log, set level, set directory | all threads | accepted messages are written; the file follows the directory |
| Data source setup (`os/iotsitewise/win`, `dsn_config.cpp`) | list of data sources, window, configuration edited | ConfigDSN, messages of the window | the system's list | success means stored; a failure, a rename or Cancel loses nothing |

How they interact: an environment owns connections, a connection statements and descriptors, a statement
one query. A call on a handle is a call chain downwards in the application's thread. The only thread
the driver starts is the one a data query uses to fetch its next page. Application threads meet in the
members of a connection, in the process-wide members of `Connection` and in the logger.

What is hard in this code: the fetch thread against fetch, cancel, close and destruction; the flags,
queue and token that survive a close; the check of the SDK flag without the mutex; the lookup of a name
apart from its addition; raw pointers between handles freed in any order; one offset for all columns;
inner queries that fail half-way; an attempt to connect that fails at one of five requests; settings that
outlive the attempt that made them; calls made of several calls, each of which clears the records of the
one before; buffers measured in bytes here and in characters there; one type described by three pieces of
code; a log file opened by whoever finds it closed; a data source written setting by setting. The hazards of `PROJECT.json` give the line for each.

## 2. Modules and how they correspond to the code

| Module | Extends or instantiates | Content |
|---|---|---|
| `ResultStream` | | abstract specification: a forward-only result set |
| `DataQuery` | instantiates `ResultStream` | the data query, its fetch thread and its application thread |
| `DataQueryProofs` | `DataQuery` | type correctness and the thread protocol, proved |
| `DataQueryRefinement` | `DataQueryProofs` | the order of the rows, and that `DataQuery` implements `ResultStream`, proved |
| `MCDataQuery` | `DataQuery` | results for TLC |
| `Catalog` | | what SQLTables and SQLColumns collect, as functions, with a reference definition |
| `Statement`, `MCStatement` | `Catalog` | a statement with its current query of any class |
| `StatementProofs` | `Statement` | its fetches and the catalog functions, proved |
| `SdkLifecycle` | | initialisation and shutdown of the SDK |
| `Logger` | | the log of the process |
| `DsnSetup` | | ConfigDSN, its window and the list of data sources |
| `MCProcess` | `SdkLifecycle`, `Logger`, `DsnSetup` | what the process holds once, for TLC |
| `ProcessProofs` | `SdkLifecycle`, `Logger`, `DsnSetup` | proofs about the three |
| `CursorNames` | | cursor names of one connection |
| `TypeTraits` | | what the driver knows of the SQL types |
| `Types` | `TypeTraits` | a column's type as catalog, result set and type information describe it |
| `Calls` | | every entry point: its result, the records it leaves, the query then current |
| `MCHandles` | `CursorNames`, `Types`, `Calls` | what the handles keep, for TLC |
| `HandlesProofs` | `CursorNames`, `Types`, `Calls` | proofs about the three |
| `Descriptors` | | row descriptors of several connections |
| `DescriptorRecords` | `TypeTraits` | the records of one statement's descriptors and its bindings |
| `MCDescriptors` | `Descriptors`, `DescriptorRecords` | both, for TLC |
| `DescriptorsProofs` | `Descriptors`, `DescriptorRecords` | proofs about both |
| `GetData` | | SQLGetData in parts |
| `Conversions` | `GetData` | conversion of values into bound columns |
| `MCGetData` | `Conversions` | both, for TLC |
| `GetDataProofs` | `Conversions` | proofs about both |
| `Connection` | | connecting, releasing, settings and status records of a connection |
| `Information` | | SQLGetInfo and SQLGetFunctions |
| `MCConnection` | `Connection`, `Information` | both, for TLC |
| `ConnectionProofs` | `Connection`, `Information` | proofs about both |

Definitions keep the names of the functions they model. A definition whose comment begins with "Faulty:"
stands before the one it varies; it is no part of the specification and is there to see that a property
notices the mistake.

The MC modules that bring several components together (`MCProcess`, `MCHandles`, `MCDescriptors`,
`MCGetData`, `MCConnection`) do so because these share no state of the driver: a variable `part` says which
of them a behaviour is one of, and the others rest. One run then answers for all of them, and every
property is about the whole of the part it names. Each component has a specification of its own, which is what
its theorems are about (`LoggerSpec`, `DsnSpec`, `TypesSpec`, `CallsSpec`, `RecordsSpec`, `BufferSpec`,
`InfoSpec`, and `Spec` of the others); a behaviour of the MC module is one of the part it is about.

**DataQuery.** A variable for each member of the class (`request`, `result`, `cursor`, `curPos`,
`hasAsyncFetch`, `rowCounter`, `meta`, `queue`, `isClosing`, `threads`), `tpc`/`tdata` for the fetch
threads and `pc`/`cont` for the place of the application thread. An action runs from one point where a
thread may block (the service call, `cv_.wait`, `join`) to the next; sections under the mutex are one
action. A result is a sequence of page sizes, a token is the number of the page it asks for. The service
answers with the page or with an error at every call. `FetchNextRow` is split by its early returns
(`FetchWithoutCursor`, `FetchInPage`, `FetchAtEnd`, `FetchNextPage`), `SwitchCursor` likewise, and
`InternalClose` is `BeginClose`, `CloseJoin`, `CloseReset`, followed by what `cont` says. A conversion
either succeeds or fails.

**ResultStream** says in four actions what the application may see: open, visit the next row, end, close.
`DataQuery` maps to it with `phase` read off the cursor and the flag `ended`, and `pos` the row visited.

**Statement.** The query is reduced to what calls of the statement tell apart: class, open or not, rows
and position. All of the calls that change it are actions; the row statuses and the return code of each
fetch are kept in `last`. A row of a data query carries the outcome of fetching it, chosen at execution.
The catalog functions use `Catalog`, where an inner query fails, or is read up to any row; their loops over
names, columns and tables are functions of the number of rounds.

**SdkLifecycle.** One action per access to `awsSDKReady_`, `mutex_`, `refCount_` and per start and end of
`InitAPI` and `ShutdownAPI`. `Serialized` says that the application does not overlap constructors with
destructors.

**CursorNames.** SQLSetCursorName takes two steps, the lookup (without the mutex) and the addition (with
it); all other calls take one. **Descriptors.** One action per call that changes a pointer; a freed
address may be allocated again. **GetData.** SQLGetData is one action: choosing the offset, the copy for
narrow or wide buffers, and the new offset; a text is its number of characters and the byte where each
ends.

**Connection.** An attempt takes one step per pair of the connection string (`ParsePair`, from the last to
the first, into the settings that are there), one for the merge of the data source and the checks of
`InternalEstablish`, and one per request: Okta's session token and assertion, Azure AD's access token, the
token service, the test query. Each request succeeds, or `Fails` closes what there is. Settings that the
code treats alike are represented by one of them; a number has the width of an `int32_t` scaled down to
`IntMax`, so that values up to `UINT32_MAX` wrap. The reference `AskedFor` says, from the string and the
data sources alone, which client is asked for.

**Calls.** An action per entry point, with one handle of each kind. What a call does to the records is
modelled as the code does it: `diagnosticRecords.Reset()` at its start or not, a record added, the header
set; a call made of several (SQLDescribeCol makes five) is the composition of theirs. A query is what the
results depend on (class, rows left or not, columns known or not). The records of one handle, chosen at the
start, are followed, through the calls of other handles too: `Disturbs` names the two that clear them. Unsupported functions, which add a record and clear none, are one action for all.

**Types** and **TypeTraits.** `TypeTraits` holds the functions of `type_traits.cpp` as operators on the
names of types; `Types` holds the three pieces of code that describe a column: the rows of SQLColumns and
SQLGetTypeInfo and the attributes of `ColumnMeta`. `seen` keeps the last answer of each.

**Information.** The three maps of `ConnectionInfo` are written out as functions, a bit mask being a set of
flags: they are what SQLGetInfo answers from. It copies a text with the code's own handling of null,
one-character and short buffers. Connecting (`InfoEstablish`) replaces user and data source, the latter by
`Configuration::GetDsn()`: the DSN of the string, that of an earlier string (an attempt that fails leaves it,
`configDsn`), or the default text. SQLGetFunctions is the table of cases and the two arrays.

**Conversions.** `Put` for every type of value and of buffer, with the code's `GetElementSize` deciding where
the row's element is; `writer` says which row wrote each byte. Numbers are kept in halves; integers have
`ByteBits` bits to a byte, a float a significand of `FloatBits` bits, a stream writes `Precision` digits of a
floating number, and a `long` has `SizeOfLong` bytes, so that every boundary is near; dates and intervals are
their fields. What the C++ code leaves open (a cast that does not fit, an uninitialised number, the bytes behind
an element) is a set of outcomes. A `Get` function reads the buffer back, which is what the properties compare
with.

**DescriptorRecords.** A record has concise type, type, code, buffer and lengths as far as the calls write
them, with each call's own choice of which to write. `columnBindings` are what a fetch fills; the records
only describe them.

**Logger.** An action is the code between two accesses to what the threads share. The mutex is held while
the file is named and opened, written and closed, not while `IsEnabled` is asked nor while level and
directory are changed. A message has a level and no text; `mishaps` records what has gone wrong.

**DsnSetup.** ConfigDSN is a call with a place: in the window, or before one of its writes, each of which
may fail; the settings that are not written yet are a set, taken in the order of the code (`FirstLeft`). In the window an action is one message (`WM_COMMAND` of an edit, a list or a button, a change of
tab, `WM_CLOSE`); a setting stands for those that are enabled and shown together. The system's functions
are external: `SQLWriteDSNToIni` replaces a section by an empty one, an exception that leaves the window
procedure ends there or arrives at `DisplayConnectionWindow`.

## 3. Runs

| Run | Instance | Result |
|---|---|---|
| `once` | results of up to 3 pages of up to 2 rows without a later empty page, 1 execution | `DataQuery` implements `ResultStream` for every order of calls against the fetch thread |
| `again` | every result of up to 3 pages of up to 1 row, 3 executions, 2 thread identities | the thread protocol and the order of the first execution's rows survive empty pages and stale flags; calls return if there is no later empty page |
| `reexecute` | 2 pages, 2 executions | **violation**: the second execution starts at the page where the first stopped |
| `emptypage` | as `again`, 1 execution | **violation**: after a trailing empty page a fetch waits for ever |
| `process` | 4 connections, constructors and destructors not overlapping; 2 threads, 3 log directories, one of them not writable; 2 names of data sources, 2 calls of ConfigDSN, 2 edits in the window | the SDK is up for every live connection, initialised and shut down in turn, and calls end; messages are lost only when two threads open the file or one closes it under another, the file is in the directory set last unless that came at one of three wrong moments; success means stored, a rename loses nothing, and what OK stores is whole |
| `sdk_overlap` | 2 connections, overlapping | **violation**: a live connection on an SDK that is down |
| `names` | 3 statements, 3 names; a column of each type of the service, with a name that has a special type and one that has not; one handle of each kind, up to 2 records, texts of 2 characters | names unique unless two overlapping calls set the same one; none left behind in any case; the three views of a type agree; errors are explained by records of the call that made them, a success of SQLDescribeCol or SQLGetDiagRec hands out all it should, the rows fetched are those of the last result, the records of other handles stay but for two calls that clear them |
| `descriptors` | 2 connections, 2 statements, 2 descriptors, symmetric; 2 columns, up to 3 calls that change records | no freed, shared or foreign ARD until a copy lands on an implicit or active descriptor; bindings are described until something but SQLBindCol writes the records, fields read back as set |
| `getdata` | 2 rows × 2 columns, texts of 0–3 one-byte characters, narrow and wide buffers, rowsets of 1 or 2; every type of value into every type of buffer, bytes of 2 bits, floats of 4, streams of 2 digits, a `long` of 8 bytes | parts follow one another, start at the first character on rows reached with SQLFetch, and end at the end; rows keep their elements, cut texts are told but for two silent cuts, a success reads back what its type can hold |
| `getdata_multibyte` | 1 × 1, texts that begin with a two-byte character | **violation**: the second part does not continue the first |
| `connection` | 7 strings of 2–4 pairs, 2 data sources, user names given, empty or left out, an empty profile name beside a data source with one, `IntMax` = 3; attempts with and without a DSN that succeed or fail, before each SQLGetInfo | whatever fails, is repeated or released: no client without a connection, none replaced, settings as asked on a fresh connection, results explained; the length SQLGetInfo tells is the one that its text needs, and what it tells is true of the last connection and does not contradict itself |
| `statement` | tables `a`, `b` with columns `x,y` and `y`, `a` listed twice; up to 3 rows, each converted, noted, failing or lost, rowsets of 0–2 | the end is final, lost rows are reported, nothing from a closed query, catalog results complete |

Why the bounds are enough. Data query: a result has a first page, a page that is fetched and continues,
and a last one, so 3 pages meet every branch of `SwitchCursor`; 2 rows make the cursor move within a
page; 3 executions let flags of a closed execution meet the next one, which in turn leaves its own; there
is never more than one thread (`OneFetchThread`, proved), so a second identity is there for the thread
that follows it. SDK: a last destructor, a first constructor and two bystanders. Names: two that collide and one
that does not. Descriptors: a copy or free involves at most two statements and two descriptors. GetData:
a text longer than the buffer by more than one part, an equal one, a shorter one and the empty one; a
second column to leave and return to; a second row to carry an offset into. Statement: a rowset with a
row left over, a rowset past the end, a duplicate table name, a column name in two tables. Connection:
each type of authentication, complete and incomplete; a key given twice, refused and then given, given and
in the data source, empty (a profile name also where the data source has one), unknown; a number that is none, zero, too large for the sign, too large
altogether. Attempts are not bounded: settings of any earlier ones mix. Calls: not bounded but for the
records a handle piles up (`MaxRecords`), where two tell a first from a later one; `MessageLength` 2 lets a
buffer cut, just hold and more than hold a text. Descriptor records: a value, the call that spoils it and
the one that reads it make `MaxCalls` 3. Conversions: every pair of types; a rowset's second row is the
first that can land in a wrong element, and a second rowset finds what the first left; with 2 bits to a byte, 4
to a float and 2 digits to a stream there are values just inside and just outside of what each type holds.
Information: texts shorter, equal and longer than the buffer, by a character or by the terminator. Log: two threads make every
race of one check with one change; levels below, at and above those SetLogPath logs at. Data sources: a
second call finds what the first stored or half stored; one edit makes a rename, a wrong number or another
authentication type, and two combine them.

Deadlock is checked except in `again` and `emptypage`, where the hang of `emptypage` is reachable, in
`getdata_multibyte`, where an exception leaves SQLGetData, and in `process`, where the bound on the calls of
ConfigDSN ends a behaviour (that the SDK's calls go on is `LifecycleCallsEnd`).

Every property of a passing run has a faulty variant of a modelled function under which TLC finds it
violated. Type invariants and the parts of the protocols that section 5 proves by themselves (`OneFetchThread`,
`SetIsHeldNames`, `IrdNeverModified`, `RecordsInOrder`) are left to the proofs.

**Conditions on properties.** Some defects are shown as violations; others are kept as the weakest
condition under which the property holds, recorded in a history variable: `collided` (two overlapping
SQLSetCursorName calls with one name), `copiedOver` (SQLCopyDesc onto an implicit or active descriptor
copies the owner's pointers), `inherited` (SQLDriverConnect on a used connection starts from the settings
of earlier attempts), `extended` (SQLExtendedFetch does not reset the offset of SQLGetData), and
`cut` (an inner catalog query that loses rows in the middle does so silently), `redirected` (the active ARD
was changed other than by SQLBindCol, so it no longer describes the bindings) and `mishaps` (what two threads
did to the log).

Other conditions are operators over the state. `SilentCut`: an element of an array or a row as long as the buffer
it goes through is cut there and the result dropped (`iotsitewise_column.cpp:159`, `:193`), and a date into a wide
buffer of 11 bytes or more, but fewer than 11 characters, is cut with success
(`application_data_buffer.cpp:718`); `CutTextsAreReported` holds of every other text. `CanHold`: nothing warns
of a number that its type cannot hold, that is an integer out of range, a number a float rounds, a double whose
text has more than the stream's 6 digits (`application_data_buffer.cpp:232`); and SQL_C_LONG and SQL_C_ULONG are
written with four bytes and read as a `long`, which where it has eight takes in four bytes behind the element, so
a double put there does not read back. `SuccessReadsBack` is about the numbers left. `Roomy`: a buffer with room
for a character and the terminator. `Disturbs`: SQL_ATTR_METADATA_ID of a statement is set through its connection,
whose records that clears (`statement.cpp:311`), and a statement's call that asks for the ODBC version clears
those of the environment; `RecordsOfOthersKept` has these two exceptions. An empty profile name counts as none given
(`configuration.cpp:212`) in `SettingsAsAsked`, and `LossIsReported` speaks of rows that failed or were lost:
a column whose conversion is unsupported is told by a record only, under a plain success
(`data_query.cpp:503`).

Other places where the code is not what its reader expects, modelled as they are:
the row number falls behind after a conversion error; a wide buffer of one character, the terminator,
counts the whole text as delivered; a wide buffer whose length in bytes is between one and two characters
reports success for a value and holds no character of it; SQLColumns answers a sequence error to a fetch after "Empty result
set is returned", where SQLExecute answers a success with a warning; a truncated value is reported as success;
SQL_ATTR_METADATA_ID of a statement is a flag of its connection; an explicitly empty profile name is overwritten
by the data source's; a refused attempt to connect replaces the settings; a number above INT32_MAX turns
negative; a data source with a request timeout and no connection timeout gets the connection timeout 0,
not the documented 1000 (`docs/markdown/setup/connection-string.md:88`), and a timeout of 0 in a string,
documented there to disable it, is refused. `SettingsAsAsked` says nothing of a number that does not fit
and of the connection timeout of such a data source.

Likewise: an error of SQLDescribeCol may have no record, and its values are then uninitialised
(`odbc.cpp:830`); DataQuery::GetMeta without columns answers an error without a record; SQLColumns with two empty names leaves
the result before it open; unsupported functions pile up records; SQLGetInfo leaves a one-character buffer
unwritten and reports a cut text as plain success, and SQLError cuts silently; SQL_DATA_SOURCE_NAME is
'IoT SiteWise DSN', or the DSN of an earlier connection string, after SQLConnect and after a string without DSN,
although it is to be the data source's name in SQLConnect and an empty string without DSN
(`connection_info.cpp:735`); an empty text into a numeric buffer stores an uninitialised number; SQL_ATTR_CONNECTION_DEAD
always says alive; SQL_FETCH_DIRECTION announces directions that are refused; SQLGetFunctions leaves the
value alone for an unknown function; SQLGetTypeInfo of a supported type without a scalar type of its own
answers VARCHAR; a timestamp's display size is 20 for up to 29 characters; a buffer set with
SQL_DESC_DATA_PTR is never filled; SQLCopyDesc of a descriptor onto itself erases it; intervals and
SQL_C_DEFAULT have elements of size 0, so every row of a rowset overwrites the first. The second thread that
opens the log file breaks the stream for good; a log directory set while the level is OFF is not used.
In the window the log path is never disabled (`OnLogLevelChanged` looks for "0" in a list that says "Off"),
Test with no connections throws through the window procedure, and Test changes the level and directory of
the log although "Changes will not be committed until OK button is pressed"
(`dsn_configuration_window.cpp:189`).

## 4. Fairness

`DataQuery!FairSpec` has weak fairness of the application thread's steps inside a call and of each fetch
thread: a call or thread that can run does run, and the service answers or the SDK's own timeout turns
the request into an error (the SDK client is configured with timeouts in `connection.cpp`). There is no
fairness for beginning a call: the application may stop at any time. A thread asleep in `cv_.wait` is not
enabled, so fairness does not hide a missing notification. `SdkLifecycle!FairSpec` has weak fairness of
each constructor's and each destructor's steps, that is of threads that are not
blocked. That is enough for the mutex: while a constructor waits for it no destructor may start, so once
the flag is set no new thread asks for the mutex and every holder releases it.

`MCProcess!ProcessSpec` has the same fairness for the SDK and none for the log and the data sources, of which
only safety is stated.

## 5. What is proved

Every invariant and every action property of the passing runs is a theorem, for every value of the constants that
satisfies the assumptions; so is the refinement. The names of the theorems end in `Holds` where they state the
property of that name.

| Module | Theorems | Inductive invariant |
|---|---|---|
| `DataQueryProofs` | `TypeCorrect`; `FetchThreadsNeverSleep`, `SingleFetchThread`, `ThreadsJoinedBeforeDestruction`, `RequestNeverRacesWithFetch`: the thread protocol, for all results, threads and executions | `TypeOK`; `ThreadInv` |
| `DataQueryRefinement` | `RowsVisitedInOrderHolds`: the first execution visits every row in order and skips none, whatever the pages; `ImplementsResultStream`: one execution over a result without a later empty page implements `ResultStream` | `OrderInv`; `OrderInv` and `EndInv` |
| `StatementProofs` | `EndIsFinalHolds`, `LossIsReportedHolds`, `NothingFromClosedQueryHolds`, for any rows and rowset sizes; `CatalogCompleteHolds`, for any tables and columns | `StatementInv`; `CatalogInv` |
| `ProcessProofs` | `CountAndMutexHold` (also when constructors and destructors overlap), `SdkUpWhileLiveHolds`, `InitAndShutdownAlternateHolds`; `LostOnlyByRaceHolds`, `FileFollowsPathHolds`; `SuccessMeansStoredHolds`, `RenameLosesNothingHolds`, `AcceptedIsWholeHolds` | `SdkCounts`, `SdkInv`; `LoggerInv`; `DsnInv` |
| `HandlesProofs` | `FreedStatementsLeaveNoName`, `CursorNamesUnique`, `SetAgreesWithMap`; `TypeViewsAgree`; `ErrorsAreExplainedHolds`, `SuccessIsWholeHolds`, `ResultSetOfLastSuccessHolds`, `RecordsOfOthersKeptHolds` | `OnlyAllocated`/`NoGhost`, `ApartInv`; `TypesInv`; `CallsInv` |
| `DescriptorsProofs` | `TypeCorrect`, `IrdUnmodified`, `ActiveArdsSound`: no freed, shared or foreign ARD until a copy lands on an implicit or active descriptor, and an implicit IRD is never modified; `BoundIsDescribedHolds`, `FieldsReadBackHolds` | `IrdInv`, `CopyInv`; `RecordsInv` |
| `GetDataProofs` | `PartsAreContiguous`, `PartsBeginAtFirst`, `EndReportedAfterWhole`, for any one-byte texts and roomy buffers; `RowsKeepTheirBytesHolds`, `CutTextsAreReportedHolds`, `SuccessReadsBackHolds`, for any values, buffer lengths, rowset sizes and widths of numbers, with the exceptions of `SilentCut` and `CanHold` | `PartsInv`; `BufferInv` |
| `ConnectionProofs` | `TypesCorrect`, `ConnectedHasClient`, `ConnectedKeepsClient`, `ResultsExplained`, `RecordsHandedOutInOrder`, `SettingsAsAskedHolds`, for any strings, data sources and users; `LengthThenValueHolds`, `ClaimsAgreeHolds` | `Phases`, `RecordsInv`, `AskedInv`; `InfoInv` |

*Thread protocol.* That no fetch thread sleeps is not inductive: whether the queue is empty when the thread
arrives depends on who started it and when. `ThreadInv` adds that the thread objects are exactly the
threads that exist, at most one (`ThreadObjects`), that a thread implies a result (`ThreadNeedsResult`,
which is why the destructor's test of `result_` is enough), that a running thread and a queued page
exclude one another until the first close (`TakeTurns`), that the queue holds at most one page
(`QueueHoldsOne`), and that a close in progress has been announced (`CloseAnnounced`).

*Order of the rows and refinement.* `OrderInv` ties the concrete places to the row visited: nothing before the
execution (`BeforeExecution`), only empty pages skipped when the first rows are asked for (`Executing`), no
close that leads to a second execution (`ClosedForGood`), the cursor on a page with rows that `request_` follows
(`OnPage`), the cursor's position is the row visited (`AtRow`), and what a thread or the queue carries is the
page after the cursor's (`InFlight`). It holds whatever the sizes of the pages, which is more than the refinement
needs: that the end is reported at the end and nowhere else (`EndInv`) is lost with an empty page after rows. So
`ImplementsResultStream` assumes `ExecutedOnce` and `NoEmptyContinuation`, and the runs `reexecute` and
`emptypage` show why; `RowsVisitedInOrderHolds` assumes neither.

*Statement.* Fetching n rows is a loop in one call, so what holds of a rowset is proved by induction over
its rows: `RowFetched` says what one row does to the query and `RowsFetched` what any number of them do.
`StatementInv` then needs why a query gives nothing more after its end (`EndedIsExhausted`: it is closed or past
its last row, and which of these counts depends on its class), that only an execution opens a query
(`OpenIsLive`) and that rows passed over were told (`LossIsTold`).

*Catalog.* A catalog result is made by loops over names, columns and tables inside one call. `LoopExists` shows
that such a loop has a state after each of its rounds; `Lists(s, S)` says that a sequence has every element of a
set once, and the lemmas on it say how it grows by one element or by another list. `TableLoopLists`,
`ColumnLoopLists` and `ColumnsLoopLists` follow the three loops: a table name is listed at its first occurrence,
a column is numbered by the matching ones up to it (`NumberCounts`), and a table's rows are added to those of
tables that have none in common with it, because the list of tables has each once (`ListsOnce`). A loop that was
broken off answers NO_DATA, which leaves the query closed. `CatalogInv` carries the result through the fetches.

*SDK.* `refCount_` is the number of connections constructed and not yet taken off, a cardinality that each step
changes by one, and the mutex admits one constructor: both hold however calls overlap (`SdkCounts`). With constructors and
destructors apart (`Serialized`), a destructor that ends the SDK is alone and nobody is counted (`LastEnds`), and
`SdkAtPoint` and `ReadyTells` say what the SDK and its flag are at each point.

*Log.* The mutex is that of the thread opening the file (`OpenerHolds`); before the first race an accepted
message has an open file without error to go to (`NothingLost`); a name that is not of the directory set last has a
thread on its way that will erase it (`NameFollows`).

*Data sources.* The properties speak of the time between calls; `ListAtPoint` says at each point of ConfigDSN how
far the list has come: untouched in the window, one section with the settings written so far, or both names
complete before the old one is removed. `WindowInOrder` says that the enabled controls are those of the type
chosen, which is why OK stores a whole configuration.

*Cursor names.* A name in the set has a holder in the map (`NoGhost`), which survives overlapping calls;
uniqueness needs the names about to be added kept apart from each other and from those held, as long as
nobody has collided (`ApartInv`). *Types.* Each answer a client keeps is what `TypeTraits` says of one SQL type and
one scalar type (`Says`), so two about the same type agree. *Calls.* The three properties are inductive with the
types: a lemma for each entry point shows that an outcome that fails or warns has a record. That records of other
handles stay, but for those in `Disturbs`, is proved of each call from its form.

*Descriptors.* An active ARD is the implicit one, or a live descriptor of the statement's connection that
points back at the statement and calls itself an ARD (`ArdInv`): the back pointer is what makes freeing
it restore the right statement. `CopyInv` keeps it until `copiedOver`. For the records, `KeepsFields` follows the
field set last in each descriptor through all calls that write other fields or other descriptors.

*GetData.* The characters received are consecutive and end at the statement's offset (`Consecutive`);
on a row reached with SQLFetch they also begin at the first character, the offset never passes the end
of the text, and a call that says there is no more leaves it there (`FromTheFirst`). The theorems assume `OneByteCharacters` and `RoomForACharacter`; `getdata_multibyte`
shows why the first is needed.

*Conversions.* The three properties are inductive together once each conversion is known: for every pair of types,
it writes inside its own element, tells when it cut a text, and leaves something that reads back as the value when
it reports success and its type can hold it (`ConversionInElement`, `ConversionTellsCut`,
`ConversionReadable`). Arrays and rows need the length of elements joined, a loop: it grows
as they do (`LengthsOrdered`), and is whole when none of them is cut (`JoinedIsLength`). A wide buffer with a length between one and two
characters reports success without a character, so both properties are stated for buffers with room (`Roomy`).

*Connection.* `ClientIffConnected` speaks of the time between calls; `Phases` says for each place inside an
attempt whether there is a client: none while it authenticates, one that does not count yet while it is
tried. That an attempt gets there only without a client is what keeps a client from being replaced.
`RecordsInv` carries the order of the records along with their agreement with the result. Types need that
each pair of a string stores a value its setting may have (`PairType`), which for numbers is arithmetic
of `AsInt32`. `AskedInv` compares settings with the string: while it is parsed from its end, a setting has the value
of the first pair of those handled that gives it one (`Parsed`), and at the end of it that is the reference; the
merge with the data source then keeps what is set (`IsSet`). *Information.* `InfoInv`
says that an answer kept is still the one that would be given, so that answers can be compared, and what the names
of the connection are; two lemmas read the tables.

*Induction.* A loop of the code is a recursive function `f[n \in 0 .. k]`, which TLA+ defines by CHOOSE. The
provers cannot use an induction theorem that has an operator as a parameter, but they can use one that has a set:
`SetInduction` says that a set of naturals with 0 and with the successor of each member is Nat, and follows from
`NatLessThanWellFounded` and `WFMin` of the library. With it, that such a function exists is proved for each loop (the function
for k extends to k + 1) and then what the loop computes.

The assumptions on constants are in the modules that declare them and are evaluated by TLC in the runs:
results are non-empty sequences of page sizes, at least one execution, finitely many connections, `NoName` and
`NULL` are no names or handles, nor `NoDsn` a data source (`NoDsnAssumption`), application descriptors are no implicit ones, texts have increasing ends, sizes are
positive, connection strings are sequences of pairs, data sources have settings of the right types, the columns of
a table are a sequence (`CatalogAssumption`), bounds are naturals (`BoundsAssumption`), values and buffers of the
conversions have their types (`UnitsAssumption`, `BindingsAssumption`, `ColumnsAssumption`), and the texts of
SQLGetInfo have the lengths and parts that strings have (`InfoTextsAssumption`).

## 6. What is only model-checked

Liveness: `ContinuedCallsReturn` of the data query and `LifecycleCallsEnd` of the SDK rest on fairness, which is
outside the prover's reach. `CallsReturn` and the properties of the other three runs that expect a violation are
false of the code as it is.

## 7. What is not modelled

- Of the connection: splitting a string into pairs, what the requests to identity providers contain, the
  proxy settings, the values of attributes.
- Of the statement: parameter descriptors, and attributes that only select a pointer.
- SQLSTATEs, beyond the places where a result depends on one, and the texts of records.
- Calendars, decimal texts, texts of blanks and fractions finer than halves (`common_types.cpp`, `utils.cpp`, the
  interval classes): functions of one value without state, of which `Conversions` keeps what happens at a boundary.
- The layout of the window, the temporary stream of the log macros (used by tests only), the creation of
  the logger itself.
- A cancel from a second application thread during a fetch, and a look-up of a cursor name during an
  insertion: none of the members touched is guarded, so the outcomes are those of a data race.
- Tests, performance tools, installers and vendored code.

## 8. Plan

Done: every component of section 1, with the runs of section 3 and the theorems of section 5, which state every
invariant and every action property that a passing run checks. Next:

1. A refinement of `Statement`'s data rows by `DataQuery`: `FetchData` from the end of one call to the end of the
   next.
2. An abstract specification of a catalog result (all or nothing) that `Statement` implements.
3. Inheritance of attributes from a connection to its statements.
