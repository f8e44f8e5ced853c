------------------------------ MODULE DataQuery ------------------------------
(***************************************************************************)
(* The query of an executed SQL statement (query/data_query.cpp): the      *)
(* application thread executes it, fetches its rows, cancels, closes and   *)
(* destroys it, while one thread per page (AsyncFetchOnePage) fetches the  *)
(* next page from the IoT SiteWise service.                                *)
(*                                                                         *)
(* Steps.  The application thread runs from one blocking point (a service  *)
(* call, cv_.wait, thread.join) to the next in one action; pc says where   *)
(* it is.  A section run with context_.mutex_ held is one action, since no *)
(* thread blocks inside one.                                               *)
(*                                                                         *)
(* Data.  The result is a sequence of pages; pages[p] is the number of     *)
(* rows of page p and <<p, i>> is the i-th row of page p.  The nextToken   *)
(* of page p is p + 1 (none on the last page), and a request without a     *)
(* token asks for page 1.                                                  *)
(***************************************************************************)
EXTENDS Naturals, Sequences

CONSTANTS Shapes,     \* the results the service may hold: rows per page
          Threads,    \* identities for std::thread objects
          MaxExecs    \* bound: executions of one DataQuery

ASSUME ShapesAssumption == Shapes \subseteq (Seq(Nat) \ {<<>>})
ASSUME MaxExecsAssumption == MaxExecs \in Nat \ {0}

VARIABLES
  pages,          \* the result held by the service, fixed
  request,        \* request_: the page its nextToken asks for
  result,         \* result_: page held, or None
  cursor,         \* cursor_: page held, or None
  curPos,         \* cursor_->curPos_
  hasAsyncFetch,  \* hasAsyncFetch
  rowCounter,     \* rowCounter
  meta,           \* resultMetaAvailable_
  queue,          \* context_.queue_: outcomes of fetched pages
  isClosing,      \* context_.isClosing_
  asleep,         \* the application thread sleeps in context_.cv_.wait
  threads,        \* threads_: queue of thread objects
  tpc,            \* what each thread is doing
  tdata,          \* the page each thread asks for, then the outcome it got
  pc,             \* where the application thread is
  cont,           \* what follows the InternalClose in progress
  ret,            \* what the last completed call returned
  visited,        \* history: the row FetchNextRow moved to last
  turn,           \* history: changes with every row FetchNextRow moves to
  ended,          \* history: FetchNextRow has reported the end of the rows
  execs           \* history: executions so far

service == <<pages>>
query   == <<request, result, hasAsyncFetch, meta>>
place   == <<cursor, curPos>>
context == <<queue, isClosing, asleep>>
workers == <<threads, tpc, tdata>>
app     == <<pc, cont, ret>>
history == <<visited, turn, ended, execs>>
vars == <<pages, request, result, cursor, curPos, hasAsyncFetch, rowCounter,
          meta, queue, isClosing, asleep, threads, tpc, tdata, pc, cont, ret,
          visited, turn, ended, execs>>

None  == 0              \* no page: a null result_ or cursor_
Start == <<0, 0>>       \* no row visited yet

PcSet   == {"idle", "execute", "meta", "close", "switch", "join", "gone"}
ContSet == {"return", "execute", "destroy"}
RetSet  == {"NONE", "SUCCESS", "NO_DATA", "ERROR"}
TpcSet  == {"none", "start", "call", "reply", "done"}

Outcome == [page : 1 .. Len(pages), ok : BOOLEAN]

HasToken(p) == p < Len(pages)

\* The service answers a request for page p, or the call fails.  External.
ExecuteQuery(p) == {[page |-> p, ok |-> b] : b \in BOOLEAN}

Init ==
  /\ pages \in Shapes
  /\ request = 1 /\ result = None /\ cursor = None /\ curPos = 0
  /\ hasAsyncFetch = FALSE /\ rowCounter = 0 /\ meta = FALSE
  /\ queue = <<>> /\ isClosing = FALSE /\ asleep = FALSE
  /\ threads = <<>>
  /\ tpc = [t \in Threads |-> "none"]
  /\ tdata = [t \in Threads |-> [page |-> 1, ok |-> FALSE]]
  /\ pc = "idle" /\ cont = "return" /\ ret = "NONE"
  /\ visited = Start /\ turn = 0 /\ ended = FALSE /\ execs = 0

-----------------------------------------------------------------------------
\* std::thread next(AsyncFetchOnePage, ...); addThreads(next), once the thread
\* objects are ts and the threads are in the states tp.
StartThread(ts, tp) ==
  \E t \in Threads :
    /\ tp[t] = "none"
    /\ threads' = Append(ts, t)
    /\ tpc' = [tp EXCEPT ![t] = "start"]
    /\ UNCHANGED tdata

\* ReadColumnMetadataVector: the metadata becomes available unless the
\* service sent no columns.
ReadColumnMetadataVector == meta' \in {meta, TRUE}

\* The first half of InternalClose: tell the threads, without the mutex and
\* without a notification, and go on to join them.
BeginClose(next, r) ==
  /\ isClosing' = TRUE
  /\ pc' = "close" /\ cont' = next /\ ret' = r

\* The call returns r to the application.
Return(r) == pc' = "idle" /\ ret' = r /\ UNCHANGED cont

-----------------------------------------------------------------------------
(* Execute *)

\* Faulty: executes without closing the previous execution.
ExecuteWithoutClose ==
  /\ pc = "idle" /\ execs < MaxExecs
  /\ execs' = execs + 1
  /\ visited' = Start /\ ended' = FALSE
  /\ pc' = "execute" /\ ret' = "NONE"
  /\ UNCHANGED <<service, query, place, rowCounter, context, workers, cont,
                 turn>>

Execute ==
  /\ pc = "idle" /\ execs < MaxExecs
  /\ execs' = execs + 1
  /\ visited' = Start /\ ended' = FALSE
  /\ IF result # None
       THEN BeginClose("execute", "NONE")
       ELSE pc' = "execute" /\ ret' = "NONE" /\ UNCHANGED <<cont, isClosing>>
  /\ UNCHANGED <<service, query, place, rowCounter, queue, asleep, workers,
                 turn>>

ExecuteFails ==
  /\ pc = "execute"
  /\ \E outcome \in ExecuteQuery(request) : ~outcome.ok
  /\ BeginClose("return", "ERROR")
  /\ UNCHANGED <<service, query, place, rowCounter, queue, asleep, workers,
                 history>>

\* An empty page: ask for the one its token names, or there is no data.
ExecuteEmptyPage ==
  /\ pc = "execute"
  /\ \E outcome \in ExecuteQuery(request) :
       /\ outcome.ok /\ pages[outcome.page] = 0
       /\ result' = outcome.page
       /\ IF HasToken(outcome.page)
            THEN request' = outcome.page + 1 /\ UNCHANGED app
            ELSE Return("NO_DATA") /\ UNCHANGED request
  /\ UNCHANGED <<service, place, hasAsyncFetch, meta, rowCounter, context,
                 workers, history>>

\* The first page with rows; the thread for the next page starts here.
ExecuteFirstPage ==
  /\ pc = "execute"
  /\ \E outcome \in ExecuteQuery(request) :
       /\ outcome.ok /\ pages[outcome.page] > 0
       /\ result' = outcome.page
       /\ cursor' = outcome.page /\ curPos' = 0
       /\ IF HasToken(outcome.page)
            THEN /\ request' = outcome.page + 1
                 /\ hasAsyncFetch' = TRUE
                 /\ StartThread(threads, tpc)
            ELSE UNCHANGED <<request, hasAsyncFetch, workers>>
  /\ IF meta THEN UNCHANGED meta ELSE ReadColumnMetadataVector
  /\ Return("SUCCESS")
  /\ UNCHANGED <<service, rowCounter, context, history>>

-----------------------------------------------------------------------------
(* FetchNextRow and SwitchCursor *)

\* IoTSiteWiseCursor::Increment, with curPos_ kept at one past the last row
\* when it is further: the code tells no two such values apart.
Increment(p, pos) == IF pos <= pages[p] THEN pos + 1 ELSE pos

\* The bound columns of the row are read; a row whose value cannot be
\* converted is an error and is not counted.
ReadRow(row, converted) ==
  /\ visited' = row /\ turn' = 1 - turn
  /\ IF converted
       THEN rowCounter' = rowCounter + 1 /\ Return("SUCCESS")
       ELSE UNCHANGED rowCounter /\ Return("ERROR")
  /\ UNCHANGED <<ended, execs>>

FetchWithoutCursor ==
  /\ pc = "idle" /\ cursor = None
  /\ Return("NO_DATA")
  /\ UNCHANGED <<service, query, place, rowCounter, context, workers, history>>

FetchInPage(converted) ==
  /\ pc = "idle" /\ cursor # None
  /\ curPos' = Increment(cursor, curPos)
  /\ curPos' <= pages[cursor]
  /\ ReadRow(<<cursor, curPos'>>, converted)
  /\ UNCHANGED <<service, query, cursor, context, workers>>

FetchAtEnd ==
  /\ pc = "idle" /\ cursor # None /\ ~hasAsyncFetch
  /\ curPos' = Increment(cursor, curPos)
  /\ curPos' > pages[cursor]
  /\ ended' = TRUE
  /\ Return("NO_DATA")
  /\ UNCHANGED <<service, query, cursor, rowCounter, context, workers, visited,
                 turn, execs>>

FetchNextPage ==
  /\ pc = "idle" /\ cursor # None /\ hasAsyncFetch
  /\ curPos' = Increment(cursor, curPos)
  /\ curPos' > pages[cursor]
  /\ pc' = "switch" /\ ret' = "NONE"
  /\ UNCHANGED <<service, query, cursor, rowCounter, context, workers, cont,
                 history>>

SwitchSleep ==
  /\ pc = "switch" /\ ~asleep /\ queue = <<>>
  /\ asleep' = TRUE
  /\ UNCHANGED <<service, query, place, rowCounter, queue, isClosing, workers,
                 app, history>>

\* Faulty: the outcome is left in the queue.
SwitchTakesWithoutPop(outcome) ==
  /\ pc = "switch" /\ ~asleep /\ queue # <<>>
  /\ outcome = Head(queue)
  /\ UNCHANGED <<service, request, meta, context>>

\* The outcome at the front of the queue is taken by the steps below.
SwitchTakes(outcome) ==
  /\ pc = "switch" /\ ~asleep /\ queue # <<>>
  /\ outcome = Head(queue)
  /\ queue' = Tail(queue)
  /\ UNCHANGED <<service, request, meta, isClosing, asleep>>

SwitchToFailure ==
  /\ SwitchTakes(Head(queue))
  /\ ~Head(queue).ok
  /\ cursor' = None /\ curPos' = 0
  /\ hasAsyncFetch' = FALSE
  /\ Return("ERROR")
  /\ UNCHANGED <<result, rowCounter, workers, history>>

SwitchToEmptyPage ==
  /\ SwitchTakes(Head(queue))
  /\ Head(queue).ok /\ pages[Head(queue).page] = 0
  /\ result' = Head(queue).page
  /\ ended' = TRUE
  /\ Return("NO_DATA")
  /\ UNCHANGED <<place, hasAsyncFetch, rowCounter, workers, visited, turn,
                 execs>>

\* Faulty: the new cursor is not incremented before its first use.
SwitchToLastPageNoIncrement(converted) ==
  /\ SwitchTakes(Head(queue))
  /\ Head(queue).ok /\ pages[Head(queue).page] > 0
  /\ ~HasToken(Head(queue).page)
  /\ result' = Head(queue).page
  /\ cursor' = Head(queue).page /\ curPos' = 0
  /\ hasAsyncFetch' = FALSE
  /\ ReadRow(<<Head(queue).page, 1>>, converted)
  /\ UNCHANGED workers

SwitchToLastPage(converted) ==
  /\ SwitchTakes(Head(queue))
  /\ Head(queue).ok /\ pages[Head(queue).page] > 0
  /\ ~HasToken(Head(queue).page)
  /\ result' = Head(queue).page
  /\ cursor' = Head(queue).page /\ curPos' = 1
  /\ hasAsyncFetch' = FALSE
  /\ ReadRow(<<Head(queue).page, 1>>, converted)
  /\ UNCHANGED workers

SwitchToPage ==
  /\ SwitchTakes(Head(queue))
  /\ Head(queue).ok /\ pages[Head(queue).page] > 0
  /\ HasToken(Head(queue).page)
  /\ result' = Head(queue).page
  /\ cursor' = Head(queue).page /\ curPos' = 1
  /\ pc' = "join"
  /\ UNCHANGED <<hasAsyncFetch, rowCounter, workers, cont, ret, history>>

\* Join and pop the thread that delivered the page, then start the next one.
SwitchJoin(converted) ==
  /\ pc = "join"
  /\ \/ /\ threads # <<>> /\ tpc[Head(threads)] = "done"
        /\ StartThread(Tail(threads), [tpc EXCEPT ![Head(threads)] = "none"])
     \/ /\ threads = <<>>
        /\ StartThread(threads, tpc)
  /\ request' = result + 1
  /\ ReadRow(<<cursor, curPos>>, converted)
  /\ UNCHANGED <<service, result, hasAsyncFetch, meta, place, context>>

-----------------------------------------------------------------------------
(* Cancel, Close, GetMeta and the destructor *)

Cancel ==
  /\ pc = "idle"
  /\ IF hasAsyncFetch /\ result = None
       THEN Return("ERROR") /\ UNCHANGED isClosing
       ELSE BeginClose("return", "SUCCESS")
  /\ UNCHANGED <<service, query, place, rowCounter, queue, asleep, workers,
                 history>>

\* Statement::InternalClose calls it only when DataAvailable().
Close ==
  /\ pc = "idle" /\ cursor # None
  /\ BeginClose("return", "SUCCESS")
  /\ UNCHANGED <<service, query, place, rowCounter, queue, asleep, workers,
                 history>>

Destroy ==
  /\ pc = "idle"
  /\ IF result # None
       THEN BeginClose("destroy", "NONE")
       ELSE pc' = "gone" /\ ret' = "NONE" /\ UNCHANGED <<cont, isClosing>>
  /\ UNCHANGED <<service, query, place, rowCounter, queue, asleep, workers,
                 history>>

\* InternalClose joins and pops one thread object.
CloseJoin ==
  /\ pc = "close" /\ threads # <<>> /\ tpc[Head(threads)] = "done"
  /\ threads' = Tail(threads)
  /\ tpc' = [tpc EXCEPT ![Head(threads)] = "none"]
  /\ UNCHANGED <<service, query, place, rowCounter, context, tdata, app,
                 history>>

AfterClose == CASE cont = "return"  -> "idle"
                [] cont = "execute" -> "execute"
                [] cont = "destroy" -> "gone"

\* Faulty: the close does not wait for the thread.
CloseWithoutJoin ==
  /\ pc = "close"
  /\ result' = None /\ cursor' = None /\ curPos' = 0
  /\ pc' = AfterClose
  /\ UNCHANGED <<service, request, hasAsyncFetch, meta, rowCounter, context,
                 workers, cont, ret, history>>

CloseReset ==
  /\ pc = "close" /\ threads = <<>>
  /\ result' = None /\ cursor' = None /\ curPos' = 0
  /\ pc' = AfterClose
  /\ UNCHANGED <<service, request, hasAsyncFetch, meta, rowCounter, context,
                 workers, cont, ret, history>>

\* GetMeta asks the service when no metadata is available.
GetMeta ==
  /\ pc = "idle" /\ ~meta
  /\ pc' = "meta" /\ ret' = "NONE"
  /\ UNCHANGED <<service, query, place, rowCounter, context, workers, cont,
                 history>>

MakeRequestResultsetMeta ==
  /\ pc = "meta"
  /\ \E outcome \in ExecuteQuery(1) :
       IF outcome.ok
         THEN /\ ReadColumnMetadataVector
              /\ Return("SUCCESS")
              /\ UNCHANGED isClosing
         ELSE /\ BeginClose("return", "ERROR")
              /\ UNCHANGED meta
  /\ UNCHANGED <<service, request, result, hasAsyncFetch, place, rowCounter,
                 queue, asleep, workers, history>>

-----------------------------------------------------------------------------
(* AsyncFetchOnePage, thread t *)

\* The request is passed by reference: it is read when the call is made.
AsyncSend(t) ==
  /\ tpc[t] = "start"
  /\ tpc' = [tpc EXCEPT ![t] = "call"]
  /\ tdata' = [tdata EXCEPT ![t].page = request]
  /\ UNCHANGED <<service, query, place, rowCounter, context, threads, app,
                 history>>

AsyncReply(t) ==
  /\ tpc[t] = "call"
  /\ \E outcome \in ExecuteQuery(tdata[t].page) :
       tdata' = [tdata EXCEPT ![t] = outcome]
  /\ tpc' = [tpc EXCEPT ![t] = "reply"]
  /\ UNCHANGED <<service, query, place, rowCounter, context, threads, app,
                 history>>

\* Faulty: nobody is told of the outcome.
AsyncDeliverSilently(t) ==
  /\ tpc[t] = "reply"
  /\ queue = <<>> \/ isClosing
  /\ queue' = IF queue = <<>> THEN <<tdata[t]>> ELSE queue
  /\ tpc' = [tpc EXCEPT ![t] = "done"]
  /\ UNCHANGED <<service, query, place, rowCounter, isClosing, asleep, threads,
                 tdata, app, history>>

\* cv_.wait lets the thread on when the queue is empty or the query is
\* closing.  A thread for which neither holds would sleep with nobody to
\* notify it: NoFetchThreadSleeps says this never happens.
AsyncDeliver(t) ==
  /\ tpc[t] = "reply"
  /\ queue = <<>> \/ isClosing
  /\ IF queue = <<>>
       THEN queue' = <<tdata[t]>> /\ asleep' = FALSE
       ELSE UNCHANGED <<queue, asleep>>
  /\ tpc' = [tpc EXCEPT ![t] = "done"]
  /\ UNCHANGED <<service, query, place, rowCounter, isClosing, threads, tdata,
                 app, history>>

\* The query no longer exists.
Gone == pc = "gone" /\ UNCHANGED vars

-----------------------------------------------------------------------------
\* What the application thread may do next on its own, inside a call.
AppStep ==
  \/ ExecuteFails \/ ExecuteEmptyPage \/ ExecuteFirstPage
  \/ SwitchSleep \/ SwitchToFailure \/ SwitchToEmptyPage \/ SwitchToPage
  \/ \E c \in BOOLEAN : SwitchToLastPage(c) \/ SwitchJoin(c)
  \/ CloseJoin \/ CloseReset \/ MakeRequestResultsetMeta

\* The calls it may make.
AppCall ==
  \/ Execute \/ FetchWithoutCursor \/ FetchAtEnd \/ FetchNextPage
  \/ \E c \in BOOLEAN : FetchInPage(c)
  \/ Cancel \/ Close \/ Destroy \/ GetMeta

AsyncFetchOnePage(t) == AsyncSend(t) \/ AsyncReply(t) \/ AsyncDeliver(t)

Next == AppStep \/ AppCall \/ (\E t \in Threads : AsyncFetchOnePage(t)) \/ Gone

Spec == Init /\ [][Next]_vars

\* A call in progress and a started thread keep running, and the service
\* answers every request; nothing obliges the application to make a call.
FairSpec ==
  Spec /\ WF_vars(AppStep) /\ \A t \in Threads : WF_vars(AsyncFetchOnePage(t))

-----------------------------------------------------------------------------
(* Properties *)

QueryType ==
  /\ pages \in Shapes
  /\ request \in 1 .. Len(pages)
  /\ result \in 0 .. Len(pages) /\ cursor \in 0 .. Len(pages)
  /\ curPos \in Nat /\ rowCounter \in Nat
  /\ queue \in Seq(Outcome)
  /\ pc = "join" => HasToken(result)    \* the token SwitchCursor holds

FlagsType ==
  /\ hasAsyncFetch \in BOOLEAN /\ meta \in BOOLEAN
  /\ isClosing \in BOOLEAN /\ asleep \in BOOLEAN /\ ended \in BOOLEAN

WorkersType ==
  /\ threads \in Seq(Threads)
  /\ tpc \in [Threads -> TpcSet]
  /\ tdata \in [Threads -> Outcome]

AppType ==
  /\ pc \in PcSet /\ cont \in ContSet /\ ret \in RetSet
  /\ visited \in Nat \X Nat /\ turn \in {0, 1}
  /\ execs \in 0 .. MaxExecs

TypeOK == QueryType /\ FlagsType /\ WorkersType /\ AppType

\* A fetch thread never sleeps in context_.cv_.wait (data_query.cpp:116): when
\* it gets there the queue is empty or the query is closing.  Neither
\* SwitchCursor nor InternalClose notifies it, so a thread that slept there
\* would never wake, and the join in either would hang.
NoFetchThreadSleeps ==
  \A t \in Threads : tpc[t] = "reply" => queue = <<>> \/ isClosing

\* At most one fetch thread exists at any time, running or not yet joined,
\* and it is the one threads_ holds.
OneFetchThread ==
  \A t, u \in Threads : tpc[t] # "none" /\ tpc[u] # "none" => t = u

\* The thread object of a destroyed query has been joined: destroying a
\* joinable std::thread ends the process (data_query.cpp:48-54 closes only a
\* query that holds a result).
NoJoinableThreadDestroyed ==
  pc = "gone" => threads = <<>> /\ \A t \in Threads : tpc[t] = "none"

\* request_ is handed to the fetch thread by reference (data_query.cpp:182,
\* 375); the application thread never writes it while the thread may read it.
RequestStableWhileRead ==
  [][(\E t \in Threads : tpc[t] \in {"start", "call"})
       => request' = request]_vars

\* Every call the application makes returns: SwitchCursor's wait is answered
\* and every join ends.
CallsReturn == pc \notin {"idle", "gone"} ~> pc \in {"idle", "gone"}

\* No page after the first one with rows is empty.
Continued(p) ==
  \A i \in DOMAIN p : p[i] = 0 => \A j \in 1 .. (i - 1) : p[j] = 0

\* Every call returns, re-executions included, when the service sends no empty
\* page after the first rows (SwitchCursor's wait and the joins in SwitchCursor
\* and InternalClose all end).
ContinuedCallsReturn ==
  Continued(pages) /\ pc \notin {"idle", "gone"} ~> pc \in {"idle", "gone"}

\* The rows the application visits are the rows of the result, in order, each
\* once, and NO_DATA is reported only after the last one.
Phase == IF cursor = None THEN "closed" ELSE IF ended THEN "end" ELSE "open"

Stream == INSTANCE ResultStream WITH phase <- Phase, pos <- visited

StreamSpec == Stream!Spec

\* Whatever the pages look like, the rows visited by the first execution are
\* the first rows of the result, in order and each once: an empty page may
\* end the visit early but never repeats or reorders a row.
RowsVisitedInOrder ==
  [][turn' # turn /\ execs' = 1 => Stream!IsNext(visited, visited')]_vars

\* Executing again starts over: the first row visited by an execution is the
\* first row of the result.
ExecutionStartsAtFirstRow ==
  [][visited = Start /\ visited' # Start
       => visited' = <<CHOOSE p \in DOMAIN pages :
                         /\ pages[p] > 0
                         /\ \A q \in 1 .. (p - 1) : pages[q] = 0, 1>>]_vars

=============================================================================
