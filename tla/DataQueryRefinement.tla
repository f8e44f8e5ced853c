------------------------- MODULE DataQueryRefinement -------------------------
(***************************************************************************)
(* What the application of a DataQuery sees of the result.                 *)
(*                                                                         *)
(* RowsVisitedInOrderHolds: whatever the pages of the result, the rows the *)
(* first execution moves to are its first rows, in order and each once.    *)
(*                                                                         *)
(* ImplementsResultStream: a query executed once, over a result in which   *)
(* no page after the first one with rows is empty, implements              *)
(* ResultStream: all the rows, and their end reported only after the last. *)
(* Both conditions are needed: the runs reexecute and emptypage show what  *)
(* happens without them.                                                   *)
(***************************************************************************)
EXTENDS DataQueryProofs

\* Every execution has its own DataQuery, as with SQLExecDirect.
ExecutedOnce == MaxExecs = 1

\* No page after a page with rows is empty.
NoEmptyContinuation ==
  \A s \in Shapes : \A p, q \in DOMAIN s : p < q /\ s[p] > 0 => s[q] > 0

-----------------------------------------------------------------------------
(* The inductive invariant *)

\* Nothing is held before the first execution.
BeforeExecution ==
  execs = 0 => /\ result = None /\ cursor = None /\ queue = <<>>
               /\ visited = Start /\ request = 1 /\ ~hasAsyncFetch
               /\ pc \notin {"execute", "switch", "join"}

\* Only empty pages have been skipped when the first one with rows is asked
\* for.
Executing ==
  pc = "execute" /\ execs = 1 =>
    /\ cursor = None /\ queue = <<>> /\ visited = Start /\ ~hasAsyncFetch
    /\ request \in 1 .. Len(pages)
    /\ \A p \in 1 .. (request - 1) : pages[p] = 0

ClosedForGood == pc = "close" /\ execs < 2 => cont # "execute"

\* The cursor is on a page with rows; while there is a next page it is the
\* one request_ asks for.
OnPage ==
  cursor # None /\ execs = 1 =>
    /\ cursor \in 1 .. Len(pages) /\ pages[cursor] > 0
    /\ hasAsyncFetch <=> HasToken(cursor)
    /\ pc # "join" /\ HasToken(cursor) => request = cursor + 1
    /\ pc = "join" => result = cursor

\* The place of the cursor in its page and the row visited last.
AtRow ==
  execs = 1 =>
    /\ cursor # None /\ pc # "join" =>
         /\ curPos \in 0 .. (pages[cursor] + 1)
         /\ curPos = 0
              => visited = Start /\ \A p \in 1 .. (cursor - 1) : pages[p] = 0
         /\ curPos \in 1 .. pages[cursor] => visited = <<cursor, curPos>>
         /\ curPos = pages[cursor] + 1 => visited = <<cursor, pages[cursor]>>
    /\ pc = "switch" => /\ cursor # None /\ HasToken(cursor)
                        /\ curPos = pages[cursor] + 1
    /\ pc = "join" => /\ cursor # None /\ HasToken(cursor)
                      /\ cursor > 1 /\ curPos = 1
                      /\ visited = <<cursor - 1, pages[cursor - 1]>>

\* The page being fetched or waiting in the queue is the one after the
\* cursor's, and it is not in both places.
InFlight ==
  cursor # None /\ execs = 1 =>
    /\ queue # <<>>
         => Quiet /\ HasToken(cursor) /\ Head(queue).page = cursor + 1
    /\ ~Quiet => HasToken(cursor)
    /\ pc = "join" => queue = <<>> /\ Quiet
    /\ \A t \in Threads :
         tpc[t] \in {"call", "reply"} => tdata[t].page = cursor + 1

\* Where the first execution stands in the result, whatever its pages.
OrderInv == /\ BeforeExecution /\ Executing /\ ClosedForGood
            /\ OnPage /\ AtRow /\ InFlight

\* With no empty page after the first rows, the end is reported on the last
\* page only, and the page held is the cursor's.
EndInv ==
  execs < 2 =>
    /\ execs = 0 \/ pc \in {"execute", "switch", "join"} => ~ended
    /\ cursor # None => result = cursor
    /\ cursor # None /\ ended => /\ curPos = pages[cursor] + 1
                                 /\ ~HasToken(cursor)

USE DEF None, Start, service, query, place, context, workers, app, history

\* Facts about pages.
LEMMA PagesAreSizes ==
  ASSUME TypeOK
  PROVE  /\ pages \in Seq(Nat) /\ Len(pages) \in Nat \ {0}
         /\ \A p \in 1 .. Len(pages) : pages[p] \in Nat
  <1>1. pages \in Seq(Nat) /\ pages # <<>>
    BY ShapesAssumption DEF TypeOK, QueryType
  <1> QED
    BY <1>1

\* When SwitchCursor finds an outcome in the queue, the cursor is past the
\* last row of its page and the outcome is that of the next page.
LEMMA OutcomeOfNextPage ==
  ASSUME TypeOK, ThreadInv, OrderInv, pc = "switch", queue # <<>>, execs = 1
  PROVE  /\ cursor \in 1 .. Len(pages) /\ HasToken(cursor) /\ Quiet
         /\ cursor + 1 \in 1 .. Len(pages) /\ Head(queue).page = cursor + 1
         /\ pages[cursor] \in Nat \ {0} /\ visited = <<cursor, pages[cursor]>>
         /\ curPos = pages[cursor] + 1 /\ Tail(queue) = <<>>
  <1>1. cursor # None /\ HasToken(cursor) /\ curPos = pages[cursor] + 1
    BY DEF OrderInv, AtRow
  <1>2. cursor \in 1 .. Len(pages) /\ pages[cursor] > 0
    BY <1>1 DEF OrderInv, OnPage
  <1>3. Head(queue).page = cursor + 1 /\ Quiet
    BY <1>1 DEF OrderInv, InFlight
  <1>4. visited = <<cursor, pages[cursor]>>
    BY <1>1 DEF OrderInv, AtRow
  <1>5. pages[cursor] \in Nat /\ Len(pages) \in Nat /\ pages \in Seq(Nat)
    BY <1>2, PagesAreSizes
  <1>6. cursor + 1 \in 1 .. Len(pages)
    BY <1>1, <1>2, <1>5 DEF HasToken
  <1>7. Tail(queue) = <<>>
    BY QueueEmptied DEF ThreadInv
  <1> QED
    BY <1>1, <1>2, <1>3, <1>4, <1>5, <1>6, <1>7

\* With no empty page after the first rows that page has rows.
LEMMA NextPageHasRows ==
  ASSUME NoEmptyContinuation, TypeOK, ThreadInv, OrderInv,
         pc = "switch", queue # <<>>, execs = 1
  PROVE  pages[cursor + 1] > 0
  <1>1. /\ cursor \in 1 .. Len(pages) /\ cursor + 1 \in 1 .. Len(pages)
        /\ pages[cursor] \in Nat \ {0}
    BY OutcomeOfNextPage
  <1>2. cursor \in DOMAIN pages /\ cursor + 1 \in DOMAIN pages
          /\ cursor < cursor + 1 /\ pages[cursor] > 0
    BY <1>1, PagesAreSizes
  <1>3. \A p, q \in DOMAIN pages : p < q /\ pages[p] > 0 => pages[q] > 0
    BY DEF NoEmptyContinuation, TypeOK, QueryType
  <1> QED
    BY <1>2, <1>3

\* The constructor of DataQuery establishes OrderInv.
LEMMA InitOrderInv == Init => OrderInv
  BY DEF Init, OrderInv, BeforeExecution, Executing, ClosedForGood, OnPage, AtRow,
         InFlight

\* Every step keeps OrderInv, given the types and the thread invariant.
LEMMA NextOrderInv ==
  ASSUME TypeOK, ThreadInv, OrderInv, [Next]_vars
  PROVE  OrderInv'
  <1> USE DEF OrderInv
  <1>0. pages \in Seq(Nat) /\ Len(pages) \in Nat \ {0}
          /\ \A p \in 1 .. Len(pages) : pages[p] \in Nat
    BY PagesAreSizes
  <1>1. CASE Execute
    <2> USE <1>1 DEF Execute, BeginClose
    <2>0. /\ execs' # 0
          /\ execs' < 2 => /\ execs' = 1 /\ pc' = "execute"
                           /\ result = None /\ cursor = None /\ queue = <<>>
                           /\ request = 1 /\ ~hasAsyncFetch
      <3>1. execs \in Nat
        BY MaxExecsAssumption DEF TypeOK, AppType
      <3> QED
        BY <3>1 DEF BeforeExecution
    <2>1. BeforeExecution'
      BY <2>0 DEF BeforeExecution
    <2>2. Executing'
      BY <1>0, <2>0 DEF Executing
    <2>3. ClosedForGood'
      BY <2>0 DEF ClosedForGood
    <2>4. OnPage'
      BY <2>0 DEF OnPage
    <2>5. AtRow'
      BY <2>0 DEF AtRow
    <2>6. InFlight'
      BY <2>0 DEF InFlight
    <2> QED
      BY <2>1, <2>2, <2>3, <2>4, <2>5, <2>6
  <1>2. CASE ExecuteFails
    <2> USE <1>2 DEF ExecuteFails, BeginClose
    <2>1. BeforeExecution'
      BY DEF BeforeExecution
    <2>2. Executing'
      BY DEF Executing
    <2>3. ClosedForGood'
      BY DEF ClosedForGood
    <2>4. OnPage'
      BY DEF OnPage, HasToken
    <2>5. AtRow'
      BY DEF AtRow, HasToken
    <2>6. InFlight'
      BY DEF InFlight, Quiet, HasToken
    <2> QED
      BY <2>1, <2>2, <2>3, <2>4, <2>5, <2>6
  <1>3. CASE ExecuteEmptyPage
    <2> USE <1>3 DEF ExecuteEmptyPage, Return, ExecuteQuery
    <2>0. /\ execs' = execs /\ execs # 0 /\ pages[request] = 0
          /\ pc' \in {"execute", "idle"} /\ request \in 1 .. Len(pages)
          /\ execs = 1 => cursor' = None
      BY DEF Executing, BeforeExecution, TypeOK, QueryType
    <2>1. BeforeExecution'
      BY <2>0 DEF BeforeExecution
    <2>2. Executing'
      BY <1>0, <2>0 DEF Executing, HasToken
    <2>3. ClosedForGood'
      BY DEF ClosedForGood
    <2>4. OnPage'
      BY <2>0 DEF OnPage
    <2>5. AtRow'
      BY <2>0 DEF AtRow
    <2>6. InFlight'
      BY <2>0 DEF InFlight
    <2> QED
      BY <2>1, <2>2, <2>3, <2>4, <2>5, <2>6
  <1>4. CASE ExecuteFirstPage
    <2> USE <1>4 DEF ExecuteFirstPage, Return, ExecuteQuery, StartThread
    <2>0. /\ execs' = execs /\ execs # 0 /\ pc' = "idle"
          /\ request \in 1 .. Len(pages) /\ pages[request] > 0
          /\ cursor' = request /\ result' = request /\ curPos' = 0
          /\ execs = 1 => /\ ~hasAsyncFetch /\ visited' = Start
                          /\ queue' = <<>>
                          /\ \A p \in 1 .. (request - 1) : pages[p] = 0
      BY DEF Executing, BeforeExecution, TypeOK, QueryType
    <2>1. BeforeExecution'
      BY <2>0 DEF BeforeExecution
    <2>2. Executing'
      BY DEF Executing
    <2>3. ClosedForGood'
      BY DEF ClosedForGood
    <2>4. OnPage'
      BY <1>0, <2>0 DEF OnPage, HasToken
    <2>5. AtRow'
      BY <1>0, <2>0 DEF AtRow
    <2>6. InFlight'
      <3>1. threads = <<>> /\ \A t \in Threads : tpc[t] = "none"
        BY DEF ThreadInv, ThreadNeedsResult, ThreadObjects
      <3>2. HasToken(cursor)' \/ Quiet'
        BY <2>0, <3>1 DEF HasToken, Quiet
      <3>3. \A t \in Threads : tpc'[t] \in {"none", "start"}
        BY <3>1, TypeOK DEF TypeOK, WorkersType
      <3> QED
        BY <2>0, <3>2, <3>3 DEF InFlight
    <2> QED
      BY <2>1, <2>2, <2>3, <2>4, <2>5, <2>6
  <1>5. CASE FetchWithoutCursor
    <2> USE <1>5 DEF FetchWithoutCursor, Return
    <2>1. BeforeExecution'
      BY DEF BeforeExecution
    <2>2. Executing'
      BY DEF Executing
    <2>3. ClosedForGood'
      BY DEF ClosedForGood
    <2>4. OnPage'
      BY DEF OnPage, HasToken
    <2>5. AtRow'
      BY DEF AtRow, HasToken
    <2>6. InFlight'
      BY DEF InFlight, Quiet, HasToken
    <2> QED
      BY <2>1, <2>2, <2>3, <2>4, <2>5, <2>6
  <1>6. ASSUME NEW c \in BOOLEAN, FetchInPage(c) PROVE OrderInv'
    <2> USE <1>6 DEF FetchInPage, ReadRow, Return, Increment
    <2>1. BeforeExecution'
      BY DEF BeforeExecution
    <2>2. Executing'
      BY DEF Executing
    <2>3. ClosedForGood'
      BY DEF ClosedForGood
    <2>4. OnPage'
      BY DEF OnPage, HasToken
    <2>5. AtRow'
      <3>1. execs = 1 =>
              /\ cursor \in 1 .. Len(pages) /\ pages[cursor] \in Nat \ {0}
              /\ curPos \in 0 .. (pages[cursor] + 1)
        BY <1>0 DEF OnPage, AtRow
      <3> QED
        BY <3>1 DEF AtRow, HasToken
    <2>6. InFlight'
      BY DEF InFlight, Quiet, HasToken
    <2> QED
      BY <2>1, <2>2, <2>3, <2>4, <2>5, <2>6
  <1>7. CASE FetchAtEnd
    <2> USE <1>7 DEF FetchAtEnd, Return, Increment
    <2>1. BeforeExecution'
      BY DEF BeforeExecution
    <2>2. Executing'
      BY DEF Executing
    <2>3. ClosedForGood'
      BY DEF ClosedForGood
    <2>4. OnPage'
      BY DEF OnPage, HasToken
    <2>5. AtRow'
      <3>1. execs = 1 =>
              /\ cursor \in 1 .. Len(pages) /\ pages[cursor] \in Nat \ {0}
              /\ curPos \in 0 .. (pages[cursor] + 1)
        BY <1>0 DEF OnPage, AtRow
      <3> QED
        BY <3>1 DEF AtRow, OnPage, HasToken
    <2>6. InFlight'
      BY DEF InFlight, Quiet, HasToken
    <2> QED
      BY <2>1, <2>2, <2>3, <2>4, <2>5, <2>6
  <1>8. CASE FetchNextPage
    <2> USE <1>8 DEF FetchNextPage, Increment
    <2>1. BeforeExecution'
      BY DEF BeforeExecution
    <2>2. Executing'
      BY DEF Executing
    <2>3. ClosedForGood'
      BY DEF ClosedForGood
    <2>4. OnPage'
      BY DEF OnPage, HasToken
    <2>5. AtRow'
      <3>1. execs = 1 =>
              /\ cursor \in 1 .. Len(pages) /\ pages[cursor] \in Nat \ {0}
              /\ curPos \in 0 .. (pages[cursor] + 1)
        BY <1>0 DEF OnPage, AtRow
      <3> QED
        BY <3>1 DEF AtRow, OnPage, HasToken
    <2>6. InFlight'
      BY DEF InFlight, Quiet, HasToken
    <2> QED
      BY <2>1, <2>2, <2>3, <2>4, <2>5, <2>6
  <1>9. CASE SwitchSleep
    <2> USE <1>9 DEF SwitchSleep
    <2>1. BeforeExecution'
      BY DEF BeforeExecution
    <2>2. Executing'
      BY DEF Executing
    <2>3. ClosedForGood'
      BY DEF ClosedForGood
    <2>4. OnPage'
      BY DEF OnPage, HasToken
    <2>5. AtRow'
      BY DEF AtRow, HasToken
    <2>6. InFlight'
      BY DEF InFlight, Quiet, HasToken
    <2> QED
      BY <2>1, <2>2, <2>3, <2>4, <2>5, <2>6
  <1>10. CASE SwitchToFailure
    <2> USE <1>10 DEF SwitchToFailure, SwitchTakes, Return
    <2>1. BeforeExecution'
      BY DEF BeforeExecution
    <2>2. Executing'
      BY DEF Executing
    <2>3. ClosedForGood'
      BY DEF ClosedForGood
    <2>4. OnPage'
      BY DEF OnPage, HasToken
    <2>5. AtRow'
      BY DEF AtRow, HasToken
    <2>6. InFlight'
      BY DEF InFlight, Quiet, HasToken
    <2> QED
      BY <2>1, <2>2, <2>3, <2>4, <2>5, <2>6
  <1>11. CASE SwitchToEmptyPage
    <2> USE <1>11 DEF SwitchToEmptyPage, SwitchTakes, Return
    <2>0. /\ execs' = execs /\ execs # 0
          /\ execs = 1 => /\ Quiet /\ Tail(queue) = <<>> /\ cursor # None
                          /\ curPos = pages[cursor] + 1
                          /\ HasToken(cursor)
      BY OutcomeOfNextPage DEF BeforeExecution
    <2>1. BeforeExecution'
      BY <2>0 DEF BeforeExecution
    <2>2. Executing'
      BY DEF Executing
    <2>3. ClosedForGood'
      BY DEF ClosedForGood
    <2>4. OnPage'
      BY DEF OnPage, HasToken
    <2>5. AtRow'
      BY DEF AtRow
    <2>6. InFlight'
      BY <2>0 DEF InFlight, Quiet, HasToken
    <2> QED
      BY <2>1, <2>2, <2>3, <2>4, <2>5, <2>6
  <1>12. ASSUME NEW c \in BOOLEAN, SwitchToLastPage(c) PROVE OrderInv'
    <2> USE <1>12 DEF SwitchToLastPage, SwitchTakes, ReadRow, Return
    <2>0. /\ execs' = execs /\ execs # 0
          /\ execs = 1 =>
               /\ cursor \in 1 .. Len(pages) /\ HasToken(cursor) /\ Quiet
               /\ Head(queue).page = cursor + 1 /\ pages[cursor] \in Nat
               /\ visited = <<cursor, pages[cursor]>> /\ Tail(queue) = <<>>
      BY OutcomeOfNextPage DEF BeforeExecution, ReadRow
    <2>1. BeforeExecution'
      BY <2>0 DEF BeforeExecution
    <2>2. Executing'
      BY DEF Executing
    <2>3. ClosedForGood'
      BY DEF ClosedForGood
    <2>4. OnPage'
      BY <1>0, <2>0, SMTT(30) DEF OnPage, HasToken
    <2>5. AtRow'
      <3>1. /\ pc' = "idle" /\ curPos' = 1 /\ visited' = <<cursor', 1>>
            /\ pages' = pages
        BY DEF ReadRow
      <3>2. ASSUME execs = 1 PROVE pages[cursor'] \in Nat \ {0}
        <4>1. cursor' = cursor + 1 /\ pages[cursor + 1] > 0
          BY <2>0, <3>2
        <4>2. cursor + 1 \in 1 .. Len(pages)
          BY <1>0, <2>0, <3>2 DEF HasToken
        <4> QED
          BY <1>0, <4>1, <4>2
      <3> QED
        BY <2>0, <3>1, <3>2 DEF AtRow
    <2>6. InFlight'
      BY <2>0 DEF InFlight, Quiet
    <2> QED
      BY <2>1, <2>2, <2>3, <2>4, <2>5, <2>6
  <1>13. CASE SwitchToPage
    <2> USE <1>13 DEF SwitchToPage, SwitchTakes
    <2>0. /\ execs' = execs /\ execs # 0
          /\ execs = 1 =>
               /\ cursor \in 1 .. Len(pages) /\ HasToken(cursor) /\ Quiet
               /\ Head(queue).page = cursor + 1 /\ pages[cursor] \in Nat
               /\ visited = <<cursor, pages[cursor]>> /\ Tail(queue) = <<>>
      BY OutcomeOfNextPage DEF BeforeExecution
    <2>1. BeforeExecution'
      BY <2>0 DEF BeforeExecution
    <2>2. Executing'
      BY DEF Executing
    <2>3. ClosedForGood'
      BY DEF ClosedForGood
    <2>4. OnPage'
      BY <1>0, <2>0 DEF OnPage, HasToken
    <2>5. AtRow'
      BY <1>0, <2>0, SMTT(30) DEF AtRow, HasToken
    <2>6. InFlight'
      BY <2>0 DEF InFlight, Quiet
    <2> QED
      BY <2>1, <2>2, <2>3, <2>4, <2>5, <2>6
  <1>14. ASSUME NEW c \in BOOLEAN, SwitchJoin(c) PROVE OrderInv'
    <2> USE <1>14 DEF SwitchJoin, StartThread, ReadRow, Return
    <2>0. /\ execs' = execs /\ execs # 0
          /\ execs = 1 =>
               /\ cursor \in 1 .. Len(pages) /\ HasToken(cursor)
               /\ pages[cursor] \in Nat \ {0} /\ curPos = 1
               /\ result = cursor /\ queue = <<>>
      BY <1>0 DEF OnPage, AtRow, InFlight, BeforeExecution
    <2>1. BeforeExecution'
      BY <2>0 DEF BeforeExecution
    <2>2. Executing'
      BY DEF Executing
    <2>3. ClosedForGood'
      BY DEF ClosedForGood
    <2>4. OnPage'
      BY DEF OnPage, HasToken
    <2>5. AtRow'
      BY <2>0 DEF AtRow
    <2>6. InFlight'
      <3>1. ASSUME NEW t \in Threads PROVE tpc'[t] \in {"none", "start"}
        <4>1. CASE threads = <<>>
          BY <4>1 DEF ThreadInv, ThreadObjects, TypeOK, WorkersType
        <4>2. CASE threads # <<>>
          BY <4>2, PopThread DEF ThreadInv, TypeOK
        <4> QED
          BY <4>1, <4>2
      <3> QED
        BY <2>0, <3>1 DEF InFlight, HasToken
    <2> QED
      BY <2>1, <2>2, <2>3, <2>4, <2>5, <2>6
  <1>15. CASE Cancel
    <2> USE <1>15 DEF Cancel, Return, BeginClose
    <2>1. BeforeExecution'
      BY DEF BeforeExecution
    <2>2. Executing'
      BY DEF Executing
    <2>3. ClosedForGood'
      BY DEF ClosedForGood
    <2>4. OnPage'
      BY DEF OnPage, HasToken
    <2>5. AtRow'
      BY DEF AtRow, HasToken
    <2>6. InFlight'
      BY DEF InFlight, Quiet, HasToken
    <2> QED
      BY <2>1, <2>2, <2>3, <2>4, <2>5, <2>6
  <1>16. CASE Close
    <2> USE <1>16 DEF Close, BeginClose
    <2>1. BeforeExecution'
      BY DEF BeforeExecution
    <2>2. Executing'
      BY DEF Executing
    <2>3. ClosedForGood'
      BY DEF ClosedForGood
    <2>4. OnPage'
      BY DEF OnPage, HasToken
    <2>5. AtRow'
      BY DEF AtRow, HasToken
    <2>6. InFlight'
      BY DEF InFlight, Quiet, HasToken
    <2> QED
      BY <2>1, <2>2, <2>3, <2>4, <2>5, <2>6
  <1>17. CASE Destroy
    <2> USE <1>17 DEF Destroy, BeginClose
    <2>1. BeforeExecution'
      BY DEF BeforeExecution
    <2>2. Executing'
      BY DEF Executing
    <2>3. ClosedForGood'
      BY DEF ClosedForGood
    <2>4. OnPage'
      BY DEF OnPage, HasToken
    <2>5. AtRow'
      BY DEF AtRow, HasToken
    <2>6. InFlight'
      BY DEF InFlight, Quiet, HasToken
    <2> QED
      BY <2>1, <2>2, <2>3, <2>4, <2>5, <2>6
  <1>18. CASE CloseJoin
    <2> USE <1>18 DEF CloseJoin
    <2>1. BeforeExecution'
      BY DEF BeforeExecution
    <2>2. Executing'
      BY DEF Executing
    <2>3. ClosedForGood'
      BY DEF ClosedForGood
    <2>4. OnPage'
      BY DEF OnPage, HasToken
    <2>5. AtRow'
      BY DEF AtRow, HasToken
    <2>6. InFlight'
      BY DEF InFlight, Quiet, HasToken
    <2> QED
      BY <2>1, <2>2, <2>3, <2>4, <2>5, <2>6
  <1>19. CASE CloseReset
    <2> USE <1>19 DEF CloseReset, AfterClose
    <2>1. BeforeExecution'
      BY DEF BeforeExecution, ClosedForGood, TypeOK, AppType, ContSet
    <2>2. Executing'
      BY DEF Executing, ClosedForGood, TypeOK, AppType, ContSet
    <2>3. ClosedForGood'
      BY DEF ClosedForGood
    <2>4. OnPage'
      BY DEF OnPage, HasToken
    <2>5. AtRow'
      BY DEF AtRow, TypeOK, AppType, ContSet
    <2>6. InFlight'
      BY DEF InFlight, Quiet, HasToken
    <2> QED
      BY <2>1, <2>2, <2>3, <2>4, <2>5, <2>6
  <1>20. CASE GetMeta
    <2> USE <1>20 DEF GetMeta
    <2>1. BeforeExecution'
      BY DEF BeforeExecution
    <2>2. Executing'
      BY DEF Executing
    <2>3. ClosedForGood'
      BY DEF ClosedForGood
    <2>4. OnPage'
      BY DEF OnPage, HasToken
    <2>5. AtRow'
      BY DEF AtRow, HasToken
    <2>6. InFlight'
      BY DEF InFlight, Quiet, HasToken
    <2> QED
      BY <2>1, <2>2, <2>3, <2>4, <2>5, <2>6
  <1>21. CASE MakeRequestResultsetMeta
    <2> USE <1>21 DEF MakeRequestResultsetMeta, Return, BeginClose
    <2>1. BeforeExecution'
      BY DEF BeforeExecution
    <2>2. Executing'
      BY DEF Executing
    <2>3. ClosedForGood'
      BY DEF ClosedForGood
    <2>4. OnPage'
      BY DEF OnPage, HasToken
    <2>5. AtRow'
      BY DEF AtRow, HasToken
    <2>6. InFlight'
      BY DEF InFlight, Quiet, HasToken
    <2> QED
      BY <2>1, <2>2, <2>3, <2>4, <2>5, <2>6
  <1>22. ASSUME NEW t \in Threads, AsyncSend(t) PROVE OrderInv'
    <2> USE <1>22 DEF AsyncSend
    <2>1. BeforeExecution'
      BY DEF BeforeExecution
    <2>2. Executing'
      BY DEF Executing
    <2>3. ClosedForGood'
      BY DEF ClosedForGood
    <2>4. OnPage'
      BY DEF OnPage, HasToken
    <2>5. AtRow'
      BY DEF AtRow, HasToken
    <2>6. InFlight'
      <3>1. cursor # None /\ execs = 1 => ~Quiet /\ pc # "join"
        BY DEF InFlight, Quiet
      <3>2. cursor # None /\ execs = 1 => request = cursor + 1 /\ queue = <<>>
        BY <3>1 DEF OnPage, InFlight
      <3> QED
        BY <3>1, <3>2 DEF InFlight, Quiet, HasToken, TypeOK, WorkersType,
           Outcome
    <2> QED
      BY <2>1, <2>2, <2>3, <2>4, <2>5, <2>6
  <1>23. ASSUME NEW t \in Threads, AsyncReply(t) PROVE OrderInv'
    <2> USE <1>23 DEF AsyncReply, ExecuteQuery
    <2>1. BeforeExecution'
      BY DEF BeforeExecution
    <2>2. Executing'
      BY DEF Executing
    <2>3. ClosedForGood'
      BY DEF ClosedForGood
    <2>4. OnPage'
      BY DEF OnPage, HasToken
    <2>5. AtRow'
      BY DEF AtRow, HasToken
    <2>6. InFlight'
      BY DEF InFlight, Quiet, HasToken
    <2> QED
      BY <2>1, <2>2, <2>3, <2>4, <2>5, <2>6
  <1>24. ASSUME NEW t \in Threads, AsyncDeliver(t) PROVE OrderInv'
    <2> USE <1>24 DEF AsyncDeliver
    <2>1. BeforeExecution'
      <3>1. execs = 0 => threads = <<>>
        BY DEF BeforeExecution, ThreadInv, ThreadNeedsResult
      <3>2. threads # <<>>
        BY DEF ThreadInv, ThreadObjects
      <3> QED
        BY <3>1, <3>2 DEF BeforeExecution
    <2>2. Executing'
      <3>1. pc # "execute"
        BY DEF ThreadInv, ThreadNeedsResult, ThreadObjects
      <3> QED
        BY <3>1 DEF Executing
    <2>3. ClosedForGood'
      BY DEF ClosedForGood
    <2>4. OnPage'
      BY DEF OnPage, HasToken
    <2>5. AtRow'
      BY DEF AtRow, HasToken
    <2>6. InFlight'
      <3>1. \A u \in Threads : u # t => tpc[u] = "none"
        BY DEF ThreadInv, ThreadObjects
      <3>2. Quiet'
        BY <3>1 DEF Quiet, TypeOK, WorkersType
      <3>3. ~Quiet
        BY DEF Quiet
      <3>4. cursor # None /\ execs = 1
              => /\ queue = <<>> /\ pc # "join" /\ HasToken(cursor)
                 /\ tdata[t].page = cursor + 1
        BY <3>3 DEF InFlight
      <3>5. cursor # None /\ execs = 1 => queue' = <<tdata[t]>>
        BY <3>4
      <3> QED
        BY <3>2, <3>4, <3>5 DEF InFlight, HasToken, Quiet
    <2> QED
      BY <2>1, <2>2, <2>3, <2>4, <2>5, <2>6
  <1>25. CASE UNCHANGED vars
    BY <1>25
    DEF vars, BeforeExecution, Executing, ClosedForGood, OnPage, AtRow,
        InFlight, Quiet, HasToken
  <1> QED
    BY <1>1, <1>2, <1>3, <1>4, <1>5, <1>6, <1>7, <1>8, <1>9, <1>10, <1>11,
       <1>12, <1>13, <1>14, <1>15, <1>16, <1>17, <1>18, <1>19, <1>20, <1>21,
       <1>22, <1>23, <1>24, <1>25
    DEF Next, AppStep, AppCall, AsyncFetchOnePage, Gone

\* OrderInv holds always.
LEMMA OrderInvHolds == Spec => []OrderInv
  <1>1. TypeOK /\ ThreadInv /\ OrderInv /\ [Next]_vars => OrderInv'
    BY NextOrderInv
  <1> QED
    BY <1>1, InitOrderInv, TypeCorrect, ThreadInvHolds, PTL DEF Spec

\* A row moved to by the first execution is the next one of the result.
LEMMA VisitIsNext ==
  ASSUME TypeOK, ThreadInv, OrderInv, [Next]_vars, turn' # turn, execs' = 1
  PROVE  Stream!IsNext(visited, visited')
  <1> USE DEF OrderInv
  <1>0. pages \in Seq(Nat) /\ Len(pages) \in Nat \ {0}
          /\ \A p \in 1 .. Len(pages) : pages[p] \in Nat
    BY PagesAreSizes
  <1>1. ASSUME NEW c \in BOOLEAN, FetchInPage(c)
        PROVE  Stream!IsNext(visited, visited')
    <2>1. execs = 1 /\ cursor # None /\ pc # "join"
      BY <1>1 DEF FetchInPage, ReadRow
    <2>2. /\ cursor \in 1 .. Len(pages) /\ pages[cursor] \in Nat \ {0}
          /\ curPos \in 0 .. (pages[cursor] + 1)
      BY <1>0, <2>1 DEF OnPage, AtRow
    <2>3. visited' = <<cursor, curPos + 1>> /\ curPos + 1 <= pages[cursor]
      BY <1>1, <2>2 DEF FetchInPage, Increment, ReadRow
    <2>4. CASE curPos = 0
      <3>1. visited = <<0, 0>> /\ \A p \in 1 .. (cursor - 1) : pages[p] = 0
        BY <2>1, <2>4 DEF AtRow
      <3> QED
        BY <2>2, <2>3, <2>4, <3>1 DEF Stream!IsNext, Stream!PageConsumed
    <2>5. CASE curPos # 0
      <3>1. visited = <<cursor, curPos>>
        BY <2>1, <2>2, <2>3, <2>5 DEF AtRow
      <3> QED
        BY <2>2, <2>3, <2>5, <3>1 DEF Stream!IsNext, Stream!PageConsumed
    <2> QED
      BY <2>4, <2>5
  <1>2. ASSUME NEW c \in BOOLEAN, SwitchToLastPage(c)
        PROVE  Stream!IsNext(visited, visited')
    <2>1. execs = 1
      BY <1>2 DEF SwitchToLastPage, ReadRow
    <2>2. /\ cursor \in 1 .. Len(pages) /\ cursor + 1 \in 1 .. Len(pages)
          /\ Head(queue).page = cursor + 1 /\ pages[cursor] \in Nat \ {0}
          /\ visited = <<cursor, pages[cursor]>>
      BY <1>2, <2>1, OutcomeOfNextPage DEF SwitchToLastPage, SwitchTakes
    <2>3. visited' = <<cursor + 1, 1>> /\ pages[cursor + 1] > 0
      BY <1>2, <2>2 DEF SwitchToLastPage, ReadRow
    <2> QED
      BY <2>2, <2>3, <1>0 DEF Stream!IsNext, Stream!PageConsumed
  <1>3. ASSUME NEW c \in BOOLEAN, SwitchJoin(c)
        PROVE  Stream!IsNext(visited, visited')
    <2>1. execs = 1 /\ pc = "join"
      BY <1>3 DEF SwitchJoin, ReadRow
    <2>2. cursor # None /\ cursor > 1 /\ curPos = 1
            /\ visited = <<cursor - 1, pages[cursor - 1]>>
      BY <2>1 DEF AtRow
    <2>3. cursor \in 2 .. Len(pages) /\ pages[cursor] > 0
      BY <1>0, <2>1, <2>2 DEF OnPage
    <2>4. visited' = <<cursor, 1>>
      BY <1>3, <2>2 DEF SwitchJoin, ReadRow
    <2> QED
      BY <1>0, <2>2, <2>3, <2>4 DEF Stream!IsNext, Stream!PageConsumed
  <1>4. CASE Execute \/ ExecuteFails \/ ExecuteEmptyPage \/ ExecuteFirstPage
    BY <1>4 DEF Execute, ExecuteFails, ExecuteEmptyPage, ExecuteFirstPage
  <1>5. CASE FetchWithoutCursor \/ FetchAtEnd \/ FetchNextPage
    BY <1>5 DEF FetchWithoutCursor, FetchAtEnd, FetchNextPage
  <1>6. CASE SwitchSleep \/ SwitchToFailure \/ SwitchToEmptyPage \/ SwitchToPage
    BY <1>6 DEF SwitchSleep, SwitchToFailure, SwitchToEmptyPage, SwitchToPage
  <1>7. CASE Cancel \/ Close \/ Destroy \/ CloseJoin \/ CloseReset
    BY <1>7 DEF Cancel, Close, Destroy, CloseJoin, CloseReset
  <1>8. CASE GetMeta \/ MakeRequestResultsetMeta
    BY <1>8 DEF GetMeta, MakeRequestResultsetMeta
  <1>9. CASE \E t \in Threads : AsyncFetchOnePage(t)
    BY <1>9 DEF AsyncFetchOnePage, AsyncSend, AsyncReply, AsyncDeliver
  <1>10. CASE UNCHANGED vars
    BY <1>10 DEF vars
  <1> QED
    BY <1>1, <1>2, <1>3, <1>4, <1>5, <1>6, <1>7, <1>8, <1>9, <1>10
    DEF Next, AppStep, AppCall, Gone

\* The rows the first execution moves to (FetchNextRow and SwitchCursor) are
\* the first rows of the result, in order and each once, for every result the
\* service may hold, empty pages in the middle included, and whatever is
\* executed, cancelled or closed on the way.
THEOREM RowsVisitedInOrderHolds == Spec => RowsVisitedInOrder
  <1>1. TypeOK /\ ThreadInv /\ OrderInv /\ [Next]_vars
          => [turn' # turn /\ execs' = 1 => Stream!IsNext(visited, visited')]_vars
    BY VisitIsNext
  <1>2. Spec => [][turn' # turn /\ execs' = 1
                     => Stream!IsNext(visited, visited')]_vars
    BY <1>1, OrderInvHolds, TypeCorrect, ThreadInvHolds, PTL DEF Spec
  <1> QED
    BY <1>2 DEF RowsVisitedInOrder

-----------------------------------------------------------------------------
(* The end of the rows *)

\* Every step keeps EndInv.
LEMMA NextEndInv ==
  ASSUME NoEmptyContinuation, TypeOK, ThreadInv, OrderInv, EndInv, [Next]_vars
  PROVE  EndInv'
  <1> USE DEF EndInv
  <1>1. CASE Execute
    <2>1. execs \in Nat
      BY MaxExecsAssumption DEF TypeOK, AppType
    <2> QED
      BY <1>1, <2>1 DEF Execute, OrderInv, BeforeExecution
  <1>2. CASE ExecuteFails \/ ExecuteEmptyPage
    <2>1. CASE ExecuteFails
      BY <2>1 DEF ExecuteFails, BeginClose, HasToken
    <2>2. CASE ExecuteEmptyPage
      <3>1. execs < 2 => execs = 1 /\ cursor = None
        BY <2>2, MaxExecsAssumption
        DEF ExecuteEmptyPage, OrderInv, BeforeExecution, Executing, TypeOK,
            AppType
      <3> QED
        BY <2>2, <3>1 DEF ExecuteEmptyPage
    <2> QED
      BY <1>2, <2>1, <2>2
  <1>3. CASE ExecuteFirstPage
    BY <1>3 DEF ExecuteFirstPage, ExecuteQuery, Return
  <1>4. CASE FetchWithoutCursor
    BY <1>4 DEF FetchWithoutCursor, Return, HasToken
  <1>5. ASSUME NEW c \in BOOLEAN, FetchInPage(c) PROVE EndInv'
    <2>1. execs < 2 => ~ended
      <3>1. cursor \in 1 .. Len(pages)
        BY <1>5 DEF FetchInPage, TypeOK, QueryType
      <3>2. pages[cursor] \in Nat
        BY <3>1, PagesAreSizes
      <3> QED
        BY <1>5, <3>2 DEF FetchInPage, Increment
    <2> QED
      BY <1>5, <2>1 DEF FetchInPage, ReadRow, Return
  <1>6. CASE FetchAtEnd
    <2>1. execs < 2 => execs = 1 /\ curPos' = pages[cursor] + 1 /\ ~HasToken(cursor)
      <3>1. execs < 2 => execs = 1
        BY <1>6, MaxExecsAssumption
        DEF FetchAtEnd, OrderInv, BeforeExecution, TypeOK, AppType
      <3>2. ASSUME execs = 1
            PROVE  curPos' = pages[cursor] + 1 /\ ~HasToken(cursor)
        <4>1. /\ cursor \in 1 .. Len(pages) /\ pages[cursor] \in Nat
              /\ curPos \in 0 .. (pages[cursor] + 1) /\ ~HasToken(cursor)
          BY <1>6, <3>2, PagesAreSizes DEF FetchAtEnd, OrderInv, OnPage, AtRow
        <4> QED
          BY <1>6, <4>1 DEF FetchAtEnd, Increment
      <3> QED
        BY <3>1, <3>2
    <2> QED
      BY <1>6, <2>1 DEF FetchAtEnd, Return, HasToken
  <1>7. CASE FetchNextPage
    <2>1. execs < 2 => execs = 1
      BY <1>7, MaxExecsAssumption
      DEF FetchNextPage, OrderInv, BeforeExecution, TypeOK, AppType
    <2>2. execs = 1 => HasToken(cursor)
      BY <1>7 DEF FetchNextPage, OrderInv, OnPage
    <2> QED
      BY <1>7, <2>1, <2>2 DEF FetchNextPage
  <1>8. CASE SwitchSleep
    BY <1>8 DEF SwitchSleep, HasToken
  <1>9. CASE SwitchToFailure
    BY <1>9 DEF SwitchToFailure, SwitchTakes, Return, OrderInv, BeforeExecution
  <1>10. CASE SwitchToEmptyPage
    <2>1. execs < 2 => execs = 1
      BY <1>10, MaxExecsAssumption
      DEF SwitchToEmptyPage, SwitchTakes, OrderInv, BeforeExecution, TypeOK,
          AppType
    <2>2. execs = 1 => Head(queue).page = cursor + 1 /\ pages[cursor + 1] > 0
      BY <1>10, OutcomeOfNextPage, NextPageHasRows
      DEF SwitchToEmptyPage, SwitchTakes
    <2> QED
      BY <1>10, <2>1, <2>2 DEF SwitchToEmptyPage
  <1>11. ASSUME NEW c \in BOOLEAN, SwitchToLastPage(c) PROVE EndInv'
    BY <1>11 DEF SwitchToLastPage, SwitchTakes, ReadRow, Return
  <1>12. CASE SwitchToPage
    BY <1>12 DEF SwitchToPage, SwitchTakes
  <1>13. ASSUME NEW c \in BOOLEAN, SwitchJoin(c) PROVE EndInv'
    BY <1>13 DEF SwitchJoin, ReadRow, Return
  <1>14. CASE Cancel \/ Close \/ Destroy
    BY <1>14 DEF Cancel, Close, Destroy, BeginClose, Return, HasToken
  <1>15. CASE CloseJoin
    BY <1>15 DEF CloseJoin, HasToken
  <1>16. CASE CloseReset
    BY <1>16 DEF CloseReset, AfterClose, OrderInv, ClosedForGood, TypeOK,
            AppType, ContSet
  <1>17. CASE GetMeta \/ MakeRequestResultsetMeta
    BY <1>17 DEF GetMeta, MakeRequestResultsetMeta, Return, BeginClose, HasToken
  <1>18. CASE \E t \in Threads : AsyncFetchOnePage(t)
    BY <1>18 DEF AsyncFetchOnePage, AsyncSend, AsyncReply, AsyncDeliver, HasToken
  <1>19. CASE UNCHANGED vars
    BY <1>19 DEF vars, HasToken
  <1> QED
    BY <1>1, <1>2, <1>3, <1>4, <1>5, <1>6, <1>7, <1>8, <1>9, <1>10, <1>11,
       <1>12, <1>13, <1>14, <1>15, <1>16, <1>17, <1>18, <1>19
    DEF Next, AppStep, AppCall, Gone

\* EndInv holds always.
LEMMA EndInvHolds ==
  ASSUME NoEmptyContinuation
  PROVE  Spec => []EndInv
  <1>1. Init => EndInv
    BY DEF Init, EndInv
  <1>2. TypeOK /\ ThreadInv /\ OrderInv /\ EndInv /\ [Next]_vars => EndInv'
    BY NextEndInv
  <1> QED
    BY <1>1, <1>2, OrderInvHolds, TypeCorrect, ThreadInvHolds, PTL DEF Spec

-----------------------------------------------------------------------------
(* The implementation *)

\* A fresh query is a closed stream.
LEMMA InitStream == Init => Stream!Init
  <1> SUFFICES ASSUME Init PROVE Stream!Init
    OBVIOUS
  <1>1. pages \in Seq(Nat)
    BY ShapesAssumption DEF Init
  <1> QED
    BY <1>1 DEF Init, Stream!Init, Stream!Start, Phase

\* Every step of the query is a step of the stream or leaves it alone.
LEMMA NextStream ==
  ASSUME ExecutedOnce, NoEmptyContinuation, TypeOK, ThreadInv, OrderInv,
         EndInv, [Next]_vars
  PROVE  [Stream!Next]_(Stream!vars)
  <1> USE DEF Stream!vars, Phase
  <1>0. pages \in Seq(Nat) /\ Len(pages) \in Nat \ {0}
          /\ \A p \in 1 .. Len(pages) : pages[p] \in Nat
    BY PagesAreSizes
  <1>a. /\ execs \in {0, 1} /\ turn \in {0, 1}
        /\ execs = 0 => cursor = None /\ pc \notin {"execute", "switch", "join"}
    BY DEF ExecutedOnce, TypeOK, AppType, OrderInv, BeforeExecution
  <1>1. CASE Execute
    <2>1. execs = 0 /\ visited = Start
      BY <1>1, <1>a DEF Execute, ExecutedOnce, OrderInv, BeforeExecution
    <2> QED
      BY <1>1, <1>a, <2>1 DEF Execute
  <1>2. CASE ExecuteFails
    BY <1>2 DEF ExecuteFails
  <1>3. CASE ExecuteEmptyPage
    BY <1>3 DEF ExecuteEmptyPage
  <1>4. CASE ExecuteFirstPage
    <2>1. /\ execs = 1 /\ cursor = None /\ visited = Start /\ ~ended
          /\ request \in 1 .. Len(pages)
      BY <1>4, <1>a DEF ExecuteFirstPage, OrderInv, Executing, EndInv
    <2>2. Phase = "closed" /\ Phase' = "open" /\ visited' = Start
      BY <1>4, <1>0, <2>1 DEF ExecuteFirstPage, ExecuteQuery
    <2> QED
      BY <1>4, <2>2 DEF ExecuteFirstPage, Stream!Next, Stream!Open, Stream!Start
  <1>5. CASE FetchWithoutCursor
    BY <1>5 DEF FetchWithoutCursor
  <1>6. ASSUME NEW c \in BOOLEAN, FetchInPage(c)
        PROVE  [Stream!Next]_(Stream!vars)
    <2>1. /\ cursor # None /\ execs' = 1 /\ cursor' = cursor /\ ended' = ended
          /\ turn' = 1 - turn /\ pages' = pages
      BY <1>6, <1>a DEF FetchInPage, ReadRow
    <2>2. ~ended
      <3>1. curPos \in Nat /\ pages[cursor] \in Nat
        BY <1>0, <2>1 DEF TypeOK, QueryType
      <3> QED
        BY <1>6, <1>a, <2>1, <3>1 DEF FetchInPage, Increment, EndInv
    <2>3. Stream!IsNext(visited, visited')
      BY <1>a, <2>1, VisitIsNext
    <2> QED
      BY <2>1, <2>2, <2>3 DEF Stream!Next, Stream!Visit
  <1>7. CASE FetchAtEnd
    <2>0. execs = 1 /\ cursor # None /\ pc = "idle"
      BY <1>7, <1>a DEF FetchAtEnd
    <2>1. /\ cursor = Len(pages) /\ pages[cursor] \in Nat \ {0}
          /\ cursor' = cursor
      BY <1>0, <1>7, <2>0 DEF FetchAtEnd, OrderInv, OnPage, HasToken
    <2>2. visited = <<cursor, pages[cursor]>>
      BY <1>0, <1>7, <2>0, <2>1 DEF FetchAtEnd, Increment, OrderInv, AtRow
    <2>3. Stream!IsLast(visited)
      BY <2>1, <2>2, <1>0 DEF Stream!IsLast, Stream!PageConsumed
    <2> QED
      BY <1>7, <2>1, <2>3 DEF FetchAtEnd, Stream!Next, Stream!End
  <1>8. CASE FetchNextPage
    BY <1>8 DEF FetchNextPage
  <1>9. CASE SwitchSleep
    BY <1>9 DEF SwitchSleep
  <1>10. CASE SwitchToFailure
    <2>1. cursor # None
      BY <1>10, <1>a DEF SwitchToFailure, SwitchTakes, OrderInv, AtRow
    <2> QED
      BY <1>10, <2>1
      DEF SwitchToFailure, SwitchTakes, Stream!Next, Stream!Close
  <1>11. CASE SwitchToEmptyPage
    <2>1. Head(queue).page = cursor + 1 /\ pages[cursor + 1] > 0
      BY <1>11, <1>a, OutcomeOfNextPage, NextPageHasRows
      DEF SwitchToEmptyPage, SwitchTakes
    <2> QED
      BY <1>11, <2>1 DEF SwitchToEmptyPage
  <1>12. ASSUME NEW c \in BOOLEAN, SwitchToLastPage(c)
        PROVE  [Stream!Next]_(Stream!vars)
    <2>0. execs = 1 /\ pc = "switch" /\ queue # <<>>
      BY <1>12, <1>a DEF SwitchToLastPage, SwitchTakes
    <2>1. cursor \in 1 .. Len(pages) /\ Head(queue).page = cursor + 1
      BY <2>0, OutcomeOfNextPage
    <2>2. /\ cursor # None /\ cursor' # None /\ execs' = 1 /\ ~ended
          /\ ended' = ended /\ turn' = 1 - turn /\ pages' = pages
      BY <1>12, <1>a, <2>0, <2>1
      DEF SwitchToLastPage, SwitchTakes, ReadRow, EndInv
    <2>3. Stream!IsNext(visited, visited')
      BY <1>a, <2>2, VisitIsNext
    <2> QED
      BY <2>2, <2>3 DEF Stream!Next, Stream!Visit
  <1>13. CASE SwitchToPage
    <2>1. cursor # None /\ cursor' # None
      BY <1>13, <1>a, FrontOutcome
      DEF SwitchToPage, SwitchTakes, OrderInv, AtRow, TypeOK
    <2> QED
      BY <1>13, <2>1 DEF SwitchToPage, SwitchTakes
  <1>14. ASSUME NEW c \in BOOLEAN, SwitchJoin(c)
        PROVE  [Stream!Next]_(Stream!vars)
    <2>1. execs = 1 /\ pc = "join" /\ cursor # None /\ ~ended
      BY <1>14, <1>a DEF SwitchJoin, OrderInv, AtRow, EndInv
    <2>2. /\ cursor' = cursor /\ execs' = 1 /\ ended' = ended /\ turn' = 1 - turn
          /\ pages' = pages
      BY <1>14, <1>a, <2>1 DEF SwitchJoin, ReadRow
    <2>3. Stream!IsNext(visited, visited')
      BY <1>a, <2>2, VisitIsNext
    <2> QED
      BY <2>1, <2>2, <2>3 DEF Stream!Next, Stream!Visit
  <1>15. CASE Cancel
    BY <1>15 DEF Cancel
  <1>16. CASE Close
    BY <1>16 DEF Close
  <1>17. CASE Destroy
    BY <1>17 DEF Destroy
  <1>18. CASE CloseJoin
    BY <1>18 DEF CloseJoin
  <1>19. CASE CloseReset
    BY <1>19 DEF CloseReset, Stream!Next, Stream!Close
  <1>20. CASE GetMeta
    BY <1>20 DEF GetMeta
  <1>21. CASE MakeRequestResultsetMeta
    BY <1>21 DEF MakeRequestResultsetMeta
  <1>22. ASSUME NEW t \in Threads, AsyncSend(t)
        PROVE  [Stream!Next]_(Stream!vars)
    BY <1>22 DEF AsyncSend
  <1>23. ASSUME NEW t \in Threads, AsyncReply(t)
        PROVE  [Stream!Next]_(Stream!vars)
    BY <1>23 DEF AsyncReply
  <1>24. ASSUME NEW t \in Threads, AsyncDeliver(t)
        PROVE  [Stream!Next]_(Stream!vars)
    BY <1>24 DEF AsyncDeliver
  <1>25. CASE UNCHANGED vars
    BY <1>25 DEF vars
  <1> QED
    BY <1>1, <1>2, <1>3, <1>4, <1>5, <1>6, <1>7, <1>8, <1>9, <1>10, <1>11,
       <1>12, <1>13, <1>14, <1>15, <1>16, <1>17, <1>18, <1>19, <1>20, <1>21,
       <1>22, <1>23, <1>24, <1>25
    DEF Next, AppStep, AppCall, AsyncFetchOnePage, Gone

\* A query executed once over a result without empty continuation pages
\* implements the result stream, for every such result.
THEOREM ImplementsResultStream ==
  ASSUME ExecutedOnce, NoEmptyContinuation
  PROVE  Spec => StreamSpec
  <1>1. TypeOK /\ ThreadInv /\ OrderInv /\ EndInv /\ [Next]_vars
          => [Stream!Next]_(Stream!vars)
    BY NextStream
  <1> QED
    BY <1>1, InitStream, OrderInvHolds, EndInvHolds, TypeCorrect,
       ThreadInvHolds, PTL
    DEF Spec, StreamSpec, Stream!Spec

=============================================================================
