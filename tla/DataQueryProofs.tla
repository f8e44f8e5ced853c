--------------------------- MODULE DataQueryProofs ---------------------------
(***************************************************************************)
(* Proofs about DataQuery, for every set of results, of thread identities  *)
(* and every number of executions.                                         *)
(***************************************************************************)
EXTENDS DataQuery, TLAPS

USE DEF None, Start, service, query, place, context, workers, app, history

\* The front of a queue, what is left of it, and what is appended to it.
LEMMA FrontOfQueue ==
  ASSUME NEW S, NEW s \in Seq(S), s # <<>>
  PROVE  Head(s) \in S /\ Tail(s) \in Seq(S)
  OBVIOUS

\* The outcome SwitchCursor takes is of a page of the result.
LEMMA FrontOutcome ==
  ASSUME QueryType, queue # <<>>
  PROVE  /\ Head(queue).page \in 1 .. Len(pages)
         /\ Tail(queue) \in Seq(Outcome)
  <1>1. queue \in Seq(Outcome)
    BY DEF QueryType
  <1>2. Head(queue) \in Outcome /\ Tail(queue) \in Seq(Outcome)
    BY <1>1, FrontOfQueue
  <1> QED
    BY <1>2 DEF Outcome

\* Starting a thread keeps the types of the thread objects.
LEMMA StartThreadType ==
  ASSUME WorkersType, NEW ts \in Seq(Threads), NEW tp \in [Threads -> TpcSet],
         StartThread(ts, tp), pages' = pages
  PROVE  WorkersType'
  <1> USE DEF WorkersType, StartThread
  <1>1. threads' \in Seq(Threads)
    OBVIOUS
  <1>2. tpc' \in [Threads -> TpcSet]
    BY DEF TpcSet
  <1>3. tdata' \in [Threads -> Outcome']
    BY DEF Outcome
  <1> QED
    BY <1>1, <1>2, <1>3

\* The constructor of DataQuery establishes the type invariant.
LEMMA InitTypeOK == Init => TypeOK
  <1> SUFFICES ASSUME Init PROVE TypeOK
    OBVIOUS
  <1> USE DEF Init
  <1>0. Len(pages) \in Nat \ {0}
    <2>1. pages \in Seq(Nat) /\ pages # <<>>
      BY ShapesAssumption
    <2> QED
      BY <2>1
  <1>1. QueryType
    BY <1>0 DEF QueryType
  <1>2. FlagsType
    BY DEF FlagsType
  <1>3. WorkersType
    BY <1>0 DEF WorkersType, TpcSet, Outcome
  <1>4. AppType
    BY MaxExecsAssumption DEF AppType, PcSet, ContSet, RetSet
  <1> QED
    BY <1>1, <1>2, <1>3, <1>4 DEF TypeOK

\* Every step keeps the type invariant.  The steps over BOOLEAN variables and
\* those over numbers and sequences are proved apart.
LEMMA NextTypeOK == TypeOK /\ [Next]_vars => TypeOK'
  <1> SUFFICES ASSUME TypeOK, [Next]_vars PROVE TypeOK'
    OBVIOUS
  <1> USE MaxExecsAssumption DEF TypeOK, Outcome
  <1>1. CASE Execute
    <2> USE <1>1 DEF Execute, BeginClose
    <2>1. QueryType'
      BY DEF FlagsType, WorkersType, AppType, QueryType
    <2>2. FlagsType'
      BY DEF QueryType, WorkersType, AppType, FlagsType
    <2>3. WorkersType'
      BY DEF QueryType, FlagsType, AppType, WorkersType, TpcSet
    <2>4. AppType'
      BY DEF QueryType, FlagsType, WorkersType, AppType, PcSet, ContSet, RetSet
    <2> QED
      BY <2>1, <2>2, <2>3, <2>4
  <1>2. CASE ExecuteFails
    BY <1>2
    DEF ExecuteFails, BeginClose, QueryType, FlagsType, WorkersType, AppType,
        PcSet, ContSet, RetSet, TpcSet
  <1>3. CASE ExecuteEmptyPage
    <2> USE <1>3 DEF ExecuteEmptyPage, Return, ExecuteQuery, HasToken
    <2>1. QueryType'
      BY DEF QueryType
    <2>2. FlagsType'
      BY DEF FlagsType
    <2>3. WorkersType'
      BY DEF WorkersType
    <2>4. AppType'
      BY DEF AppType, PcSet, ContSet, RetSet
    <2> QED
      BY <2>1, <2>2, <2>3, <2>4
  <1>4. CASE ExecuteFirstPage
    <2>1. QueryType'
      <3>1. /\ UNCHANGED <<pages, rowCounter, queue>>
            /\ pc' = "idle" /\ curPos' = 0
        BY <1>4 DEF ExecuteFirstPage, Return, service, context
      <3>2. /\ result' = request /\ cursor' = request
            /\ request' \in {request, request + 1}
            /\ request' = request + 1 => request < Len(pages)
        BY <1>4 DEF ExecuteFirstPage, ExecuteQuery, HasToken, QueryType
      <3>3. request \in 1 .. Len(pages) /\ Len(pages) \in Nat
        BY DEF QueryType
      <3> QED
        BY <3>1, <3>2, <3>3 DEF QueryType
    <2>2. FlagsType'
      BY <1>4 DEF ExecuteFirstPage, ReadColumnMetadataVector, FlagsType
    <2>3. WorkersType'
      BY <1>4, StartThreadType
      DEF ExecuteFirstPage, StartThread, WorkersType
    <2>4. AppType'
      BY <1>4
      DEF ExecuteFirstPage, Return, AppType, PcSet, ContSet, RetSet
    <2> QED
      BY <2>1, <2>2, <2>3, <2>4
  <1>5. CASE FetchWithoutCursor
    BY <1>5
    DEF FetchWithoutCursor, Return, QueryType, FlagsType, WorkersType, AppType,
        PcSet, ContSet, RetSet, TpcSet
  <1>6. ASSUME NEW c \in BOOLEAN, FetchInPage(c) PROVE TypeOK'
    <2> USE <1>6 DEF FetchInPage, ReadRow, Return, Increment
    <2>1. QueryType'
      BY DEF QueryType
    <2>2. FlagsType'
      BY DEF FlagsType
    <2>3. WorkersType'
      BY DEF WorkersType
    <2>4. AppType'
      BY SMTT(30) DEF QueryType, AppType, PcSet, ContSet, RetSet
    <2> QED
      BY <2>1, <2>2, <2>3, <2>4
  <1>7. CASE FetchAtEnd
    BY <1>7
    DEF FetchAtEnd, Return, Increment, QueryType, FlagsType, WorkersType,
        AppType,
        PcSet, ContSet, RetSet, TpcSet
  <1>8. CASE FetchNextPage
    BY <1>8
    DEF FetchNextPage, Increment, QueryType, FlagsType, WorkersType, AppType,
        PcSet, ContSet, RetSet, TpcSet
  <1>9. CASE SwitchSleep
    BY <1>9
    DEF SwitchSleep, QueryType, FlagsType, WorkersType, AppType,
        PcSet, ContSet, RetSet, TpcSet
  <1>10. CASE SwitchToFailure
    <2> USE <1>10 DEF SwitchToFailure, SwitchTakes, Return
    <2>1. QueryType'
      BY FrontOutcome DEF QueryType
    <2>2. FlagsType'
      BY DEF QueryType, WorkersType, AppType, FlagsType
    <2>3. WorkersType'
      BY DEF QueryType, FlagsType, AppType, WorkersType, TpcSet
    <2>4. AppType'
      BY DEF QueryType, FlagsType, WorkersType, AppType, PcSet, ContSet, RetSet
    <2> QED
      BY <2>1, <2>2, <2>3, <2>4
  <1>11. CASE SwitchToEmptyPage
    <2> USE <1>11 DEF SwitchToEmptyPage, SwitchTakes, Return
    <2>1. QueryType'
      BY FrontOutcome DEF QueryType
    <2>2. FlagsType'
      BY DEF QueryType, WorkersType, AppType, FlagsType
    <2>3. WorkersType'
      BY DEF QueryType, FlagsType, AppType, WorkersType, TpcSet
    <2>4. AppType'
      BY DEF QueryType, FlagsType, WorkersType, AppType, PcSet, ContSet, RetSet
    <2> QED
      BY <2>1, <2>2, <2>3, <2>4
  <1>12. ASSUME NEW c \in BOOLEAN, SwitchToLastPage(c) PROVE TypeOK'
    <2> USE <1>12 DEF SwitchToLastPage, SwitchTakes, ReadRow, Return
    <2>1. QueryType'
      BY FrontOutcome, SMTT(30) DEF QueryType
    <2>2. FlagsType'
      BY DEF QueryType, WorkersType, AppType, FlagsType
    <2>3. WorkersType'
      BY DEF QueryType, FlagsType, AppType, WorkersType, TpcSet
    <2>4. AppType'
      <3>1. Head(queue).page \in 1 .. Len(pages)
        BY FrontOutcome
      <3> QED
        BY <3>1 DEF AppType, PcSet, ContSet, RetSet
    <2> QED
      BY <2>1, <2>2, <2>3, <2>4
  <1>13. CASE SwitchToPage
    <2> USE <1>13 DEF SwitchToPage, SwitchTakes
    <2>1. QueryType'
      BY FrontOutcome DEF QueryType, HasToken
    <2>2. FlagsType'
      BY DEF QueryType, WorkersType, AppType, FlagsType
    <2>3. WorkersType'
      BY DEF QueryType, FlagsType, AppType, WorkersType, TpcSet
    <2>4. AppType'
      BY DEF QueryType, FlagsType, WorkersType, AppType, PcSet, ContSet, RetSet
    <2> QED
      BY <2>1, <2>2, <2>3, <2>4
  <1>14. ASSUME NEW c \in BOOLEAN, SwitchJoin(c) PROVE TypeOK'
    <2> USE <1>14 DEF SwitchJoin, StartThread, ReadRow, Return
    <2>1. QueryType'
      BY DEF QueryType, HasToken
    <2>2. FlagsType'
      BY DEF QueryType, WorkersType, AppType, FlagsType
    <2>3. WorkersType'
      <3>1. threads # <<>> => Tail(threads) \in Seq(Threads)
        BY FrontOfQueue DEF WorkersType
      <3>2. threads # <<>>
              => [tpc EXCEPT ![Head(threads)] = "none"] \in [Threads -> TpcSet]
        BY FrontOfQueue DEF WorkersType, TpcSet
      <3> QED
        BY <3>1, <3>2, StartThreadType DEF WorkersType
    <2>4. AppType'
      <3>1. <<cursor, curPos>> \in Nat \X Nat
        BY DEF QueryType
      <3> QED
        BY <3>1 DEF AppType, PcSet, ContSet, RetSet
    <2> QED
      BY <2>1, <2>2, <2>3, <2>4
  <1>15. CASE Cancel
    BY <1>15
    DEF Cancel, Return, BeginClose, QueryType, FlagsType, WorkersType, AppType,
        PcSet, ContSet, RetSet, TpcSet
  <1>16. CASE Close
    BY <1>16
    DEF Close, BeginClose, QueryType, FlagsType, WorkersType, AppType,
        PcSet, ContSet, RetSet, TpcSet
  <1>17. CASE Destroy
    BY <1>17
    DEF Destroy, BeginClose, QueryType, FlagsType, WorkersType, AppType,
        PcSet, ContSet, RetSet, TpcSet
  <1>18. CASE CloseJoin
    BY <1>18
    DEF CloseJoin, QueryType, FlagsType, WorkersType, AppType,
        PcSet, ContSet, RetSet, TpcSet
  <1>19. CASE CloseReset
    <2> USE <1>19 DEF CloseReset, AfterClose
    <2>1. QueryType'
      BY DEF QueryType, AppType, ContSet
    <2>2. FlagsType'
      BY DEF QueryType, WorkersType, AppType, FlagsType
    <2>3. WorkersType'
      BY DEF QueryType, FlagsType, AppType, WorkersType, TpcSet
    <2>4. AppType'
      BY DEF QueryType, FlagsType, WorkersType, AppType, PcSet, ContSet, RetSet
    <2> QED
      BY <2>1, <2>2, <2>3, <2>4
  <1>20. CASE GetMeta
    BY <1>20
    DEF GetMeta, QueryType, FlagsType, WorkersType, AppType,
        PcSet, ContSet, RetSet, TpcSet
  <1>21. CASE MakeRequestResultsetMeta
    <2> USE <1>21
        DEF MakeRequestResultsetMeta, ReadColumnMetadataVector, Return,
            BeginClose, ExecuteQuery
    <2>1. QueryType'
      BY DEF FlagsType, WorkersType, AppType, QueryType
    <2>2. FlagsType'
      BY DEF QueryType, WorkersType, AppType, FlagsType
    <2>3. WorkersType'
      BY DEF QueryType, FlagsType, AppType, WorkersType, TpcSet
    <2>4. AppType'
      BY DEF QueryType, FlagsType, WorkersType, AppType, PcSet, ContSet, RetSet
    <2> QED
      BY <2>1, <2>2, <2>3, <2>4
  <1>22. ASSUME NEW t \in Threads, AsyncSend(t) PROVE TypeOK'
    <2> USE <1>22 DEF AsyncSend
    <2>1. QueryType'
      BY DEF QueryType, HasToken
    <2>2. FlagsType'
      BY DEF QueryType, WorkersType, AppType, FlagsType
    <2>3. WorkersType'
      BY DEF QueryType, FlagsType, AppType, WorkersType, TpcSet
    <2>4. AppType'
      BY DEF QueryType, FlagsType, WorkersType, AppType, PcSet, ContSet, RetSet
    <2> QED
      BY <2>1, <2>2, <2>3, <2>4
  <1>23. ASSUME NEW t \in Threads, AsyncReply(t) PROVE TypeOK'
    <2> USE <1>23 DEF AsyncReply, ExecuteQuery
    <2>1. QueryType'
      BY DEF QueryType, HasToken
    <2>2. FlagsType'
      BY DEF QueryType, WorkersType, AppType, FlagsType
    <2>3. WorkersType'
      BY DEF QueryType, FlagsType, AppType, WorkersType, TpcSet
    <2>4. AppType'
      BY DEF QueryType, FlagsType, WorkersType, AppType, PcSet, ContSet, RetSet
    <2> QED
      BY <2>1, <2>2, <2>3, <2>4
  <1>24. ASSUME NEW t \in Threads, AsyncDeliver(t) PROVE TypeOK'
    <2> USE <1>24 DEF AsyncDeliver
    <2>1. QueryType'
      <3>1. <<tdata[t]>> \in Seq(Outcome)
        BY DEF WorkersType
      <3> QED
        BY <3>1 DEF QueryType, HasToken
    <2>2. FlagsType'
      BY DEF QueryType, WorkersType, AppType, FlagsType
    <2>3. WorkersType'
      BY DEF QueryType, FlagsType, AppType, WorkersType, TpcSet
    <2>4. AppType'
      BY DEF QueryType, FlagsType, WorkersType, AppType, PcSet, ContSet, RetSet
    <2> QED
      BY <2>1, <2>2, <2>3, <2>4
  <1>25. CASE UNCHANGED vars
    BY <1>25 DEF vars, QueryType, FlagsType, WorkersType, AppType, HasToken
  <1> QED
    BY <1>1, <1>2, <1>3, <1>4, <1>5, <1>6, <1>7, <1>8, <1>9, <1>10, <1>11,
       <1>12, <1>13, <1>14, <1>15, <1>16, <1>17, <1>18, <1>19, <1>20, <1>21,
       <1>22, <1>23, <1>24, <1>25
    DEF Next, AppStep, AppCall, AsyncFetchOnePage, Gone

\* Every state of the query, its fetch threads and the application is
\* well-typed; in particular request_ always asks for a page the service has.
THEOREM TypeCorrect == Spec => []TypeOK
  BY InitTypeOK, NextTypeOK, PTL DEF Spec

-----------------------------------------------------------------------------
(* The inductive invariant behind the properties of the fetch thread. *)

\* threads_ holds the only thread there is, or there is none.
ThreadObjects ==
  /\ threads = <<>> \/ \E t \in Threads : threads = <<t>>
  /\ \A t \in Threads : tpc[t] # "none" <=> threads = <<t>>

\* A thread exists only while a result is held, and none while executing.
ThreadNeedsResult ==
  /\ result = None => threads = <<>>
  /\ pc \in {"execute", "gone"} => threads = <<>>
  /\ pc \in {"switch", "join"} => result # None
  /\ cursor # None => result # None

Quiet == \A t \in Threads : tpc[t] \in {"none", "done"}

\* Until the first close the queue and the thread take turns: an outcome is
\* queued only when the thread that fetched it is done, and it is taken
\* before the next thread starts.
TakeTurns ==
  ~isClosing => /\ queue # <<>> => Quiet
                /\ threads = <<>> => queue = <<>>
                /\ pc = "join" => queue = <<>> /\ Quiet

\* The queue holds one outcome at most (data_query.cpp:124), and a close in
\* progress has been announced.
QueueHoldsOne == queue # <<>> => queue = <<Head(queue)>>
CloseAnnounced == pc = "close" => isClosing

ThreadInv == /\ ThreadObjects /\ ThreadNeedsResult /\ TakeTurns
             /\ QueueHoldsOne /\ CloseAnnounced

\* The constructor of DataQuery establishes the thread invariant.
LEMMA InitThreadInv == Init => ThreadInv
  BY DEF Init, ThreadInv, ThreadObjects, ThreadNeedsResult, TakeTurns,
         QueueHoldsOne, CloseAnnounced

\* A thread started when there is none is the only one.
LEMMA StartThreadAlone ==
  ASSUME NEW tp \in [Threads -> TpcSet], \A t \in Threads : tp[t] = "none",
         StartThread(<<>>, tp)
  PROVE  ThreadObjects'
  BY DEF StartThread, ThreadObjects

\* The thread threads_ holds is the only one, so popping it leaves none.
LEMMA PopThread ==
  ASSUME WorkersType, ThreadObjects, threads # <<>>
  PROVE  LET tp == [tpc EXCEPT ![Head(threads)] = "none"]
         IN  /\ Head(threads) \in Threads
             /\ Tail(threads) = <<>>
             /\ tp \in [Threads -> TpcSet]
             /\ \A t \in Threads : tp[t] = "none"
  <1>1. PICK h \in Threads : threads = <<h>>
    BY DEF ThreadObjects
  <1>2. Head(threads) = h /\ Tail(threads) = <<>>
    BY <1>1
  <1>3. \A t \in Threads : t # h => tpc[t] = "none"
    BY <1>1 DEF ThreadObjects
  <1> QED
    BY <1>2, <1>3 DEF WorkersType, TpcSet

\* The queue is empty once its only outcome is taken.
LEMMA QueueEmptied ==
  ASSUME QueueHoldsOne, queue # <<>>
  PROVE  Tail(queue) = <<>>
  <1>1. PICK h : queue = <<h>>
    BY DEF QueueHoldsOne
  <1> QED
    BY <1>1

\* Every step keeps the thread invariant.
LEMMA NextThreadInv == TypeOK /\ ThreadInv /\ [Next]_vars => ThreadInv'
  <1> SUFFICES ASSUME TypeOK, ThreadInv, [Next]_vars PROVE ThreadInv'
    OBVIOUS
  <1> USE DEF ThreadInv
  <1>1. CASE Execute
    BY <1>1
    DEF Execute, BeginClose, ThreadObjects, ThreadNeedsResult,
        TakeTurns, Quiet, QueueHoldsOne, CloseAnnounced
  <1>2. CASE ExecuteFails
    BY <1>2
    DEF ExecuteFails, BeginClose, ThreadObjects, ThreadNeedsResult,
        TakeTurns, Quiet, QueueHoldsOne, CloseAnnounced
  <1>3. CASE ExecuteEmptyPage
    <2>1. result' # None
      BY <1>3 DEF ExecuteEmptyPage, ExecuteQuery, TypeOK, QueryType
    <2> QED
      BY <1>3, <2>1
    DEF ExecuteEmptyPage, Return, ExecuteQuery, HasToken, ThreadObjects,
        ThreadNeedsResult,
        TakeTurns, Quiet, QueueHoldsOne, CloseAnnounced
  <1>4. CASE ExecuteFirstPage
    <2> USE <1>4, TypeOK DEF ExecuteFirstPage, Return, ExecuteQuery, HasToken
    <2>1. ThreadObjects'
      <3>1. threads = <<>> /\ tpc \in [Threads -> TpcSet]
          /\ \A t \in Threads : tpc[t] = "none"
        BY DEF ThreadNeedsResult, ThreadObjects, TypeOK, WorkersType
      <3>2. StartThread(<<>>, tpc) \/ UNCHANGED <<threads, tpc>>
        BY <3>1
      <3>3. CASE StartThread(<<>>, tpc)
        BY <3>1, <3>3, StartThreadAlone
      <3>4. CASE UNCHANGED <<threads, tpc>>
        BY <3>4 DEF ThreadObjects
      <3> QED
        BY <3>2, <3>3, <3>4
    <2>2. ThreadNeedsResult'
      BY DEF ThreadNeedsResult, ThreadObjects, TypeOK, WorkersType, AppType,
         QueryType
    <2>3. TakeTurns'
      BY DEF TakeTurns, ThreadObjects, ThreadNeedsResult, TypeOK, WorkersType,
         AppType, QueryType, Quiet
    <2>4. QueueHoldsOne'
      BY DEF QueueHoldsOne, ThreadObjects, ThreadNeedsResult, TypeOK,
         WorkersType, AppType, QueryType
    <2>5. CloseAnnounced'
      BY DEF CloseAnnounced
    <2> QED
      BY <2>1, <2>2, <2>3, <2>4, <2>5
  <1>5. CASE FetchWithoutCursor
    BY <1>5
    DEF FetchWithoutCursor, Return, ThreadObjects, ThreadNeedsResult,
        TakeTurns, Quiet, QueueHoldsOne, CloseAnnounced
  <1>6. ASSUME NEW c \in BOOLEAN, FetchInPage(c) PROVE ThreadInv'
    BY <1>6
    DEF FetchInPage, ReadRow, Return, ThreadObjects, ThreadNeedsResult,
        TakeTurns, Quiet, QueueHoldsOne, CloseAnnounced
  <1>7. CASE FetchAtEnd
    BY <1>7
    DEF FetchAtEnd, Return, ThreadObjects, ThreadNeedsResult,
        TakeTurns, Quiet, QueueHoldsOne, CloseAnnounced
  <1>8. CASE FetchNextPage
    BY <1>8
    DEF FetchNextPage, ThreadObjects, ThreadNeedsResult,
        TakeTurns, Quiet, QueueHoldsOne, CloseAnnounced
  <1>9. CASE SwitchSleep
    BY <1>9
    DEF SwitchSleep, ThreadObjects, ThreadNeedsResult,
        TakeTurns, Quiet, QueueHoldsOne, CloseAnnounced
  <1>10. CASE SwitchToFailure
    <2> USE <1>10, TypeOK DEF SwitchToFailure, SwitchTakes, Return
    <2>1. ThreadObjects'
      BY DEF ThreadObjects
    <2>2. ThreadNeedsResult'
      BY DEF ThreadNeedsResult, ThreadObjects, TypeOK, WorkersType, AppType,
         QueryType
    <2>3. TakeTurns'
      BY DEF TakeTurns, ThreadObjects, ThreadNeedsResult, TypeOK, WorkersType,
         AppType, QueryType, Quiet
    <2>4. QueueHoldsOne'
      BY QueueEmptied DEF QueueHoldsOne
    <2>5. CloseAnnounced'
      BY DEF CloseAnnounced
    <2> QED
      BY <2>1, <2>2, <2>3, <2>4, <2>5
  <1>11. CASE SwitchToEmptyPage
    <2> USE <1>11, TypeOK DEF SwitchToEmptyPage, SwitchTakes, Return
    <2>1. ThreadObjects'
      BY DEF ThreadObjects
    <2>2. ThreadNeedsResult'
      BY FrontOutcome DEF ThreadNeedsResult, TypeOK
    <2>3. TakeTurns'
      BY DEF TakeTurns, ThreadObjects, ThreadNeedsResult, TypeOK, WorkersType,
         AppType, QueryType, Quiet
    <2>4. QueueHoldsOne'
      BY QueueEmptied DEF QueueHoldsOne
    <2>5. CloseAnnounced'
      BY DEF CloseAnnounced
    <2> QED
      BY <2>1, <2>2, <2>3, <2>4, <2>5
  <1>12. ASSUME NEW c \in BOOLEAN, SwitchToLastPage(c) PROVE ThreadInv'
    <2> USE <1>12, TypeOK DEF SwitchToLastPage, SwitchTakes, ReadRow, Return
    <2>1. ThreadObjects'
      BY DEF ThreadObjects
    <2>2. ThreadNeedsResult'
      BY FrontOutcome DEF ThreadNeedsResult, TypeOK
    <2>3. TakeTurns'
      BY DEF TakeTurns, ThreadObjects, ThreadNeedsResult, TypeOK, WorkersType,
         AppType, QueryType, Quiet
    <2>4. QueueHoldsOne'
      BY QueueEmptied DEF QueueHoldsOne
    <2>5. CloseAnnounced'
      BY DEF CloseAnnounced
    <2> QED
      BY <2>1, <2>2, <2>3, <2>4, <2>5
  <1>13. CASE SwitchToPage
    <2> USE <1>13, TypeOK DEF SwitchToPage, SwitchTakes
    <2>1. ThreadObjects'
      BY DEF ThreadObjects
    <2>2. ThreadNeedsResult'
      BY FrontOutcome DEF ThreadNeedsResult, TypeOK
    <2>3. TakeTurns'
      BY DEF TakeTurns, QueueHoldsOne, Quiet
    <2>4. QueueHoldsOne'
      BY QueueEmptied DEF QueueHoldsOne
    <2>5. CloseAnnounced'
      BY DEF CloseAnnounced
    <2> QED
      BY <2>1, <2>2, <2>3, <2>4, <2>5
  <1>14. ASSUME NEW c \in BOOLEAN, SwitchJoin(c) PROVE ThreadInv'
    <2> USE <1>14, TypeOK DEF SwitchJoin, ReadRow, Return
    <2>1. ThreadObjects'
      <3>1. CASE threads = <<>>
        BY <3>1, StartThreadAlone DEF TypeOK, WorkersType, ThreadObjects
      <3>2. CASE threads # <<>>
        BY <3>2, PopThread, StartThreadAlone DEF TypeOK
      <3> QED
        BY <3>1, <3>2
    <2>2. ThreadNeedsResult'
      BY DEF ThreadNeedsResult, ThreadObjects, TypeOK, WorkersType, AppType,
         QueryType
    <2>3. TakeTurns'
      BY DEF TakeTurns, ThreadObjects, ThreadNeedsResult, TypeOK, WorkersType,
         AppType, QueryType, Quiet
    <2>4. QueueHoldsOne'
      BY DEF QueueHoldsOne, ThreadObjects, ThreadNeedsResult, TypeOK,
         WorkersType, AppType, QueryType
    <2>5. CloseAnnounced'
      BY DEF CloseAnnounced
    <2> QED
      BY <2>1, <2>2, <2>3, <2>4, <2>5
  <1>15. CASE Cancel
    BY <1>15
    DEF Cancel, Return, BeginClose, ThreadObjects, ThreadNeedsResult,
        TakeTurns, Quiet, QueueHoldsOne, CloseAnnounced
  <1>16. CASE Close
    BY <1>16
    DEF Close, BeginClose, ThreadObjects, ThreadNeedsResult,
        TakeTurns, Quiet, QueueHoldsOne, CloseAnnounced
  <1>17. CASE Destroy
    BY <1>17
    DEF Destroy, BeginClose, ThreadObjects, ThreadNeedsResult,
        TakeTurns, Quiet, QueueHoldsOne, CloseAnnounced
  <1>18. CASE CloseJoin
    <2> USE <1>18, TypeOK DEF CloseJoin
    <2>1. ThreadObjects'
      BY PopThread DEF TypeOK, ThreadObjects
    <2>2. ThreadNeedsResult'
      BY DEF ThreadNeedsResult, ThreadObjects, TypeOK, WorkersType, AppType,
         QueryType
    <2>3. TakeTurns'
      BY DEF TakeTurns, CloseAnnounced
    <2>4. QueueHoldsOne'
      BY DEF QueueHoldsOne, ThreadObjects, ThreadNeedsResult, TypeOK,
         WorkersType, AppType, QueryType
    <2>5. CloseAnnounced'
      BY DEF CloseAnnounced
    <2> QED
      BY <2>1, <2>2, <2>3, <2>4, <2>5
  <1>19. CASE CloseReset
    <2> USE <1>19, TypeOK DEF CloseReset, AfterClose
    <2>1. ThreadObjects'
      BY DEF ThreadObjects
    <2>2. ThreadNeedsResult'
      <3>1. pc' \notin {"switch", "join"}
        BY DEF TypeOK, AppType, ContSet
      <3> QED
        BY <3>1 DEF ThreadNeedsResult
    <2>3. TakeTurns'
      BY DEF TakeTurns, ThreadObjects, ThreadNeedsResult, TypeOK, WorkersType,
         AppType, QueryType, Quiet
    <2>4. QueueHoldsOne'
      BY DEF QueueHoldsOne, ThreadObjects, ThreadNeedsResult, TypeOK,
         WorkersType, AppType, QueryType
    <2>5. CloseAnnounced'
      BY DEF CloseAnnounced
    <2> QED
      BY <2>1, <2>2, <2>3, <2>4, <2>5
  <1>20. CASE GetMeta
    BY <1>20
    DEF GetMeta, ThreadObjects, ThreadNeedsResult,
        TakeTurns, Quiet, QueueHoldsOne, CloseAnnounced
  <1>21. CASE MakeRequestResultsetMeta
    BY <1>21
    DEF MakeRequestResultsetMeta, Return, BeginClose, ThreadObjects,
        ThreadNeedsResult,
        TakeTurns, Quiet, QueueHoldsOne, CloseAnnounced
  <1>22. ASSUME NEW t \in Threads, AsyncSend(t) PROVE ThreadInv'
    <2> USE <1>22, TypeOK DEF AsyncSend
    <2>1. ThreadObjects'
      BY DEF ThreadObjects
    <2>2. ThreadNeedsResult'
      BY DEF ThreadNeedsResult, ThreadObjects, TypeOK, WorkersType, AppType,
         QueryType
    <2>3. TakeTurns'
      BY DEF TakeTurns, ThreadObjects, ThreadNeedsResult, TypeOK, WorkersType,
         AppType, QueryType, Quiet
    <2>4. QueueHoldsOne'
      BY DEF QueueHoldsOne, ThreadObjects, ThreadNeedsResult, TypeOK,
         WorkersType, AppType, QueryType
    <2>5. CloseAnnounced'
      BY DEF CloseAnnounced
    <2> QED
      BY <2>1, <2>2, <2>3, <2>4, <2>5
  <1>23. ASSUME NEW t \in Threads, AsyncReply(t) PROVE ThreadInv'
    <2> USE <1>23, TypeOK DEF AsyncReply, ExecuteQuery
    <2>1. ThreadObjects'
      BY DEF ThreadObjects
    <2>2. ThreadNeedsResult'
      BY DEF ThreadNeedsResult, ThreadObjects, TypeOK, WorkersType, AppType,
         QueryType
    <2>3. TakeTurns'
      BY DEF TakeTurns, ThreadObjects, ThreadNeedsResult, TypeOK, WorkersType,
         AppType, QueryType, Quiet
    <2>4. QueueHoldsOne'
      BY DEF QueueHoldsOne, ThreadObjects, ThreadNeedsResult, TypeOK,
         WorkersType, AppType, QueryType
    <2>5. CloseAnnounced'
      BY DEF CloseAnnounced
    <2> QED
      BY <2>1, <2>2, <2>3, <2>4, <2>5
  <1>24. ASSUME NEW t \in Threads, AsyncDeliver(t) PROVE ThreadInv'
    <2> USE <1>24, TypeOK DEF AsyncDeliver
    <2>1. ThreadObjects'
      BY DEF ThreadObjects
    <2>2. ThreadNeedsResult'
      BY DEF ThreadNeedsResult, ThreadObjects, TypeOK, WorkersType, AppType,
         QueryType
    <2>3. TakeTurns'
      BY DEF TakeTurns, ThreadObjects, ThreadNeedsResult, TypeOK, WorkersType,
         AppType, QueryType, Quiet
    <2>4. QueueHoldsOne'
      BY DEF QueueHoldsOne, ThreadObjects, ThreadNeedsResult, TypeOK,
         WorkersType, AppType, QueryType
    <2>5. CloseAnnounced'
      BY DEF CloseAnnounced
    <2> QED
      BY <2>1, <2>2, <2>3, <2>4, <2>5
  <1>25. CASE UNCHANGED vars
    BY <1>25
    DEF vars, ThreadObjects, ThreadNeedsResult, TakeTurns, Quiet, QueueHoldsOne,
        CloseAnnounced
  <1> QED
    BY <1>1, <1>2, <1>3, <1>4, <1>5, <1>6, <1>7, <1>8, <1>9, <1>10, <1>11,
       <1>12, <1>13, <1>14, <1>15, <1>16, <1>17, <1>18, <1>19, <1>20, <1>21,
       <1>22, <1>23, <1>24, <1>25
    DEF Next, AppStep, AppCall, AsyncFetchOnePage, Gone

\* The thread invariant holds always.
LEMMA ThreadInvHolds == Spec => []ThreadInv
  BY InitThreadInv, NextThreadInv, TypeCorrect, PTL DEF Spec

\* No fetch thread ever sleeps in cv_.wait, whatever the application calls.
THEOREM FetchThreadsNeverSleep == Spec => []NoFetchThreadSleeps
  <1>1. ThreadInv => NoFetchThreadSleeps
    BY DEF ThreadInv, TakeTurns, Quiet, NoFetchThreadSleeps
  <1> QED
    BY <1>1, ThreadInvHolds, PTL

\* There is never more than one fetch thread.
THEOREM SingleFetchThread == Spec => []OneFetchThread
  <1>1. ThreadInv => OneFetchThread
    BY DEF ThreadInv, ThreadObjects, OneFetchThread
  <1> QED
    BY <1>1, ThreadInvHolds, PTL

\* A query is never destroyed with a thread it has not joined.
THEOREM ThreadsJoinedBeforeDestruction == Spec => []NoJoinableThreadDestroyed
  <1>1. ThreadInv => NoJoinableThreadDestroyed
    BY DEF ThreadInv, ThreadObjects, ThreadNeedsResult,
       NoJoinableThreadDestroyed
  <1> QED
    BY <1>1, ThreadInvHolds, PTL

\* request_ is not written while the thread it was lent to may read it.
THEOREM RequestNeverRacesWithFetch == Spec => RequestStableWhileRead
  <1> DEFINE Reading == \E t \in Threads : tpc[t] \in {"start", "call"}
  <1>1. ThreadInv /\ [Next]_vars => [Reading => request' = request]_vars
    <2> SUFFICES ASSUME ThreadInv, Next, Reading PROVE request' = request
      OBVIOUS
    <2>1. threads # <<>> /\ tpc[Head(threads)] # "done"
      BY DEF ThreadInv, ThreadObjects
    <2>2. pc # "execute"
      BY <2>1 DEF ThreadInv, ThreadNeedsResult
    <2> QED
      BY <2>1, <2>2
      DEF Next, AppStep, AppCall, AsyncFetchOnePage, Gone, vars, Execute,
          ExecuteFails, ExecuteEmptyPage, ExecuteFirstPage, FetchWithoutCursor,
          FetchInPage, FetchAtEnd, FetchNextPage, SwitchSleep, SwitchTakes,
          SwitchToFailure, SwitchToEmptyPage, SwitchToLastPage, SwitchToPage,
          SwitchJoin, Cancel, Close, Destroy, CloseJoin, CloseReset, GetMeta,
          MakeRequestResultsetMeta, AsyncSend, AsyncReply, AsyncDeliver
  <1> QED
    BY <1>1, ThreadInvHolds, PTL DEF Spec, RequestStableWhileRead

=============================================================================
