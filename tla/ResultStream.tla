---------------------------- MODULE ResultStream ----------------------------
(***************************************************************************)
(* What a forward-only result set promises its application, whatever the   *)
(* driver does behind it.  The rows of a query are held by the service in  *)
(* pages; pages[p] is the number of rows of page p and <<p, i>> names the  *)
(* i-th row of page p.  While the result set is open the application       *)
(* visits the rows one by one in that order, none of them twice and none   *)
(* of them left out, and is told "no more data" only when every row has    *)
(* been visited.  An error or a close may end the visit at any time.       *)
(***************************************************************************)
EXTENDS Naturals, Sequences

VARIABLES pages,   \* rows per page of the query's result, never changes
          phase,   \* "closed", "open" or "end" (NO_DATA was reported)
          pos,     \* the row visited last, Start before the first one
          turn     \* changes with every visit, so that none is a stutter

vars == <<pages, phase, pos, turn>>

Start == <<0, 0>>

\* No row is left on the page of the row r.
PageConsumed(r) == r[1] = 0 \/ r[2] = pages[r[1]]

\* Row s comes right after row r in the result.
IsNext(r, s) ==
    \/ /\ ~PageConsumed(r)
       /\ s = <<r[1], r[2] + 1>>
    \/ /\ PageConsumed(r)
       /\ s[1] \in (r[1] + 1) .. Len(pages)
       /\ s[2] = 1
       /\ pages[s[1]] > 0
       /\ \A p \in (r[1] + 1) .. (s[1] - 1) : pages[p] = 0

\* Row r is the last row of the result (Start, if the result has none).
IsLast(r) ==
    /\ PageConsumed(r)
    /\ \A p \in (r[1] + 1) .. Len(pages) : pages[p] = 0

Init == /\ pages \in Seq(Nat)
        /\ phase = "closed"
        /\ pos = Start
        /\ turn = 0

Open == /\ phase = "closed"
        /\ phase' = "open"
        /\ pos' = Start
        /\ UNCHANGED <<pages, turn>>

Visit == /\ phase = "open"
         /\ IsNext(pos, pos')
         /\ turn' = 1 - turn
         /\ UNCHANGED <<pages, phase>>

End == /\ phase = "open"
       /\ IsLast(pos)
       /\ phase' = "end"
       /\ UNCHANGED <<pages, pos, turn>>

\* Closed by the application or by an error; the rows visited stay visited.
Close == /\ phase' = "closed"
         /\ UNCHANGED <<pages, pos, turn>>

Next == Open \/ Visit \/ End \/ Close

Spec == Init /\ [][Next]_vars
=============================================================================
