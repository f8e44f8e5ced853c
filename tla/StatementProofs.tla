--------------------------- MODULE StatementProofs ---------------------------
(***************************************************************************)
(* Proofs about a statement and its query (modules Statement and Catalog): *)
(* the end of a result set is final, a closed query gives no rows, no row  *)
(* is lost in silence, and a catalog function offers all it was asked for  *)
(* or nothing, for every number of rows, rowset size, table and column.    *)
(***************************************************************************)
EXTENDS Statement, NaturalsInduction, WellFoundedInduction,
        FiniteSetTheorems, TLAPS

-----------------------------------------------------------------------------
(* Induction over the naturals, stated for a set: what the steps below use *)
(* to follow a rowset from its first row to its last.                      *)

LEMMA SetInduction ==
  ASSUME NEW T, T \subseteq Nat, 0 \in T, \A n \in T : n + 1 \in T
  PROVE  T = Nat
<1> SUFFICES ASSUME Nat \ T # {} PROVE FALSE
  OBVIOUS
<1>1. IsWellFoundedOn(OpToRel(<, Nat), Nat)
  BY NatLessThanWellFounded
<1>2. Nat \ T \subseteq Nat
  OBVIOUS
<1>3. \E n \in Nat \ T : \A k \in Nat \ T : <<k, n>> \notin OpToRel(<, Nat)
  <2> DEFINE R == OpToRel(<, Nat)
             U == Nat \ T
  <2>1. IsWellFoundedOn(R, Nat) /\ U \subseteq Nat /\ U # {}
    BY <1>1, <1>2
  <2> HIDE DEF R, U
  <2>2. \E n \in U : \A k \in U : <<k, n>> \notin R
    BY <2>1, WFMin
  <2> QED  BY <2>2 DEF R, U
<1>4. PICK n \in Nat \ T : \A k \in Nat \ T : <<k, n>> \notin OpToRel(<, Nat)
  BY <1>3
<1>5. n # 0 /\ n \in Nat /\ n - 1 \in Nat /\ n - 1 < n /\ (n - 1) + 1 = n
  <2>1. n # 0 /\ n \in Nat
    OBVIOUS
  <2> QED  BY <2>1
<1>6. <<n - 1, n>> \in OpToRel(<, Nat)
  BY <1>5 DEF OpToRel
<1>7. n - 1 \in T
  BY <1>4, <1>5, <1>6
<1> QED  BY <1>4, <1>5, <1>7

-----------------------------------------------------------------------------
(* A rowset: the states of the query and the results, row by row. *)

Step(x) ==
  LET f == FetchNextRow(x.q)
  IN  [q |-> f.q, statuses |-> Append(x.statuses, f.r)]

IsRun(g, q, n) ==
  g = [i \in 0 .. n |-> IF i = 0 THEN [q |-> q, statuses |-> <<>>]
                                 ELSE Step(g[i - 1])]

LEMMA RowsetChoice ==
  ASSUME NEW q, NEW n
  PROVE  Rowset(q, n) = (CHOOSE g : IsRun(g, q, n))[n]
BY DEF Rowset, IsRun, Step

LEMMA LongerRun ==
  ASSUME NEW q, NEW n \in Nat, NEW g, IsRun(g, q, n)
  PROVE  \E h : IsRun(h, q, n + 1)
<1> DEFINE h == [i \in 0 .. n + 1 |-> IF i = n + 1 THEN Step(g[n]) ELSE g[i]]
<1>1. \A i \in 0 .. n : h[i] = g[i]
  OBVIOUS
<1>2. h[n + 1] = Step(g[n])
  OBVIOUS
<1>3. \A i \in 0 .. n :
        g[i] = IF i = 0 THEN [q |-> q, statuses |-> <<>>] ELSE Step(g[i - 1])
  BY Zenon DEF IsRun
<1>4. \A i \in 0 .. n + 1 :
        h[i] = IF i = 0 THEN [q |-> q, statuses |-> <<>>] ELSE Step(h[i - 1])
  <2> TAKE i \in 0 .. n + 1
  <2>1. CASE i = n + 1
    <3>1. h[i - 1] = g[n] /\ i # 0
      BY <2>1, <1>1
    <3> QED  BY <3>1, <2>1, <1>2
  <2>2. CASE i # n + 1
    <3>1. i \in 0 .. n
      BY <2>2
    <3>2. CASE i = 0
      BY <3>1, <3>2, <1>1, <1>3
    <3>3. CASE i # 0
      <4>1. i - 1 \in 0 .. n
        BY <3>1, <3>3
      <4>2. h[i - 1] = g[i - 1] /\ h[i] = g[i]
        BY <4>1, <3>1, <1>1
      <4> QED  BY <4>2, <3>1, <3>3, <1>3
    <3> QED  BY <3>2, <3>3
  <2> QED  BY <2>1, <2>2
<1>5. h = [i \in 0 .. n + 1 |-> h[i]]
  OBVIOUS
<1> HIDE DEF h
<1>6. IsRun(h, q, n + 1)
  BY <1>4, <1>5, Zenon DEF IsRun
<1> QED  BY <1>6

LEMMA RunExists ==
  ASSUME NEW q, NEW n \in Nat
  PROVE  \E g : IsRun(g, q, n)
<1> DEFINE T == {k \in Nat : \E g : IsRun(g, q, k)}
<1>1. 0 \in T
  <2> DEFINE g == [i \in 0 .. 0 |-> [q |-> q, statuses |-> <<>>]]
  <2>1. g = [i \in 0 .. 0 |-> IF i = 0 THEN [q |-> q, statuses |-> <<>>]
                                       ELSE Step(g[i - 1])]
    OBVIOUS
  <2> HIDE DEF g
  <2>2. IsRun(g, q, 0)
    BY <2>1, Zenon DEF IsRun
  <2> QED  BY <2>2
<1>2. \A k \in T : k + 1 \in T
  BY LongerRun
<1>3. T \subseteq Nat
  OBVIOUS
<1> HIDE DEF T
<1>4. n \in T
  BY <1>1, <1>2, <1>3, SetInduction
<1> QED  BY <1>4 DEF T

\* The rows of a fetch, one after the other.
LEMMA RowsetIsRun ==
  ASSUME NEW q, NEW n \in Nat
  PROVE  \E g : /\ g[0] = [q |-> q, statuses |-> <<>>]
                /\ \A i \in 0 .. n : i # 0 => g[i] = Step(g[i - 1])
                /\ Rowset(q, n) = g[n]
<1> DEFINE g == CHOOSE g : IsRun(g, q, n)
<1>1. IsRun(g, q, n)
  BY RunExists, Zenon
<1>2. Rowset(q, n) = g[n]
  BY RowsetChoice, Zenon
<1> HIDE DEF g
<1>3. \A i \in 0 .. n :
        g[i] = IF i = 0 THEN [q |-> q, statuses |-> <<>>] ELSE Step(g[i - 1])
  BY <1>1, Zenon DEF IsRun
<1> QED  BY <1>2, <1>3

-----------------------------------------------------------------------------
(* One row *)

Kinds   == {"NONE", "DATA", "EMPTY", "COLUMNS", "TABLES", "TYPEINFO"}
Results == {"SUCCESS", "ERROR", "NO_DATA"}

\* What the calls rely on of a query: its fields, and for a DataQuery that
\* its rows are a sequence and its cursor a place.
IsQuery(q) ==
  /\ q = [kind |-> q.kind, open |-> q.open, rows |-> q.rows, pos |-> q.pos]
  /\ q.kind \in Kinds
  /\ q.open \in BOOLEAN
  /\ q.kind \in {"NONE", "EMPTY"} => ~q.open
  /\ q.kind = "DATA" => /\ q.pos \in Nat /\ Len(q.rows) \in Nat
                        /\ DOMAIN q.rows = 1 .. Len(q.rows)

\* A query from which every further fetch gets NO_DATA.
Exhausted(q) ==
  CASE q.kind = "DATA"  -> ~q.open \/ AtEnd(q)
    [] q.kind = "EMPTY" -> TRUE
    [] OTHER            -> q.open /\ AtEnd(q)

\* The rows of a DataQuery the cursor has passed and that were not delivered.
Lost(q) ==
  {i \in DOMAIN q.rows : i <= q.pos /\ q.rows[i].conv \in {"bad", "lost"}}

\* What a fetch of one row does: f is what FetchNextRow(q) answers.
RowFetched(f, q) ==
  /\ IsQuery(f.q) /\ f.q.kind = q.kind /\ f.q.rows = q.rows
  /\ f.r \in Results
  /\ Exhausted(q) => f.q = q /\ f.r = "NO_DATA"
  /\ f.r = "NO_DATA" => Exhausted(f.q)
  /\ ~q.open => ~f.q.open /\ f.r # "SUCCESS"
  /\ q.kind = "DATA" => Lost(f.q) \subseteq Lost(q) \/ f.r = "ERROR"

LEMMA AdvanceIs ==
  ASSUME NEW q, IsQuery(q)
  PROVE  /\ AtEnd(q) => Advance(q) = q
         /\ ~AtEnd(q) => Advance(q) = [kind |-> q.kind, open |-> q.open,
                                       rows |-> q.rows, pos |-> q.pos + 1]
<1> DEFINE k == q.kind  o == q.open  r == q.rows  p == q.pos
<1>1. q = [kind |-> k, open |-> o, rows |-> r, pos |-> p]
  BY DEF IsQuery
<1>2. ASSUME NEW a, NEW b, NEW c, NEW d
      PROVE  [[kind |-> a, open |-> b, rows |-> c, pos |-> d]
                EXCEPT !.pos = @ + 1]
             = [kind |-> a, open |-> b, rows |-> c, pos |-> d + 1]
  OBVIOUS
<1>3. [q EXCEPT !.pos = @ + 1] = [kind |-> k, open |-> o, rows |-> r,
                                  pos |-> p + 1]
  <2> HIDE DEF k, o, r, p
  <2> QED  BY <1>1, <1>2
<1> QED  BY <1>3, Zenon DEF Advance

LEMMA AdvancedIsQuery ==
  ASSUME NEW q, IsQuery(q)
  PROVE  /\ IsQuery(Advance(q))
         /\ Advance(q).kind = q.kind /\ Advance(q).open = q.open
         /\ Advance(q).rows = q.rows
<1>1. CASE AtEnd(q)
  BY <1>1, AdvanceIs
<1>2. CASE ~AtEnd(q)
  <2>1. Advance(q) = [kind |-> q.kind, open |-> q.open,
                      rows |-> q.rows, pos |-> q.pos + 1]
    BY <1>2, AdvanceIs
  <2>2. /\ Advance(q).kind = q.kind /\ Advance(q).open = q.open
        /\ Advance(q).rows = q.rows /\ Advance(q).pos = q.pos + 1
    BY <2>1
  <2> QED  BY <2>1, <2>2 DEF IsQuery
<1> QED  BY <1>1, <1>2

LEMMA DataRowFetched ==
  ASSUME NEW q, IsQuery(q), q.kind = "DATA"
  PROVE  RowFetched(FetchData(q), q)
<1> DEFINE n    == Advance(q)
           conv == n.rows[n.pos].conv
           f    == FetchData(q)
<1> SUFFICES RowFetched(f, q)
  OBVIOUS
<1>1. IsQuery(n) /\ n.kind = "DATA" /\ n.open = q.open /\ n.rows = q.rows
  BY AdvancedIsQuery
<1>2. CASE ~q.open
  <2>1. f = [q |-> q, r |-> "NO_DATA"]
    BY <1>2 DEF FetchData
  <2> HIDE DEF f
  <2>2. f.q = q /\ f.r = "NO_DATA" /\ f.r \in Results /\ f.r # "SUCCESS"
    BY <2>1 DEF Results
  <2>3. Exhausted(q)
    BY <1>2 DEF Exhausted
  <2>4. Lost(f.q) \subseteq Lost(q)
    BY <2>2
  <2> QED  BY <2>2, <2>3, <2>4, <1>2, Zenon DEF RowFetched
<1>3. CASE q.open /\ AtEnd(n)
  <2>1. f = [q |-> n, r |-> "NO_DATA"]
    BY <1>3 DEF FetchData
  <2>2. AtEnd(q) => n = q
    BY AdvanceIs
  <2>3. Lost(n) \subseteq Lost(q)
    <3>1. CASE AtEnd(q)
      BY <3>1, <2>2
    <3>2. CASE ~AtEnd(q)
      <4>1. n.pos = q.pos + 1
        BY <3>2, AdvanceIs
      <4> HIDE DEF n
      <4>2. n.pos > Len(q.rows) /\ q.pos \in Nat /\ Len(q.rows) \in Nat
              /\ DOMAIN q.rows = 1 .. Len(q.rows)
        BY <1>1, <1>3 DEF AtEnd, IsQuery
      <4>3. \A i \in DOMAIN q.rows : i <= q.pos
        BY <4>1, <4>2
      <4> QED  BY <4>3, <1>1 DEF Lost
    <3> QED  BY <3>1, <3>2
  <2>4. Exhausted(n)
    BY <1>1, <1>3 DEF Exhausted
  <2>5. Exhausted(q) => n = q
    BY <1>3, <2>2 DEF Exhausted
  <2> HIDE DEF f, n
  <2>6. f.q = n /\ f.r = "NO_DATA" /\ f.r \in Results
    BY <2>1 DEF Results
  <2> QED  BY <2>3, <2>4, <2>5, <2>6, <1>1, <1>3, Zenon DEF RowFetched
<1>4. CASE q.open /\ ~AtEnd(n)
  <2>1. ~AtEnd(q)
    BY <1>4, AdvanceIs
  <2>2. n = [kind |-> "DATA", open |-> TRUE, rows |-> q.rows,
             pos |-> q.pos + 1]
    BY <2>1, <1>4, AdvanceIs DEF IsQuery
  <2>3. f = [q |-> [n EXCEPT !.open = conv # "lost"],
             r |-> IF conv \in {"bad", "lost"} THEN "ERROR" ELSE "SUCCESS"]
    BY <1>4 DEF FetchData
  <2>4. [n EXCEPT !.open = conv # "lost"]
          = [kind |-> "DATA", open |-> conv # "lost", rows |-> q.rows,
             pos |-> q.pos + 1]
    BY <2>2
  <2>5. conv = q.rows[q.pos + 1].conv
    BY <2>2
  <2>6. /\ f.q.kind = "DATA" /\ f.q.rows = q.rows /\ f.q.pos = q.pos + 1
        /\ f.q = [kind |-> "DATA", open |-> f.q.open, rows |-> q.rows,
                  pos |-> q.pos + 1]
        /\ f.q.open \in BOOLEAN
        /\ f.r = IF conv \in {"bad", "lost"} THEN "ERROR" ELSE "SUCCESS"
    <3> DEFINE o == conv # "lost"
               r == IF conv \in {"bad", "lost"} THEN "ERROR" ELSE "SUCCESS"
    <3>1. f = [q |-> [kind |-> "DATA", open |-> o, rows |-> q.rows,
                      pos |-> q.pos + 1], r |-> r]
      BY <2>3, <2>4
    <3>2. o \in BOOLEAN
      OBVIOUS
    <3>3. r = IF conv \in {"bad", "lost"} THEN "ERROR" ELSE "SUCCESS"
      OBVIOUS
    <3> HIDE DEF f, o, r, conv, n
    <3>4. f.q = [kind |-> "DATA", open |-> o, rows |-> q.rows,
                 pos |-> q.pos + 1] /\ f.r = r
      BY <3>1
    <3>5. f.q.open = o
      BY <3>4
    <3> QED  BY <3>2, <3>3, <3>4, <3>5
  <2>7. IsQuery(f.q)
    <3> HIDE DEF f
    <3> QED  BY <2>6 DEF IsQuery, Kinds
  <2>8. ~Exhausted(q)
    BY <1>4, <2>1 DEF Exhausted
  <2>9. Lost(f.q) \subseteq Lost(q) \/ f.r = "ERROR"
    <3>1. CASE conv \in {"bad", "lost"}
      BY <3>1, <2>6
    <3>2. CASE conv \notin {"bad", "lost"}
      <4> HIDE DEF f, n, conv
      <4>1. q.pos \in Nat /\ DOMAIN q.rows = 1 .. Len(q.rows)
              /\ Len(q.rows) \in Nat
        BY DEF IsQuery
      <4>2. ASSUME NEW i \in DOMAIN q.rows, i <= q.pos + 1,
                   q.rows[i].conv \in {"bad", "lost"}
            PROVE  i <= q.pos
        <5>1. i # q.pos + 1
          BY <4>2, <3>2, <2>5
        <5> QED  BY <5>1, <4>1, <4>2
      <4> QED  BY <4>2, <2>6 DEF Lost
    <3> QED  BY <3>1, <3>2
  <2>10. f.r \in {"SUCCESS", "ERROR"}
    BY <2>6
  <2> HIDE DEF f, n, conv
  <2>11. f.r \in Results /\ f.r # "NO_DATA"
    BY <2>10 DEF Results
  <2> QED  BY <2>6, <2>7, <2>8, <2>9, <2>11, <1>4, Zenon DEF RowFetched
<1>5. q.open \in BOOLEAN
  BY DEF IsQuery
<1> QED  BY <1>2, <1>3, <1>4, <1>5

LEMMA CatalogRowFetched ==
  ASSUME NEW q, IsQuery(q), q.kind \notin {"DATA", "EMPTY"}
  PROVE  RowFetched(FetchCatalog(q), q)
<1> DEFINE n == Advance(q)
           f == FetchCatalog(q)
<1> SUFFICES RowFetched(f, q)
  OBVIOUS
<1>1. IsQuery(n) /\ n.kind = q.kind /\ n.open = q.open /\ n.rows = q.rows
  BY AdvancedIsQuery
<1>2. CASE ~q.open
  <2>1. f = [q |-> q, r |-> "ERROR"]
    BY <1>2 DEF FetchCatalog
  <2> HIDE DEF f
  <2>2. f.q = q /\ f.r = "ERROR" /\ f.r \in Results
    BY <2>1 DEF Results
  <2>3. f.r # "NO_DATA" /\ f.r # "SUCCESS"
    BY <2>2
  <2>4. ~Exhausted(q) /\ q.kind # "DATA"
    BY <1>2 DEF Exhausted
  <2> QED  BY <2>2, <2>3, <2>4, <1>2, Zenon DEF RowFetched
<1>3. CASE q.open
  <2>1. f = [q |-> n, r |-> IF AtEnd(n) THEN "NO_DATA" ELSE "SUCCESS"]
    BY <1>3 DEF FetchCatalog
  <2>2. AtEnd(q) => n = q
    BY AdvanceIs
  <2> HIDE DEF f, n
  <2>3. Exhausted(n) <=> AtEnd(n)
    BY <1>1, <1>3 DEF Exhausted
  <2>4. Exhausted(q) <=> AtEnd(q)
    BY <1>3 DEF Exhausted
  <2>5. f.q = n /\ f.r = IF AtEnd(n) THEN "NO_DATA" ELSE "SUCCESS"
    BY <2>1
  <2>6. f.r \in Results /\ (f.r = "NO_DATA" <=> AtEnd(n)) /\ q.kind # "DATA"
    BY <2>5 DEF Results
  <2> QED  BY <2>2, <2>3, <2>4, <2>5, <2>6, <1>1, <1>3, Zenon DEF RowFetched
<1>4. q.open \in BOOLEAN
  BY DEF IsQuery
<1> QED  BY <1>2, <1>3, <1>4

LEMMA EveryRowFetched ==
  ASSUME NEW q, IsQuery(q)
  PROVE  RowFetched(FetchNextRow(q), q)
<1>1. CASE q.kind = "DATA"
  BY <1>1, DataRowFetched DEF FetchNextRow
<1>2. CASE q.kind = "EMPTY"
  <2>1. FetchNextRow(q) = [q |-> q, r |-> "NO_DATA"]
    BY <1>2 DEF FetchNextRow
  <2> QED  BY <2>1, <1>2 DEF RowFetched, Exhausted, Results
<1>3. CASE q.kind \notin {"DATA", "EMPTY"}
  BY <1>3, CatalogRowFetched DEF FetchNextRow
<1> QED  BY <1>1, <1>2, <1>3

-----------------------------------------------------------------------------
(* A rowset *)

\* What the fetch of some rows of query q has done when it is at x.
RowsFetched(x, q) ==
  /\ IsQuery(x.q) /\ x.q.kind = q.kind /\ x.q.rows = q.rows
  /\ x.statuses \in Seq(Results)
  /\ Exhausted(q) => x.q = q /\ ToSet(x.statuses) \subseteq {"NO_DATA"}
  /\ ToSet(x.statuses) = {"NO_DATA"} => Exhausted(x.q)
  /\ ~q.open => ~x.q.open /\ "SUCCESS" \notin ToSet(x.statuses)
  /\ q.kind = "DATA" => \/ Lost(x.q) \subseteq Lost(q)
                        \/ "ERROR" \in ToSet(x.statuses)

LEMMA AppendToSet ==
  ASSUME NEW S, NEW s \in Seq(S), NEW e \in S
  PROVE  /\ Append(s, e) \in Seq(S)
         /\ Len(Append(s, e)) = Len(s) + 1
         /\ ToSet(Append(s, e)) = ToSet(s) \cup {e}
<1> DEFINE t == Append(s, e)
<1>1. /\ t \in Seq(S) /\ Len(t) = Len(s) + 1 /\ Len(s) \in Nat
      /\ \A i \in 1 .. Len(s) : t[i] = s[i]
      /\ t[Len(s) + 1] = e
  OBVIOUS
<1>2. DOMAIN t = 1 .. Len(s) + 1 /\ DOMAIN s = 1 .. Len(s)
  OBVIOUS
<1> HIDE DEF t
<1>3. 1 .. Len(s) + 1 = (1 .. Len(s)) \cup {Len(s) + 1}
  BY <1>1
<1>4. \A x : x \in ToSet(t) <=> x \in ToSet(s) \cup {e}
  BY <1>1, <1>2, <1>3 DEF ToSet
<1>5. ToSet(t) = ToSet(s) \cup {e}
  BY <1>4
<1> QED  BY <1>1, <1>5 DEF t

LEMMA NothingFetchedYet ==
  ASSUME NEW q, IsQuery(q)
  PROVE  RowsFetched([q |-> q, statuses |-> <<>>], q)
<1> DEFINE x == [q |-> q, statuses |-> <<>>]
<1>1. x.q = q /\ x.statuses = <<>>
  OBVIOUS
<1> HIDE DEF x
<1>2. x.statuses \in Seq(Results) /\ ToSet(x.statuses) = {}
  BY <1>1 DEF ToSet
<1>3. Lost(x.q) \subseteq Lost(q)
  BY <1>1
<1>4. RowsFetched(x, q)
  BY <1>1, <1>2, <1>3, Zenon DEF RowsFetched
<1> QED  BY <1>4 DEF x

LEMMA OneMoreRow ==
  ASSUME NEW q, IsQuery(q), NEW x, RowsFetched(x, q)
  PROVE  RowsFetched(Step(x), q)
<1> DEFINE f == FetchNextRow(x.q)
           y == Step(x)
<1>1. y.q = f.q /\ y.statuses = Append(x.statuses, f.r)
  BY DEF Step
<1>2. IsQuery(x.q)
  BY Zenon DEF RowsFetched
<1>3. RowFetched(f, x.q)
  BY <1>2, EveryRowFetched
<1> HIDE DEF f, y
<1>4. /\ IsQuery(f.q) /\ f.q.kind = x.q.kind /\ f.q.rows = x.q.rows
      /\ f.r \in Results
      /\ Exhausted(x.q) => f.q = x.q /\ f.r = "NO_DATA"
      /\ f.r = "NO_DATA" => Exhausted(f.q)
      /\ ~x.q.open => ~f.q.open /\ f.r # "SUCCESS"
      /\ x.q.kind = "DATA" => Lost(f.q) \subseteq Lost(x.q) \/ f.r = "ERROR"
  BY <1>3, Zenon DEF RowFetched
<1>5. /\ x.q.kind = q.kind /\ x.q.rows = q.rows
      /\ x.statuses \in Seq(Results)
      /\ Exhausted(q) => x.q = q /\ ToSet(x.statuses) \subseteq {"NO_DATA"}
      /\ ~q.open => ~x.q.open /\ "SUCCESS" \notin ToSet(x.statuses)
      /\ q.kind = "DATA" => \/ Lost(x.q) \subseteq Lost(q)
                            \/ "ERROR" \in ToSet(x.statuses)
  BY Zenon DEF RowsFetched
<1>6. y.statuses \in Seq(Results)
        /\ ToSet(y.statuses) = ToSet(x.statuses) \cup {f.r}
  BY <1>1, <1>4, <1>5, AppendToSet
<1>7. Exhausted(q) => y.q = q /\ ToSet(y.statuses) \subseteq {"NO_DATA"}
  BY <1>1, <1>4, <1>5, <1>6
<1>8. ToSet(y.statuses) = {"NO_DATA"} => Exhausted(y.q)
  BY <1>1, <1>4, <1>6
<1>9. ~q.open => ~y.q.open /\ "SUCCESS" \notin ToSet(y.statuses)
  BY <1>1, <1>4, <1>5, <1>6, Zenon
<1>10. q.kind = "DATA" => \/ Lost(y.q) \subseteq Lost(q)
                          \/ "ERROR" \in ToSet(y.statuses)
  BY <1>1, <1>4, <1>5, <1>6
<1>11. IsQuery(y.q) /\ y.q.kind = q.kind /\ y.q.rows = q.rows
  BY <1>1, <1>4, <1>5
<1>12. RowsFetched(y, q)
  BY <1>6, <1>7, <1>8, <1>9, <1>10, <1>11, Zenon DEF RowsFetched
<1> QED  BY <1>12 DEF y

\* However many rows a fetch asks for, the rowset has a result for each and
\* what holds of one row holds of all of them.
LEMMA RowsetFetched ==
  ASSUME NEW q, IsQuery(q), NEW n \in Nat
  PROVE  RowsFetched(Rowset(q, n), q) /\ Len(Rowset(q, n).statuses) = n
<1>1. PICK g : /\ g[0] = [q |-> q, statuses |-> <<>>]
               /\ \A i \in 0 .. n : i # 0 => g[i] = Step(g[i - 1])
               /\ Rowset(q, n) = g[n]
  BY RowsetIsRun
<1> DEFINE Good(i) == RowsFetched(g[i], q) /\ Len(g[i].statuses) = i
           T == {i \in Nat : i <= n => Good(i)}
<1>2. Good(0)
  <2>1. RowsFetched(g[0], q)
    BY <1>1, NothingFetchedYet
  <2>2. g[0].statuses = <<>>
    BY <1>1
  <2> QED  BY <2>1, <2>2
<1>3. ASSUME NEW i \in Nat, i + 1 <= n, Good(i)
      PROVE  Good(i + 1)
  <2>1. g[i + 1] = Step(g[i])
    <3>1. i + 1 \in 0 .. n /\ i + 1 # 0 /\ (i + 1) - 1 = i
      BY <1>3
    <3> QED  BY <3>1, <1>1
  <2>2. RowsFetched(g[i + 1], q)
    BY <2>1, <1>3, OneMoreRow
  <2>3. g[i + 1].statuses = Append(g[i].statuses, FetchNextRow(g[i].q).r)
    BY <2>1 DEF Step
  <2>4. IsQuery(g[i].q) /\ g[i].statuses \in Seq(Results)
    BY <1>3, Zenon DEF RowsFetched
  <2>5. FetchNextRow(g[i].q).r \in Results
    BY <2>4, EveryRowFetched, Zenon DEF RowFetched
  <2>6. Len(g[i + 1].statuses) = i + 1
    BY <2>3, <2>4, <2>5, <1>3, AppendToSet
  <2> QED  BY <2>2, <2>6
<1> HIDE DEF Good
<1>4. 0 \in T
  BY <1>2
<1>5. \A i \in T : i + 1 \in T
  <2> SUFFICES ASSUME NEW i \in Nat, i <= n => Good(i), i + 1 <= n
               PROVE  Good(i + 1)
    OBVIOUS
  <2>1. i <= n
    OBVIOUS
  <2> QED  BY <2>1, <1>3
<1>6. T \subseteq Nat
  OBVIOUS
<1> HIDE DEF T
<1>7. n \in T
  BY <1>4, <1>5, <1>6, SetInduction
<1>8. Good(n)
  BY <1>7 DEF T
<1> QED  BY <1>8, <1>1 DEF Good

\* What the fetch answers for the results of its rows.
LEMMA FetchResultIs ==
  ASSUME NEW s \in Seq(Results)
  PROVE  /\ FetchResult(s) = "NO_DATA" <=> ToSet(s) \subseteq {"NO_DATA"}
         /\ "ERROR" \in ToSet(s)
              => FetchResult(s) \in {"ERROR", "SUCCESS_WITH_INFO"}
<1>1. \A e : Contains(s, e) <=> e \in ToSet(s)
  BY DEF Contains, ToSet
<1>2. ToSet(s) \subseteq Results
  BY DEF ToSet
<1>3. FetchResult(s) = CASE "SUCCESS" \in ToSet(s) /\ "ERROR" \notin ToSet(s)
                             -> "SUCCESS"
                         [] "SUCCESS" \in ToSet(s) /\ "ERROR" \in ToSet(s)
                             -> "SUCCESS_WITH_INFO"
                         [] "SUCCESS" \notin ToSet(s) /\ "ERROR" \notin ToSet(s)
                             -> "NO_DATA"
                         [] "SUCCESS" \notin ToSet(s) /\ "ERROR" \in ToSet(s)
                             -> "ERROR"
  BY <1>1 DEF FetchResult
<1> QED  BY <1>2, <1>3 DEF Results

-----------------------------------------------------------------------------
(* The inductive invariant *)

\* Once the end was reported the query has nothing more to give.
EndedIsExhausted == ended => Exhausted(query)

\* Only an execution opens a query.
OpenIsLive == query.open => live

LossIsTold == query.kind = "DATA" /\ Lost(query) # {} => told

\* No row was delivered by the last call when nothing is executed.
NoRowWhenNotLive == ~live => "SUCCESS" \notin ToSet(last.statuses)

StatementInv ==
  /\ IsQuery(query)
  /\ rowArraySize \in Nat /\ rowsetSize \in Nat
  /\ told \in BOOLEAN /\ ended \in BOOLEAN /\ live \in BOOLEAN
  /\ EndedIsExhausted /\ OpenIsLive /\ LossIsTold
  /\ NoRowWhenNotLive /\ EndIsFinal

LEMMA NewIsQuery ==
  ASSUME NEW k \in Kinds
  PROVE  /\ IsQuery(New(k)) /\ New(k).kind = k /\ ~New(k).open
         /\ New(k).pos = 0
<1>1. New(k) = [kind |-> k, open |-> FALSE, rows |-> <<>>, pos |-> 0]
  BY DEF New
<1>2. /\ New(k).kind = k /\ New(k).open = FALSE /\ New(k).rows = <<>>
      /\ New(k).pos = 0
  BY <1>1
<1>3. Len(<<>>) = 0 /\ DOMAIN <<>> = 1 .. 0
  OBVIOUS
<1> QED  BY <1>1, <1>2, <1>3 DEF IsQuery

\* A query of one of the classes that ask the service for the catalog or the
\* types, whatever its rows.
LEMMA CatalogIsQuery ==
  ASSUME NEW k \in {"COLUMNS", "TABLES", "TYPEINFO"}, NEW o \in BOOLEAN,
         NEW r, NEW p
  PROVE  /\ IsQuery([kind |-> k, open |-> o, rows |-> r, pos |-> p])
         /\ [kind |-> k, open |-> o, rows |-> r, pos |-> p].kind # "DATA"
<1> DEFINE q == [kind |-> k, open |-> o, rows |-> r, pos |-> p]
<1>1. q.kind = k /\ q.open = o /\ q.rows = r /\ q.pos = p
  OBVIOUS
<1>2. q = [kind |-> q.kind, open |-> q.open, rows |-> q.rows, pos |-> q.pos]
  BY <1>1
<1> HIDE DEF q
<1>3. IsQuery(q) /\ q.kind # "DATA"
  BY <1>1, <1>2 DEF IsQuery, Kinds
<1> QED  BY <1>3 DEF q

LEMMA ClosedIsQuery ==
  ASSUME NEW q, IsQuery(q), q.kind # "NONE"
  PROVE  /\ IsQuery(CloseQuery(q)) /\ ~CloseQuery(q).open
         /\ CloseQuery(q).kind = "DATA" => CloseQuery(q).pos = 0
<1>1. CASE q.kind \in {"DATA", "COLUMNS", "TABLES"}
  <2>1. CloseQuery(q) = New(q.kind) /\ q.kind \in Kinds
    BY <1>1 DEF CloseQuery, Kinds
  <2> QED  BY <2>1, NewIsQuery
<1>2. CASE q.kind = "TYPEINFO"
  <2> DEFINE p == Len(q.rows) + 1
             r == q.rows
             c == [kind |-> "TYPEINFO", open |-> FALSE, rows |-> r, pos |-> p]
  <2>1. CloseQuery(q) = [q EXCEPT !.open = FALSE, !.pos = p]
    BY <1>2 DEF CloseQuery
  <2>2. q = [kind |-> "TYPEINFO", open |-> q.open, rows |-> r, pos |-> q.pos]
    BY <1>2 DEF IsQuery
  <2>3. [q EXCEPT !.open = FALSE, !.pos = p] = c
    <3> DEFINE no == FALSE
               o  == q.open
               e  == q.pos
    <3>1. q = [kind |-> "TYPEINFO", open |-> o, rows |-> r, pos |-> e]
      BY <2>2
    <3>2. c = [kind |-> "TYPEINFO", open |-> no, rows |-> r, pos |-> p]
      OBVIOUS
    <3> HIDE DEF no
    <3>3. [q EXCEPT !.open = no, !.pos = p] = c
      <4> HIDE DEF p, r, o, e, c
      <4>1. [q EXCEPT !.open = no]
              = [kind |-> "TYPEINFO", open |-> no, rows |-> r, pos |-> e]
        BY <3>1
      <4>2. [[kind |-> "TYPEINFO", open |-> no, rows |-> r, pos |-> e]
               EXCEPT !.pos = p]
              = [kind |-> "TYPEINFO", open |-> no, rows |-> r, pos |-> p]
        OBVIOUS
      <4>3. [[q EXCEPT !.open = no] EXCEPT !.pos = p] = c
        BY <4>1, <4>2, <3>2, Zenon
      <4>4. [q EXCEPT !.open = no, !.pos = p]
              = [[q EXCEPT !.open = no] EXCEPT !.pos = p]
        OBVIOUS
      <4> QED  BY <4>3, <4>4, Zenon
    <3> QED  BY <3>3 DEF no
  <2>4. IsQuery(c) /\ c.kind # "DATA" /\ c.open = FALSE
    BY CatalogIsQuery
  <2> QED  BY <2>1, <2>3, <2>4
<1>3. CASE q.kind = "EMPTY"
  BY <1>3 DEF CloseQuery, IsQuery
<1> QED  BY <1>1, <1>2, <1>3 DEF IsQuery, Kinds

LEMMA NothingLostYet ==
  ASSUME NEW q, IsQuery(q), q.kind = "DATA", q.pos = 0
  PROVE  Lost(q) = {}
BY DEF IsQuery, Lost

LEMMA CalledIs ==
  ASSUME NEW c, NEW r
  PROVE  Called(c, r).call = c /\ "SUCCESS" \notin ToSet(Called(c, r).statuses)
BY DEF Called, ToSet

LEMMA ExecutedKeeps ==
  ASSUME StatementInv, NEW q, NEW ret, NEW lost, NEW want,
         IsQuery(q), q.kind = "DATA" => q.pos = 0,
         Executed(q, ret, lost, want)
  PROVE  StatementInv'
<1>1. /\ query' = q /\ last' = Called("execute", ret)
      /\ told' = FALSE /\ ended' = FALSE /\ live' = q.open
      /\ rowArraySize' = rowArraySize /\ rowsetSize' = rowsetSize
  BY DEF Executed, attrs
<1>2. IsQuery(query)' /\ q.open \in BOOLEAN
  BY <1>1 DEF IsQuery
<1>3. rowArraySize' \in Nat /\ rowsetSize' \in Nat
  BY <1>1 DEF StatementInv
<1>4. told' \in BOOLEAN /\ ended' \in BOOLEAN /\ live' \in BOOLEAN
  BY <1>1, <1>2
<1>5. EndedIsExhausted' /\ EndIsFinal'
  BY <1>1 DEF EndedIsExhausted, EndIsFinal
<1>6. OpenIsLive'
  BY <1>1, Zenon DEF OpenIsLive
<1>7. LossIsTold'
  BY <1>1, NothingLostYet DEF LossIsTold
<1>8. NoRowWhenNotLive'
  BY <1>1, CalledIs DEF NoRowWhenNotLive
<1> QED  BY <1>2, <1>3, <1>4, <1>5, <1>6, <1>7, <1>8 DEF StatementInv

LEMMA EndsKeeps ==
  ASSUME StatementInv, NEW q, NEW ret, IsQuery(q), ~q.open,
         q.kind = "DATA" => q.pos = 0, Ends(q, ret)
  PROVE  StatementInv'
<1>1. /\ query' = q /\ last' = Called("other", ret)
      /\ told' = FALSE /\ ended' = FALSE /\ live' = FALSE
      /\ rowArraySize' = rowArraySize /\ rowsetSize' = rowsetSize
  BY DEF Ends, attrs
<1>2. IsQuery(query)'
  BY <1>1 DEF IsQuery
<1>3. rowArraySize' \in Nat /\ rowsetSize' \in Nat
  BY <1>1 DEF StatementInv
<1>4. EndedIsExhausted' /\ EndIsFinal'
  BY <1>1 DEF EndedIsExhausted, EndIsFinal
<1>5. OpenIsLive'
  BY <1>1, Zenon DEF OpenIsLive
<1>6. LossIsTold'
  BY <1>1, NothingLostYet DEF LossIsTold
<1>7. NoRowWhenNotLive'
  BY <1>1, CalledIs DEF NoRowWhenNotLive
<1> QED  BY <1>1, <1>2, <1>3, <1>4, <1>5, <1>6, <1>7 DEF StatementInv

\* A call that leaves the query and its history alone.
LEMMA QuietKeeps ==
  ASSUME StatementInv, NEW ret, last' = Called("other", ret),
         UNCHANGED <<query, history>>,
         rowArraySize' \in Nat, rowsetSize' \in Nat
  PROVE  StatementInv'
<1>1. /\ query' = query /\ told' = told /\ ended' = ended /\ live' = live
  BY DEF history
<1>2. IsQuery(query)'
  BY <1>1 DEF IsQuery, StatementInv
<1>3. told' \in BOOLEAN /\ ended' \in BOOLEAN /\ live' \in BOOLEAN
  BY <1>1 DEF StatementInv
<1>4. EndedIsExhausted'
  BY <1>1 DEF EndedIsExhausted, Exhausted, AtEnd, StatementInv
<1>5. OpenIsLive'
  BY <1>1, Zenon DEF OpenIsLive, StatementInv
<1>6. LossIsTold'
  BY <1>1, Zenon DEF LossIsTold, Lost, StatementInv
<1>7. NoRowWhenNotLive' /\ EndIsFinal'
  BY CalledIs DEF NoRowWhenNotLive, EndIsFinal
<1> QED  BY <1>2, <1>3, <1>4, <1>5, <1>6, <1>7 DEF StatementInv

LEMMA AnswersKeeps ==
  ASSUME StatementInv, NEW ret, Answers(ret)
  PROVE  StatementInv'
<1>1. /\ last' = Called("other", ret) /\ UNCHANGED <<query, history>>
      /\ rowArraySize' \in Nat /\ rowsetSize' \in Nat
  BY DEF Answers, attrs, history, StatementInv
<1> QED  BY <1>1, QuietKeeps

LEMMA FetchRowsKeeps ==
  ASSUME StatementInv, NEW n \in Nat, FetchRows(n)
  PROVE  StatementInv'
<1>1. CASE query.kind = "NONE" /\ Answers("ERROR")
  BY <1>1, AnswersKeeps
<1>2. CASE ~(query.kind = "NONE" /\ Answers("ERROR"))
  <2> DEFINE set == Rowset(query, n)
             ret == FetchResult(set.statuses)
  <2>1. /\ query' = set.q
        /\ last' = [call |-> "fetch", ret |-> ret, statuses |-> set.statuses]
        /\ told' = (told \/ ret \in {"ERROR", "SUCCESS_WITH_INFO"})
        /\ ended' = (ended \/ (ret = "NO_DATA" /\ n > 0))
        /\ live' = live
        /\ rowArraySize' = rowArraySize /\ rowsetSize' = rowsetSize
    BY <1>2 DEF FetchRows, attrs
  <2>2. IsQuery(query)
    BY DEF StatementInv
  <2>3. RowsFetched(set, query) /\ Len(set.statuses) = n
    BY <2>2, RowsetFetched
  <2>4. set.statuses \in Seq(Results)
    BY <2>3, Zenon DEF RowsFetched
  <2>5. /\ ret = "NO_DATA" <=> ToSet(set.statuses) \subseteq {"NO_DATA"}
        /\ "ERROR" \in ToSet(set.statuses)
             => ret \in {"ERROR", "SUCCESS_WITH_INFO"}
    BY <2>4, FetchResultIs
  <2> HIDE DEF set, ret
  <2>6. /\ IsQuery(set.q) /\ set.q.kind = query.kind
        /\ Exhausted(query)
             => set.q = query /\ ToSet(set.statuses) \subseteq {"NO_DATA"}
        /\ ToSet(set.statuses) = {"NO_DATA"} => Exhausted(set.q)
        /\ ~query.open => ~set.q.open /\ "SUCCESS" \notin ToSet(set.statuses)
        /\ query.kind = "DATA" => \/ Lost(set.q) \subseteq Lost(query)
                                  \/ "ERROR" \in ToSet(set.statuses)
    BY <2>3, Zenon DEF RowsFetched
  <2>7. n > 0 => ToSet(set.statuses) # {}
    BY <2>3, <2>4, SMTT(30) DEF ToSet
  <2>8. last'.call = "fetch" /\ last'.ret = ret
          /\ last'.statuses = set.statuses
    BY <2>1
  <2>9. IsQuery(query)'
    BY <2>1, <2>6 DEF IsQuery
  <2>10. /\ rowArraySize' \in Nat /\ rowsetSize' \in Nat
         /\ told' \in BOOLEAN /\ ended' \in BOOLEAN /\ live' \in BOOLEAN
    BY <2>1 DEF StatementInv
  <2>11. ended' => Exhausted(set.q) /\ ret = "NO_DATA"
    <3>1. CASE ended
      <4>1. Exhausted(query)
        BY <3>1 DEF StatementInv, EndedIsExhausted
      <4> QED  BY <4>1, <2>5, <2>6
    <3>2. CASE ret = "NO_DATA" /\ n > 0
      <4>1. ToSet(set.statuses) = {"NO_DATA"}
        BY <3>2, <2>5, <2>7
      <4> QED  BY <4>1, <3>2, <2>6
    <3> QED  BY <3>1, <3>2, <2>1
  <2>12. EndedIsExhausted'
    BY <2>1, <2>11 DEF EndedIsExhausted, Exhausted, AtEnd
  <2>13. EndIsFinal'
    BY <2>8, <2>11 DEF EndIsFinal
  <2>14. ~live => ~query.open
    BY Zenon DEF StatementInv, OpenIsLive
  <2>15. OpenIsLive'
    BY <2>1, <2>6, <2>14, Zenon DEF OpenIsLive
  <2>16. NoRowWhenNotLive'
    BY <2>1, <2>6, <2>8, <2>14, Zenon DEF NoRowWhenNotLive
  <2>17. LossIsTold'
    <3> SUFFICES ASSUME set.q.kind = "DATA", Lost(set.q) # {} PROVE told'
      BY <2>1 DEF LossIsTold, Lost
    <3>1. CASE Lost(set.q) \subseteq Lost(query)
      <4>1. told
        BY <3>1, <2>6 DEF StatementInv, LossIsTold
      <4> QED  BY <4>1, <2>1
    <3>2. CASE "ERROR" \in ToSet(set.statuses)
      BY <3>2, <2>1, <2>5
    <3> QED  BY <3>1, <3>2, <2>6
  <2> QED  BY <2>9, <2>10, <2>12, <2>13, <2>15, <2>16, <2>17 DEF StatementInv
<1> QED  BY <1>1, <1>2

-----------------------------------------------------------------------------
(* The executions *)

LEMMA DataExecuted ==
  ASSUME StatementInv, ExecuteData
  PROVE  StatementInv'
<1>1. ASSUME NEW ret, Executed(New("DATA"), ret, FALSE, {})
      PROVE  StatementInv'
  <2>1. IsQuery(New("DATA")) /\ New("DATA").pos = 0
    BY NewIsQuery DEF Kinds
  <2> QED  BY <1>1, <2>1, ExecutedKeeps
<1>2. ASSUME NEW n \in 1 .. MaxRows, NEW lost \in BOOLEAN,
             NEW values \in [1 .. n -> {"ok", "noted", "bad"}],
             Executed([kind |-> "DATA", open |-> TRUE, pos |-> 0,
                       rows |-> DataRows(n, values, lost)], "SUCCESS", FALSE, {})
      PROVE  StatementInv'
  <2> DEFINE d == DataRows(n, values, lost)
             o == TRUE
             q == [kind |-> "DATA", open |-> o, pos |-> 0, rows |-> d]
  <2>1. Len(d) = n /\ DOMAIN d = 1 .. n /\ n \in Nat
    BY BoundsAssumption DEF DataRows
  <2>2. Executed(q, "SUCCESS", FALSE, {})
    BY <1>2
  <2>6. o \in BOOLEAN
    OBVIOUS
  <2> HIDE DEF d, o
  <2>3. q.kind = "DATA" /\ q.open = o /\ q.pos = 0 /\ q.rows = d
    OBVIOUS
  <2>4. q = [kind |-> q.kind, open |-> q.open, rows |-> q.rows, pos |-> q.pos]
    BY <2>3
  <2> HIDE DEF q
  <2>5. IsQuery(q)
    BY <2>1, <2>3, <2>4, <2>6 DEF IsQuery, Kinds
  <2> QED  BY <2>2, <2>3, <2>5, ExecutedKeeps
<1>3. CASE Executed(New("DATA"), "ERROR", FALSE, {})
  BY <1>3, <1>1
<1>4. CASE Executed(New("DATA"), "SUCCESS_WITH_INFO", FALSE, {})
  BY <1>4, <1>1
<1>5. CASE \E n \in 1 .. MaxRows, lost \in BOOLEAN :
             /\ lost => n > 1
             /\ \E values \in [1 .. n -> {"ok", "noted", "bad"}] :
                  Executed([kind |-> "DATA", open |-> TRUE, pos |-> 0,
                            rows |-> DataRows(n, values, lost)], "SUCCESS",
                           FALSE, {})
  BY <1>5, <1>2, Zenon
<1> QED  BY <1>3, <1>4, <1>5, Zenon DEF ExecuteData

\* A catalog function that leaves a query that is open or not, with any rows.
LEMMA CatalogExecuted ==
  ASSUME StatementInv, NEW k \in {"COLUMNS", "TABLES", "TYPEINFO"},
         NEW o \in BOOLEAN, NEW r, NEW ret, NEW lost, NEW want,
         \/ Executed([kind |-> k, open |-> o, pos |-> 0, rows |-> r],
                     ret, lost, want)
         \/ Executed([kind |-> k, open |-> o, rows |-> r, pos |-> 0],
                     ret, lost, want)
  PROVE  StatementInv'
<1> DEFINE q == [kind |-> k, open |-> o, rows |-> r, pos |-> 0]
<1>1. q = [kind |-> k, open |-> o, pos |-> 0, rows |-> r]
  OBVIOUS
<1>2. IsQuery(q) /\ q.kind # "DATA"
  BY CatalogIsQuery
<1> HIDE DEF q
<1>3. Executed(q, ret, lost, want)
  BY <1>1
<1> QED  BY <1>2, <1>3, ExecutedKeeps

\* The same for a query that is left new.
LEMMA NewExecuted ==
  ASSUME StatementInv, NEW k \in Kinds, NEW ret, NEW lost, NEW want,
         Executed(New(k), ret, lost, want)
  PROVE  StatementInv'
BY NewIsQuery, ExecutedKeeps

LEMMA TablesExecuted ==
  ASSUME StatementInv, ExecuteTableTypes \/ ExecuteTableNames
  PROVE  StatementInv'
<1>1. ASSUME NEW r
      PROVE  /\ [New("TABLES") EXCEPT !.open = TRUE, !.rows = r]
                  = [kind |-> "TABLES", open |-> TRUE, rows |-> r, pos |-> 0]
             /\ [New("TABLES") EXCEPT !.open = TRUE]
                  = [kind |-> "TABLES", open |-> TRUE, rows |-> <<>>,
                     pos |-> 0]
  <2> DEFINE no  == FALSE
             yes == TRUE
             q   == [kind |-> "TABLES", open |-> no, rows |-> <<>>, pos |-> 0]
  <2>1. New("TABLES") = q
    BY DEF New
  <2> HIDE DEF no, yes
  <2>2. /\ [q EXCEPT !.open = yes, !.rows = r]
             = [kind |-> "TABLES", open |-> yes, rows |-> r, pos |-> 0]
        /\ [q EXCEPT !.open = yes]
             = [kind |-> "TABLES", open |-> yes, rows |-> <<>>, pos |-> 0]
    <3> HIDE DEF q
    <3>1. [q EXCEPT !.open = yes]
            = [kind |-> "TABLES", open |-> yes, rows |-> <<>>, pos |-> 0]
      BY DEF q
    <3>2. [[kind |-> "TABLES", open |-> yes, rows |-> <<>>, pos |-> 0]
             EXCEPT !.rows = r]
            = [kind |-> "TABLES", open |-> yes, rows |-> r, pos |-> 0]
      OBVIOUS
    <3>3. [[q EXCEPT !.open = yes] EXCEPT !.rows = r]
            = [kind |-> "TABLES", open |-> yes, rows |-> r, pos |-> 0]
      BY <3>1, <3>2, Zenon
    <3>4. [q EXCEPT !.open = yes, !.rows = r]
            = [[q EXCEPT !.open = yes] EXCEPT !.rows = r]
      OBVIOUS
    <3> QED  BY <3>1, <3>3, <3>4, Zenon
  <2> HIDE DEF q
  <2> QED  BY <2>1, <2>2 DEF yes
<1>2. CASE ExecuteTableTypes
  <2> DEFINE one  == <<TableRow(NoName)>>
             none == <<>>
             A == [New("TABLES") EXCEPT !.open = TRUE, !.rows = one]
             B == [New("TABLES") EXCEPT !.open = TRUE]
             E(r) == [kind |-> "TABLES", open |-> TRUE, rows |-> r, pos |-> 0]
  <2>1. \/ Executed(A, "SUCCESS", FALSE, {TableRow(NoName)})
        \/ Executed(B, "SUCCESS_WITH_INFO", FALSE, {})
    BY <1>2 DEF ExecuteTableTypes
  <2>2. A = E(one) /\ B = E(none)
    BY <1>1, Zenon
  <2>3. ASSUME NEW r, NEW ret, NEW want, Executed(E(r), ret, FALSE, want)
        PROVE  StatementInv'
    BY <2>3, CatalogExecuted
  <2> HIDE DEF A, B, E, one, none
  <2> QED  BY <2>1, <2>2, <2>3
<1>3. CASE ExecuteTableNames
  <2>1. \E o \in BOOLEAN : \E r, ret, lost, want :
          Executed([kind |-> "TABLES", open |-> o, pos |-> 0, rows |-> r],
                   ret, lost, want)
    BY <1>3, Zenon DEF ExecuteTableNames
  <2> QED  BY <2>1, CatalogExecuted
<1> QED  BY <1>2, <1>3

LEMMA ColumnsExecuted ==
  ASSUME StatementInv, NEW noData,
         \/ ExecuteColumnsRefused
         \/ ExecuteColumnsPattern(noData) \/ ExecuteColumnsIdentifier(noData)
  PROVE  StatementInv'
<1>1. ASSUME NEW ret, NEW lost, NEW want,
             Executed(New("COLUMNS"), ret, lost, want)
      PROVE  StatementInv'
  BY <1>1, NewExecuted DEF Kinds
<1>2. ASSUME NEW c, NEW lost, NEW want,
             ExecutedColumns(c, lost, want, noData)
      PROVE  StatementInv'
  <2>1. (c.ret = "SUCCESS") \in BOOLEAN
    OBVIOUS
  <2> QED  BY <1>2, <2>1, CatalogExecuted DEF ExecutedColumns
<1>3. CASE ExecuteColumnsRefused
  BY <1>3, <1>1 DEF ExecuteColumnsRefused
<1>4. CASE ExecuteColumnsPattern(noData)
  <2>1. \/ \E ret, lost, want : Executed(New("COLUMNS"), ret, lost, want)
        \/ \E c, lost, want : ExecutedColumns(c, lost, want, noData)
    BY <1>4, Zenon DEF ExecuteColumnsPattern
  <2> QED  BY <2>1, <1>1, <1>2
<1>5. CASE ExecuteColumnsIdentifier(noData)
  <2>1. \/ \E ret, lost, want : Executed(New("COLUMNS"), ret, lost, want)
        \/ \E c, lost, want : ExecutedColumns(c, lost, want, noData)
    BY <1>5, Zenon DEF ExecuteColumnsIdentifier
  <2> QED  BY <2>1, <1>1, <1>2
<1> QED  BY <1>3, <1>4, <1>5

LEMMA TypesExecuted ==
  ASSUME StatementInv, NEW rows, ExecuteTypes(rows)
  PROVE  StatementInv'
BY CatalogExecuted DEF ExecuteTypes

LEMMA EmptyExecuted ==
  ASSUME StatementInv, ExecuteEmpty
  PROVE  StatementInv'
BY NewExecuted DEF ExecuteEmpty, Kinds

-----------------------------------------------------------------------------
(* The invariant is inductive *)

LEMMA StatementInitial == Init => StatementInv
<1> SUFFICES ASSUME Init PROVE StatementInv
  OBVIOUS
<1>1. /\ query = New("NONE") /\ rowArraySize = 1 /\ rowsetSize \in 0 .. MaxRowset
      /\ last = Called("other", "SUCCESS")
      /\ told = FALSE /\ ended = FALSE /\ live = FALSE
  BY DEF Init
<1>2. IsQuery(query) /\ query.kind = "NONE" /\ ~query.open
  BY <1>1, NewIsQuery DEF Kinds
<1>3. rowArraySize \in Nat /\ rowsetSize \in Nat
  BY <1>1, BoundsAssumption
<1>4. EndedIsExhausted /\ EndIsFinal /\ LossIsTold
  BY <1>1, <1>2 DEF EndedIsExhausted, EndIsFinal, LossIsTold
<1>5. OpenIsLive
  BY <1>2, Zenon DEF OpenIsLive
<1>6. NoRowWhenNotLive
  BY <1>1, CalledIs DEF NoRowWhenNotLive
<1> QED  BY <1>1, <1>2, <1>3, <1>4, <1>5, <1>6 DEF StatementInv

LEMMA StatementStep == StatementInv /\ [Next]_vars => StatementInv'
<1> SUFFICES ASSUME StatementInv, [Next]_vars PROVE StatementInv'
  OBVIOUS
<1>1. IsQuery(query) /\ rowArraySize \in Nat /\ rowsetSize \in Nat
  BY DEF StatementInv
<1>2. CASE Prepare
  <2>1. IsQuery(New("DATA")) /\ ~New("DATA").open /\ New("DATA").pos = 0
    BY NewIsQuery DEF Kinds
  <2> QED  BY <1>2, <2>1, EndsKeeps DEF Prepare
<1>3. CASE ExecuteDirect
  BY <1>3, DataExecuted DEF ExecuteDirect
<1>4. CASE Execute
  <2>1. CASE query.kind = "NONE" /\ Answers("ERROR")
    BY <2>1, AnswersKeeps
  <2>2. CASE query.kind = "DATA" /\ ExecuteData
    BY <2>2, DataExecuted
  <2>3. CASE query.kind = "TABLES" /\ (ExecuteTableTypes \/ ExecuteTableNames)
    BY <2>3, TablesExecuted
  <2>4. CASE query.kind = "COLUMNS" /\ (\/ ExecuteColumnsRefused
                                        \/ ExecuteColumnsPattern("SUCCESS_WITH_INFO")
                                        \/ ExecuteColumnsIdentifier("SUCCESS_WITH_INFO"))
    BY <2>4, ColumnsExecuted
  <2>5. CASE query.kind = "TYPEINFO" /\ ExecuteTypes(query.rows)
    BY <2>5, TypesExecuted
  <2>6. CASE query.kind = "EMPTY" /\ ExecuteEmpty
    BY <2>6, EmptyExecuted
  <2> QED  BY <1>4, <2>1, <2>2, <2>3, <2>4, <2>5, <2>6, Zenon DEF Execute
<1>5. CASE ExecuteGetTablesMetaQuery
  BY <1>5, TablesExecuted DEF ExecuteGetTablesMetaQuery
<1>6. CASE ExecuteGetColumnsMetaQuery
  BY <1>6, ColumnsExecuted DEF ExecuteGetColumnsMetaQuery
<1>7. CASE ExecuteUnsupportedQuery
  BY <1>7, EmptyExecuted DEF ExecuteUnsupportedQuery
<1>8. CASE ExecuteGetTypeInfoQuery
  <2>1. \/ Answers("ERROR")
        \/ \E rows : ExecuteTypes(rows)
    BY <1>8, Zenon DEF ExecuteGetTypeInfoQuery
  <2> QED  BY <2>1, AnswersKeeps, TypesExecuted
<1>9. ASSUME NEW ret, query.kind # "NONE", Ends(CloseQuery(query), ret)
      PROVE  StatementInv'
  BY <1>1, <1>9, ClosedIsQuery, EndsKeeps
<1>10. CASE Cancel
  BY <1>10, <1>9, AnswersKeeps DEF Cancel
<1>11. ASSUME NEW b \in BOOLEAN, InternalClose(b)
       PROVE  StatementInv'
  <2>1. \/ \E ret : Answers(ret)
        \/ DataAvailable(query) /\ Ends(CloseQuery(query), "SUCCESS")
    BY <1>11, Zenon DEF InternalClose
  <2>2. DataAvailable(query) => query.kind # "NONE"
    BY DEF DataAvailable
  <2> QED  BY <2>1, <2>2, <1>9, AnswersKeeps
<1>12. CASE GetMeta
  BY <1>12, <1>9, AnswersKeeps DEF GetMeta
<1>13. CASE MoreResults
  BY <1>13, AnswersKeeps DEF MoreResults
<1>14. CASE FetchScroll
  BY <1>1, <1>14, AnswersKeeps, FetchRowsKeeps DEF FetchScroll
<1>15. CASE ExtendedFetch
  BY <1>1, <1>15, AnswersKeeps, FetchRowsKeeps DEF ExtendedFetch
<1>16. CASE SetAttribute
  <2>1. CASE SetSize
    <3>1. rowArraySize' \in Nat /\ rowsetSize' \in Nat
      BY <1>1, <2>1, BoundsAssumption DEF SetSize
    <3> QED  BY <2>1, <3>1, QuietKeeps DEF SetSize
  <2>2. CASE SetMetadataID
    BY <1>1, <2>2, QuietKeeps DEF SetMetadataID
  <2> QED  BY <1>16, <2>1, <2>2, AnswersKeeps DEF SetAttribute
<1>17. CASE UNCHANGED vars
  <2>1. /\ query' = query /\ rowArraySize' = rowArraySize
        /\ rowsetSize' = rowsetSize /\ last' = last /\ told' = told
        /\ ended' = ended /\ live' = live
    BY <1>17 DEF vars
  <2> QED  BY <2>1, Zenon DEF StatementInv, IsQuery, EndedIsExhausted,
                              OpenIsLive, LossIsTold, NoRowWhenNotLive,
                              EndIsFinal, Exhausted, AtEnd, Lost
<1> QED  BY <1>2, <1>3, <1>4, <1>5, <1>6, <1>7, <1>8, <1>10, <1>11, <1>12,
            <1>13, <1>14, <1>15, <1>16, <1>17, Zenon DEF Next

LEMMA StatementInvariance == Spec => []StatementInv
BY StatementInitial, StatementStep, PTL DEF Spec

-----------------------------------------------------------------------------
(* The loops of the catalog functions *)

\* f[i] is what a loop that goes from base by step has after i of n rounds.
IsLoop(f, S, base, step, n) ==
  /\ f \in [0 .. n -> S] /\ f[0] = base
  /\ \A i \in 1 .. n : f[i] = step[i][f[i - 1]]

LEMMA LoopExists ==
  ASSUME NEW S, NEW base, NEW n, NEW step,
         base \in S, n \in Nat, step \in [1 .. n -> [S -> S]]
  PROVE  \E f : IsLoop(f, S, base, step, n)
<1> DEFINE Runs(f, k) == IsLoop(f, S, base, step, k)
           T == {k \in Nat : k <= n => \E f : Runs(f, k)}
<1>1. Runs([i \in 0 .. 0 |-> base], 0)
  BY DEF IsLoop
<1>2. ASSUME NEW k \in Nat, k + 1 <= n, NEW f, Runs(f, k)
      PROVE  \E g : Runs(g, k + 1)
  <2> USE DEF IsLoop
  <2> DEFINE g == [i \in 0 .. k + 1 |->
                     IF i = k + 1 THEN step[k + 1][f[k]] ELSE f[i]]
  <2>1. f[k] \in S /\ k + 1 \in 1 .. n
    BY <1>2
  <2>2. step[k + 1][f[k]] \in S
    BY <2>1
  <2>3. g \in [0 .. k + 1 -> S] /\ g[0] = base
    BY <1>2, <2>2
  <2>4. ASSUME NEW i \in 1 .. k + 1
        PROVE  g[i] = step[i][g[i - 1]]
    <3>1. CASE i = k + 1
      <4>1. g[i - 1] = f[k] /\ g[i] = step[k + 1][f[k]]
        BY <3>1
      <4> QED  BY <3>1, <4>1
    <3>2. CASE i # k + 1
      <4>1. i \in 1 .. k /\ i - 1 \in 0 .. k
        BY <3>2
      <4>2. g[i] = f[i] /\ g[i - 1] = f[i - 1]
        BY <3>2, <4>1
      <4> QED  BY <1>2, <4>1, <4>2
    <3> QED  BY <3>1, <3>2
  <2> HIDE DEF g
  <2>5. Runs(g, k + 1)
    BY <2>3, <2>4
  <2> QED  BY <2>5
<1> HIDE DEF Runs
<1>3. 0 \in T
  BY <1>1
<1>4. \A k \in T : k + 1 \in T
  <2> SUFFICES ASSUME NEW k \in Nat, k <= n => \E f : Runs(f, k), k + 1 <= n
               PROVE  \E g : Runs(g, k + 1)
    OBVIOUS
  <2>1. k <= n
    OBVIOUS
  <2> QED  BY <1>2, <2>1
<1>5. T \subseteq Nat
  OBVIOUS
<1> HIDE DEF T
<1>6. n \in T
  BY <1>3, <1>4, <1>5, SetInduction
<1>7. PICK f : Runs(f, n)
  BY <1>6 DEF T
<1> QED  BY <1>7 DEF Runs

\* The sequence s has every element of S once and nothing else.
Lists(s, S) ==
  /\ s \in Seq(S) /\ ToSet(s) = S
  /\ IsFiniteSet(S) /\ Len(s) = Cardinality(S)

LEMMA NothingListed == Lists(<<>>, {})
<1>1. ToSet(<<>>) = {}
  BY DEF ToSet
<1> QED  BY <1>1, FS_EmptySet DEF Lists

\* One element more.
LEMMA AppendLists ==
  ASSUME NEW s, NEW S, Lists(s, S), NEW x, x \notin S
  PROVE  Lists(Append(s, x), S \cup {x})
<1> DEFINE U == S \cup {x}
<1>1. s \in Seq(S) /\ ToSet(s) = S /\ IsFiniteSet(S) /\ Len(s) = Cardinality(S)
  BY DEF Lists
<1>2. s \in Seq(U) /\ x \in U
  BY <1>1
<1>3. /\ Append(s, x) \in Seq(U) /\ Len(Append(s, x)) = Len(s) + 1
      /\ ToSet(Append(s, x)) = ToSet(s) \cup {x}
  <2> HIDE DEF U
  <2> QED  BY <1>2, AppendToSet
<1>4. IsFiniteSet(U) /\ Cardinality(U) = Cardinality(S) + 1
  BY <1>1, FS_AddElement
<1> QED  BY <1>1, <1>3, <1>4 DEF Lists

\* A list after another that has no element in common with it.
LEMMA ConcatLists ==
  ASSUME NEW s, NEW S, Lists(s, S), NEW u, NEW U, Lists(u, U), S \cap U = {}
  PROVE  Lists(s \o u, S \cup U)
<1> DEFINE W == S \cup U
           w == s \o u
<1>1. s \in Seq(S) /\ ToSet(s) = S /\ IsFiniteSet(S) /\ Len(s) = Cardinality(S)
  BY DEF Lists
<1>2. u \in Seq(U) /\ ToSet(u) = U /\ IsFiniteSet(U) /\ Len(u) = Cardinality(U)
  BY DEF Lists
<1>3. s \in Seq(W) /\ u \in Seq(W)
  BY <1>1, <1>2
<1>4. /\ w \in Seq(W) /\ Len(w) = Len(s) + Len(u)
      /\ \A i \in 1 .. Len(s) : w[i] = s[i]
      /\ \A i \in 1 .. Len(u) : w[Len(s) + i] = u[i]
  <2> HIDE DEF W
  <2> QED  BY <1>3
<1>5. /\ DOMAIN w = 1 .. Len(s) + Len(u) /\ DOMAIN s = 1 .. Len(s)
      /\ DOMAIN u = 1 .. Len(u) /\ Len(s) \in Nat /\ Len(u) \in Nat
  BY <1>1, <1>2, <1>4
<1> HIDE DEF w
<1>6. ASSUME NEW x \in S PROVE x \in ToSet(w)
  <2>1. PICK i \in DOMAIN s : x = s[i]
    BY <1>1 DEF ToSet
  <2>2. i \in DOMAIN w /\ w[i] = x
    BY <1>4, <1>5, <2>1
  <2> QED  BY <2>2 DEF ToSet
<1>7. ASSUME NEW x \in U PROVE x \in ToSet(w)
  <2>1. PICK i \in DOMAIN u : x = u[i]
    BY <1>2 DEF ToSet
  <2>2. Len(s) + i \in DOMAIN w /\ w[Len(s) + i] = x
    BY <1>4, <1>5, <2>1
  <2> QED  BY <2>2 DEF ToSet
<1>8. ToSet(w) \subseteq W
  BY <1>4 DEF ToSet
<1>9. ToSet(w) = W
  BY <1>6, <1>7, <1>8
<1>10. IsFiniteSet(W) /\ Cardinality(W) = Len(w)
  <2>1. /\ IsFiniteSet(W)
        /\ Cardinality(W) = Cardinality(S) + Cardinality(U) - Cardinality(S \cap U)
    BY <1>1, <1>2, FS_Union
  <2>2. Cardinality(S \cap U) = 0
    BY FS_EmptySet
  <2> QED  BY <1>1, <1>2, <1>4, <1>5, <2>1, <2>2
<1> QED  BY <1>4, <1>9, <1>10 DEF Lists, w

LEMMA OneListed ==
  ASSUME NEW x
  PROVE  Lists(<<x>>, {x})
<1>1. <<x>> \in Seq({x}) /\ Len(<<x>>) = 1 /\ ToSet(<<x>>) = {x}
  BY DEF ToSet
<1> QED  BY <1>1, FS_Singleton DEF Lists

\* The rows of a list of tables.
LEMMA RowsOfTables ==
  ASSUME NEW s, NEW S, Lists(s, S)
  PROVE  Lists([i \in DOMAIN s |-> TableRow(s[i])], {TableRow(t) : t \in S})
<1> DEFINE r == [i \in DOMAIN s |-> TableRow(s[i])]
           R == {TableRow(t) : t \in S}
           f == [t \in S |-> TableRow(t)]
<1>1. s \in Seq(S) /\ ToSet(s) = S /\ IsFiniteSet(S) /\ Len(s) = Cardinality(S)
  BY DEF Lists
<1>2. DOMAIN s = 1 .. Len(s) /\ Len(s) \in Nat
  BY <1>1
<1>3. r \in Seq(R) /\ Len(r) = Len(s) /\ DOMAIN r = DOMAIN s
  BY <1>1, <1>2
<1>4. \A x : x \in ToSet(r) <=> x \in R
  <2>1. \A x : x \in ToSet(r) <=> \E i \in DOMAIN s : x = TableRow(s[i])
    BY DEF ToSet
  <2>2. \A t : t \in S <=> \E i \in DOMAIN s : t = s[i]
    BY <1>1 DEF ToSet
  <2> QED  BY <2>1, <2>2
<1>5. f \in Bijection(S, R)
  <2>1. f \in [S -> R]
    OBVIOUS
  <2>2. \A t, u : TableRow(t) = TableRow(u) => t = u
    BY DEF TableRow, Row
  <2>3. \A t, u \in S : f[t] = f[u] => t = u
    BY <2>2
  <2>4. \A x \in R : \E t \in S : f[t] = x
    OBVIOUS
  <2> HIDE DEF f, R
  <2> QED  BY <2>1, <2>3, <2>4 DEF Bijection, Injection, Surjection, IsInjective
<1>6. IsFiniteSet(R) /\ Cardinality(R) = Cardinality(S)
  <2>1. ExistsBijection(S, R)
    BY <1>5 DEF ExistsBijection
  <2> HIDE DEF R
  <2> QED  BY <1>1, <2>1, FS_Bijection
<1> HIDE DEF r, R
<1>7. Lists(r, R)
  BY <1>1, <1>3, <1>4, <1>6 DEF Lists
<1> QED  BY <1>7 DEF r, R

-----------------------------------------------------------------------------
(* SQLTables *)

\* g[i] is what the loop has listed after i of the names read.
IsTableLoop(g, names, n, only, asked) ==
  g = [i \in 0 .. n |->
         IF i = 0 THEN <<>>
         ELSE IF only => names[i] = asked THEN AddTable(g[i - 1], names[i])
         ELSE g[i - 1]]

LEMMA MatchedChoice ==
  ASSUME NEW inner, NEW only, NEW asked
  PROVE  MatchedTables(inner, only, asked)
           = (CHOOSE g : IsTableLoop(g, Answer(only, asked), inner.read, only,
                                     asked))[inner.read]
BY DEF MatchedTables, IsTableLoop

LEMMA TableLoopExists ==
  ASSUME NEW S, NEW names \in Seq(S), NEW n \in 0 .. Len(names), NEW only,
         NEW asked
  PROVE  \E g : IsTableLoop(g, names, n, only, asked)
<1> DEFINE Body(i, s) == IF only => names[i] = asked THEN AddTable(s, names[i])
                         ELSE s
           none == <<>>
           Q == Seq(S)
           step == [i \in 1 .. n |-> [s \in Q |-> Body(i, s)]]
<1>1. n \in Nat /\ none \in Q
  OBVIOUS
<1>2. \A i \in 1 .. n : \A s \in Q : Body(i, s) \in Q
  BY DEF AddTable
<1> HIDE DEF Body, Q
<1>3. step \in [1 .. n -> [Q -> Q]]
  BY <1>2
<1>4. \A i \in 1 .. n : \A s \in Q : step[i][s] = Body(i, s)
  OBVIOUS
<1> HIDE DEF step
<1>5. PICK g : IsLoop(g, Q, none, step, n)
  <2> HIDE DEF none
  <2> QED  BY <1>1, <1>3, LoopExists, Zenon
<1>6. ASSUME NEW i \in 1 .. n
      PROVE  g[i] = Body(i, g[i - 1])
  <2>1. i - 1 \in 0 .. n
    BY <1>1
  <2>2. g[i - 1] \in Q
    BY <1>5, <2>1 DEF IsLoop
  <2> QED  BY <1>4, <1>5, <2>2 DEF IsLoop
<1>7. \A i \in 0 .. n : i = 0 \/ i \in 1 .. n
  BY <1>1
<1>8. \A i \in 0 .. n : g[i] = IF i = 0 THEN <<>> ELSE Body(i, g[i - 1])
  BY <1>5, <1>6, <1>7, Zenon DEF IsLoop
<1>9. g = [i \in 0 .. n |-> g[i]]
  BY <1>5 DEF IsLoop
<1>10. g = [i \in 0 .. n |-> IF i = 0 THEN <<>> ELSE Body(i, g[i - 1])]
  BY <1>8, <1>9, Zenon
<1> QED  BY <1>10, Zenon DEF IsTableLoop, Body

\* The names among the first n that are kept.
Kept(names, n, only, asked) ==
  {names[k] : k \in {j \in 1 .. n : only => names[j] = asked}}

LEMMA TableLoopLists ==
  ASSUME NEW S, NEW names \in Seq(S), NEW n \in 0 .. Len(names), NEW only,
         NEW asked, NEW g, IsTableLoop(g, names, n, only, asked)
  PROVE  Lists(g[n], Kept(names, n, only, asked))
<1> DEFINE K(i) == Kept(names, i, only, asked)
           T == {i \in Nat : i <= n => Lists(g[i], K(i))}
<1>1. \A i \in 0 .. n : g[i] = IF i = 0 THEN <<>>
                               ELSE IF only => names[i] = asked
                                 THEN AddTable(g[i - 1], names[i])
                               ELSE g[i - 1]
  BY Zenon DEF IsTableLoop
<1>2. 0 \in T
  <2>1. K(0) = {} /\ g[0] = <<>>
    BY <1>1 DEF Kept
  <2> QED  BY <2>1, NothingListed
<1>3. ASSUME NEW i \in Nat, i + 1 <= n, Lists(g[i], K(i))
      PROVE  Lists(g[i + 1], K(i + 1))
  <2> DEFINE x == names[i + 1]
  <2>1. i + 1 \in 0 .. n /\ i + 1 # 0 /\ (i + 1) - 1 = i
    BY <1>3
  <2>2. g[i + 1] = IF only => x = asked THEN AddTable(g[i], x) ELSE g[i]
    BY <1>1, <2>1
  <2>3. 1 .. i + 1 = (1 .. i) \cup {i + 1}
    BY <1>3
  <2>4. (only => x = asked) => K(i + 1) = K(i) \cup {x}
    BY <2>3 DEF Kept
  <2>5. ~(only => x = asked) => K(i + 1) = K(i)
    BY <2>3 DEF Kept
  <2>6. Contains(g[i], x) <=> x \in K(i)
    <3>1. ToSet(g[i]) = K(i) /\ g[i] \in Seq(K(i))
      BY <1>3 DEF Lists
    <3> HIDE DEF K, x
    <3> QED  BY <3>1 DEF Contains, ToSet
  <2> HIDE DEF K, x
  <2>7. CASE ~(only => x = asked)
    BY <1>3, <2>2, <2>5, <2>7
  <2>8. CASE (only => x = asked) /\ x \in K(i)
    BY <1>3, <2>2, <2>4, <2>6, <2>8 DEF AddTable
  <2>9. CASE (only => x = asked) /\ x \notin K(i)
    <3>1. g[i + 1] = Append(g[i], x)
      BY <2>2, <2>6, <2>9 DEF AddTable
    <3> QED  BY <1>3, <2>4, <2>9, <3>1, AppendLists
  <2> QED  BY <2>7, <2>8, <2>9
<1> HIDE DEF K
<1>4. \A i \in T : i + 1 \in T
  <2> SUFFICES ASSUME NEW i \in Nat, i <= n => Lists(g[i], K(i)), i + 1 <= n
               PROVE  Lists(g[i + 1], K(i + 1))
    OBVIOUS
  <2>1. i <= n
    OBVIOUS
  <2> QED  BY <1>3, <2>1
<1>5. T \subseteq Nat
  OBVIOUS
<1> HIDE DEF T
<1>6. n \in Nat
  OBVIOUS
<1>7. T = Nat
  BY <1>2, <1>4, <1>5, SetInduction
<1> QED  BY <1>6, <1>7 DEF T, K

LEMMA AnswerIs ==
  ASSUME NEW only, NEW asked \in Tables \cup {NoName}
  PROVE  /\ Answer(only, asked) \in Seq(Tables)
         /\ Kept(Answer(only, asked), Len(Answer(only, asked)), only, asked)
              = TablesAskedFor(only, asked)
<1> DEFINE names == Answer(only, asked)
           N == Len(Names)
<1>1. /\ DOMAIN Names = 1 .. N /\ N \in Nat /\ Tables = {Names[k] : k \in 1 .. N}
      /\ NoName \notin Tables
  BY CatalogAssumption DEF Tables, ToSet
<1>2. Names \in Seq(Tables)
  <2>1. \A k \in 1 .. N : Names[k] \in Tables
    BY <1>1
  <2>2. Names \in [1 .. N -> Tables]
    BY <2>1, <1>1, CatalogAssumption
  <2>3. ASSUME NEW S, NEW m \in Nat, NEW f \in [1 .. m -> S]
        PROVE  f \in Seq(S)
    OBVIOUS
  <2> QED  BY <1>1, <2>2, <2>3
<1>3. CASE only \/ asked = NoName
  <2>1. names = Names
    BY <1>3 DEF Answer
  <2>2. CASE only
    <3>1. Kept(Names, N, only, asked) = {asked} \cap Tables
      BY <1>1, <2>2 DEF Kept
    <3> QED  BY <1>2, <2>1, <2>2, <3>1 DEF TablesAskedFor
  <2>3. CASE ~only
    <3>1. Kept(Names, N, only, asked) = Tables
      BY <1>1, <2>3 DEF Kept
    <3> QED  BY <1>2, <1>3, <2>1, <2>3, <3>1 DEF TablesAskedFor
  <2> QED  BY <2>2, <2>3
<1>4. CASE ~only /\ asked # NoName
  <2> DEFINE At == {k \in DOMAIN Names : Names[k] = asked}
             c == Cardinality(At)
  <2>1. asked \in Tables /\ At # {}
    BY <1>1, <1>4
  <2>2. IsFiniteSet(At)
    <3>1. IsFiniteSet(1 .. N) /\ At \in SUBSET (1 .. N)
      BY <1>1, FS_Interval
    <3> QED  BY <3>1, FS_Subset
  <2>3. c \in Nat /\ c # 0
    BY <2>1, <2>2, FS_CardinalityType, FS_EmptySet
  <2>4. names = [i \in 1 .. c |-> asked]
    BY <1>4 DEF Answer
  <2> HIDE DEF At, c, names
  <2>5. names \in Seq(Tables) /\ Len(names) = c
    BY <2>1, <2>3, <2>4
  <2>6. 1 \in 1 .. c /\ \A k \in 1 .. c : names[k] = asked
    BY <2>3, <2>4
  <2>7. Kept(names, c, only, asked) = {asked}
    BY <1>4, <2>6 DEF Kept
  <2>8. TablesAskedFor(only, asked) = {asked}
    BY <1>4, <2>1 DEF TablesAskedFor
  <2> QED  BY <2>5, <2>7, <2>8 DEF names
<1> QED  BY <1>3, <1>4

\* getTables lists the tables asked for when its query loses none.
LEMMA TablesComplete ==
  ASSUME NEW only, NEW asked \in Tables \cup {NoName}, NEW null,
         NEW inner \in InnerQuery(Len(Answer(only, asked))),
         ~Cut(inner, Len(Answer(only, asked))),
         GetTables(inner, only, asked, null).ret # "ERROR"
  PROVE  Lists(GetTables(inner, only, asked, null).tables,
               TablesAskedFor(only, asked))
<1> DEFINE names == Answer(only, asked)
           n == Len(names)
           g == GetTables(inner, only, asked, null)
<1>1. names \in Seq(Tables) /\ Kept(names, n, only, asked) = TablesAskedFor(only, asked)
  BY AnswerIs
<1>2. n \in Nat
  BY <1>1
<1> HIDE DEF names
<1>3. \/ inner.exec = "NO_DATA" /\ n = 0
      \/ inner.exec = "SUCCESS" /\ inner.read = n
      \/ inner.exec = "ERROR"
  <2> HIDE DEF n
  <2>1. \/ inner = [exec |-> "ERROR", read |-> 0]
        \/ n = 0 /\ inner = [exec |-> "NO_DATA", read |-> 0]
        \/ \E k \in 0 .. n : inner = [exec |-> "SUCCESS", read |-> k]
    BY DEF InnerQuery, n, names
  <2>2. ~(inner.exec = "SUCCESS" /\ inner.read < n)
    BY DEF Cut, n, names
  <2> QED  BY <1>2, <2>1, <2>2
<1>4. ~(only /\ null) /\ inner.exec # "ERROR"
  <2>1. only /\ null => g.ret = "ERROR"
    BY DEF GetTables
  <2>2. ~(only /\ null) /\ inner.exec = "ERROR" => g.ret = "ERROR"
    BY DEF GetTables
  <2> QED  BY <2>1, <2>2
<1>5. CASE inner.exec = "NO_DATA"
  <2>1. n = 0 /\ g.tables = <<>>
    BY <1>3, <1>4, <1>5 DEF GetTables
  <2>2. Kept(names, n, only, asked) = {}
    BY <2>1 DEF Kept
  <2> QED  BY <1>1, <2>1, <2>2, NothingListed
<1>6. CASE inner.exec = "SUCCESS"
  <2>1. g.tables = MatchedTables(inner, only, asked) /\ inner.read = n
    BY <1>3, <1>4, <1>6 DEF GetTables
  <2> DEFINE h == CHOOSE h : IsTableLoop(h, names, n, only, asked)
  <2>2. MatchedTables(inner, only, asked) = h[n]
    BY <2>1, MatchedChoice DEF names
  <2>3. n \in 0 .. Len(names)
    BY <1>2
  <2>4. IsTableLoop(h, names, n, only, asked)
    <3>1. \E x : IsTableLoop(x, names, n, only, asked)
      BY <1>1, <2>3, TableLoopExists
    <3> QED  BY <3>1, Zenon
  <2> HIDE DEF h, n
  <2>5. Lists(h[n], Kept(names, n, only, asked))
    BY <1>1, <2>3, <2>4, TableLoopLists
  <2> QED  BY <1>1, <2>1, <2>2, <2>5
<1> QED  BY <1>3, <1>4, <1>5, <1>6

-----------------------------------------------------------------------------
(* SQLColumns *)

\* g[i] is what the loop has added after i of the columns read.
IsColumnLoop(g, t, n, asked) ==
  g = [i \in 0 .. n |->
         IF i = 0 THEN <<>> ELSE AddColumn(g[i - 1], t, ColumnsOf[t][i], asked)]

LEMMA PerTableChoice ==
  ASSUME NEW t, NEW inner, NEW asked
  PROVE  PerTable(t, inner, asked)
           = (CHOOSE g : IsColumnLoop(g, t, inner.read, asked))[inner.read]
BY DEF PerTable, IsColumnLoop

LEMMA ColumnLoopExists ==
  ASSUME NEW t \in Tables, NEW n \in 0 .. Len(ColumnsOf[t]), NEW asked
  PROVE  \E g : IsColumnLoop(g, t, n, asked)
<1> DEFINE Body(i, s) == AddColumn(s, t, ColumnsOf[t][i], asked)
           none == <<>>
           R == {Row(t, c, k) : c \in ColumnNames, k \in Nat}
           Q == Seq(R)
           step == [i \in 1 .. n |-> [s \in Q |-> Body(i, s)]]
<1>1. ColumnsOf[t] \in Seq(ColumnNames)
  BY CatalogAssumption
<1>2. n \in Nat /\ none \in Q
  BY <1>1
<1>3. ASSUME NEW i \in 1 .. n, NEW s \in Q PROVE Body(i, s) \in Q
  <2>1. ColumnsOf[t][i] \in ColumnNames
    BY <1>1
  <2>2. Len(s) + 1 \in Nat
    OBVIOUS
  <2>3. Row(t, ColumnsOf[t][i], Len(s) + 1) \in R
    BY <2>1, <2>2
  <2> HIDE DEF R
  <2> QED  BY <2>3 DEF AddColumn
<1> HIDE DEF Body, Q
<1>4. step \in [1 .. n -> [Q -> Q]]
  BY <1>3
<1>5. \A i \in 1 .. n : \A s \in Q : step[i][s] = Body(i, s)
  OBVIOUS
<1> HIDE DEF step
<1>6. PICK g : IsLoop(g, Q, none, step, n)
  <2> HIDE DEF none
  <2> QED  BY <1>2, <1>4, LoopExists, Zenon
<1>7. ASSUME NEW i \in 1 .. n
      PROVE  g[i] = Body(i, g[i - 1])
  <2>1. i - 1 \in 0 .. n
    BY <1>2
  <2>2. g[i - 1] \in Q
    BY <1>6, <2>1 DEF IsLoop
  <2> QED  BY <1>5, <1>6, <2>2 DEF IsLoop
<1>8. \A i \in 0 .. n : i = 0 \/ i \in 1 .. n
  BY <1>2
<1>9. \A i \in 0 .. n : g[i] = IF i = 0 THEN <<>> ELSE Body(i, g[i - 1])
  BY <1>6, <1>7, <1>8, Zenon DEF IsLoop
<1>10. g = [i \in 0 .. n |-> g[i]]
  BY <1>6 DEF IsLoop
<1>11. g = [i \in 0 .. n |-> IF i = 0 THEN <<>> ELSE Body(i, g[i - 1])]
  BY <1>9, <1>10, Zenon
<1> QED  BY <1>11, Zenon DEF IsColumnLoop, Body

\* The number of a column: matching columns up to it.
Number(t, asked, i) == Cardinality(Matches(t, asked) \cap 1 .. i)

\* The rows of the matching columns among the first n.
RowsUpTo(t, n, asked) ==
  {Row(t, ColumnsOf[t][i], Number(t, asked, i)) :
     i \in Matches(t, asked) \cap 1 .. n}

LEMMA NumberCounts ==
  ASSUME NEW t, NEW asked, NEW i \in Nat
  PROVE  /\ Number(t, asked, i) \in Nat
         /\ Number(t, asked, 0) = 0
         /\ \A j \in 0 .. i : Number(t, asked, j) \in Nat
                              /\ Number(t, asked, j) <= Number(t, asked, i)
         /\ Number(t, asked, i + 1)
              = Number(t, asked, i) + (IF i + 1 \in Matches(t, asked) THEN 1 ELSE 0)
<1> DEFINE M == Matches(t, asked)
           U(j) == M \cap 1 .. j
<1>1. ASSUME NEW j \in Nat
      PROVE  IsFiniteSet(U(j)) /\ Cardinality(U(j)) \in Nat
  <2>1. IsFiniteSet(1 .. j) /\ U(j) \in SUBSET (1 .. j)
    BY FS_Interval
  <2>2. IsFiniteSet(U(j))
    BY <2>1, FS_Subset
  <2> QED  BY <2>2, FS_CardinalityType
<1>2. Cardinality(U(0)) = 0
  <2>1. U(0) = {}
    OBVIOUS
  <2> QED  BY <2>1, FS_EmptySet
<1>3. ASSUME NEW j \in 0 .. i
      PROVE  Cardinality(U(j)) \in Nat /\ Cardinality(U(j)) <= Cardinality(U(i))
  <2>1. j \in Nat /\ U(j) \in SUBSET U(i)
    OBVIOUS
  <2> HIDE DEF U
  <2> QED  BY <1>1, <2>1, FS_Subset
<1>4. Cardinality(U(i + 1)) = Cardinality(U(i)) + (IF i + 1 \in M THEN 1 ELSE 0)
  <2>1. 1 .. i + 1 = (1 .. i) \cup {i + 1} /\ i + 1 \notin 1 .. i
    OBVIOUS
  <2>2. CASE i + 1 \in M
    <3>1. U(i + 1) = U(i) \cup {i + 1} /\ i + 1 \notin U(i)
      BY <2>1, <2>2
    <3> HIDE DEF U
    <3> QED  BY <1>1, <2>2, <3>1, FS_AddElement
  <2>3. CASE i + 1 \notin M
    <3>1. U(i + 1) = U(i)
      BY <2>1, <2>3
    <3> HIDE DEF U
    <3> QED  BY <1>1, <2>3, <3>1
  <2> QED  BY <2>2, <2>3
<1> QED  BY <1>1, <1>2, <1>3, <1>4 DEF Number

LEMMA ColumnLoopLists ==
  ASSUME NEW t \in Tables, NEW n \in 0 .. Len(ColumnsOf[t]), NEW asked,
         NEW g, IsColumnLoop(g, t, n, asked)
  PROVE  Lists(g[n], RowsUpTo(t, n, asked))
<1> DEFINE W(i) == RowsUpTo(t, i, asked)
           count(i) == Number(t, asked, i)
           Good(i) == Lists(g[i], W(i)) /\ Len(g[i]) = count(i)
           T == {i \in Nat : i <= n => Good(i)}
           cols == ColumnsOf[t]
           M == Matches(t, asked)
<1>1. cols \in Seq(ColumnNames) /\ Len(cols) \in Nat /\ n \in Nat
      /\ DOMAIN cols = 1 .. Len(cols)
  BY CatalogAssumption
<1>2. \A i \in 0 .. n : g[i] = IF i = 0 THEN <<>>
                               ELSE AddColumn(g[i - 1], t, cols[i], asked)
  BY Zenon DEF IsColumnLoop
<1>3. Good(0)
  <2>1. W(0) = {} /\ g[0] = <<>>
    BY <1>1, <1>2 DEF RowsUpTo
  <2>2. count(0) = 0
    BY NumberCounts
  <2> QED  BY <2>1, <2>2, NothingListed
<1>4. ASSUME NEW i \in Nat, i + 1 <= n, Good(i)
      PROVE  Good(i + 1)
  <2>1. i + 1 \in 0 .. n /\ i + 1 # 0 /\ (i + 1) - 1 = i /\ i + 1 \in DOMAIN cols
    BY <1>1, <1>4
  <2>2. g[i + 1] = AddColumn(g[i], t, cols[i + 1], asked)
    BY <1>2, <2>1
  <2>3. i + 1 \in M <=> asked \in {NoName, cols[i + 1]}
    BY <2>1 DEF Matches
  <2>4. 1 .. i + 1 = (1 .. i) \cup {i + 1}
    BY <1>4
  <2>5. CASE i + 1 \notin M
    <3>1. g[i + 1] = g[i]
      BY <2>2, <2>3, <2>5 DEF AddColumn
    <3>2. W(i + 1) = W(i)
      BY <2>4, <2>5 DEF RowsUpTo
    <3>3. count(i + 1) = count(i)
      BY <2>5, NumberCounts
    <3> QED  BY <1>4, <3>1, <3>2, <3>3
  <2>6. CASE i + 1 \in M
    <3> DEFINE x == Row(t, cols[i + 1], count(i + 1))
    <3>1. count(i + 1) = count(i) + 1 /\ count(i) \in Nat
          /\ \A j \in 0 .. i : count(j) \in Nat /\ count(j) <= count(i)
      BY <2>6, NumberCounts
    <3>2. g[i + 1] = Append(g[i], x)
      BY <1>4, <2>2, <2>3, <2>6, <3>1 DEF AddColumn
    <3>3. W(i + 1) = W(i) \cup {x}
      BY <2>4, <2>6 DEF RowsUpTo
    <3>4. x \notin W(i)
      <4>1. \A y \in W(i) : \E j \in 0 .. i : y.nr = count(j)
        BY <1>4 DEF RowsUpTo, Row
      <4>2. x.nr = count(i + 1)
        BY DEF Row
      <4> HIDE DEF x, W, count
      <4> QED  BY <3>1, <4>1, <4>2
    <3> HIDE DEF x, W, count
    <3>5. Lists(g[i + 1], W(i + 1))
      BY <1>4, <3>2, <3>3, <3>4, AppendLists
    <3>6. g[i] \in Seq(W(i))
      BY <1>4 DEF Lists
    <3>7. Len(Append(g[i], x)) = Len(g[i]) + 1
      BY <3>6
    <3> QED  BY <1>4, <3>1, <3>2, <3>5, <3>7
  <2> QED  BY <2>5, <2>6
<1> HIDE DEF Good
<1>5. 0 \in T
  BY <1>3
<1>6. \A i \in T : i + 1 \in T
  <2> SUFFICES ASSUME NEW i \in Nat, i <= n => Good(i), i + 1 <= n
               PROVE  Good(i + 1)
    OBVIOUS
  <2>1. i <= n
    BY <1>1
  <2> QED  BY <1>4, <2>1
<1>7. T \subseteq Nat
  OBVIOUS
<1> HIDE DEF T
<1>8. T = Nat
  BY <1>5, <1>6, <1>7, SetInduction
<1> QED  BY <1>1, <1>8 DEF T, Good

\* The query for a table adds the columns it reads.
LEMMA PerTableLists ==
  ASSUME NEW t \in Tables, NEW inner, inner.read \in 0 .. Len(ColumnsOf[t]),
         NEW asked
  PROVE  Lists(PerTable(t, inner, asked), RowsUpTo(t, inner.read, asked))
<1> DEFINE n == inner.read
           g == CHOOSE g : IsColumnLoop(g, t, n, asked)
<1>1. PerTable(t, inner, asked) = g[n]
  BY PerTableChoice
<1>2. IsColumnLoop(g, t, n, asked)
  <2>1. \E x : IsColumnLoop(x, t, n, asked)
    BY ColumnLoopExists
  <2> QED  BY <2>1, Zenon
<1> HIDE DEF g
<1>3. Lists(g[n], RowsUpTo(t, n, asked))
  BY <1>2, ColumnLoopLists
<1> QED  BY <1>1, <1>3

\* In a list every place has an element of its own.
LEMMA ListsOnce ==
  ASSUME NEW s, NEW S, Lists(s, S), NEW i \in DOMAIN s, NEW j \in DOMAIN s,
         s[i] = s[j]
  PROVE  i = j
<1> DEFINE D == 1 .. Len(s)
<1>1. s \in Seq(S) /\ ToSet(s) = S /\ IsFiniteSet(S) /\ Len(s) = Cardinality(S)
  BY DEF Lists
<1>2. DOMAIN s = D /\ Len(s) \in Nat /\ s \in [D -> S]
  BY <1>1
<1>3. IsFiniteSet(D) /\ Cardinality(D) = Len(s)
  <2>1. ASSUME NEW m \in Nat
        PROVE  IsFiniteSet(1 .. m) /\ Cardinality(1 .. m) = m
    <3>1. /\ IsFiniteSet(1 .. m)
          /\ Cardinality(1 .. m) = IF 1 > m THEN 0 ELSE m - 1 + 1
      BY FS_Interval
    <3> QED  BY <3>1
  <2> QED  BY <1>2, <2>1
<1> HIDE DEF D
<1>4. s \in Surjection(D, S)
  <2>1. \A x \in S : \E k \in D : s[k] = x
    BY <1>1, <1>2 DEF ToSet
  <2> QED  BY <1>2, <2>1 DEF Surjection
<1>5. s \in Injection(D, S)
  BY <1>1, <1>3, <1>4, FS_Surjection
<1> QED  BY <1>2, <1>5 DEF Injection, IsInjective

IsColumnsLoop(g, tables, inners, asked) ==
  g = [n \in 0 .. Len(tables) |->
         IF n = 0 THEN [ret |-> "SUCCESS", rows |-> <<>>]
         ELSE AddColumns(g[n - 1], tables[n], inners[tables[n]], asked)]

LEMMA GetColumnsChoice ==
  ASSUME NEW tables, NEW inners, NEW asked
  PROVE  GetColumns(tables, inners, asked)
           = (CHOOSE g : IsColumnsLoop(g, tables, inners, asked))[Len(tables)]
BY DEF GetColumns, IsColumnsLoop

\* A round: nothing after a stop, a stop when the query of the table does not
\* succeed, and else the rows of the table are added.
Added(y, x, t, inner, asked) ==
  /\ x.ret = "NO_DATA" => y = x
  /\ x.ret # "NO_DATA" /\ inner.exec # "SUCCESS"
       => y = [ret |-> "NO_DATA", rows |-> x.rows]
  /\ x.ret # "NO_DATA" /\ inner.exec = "SUCCESS"
       => /\ y = [ret |-> y.ret, rows |-> y.rows]
          /\ y.rows = x.rows \o PerTable(t, inner, asked)
          /\ y.ret \in {"SUCCESS_WITH_INFO", "SUCCESS"}

LEMMA ColumnsAdded ==
  ASSUME NEW x, NEW t, NEW inner, NEW asked
  PROVE  Added(AddColumns(x, t, inner, asked), x, t, inner, asked)
BY DEF AddColumns, Added

\* The queries that a call may meet: each for its table.
LEMMA InnerRead ==
  ASSUME NEW n \in Nat, NEW inner \in InnerQuery(n)
  PROVE  inner.read \in 0 .. n
BY DEF InnerQuery

LEMMA ColumnsLoopExists ==
  ASSUME NEW tables \in Seq(Tables), NEW inners, NEW asked,
         \A t \in ToSet(tables) : inners[t].read \in 0 .. Len(ColumnsOf[t])
  PROVE  \E g : IsColumnsLoop(g, tables, inners, asked)
<1> DEFINE n == Len(tables)
           Body(i, x) == AddColumns(x, tables[i], inners[tables[i]], asked)
           first == [ret |-> "SUCCESS", rows |-> <<>>]
           R == {Row(t, c, k) : t \in Tables, c \in ColumnNames, k \in Nat}
           Rets == {"SUCCESS", "SUCCESS_WITH_INFO", "NO_DATA"}
           Q == [ret : Rets, rows : Seq(R)]
           step == [i \in 1 .. n |-> [x \in Q |-> Body(i, x)]]
<1>1. n \in Nat /\ first \in Q
  OBVIOUS
<1>2. ASSUME NEW i \in 1 .. n PROVE
        PerTable(tables[i], inners[tables[i]], asked) \in Seq(R)
  <2> DEFINE t == tables[i]
             W == RowsUpTo(t, inners[t].read, asked)
             s == PerTable(t, inners[t], asked)
  <2>1. t \in Tables /\ t \in ToSet(tables)
    BY DEF ToSet
  <2>2. Lists(s, W)
    BY <2>1, PerTableLists
  <2>3. s \in Seq(W)
    BY <2>2 DEF Lists
  <2>4. W \subseteq R
    <3>1. ColumnsOf[t] \in Seq(ColumnNames)
      BY <2>1, CatalogAssumption
    <3>2. \A k \in Matches(t, asked) : ColumnsOf[t][k] \in ColumnNames /\ k \in Nat
      BY <3>1 DEF Matches
    <3>3. \A k \in Nat : Number(t, asked, k) \in Nat
      BY NumberCounts
    <3>4. ASSUME NEW w \in W PROVE w \in R
      <4>1. PICK k \in Matches(t, asked) :
              w = Row(t, ColumnsOf[t][k], Number(t, asked, k))
        BY DEF RowsUpTo
      <4>2. ColumnsOf[t][k] \in ColumnNames /\ Number(t, asked, k) \in Nat
        BY <3>2, <3>3
      <4> QED  BY <2>1, <4>1, <4>2
    <3> QED  BY <3>4
  <2> HIDE DEF W, R, s
  <2> QED  BY <2>3, <2>4 DEF s
<1>3. ASSUME NEW i \in 1 .. n, NEW x \in Q PROVE Body(i, x) \in Q
  <2> DEFINE inner == inners[tables[i]]
             p == PerTable(tables[i], inner, asked)
             y == Body(i, x)
  <2>1. x.ret \in Rets /\ x.rows \in Seq(R)
    OBVIOUS
  <2>2. p \in Seq(R)
    BY <1>2
  <2>3. Added(y, x, tables[i], inner, asked)
    BY ColumnsAdded
  <2> HIDE DEF R, inner, y
  <2>4. x.rows \o p \in Seq(R)
    <3> HIDE DEF p
    <3> QED  BY <2>1, <2>2
  <2>5. y \in Q
    <3>1. CASE x.ret = "NO_DATA"
      BY <2>3, <3>1 DEF Added
    <3>2. CASE x.ret # "NO_DATA" /\ inner.exec # "SUCCESS"
      BY <2>1, <2>3, <3>2 DEF Added
    <3>3. CASE x.ret # "NO_DATA" /\ inner.exec = "SUCCESS"
      <4>1. /\ y = [ret |-> y.ret, rows |-> y.rows]
            /\ y.rows = x.rows \o p
            /\ y.ret \in {"SUCCESS_WITH_INFO", "SUCCESS"}
        BY <2>3, <3>3 DEF Added
      <4>2. y.rows \in Seq(R) /\ y.ret \in Rets
        BY <2>4, <4>1
      <4> QED  BY <4>1, <4>2
    <3> QED  BY <3>1, <3>2, <3>3
  <2> QED  BY <2>5 DEF y
<1> HIDE DEF Body, Q
<1>4. step \in [1 .. n -> [Q -> Q]]
  BY <1>3
<1>5. \A i \in 1 .. n : \A x \in Q : step[i][x] = Body(i, x)
  OBVIOUS
<1> HIDE DEF step
<1>6. PICK g : IsLoop(g, Q, first, step, n)
  <2> HIDE DEF first
  <2> QED  BY <1>1, <1>4, LoopExists, Zenon
<1>7. ASSUME NEW i \in 1 .. n
      PROVE  g[i] = Body(i, g[i - 1])
  <2>1. i - 1 \in 0 .. n
    BY <1>1
  <2>2. g[i - 1] \in Q
    BY <1>6, <2>1 DEF IsLoop
  <2> QED  BY <1>5, <1>6, <2>2 DEF IsLoop
<1>8. \A i \in 0 .. n : i = 0 \/ i \in 1 .. n
  BY <1>1
<1>9. \A i \in 0 .. n : g[i] = IF i = 0 THEN first ELSE Body(i, g[i - 1])
  BY <1>6, <1>7, <1>8, Zenon DEF IsLoop
<1>10. g = [i \in 0 .. n |-> g[i]]
  BY <1>6 DEF IsLoop
<1>11. g = [i \in 0 .. n |-> IF i = 0 THEN first ELSE Body(i, g[i - 1])]
  BY <1>9, <1>10, Zenon
<1> QED  BY <1>11, Zenon DEF IsColumnsLoop, Body

\* When no query loses a row, a loop that was not broken off has listed the
\* matching columns of every table.
LEMMA ColumnsLoopLists ==
  ASSUME NEW S, S \subseteq Tables, NEW tables, Lists(tables, S),
         NEW inners, NEW asked,
         \A t \in S : inners[t] \in InnerQuery(Len(ColumnsOf[t])),
         ~LosesColumns(tables, inners),
         NEW g, IsColumnsLoop(g, tables, inners, asked),
         g[Len(tables)].ret # "NO_DATA"
  PROVE  Lists(g[Len(tables)].rows, ColumnsAskedFor(S, asked))
<1> DEFINE n == Len(tables)
           Rows(t) == RowsUpTo(t, Len(ColumnsOf[t]), asked)
           C(i) == UNION {Rows(tables[k]) : k \in 1 .. i}
           Good(i) == g[i].ret # "NO_DATA" => Lists(g[i].rows, C(i))
           T == {i \in Nat : i <= n => Good(i)}
<1>1. tables \in Seq(S) /\ ToSet(tables) = S /\ n \in Nat /\ DOMAIN tables = 1 .. n
  BY DEF Lists
<1>2. \A i \in 0 .. n : g[i] = IF i = 0 THEN [ret |-> "SUCCESS", rows |-> <<>>]
                ELSE AddColumns(g[i - 1], tables[i], inners[tables[i]], asked)
  BY Zenon DEF IsColumnsLoop
<1>3. ASSUME NEW t \in S
      PROVE  /\ inners[t].exec = "SUCCESS"
                  => Lists(PerTable(t, inners[t], asked), Rows(t))
             /\ \A y \in Rows(t) : y.table = t
  <2> DEFINE m == Len(ColumnsOf[t])
  <2>1. t \in Tables /\ m \in Nat
    BY CatalogAssumption
  <2>2. inners[t].read \in 0 .. m
    BY <2>1, InnerRead
  <2>3. inners[t].exec = "SUCCESS" => ~(inners[t].read < m)
    BY <1>1 DEF LosesColumns, Cut
  <2>4. inners[t].exec = "SUCCESS" => inners[t].read = m
    BY <2>1, <2>2, <2>3
  <2>5. Lists(PerTable(t, inners[t], asked), RowsUpTo(t, inners[t].read, asked))
    BY <2>1, <2>2, PerTableLists
  <2>6. \A y \in Rows(t) : y.table = t
    BY DEF RowsUpTo, Row
  <2> QED  BY <2>4, <2>5, <2>6
<1>4. Good(0)
  <2>1. C(0) = {} /\ g[0].rows = <<>>
    BY <1>1, <1>2
  <2> QED  BY <2>1, NothingListed
<1>5. ASSUME NEW i \in Nat, i + 1 <= n, Good(i)
      PROVE  Good(i + 1)
  <2> SUFFICES ASSUME g[i + 1].ret # "NO_DATA"
               PROVE  Lists(g[i + 1].rows, C(i + 1))
    OBVIOUS
  <2> DEFINE t == tables[i + 1]
             p == PerTable(t, inners[t], asked)
  <2>1. i + 1 \in 0 .. n /\ i + 1 # 0 /\ (i + 1) - 1 = i /\ i + 1 \in 1 .. n
    BY <1>1, <1>5
  <2>2. t \in S
    BY <1>1, <2>1
  <2>3. g[i + 1] = AddColumns(g[i], t, inners[t], asked)
    BY <1>2, <2>1
  <2>4. /\ g[i].ret # "NO_DATA" /\ inners[t].exec = "SUCCESS"
        /\ g[i + 1].rows = g[i].rows \o p
    <3>1. Added(g[i + 1], g[i], t, inners[t], asked)
      BY <2>3, ColumnsAdded
    <3>2. g[i].ret # "NO_DATA"
      BY <3>1, Zenon DEF Added
    <3>3. inners[t].exec = "SUCCESS"
      <4>1. inners[t].exec # "SUCCESS"
              => g[i + 1] = [ret |-> "NO_DATA", rows |-> g[i].rows]
        BY <3>1, <3>2, Zenon DEF Added
      <4>2. [ret |-> "NO_DATA", rows |-> g[i].rows].ret = "NO_DATA"
        OBVIOUS
      <4> QED  BY <4>1, <4>2, Zenon
    <3>4. g[i + 1].rows = g[i].rows \o p
      BY <3>1, <3>2, <3>3, Zenon DEF Added
    <3> QED  BY <3>2, <3>3, <3>4
  <2>5. Lists(g[i].rows, C(i)) /\ Lists(p, Rows(t))
    BY <1>3, <1>5, <2>2, <2>4
  <2>6. C(i) \cap Rows(t) = {}
    <3> SUFFICES ASSUME NEW k \in 1 .. i, NEW y \in Rows(tables[k]),
                        y \in Rows(t)
                 PROVE  FALSE
      OBVIOUS
    <3>1. k \in 1 .. n /\ k # i + 1
      BY <1>1, <1>5
    <3>2. tables[k] \in S
      BY <1>1, <3>1
    <3>3. tables[k] = t
      <4> HIDE DEF Rows
      <4> QED  BY <1>3, <2>2, <3>2
    <3> QED  BY <1>1, <2>1, <3>1, <3>3, ListsOnce
  <2>7. C(i + 1) = C(i) \cup Rows(t)
    <3>1. 1 .. i + 1 = (1 .. i) \cup {i + 1}
      BY <1>5
    <3> HIDE DEF Rows
    <3> QED  BY <3>1
  <2> HIDE DEF C, Rows, p, t
  <2>8. Lists(g[i].rows \o p, C(i) \cup Rows(t))
    BY <2>5, <2>6, ConcatLists
  <2> QED  BY <2>4, <2>7, <2>8
<1> HIDE DEF Good
<1>6. 0 \in T
  BY <1>4
<1>7. \A i \in T : i + 1 \in T
  <2> SUFFICES ASSUME NEW i \in Nat, i <= n => Good(i), i + 1 <= n
               PROVE  Good(i + 1)
    OBVIOUS
  <2>1. i <= n
    BY <1>1
  <2> QED  BY <1>5, <2>1
<1>8. T \subseteq Nat
  OBVIOUS
<1> HIDE DEF T
<1>9. T = Nat
  BY <1>6, <1>7, <1>8, SetInduction
<1>10. Lists(g[n].rows, C(n))
  <2>1. Good(n)
    BY <1>1, <1>9 DEF T
  <2> QED  BY <2>1 DEF Good
<1>11. C(n) = ColumnsAskedFor(S, asked)
  <2>1. ASSUME NEW t \in S
        PROVE  Rows(t) = {Row(t, ColumnsOf[t][i],
                              Cardinality(Matches(t, asked) \cap 1 .. i)) :
                            i \in Matches(t, asked)}
    <3>1. Matches(t, asked) \cap 1 .. Len(ColumnsOf[t]) = Matches(t, asked)
      BY CatalogAssumption DEF Matches
    <3> QED  BY <3>1 DEF RowsUpTo, Number
  <2>2. ColumnsAskedFor(S, asked) = UNION {Rows(t) : t \in S}
    <3> DEFINE All(t) == {Row(t, ColumnsOf[t][i],
                              Cardinality(Matches(t, asked) \cap 1 .. i)) :
                            i \in Matches(t, asked)}
    <3>1. ColumnsAskedFor(S, asked) = UNION {All(t) : t \in S}
      BY DEF ColumnsAskedFor
    <3>2. \A t \in S : Rows(t) = All(t)
      BY <2>1
    <3> HIDE DEF All, Rows
    <3> QED  BY <3>1, <3>2
  <2>3. S = {tables[k] : k \in 1 .. n}
    BY <1>1 DEF ToSet
  <2> HIDE DEF Rows
  <2> QED  BY <2>2, <2>3
<1> QED  BY <1>10, <1>11

\* SQLColumns over a list of tables, when its queries lose nothing.
LEMMA ColumnsComplete ==
  ASSUME NEW S, S \subseteq Tables, NEW tables, Lists(tables, S),
         NEW inners \in ColumnQueries(S), NEW asked,
         ~LosesColumns(tables, inners),
         GetColumns(tables, inners, asked).ret = "SUCCESS"
  PROVE  Lists(GetColumns(tables, inners, asked).rows,
               ColumnsAskedFor(S, asked))
<1> DEFINE g == CHOOSE g : IsColumnsLoop(g, tables, inners, asked)
<1>1. GetColumns(tables, inners, asked) = g[Len(tables)]
  BY GetColumnsChoice
<1>2. \A t \in S : inners[t] \in InnerQuery(Len(ColumnsOf[t]))
  BY DEF ColumnQueries
<1>3. tables \in Seq(S) /\ ToSet(tables) = S
  BY DEF Lists
<1>4. tables \in Seq(Tables)
  BY <1>3
<1>5. \A t \in ToSet(tables) : inners[t].read \in 0 .. Len(ColumnsOf[t])
  <2>1. \A t \in S : Len(ColumnsOf[t]) \in Nat
    BY CatalogAssumption
  <2> QED  BY <1>2, <1>3, <2>1, InnerRead
<1>6. IsColumnsLoop(g, tables, inners, asked)
  <2>1. \E x : IsColumnsLoop(x, tables, inners, asked)
    BY <1>4, <1>5, ColumnsLoopExists
  <2> QED  BY <2>1, Zenon
<1> HIDE DEF g
<1>7. g[Len(tables)].ret # "NO_DATA"
  BY <1>1
<1>8. Lists(g[Len(tables)].rows, ColumnsAskedFor(S, asked))
  BY <1>2, <1>6, <1>7, ColumnsLoopLists
<1> QED  BY <1>1, <1>8

-----------------------------------------------------------------------------
(* What can be fetched is complete *)

\* The rows of an open catalog query are those wanted, when none was lost.
Complete(q, lost, want) ==
  q.kind \in {"TABLES", "COLUMNS"} /\ q.open /\ ~lost => Lists(q.rows, want)

CatalogInv == Complete(query, cut, wanted)

LEMMA ExecutedCompletes ==
  ASSUME NEW q, NEW ret, NEW lost, NEW want, Executed(q, ret, lost, want),
         Complete(q, lost, want)
  PROVE  CatalogInv'
<1>1. query' = q /\ cut' = lost /\ wanted' = want
  BY DEF Executed
<1> QED  BY <1>1, Zenon DEF CatalogInv, Complete

LEMMA NewCompletes ==
  ASSUME NEW k \in Kinds, NEW ret, NEW lost, NEW want,
         Executed(New(k), ret, lost, want)
  PROVE  CatalogInv'
<1>1. ~New(k).open
  BY NewIsQuery
<1>2. Complete(New(k), lost, want)
  BY <1>1, Zenon DEF Complete
<1> QED  BY <1>2, ExecutedCompletes

LEMMA RowsComplete ==
  ASSUME NEW k, NEW o \in BOOLEAN, NEW r, NEW ret, NEW lost, NEW want,
         k \in {"TABLES", "COLUMNS"} /\ o /\ ~lost => Lists(r, want),
         Executed([kind |-> k, open |-> o, pos |-> 0, rows |-> r],
                  ret, lost, want)
  PROVE  CatalogInv'
<1> DEFINE q == [kind |-> k, open |-> o, pos |-> 0, rows |-> r]
<1>1. q.kind = k /\ q.open = o /\ q.rows = r
  OBVIOUS
<1> HIDE DEF q
<1>2. Complete(q, lost, want)
  BY <1>1, Zenon DEF Complete
<1>3. Executed(q, ret, lost, want)
  BY DEF q
<1> QED  BY <1>2, <1>3, ExecutedCompletes

\* A call that leaves the query without a result, or as it is.
LEMMA ClosedCompletes ==
  ASSUME NEW q, NEW ret, ~q.open, Ends(q, ret)
  PROVE  CatalogInv'
<1>1. query' = q
  BY DEF Ends
<1> QED  BY <1>1, Zenon DEF CatalogInv, Complete

LEMMA QuietCompletes ==
  ASSUME CatalogInv, UNCHANGED <<query, history>>
  PROVE  CatalogInv'
<1>1. query' = query /\ cut' = cut /\ wanted' = wanted
  BY DEF history
<1> QED  BY <1>1, Zenon DEF CatalogInv, Complete

LEMMA AnswersCompletes ==
  ASSUME CatalogInv, NEW ret, Answers(ret)
  PROVE  CatalogInv'
<1>1. UNCHANGED <<query, history>>
  BY DEF Answers
<1> QED  BY <1>1, QuietCompletes

\* A fetch opens no query and leaves the rows alone.
LEMMA FetchRowsCompletes ==
  ASSUME StatementInv, CatalogInv, NEW n \in Nat, FetchRows(n)
  PROVE  CatalogInv'
<1>1. CASE query.kind = "NONE" /\ Answers("ERROR")
  BY <1>1, AnswersCompletes
<1>2. CASE ~(query.kind = "NONE" /\ Answers("ERROR"))
  <2> DEFINE set == Rowset(query, n)
  <2>1. query' = set.q /\ cut' = cut /\ wanted' = wanted
    BY <1>2 DEF FetchRows
  <2>2. IsQuery(query)
    BY DEF StatementInv
  <2>3. RowsFetched(set, query)
    BY <2>2, RowsetFetched
  <2> HIDE DEF set
  <2>4. /\ set.q.kind = query.kind /\ set.q.rows = query.rows
        /\ ~query.open => ~set.q.open
    BY <2>3, Zenon DEF RowsFetched
  <2> QED  BY <2>1, <2>4, Zenon DEF CatalogInv, Complete
<1> QED  BY <1>1, <1>2

LEMMA DataCompletes ==
  ASSUME ExecuteData
  PROVE  CatalogInv'
<1>1. CASE \E ret : Executed(New("DATA"), ret, FALSE, {})
  BY <1>1, NewCompletes DEF Kinds
<1>2. CASE \E r : Executed([kind |-> "DATA", open |-> TRUE, pos |-> 0,
                            rows |-> r], "SUCCESS", FALSE, {})
  <2>1. "DATA" \notin {"TABLES", "COLUMNS"} /\ TRUE \in BOOLEAN
    OBVIOUS
  <2> QED  BY <1>2, <2>1, RowsComplete, Zenon
<1> QED  BY <1>1, <1>2, Zenon DEF ExecuteData

LEMMA TableTypesComplete ==
  ASSUME ExecuteTableTypes
  PROVE  CatalogInv'
<1> DEFINE one == TableRow(NoName)
           A == [New("TABLES") EXCEPT !.open = TRUE, !.rows = <<one>>]
           B == [New("TABLES") EXCEPT !.open = TRUE]
<1>1. \/ Executed(A, "SUCCESS", FALSE, {one})
      \/ Executed(B, "SUCCESS_WITH_INFO", FALSE, {})
  BY DEF ExecuteTableTypes
<1>2. A.rows = <<one>> /\ B.rows = <<>>
  BY DEF New
<1> HIDE DEF A, B, one
<1>3. Lists(<<one>>, {one}) /\ Lists(<<>>, {})
  BY OneListed, NothingListed
<1>4. Complete(A, FALSE, {one}) /\ Complete(B, FALSE, {})
  BY <1>2, <1>3, Zenon DEF Complete
<1> QED  BY <1>1, <1>4, ExecutedCompletes

LEMMA TableNamesComplete ==
  ASSUME ExecuteTableNames
  PROVE  CatalogInv'
<1> DEFINE Named(x, a, z) ==
             LET h == GetTables(x, metadataID, a, z)
             IN  Executed([kind |-> "TABLES", open |-> h.ret # "ERROR",
                           pos |-> 0,
                           rows |-> [i \in DOMAIN h.tables |->
                                       TableRow(h.tables[i])]],
                          h.ret, Cut(x, Len(Answer(metadataID, a))),
                          {TableRow(t) : t \in TablesAskedFor(metadataID, a)})
<1>1. PICK asked \in Tables \cup {NoName}, null \in BOOLEAN :
        \E inner \in InnerQuery(Len(Answer(metadataID, asked))) :
          Named(inner, asked, null)
  BY Zenon DEF ExecuteTableNames
<1>2. PICK inner \in InnerQuery(Len(Answer(metadataID, asked))) :
        Named(inner, asked, null)
  BY <1>1, Zenon
<1> DEFINE g == GetTables(inner, metadataID, asked, null)
           o == g.ret # "ERROR"
           r == [i \in DOMAIN g.tables |-> TableRow(g.tables[i])]
           lost == Cut(inner, Len(Answer(metadataID, asked)))
           S == TablesAskedFor(metadataID, asked)
           want == {TableRow(t) : t \in S}
<1>3. o /\ ~lost => Lists(r, want)
  <2> SUFFICES ASSUME o, ~lost PROVE Lists(r, want)
    OBVIOUS
  <2>1. Lists(g.tables, S)
    BY TablesComplete
  <2> HIDE DEF g, S
  <2> QED  BY <2>1, RowsOfTables
<1>4. o \in BOOLEAN
  OBVIOUS
<1>5. Executed([kind |-> "TABLES", open |-> o, pos |-> 0, rows |-> r], g.ret,
               lost, want)
  BY <1>2, Zenon
<1> HIDE DEF o, r, lost, want, g
<1> QED  BY <1>3, <1>4, <1>5, RowsComplete

LEMMA ExecutedColumnsComplete ==
  ASSUME NEW c, NEW lost, NEW want, NEW noData,
         ExecutedColumns(c, lost, want, noData),
         c.ret = "SUCCESS" /\ ~lost => Lists(c.rows, want)
  PROVE  CatalogInv'
<1> DEFINE o == c.ret = "SUCCESS"
           r == c.rows
           ret == IF c.ret = "NO_DATA" THEN noData ELSE c.ret
<1>1. o \in BOOLEAN /\ (o /\ ~lost => Lists(r, want))
  OBVIOUS
<1>2. Executed([kind |-> "COLUMNS", open |-> o, pos |-> 0, rows |-> r], ret,
               lost, want)
  BY Zenon DEF ExecutedColumns
<1> HIDE DEF o, r, ret
<1> QED  BY <1>1, <1>2, RowsComplete

LEMMA ColumnsPatternComplete ==
  ASSUME NEW noData, ExecuteColumnsPattern(noData)
  PROVE  CatalogInv'
<1> DEFINE Inner(asked) == InnerQuery(Len(Answer(FALSE, asked)))
           G(inner, asked) == GetTables(inner, FALSE, asked, FALSE)
           Loses(inner, asked, inners) ==
             \/ Cut(inner, Len(Answer(FALSE, asked)))
             \/ LosesColumns(G(inner, asked).tables, inners)
           Want(asked, column) ==
             ColumnsAskedFor(TablesAskedFor(FALSE, asked), column)
<1>1. CASE Executed(New("COLUMNS"), "SUCCESS_WITH_INFO", FALSE, {})
  BY <1>1, NewCompletes DEF Kinds
<1>2. ASSUME NEW asked \in Tables \cup {NoName},
             NEW column \in ColumnNames \cup {NoName},
             NEW inner \in Inner(asked),
             G(inner, asked).ret = "SUCCESS",
             NEW inners \in ColumnQueries(ToSet(G(inner, asked).tables)),
             ExecutedColumns(GetColumns(G(inner, asked).tables, inners, column),
                             Loses(inner, asked, inners), Want(asked, column), noData)
      PROVE  CatalogInv'
  <2> DEFINE tables == G(inner, asked).tables
             c == GetColumns(tables, inners, column)
             S == TablesAskedFor(FALSE, asked)
             lost == Loses(inner, asked, inners)
             want == Want(asked, column)
  <2>1. c.ret = "SUCCESS" /\ ~lost => Lists(c.rows, want)
    <3> SUFFICES ASSUME c.ret = "SUCCESS", ~lost PROVE Lists(c.rows, want)
      OBVIOUS
    <3>1. Lists(tables, S)
      <4>1. G(inner, asked).ret # "ERROR"
        BY <1>2
      <4> QED  BY <1>2, <4>1, TablesComplete
    <3>2. S \subseteq Tables /\ ToSet(tables) = S
      <4>1. S \subseteq Tables
        BY DEF TablesAskedFor
      <4> HIDE DEF tables, S
      <4> QED  BY <3>1, <4>1 DEF Lists
    <3>3. inners \in ColumnQueries(S) /\ ~LosesColumns(tables, inners)
      BY <1>2, <3>2
    <3> HIDE DEF tables, S
    <3>4. Lists(c.rows, ColumnsAskedFor(S, column))
      BY <3>1, <3>2, <3>3, ColumnsComplete
    <3> QED  BY <3>4 DEF S
  <2>2. ExecutedColumns(c, lost, want, noData)
    BY <1>2
  <2> HIDE DEF c, lost, want
  <2> QED  BY <2>1, <2>2, ExecutedColumnsComplete
<1>3. \/ Executed(New("COLUMNS"), "SUCCESS_WITH_INFO", FALSE, {})
      \/ \E asked \in Tables \cup {NoName}, column \in ColumnNames \cup {NoName} :
           \E inner \in Inner(asked) :
             /\ G(inner, asked).ret = "SUCCESS"
             /\ \E inners \in ColumnQueries(ToSet(G(inner, asked).tables)) :
                  ExecutedColumns(
                    GetColumns(G(inner, asked).tables, inners, column),
                    Loses(inner, asked, inners), Want(asked, column), noData)
  BY Zenon DEF ExecuteColumnsPattern
<1> HIDE DEF Inner, G, Loses, Want
<1> QED  BY <1>1, <1>2, <1>3, Zenon

LEMMA ColumnsIdentifierComplete ==
  ASSUME NEW noData, ExecuteColumnsIdentifier(noData)
  PROVE  CatalogInv'
<1>1. CASE Executed(New("COLUMNS"), noData, FALSE, {})
  BY <1>1, NewCompletes DEF Kinds
<1>2. ASSUME NEW asked \in Tables, NEW column \in ColumnNames \cup {NoName},
             NEW inners \in ColumnQueries({asked}),
             ExecutedColumns(GetColumns(<<asked>>, inners, column),
                             LosesColumns(<<asked>>, inners),
                             ColumnsAskedFor({asked}, column), noData)
      PROVE  CatalogInv'
  <2> DEFINE one == <<asked>>
             S == {asked}
             c == GetColumns(one, inners, column)
             lost == LosesColumns(one, inners)
             want == ColumnsAskedFor(S, column)
  <2>1. Lists(one, S) /\ S \subseteq Tables /\ inners \in ColumnQueries(S)
    BY OneListed
  <2>2. ExecutedColumns(c, lost, want, noData)
    BY <1>2
  <2> HIDE DEF one, S
  <2>3. c.ret = "SUCCESS" /\ ~lost => Lists(c.rows, want)
    BY <2>1, ColumnsComplete
  <2> HIDE DEF c, lost, want
  <2> QED  BY <2>2, <2>3, ExecutedColumnsComplete
<1> QED  BY <1>1, <1>2, Zenon DEF ExecuteColumnsIdentifier

LEMMA ColumnsRefusedComplete ==
  ASSUME ExecuteColumnsRefused
  PROVE  CatalogInv'
BY NewCompletes DEF ExecuteColumnsRefused, Kinds

LEMMA TypesComplete ==
  ASSUME NEW rows, ExecuteTypes(rows)
  PROVE  CatalogInv'
<1>1. "TYPEINFO" \notin {"TABLES", "COLUMNS"} /\ TRUE \in BOOLEAN
  OBVIOUS
<1> QED  BY <1>1, RowsComplete, Zenon DEF ExecuteTypes

LEMMA EmptyCompletes ==
  ASSUME ExecuteEmpty
  PROVE  CatalogInv'
BY NewCompletes DEF ExecuteEmpty, Kinds

LEMMA CatalogInitial == Init => CatalogInv
<1> SUFFICES ASSUME Init PROVE CatalogInv
  OBVIOUS
<1>1. query = New("NONE")
  BY DEF Init
<1>2. ~query.open
  BY <1>1, NewIsQuery DEF Kinds
<1> QED  BY <1>2, Zenon DEF CatalogInv, Complete

LEMMA CatalogStep == StatementInv /\ CatalogInv /\ [Next]_vars => CatalogInv'
<1> SUFFICES ASSUME StatementInv, CatalogInv, [Next]_vars PROVE CatalogInv'
  OBVIOUS
<1>1. IsQuery(query) /\ rowArraySize \in Nat /\ rowsetSize \in Nat
  BY DEF StatementInv
<1>2. CASE Prepare
  <2>1. ~New("DATA").open
    BY NewIsQuery DEF Kinds
  <2> QED  BY <1>2, <2>1, ClosedCompletes DEF Prepare
<1>3. CASE ExecuteDirect
  BY <1>3, DataCompletes DEF ExecuteDirect
<1>4. CASE ExecuteTableTypes \/ ExecuteTableNames
  BY <1>4, TableTypesComplete, TableNamesComplete
<1>5. ASSUME NEW noData,
             \/ ExecuteColumnsRefused
             \/ ExecuteColumnsPattern(noData) \/ ExecuteColumnsIdentifier(noData)
      PROVE  CatalogInv'
  BY <1>5, ColumnsRefusedComplete, ColumnsPatternComplete,
     ColumnsIdentifierComplete
<1>6. CASE Execute
  BY <1>4, <1>5, <1>6, AnswersCompletes, DataCompletes, TypesComplete,
     EmptyCompletes, Zenon DEF Execute
<1>7. CASE ExecuteGetTablesMetaQuery
  BY <1>4, <1>7 DEF ExecuteGetTablesMetaQuery
<1>8. CASE ExecuteGetColumnsMetaQuery
  BY <1>5, <1>8 DEF ExecuteGetColumnsMetaQuery
<1>9. CASE ExecuteUnsupportedQuery
  BY <1>9, EmptyCompletes DEF ExecuteUnsupportedQuery
<1>10. CASE ExecuteGetTypeInfoQuery
  <2>1. Answers("ERROR") \/ \E rows : ExecuteTypes(rows)
    BY <1>10, Zenon DEF ExecuteGetTypeInfoQuery
  <2> QED  BY <2>1, AnswersCompletes, TypesComplete
<1>11. ASSUME NEW ret, query.kind # "NONE", Ends(CloseQuery(query), ret)
       PROVE  CatalogInv'
  BY <1>1, <1>11, ClosedIsQuery, ClosedCompletes
<1>12. CASE Cancel
  BY <1>11, <1>12, AnswersCompletes DEF Cancel
<1>13. ASSUME NEW b \in BOOLEAN, InternalClose(b)
       PROVE  CatalogInv'
  <2>1. \/ \E ret : Answers(ret)
        \/ DataAvailable(query) /\ Ends(CloseQuery(query), "SUCCESS")
    BY <1>13, Zenon DEF InternalClose
  <2>2. DataAvailable(query) => query.kind # "NONE"
    BY DEF DataAvailable
  <2> QED  BY <1>11, <2>1, <2>2, AnswersCompletes
<1>14. CASE GetMeta
  BY <1>11, <1>14, AnswersCompletes DEF GetMeta
<1>15. CASE MoreResults
  BY <1>15, AnswersCompletes DEF MoreResults
<1>16. CASE FetchScroll
  BY <1>1, <1>16, AnswersCompletes, FetchRowsCompletes DEF FetchScroll
<1>17. CASE ExtendedFetch
  BY <1>1, <1>17, AnswersCompletes, FetchRowsCompletes DEF ExtendedFetch
<1>18. CASE SetAttribute
  <2>1. CASE SetSize \/ SetMetadataID
    BY <2>1, QuietCompletes DEF SetSize, SetMetadataID
  <2> QED  BY <1>18, <2>1, AnswersCompletes DEF SetAttribute
<1>19. CASE UNCHANGED vars
  BY <1>19, QuietCompletes DEF vars, history
<1> QED  BY <1>2, <1>3, <1>6, <1>7, <1>8, <1>9, <1>10, <1>12, <1>13, <1>14,
            <1>15, <1>16, <1>17, <1>18, <1>19, Zenon DEF Next

-----------------------------------------------------------------------------
(* The theorems *)

\* Once a fetch answered NO_DATA no fetch delivers a row or an error until the
\* query is closed, replaced or executed again.
THEOREM EndIsFinalHolds == Spec => []EndIsFinal
<1>1. StatementInv => EndIsFinal
  BY DEF StatementInv
<1> QED  BY <1>1, StatementInvariance, PTL

\* Every row of a DataQuery that was passed over has been reported.
THEOREM LossIsReportedHolds == Spec => []LossIsReported
<1>1. StatementInv => LossIsReported
  BY DEF StatementInv, LossIsTold, LossIsReported, Lost
<1> QED  BY <1>1, StatementInvariance, PTL

\* A query that is closed, cancelled, replaced or was never executed gives no
\* row, and its cursor counts as closed.
THEOREM NothingFromClosedQueryHolds == Spec => []NothingFromClosedQuery
<1>1. ASSUME StatementInv PROVE NothingFromClosedQuery
  <2>1. ~live => ~query.open
    BY <1>1, Zenon DEF StatementInv, OpenIsLive
  <2>2. ~query.open => ~DataAvailable(query)
    BY DEF DataAvailable
  <2>3. NoRowWhenNotLive
    BY <1>1 DEF StatementInv
  <2> QED  BY <2>1, <2>2, <2>3, Zenon DEF NothingFromClosedQuery,
                                          NoRowWhenNotLive
<1> QED  BY <1>1, StatementInvariance, PTL

\* SQLTables and SQLColumns offer every table and every matching column that
\* was asked for, each once and numbered, or nothing that can be fetched, for
\* every list of tables and columns; an inner query that loses rows without an
\* error is excluded.
THEOREM CatalogCompleteHolds == Spec => []CatalogComplete
<1>1. CatalogInv => CatalogComplete
  BY Zenon DEF CatalogInv, Complete, CatalogComplete, Lists
<1> QED  BY <1>1, CatalogInitial, CatalogStep, StatementInvariance, PTL
             DEF Spec

=============================================================================
