------------------------------- MODULE Catalog -------------------------------
(***************************************************************************)
(* What the catalog functions collect: SQLTables (TableMetadataQuery) reads *)
(* table names from the service with a query of its own, and SQLColumns    *)
(* (ColumnMetadataQuery) runs SQLTables inside and then one query for each *)
(* table it found.                                                         *)
(*                                                                         *)
(* These are functions of the arguments and of what the inner queries do.  *)
(* A name is a model value; that a LIKE pattern or an identifier matches   *)
(* is given by Names and by equality.  The columns of a row that have the  *)
(* same value in every row are left out.                                   *)
(***************************************************************************)
EXTENDS Naturals, Sequences, SequencesExt

CONSTANTS
  Names,      \* the table names system.tables answers with, in its order
  ColumnsOf,  \* the columns of each table, in order
  NoName      \* the name in a row that has none

Tables      == ToSet(Names)
ColumnNames == UNION {ToSet(ColumnsOf[t]) : t \in Tables}

ASSUME CatalogAssumption ==
  /\ Names \in Seq(DOMAIN ColumnsOf)
  /\ \A t \in Tables : ColumnsOf[t] \in Seq(ColumnNames)
  /\ NoName \notin Tables \cup ColumnNames

\* An inner DataQuery over n rows: what its Execute answers and how many rows
\* its fetch loop reads; the loop ends at the first fetch that is not a
\* success, an error in the middle included.
InnerQuery(n) ==
  {[exec |-> "ERROR", read |-> 0]}
    \cup IF n = 0 THEN {[exec |-> "NO_DATA", read |-> 0]}
         ELSE {[exec |-> "SUCCESS", read |-> k] : k \in 0 .. n}

\* An inner query that lost rows without telling anyone.
Cut(inner, n) == inner.exec = "SUCCESS" /\ inner.read < n

Row(t, c, n) == [table |-> t, column |-> c, nr |-> n, conv |-> "ok"]

-----------------------------------------------------------------------------
(* TableMetadataQuery *)

\* A name that is listed already is skipped.
AddTable(tables, t) ==
  IF Contains(tables, t) THEN tables ELSE Append(tables, t)

\* What system.tables answers for the table asked for: every name for a
\* pattern, also under SQL_ATTR_METADATA_ID, where LIKE may match more names
\* than the identifier.
Answer(metadataID, asked) ==
  IF metadataID \/ asked = NoName
    THEN Names
    ELSE [i \in 1 .. Cardinality({k \in DOMAIN Names : Names[k] = asked})
            |-> asked]

\* getMatchedTables and the loop of getTables: with SQL_ATTR_METADATA_ID only
\* the table asked for is kept.
MatchedTables(inner, metadataID, asked) ==
  LET names == Answer(metadataID, asked)
      tables[n \in 0 .. inner.read] ==
        IF n = 0 THEN <<>>
        ELSE IF metadataID => names[n] = asked
               THEN AddTable(tables[n - 1], names[n])
               ELSE tables[n - 1]
  IN  tables[inner.read]

\* getTables: an empty list is answered with AI_SUCCESS when the inner query
\* had rows, with a warning when it had none.
GetTables(inner, metadataID, asked, null) ==
  IF (metadataID /\ null) \/ inner.exec = "ERROR"
    THEN [ret |-> "ERROR", tables |-> <<>>]
  ELSE IF inner.exec = "NO_DATA"
    THEN [ret |-> "SUCCESS_WITH_INFO", tables |-> <<>>]
  ELSE [ret |-> "SUCCESS", tables |-> MatchedTables(inner, metadataID, asked)]

-----------------------------------------------------------------------------
(* ColumnMetadataQuery *)

\* A column that has not the name asked for (any name when none is) is left
\* out and has no number.
AddColumn(rows, t, c, asked) ==
  IF asked \in {NoName, c} THEN Append(rows, Row(t, c, Len(rows) + 1)) ELSE rows

\* The rows MakeRequestGetColumnsMetaPerTable appends for table t: the columns
\* read, numbered from 1.
PerTable(t, inner, asked) ==
  LET rows[n \in 0 .. inner.read] ==
        IF n = 0 THEN <<>>
        ELSE AddColumn(rows[n - 1], t, ColumnsOf[t][n], asked)
  IN  rows[inner.read]

\* Faulty: goes on after a table whose query failed.
AddColumnsAndGoOn(sofar, t, inner, asked) ==
  LET rows == sofar.rows \o PerTable(t, inner, asked)
  IN  IF inner.exec # "SUCCESS"
        THEN sofar
        ELSE [ret |-> IF rows = <<>> THEN "SUCCESS_WITH_INFO" ELSE "SUCCESS",
              rows |-> rows]

\* MakeRequestGetColumnsMetaPerTable and the loop around it: a table whose
\* query does not succeed ends the loop, and its AI_NO_DATA is the answer.
AddColumns(sofar, t, inner, asked) ==
  LET rows == sofar.rows \o PerTable(t, inner, asked)
  IN  IF sofar.ret = "NO_DATA"
        THEN sofar
      ELSE IF inner.exec # "SUCCESS"
        THEN [ret |-> "NO_DATA", rows |-> sofar.rows]
      ELSE [ret |-> IF rows = <<>> THEN "SUCCESS_WITH_INFO" ELSE "SUCCESS",
            rows |-> rows]

\* GetColumnsWithDatabaseType over the tables, inners[t] being the query for t.
GetColumns(tables, inners, asked) ==
  LET sofar[n \in 0 .. Len(tables)] ==
        IF n = 0 THEN [ret |-> "SUCCESS", rows |-> <<>>]
        ELSE AddColumns(sofar[n - 1], tables[n], inners[tables[n]], asked)
  IN  sofar[Len(tables)]

\* Some query of the loop lost rows.
LosesColumns(tables, inners) ==
  \E t \in ToSet(tables) : Cut(inners[t], Len(ColumnsOf[t]))

-----------------------------------------------------------------------------
(* Reference: the rows a catalog function should offer *)

TablesAskedFor(metadataID, asked) ==
  IF asked = NoName /\ ~metadataID THEN Tables ELSE {asked} \cap Tables

Matches(t, asked) ==
  {i \in DOMAIN ColumnsOf[t] : asked \in {NoName, ColumnsOf[t][i]}}

ColumnsAskedFor(tables, asked) ==
  UNION {{Row(t, ColumnsOf[t][i], Cardinality(Matches(t, asked) \cap 1 .. i)) :
            i \in Matches(t, asked)} : t \in tables}

=============================================================================
