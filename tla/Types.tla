-------------------------------- MODULE Types --------------------------------
(***************************************************************************)
(* How the driver describes the type of a column (column_meta.cpp,         *)
(* type_info_query.cpp, column_metadata_query.cpp).  An application sees it three     *)
(* times: in the row SQLColumns returns for the column, in the attributes  *)
(* of the column of a result set, and in the row SQLGetTypeInfo returns for *)
(* the type.  A behaviour looks at one column of a table of the service in  *)
(* these ways, in any order; `seen` holds the last answer of each.         *)
(***************************************************************************)
EXTENDS TypeTraits, Sequences

CONSTANTS
  ColumnNames,   \* names of columns of the service
  TypeTexts      \* texts of the column data_type of its catalog

VARIABLES
  remote,        \* the column: its name and the type text of the catalog
  seen,          \* what each view said, Unseen before
  types          \* TypeInfoQuery::types

typesVars == <<remote, seen, types>>

Unseen == [view |-> "none"]
Null == -100       \* a NULL, or an optional without a value

-----------------------------------------------------------------------------
(* The row of SQLColumns *)

\* ColumnMeta::GetScalarDataType, of the text in the catalog of the service.
GetScalarDataType(text) ==
  CASE text \in {"STRING", "DOUBLE", "BOOLEAN", "TIMESTAMP"} -> text
    [] text = "INTEGER" -> "INT"
    [] OTHER -> "NOT_SET"

\* ColumnMeta::Read and ReadColumnMetadata: the columns of measured values can
\* be null, no other can.
Nullability(name) ==
  IF name \in {"int_value", "boolean_value", "double_value", "string_value"}
    THEN "NULLABLE" ELSE "NO_NULLS"

\* Faulty: the size is that of the text of a value.
CatalogRowDisplay(name, text) ==
  LET t == GetScalarDataType(text)
      s == BinaryToSqlType(t)
  IN  [view |-> "catalog", scalar |-> t, type |-> s,
       name |-> BinaryTypeToSqlTypeName(t), size |-> SqlTypeDisplaySize(s),
       digits |-> SqlTypeDecimalDigits(s), radix |-> SqlTypeNumPrecRadix(s)]

\* ColumnMetadataQuery::GetColumn.
CatalogRow(name, text) ==
  LET t == GetScalarDataType(text)
      s == BinaryToSqlType(t)
      digits == SqlTypeDecimalDigits(s)
  IN  [view |-> "catalog", scalar |-> t, type |-> s,
       name |-> BinaryTypeToSqlTypeName(t), size |-> SqlTypeColumnSize(s),
       octets |-> SqlTypeTransferLength(s),
       digits |-> IF digits < 0 THEN Null ELSE digits,
       radix |-> SqlTypeNumPrecRadix(s),
       charOctets |-> SqlTypeCharOctetLength(s),
       nullable |-> Nullability(name),
       isNullable |-> NullabilityToIsNullable(Nullability(name))]

SQLColumnsRow ==
  /\ seen' = [seen EXCEPT !.catalog = CatalogRow(remote.name, remote.text)]
  /\ UNCHANGED <<remote, types>>

-----------------------------------------------------------------------------
(* The column of a result set *)

\* ColumnMeta::ReadMetadata: a column without a scalar type is a text.  The
\* service gives a column the scalar type its catalog names.
ReadMetadata(scalarTypeSet, text) ==
  IF scalarTypeSet THEN GetScalarDataType(text) ELSE "STRING"

\* Both GetAttribute of ColumnMeta.  Precision and scale are never set and
\* nullability is never known, so those of the type are given.
GetAttribute(t) ==
  LET s == BinaryToSqlType(t)
  IN  [view |-> "result", scalar |-> t, type |-> s,
       name |-> BinaryTypeToSqlTypeName(t), size |-> SqlTypeColumnSize(s),
       display |-> SqlTypeDisplaySize(s), octets |-> SqlTypeTransferLength(s),
       digits |-> SqlTypeDecimalDigits(s), radix |-> SqlTypeNumPrecRadix(s),
       unsigned |-> SqlTypeUnsigned(s), quoted |-> t = "STRING",
       sensitive |-> t = "STRING", searchable |-> "PRED_BASIC",
       nullable |-> "UNKNOWN"]

SQLColAttributeOfResult ==
  /\ \E set \in BOOLEAN :
       seen' = [seen EXCEPT !.result = GetAttribute(ReadMetadata(set, remote.text))]
  /\ UNCHANGED <<remote, types>>

-----------------------------------------------------------------------------
(* The rows of SQLGetTypeInfo *)

\* Constructor of TypeInfoQuery; a type that is not supported is refused before
\* it is made and leaves the query of the call before.
SQLGetTypeInfoOf(t) ==
  /\ \/ /\ t = "ALL_TYPES"
        /\ types' = <<"STRING", "BOOLEAN", "DOUBLE", "TIMESTAMP", "INT", "NOT_SET">>
     \/ /\ t # "ALL_TYPES" /\ IsSqlTypeSupported(t)
        /\ types' = <<SqlTypeToBinary(t)>>
     \/ /\ t # "ALL_TYPES" /\ ~IsSqlTypeSupported(t)
        /\ UNCHANGED types
  /\ seen' = [seen EXCEPT !.typeInfo = Unseen]
  /\ UNCHANGED remote

\* TypeInfoQuery::GetColumn, for the row of scalar type t.
TypeInfoRow(t) ==
  LET s == BinaryToSqlType(t)
  IN  [view |-> "typeInfo", scalar |-> t, type |-> s,
       name |-> BinaryTypeToSqlTypeName(t), size |-> SqlTypeColumnSize(s),
       digits |-> SqlTypeDecimalDigits(s), radix |-> SqlTypeNumPrecRadix(s),
       unsigned |-> SqlTypeUnsigned(s), quoted |-> t = "STRING",
       sensitive |-> t = "STRING", searchable |-> "SEARCHABLE",
       nullable |-> "UNKNOWN"]

\* SQLFetch of the type query, then its columns.
FetchTypeInfo ==
  /\ types # <<>>
  /\ seen' = [seen EXCEPT !.typeInfo = TypeInfoRow(Head(types))]
  /\ types' = Tail(types)
  /\ UNCHANGED remote

-----------------------------------------------------------------------------
TypesInit ==
  /\ remote \in [name : ColumnNames, text : TypeTexts]
  /\ seen = [catalog |-> Unseen, result |-> Unseen, typeInfo |-> Unseen]
  /\ types = <<>>

TypesNext ==
  \/ SQLColumnsRow
  \/ SQLColAttributeOfResult
  \/ \E t \in SqlTypes \cup {"ALL_TYPES"} : SQLGetTypeInfoOf(t)
  \/ FetchTypeInfo

TypesSpec == TypesInit /\ [][TypesNext]_typesVars

-----------------------------------------------------------------------------
(* Properties *)

\* NULL and -1 both mean that there are no digits.
Digits(view) == IF view.digits < 0 THEN Null ELSE view.digits

\* Two views have these columns in common and say the same there.
SameIn(columns, v, w) == \A f \in columns \cap DOMAIN v \cap DOMAIN w : v[f] = w[f]

\* Where two views describe the same SQL type they say the same of it: its
\* size, digits and radix, and its name, sign, case and quotes unless one of
\* them is a type the driver does not know, which passes for a VARCHAR named
\* NOT_SET.
ViewsAgree ==
  \A v, w \in DOMAIN seen :
    seen[v] # Unseen /\ seen[w] # Unseen /\ seen[v].type = seen[w].type =>
      /\ Digits(seen[v]) = Digits(seen[w])
      /\ SameIn({"size", "radix", "octets"}, seen[v], seen[w])
      /\ "NOT_SET" \notin {seen[v].scalar, seen[w].scalar} =>
           SameIn({"name", "unsigned", "quoted", "sensitive"}, seen[v], seen[w])

=============================================================================
