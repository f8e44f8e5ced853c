------------------------------ MODULE TypeTraits ------------------------------
(***************************************************************************)
(* What the driver knows of the SQL types (type_traits.cpp).  Types are    *)
(* named without the prefix SQL_.                                          *)
(***************************************************************************)
EXTENDS Integers

MaxLength == 65532 \* IOTSITEWISE_SQL_MAX_LENGTH

TextTypes == {"VARCHAR", "WVARCHAR", "CHAR", "WCHAR", "LONGVARCHAR",
              "WLONGVARCHAR"}
ExactTypes == {"DECIMAL", "NUMERIC"}
IntegerTypes == {"TINYINT", "SMALLINT", "INTEGER", "BIGINT"}
ApproximateTypes == {"REAL", "FLOAT", "DOUBLE"}

IsSqlTypeSupported(t) ==
  t \in TextTypes \cup ExactTypes \cup IntegerTypes \cup ApproximateTypes
          \cup {"BIT", "TYPE_DATE", "TYPE_TIMESTAMP", "TYPE_TIME", "TYPE_NULL",
                "INTERVAL_YEAR_TO_MONTH", "INTERVAL_DAY_TO_SECOND"}

SqlTypes ==
  TextTypes \cup ExactTypes \cup IntegerTypes \cup ApproximateTypes
    \cup {"BIT", "TYPE_DATE", "TYPE_TIMESTAMP", "TYPE_TIME", "TYPE_NULL",
          "INTERVAL_YEAR_TO_MONTH", "INTERVAL_DAY_TO_SECOND", "BINARY",
          "VARBINARY", "GUID", "INTERVAL_DAY"}

BinaryTypeToSqlTypeName(t) ==
  CASE t = "BOOLEAN"   -> "BIT"
    [] t = "INT"       -> "INTEGER"
    [] t = "DOUBLE"    -> "DOUBLE"
    [] t = "TIMESTAMP" -> "TIMESTAMP"
    [] t = "NOT_SET"   -> "NOT_SET"
    [] OTHER           -> "VARCHAR"

\* A type without a scalar type of its own is taken for a text.
SqlTypeToBinary(t) ==
  CASE t = "BIT"            -> "BOOLEAN"
    [] t = "INTEGER"        -> "INT"
    [] t = "DOUBLE"         -> "DOUBLE"
    [] t = "TYPE_TIMESTAMP" -> "TIMESTAMP"
    [] OTHER                -> "STRING"

BinaryToSqlType(t) ==
  CASE t = "BOOLEAN"   -> "BIT"
    [] t = "INT"       -> "INTEGER"
    [] t = "DOUBLE"    -> "DOUBLE"
    [] t = "TIMESTAMP" -> "TYPE_TIMESTAMP"
    [] OTHER           -> "VARCHAR"

NullabilityToIsNullable(n) ==
  CASE n = "NO_NULLS" -> "NO" [] n = "NULLABLE" -> "YES" [] OTHER -> "null"

SqlTypeDisplaySize(t) ==
  CASE t \in TextTypes \cup ExactTypes -> MaxLength
    [] t \in {"BIT", "TYPE_NULL"} -> 1
    [] t = "TINYINT" -> 4 [] t = "SMALLINT" -> 6
    [] t = "INTEGER" -> 11 [] t = "BIGINT" -> 20
    [] t = "REAL" -> 14
    [] t \in {"FLOAT", "DOUBLE"} -> 24
    [] t = "TYPE_DATE" -> 10 [] t = "TYPE_TIME" -> 8
    [] t = "TYPE_TIMESTAMP" -> 20
    [] t = "INTERVAL_DAY_TO_SECOND" -> 25 [] t = "INTERVAL_YEAR_TO_MONTH" -> 12
    [] t = "GUID" -> 36
    [] OTHER -> 0

SqlTypeColumnSize(t) ==
  CASE t \in TextTypes \cup ExactTypes -> MaxLength
    [] t \in {"BIT", "TYPE_NULL"} -> 1
    [] t = "TINYINT" -> 3 [] t = "SMALLINT" -> 5
    [] t = "INTEGER" -> 10 [] t = "BIGINT" -> 19
    [] t = "REAL" -> 7
    [] t \in {"FLOAT", "DOUBLE"} -> 15
    [] t = "TYPE_DATE" -> 10 [] t = "TYPE_TIME" -> 8
    [] t = "TYPE_TIMESTAMP" -> 19
    [] t = "INTERVAL_DAY_TO_SECOND" -> 25 [] t = "INTERVAL_YEAR_TO_MONTH" -> 12
    [] t = "GUID" -> 36
    [] OTHER -> 0

SqlTypeTransferLength(t) ==
  CASE t \in TextTypes \cup ExactTypes -> MaxLength
    [] t \in {"BIT", "TINYINT", "TYPE_NULL"} -> 1
    [] t = "SMALLINT" -> 2
    [] t \in {"INTEGER", "FLOAT", "REAL"} -> 4
    [] t \in {"BIGINT", "DOUBLE"} -> 8
    [] t \in {"TYPE_DATE", "TYPE_TIME"} -> 6
    [] t \in {"TYPE_TIMESTAMP", "GUID"} -> 16
    [] t \in {"INTERVAL_DAY_TO_SECOND", "INTERVAL_YEAR_TO_MONTH"} -> 34
    [] OTHER -> 0

SqlTypeNumPrecRadix(t) ==
  CASE t \in ApproximateTypes -> 2
    [] t \in IntegerTypes \cup {"BIT"} -> 10
    [] OTHER -> 0

SqlTypeDecimalDigits(t) ==
  CASE t \in IntegerTypes -> 0 [] t = "DOUBLE" -> 15 [] OTHER -> -1

SqlTypeCharOctetLength(t) ==
  CASE t \in {"CHAR", "VARCHAR", "LONGVARCHAR"} -> MaxLength
    [] t \in {"WCHAR", "WVARCHAR", "WLONGVARCHAR"} -> 4 * MaxLength
    [] OTHER -> 0

SqlTypeUnsigned(t) ==
  t \notin IntegerTypes \cup ApproximateTypes \cup {"BIT"}

\* Digits of a number, a time or an interval in a descriptor record.
SqlTypePrecision(t) ==
  CASE t \in ExactTypes \cup ApproximateTypes -> 15
    [] t = "TINYINT" -> 3 [] t = "SMALLINT" -> 5
    [] t = "INTEGER" -> 10 [] t = "BIGINT" -> 19
    [] t = "TYPE_TIME" -> 6
    [] t = "INTERVAL_DAY_TO_SECOND" -> 11 [] t = "INTERVAL_YEAR_TO_MONTH" -> 9
    [] OTHER -> 0

SqlTypeScale(t) == IF t \in ExactTypes \cup ApproximateTypes THEN 15 ELSE 0

\* ToDriverType: the C types a buffer can have.  Those that have the number of
\* an SQL type have its name; DATETIME is SQL_C_DATE too, INTERVAL SQL_C_TIME.
ToDriverType(t) ==
  IF t \in {"CHAR", "WCHAR", "SSHORT", "SMALLINT", "USHORT", "SLONG", "INTEGER",
            "ULONG", "REAL", "DOUBLE", "BIT", "STINYINT", "TINYINT", "UTINYINT",
            "SBIGINT", "UBIGINT", "BINARY", "DATETIME", "TYPE_DATE", "INTERVAL",
            "TYPE_TIME", "TIMESTAMP", "TYPE_TIMESTAMP", "NUMERIC", "DEFAULT",
            "INTERVAL_YEAR", "INTERVAL_MONTH", "INTERVAL_DAY", "INTERVAL_HOUR",
            "INTERVAL_MINUTE", "INTERVAL_SECOND", "INTERVAL_DAY_TO_HOUR",
            "INTERVAL_DAY_TO_MINUTE", "INTERVAL_HOUR_TO_MINUTE",
            "INTERVAL_HOUR_TO_SECOND", "INTERVAL_MINUTE_TO_SECOND",
            "INTERVAL_YEAR_TO_MONTH", "INTERVAL_DAY_TO_SECOND"}
    THEN t ELSE "UNSUPPORTED"
=============================================================================
