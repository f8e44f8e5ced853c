\* Three threads set cursor names; one column of each type; one handle of each
\* kind.
CONSTANTS
  Stmts = {s1, s2, s3}
  Names = {a, b, c}
  NoName = NoName
  ColumnNames = {"int_value", "time"}
  TypeTexts = {"STRING", "DOUBLE", "BOOLEAN", "TIMESTAMP", "INTEGER", "ANY"}
  MaxRecords = 2
  MessageLength = 2
SPECIFICATION HandlesSpec
INVARIANTS
  NamesUnique
  NoNameLeftBehind
  ViewsAgree
  ErrorsAreExplained
  SuccessIsWhole
  ResultSetOfLastSuccess
PROPERTIES
  RecordsOfOthersKept
