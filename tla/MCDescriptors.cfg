\* Two connections, two statement addresses, two application descriptors; two
\* columns bound and the record of one changed by up to three calls.
CONSTANTS
  Conns = {c1, c2}
  Stmts = {s1, s2}
  Descs = {d1, d2}
  NULL = NULL
  Columns = {1, 2}
  FieldColumns = {1}
  Buffers = {"p"}
  CTypes = {"CHAR", "TYPE_DATE", "GUID"}
  FieldTypes = {"CHAR", "INTEGER", "TYPE_DATE", "DATETIME",
                "INTERVAL_YEAR_TO_MONTH"}
  MaxCalls = 3
SPECIFICATION DescriptorsSpec
SYMMETRY Interchangeable
INVARIANTS
  ArdSound
  BoundIsDescribed
  FieldsReadBack
